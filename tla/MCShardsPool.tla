---------------------------- MODULE MCShardsPool ----------------------------
(***************************************************************************)
(* Instances of ShardsPool for TLC, and the functions of HashSlots, which  *)
(* have no state, against references over bounded inputs.                  *)
(***************************************************************************)
EXTENDS ShardsPool, HashSlots

CONSTANTS n1, n2,  \* nodes
          s1,      \* a slot
          t1       \* a thread

TwoNodes == {n1, n2}
OneSlot == {s1}
OneThread == {t1}

(***************************************************************************)
(* Replies of up to three ranges of the slots 0 to 4.                      *)
(***************************************************************************)
Ranges == [min : 0..4, max : 0..4]
Replies == UNION {[1..n -> Ranges] : n \in 0..3}
Agreed == {reply \in Replies : /\ Parses(reply)
                               /\ Disjoint({reply[i] : i \in DOMAIN reply})}

\* The map of a reply has its ranges, in whatever order they come, and the
\* lookup finds the one range of each slot that has one.
ASSUME LookupIsRight ==
    \A reply \in Agreed :
       LET parsed == ParseReply(reply)
       IN  /\ parsed = {reply[i] : i \in DOMAIN reply}
           /\ \A n \in 0..5 : Lookup(parsed, n) = Covering(parsed, n)

\* Also for a reply with overlapping ranges, the lookup gives at most one range,
\* and one that has the slot.
ASSUME LookupIsSound ==
    \A reply \in {r \in Replies : Parses(r)} : \A n \in 0..5 :
       LET found == Lookup(ParseReply(reply), n)
       IN  found \subseteq Covering(ParseReply(reply), n) /\ \A r, o \in found : r = o

(***************************************************************************)
(* Keys of up to six characters, and the loops of _slot() that look for    *)
(* the two braces.                                                         *)
(***************************************************************************)
Keys == UNION {[1..n -> {LeftBrace, RightBrace, "a"}] : n \in 0..6}

\* for (i = from; i < keylen; i++) if (k[i] == c) break;
Scan(k, c, from) ==
    LET at[i \in 1..(Len(k) + 2)] == IF i > Len(k) \/ k[i] = c THEN i ELSE at[i + 1] IN at[from]

ScanHashed(k) ==
    LET s == Scan(k, LeftBrace, 1)
        e == Scan(k, RightBrace, s + 1)
    IN  IF s > Len(k) \/ e > Len(k) \/ e = s + 1 THEN k ELSE SubSeq(k, s + 1, e - 1)

ASSUME HashedAsScanned == \A k \in Keys : Hashed(k) = ScanHashed(k)

ASSUME TagsAreFixed == \A k \in Keys : Hashed(Hashed(k)) = Hashed(k)
=============================================================================
