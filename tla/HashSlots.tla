------------------------------ MODULE HashSlots ------------------------------
(***************************************************************************)
(* How a cluster client finds the slot of a key and the node of a slot:    *)
(* the hash tag of a key, and the lookup in the map that CLUSTER SLOTS     *)
(* gives.  Both the synchronous and the asynchronous shards pool use this  *)
(* code.  A key is a sequence of characters, two of which are braces and   *)
(* the others of any kind.  The checksum is left out: the slot of a key is *)
(* a function of what is hashed.                                           *)
(***************************************************************************)
EXTENDS Integers, Sequences

(***************************************************************************)
(* _slot(key)                                                              *)
(***************************************************************************)

LeftBrace == "left brace"
RightBrace == "right brace"

\* What a '{' at s and a '}' at e enclose is the tag of k, if they are the
\* first '{', and the first '}' after it, and there is something in between.
Encloses(k, s, e) ==
    /\ s \in 1..Len(k) /\ e \in (s + 2)..Len(k)
    /\ k[s] = LeftBrace /\ k[e] = RightBrace
    /\ \A i \in 1..(s - 1) : k[i] # LeftBrace
    /\ \A i \in (s + 1)..(e - 1) : k[i] # RightBrace

\* The part of a key that is hashed: its tag, or all of it if it has none.
Hashed(k) ==
    LET tags == {p \in (1..Len(k)) \X (1..Len(k)) : Encloses(k, p[1], p[2])}
        tag  == CHOOSE p \in tags : TRUE
    IN  IF tags = {} THEN k ELSE SubSeq(k, tag[1] + 1, tag[2] - 1)

(***************************************************************************)
(* The map from ranges of slots to nodes                                   *)
(***************************************************************************)

\* operator< of SlotRange: ranges are ordered by their last slot.
Precedes(r, o) == r.max < o.max

\* emplace() changes nothing if the map has a key that is equivalent.
Emplace(shards, r) ==
    IF \E o \in shards : ~Precedes(o, r) /\ ~Precedes(r, o) THEN shards ELSE shards \cup {r}

\* _parse_reply(): each entry of the reply, in its order. _parse_slot_info()
\* refuses an entry, and with it the reply, if its first slot is after its last.
Parses(reply) == \A i \in DOMAIN reply : reply[i].min <= reply[i].max

ParseReply(reply) ==
    LET upTo[i \in 0..Len(reply)] == IF i = 0 THEN {} ELSE Emplace(upTo[i - 1], reply[i])
    IN  upTo[Len(reply)]

\* lower_bound({slot, slot}): the first range that does not precede it.
LowerBound(shards, slot) ==
    {r \in shards : r.max >= slot /\ \A o \in shards : o.max >= slot => ~Precedes(o, r)}

\* _get_pool(), _get_node(): the entry for a slot, or none (SlotUncoveredError).
Lookup(shards, slot) == {r \in LowerBound(shards, slot) : r.min <= slot}

(***************************************************************************)
(* What they should give                                                   *)
(***************************************************************************)

\* A map as the nodes of a cluster agree on it: no slot is in two ranges.
Disjoint(shards) ==
    /\ \A r \in shards : r.min \in Nat /\ r.max \in Nat /\ r.min <= r.max
    /\ \A r, o \in shards : r # o => r.max < o.min \/ o.max < r.min

\* The ranges that have the slot, whatever their order.
Covering(shards, slot) == {r \in shards : r.min <= slot /\ slot <= r.max}
=============================================================================
