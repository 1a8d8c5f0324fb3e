---------------------------- MODULE LockMasters -----------------------------
(***************************************************************************)
(* The Redis masters a Redlock is taken on (patterns/redlock.h), as its    *)
(* clients see them: on each master the resource is a key with a value and *)
(* an expiry. All the time in this module passes on one clock; that the    *)
(* clock of a master may be fast is in Expire, by as much as the           *)
(* clock_drift_factor of the clients allows for.                           *)
(***************************************************************************)
EXTENDS Naturals, FiniteSets

CONSTANTS Clients,  \* objects that compete for the lock, each with its lock id
          Masters,  \* independent Redis instances
          Rank,     \* Rank[c][m]: the position of m in the list of masters of c
          Ttl,      \* time to live of the key
          Drift,    \* ttl * clock_drift_factor + 2ms
          MaxTime,  \* bound: the clock stops there
          Nobody    \* the value of a key that does not exist

ASSUME LockAssumption ==
    /\ IsFiniteSet(Masters) /\ Masters # {}
    /\ Rank \in [Clients -> [Masters -> Nat]]
    /\ Ttl \in Nat /\ Drift \in Nat /\ MaxTime \in Nat
    /\ Nobody \notin Clients

VARIABLES now,  \* steady_clock::now()
          key   \* key[m]: the value of the key on m, and when it expires

masterVars == <<now, key>>

NoKey == [val |-> Nobody, exp |-> 0]

MastersTypeOK ==
    /\ now \in 0..MaxTime
    /\ key \in [Masters -> [val : Clients \cup {Nobody}, exp : 0..MaxTime + Ttl]]

MastersInit == now = 0 /\ key = [m \in Masters |-> NoKey]

\* The masters on which the key has the value of c.
LockedBy(c) == {m \in Masters : key[m].val = c}

\* Of the masters in S, m is the next in the list of c.
IsNext(c, m, S) == m \in S /\ \A k \in S : Rank[c][m] <= Rank[c][k]

\* Mutant: half of the masters count as a quorum.
IsQuorum_half(S) == Cardinality(S) >= Cardinality(Masters) \div 2

\* _quorum(): `size() / 2 + 1'.
IsQuorum(S) == Cardinality(S) >= Cardinality(Masters) \div 2 + 1

\* SET key c PX ttl NX
SetNotExist(m, c) ==
    key' = IF key[m].val = Nobody THEN [key EXCEPT ![m] = [val |-> c, exp |-> now + Ttl]]
                                  ELSE key

\* PEXPIRE, if the value is still that of c.
ExtendKey(m, c) ==
    key' = IF key[m].val = c THEN [key EXCEPT ![m].exp = now + Ttl] ELSE key

\* Mutant: DEL without comparing the value first.
DeleteKey_any(m, c) == key' = [key EXCEPT ![m] = NoKey]

\* DEL, if the value is still that of c.
DeleteKey(m, c) == key' = IF key[m].val = c THEN [key EXCEPT ![m] = NoKey] ELSE key

\* A key is gone at some time after its expiry, or shortly before it if the
\* clock of the master is fast.
Expire(m) ==
    /\ key[m].val # Nobody
    /\ key[m].exp <= now + Drift
    /\ key' = [key EXCEPT ![m] = NoKey]
    /\ UNCHANGED now

Tick ==
    /\ now < MaxTime
    /\ now' = now + 1
    /\ UNCHANGED key
=============================================================================
