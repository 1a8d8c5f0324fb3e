------------------------ MODULE SentinelNodes_proofs -------------------------
(***************************************************************************)
(* Proofs about SentinelNodes, for any sentinels, nodes and max_retry: no  *)
(* sentinel is lost or forgotten between the two lists, and what the       *)
(* sentinels are asked for is what NodeLookup promises.                    *)
(***************************************************************************)
EXTENDS SentinelNodes, FiniteSetTheorems, TLAPS

\* x is one of the first n elements of s.
Among(x, s, n) == \E i \in 1..n : s[i] = x

\* The call is walking over the sentinels.
Iterating == at \in {"next", "ask", "try"}

\* The iteration has still to visit x.
IsDue(x) == Among(x, healthy, left.healthy) \/ Among(x, broken, left.broken)

\* What is due is in the lists.
Bounded == left.healthy <= Len(healthy) /\ left.broken <= Len(broken)

\* Each sentinel is in one of the lists.
NoneLost == \A x \in Sentinels : Among(x, healthy, Len(healthy)) \/ Among(x, broken, Len(broken))

\* A sentinel that was not tried is due.
NoneForgotten == Iterating => \A x \in Sentinels : x \in tried \/ IsDue(x)

\* A sentinel is asked as the last of the healthy ones.
HasLast == at = "ask" => healthy # <<>>

Known == GivesUpAfterAll /\ HasLast

IInv == TypeOK /\ Bounded /\ NoneLost /\ NoneForgotten /\ Known

-----------------------------------------------------------------------------
(* Sequences.                                                              *)

LEMMA HeadAndTail ==
    ASSUME NEW S, NEW s \in Seq(S), s # <<>>
    PROVE  /\ Len(s) \in Nat \ {0} /\ Head(s) \in S /\ Head(s) = s[1]
           /\ Tail(s) \in Seq(S) /\ Len(Tail(s)) = Len(s) - 1
           /\ \A i \in 1..Len(s) - 1 : Tail(s)[i] = s[i + 1]
OBVIOUS

LEMMA Appended ==
    ASSUME NEW S, NEW s \in Seq(S), NEW y \in S
    PROVE  /\ Append(s, y) \in Seq(S) /\ Len(Append(s, y)) = Len(s) + 1 /\ Len(s) \in Nat
           /\ \A i \in 1..Len(s) : Append(s, y)[i] = s[i]
           /\ Append(s, y)[Len(s) + 1] = y
           /\ Append(s, y) # <<>>
<1>1. /\ Append(s, y) \in Seq(S) /\ Len(Append(s, y)) = Len(s) + 1 /\ Len(s) \in Nat
      /\ \A i \in 1..Len(s) : Append(s, y)[i] = s[i]
      /\ Append(s, y)[Len(s) + 1] = y
  OBVIOUS
<1> QED BY <1>1

LEMMA Prepended ==
    ASSUME NEW S, NEW s \in Seq(S), NEW y \in S
    PROVE  /\ <<y>> \o s \in Seq(S) /\ Len(<<y>> \o s) = Len(s) + 1 /\ Len(s) \in Nat
           /\ (<<y>> \o s)[1] = y
           /\ \A i \in 1..Len(s) : (<<y>> \o s)[i + 1] = s[i]
OBVIOUS

\* Of the first n elements, the head is the first, and the others are the first
\* of the tail.
LEMMA TailHas ==
    ASSUME NEW S, NEW s \in Seq(S), NEW n \in 1..Len(s), NEW x, Among(x, s, n)
    PROVE  x = Head(s) \/ Among(x, Tail(s), n - 1)
<1>1. s # <<>> /\ Len(s) \in Nat
  OBVIOUS
<1>2. PICK i \in 1..n : s[i] = x
  BY DEF Among
<1>3. CASE i = 1
  BY <1>1, <1>2, <1>3, HeadAndTail
<1>4. CASE i # 1
  <2>1. i - 1 \in 1..n - 1 /\ i - 1 \in 1..Len(s) - 1 /\ (i - 1) + 1 = i
    BY <1>1, <1>4
  <2>2. Tail(s)[i - 1] = x
    BY <1>1, <1>2, <2>1, HeadAndTail
  <2> QED BY <2>1, <2>2 DEF Among
<1> QED BY <1>3, <1>4

LEMMA AppendedHas ==
    ASSUME NEW S, NEW s \in Seq(S), NEW y \in S, NEW n \in 0..Len(s), NEW x
    PROVE  /\ Among(x, s, n) => Among(x, Append(s, y), n) /\ Among(x, Append(s, y), Len(s) + 1)
           /\ Among(y, Append(s, y), Len(s) + 1)
<1>1. /\ Len(s) \in Nat /\ \A i \in 1..Len(s) : Append(s, y)[i] = s[i]
      /\ Append(s, y)[Len(s) + 1] = y
  BY Appended
<1>2. 1..n \subseteq 1..Len(s) /\ 1..n \subseteq 1..Len(s) + 1 /\ Len(s) + 1 \in 1..Len(s) + 1
  BY <1>1
<1> QED BY <1>1, <1>2 DEF Among

LEMMA PrependedHas ==
    ASSUME NEW S, NEW s \in Seq(S), NEW y \in S, NEW n \in 0..Len(s), NEW x
    PROVE  Among(x, s, n) \/ x = y => Among(x, <<y>> \o s, n + 1)
<1>1. /\ Len(s) \in Nat /\ \A i \in 1..Len(s) : (<<y>> \o s)[i + 1] = s[i]
      /\ (<<y>> \o s)[1] = y
  BY Prepended
<1>2. 1 \in 1..n + 1 /\ \A i \in 1..n : i + 1 \in 1..n + 1 /\ i \in 1..Len(s)
  BY <1>1
<1> QED BY <1>1, <1>2 DEF Among

\* What next() does with a list: the head goes to its end.
LEMMA RotatedIs ==
    ASSUME NEW S, NEW s \in Seq(S), s # <<>>
    PROVE  Rotated(s) \in Seq(S) /\ Len(Rotated(s)) = Len(s) /\ Len(s) \in Nat \ {0}
           /\ Rotated(s) # <<>>
BY HeadAndTail, Appended DEF Rotated

LEMMA RotatedHas ==
    ASSUME NEW S, NEW s \in Seq(S), NEW n \in 1..Len(s), NEW x, Among(x, s, n)
    PROVE  /\ x = Head(s) \/ Among(x, Rotated(s), n - 1)
           /\ Among(x, Rotated(s), Len(s))
<1>1. /\ Tail(s) \in Seq(S) /\ Head(s) \in S /\ Len(Tail(s)) = Len(s) - 1 /\ Len(s) \in Nat
      /\ Len(Tail(s)) + 1 = Len(s) /\ n - 1 \in 0..Len(Tail(s))
  BY HeadAndTail
<1>2. x = Head(s) \/ Among(x, Tail(s), n - 1)
  BY TailHas
<1> QED BY <1>1, <1>2, AppendedHas DEF Rotated

LEMMA LastIsOne ==
    ASSUME NEW S, NEW s \in Seq(S), s # <<>>
    PROVE  Last(s) \in S
BY DEF Last

\* The list of all sentinels has all of them.
LEMMA AllListed ==
    /\ SetToSeq(Sentinels) \in Seq(Sentinels)
    /\ \A x \in Sentinels : Among(x, SetToSeq(Sentinels), Len(SetToSeq(Sentinels)))
<1> DEFINE n == Cardinality(Sentinels)
           f == SetToSeq(Sentinels)
<1>1. n \in Nat
  BY SentinelAssumption, FS_CardinalityType
<1>2. PICK b : b \in Bijection(1..n, Sentinels)
  BY SentinelAssumption, FS_CardinalityType DEF ExistsBijection
<1>3. b \in [1..n -> Sentinels] /\ IsInjective(b)
  BY <1>2 DEF Bijection, Injection, IsInjective
<1>4. f \in [1..n -> Sentinels] /\ IsInjective(f)
  BY <1>3 DEF SetToSeq
<1>5. f \in Injection(1..n, Sentinels)
  BY <1>4 DEF Injection, IsInjective
<1>6. IsFiniteSet(1..n) /\ Cardinality(1..n) = n
  BY <1>1, FS_Interval
<1>7. f \in Surjection(1..n, Sentinels)
  BY <1>5, <1>6, FS_Injection, SentinelAssumption
<1>8. f \in Seq(Sentinels) /\ Len(f) = n
  BY <1>1, <1>4
<1> QED BY <1>7, <1>8 DEF Surjection, Among

-----------------------------------------------------------------------------
(* The iteration.                                                          *)

\* The lists as they are, seen by any step that leaves them alone.
LEMMA ListsStay ==
    ASSUME Bounded /\ NoneLost /\ NoneForgotten,
           UNCHANGED <<healthy, broken, left, tried>>, Iterating' => Iterating
    PROVE  (Bounded /\ NoneLost /\ NoneForgotten)'
BY DEF Bounded, NoneLost, NoneForgotten, IsDue, Iterating

\* When the iteration starts again, what is in the lists is due.
LEMMA AllDue ==
    ASSUME TypeOK, NoneLost, StartIteration, UNCHANGED <<healthy, broken>>
    PROVE  (Bounded /\ NoneLost /\ NoneForgotten)'
<1>1. Len(healthy) \in Nat /\ Len(broken) \in Nat
  BY DEF TypeOK
<1> QED BY <1>1 DEF Bounded, NoneLost, NoneForgotten, IsDue, StartIteration

\* The head of the healthy ones is there.
LEMMA HealthyHead ==
    ASSUME TypeOK, Bounded, left.healthy > 0
    PROVE  /\ healthy # <<>> /\ Head(healthy) \in Sentinels
           /\ left.healthy \in 1..Len(healthy) /\ left.broken \in 0..Len(broken)
           /\ Len(healthy) \in Nat \ {0} /\ Len(broken) \in Nat
           /\ Len(healthy) \in 1..Len(healthy)
<1>1. healthy \in Seq(Sentinels) /\ broken \in Seq(Sentinels) /\ left.healthy \in Nat /\ left.broken \in Nat
  BY DEF TypeOK
<1>2. Len(healthy) \in Nat /\ Len(broken) \in Nat /\ left.healthy <= Len(healthy) /\ left.broken <= Len(broken)
  BY <1>1 DEF Bounded
<1>3. healthy # <<>>
  BY <1>1, <1>2
<1> QED BY <1>1, <1>2, <1>3

LEMMA BrokenHead ==
    ASSUME TypeOK, Bounded, left.broken > 0
    PROVE  /\ broken # <<>> /\ Head(broken) \in Sentinels
           /\ left.broken \in 1..Len(broken) /\ left.healthy \in 0..Len(healthy)
           /\ Len(broken) \in Nat \ {0} /\ Len(healthy) \in Nat
           /\ Len(broken) \in 1..Len(broken)
<1>1. healthy \in Seq(Sentinels) /\ broken \in Seq(Sentinels) /\ left.healthy \in Nat /\ left.broken \in Nat
  BY DEF TypeOK
<1>2. Len(healthy) \in Nat /\ Len(broken) \in Nat /\ left.healthy <= Len(healthy) /\ left.broken <= Len(broken)
  BY <1>1 DEF Bounded
<1>3. broken # <<>>
  BY <1>1, <1>2
<1> QED BY <1>1, <1>2, <1>3

\* A sentinel that is set aside is due among the broken ones.
LEMMA SetAsideKeeps == IInv /\ SetAside => IInv'
<1> SUFFICES ASSUME IInv, SetAside PROVE IInv'
  OBVIOUS
<1> USE DEF IInv
<1> DEFINE h == Head(healthy)
           l == [healthy |-> left.healthy - 1, broken |-> left.broken + 1]
<1>1. /\ healthy # <<>> /\ h \in Sentinels
      /\ left.healthy \in 1..Len(healthy) /\ left.broken \in 0..Len(broken)
      /\ Len(healthy) \in Nat \ {0} /\ Len(broken) \in Nat /\ Len(healthy) \in 1..Len(healthy)
  BY HealthyHead DEF SetAside
<1>2. /\ at = "next" /\ at' = "next" /\ tried' = tried /\ left' = l
      /\ healthy' = Tail(healthy) /\ broken' = <<h>> \o broken /\ bad' = bad \ {h}
      /\ UNCHANGED <<role, retries, candidates, tried, master, knows>>
  BY DEF SetAside
<1>3. healthy \in Seq(Sentinels) /\ broken \in Seq(Sentinels) /\ left.healthy \in Nat /\ left.broken \in Nat
  BY DEF TypeOK
<1>4. /\ healthy' \in Seq(Sentinels) /\ Len(healthy') = Len(healthy) - 1
      /\ broken' \in Seq(Sentinels) /\ Len(broken') = Len(broken) + 1
  BY <1>1, <1>2, <1>3, HeadAndTail, Prepended
<1>5. l.healthy = left.healthy - 1 /\ l.broken = left.broken + 1 /\ l \in [healthy : Nat, broken : Nat]
  BY <1>1
<1>6. TypeOK'
  BY <1>2, <1>4, <1>5 DEF TypeOK
<1>7. Bounded'
  BY <1>1, <1>2, <1>4, <1>5 DEF Bounded
<1>8. NoneLost'
  <2> SUFFICES ASSUME NEW x \in Sentinels
               PROVE  Among(x, healthy', Len(healthy')) \/ Among(x, broken', Len(broken'))
    BY DEF NoneLost
  <2> Len(broken) \in 0..Len(broken)
    BY <1>1
  <2>1. CASE Among(x, healthy, Len(healthy))
    <3>1. x = h \/ Among(x, Tail(healthy), Len(healthy) - 1)
      BY <1>1, <1>3, <2>1, TailHas
    <3>2. x = h => Among(x, <<h>> \o broken, Len(broken) + 1)
      BY <1>1, <1>3, PrependedHas
    <3> QED BY <1>2, <1>4, <3>1, <3>2
  <2>2. CASE Among(x, broken, Len(broken))
    BY <1>1, <1>2, <1>3, <1>4, <2>2, PrependedHas
  <2> QED BY <2>1, <2>2 DEF NoneLost
<1>9. NoneForgotten'
  <2> SUFFICES ASSUME NEW x \in Sentinels, x \notin tried
               PROVE  Among(x, healthy', l.healthy) \/ Among(x, broken', l.broken)
    BY <1>2 DEF NoneForgotten, IsDue
  <2>1. IsDue(x)
    BY <1>2 DEF NoneForgotten, Iterating
  <2>2. CASE Among(x, healthy, left.healthy)
    <3>1. x = h \/ Among(x, Tail(healthy), left.healthy - 1)
      BY <1>1, <1>3, <2>2, TailHas
    <3>2. x = h => Among(x, <<h>> \o broken, left.broken + 1)
      BY <1>1, <1>3, PrependedHas
    <3> QED BY <1>2, <1>5, <3>1, <3>2
  <2>3. CASE Among(x, broken, left.broken)
    BY <1>1, <1>2, <1>3, <1>5, <2>3, PrependedHas
  <2> QED BY <2>1, <2>2, <2>3 DEF IsDue
<1>10. Known'
  BY <1>2 DEF Known, GivesUpAfterAll, HasLast
<1> QED BY <1>6, <1>7, <1>8, <1>9, <1>10

LEMMA NextHealthyKeeps == IInv /\ NextHealthy => IInv'
<1> SUFFICES ASSUME IInv, NextHealthy PROVE IInv'
  OBVIOUS
<1> USE DEF IInv
<1> DEFINE h == Head(healthy)
           l == [left EXCEPT !.healthy = @ - 1]
<1>1. /\ healthy # <<>> /\ h \in Sentinels
      /\ left.healthy \in 1..Len(healthy) /\ left.broken \in 0..Len(broken)
      /\ Len(healthy) \in Nat \ {0} /\ Len(broken) \in Nat /\ Len(healthy) \in 1..Len(healthy)
  BY HealthyHead DEF NextHealthy
<1>2. /\ at = "next" /\ at' = "ask" /\ tried' = tried \cup {h} /\ left' = l
      /\ healthy' = Rotated(healthy)
      /\ UNCHANGED <<broken, bad, role, retries, candidates, master, knows>>
  BY DEF NextHealthy
<1>3. healthy \in Seq(Sentinels) /\ broken \in Seq(Sentinels) /\ left \in [healthy : Nat, broken : Nat]
  BY DEF TypeOK
<1>4. healthy' \in Seq(Sentinels) /\ Len(healthy') = Len(healthy) /\ healthy' # <<>>
  BY <1>1, <1>2, <1>3, RotatedIs
<1>5. l.healthy = left.healthy - 1 /\ l.broken = left.broken /\ l \in [healthy : Nat, broken : Nat]
  BY <1>1, <1>3
<1>6. TypeOK'
  BY <1>1, <1>2, <1>4, <1>5 DEF TypeOK
<1>7. Bounded'
  BY <1>1, <1>2, <1>4, <1>5 DEF Bounded
<1>8. NoneLost'
  BY <1>1, <1>2, <1>3, <1>4, RotatedHas DEF NoneLost
<1>9. NoneForgotten'
  <2> SUFFICES ASSUME NEW x \in Sentinels, x \notin tried'
               PROVE  Among(x, healthy', l.healthy) \/ Among(x, broken', l.broken)
    BY <1>2 DEF NoneForgotten, IsDue
  <2>1. IsDue(x)
    BY <1>2 DEF NoneForgotten, Iterating
  <2>2. CASE Among(x, healthy, left.healthy)
    <3>1. x = h \/ Among(x, Rotated(healthy), left.healthy - 1)
      BY <1>1, <1>3, <2>2, RotatedHas
    <3> QED BY <1>2, <1>5, <3>1
  <2>3. CASE Among(x, broken, left.broken)
    BY <1>2, <1>5, <2>3
  <2> QED BY <2>1, <2>2, <2>3 DEF IsDue
<1>10. Known'
  BY <1>2, <1>4 DEF Known, GivesUpAfterAll, HasLast
<1> QED BY <1>6, <1>7, <1>8, <1>9, <1>10

LEMMA ReconnectKeeps == IInv /\ Reconnect => IInv'
<1> SUFFICES ASSUME IInv, Reconnect PROVE IInv'
  OBVIOUS
<1> USE DEF IInv
<1> DEFINE b == Head(broken)
           l == [left EXCEPT !.broken = @ - 1]
<1>1. /\ broken # <<>> /\ b \in Sentinels
      /\ left.broken \in 1..Len(broken) /\ left.healthy \in 0..Len(healthy)
      /\ Len(broken) \in Nat \ {0} /\ Len(healthy) \in Nat /\ Len(broken) \in 1..Len(broken)
  BY BrokenHead DEF Reconnect
<1>2. /\ at = "next" /\ tried' = tried \cup {b} /\ left' = l /\ left.healthy = 0
      /\ UNCHANGED <<bad, role, retries, candidates, master, knows>>
  BY DEF Reconnect
<1>3. healthy \in Seq(Sentinels) /\ broken \in Seq(Sentinels) /\ left \in [healthy : Nat, broken : Nat]
  BY DEF TypeOK
<1>4. l.broken = left.broken - 1 /\ l.healthy = left.healthy /\ l \in [healthy : Nat, broken : Nat]
  BY <1>1, <1>3
<1>5. ASSUME NEW x \in Sentinels, x \notin tried'
      PROVE  Among(x, Tail(broken), left.broken - 1) /\ Among(x, Rotated(broken), left.broken - 1)
  <2>1. IsDue(x) /\ x # b
    BY <1>2, <1>5 DEF NoneForgotten, Iterating
  <2>2. ~Among(x, healthy, left.healthy)
    BY <1>2 DEF Among
  <2>3. Among(x, broken, left.broken)
    BY <2>1, <2>2 DEF IsDue
  <2> QED BY <1>1, <1>3, <2>1, <2>3, TailHas, RotatedHas
<1>6. CASE healthy' = Append(healthy, b) /\ broken' = Tail(broken) /\ at' = "ask"
  <2>1. /\ healthy' \in Seq(Sentinels) /\ Len(healthy') = Len(healthy) + 1 /\ healthy' # <<>>
        /\ broken' \in Seq(Sentinels) /\ Len(broken') = Len(broken) - 1
    BY <1>1, <1>3, <1>6, HeadAndTail, Appended
  <2>2. TypeOK'
    BY <1>1, <1>2, <1>4, <1>6, <2>1 DEF TypeOK
  <2>3. Bounded'
    BY <1>1, <1>2, <1>4, <2>1 DEF Bounded
  <2>4. NoneLost'
    <3> SUFFICES ASSUME NEW x \in Sentinels
                 PROVE  Among(x, healthy', Len(healthy')) \/ Among(x, broken', Len(broken'))
      BY DEF NoneLost
    <3>1. CASE Among(x, healthy, Len(healthy))
      BY <1>1, <1>3, <1>6, <2>1, <3>1, AppendedHas, SMTT(20)
    <3>2. CASE Among(x, broken, Len(broken))
      <4>1. x = b \/ Among(x, Tail(broken), Len(broken) - 1)
        BY <1>1, <1>3, <3>2, TailHas
      <4>2. x = b => Among(x, Append(healthy, b), Len(healthy) + 1)
        BY <1>1, <1>3, AppendedHas
      <4> QED BY <1>6, <2>1, <4>1, <4>2
    <3> QED BY <3>1, <3>2 DEF NoneLost
  <2>5. NoneForgotten'
    BY <1>2, <1>4, <1>5, <1>6 DEF NoneForgotten, IsDue
  <2>6. Known'
    BY <1>6, <2>1 DEF Known, GivesUpAfterAll, HasLast
  <2> QED BY <2>2, <2>3, <2>4, <2>5, <2>6
<1>7. CASE broken' = Rotated(broken) /\ UNCHANGED <<healthy, at>>
  <2>1. broken' \in Seq(Sentinels) /\ Len(broken') = Len(broken)
    BY <1>1, <1>3, <1>7, RotatedIs
  <2>2. TypeOK'
    BY <1>1, <1>2, <1>4, <1>7, <2>1 DEF TypeOK
  <2>3. Bounded'
    BY <1>1, <1>2, <1>4, <1>7, <2>1 DEF Bounded
  <2>4. NoneLost'
    BY <1>1, <1>3, <1>7, <2>1, RotatedHas DEF NoneLost
  <2>5. NoneForgotten'
    BY <1>2, <1>4, <1>5, <1>7 DEF NoneForgotten, IsDue
  <2>6. Known'
    BY <1>2, <1>7 DEF Known, GivesUpAfterAll, HasLast
  <2> QED BY <2>2, <2>3, <2>4, <2>5, <2>6
<1> QED BY <1>6, <1>7 DEF Reconnect

\* The other steps of a call, which leave the lists alone.
LEMMA GiveUpKeeps == IInv /\ GiveUp => IInv'
<1> SUFFICES ASSUME IInv, GiveUp PROVE IInv'
  OBVIOUS
<1> USE DEF IInv, GiveUp
<1>1. (Bounded /\ NoneLost /\ NoneForgotten)'
  BY ListsStay DEF listVars, Iterating
<1>2. TypeOK'
  BY DEF TypeOK, listVars
<1>3. tried = Sentinels
  <2>1. \A x \in Sentinels : ~IsDue(x)
    BY DEF IsDue, Among
  <2> QED BY <2>1 DEF NoneForgotten, Iterating, TypeOK
<1> QED BY <1>1, <1>2, <1>3 DEF Known, GivesUpAfterAll, HasLast

LEMMA BeginCallKeeps == IInv /\ BeginCall => IInv'
<1> SUFFICES ASSUME IInv, BeginCall PROVE IInv'
  OBVIOUS
<1> USE DEF IInv, BeginCall
<1>1. (Bounded /\ NoneLost /\ NoneForgotten)'
  BY AllDue
<1>2. TypeOK'
  BY DEF TypeOK, StartIteration
<1> QED BY <1>1, <1>2 DEF Known, GivesUpAfterAll, HasLast

LEMMA AskKeeps == IInv /\ (AskSentinel \/ AskFails) => IInv'
<1> SUFFICES ASSUME IInv, AskSentinel \/ AskFails PROVE IInv'
  OBVIOUS
<1> USE DEF IInv
<1>1. (Bounded /\ NoneLost /\ NoneForgotten)'
  BY ListsStay DEF AskSentinel, AskFails, NextSentinel, listVars, Iterating
<1>2. Last(healthy) \in Sentinels
  BY LastIsOne DEF Known, HasLast, TypeOK, AskSentinel, AskFails
<1>3. TypeOK'
  <2>1. CASE AskSentinel
    <3>1. candidates' \subseteq Nodes
      BY <1>2, <2>1 DEF AskSentinel, Answers, TypeOK
    <3> QED BY <2>1, <3>1 DEF AskSentinel, listVars, TypeOK
  <2>2. CASE AskFails
    <3>1. bad' \subseteq Sentinels
      BY <1>2, <2>2 DEF AskFails, TypeOK
    <3> QED BY <2>2, <3>1 DEF AskFails, NextSentinel, TypeOK
  <2> QED BY <2>1, <2>2
<1>4. at' \in {"next", "try"}
  BY DEF AskSentinel, AskFails, NextSentinel
<1> QED BY <1>1, <1>3, <1>4 DEF Known, GivesUpAfterAll, HasLast

LEMMA FoundKeeps == ASSUME NEW n \in Nodes PROVE IInv /\ Found(n) => IInv'
<1> SUFFICES ASSUME IInv, Found(n) PROVE IInv'
  OBVIOUS
<1> USE DEF IInv, Found
<1>1. (Bounded /\ NoneLost /\ NoneForgotten)'
  BY ListsStay DEF listVars, Iterating
<1>2. TypeOK'
  BY DEF TypeOK, listVars
<1> QED BY <1>1, <1>2 DEF Known, GivesUpAfterAll, HasLast

\* After an exception the call goes on.
LEMMA TryNextIs ==
    ASSUME TypeOK, NEW n \in Nodes, at = "try", TryNext(n)
    PROVE  at' \in {"next", "try"} /\ candidates' \subseteq Nodes
BY DEF TryNext, NextSentinel, TypeOK

LEMMA NodeFailsKeeps == ASSUME NEW n \in Nodes PROVE IInv /\ NodeFails(n) => IInv'
<1> SUFFICES ASSUME IInv, NodeFails(n) PROVE IInv'
  OBVIOUS
<1> USE DEF IInv, NodeFails
<1>1. at' \in {"next", "try"} /\ candidates' \subseteq Nodes
  BY TryNextIs
<1>2. (Bounded /\ NoneLost /\ NoneForgotten)'
  BY ListsStay DEF listVars, Iterating
<1>3. TypeOK'
  BY <1>1 DEF TypeOK, listVars
<1> QED BY <1>1, <1>2, <1>3 DEF Known, GivesUpAfterAll, HasLast

LEMMA WrongRoleKeeps == ASSUME NEW n \in Nodes PROVE IInv /\ WrongRole(n) => IInv'
<1> SUFFICES ASSUME IInv, WrongRole(n) PROVE IInv'
  OBVIOUS
<1> USE DEF IInv, WrongRole
<1>1. CASE retries < MaxRetry
  <2>1. at' = "next" /\ candidates' = {} /\ StartIteration /\ retries' = retries + 1
    BY <1>1 DEF NextSentinel
  <2>2. (Bounded /\ NoneLost /\ NoneForgotten)'
    BY <2>1, AllDue
  <2>3. TypeOK'
    BY <2>1 DEF TypeOK, StartIteration
  <2> QED BY <2>1, <2>2, <2>3 DEF Known, GivesUpAfterAll, HasLast
<1>2. CASE ~(retries < MaxRetry)
  <2>1. TryNext(n) /\ UNCHANGED <<retries, left, tried>>
    BY <1>2
  <2>2. at' \in {"next", "try"} /\ candidates' \subseteq Nodes
    BY <2>1, TryNextIs
  <2>3. (Bounded /\ NoneLost /\ NoneForgotten)'
    BY <2>1, ListsStay DEF Iterating
  <2>4. TypeOK'
    BY <2>1, <2>2 DEF TypeOK
  <2> QED BY <2>2, <2>3, <2>4 DEF Known, GivesUpAfterAll, HasLast
<1> QED BY <1>1, <1>2

LEMMA CallEndsKeeps == IInv /\ CallEnds => IInv'
<1> SUFFICES ASSUME IInv, CallEnds PROVE IInv'
  OBVIOUS
<1> USE DEF IInv, CallEnds
<1>1. Len(healthy) \in Nat /\ Len(broken) \in Nat
  BY DEF TypeOK
<1>2. (Bounded /\ NoneLost /\ NoneForgotten)'
  BY <1>1 DEF Bounded, NoneLost, NoneForgotten, Iterating
<1>3. TypeOK'
  BY DEF TypeOK
<1> QED BY <1>2, <1>3 DEF Known, GivesUpAfterAll, HasLast

\* The servers.
LEMMA ServersKeep ==
    IInv /\ ((\E n \in Nodes : Failover(n)) \/ (\E s \in Sentinels : Learn(s)) \/ UNCHANGED vars) => IInv'
<1> SUFFICES ASSUME IInv, (\E n \in Nodes : Failover(n)) \/ (\E s \in Sentinels : Learn(s)) \/ UNCHANGED vars
             PROVE  IInv'
  OBVIOUS
<1> USE DEF IInv
<1>1. UNCHANGED <<listVars, role, at, retries, candidates, tried>> /\ master' \in Nodes
      /\ knows' \in [Sentinels -> Nodes]
  BY DEF Failover, Learn, vars, TypeOK
<1>2. (Bounded /\ NoneLost /\ NoneForgotten)'
  BY <1>1, ListsStay DEF listVars, Iterating
<1>3. TypeOK'
  BY <1>1 DEF TypeOK, listVars
<1> QED BY <1>1, <1>2, <1>3 DEF Known, GivesUpAfterAll, HasLast, listVars

-----------------------------------------------------------------------------
LEMMA InitHolds == Init => IInv
<1> SUFFICES ASSUME Init PROVE IInv
  OBVIOUS
<1> USE DEF Init
<1>1. TypeOK
  BY AllListed DEF TypeOK
<1>2. Len(<<>>) = 0 /\ Len(broken) \in Nat
  BY AllListed
<1> QED BY <1>1, <1>2, AllListed
        DEF IInv, Bounded, NoneLost, NoneForgotten, Iterating, Known, GivesUpAfterAll, HasLast

LEMMA NextKeeps == IInv /\ [Next]_vars => IInv'
BY SetAsideKeeps, NextHealthyKeeps, ReconnectKeeps, GiveUpKeeps, BeginCallKeeps, AskKeeps, FoundKeeps,
   NodeFailsKeeps, WrongRoleKeeps, CallEndsKeeps, ServersKeep
   DEF Next, Call

LEMMA Invariant == Spec => []IInv
BY InitHolds, NextKeeps, PTL DEF Spec

\* The lists hold sentinels, a call is in one of its states, and nothing but
\* nodes are candidates.
THEOREM TypeSafe == Spec => []TypeOK
BY Invariant, PTL DEF IInv

\* Whatever sentinels went away, were set aside or connected again, in this call
\* or in those before it: a call that gives up has tried each of them since it
\* (re)started (Sentinel::Iterator).
THEOREM TriesAll == Spec => []GivesUpAfterAll
BY Invariant, PTL DEF IInv, Known

-----------------------------------------------------------------------------
(* The refinement of NodeLookup.                                           *)

LEMMA LookupStarts == Init => Lookup!LookupInit
BY DEF Init, Lookup!LookupInit

\* A step that only goes on is none of the lookup's.
LEMMA GoesOn ==
    ASSUME UNCHANGED <<role, master>>, Iterating, Iterating'
    PROVE  UNCHANGED Lookup!lookupVars
BY DEF Lookup!lookupVars, Iterating

LEMMA CallImplements == ASSUME IInv, Call PROVE [Lookup!LookupNext]_(Lookup!lookupVars)
<1>1. CASE SetAside \/ NextHealthy \/ Reconnect \/ AskSentinel \/ AskFails
  <2>1. UNCHANGED <<role, master>> /\ Iterating /\ Iterating'
    BY <1>1 DEF SetAside, NextHealthy, Reconnect, AskSentinel, AskFails, NextSentinel, Iterating
  <2> QED BY <2>1, GoesOn
<1>2. CASE GiveUp
  BY <1>2 DEF GiveUp, Lookup!LookupNext, Lookup!LookupFails
<1>3. ASSUME NEW n \in Nodes, Found(n) PROVE Lookup!Find(n)
  <2>1. (CHOOSE m \in {n} : TRUE) = n
    OBVIOUS
  <2> QED BY <1>3, <2>1 DEF Found, RightRole, Lookup!Find, Lookup!RightRole
<1>4. ASSUME NEW n \in Nodes, WrongRole(n) \/ NodeFails(n) PROVE UNCHANGED Lookup!lookupVars
  <2>1. UNCHANGED <<role, master>> /\ Iterating /\ Iterating'
    BY <1>4 DEF WrongRole, NodeFails, TryNext, NextSentinel, Iterating
  <2> QED BY <2>1, GoesOn
<1> QED BY <1>1, <1>2, <1>3, <1>4 DEF Call, Lookup!LookupNext

LEMMA StepImplements == IInv /\ [Next]_vars => [Lookup!LookupNext]_(Lookup!lookupVars)
<1> SUFFICES ASSUME IInv, [Next]_vars PROVE [Lookup!LookupNext]_(Lookup!lookupVars)
  OBVIOUS
<1>1. CASE BeginCall
  BY <1>1 DEF BeginCall, Lookup!LookupNext, Lookup!BeginLookup
<1>2. CASE CallEnds
  BY <1>2 DEF CallEnds, Lookup!LookupNext, Lookup!EndLookup
<1>3. ASSUME NEW n \in Nodes, Failover(n) PROVE Lookup!Promote(n)
  BY <1>3 DEF Failover, Lookup!Promote
<1>4. ASSUME NEW s \in Sentinels, Learn(s) PROVE UNCHANGED Lookup!lookupVars
  BY <1>4 DEF Learn, Lookup!lookupVars
<1>5. CASE UNCHANGED vars
  BY <1>5 DEF vars, Lookup!lookupVars
<1> QED BY <1>1, <1>2, <1>3, <1>4, <1>5, CallImplements DEF Next, Lookup!LookupNext

\* A node that a call of master() or slave() returns had the role that was
\* asked for while the call ran: the promise that AsyncConnectionPool relies on.
THEOREM Refines == Spec => ImplementsLookup
BY Invariant, LookupStarts, StepImplements, PTL DEF Spec, ImplementsLookup, Lookup!LookupSpec
=============================================================================
