------------------------- MODULE QueuedRedis_proofs --------------------------
(***************************************************************************)
(* Proofs about QueuedRedis, for any number of objects, connections and    *)
(* commands: what the pool gets back is clean, and, if users give up the   *)
(* Redis object of a QueuedRedis that failed, replies are taken for those  *)
(* of the right commands and a transaction is run as a whole or not at all.*)
(*                                                                         *)
(* The argument is about what an object and its connection know of each    *)
(* other, command for command: Talks. It needs no more than the record of  *)
(* the object and that of the connection, so the facts about a step are    *)
(* stated for records, and one lemma places them into a step.              *)
(***************************************************************************)
EXTENDS QueuedRedis, SequenceTheorems, TLAPS

-----------------------------------------------------------------------------
(* An object.                                                              *)

Shape(o) ==
    /\ o.life = "none" => o = NoObject
    /\ o.life = "gone" => o.handle
    /\ o.conn = NoConn => /\ o.doing = "nothing" /\ ~o.handle /\ o.cmds = <<>>
                          /\ o.valid => ~o.open
    /\ ~o.valid => o.doing \in {"nothing", "sharing"} /\ o.cmds = <<>>
    /\ o.life = "gone" => o.doing \in {"nothing", "sharing"}
    /\ o.piped => o.tx
    /\ o.sets = {i \in DOMAIN o.cmds : o.cmds[i].op = "set"}

\* What each stage of its methods knows.
Staged(o) ==
    /\ o.doing = "nothing" /\ o.valid =>
          IF o.open THEN o.tx /\ o.cmds # <<>> ELSE o.tx => o.cmds = <<>>
    /\ o.doing = "opening" => o.tx /\ ~o.open /\ o.cmds = <<>> /\ o.next \in UserCommand
    /\ o.doing = "queueing" => o.tx /\ o.open /\ ~o.piped /\ o.next \in UserCommand
    /\ o.doing = "collecting" => /\ o.tx /\ ~o.open
                                 /\ o.left \in 0..Len(o.cmds) /\ (~o.piped => o.left = 0)
    /\ o.doing \in {"exec", "discard"} => o.tx /\ ~o.open /\ o.then = o.doing
    /\ o.doing = "reading" => ~o.tx /\ ~o.open /\ o.left \in 1..Len(o.cmds)
    /\ o.doing = "sharing" => /\ o.cmds = <<>> /\ (o.valid => ~o.open)
                              /\ \/ o.next \in UserCommand /\ o.next.op = "get"
                                 \/ o.next = Own("watch") /\ o.tx

-----------------------------------------------------------------------------
(* A connection.                                                           *)

Ordered(k) ==
    /\ Len(k.replies) <= k.written /\ k.written <= Len(k.sent)
    /\ Broken(k) => k.sent = <<>>

\* Nothing that its server has still to serve runs anything.
Harmless(k) ==
    \/ k.written = 0
    \/ k.multi # "no" /\ \A i \in DOMAIN k.sent : k.sent[i].op \notin {"exec", "discard"}

\* The commands whose replies an object has not read.
Expected(o) ==
    CASE o.doing = "opening" -> <<Own("multi")>>
      [] o.doing = "exec" -> <<Own("exec")>>
      [] o.doing = "discard" -> <<Own("discard")>>
      [] o.doing \in {"queueing", "sharing"} -> <<o.next>>
      [] o.doing \in {"collecting", "reading"} -> SubSeq(o.cmds, Len(o.cmds) - o.left + 1, Len(o.cmds))
      [] OTHER -> IF ~o.tx \/ o.piped THEN o.cmds ELSE <<>>

\* The server has opened the transaction, and not closed it.
InMulti(o, k) ==
    \/ o.open \/ o.doing = "collecting"
    \/ o.doing = "opening" /\ k.replies # <<>>
    \/ o.doing \in {"exec", "discard"} /\ k.replies = <<>>

\* The commands it has queued, if none of them was refused.
InQueue(o, k) ==
    CASE o.doing = "nothing" -> IF o.piped THEN <<>> ELSE o.cmds
      [] o.doing = "queueing" -> IF k.replies = <<>> THEN o.cmds ELSE Append(o.cmds, o.next)
      [] o.doing = "collecting" -> SubSeq(o.cmds, 1, Len(o.cmds) - o.left + Len(k.replies))
      [] o.doing \in {"exec", "discard"} -> o.cmds
      [] OTHER -> <<>>

\* The replies a method decides on.
Replied(o, k) ==
    k.replies # <<>> =>
       /\ o.doing = "opening" => Head(k.replies).kind = "ok"
       /\ o.doing = "exec" => /\ k.watch = "no"
                              /\ Head(k.replies).kind = "array" => Head(k.replies).ran = IdsOf(o.cmds)
       /\ o.doing = "discard" => k.watch = "no"

Talks(o, k) ==
    /\ k.sent = Expected(o)
    /\ k.written = IF o.doing = "nothing" THEN 0 ELSE Len(k.sent)
    /\ IF InMulti(o, k) THEN k.multi # "no" /\ (k.multi = "open" => k.queue = InQueue(o, k))
                        ELSE k.multi = "no" /\ k.queue = <<>>
    /\ ~o.tx => k.watch = "no"
    /\ Replied(o, k)

\* What an object and its connection know of each other.
Matches(o, k) ==
    /\ o.doing # "nothing" => ~Broken(k)
    /\ ~o.own /\ (~o.valid \/ o.life = "gone") => Broken(k)
    /\ o.valid /\ ~Broken(k) => Talks(o, k)
    /\ ~o.valid /\ ~Broken(k) /\ ~UseAfterFailure => Harmless(k) /\ o.doing = "nothing"

\* What a plain user and its connection know of each other.
PlainTalks(x, k) ==
    /\ k.link = "ok" /\ k.sent = <<x>> /\ k.written = 1
    /\ k.multi = "no" /\ k.queue = <<>> /\ k.watch = "no"
    /\ x.op \in {"get", "bad"}

Clean(k) == Broken(k) \/ k = Pristine

-----------------------------------------------------------------------------
(* The state.                                                              *)

Holds(q, c) == obj[q].conn = c
Free(c) == (\A q \in Queues : ~Holds(q, c)) /\ (c \in Slots => plain[c] = NoCommand)

\* A connection has one user.
Exclusive ==
    /\ \A q \in Queues : obj[q].conn \in (IF obj[q].own THEN {q} ELSE Slots) \cup {NoConn}
    /\ \A q, p \in Queues : q # p /\ obj[q].conn # NoConn => obj[p].conn # obj[q].conn
    /\ \A q \in Queues : obj[q].conn \notin idle
    /\ \A c \in Slots : plain[c] # NoCommand => c \notin idle /\ \A q \in Queues : ~Holds(q, c)

Conversations ==
    /\ \A c \in Conns : Ordered(conn[c])
    /\ \A c \in Conns : Free(c) => Clean(conn[c])
    /\ \A c \in Slots : plain[c] # NoCommand => PlainTalks(plain[c], conn[c])
    /\ \A q \in Queues : Shape(obj[q]) /\ Staged(obj[q])
    /\ \A q \in Queues : obj[q].conn # NoConn => Matches(obj[q], conn[obj[q].conn])

CoreTypes ==
    /\ conn \in [Conns -> ConnectionRecord] /\ idle \subseteq Slots
    /\ obj \in [Queues -> Object] /\ plain \in [Slots -> UserCommand \cup {NoCommand}]

IInv == CoreTypes /\ Exclusive /\ Conversations

-----------------------------------------------------------------------------
(* The commands.                                                           *)

\* The ids of the commands that q has, or has begun to queue.
Has(o, i) ==
    \/ \E j \in DOMAIN o.cmds : o.cmds[j].id = i
    \/ o.doing \in {"opening", "queueing"} /\ o.next.id = i

\* What exec() runs in one piece with the command i.
Batch(o, i) == IF o.tx THEN Range(IdsOf(o.cmds)) ELSE {i}

Executing(o) == o.doing \in {"reading", "exec"} \/ (o.doing = "collecting" /\ o.then = "exec")

Issued ==
    /\ queued \subseteq 1..issued /\ ran \subseteq 1..issued
    /\ \A b \in batches : b \subseteq queued
    /\ \A q \in Queues, i \in Ids : Has(obj[q], i) => i \in queued
    /\ \A q, p \in Queues, i \in Ids : q # p /\ Has(obj[q], i) => ~Has(obj[p], i)
    /\ \A c \in Slots : plain[c] # NoCommand => plain[c].id \in (1..issued) \ queued
    /\ \A q \in Queues : obj[q].doing = "sharing" /\ obj[q].next.op = "get" => obj[q].next.id \in (1..issued) \ queued

Batched ==
    \A q \in Queues, i \in Ids : Has(obj[q], i) =>
        IF Executing(obj[q])
        THEN /\ Batch(obj[q], i) \in batches
             /\ \A b \in batches : i \in b => b = Batch(obj[q], i)
        ELSE \A b \in batches : i \notin b

History == Issued /\ Batched /\ AllOrNothing

-----------------------------------------------------------------------------
(* Where a step happens.                                                   *)

\* Nobody but q uses c, if anybody does.
Near(q, c) ==
    \/ obj[q].conn = c
    \/ obj[q].conn = NoConn /\ (c = q \/ c \in idle)

LEMMA NearIsAlone ==
    ASSUME IInv, NEW q \in Queues, NEW c \in Conns, Near(q, c)
    PROVE  /\ \A p \in Queues : p # q => obj[p].conn # c
           /\ c \in Slots => plain[c] = NoCommand
           /\ obj[q].conn = NoConn => Free(c)
<1> USE DEF IInv, Exclusive, Near, Holds, Conns
<1>1. \A p \in Queues : p # q => obj[p].conn # c
  BY QueuedAssumption DEF CoreTypes, Object
<1>2. c \in Slots => plain[c] = NoCommand
  BY QueuedAssumption
<1>3. obj[q].conn = NoConn => obj[q].conn # c
  BY QueuedAssumption
<1> QED BY <1>1, <1>2, <1>3 DEF Free

\* A step of q on the connection c: what has to be shown of the records o and k
\* that it leaves.
Leaving(q, c, o, k) ==
    /\ o \in Object /\ k \in ConnectionRecord
    /\ Shape(o) /\ Staged(o) /\ Ordered(k)
    /\ \/ o.conn = c /\ c \in (IF o.own THEN {q} ELSE Slots) /\ Matches(o, k) /\ idle' = idle \ {c}
       \/ o.conn = NoConn /\ Clean(k) /\ idle' = idle \cup ({c} \cap Slots)
    /\ obj' = [obj EXCEPT ![q] = o]
    /\ conn' = [conn EXCEPT ![c] = k]
    /\ plain' = plain

LEMMA Placed ==
    ASSUME IInv, NEW q \in Queues, NEW c \in Conns, Near(q, c), NEW o, NEW k, Leaving(q, c, o, k)
    PROVE  IInv'
<1> USE DEF Leaving
<1>0. /\ obj \in [Queues -> Object] /\ conn \in [Conns -> ConnectionRecord] /\ idle \subseteq Slots
      /\ plain \in [Slots -> UserCommand \cup {NoCommand}] /\ NoConn \notin Conns /\ Slots \subseteq Conns
  BY QueuedAssumption DEF IInv, CoreTypes, Conns
<1>1. /\ obj'[q] = o /\ conn'[c] = k /\ (o.conn = c \/ o.conn = NoConn)
      /\ \A p \in Queues : p # q => obj'[p] = obj[p] /\ obj[p].conn # c
      /\ \A d \in Conns : d # c => conn'[d] = conn[d]
  BY <1>0, NearIsAlone
<1>2. CoreTypes'
  BY <1>0 DEF CoreTypes
<1>3. c \in Slots => plain[c] = NoCommand
  BY NearIsAlone
<1>4. Exclusive'
  <2>1. \A p \in Queues : obj'[p].conn \in (IF obj'[p].own THEN {p} ELSE Slots) \cup {NoConn}
    BY <1>1 DEF IInv, Exclusive
  <2>2. ASSUME NEW p1 \in Queues, NEW p2 \in Queues, p1 # p2, obj'[p1].conn # NoConn
        PROVE  obj'[p2].conn # obj'[p1].conn
    BY <1>0, <1>1, <2>2 DEF IInv, Exclusive
  <2>3. ASSUME NEW p \in Queues PROVE obj'[p].conn \notin idle'
    BY <1>0, <1>1, <2>3 DEF IInv, Exclusive
  <2>4. ASSUME NEW d \in Slots, plain'[d] # NoCommand PROVE d \notin idle' /\ \A p \in Queues : obj'[p].conn # d
    BY <1>0, <1>1, <1>3, <2>4 DEF IInv, Exclusive, Holds
  <2> QED BY <2>1, <2>2, <2>3, <2>4 DEF Exclusive, Holds
<1>5. Conversations'
  <2>1. \A d \in Conns : Ordered(conn'[d])
    BY <1>1 DEF IInv, Conversations
  <2>2. ASSUME NEW d \in Conns, Free(d)' PROVE Clean(conn'[d])
    <3>1. CASE d = c
      BY <1>1, <2>2, <3>1 DEF Free, Holds
    <3>2. CASE d # c
      <4>1. obj[q].conn # d
        BY <2>2, <3>2, QueuedAssumption DEF Near, Conns
      <4>2. \A p \in Queues : obj[p].conn # d
        BY <1>1, <2>2, <4>1 DEF Free, Holds
      <4> QED BY <1>1, <2>2, <3>2, <4>2 DEF IInv, Conversations, Free, Holds
    <3> QED BY <3>1, <3>2
  <2>3. ASSUME NEW d \in Slots, plain'[d] # NoCommand PROVE PlainTalks(plain'[d], conn'[d])
    BY <1>0, <1>1, <1>3, <2>3 DEF IInv, Conversations
  <2>4. \A p \in Queues : Shape(obj'[p]) /\ Staged(obj'[p])
    BY <1>1 DEF IInv, Conversations
  <2>5. ASSUME NEW p \in Queues, obj'[p].conn # NoConn PROVE Matches(obj'[p], conn'[obj'[p].conn])
    <3>1. CASE p = q
      BY <1>1, <2>5, <3>1
    <3>2. CASE p # q
      <4>1. obj'[p] = obj[p] /\ obj[p].conn # c /\ obj[p].conn \in Conns
        BY <1>0, <1>1, <2>5, <3>2 DEF Object
      <4> QED BY <1>1, <2>5, <4>1 DEF IInv, Conversations
    <3> QED BY <3>1, <3>2
  <2> QED BY <2>1, <2>2, <2>3, <2>4, <2>5 DEF Conversations
<1> QED BY <1>2, <1>4, <1>5 DEF IInv

\* What an object is when one of its methods may begin, and its connection.
Ready(o, k) ==
    /\ o \in Object /\ Shape(o) /\ Staged(o)
    /\ o.life = "live" /\ o.valid /\ o.doing = "nothing"
    /\ k \in ConnectionRecord /\ Ordered(k) /\ k.link = "ok" /\ Talks(o, k)

LEMMA PristineIs ==
    /\ Pristine \in ConnectionRecord /\ Ordered(Pristine) /\ Pristine.link = "ok"
    /\ Break \in ConnectionRecord /\ Ordered(Break) /\ Broken(Break)
    /\ NoContext \in ConnectionRecord /\ Ordered(NoContext) /\ Broken(NoContext)
<1>1. Len(<<>>) = 0 /\ <<>> \in Seq(Command) /\ <<>> \in Seq(Reply) /\ <<>> \in Seq(UserCommand)
  OBVIOUS
<1>2. /\ Pristine.link = "ok" /\ Break.link = "broken" /\ NoContext.link = "none"
      /\ \A k \in {Pristine, Break, NoContext} :
            k.sent = <<>> /\ k.written = 0 /\ k.replies = <<>> /\ k.multi = "no" /\ k.queue = <<>> /\ k.watch = "no"
  BY DEF Pristine, Break, NoContext
<1>3. Ordered(Pristine) /\ Ordered(Break) /\ Ordered(NoContext)
  BY <1>1, <1>2 DEF Ordered, Broken
<1>4. Pristine \in ConnectionRecord
  BY <1>1 DEF Pristine, ConnectionRecord, Links
<1>5. Break \in ConnectionRecord
  BY <1>4 DEF Break, ConnectionRecord, Links
<1>6. NoContext \in ConnectionRecord
  BY <1>4 DEF NoContext, ConnectionRecord, Links
<1> QED BY <1>2, <1>3, <1>4, <1>5, <1>6 DEF Broken

LEMMA Begun ==
    ASSUME IInv, NEW q \in Queues, NEW c \in Conns, Begins(q, c)
    PROVE  /\ Near(q, c) /\ Ready(obj[q], Fetched(c))
           /\ c \in (IF obj[q].own THEN {q} ELSE Slots)
<1> DEFINE o == obj[q]
           k == Fetched(c)
<1>1. Near(q, c) /\ c \in (IF o.own THEN {q} ELSE Slots) /\ NoConn \notin Conns
  BY QueuedAssumption DEF Begins, Near, Conns, IInv, Exclusive, CoreTypes
<1>2. /\ o \in Object /\ Shape(o) /\ Staged(o) /\ o.life = "live" /\ o.valid /\ o.doing = "nothing"
      /\ conn[c] \in ConnectionRecord /\ Ordered(conn[c])
  BY DEF Begins, IInv, Conversations, CoreTypes
<1>3. CASE o.conn = c
  <2>1. Matches(o, conn[c]) /\ ~Broken(conn[c]) /\ k = conn[c]
    BY <1>1, <1>3 DEF Begins, IInv, Conversations, Fetched
  <2> QED BY <1>1, <1>2, <2>1 DEF Ready, Matches, Broken
<1>4. CASE o.conn = NoConn
  <2>1. Clean(conn[c])
    BY <1>1, <1>4, NearIsAlone DEF IInv, Conversations
  <2>2. k = Pristine
    BY <2>1 DEF Clean, Fetched
  <2>3. o.cmds = <<>> /\ ~o.open
    BY <1>2, <1>4 DEF Shape
  <2>4. Expected(o) = <<>> /\ ~InMulti(o, k)
    BY <1>2, <2>3 DEF Expected, InMulti
  <2>5. Talks(o, k)
    BY <1>2, <2>2, <2>4 DEF Talks, Pristine, Replied
  <2> QED BY <1>1, <1>2, <2>2, <2>5, PristineIs DEF Ready
<1> QED BY <1>1, <1>3, <1>4 DEF Begins

-----------------------------------------------------------------------------
(* The ends of methods.                                                    *)

\* The object after _reset().
Emptied(o, c) == [o EXCEPT !.cmds = <<>>, !.sets = {}, !.doing = "nothing", !.next = NoCommand,
                           !.left = 0, !.then = "exec", !.conn = c]

LEMMA EmptiedIs ==
    ASSUME NEW o \in Object, NEW c \in Conns \cup {NoConn}
    PROVE  /\ Emptied(o, c) \in Object
           /\ Emptied(o, c).cmds = <<>> /\ Emptied(o, c).sets = {} /\ Emptied(o, c).doing = "nothing"
           /\ Emptied(o, c).conn = c
           /\ Emptied(o, c).own = o.own /\ Emptied(o, c).valid = o.valid /\ Emptied(o, c).life = o.life
           /\ Emptied(o, c).tx = o.tx /\ Emptied(o, c).piped = o.piped /\ Emptied(o, c).open = o.open
           /\ Emptied(o, c).handle = o.handle
<1>1. <<>> \in Seq(UserCommand)
  OBVIOUS
<1>2. Emptied(o, c) \in Object
  BY <1>1 DEF Emptied, Object, Doing
<1>3. o = [life |-> o.life, tx |-> o.tx, piped |-> o.piped, own |-> o.own, valid |-> o.valid, conn |-> o.conn,
           cmds |-> o.cmds, sets |-> o.sets, open |-> o.open, handle |-> o.handle, doing |-> o.doing,
           next |-> o.next, left |-> o.left, then |-> o.then]
  BY DEF Object
<1> QED BY <1>2, <1>3 DEF Emptied, Object

LEMMA EmptiedKeeps ==
    ASSUME NEW o \in Object, NEW c \in Conns \cup {NoConn}, o.life = "live", o.piped => o.tx,
           o.valid => ~o.open,
           c = NoConn => ~o.handle
    PROVE  Shape(Emptied(o, c)) /\ Staged(Emptied(o, c))
BY EmptiedIs DEF Shape, Staged

\* _reset() with the connection c as k: it goes back clean, or stays in step
\* with an object that has no transaction.
LEMMA ResetPlaced ==
    ASSUME IInv, NEW q \in Queues, NEW c \in Conns, Near(q, c),
           NEW o \in Object, NEW k \in ConnectionRecord, NEW back \in BOOLEAN,
           o.life = "live", o.piped => o.tx, o.valid => ~o.open,
           c \in (IF o.own THEN {q} ELSE Slots), Ordered(k),
           back /\ ~o.own /\ ~o.handle => Clean(k),
           Matches(Emptied(o, c), k),
           Store(c, k), Reset(q, o, c, back), plain' = plain
    PROVE  IInv'
<1> DEFINE returned == back /\ ~o.own /\ ~o.handle
           d == IF returned THEN NoConn ELSE c
           e == Emptied(o, d)
<1>1. obj' = [obj EXCEPT ![q] = e] /\ idle' = (IF returned THEN idle \cup {c} ELSE idle \ {c})
      /\ conn' = [conn EXCEPT ![c] = k]
  BY DEF Reset, Emptied, Store
<1>2. d \in Conns \cup {NoConn} /\ NoConn \notin Conns /\ (returned => c \in Slots)
  BY QueuedAssumption DEF Conns
<1>3. e \in Object /\ Shape(e) /\ Staged(e) /\ e.conn = d /\ e.own = o.own
  BY <1>2, EmptiedIs, EmptiedKeeps
<1>4. Leaving(q, c, e, k)
  BY <1>1, <1>2, <1>3 DEF Leaving
<1> QED BY <1>4, Placed

-----------------------------------------------------------------------------
(* What the operators of Connection do to a connection.                    *)

\* k and j are the same but for what was sent and what came back.
SameEnd(k, j) == k.link = j.link /\ k.multi = j.multi /\ k.queue = j.queue /\ k.watch = j.watch

LEMMA SendIs ==
    ASSUME NEW k \in ConnectionRecord, NEW x \in Command
    PROVE  /\ Send(k, x) \in ConnectionRecord /\ SameEnd(Send(k, x), k)
           /\ Send(k, x).sent = Append(k.sent, x) /\ Send(k, x).written = k.written
           /\ Send(k, x).replies = k.replies
<1>1. Append(k.sent, x) \in Seq(Command)
  BY DEF ConnectionRecord
<1> QED BY <1>1 DEF Send, ConnectionRecord, SameEnd

LEMMA FlushIs ==
    ASSUME NEW k \in ConnectionRecord
    PROVE  /\ Flush(k) \in ConnectionRecord /\ SameEnd(Flush(k), k)
           /\ Flush(k).sent = k.sent /\ Flush(k).written = Len(k.sent) /\ Flush(k).replies = k.replies
<1>1. Len(k.sent) \in Nat
  BY DEF ConnectionRecord
<1> QED BY <1>1 DEF Flush, ConnectionRecord, SameEnd

LEMMA AsksIs ==
    ASSUME NEW k \in ConnectionRecord, NEW x \in Command, Ordered(k), ~Broken(k)
    PROVE  /\ Asks(k, x) \in ConnectionRecord /\ SameEnd(Asks(k, x), k) /\ Ordered(Asks(k, x))
           /\ Asks(k, x).sent = Append(k.sent, x) /\ Asks(k, x).written = Len(k.sent) + 1
           /\ Asks(k, x).replies = k.replies
<1>1. Len(Append(k.sent, x)) = Len(k.sent) + 1 /\ Len(k.sent) \in Nat /\ Len(k.replies) \in Nat /\ k.written \in Nat
  BY DEF ConnectionRecord
<1> DEFINE j == Send(k, x)
<1>2. /\ j \in ConnectionRecord /\ SameEnd(j, k) /\ j.sent = Append(k.sent, x) /\ j.replies = k.replies
  BY SendIs
<1>3. /\ Flush(j) \in ConnectionRecord /\ SameEnd(Flush(j), j) /\ Flush(j).sent = j.sent
      /\ Flush(j).written = Len(j.sent) /\ Flush(j).replies = j.replies
  BY <1>2, FlushIs
<1> QED BY <1>1, <1>2, <1>3 DEF Asks, SameEnd, Ordered, Broken

LEMMA RecvIs ==
    ASSUME NEW k \in ConnectionRecord, Ordered(k), Answered(k)
    PROVE  /\ AfterRecv(k) \in ConnectionRecord /\ SameEnd(AfterRecv(k), k) /\ Ordered(AfterRecv(k))
           /\ k.sent # <<>> /\ ~Broken(k) /\ k.written >= 1
           /\ AfterRecv(k).sent = Tail(k.sent) /\ AfterRecv(k).written = k.written - 1
           /\ AfterRecv(k).replies = Tail(k.replies)
<1>1. /\ k.sent \in Seq(Command) /\ k.replies \in Seq(Reply) /\ k.written \in Nat
      /\ Len(k.replies) >= 1 /\ Len(k.sent) >= 1 /\ k.written >= 1 /\ k.sent # <<>> /\ ~Broken(k)
  BY DEF ConnectionRecord, Ordered, Answered
<1>2. /\ Tail(k.sent) \in Seq(Command) /\ Tail(k.replies) \in Seq(Reply) /\ k.written - 1 \in Nat
      /\ Len(Tail(k.sent)) = Len(k.sent) - 1 /\ Len(Tail(k.replies)) = Len(k.replies) - 1
  BY <1>1
<1>3. /\ AfterRecv(k) \in ConnectionRecord /\ SameEnd(AfterRecv(k), k)
      /\ AfterRecv(k).sent = Tail(k.sent) /\ AfterRecv(k).written = k.written - 1
      /\ AfterRecv(k).replies = Tail(k.replies)
  BY <1>2 DEF AfterRecv, ConnectionRecord, SameEnd
<1>4. Ordered(AfterRecv(k))
  BY <1>1, <1>2, <1>3 DEF Ordered, SameEnd, Broken
<1> QED BY <1>1, <1>3, <1>4

\* A command to a connection on which nothing is left.
LEMMA AsksFirst ==
    ASSUME NEW k \in ConnectionRecord, NEW x \in Command, Ordered(k), ~Broken(k), k.sent = <<>>
    PROVE  /\ Asks(k, x) \in ConnectionRecord /\ SameEnd(Asks(k, x), k) /\ Ordered(Asks(k, x))
           /\ Asks(k, x).sent = <<x>> /\ Len(Asks(k, x).sent) = 1 /\ Asks(k, x).written = 1
           /\ k.replies = <<>> /\ Asks(k, x).replies = <<>>
<1>1. Append(<<>>, x) = <<x>> /\ Len(<<>>) = 0 /\ Len(<<x>>) = 1
  OBVIOUS
<1>2. k.replies \in Seq(Reply) /\ k.written \in Nat /\ Len(k.replies) <= 0
  BY <1>1 DEF Ordered, ConnectionRecord
<1>3. k.replies = <<>>
  BY <1>2, EmptySeq
<1>4. /\ Asks(k, x) \in ConnectionRecord /\ SameEnd(Asks(k, x), k) /\ Ordered(Asks(k, x))
      /\ Asks(k, x).sent = Append(<<>>, x) /\ Asks(k, x).written = 0 + 1 /\ Asks(k, x).replies = <<>>
  BY <1>1, <1>3, AsksIs
<1> QED BY <1>1, <1>3, <1>4

LEMMA ElementsOf ==
    ASSUME NEW S, NEW s \in Seq(S)
    PROVE  \A i \in DOMAIN s : s[i] \in S
OBVIOUS

LEMMA TailOfOne ==
    ASSUME NEW S, NEW s \in Seq(S), s # <<>>, Len(s) <= 1
    PROVE  Tail(s) = <<>>
<1> DEFINE t == Tail(s)
<1>1. Len(s) \in Nat \ {0}
  BY ONLY EmptySeq, s \in Seq(S), s # <<>>
<1>2. t \in Seq(S) /\ Len(t) = Len(s) - 1
  BY ONLY HeadTailProperties, s \in Seq(S), s # <<>>
<1> HIDE DEF t
<1>3. Len(t) = 0
  BY <1>1, <1>2
<1>4. t = <<>>
  BY ONLY <1>2, <1>3, EmptySeq
<1> QED BY <1>4 DEF t

\* The last n elements of s, and the first.
LEMMA LastOnes ==
    ASSUME NEW S, NEW s \in Seq(S), NEW n \in 1..Len(s)
    PROVE  LET t == SubSeq(s, Len(s) - n + 1, Len(s))
           IN  /\ t \in Seq(S) /\ Len(t) = n /\ Head(t) = s[Len(s) - n + 1]
               /\ \A i \in 1..n : t[i] = s[Len(s) - n + i]
               /\ Tail(t) = SubSeq(s, Len(s) - (n - 1) + 1, Len(s))
<1> DEFINE t == SubSeq(s, Len(s) - n + 1, Len(s))
           u == SubSeq(s, Len(s) - (n - 1) + 1, Len(s))
<1>1. t \in Seq(S) /\ Len(t) = n /\ \A i \in 1..n : t[i] = s[Len(s) - n + i]
  BY SubSeqProperties
<1>2. Tail(t) = u /\ Head(t) = s[Len(s) - n + 1]
  <2>1. Len(s) - n + 1 \in 1..Len(s) /\ Len(s) \in (Len(s) - n + 1)..Len(s) /\ Len(s) - n + 1 + 1 = Len(s) - (n - 1) + 1
    OBVIOUS
  <2> QED BY <2>1, HeadTailOfSubSeq
<1> QED BY <1>1, <1>2

LEMMA FirstOnes ==
    ASSUME NEW S, NEW s \in Seq(S), NEW n \in 0..Len(s) - 1
    PROVE  Append(SubSeq(s, 1, n), s[n + 1]) = SubSeq(s, 1, n + 1)
<1> DEFINE t == SubSeq(s, 1, n)
           u == SubSeq(s, 1, n + 1)
<1>1. t \in Seq(S) /\ Len(t) = n /\ \A i \in 1..n : t[i] = s[i]
  BY SubSeqProperties
<1>2. u \in Seq(S) /\ Len(u) = n + 1 /\ \A i \in 1..n + 1 : u[i] = s[i]
  BY SubSeqProperties
<1>3. s[n + 1] \in S
  OBVIOUS
<1>4. /\ Append(t, s[n + 1]) \in Seq(S) /\ Len(Append(t, s[n + 1])) = n + 1
      /\ \A i \in 1..n + 1 : Append(t, s[n + 1])[i] = s[i]
  BY <1>1, <1>3
<1> QED BY <1>2, <1>4, SeqEqual

-----------------------------------------------------------------------------
(* The methods.                                                            *)

\* An object in use: what is true of it from one method to the next.
Working(o) ==
    /\ o.life = "live" /\ o.valid /\ (o.piped => o.tx)
    /\ o.sets = {i \in DOMAIN o.cmds : o.cmds[i].op = "set"}

SameKind(e, o) ==
    /\ e.life = o.life /\ e.valid = o.valid /\ e.tx = o.tx /\ e.piped = o.piped
    /\ e.own = o.own /\ e.handle = o.handle

Owns(o, q, c) == c \in (IF o.own THEN {q} ELSE Slots)

\* A method goes on with the object o and the connection k.
LEMMA BecomesPlaced ==
    ASSUME IInv, NEW q \in Queues, NEW c \in Conns, Near(q, c),
           NEW o \in Object, NEW k \in ConnectionRecord,
           Working(o), Staged(o), Ordered(k), k.link = "ok", Talks(o, k), Owns(o, q, c),
           Store(c, k), Becomes(q, o, c), plain' = plain
    PROVE  IInv'
<1> DEFINE e == [o EXCEPT !.conn = c]
<1>1. c \in Conns \cup {NoConn} /\ c # NoConn
  BY QueuedAssumption DEF Conns
<1>2. e \in Object /\ e.conn = c /\ SameKind(e, o)
  BY <1>1 DEF Object, SameKind
<1>3. /\ e.cmds = o.cmds /\ e.sets = o.sets /\ e.open = o.open /\ e.doing = o.doing
      /\ e.next = o.next /\ e.left = o.left /\ e.then = o.then
  BY DEF Object
<1>4. obj' = [obj EXCEPT ![q] = e] /\ idle' = idle \ {c} /\ conn' = [conn EXCEPT ![c] = k]
  BY DEF Becomes, Store
<1> HIDE DEF e
<1>5. Shape(e) /\ Staged(e)
  BY <1>1, <1>2, <1>3 DEF Shape, Staged, Working, SameKind
<1>6. Talks(e, k)
  BY <1>2, <1>3 DEF Talks, Expected, InMulti, InQueue, Replied, SameKind
<1>7. Matches(e, k)
  BY <1>2, <1>6 DEF Matches, Broken, SameKind, Working
<1>8. Leaving(q, c, e, k)
  BY <1>2, <1>4, <1>5, <1>7 DEF Leaving, SameKind, Owns
<1> QED BY <1>8, Placed

\* A method waits for a reply.
LEMMA Midway ==
    ASSUME IInv, NEW q \in Queues, obj[q].doing \notin {"nothing", "sharing"}
    PROVE  LET o == obj[q]
               c == o.conn
               k == conn[c]
           IN  /\ c \in Conns /\ Near(q, c) /\ Owns(o, q, c)
               /\ o \in Object /\ Working(o) /\ Staged(o)
               /\ k \in ConnectionRecord /\ Ordered(k) /\ k.link = "ok" /\ Talks(o, k)
<1> DEFINE o == obj[q]
           c == o.conn
           k == conn[c]
<1>1. o \in Object /\ Shape(o) /\ Staged(o)
  BY DEF IInv, CoreTypes, Conversations
<1>2. o.life = "live" /\ o.valid /\ Working(o) /\ c # NoConn
  BY <1>1 DEF Shape, Working, Object, NoObject
<1>3. c \in Conns /\ Near(q, c) /\ Owns(o, q, c)
  BY <1>1, <1>2 DEF IInv, Exclusive, Conns, Object, Near, Owns
<1>4. k \in ConnectionRecord /\ Ordered(k) /\ Matches(o, k)
  BY <1>2, <1>3 DEF IInv, CoreTypes, Conversations
<1> QED BY <1>1, <1>2, <1>3, <1>4 DEF Matches, Broken

LEMMA InvalidatePlaced ==
    ASSUME IInv, NEW q \in Queues, NEW c \in Conns, Near(q, c), NEW k \in ConnectionRecord,
           obj[q].life = "live", Owns(obj[q], q, c), Ordered(k),
           obj[q].own /\ ~Broken(k) /\ ~UseAfterFailure => Harmless(k),
           Invalidate(q, c, k), plain' = plain
    PROVE  IInv'
<1> DEFINE o == [obj[q] EXCEPT !.valid = FALSE]
           j == IF obj[q].own THEN k ELSE Break
<1>1. obj[q] \in Object /\ Shape(obj[q])
  BY DEF IInv, CoreTypes, Conversations
<1>2. o \in Object /\ o.life = "live" /\ (o.piped => o.tx) /\ ~o.valid /\ o.own = obj[q].own
  BY <1>1 DEF Object, Shape
<1>3. j \in ConnectionRecord /\ Ordered(j) /\ (~o.own => Broken(j)) /\ Store(c, j) /\ Reset(q, o, c, TRUE)
  BY <1>2, PristineIs DEF Invalidate
<1> HIDE DEF o
<1>4. Matches(Emptied(o, c), j)
  BY <1>2, <1>3, EmptiedIs DEF Matches
<1> HIDE DEF j
<1> QED BY <1>2, <1>3, <1>4, ResetPlaced DEF Owns, Clean

LEMMA CountedIs ==
    ASSUME NEW o \in Object, Working(o), o.next \in UserCommand
    PROVE  /\ Counted(o) \in Object /\ Working(Counted(o)) /\ SameKind(Counted(o), o)
           /\ Counted(o).cmds = Append(o.cmds, o.next) /\ Counted(o).cmds # <<>>
           /\ Counted(o).doing = "nothing" /\ Counted(o).open = o.open
<1> DEFINE e == Counted(o)
           x == o.next
           s == Append(o.cmds, x)
           S == IF x.op = "set" THEN o.sets \cup {Len(o.cmds) + 1} ELSE o.sets
<1>1. o.cmds \in Seq(UserCommand) /\ o.sets \in SUBSET Nat /\ Len(o.cmds) \in Nat
  BY DEF Object
<1>2. /\ s \in Seq(UserCommand) /\ s # <<>> /\ Len(s) = Len(o.cmds) + 1
      /\ \A i \in 1..Len(o.cmds) : s[i] = o.cmds[i]
      /\ s[Len(o.cmds) + 1] = x
  BY <1>1, AppendProperties
<1>3. S = {i \in DOMAIN s : s[i].op = "set"}
  <2>1. DOMAIN s = 1..Len(o.cmds) + 1 /\ DOMAIN o.cmds = 1..Len(o.cmds)
    BY <1>1, <1>2
  <2> QED BY <1>1, <1>2, <2>1 DEF Working
<1>4. S \in SUBSET Nat
  BY <1>1
<1>5. e = [o EXCEPT !.cmds = s, !.next = NoCommand, !.doing = "nothing", !.sets = S]
  BY DEF Counted
<1> HIDE DEF s, S, e
<1>6. e \in Object /\ SameKind(e, o) /\ e.cmds = s /\ e.sets = S /\ e.doing = "nothing" /\ e.open = o.open
  BY <1>2, <1>4, <1>5 DEF Object, Doing, SameKind
<1>7. Working(e)
  BY <1>3, <1>6 DEF Working, SameKind
<1> QED BY <1>2, <1>6, <1>7 DEF s, e

\* What a connection knows of an object whose command goes out now.
Opened(o, k) ==
    /\ k.link = "ok" /\ Ordered(k) /\ k.written = 0
    /\ k.sent = IF WaitsForQueued(o) THEN <<>> ELSE o.cmds
    /\ o.open = o.tx
    /\ IF o.open THEN k.multi # "no" /\ (k.multi = "open" => k.queue = IF o.piped THEN <<>> ELSE o.cmds)
                 ELSE k.multi = "no" /\ k.queue = <<>>
    /\ ~o.tx => k.watch = "no"

LEMMA SendsPlaced ==
    ASSUME IInv, NEW q \in Queues, NEW c \in Conns, Near(q, c),
           NEW o \in Object, NEW k \in ConnectionRecord, o.next \in UserCommand,
           Working(o), Opened(o, k), Owns(o, q, c),
           Store(c, SendsCommand(o, k)), Becomes(q, AfterSend(o), c), plain' = plain
    PROVE  IInv'
<1> DEFINE x == o.next
<1>1. x \in Command /\ o.cmds \in Seq(UserCommand) /\ o.open \in BOOLEAN /\ o.tx \in BOOLEAN
  BY DEF Command, Object
<1>2. k.replies = <<>> /\ ~Broken(k)
  <2>1. k.replies \in Seq(Reply) /\ Len(k.replies) <= 0
    BY DEF ConnectionRecord, Opened, Ordered
  <2> QED BY <2>1, EmptySeq DEF Opened, Broken
<1>3. CASE WaitsForQueued(o)
  <2> DEFINE e == [o EXCEPT !.doing = "queueing"]
             j == Asks(k, x)
  <2>1. e \in Object /\ Working(e) /\ SameKind(e, o)
    BY DEF Object, Doing, SameKind, Working
  <2>2. e.cmds = o.cmds /\ e.open = o.open /\ e.doing = "queueing" /\ e.next = x
    BY DEF Object
  <2>3. /\ j \in ConnectionRecord /\ SameEnd(j, k) /\ Ordered(j) /\ j.sent = <<x>> /\ j.written = 1
        /\ j.replies = <<>> /\ Len(j.sent) = 1
    BY <1>1, <1>2, <1>3, AsksFirst DEF Opened
  <2>4. Store(c, j) /\ Becomes(q, e, c)
    BY <1>3 DEF SendsCommand, AfterSend
  <2> HIDE DEF e, j
  <2>5. Staged(e) /\ Expected(e) = <<x>> /\ InMulti(e, j) /\ InQueue(e, j) = o.cmds /\ Replied(e, j)
    BY <1>1, <1>3, <2>1, <2>2, <2>3 DEF Staged, Expected, InMulti, InQueue, Replied, WaitsForQueued, SameKind, Opened
  <2>6. Talks(e, j)
    BY <1>1, <1>3, <2>1, <2>2, <2>3, <2>5 DEF Talks, Opened, SameEnd, SameKind, WaitsForQueued
  <2> QED BY <2>1, <2>3, <2>4, <2>5, <2>6, BecomesPlaced DEF SameEnd, SameKind, Owns, Opened
<1>4. CASE ~WaitsForQueued(o)
  <2> DEFINE e == Counted(o)
             j == Send(k, x)
  <2>1. /\ e \in Object /\ Working(e) /\ SameKind(e, o) /\ e.cmds = Append(o.cmds, x) /\ e.cmds # <<>>
        /\ e.doing = "nothing" /\ e.open = o.open
    BY CountedIs
  <2>2. /\ j \in ConnectionRecord /\ SameEnd(j, k) /\ j.sent = e.cmds /\ j.written = 0 /\ j.replies = <<>>
    BY <1>1, <1>2, <1>4, <2>1, SendIs DEF Opened
  <2>3. Ordered(j)
    BY <1>2, <2>2 DEF Ordered, SameEnd, Broken, ConnectionRecord
  <2>4. Store(c, j) /\ Becomes(q, e, c)
    BY <1>4 DEF SendsCommand, AfterSend
  <2> HIDE DEF e, j
  <2>5. Staged(e) /\ Expected(e) = e.cmds /\ (InMulti(e, j) <=> e.open) /\ Replied(e, j)
        /\ InQueue(e, j) = IF e.piped THEN <<>> ELSE e.cmds
    BY <1>1, <1>4, <2>1, <2>2 DEF Staged, Expected, InMulti, InQueue, Replied, WaitsForQueued, SameKind, Opened
  <2>6. Talks(e, j)
    BY <1>1, <1>4, <2>1, <2>2, <2>5 DEF Talks, Opened, SameEnd, SameKind, WaitsForQueued
  <2> QED BY <2>1, <2>2, <2>3, <2>4, <2>5, <2>6, BecomesPlaced DEF SameEnd, SameKind, Owns, Opened
<1> QED BY <1>3, <1>4

\* A method begins.
LEMMA BegunAlone ==
    ASSUME NEW o, NEW k, Ready(o, k)
    PROVE  /\ o \in Object /\ Working(o) /\ Staged(o) /\ k \in ConnectionRecord /\ Ordered(k)
           /\ k.link = "ok" /\ ~Broken(k) /\ k.written = 0 /\ k.replies = <<>> /\ Talks(o, k)
           /\ Expected(o) = (IF WaitsForQueued(o) THEN <<>> ELSE o.cmds)
           /\ InQueue(o, k) = (IF o.piped THEN <<>> ELSE o.cmds)
           /\ InMulti(o, k) <=> o.open
<1>1. k.written = 0
  BY DEF Ready, Talks
<1>2. k.replies \in Seq(Reply) /\ Len(k.replies) <= 0
  BY <1>1 DEF Ready, ConnectionRecord, Ordered
<1>3. k.replies = <<>>
  BY <1>2, EmptySeq
<1>4. o.tx \in BOOLEAN /\ o.piped \in BOOLEAN /\ o.open \in BOOLEAN
  BY DEF Ready, Object
<1> QED BY <1>1, <1>3, <1>4 DEF Ready, Working, Shape, Broken, Expected, InQueue, InMulti, WaitsForQueued

LEMMA CommandBeginsKeeps ==
    ASSUME IInv, NEW q \in Queues, NEW x \in UserCommand, CommandBegins(q, x), plain' = plain
    PROVE  IInv'
<1> DEFINE o == [obj[q] EXCEPT !.next = x]
<1>1. PICK c \in Conns :
          /\ Begins(q, c)
          /\ Store(c, IF o.tx /\ ~o.open THEN Asks(Fetched(c), Own("multi")) ELSE SendsCommand(o, Fetched(c)))
          /\ Becomes(q, IF o.tx /\ ~o.open THEN [o EXCEPT !.doing = "opening"] ELSE AfterSend(o), c)
  BY DEF CommandBegins
<1> DEFINE k == Fetched(c)
<1>2. Near(q, c) /\ Ready(obj[q], k) /\ Owns(obj[q], q, c)
  BY <1>1, Begun DEF Owns
<1>3. /\ obj[q] \in Object /\ Working(obj[q]) /\ Staged(obj[q]) /\ obj[q].doing = "nothing"
      /\ x \in Command
  BY <1>2, BegunAlone DEF Ready, Command
<1>4. /\ o \in Object /\ o.next = x /\ SameKind(o, obj[q]) /\ o.cmds = obj[q].cmds /\ o.sets = obj[q].sets
      /\ o.open = obj[q].open /\ o.doing = "nothing"
  BY <1>3 DEF Object, SameKind
<1>5. /\ k \in ConnectionRecord /\ Ordered(k) /\ k.link = "ok" /\ ~Broken(k) /\ k.written = 0 /\ k.replies = <<>>
      /\ k.sent = (IF WaitsForQueued(o) THEN <<>> ELSE o.cmds) /\ (~o.tx => k.watch = "no")
      /\ IF o.open THEN k.multi # "no" /\ (k.multi = "open" => k.queue = IF o.piped THEN <<>> ELSE o.cmds)
                   ELSE k.multi = "no" /\ k.queue = <<>>
  BY <1>2, <1>4, BegunAlone DEF Talks, WaitsForQueued, SameKind
<1>6. Working(o) /\ Owns(o, q, c) /\ (o.open => o.tx) /\ (o.tx /\ ~o.open => o.cmds = <<>>)
  BY <1>2, <1>3, <1>4 DEF Working, SameKind, Owns, Staged
<1> HIDE DEF o, k
<1>7. CASE o.tx /\ ~o.open
  <2> DEFINE e == [o EXCEPT !.doing = "opening"]
             j == Asks(k, Own("multi"))
  <2>1. e \in Object /\ Working(e) /\ SameKind(e, o)
    BY <1>4, <1>6 DEF Object, Doing, SameKind, Working
  <2>2. e.cmds = <<>> /\ ~e.open /\ e.doing = "opening" /\ e.next = x
    BY <1>4, <1>6, <1>7 DEF Object
  <2>3. Own("multi") \in Command
    BY DEF Own, Command
  <2>4. /\ j \in ConnectionRecord /\ SameEnd(j, k) /\ Ordered(j) /\ j.sent = <<Own("multi")>> /\ j.written = 1
        /\ j.replies = <<>> /\ Len(j.sent) = 1
    <3>1. k.sent = <<>>
      BY <1>5, <1>6, <1>7
    <3> QED BY <1>5, <2>3, <3>1, AsksFirst
  <2>5. Store(c, j) /\ Becomes(q, e, c)
    BY <1>1, <1>7 DEF k, o
  <2> HIDE DEF e, j
  <2>6. Staged(e) /\ Expected(e) = <<Own("multi")>> /\ ~InMulti(e, j) /\ Replied(e, j)
    BY <1>7, <2>1, <2>2, <2>4 DEF Staged, Expected, InMulti, Replied, SameKind
  <2>7. Talks(e, j)
    BY <1>5, <1>7, <2>1, <2>2, <2>4, <2>6 DEF Talks, SameEnd, SameKind
  <2> QED BY <1>2, <1>5, <1>6, <2>1, <2>4, <2>5, <2>6, <2>7, BecomesPlaced DEF SameEnd, SameKind, Owns
<1>8. CASE ~(o.tx /\ ~o.open)
  <2>1. Opened(o, k)
    BY <1>4, <1>5, <1>6, <1>8 DEF Opened, Object
  <2>2. Store(c, SendsCommand(o, k)) /\ Becomes(q, AfterSend(o), c)
    BY <1>1, <1>8 DEF k, o
  <2> QED BY <1>2, <1>4, <1>5, <1>6, <2>1, <2>2, SendsPlaced
<1> QED BY <1>7, <1>8

\* The reply a method waits for is there.
LEMMA Answering ==
    ASSUME IInv, NEW q \in Queues, NEW doing \in Doing \ {"nothing", "sharing"}, Receives(q, doing)
    PROVE  LET o == obj[q]
               c == o.conn
               k == conn[c]
               j == After(q)
           IN  /\ c \in Conns /\ Near(q, c) /\ Owns(o, q, c)
               /\ o \in Object /\ Working(o) /\ Staged(o) /\ o.doing = doing
               /\ k \in ConnectionRecord /\ Talks(o, k) /\ k.replies # <<>>
               /\ j \in ConnectionRecord /\ SameEnd(j, k) /\ Ordered(j) /\ j.link = "ok"
               /\ j.sent = Tail(k.sent) /\ j.written = k.written - 1 /\ j.replies = Tail(k.replies)
               /\ k.written >= 1 /\ Len(k.replies) <= k.written
<1>1. obj[q].doing = doing /\ Answered(conn[obj[q].conn])
  BY DEF Receives
<1> QED BY <1>1, Midway, RecvIs DEF After, SameEnd, Answered, Ordered

\* It was the only one.
LEMMA RecvLast ==
    ASSUME NEW k \in ConnectionRecord, Ordered(k), Answered(k), NEW x, k.sent = <<x>>
    PROVE  AfterRecv(k).sent = <<>> /\ AfterRecv(k).written = 0 /\ AfterRecv(k).replies = <<>>
<1>1. Tail(<<x>>) = <<>> /\ Len(<<x>>) = 1
  OBVIOUS
<1>2. k.written = 1 /\ k.replies \in Seq(Reply) /\ Len(k.replies) <= 1 /\ k.replies # <<>>
  BY <1>1, RecvIs DEF ConnectionRecord, Ordered, Answered
<1>3. Tail(k.replies) = <<>>
  BY <1>2, TailOfOne
<1>4. /\ AfterRecv(k).sent = Tail(k.sent) /\ AfterRecv(k).written = k.written - 1
      /\ AfterRecv(k).replies = Tail(k.replies)
  BY RecvIs
<1> QED BY <1>1, <1>2, <1>3, <1>4

LEMMA AnsweringLast ==
    ASSUME IInv, NEW q \in Queues, NEW doing \in Doing \ {"nothing", "sharing"}, Receives(q, doing),
           NEW x, conn[obj[q].conn].sent = <<x>>
    PROVE  After(q).sent = <<>> /\ After(q).written = 0 /\ After(q).replies = <<>>
<1>1. obj[q].doing = doing /\ Answered(conn[obj[q].conn])
  BY DEF Receives
<1> QED BY <1>1, Midway, RecvLast DEF After

LEMMA OpenTransactionKeeps ==
    ASSUME IInv, NEW q \in Queues, OpenTransaction(q), plain' = plain
    PROVE  IInv'
<1> DEFINE o == [obj[q] EXCEPT !.open = TRUE]
           c == obj[q].conn
           k == After(q)
<1>1. "opening" \in Doing \ {"nothing", "sharing"} /\ Receives(q, "opening")
  BY DEF Doing, OpenTransaction
<1>2. /\ c \in Conns /\ Near(q, c) /\ Owns(obj[q], q, c)
      /\ obj[q] \in Object /\ Working(obj[q]) /\ Staged(obj[q]) /\ obj[q].doing = "opening"
      /\ Talks(obj[q], conn[c]) /\ conn[c].replies # <<>>
      /\ k \in ConnectionRecord /\ SameEnd(k, conn[c]) /\ Ordered(k) /\ k.link = "ok"
  BY <1>1, Answering
<1>3. Received(q).kind = "ok" /\ conn[c].sent = <<Own("multi")>> /\ InMulti(obj[q], conn[c])
  BY <1>2 DEF Talks, Replied, Received, Expected, InMulti
<1>4. k.sent = <<>> /\ k.written = 0
  BY <1>1, <1>3, AnsweringLast
<1>5. /\ obj[q].tx /\ obj[q].cmds = <<>> /\ obj[q].next \in UserCommand
  BY <1>2 DEF Staged
<1>6. o \in Object /\ SameKind(o, obj[q]) /\ o.cmds = <<>> /\ o.open /\ o.next = obj[q].next /\ o.sets = obj[q].sets
  BY <1>2, <1>5 DEF Object, SameKind
<1>7. Store(c, SendsCommand(obj[q], k)) /\ Becomes(q, AfterSend(o), c)
  BY <1>3 DEF OpenTransaction
<1>8. SendsCommand(obj[q], k) = SendsCommand(o, k)
  BY <1>6 DEF SendsCommand, WaitsForQueued, SameKind
<1>9. k.multi # "no" /\ (k.multi = "open" => k.queue = <<>>)
  BY <1>2, <1>3 DEF Talks, SameEnd, InQueue
<1> HIDE DEF o, k
<1>10. Working(o) /\ Owns(o, q, c)
  BY <1>2, <1>5, <1>6 DEF Working, SameKind, Owns
<1>11. Opened(o, k)
  BY <1>2, <1>4, <1>5, <1>6, <1>9 DEF Opened, SameKind
<1> QED BY <1>2, <1>5, <1>6, <1>7, <1>8, <1>10, <1>11, SendsPlaced

\* A method throws.
LEMMA ThrowsPlaced ==
    ASSUME IInv, NEW q \in Queues, NEW doing \in Doing \ {"nothing", "sharing"}, Receives(q, doing),
           Harmless(After(q)), Throws(q), plain' = plain
    PROVE  IInv'
<1>1. Invalidate(q, obj[q].conn, After(q))
  BY DEF Throws
<1> QED BY <1>1, Answering, InvalidatePlaced DEF Working

LEMMA GetQueuedReplyKeeps ==
    ASSUME IInv, NEW q \in Queues, GetQueuedReply(q), plain' = plain
    PROVE  IInv'
<1> DEFINE o == obj[q]
           c == obj[q].conn
           k == After(q)
           x == o.next
<1>1. "queueing" \in Doing \ {"nothing", "sharing"} /\ Receives(q, "queueing")
  BY DEF Doing, GetQueuedReply
<1>2. /\ c \in Conns /\ Near(q, c) /\ Owns(o, q, c)
      /\ o \in Object /\ Working(o) /\ Staged(o) /\ o.doing = "queueing"
      /\ Talks(o, conn[c]) /\ conn[c].replies # <<>>
      /\ k \in ConnectionRecord /\ SameEnd(k, conn[c]) /\ Ordered(k) /\ k.link = "ok"
  BY <1>1, Answering
<1>3. conn[c].sent = <<x>> /\ InMulti(o, conn[c]) /\ o.tx /\ o.open /\ ~o.piped /\ x \in UserCommand
  BY <1>2 DEF Talks, Expected, InMulti, Staged
<1>4. k.sent = <<>> /\ k.written = 0 /\ k.replies = <<>>
  BY <1>1, <1>3, AnsweringLast
<1>5. CASE Received(q).kind = "queued"
  <2> DEFINE e == Counted(o)
  <2>1. Store(c, k) /\ Becomes(q, e, c)
    BY <1>5 DEF GetQueuedReply
  <2>2. /\ e \in Object /\ Working(e) /\ SameKind(e, o) /\ e.cmds = Append(o.cmds, x) /\ e.cmds # <<>>
        /\ e.doing = "nothing" /\ e.open
    BY <1>2, <1>3, CountedIs
  <2>3. k.multi # "no" /\ (k.multi = "open" => k.queue = Append(o.cmds, x))
    BY <1>2, <1>3 DEF Talks, SameEnd, InQueue
  <2> HIDE DEF e, k
  <2>4. Staged(e) /\ Talks(e, k)
    BY <1>2, <1>3, <1>4, <2>2, <2>3 DEF Staged, Talks, Expected, InMulti, InQueue, Replied, SameKind
  <2> QED BY <1>2, <2>1, <2>2, <2>4, BecomesPlaced DEF Owns, SameKind
<1>6. CASE Received(q).kind # "queued"
  <2>1. Throws(q) /\ Harmless(After(q))
    BY <1>4, <1>6 DEF GetQueuedReply, Harmless
  <2> QED BY <1>1, <2>1, ThrowsPlaced
<1> QED BY <1>5, <1>6

LEMMA RecvFailsKeeps ==
    ASSUME IInv, NEW q \in Queues, RecvFails(q), plain' = plain
    PROVE  IInv'
<1>1. obj[q].doing \notin {"nothing", "sharing"} /\ Invalidate(q, obj[q].conn, Break)
  BY DEF RecvFails
<1> QED BY <1>1, Midway, PristineIs, InvalidatePlaced DEF Working

LEMMA GetQueuedRepliesKeeps ==
    ASSUME IInv, NEW q \in Queues, GetQueuedReplies(q), plain' = plain
    PROVE  IInv'
<1> DEFINE o == obj[q]
           c == obj[q].conn
           k == conn[c]
           n == Len(o.cmds)
<1>1. o.doing = "collecting" /\ o.doing \notin {"nothing", "sharing"}
  BY DEF GetQueuedReplies
<1>2. /\ c \in Conns /\ Near(q, c) /\ Owns(o, q, c) /\ o \in Object /\ Working(o) /\ Staged(o)
      /\ k \in ConnectionRecord /\ Ordered(k) /\ k.link = "ok" /\ Talks(o, k)
  BY <1>1, Midway
<1>3. /\ o.tx /\ ~o.open /\ o.left \in 0..n /\ n \in Nat /\ o.cmds \in Seq(UserCommand)
      /\ k.sent = SubSeq(o.cmds, n - o.left + 1, n) /\ k.written = Len(k.sent)
      /\ k.multi # "no" /\ (k.multi = "open" => k.queue = SubSeq(o.cmds, 1, n - o.left + Len(k.replies)))
  <2>1. o.cmds \in Seq(UserCommand) /\ n \in Nat
    BY <1>2 DEF Object
  <2>2. o.tx /\ ~o.open /\ o.left \in 0..n
    BY <1>1, <1>2 DEF Staged
  <2> HIDE DEF n
  <2>3. /\ k.sent = Expected(o) /\ k.written = Len(k.sent)
        /\ k.multi # "no" /\ (k.multi = "open" => k.queue = InQueue(o, k))
    BY <1>1, <1>2 DEF Talks, InMulti
  <2> QED BY <1>1, <2>1, <2>2, <2>3 DEF Expected, InQueue, n
<1>4. CASE o.left = 0
  <2> DEFINE e == [o EXCEPT !.doing = o.then]
             j == Asks(k, Own(o.then))
  <2>1. o.then \in {"exec", "discard"} /\ o.then \in Doing /\ Own(o.then) \in Command
    BY <1>2 DEF Object, Doing, Own, Command
  <2>2. e \in Object /\ Working(e) /\ SameKind(e, o)
    BY <1>2, <2>1 DEF Object, SameKind, Working
  <2>3. e.cmds = o.cmds /\ ~e.open /\ e.doing = o.then /\ e.then = o.then
    BY <1>2, <1>3 DEF Object
  <2>4. k.sent = <<>> /\ SubSeq(o.cmds, 1, n) = o.cmds
    <3>1. n + 1 \in Int /\ n \in Int /\ n < n + 1 /\ n - 0 + 1 = n + 1
      BY <1>3
    <3>2. SubSeq(o.cmds, n + 1, n) = <<>>
      BY ONLY <3>1, SubSeqEmpty
    <3> QED BY <1>3, <1>4, <3>1, <3>2, SubSeqFull
  <2>5. /\ j \in ConnectionRecord /\ SameEnd(j, k) /\ Ordered(j)
        /\ j.sent = <<Own(o.then)>> /\ Len(j.sent) = 1 /\ j.written = 1 /\ j.replies = <<>> /\ k.replies = <<>>
    BY <1>2, <2>1, <2>4, AsksFirst DEF Broken
  <2>6. k.multi = "open" => k.queue = o.cmds
    <3>1. Len(k.replies) = 0 /\ n - 0 + 0 = n
      <4>1. n \in Nat /\ k.replies = <<>>
        BY ONLY <1>3, <2>5
      <4> HIDE DEF n
      <4> QED BY ONLY <4>1, EmptySeq
    <3>2. SubSeq(o.cmds, 1, n - o.left + Len(k.replies)) = o.cmds
      BY ONLY <1>4, <2>4, <3>1
    <3> QED BY ONLY <1>3, <3>2
  <2>7. Store(c, j) /\ Becomes(q, e, c)
    BY <1>4 DEF GetQueuedReplies
  <2> HIDE DEF e, j, n
  <2>8. Staged(e) /\ Expected(e) = <<Own(o.then)>> /\ InMulti(e, j) /\ InQueue(e, j) = o.cmds /\ Replied(e, j)
    BY <1>3, <2>1, <2>2, <2>3, <2>5 DEF Staged, Expected, InMulti, InQueue, Replied, SameKind
  <2>9. Talks(e, j)
    BY <1>2, <1>3, <2>1, <2>2, <2>3, <2>5, <2>6, <2>8 DEF Talks, SameEnd, SameKind
  <2> QED BY <1>2, <2>2, <2>5, <2>7, <2>8, <2>9, BecomesPlaced DEF SameEnd, SameKind, Owns
<1>5. CASE o.left # 0
  <2> DEFINE j == After(q)
  <2>1. "collecting" \in Doing \ {"nothing", "sharing"} /\ Receives(q, "collecting") /\ o.left \in 1..n
    BY <1>3, <1>5 DEF Doing, GetQueuedReplies
  <2>2. /\ j \in ConnectionRecord /\ SameEnd(j, k) /\ Ordered(j) /\ j.link = "ok"
        /\ j.sent = Tail(k.sent) /\ j.written = k.written - 1 /\ j.replies = Tail(k.replies)
        /\ k.replies # <<>> /\ k.replies \in Seq(Reply)
    BY <1>2, <2>1, Answering DEF ConnectionRecord
  <2>3. Len(j.replies) = Len(k.replies) - 1 /\ Len(k.replies) \in Nat
    BY ONLY <2>2, HeadTailProperties, EmptySeq
  <2>4. /\ j.sent = SubSeq(o.cmds, n - (o.left - 1) + 1, n)
        /\ k.sent \in Seq(UserCommand) /\ Len(k.sent) = o.left
    <3> DEFINE s == o.cmds
               m == o.left
               t == SubSeq(s, Len(s) - m + 1, Len(s))
    <3>1. s \in Seq(UserCommand) /\ m \in 1..Len(s) /\ k.sent = t /\ j.sent = Tail(t)
      BY ONLY <1>3, <2>1, <2>2
    <3> HIDE DEF s, m
    <3>2. t \in Seq(UserCommand) /\ Len(t) = m /\ Tail(t) = SubSeq(s, Len(s) - (m - 1) + 1, Len(s))
      BY ONLY <3>1, LastOnes
    <3> QED BY ONLY <3>1, <3>2 DEF s, m
  <2>5. j.sent \in Seq(UserCommand) /\ Len(j.sent) = o.left - 1 /\ j.written = Len(j.sent)
    <3>1. k.sent # <<>> /\ o.left \in Nat \ {0}
      BY <2>1, <2>4, EmptySeq
    <3>2. Tail(k.sent) \in Seq(UserCommand) /\ Len(Tail(k.sent)) = Len(k.sent) - 1
      BY ONLY <2>4, <3>1, HeadTailProperties
    <3>3. k.written = Len(k.sent)
      BY ONLY <1>3
    <3> QED BY ONLY <2>2, <2>4, <3>2, <3>3
  <2>6. CASE Received(q).kind = "queued"
    <3> DEFINE e == [o EXCEPT !.left = @ - 1]
    <3>1. o.left - 1 \in Nat
      BY <2>1
    <3>2. e \in Object /\ Working(e) /\ SameKind(e, o)
      BY <1>2, <3>1 DEF Object, SameKind, Working
    <3>3. e.cmds = o.cmds /\ ~e.open /\ e.doing = "collecting" /\ e.left = o.left - 1
      BY <1>1, <1>2, <1>3 DEF Object
    <3>4. Store(c, j) /\ Becomes(q, e, c)
      BY <1>5, <2>6 DEF GetQueuedReplies
    <3> HIDE DEF e, j
    <3>5. Len(e.cmds) - e.left + Len(j.replies) = n - o.left + Len(k.replies) /\ e.left \in 0..Len(e.cmds)
      <4>1. Len(e.cmds) = n /\ n \in Nat /\ o.left \in 1..n /\ e.left = o.left - 1
        BY <1>3, <2>1, <3>3
      <4> HIDE DEF n
      <4> DEFINE m == o.left
                 r == Len(k.replies)
      <4>2. n \in Nat /\ m \in 1..n /\ r \in Nat /\ Len(j.replies) = r - 1
        BY <2>3, <4>1
      <4> HIDE DEF m, r
      <4>3. n - (m - 1) + (r - 1) = n - m + r /\ m - 1 \in 0..n
        BY ONLY <4>2
      <4> QED BY ONLY <4>1, <4>2, <4>3 DEF m, r
    <3> HIDE DEF n
    <3>6. Staged(e)
      BY <1>1, <1>2, <1>3, <1>5, <3>2, <3>3, <3>5 DEF Staged, SameKind
    <3>7. /\ Expected(e) = j.sent /\ InMulti(e, j) /\ Replied(e, j)
          /\ InQueue(e, j) = SubSeq(o.cmds, 1, n - o.left + Len(k.replies))
      BY <2>4, <3>3, <3>5 DEF Expected, InMulti, InQueue, Replied, n
    <3>8. Talks(e, j)
      BY <1>1, <1>2, <1>3, <2>2, <2>5, <3>2, <3>3, <3>7 DEF Talks, SameEnd, SameKind
    <3> QED BY <1>2, <2>2, <3>2, <3>4, <3>6, <3>8, BecomesPlaced DEF Owns, SameKind
  <2>7. CASE Received(q).kind # "queued"
    <3>1. Throws(q)
      BY <1>5, <2>7 DEF GetQueuedReplies
    <3>2. Harmless(j)
      <4>1. \A i \in DOMAIN j.sent : j.sent[i].op \notin {"exec", "discard"}
        <5>1. \A i \in DOMAIN j.sent : j.sent[i] \in UserCommand
          BY ONLY <2>5, ElementsOf
        <5> QED BY ONLY <5>1 DEF UserCommand, UserOps
      <4> QED BY <1>3, <2>2, <4>1 DEF Harmless, SameEnd
    <3> QED BY <2>1, <3>1, <3>2, ThrowsPlaced
  <2> QED BY <2>6, <2>7
<1> QED BY <1>4, <1>5

LEMMA ClosesPlaced ==
    ASSUME IInv, NEW q \in Queues, NEW c \in Conns, NEW then \in {"exec", "discard"},
           obj[q].tx, Begins(q, c), Closes(q, c, then), plain' = plain
    PROVE  IInv'
<1> DEFINE o == obj[q]
           k == Fetched(c)
           n == Len(o.cmds)
<1>1. Near(q, c) /\ Ready(o, k) /\ Owns(o, q, c) /\ o.life = "live" /\ o.doing = "nothing"
  BY Begun DEF Owns, Ready
<1>2. /\ o \in Object /\ Working(o) /\ Staged(o) /\ k \in ConnectionRecord /\ Ordered(k)
      /\ k.link = "ok" /\ ~Broken(k) /\ k.written = 0 /\ k.replies = <<>> /\ Talks(o, k)
      /\ Expected(o) = (IF WaitsForQueued(o) THEN <<>> ELSE o.cmds)
      /\ InQueue(o, k) = (IF o.piped THEN <<>> ELSE o.cmds)
      /\ (InMulti(o, k) <=> o.open)
  BY <1>1, BegunAlone
<1>3. CASE o.open
  <2> DEFINE e == [Collecting(o, then) EXCEPT !.open = FALSE]
             j == Flush(k)
             left == IF o.piped THEN n ELSE 0
  <2>1. Store(c, j) /\ Becomes(q, e, c)
    BY <1>3 DEF Closes
  <2>2. n \in Nat /\ left \in Nat /\ left \in 0..n /\ o.cmds \in Seq(UserCommand)
    BY <1>2 DEF Object
  <2>3. e = [o EXCEPT !.doing = "collecting", !.then = then, !.left = left, !.open = FALSE]
    BY DEF Collecting
  <2> HIDE DEF e
  <2>4. e \in Object /\ SameKind(e, o) /\ e.cmds = o.cmds /\ e.sets = o.sets
    <3>1. left \in Nat /\ then \in {"exec", "discard"} /\ "collecting" \in Doing
      BY <2>2 DEF Doing
    <3> HIDE DEF o, left
    <3>2. e \in Object
      BY ONLY <1>2, <2>3, <3>1 DEF Object
    <3>3. SameKind(e, o) /\ e.cmds = o.cmds /\ e.sets = o.sets
      BY ONLY <1>2, <2>3 DEF Object, SameKind
    <3> QED BY ONLY <3>2, <3>3
  <2>5. e.doing = "collecting" /\ e.left = left /\ ~e.open
    BY ONLY <1>2, <2>3 DEF Object
  <2>6. /\ j \in ConnectionRecord /\ SameEnd(j, k) /\ j.sent = k.sent
        /\ j.written = Len(k.sent) /\ j.replies = <<>>
    BY <1>2, FlushIs
  <2> HIDE DEF j
  <2>7. Working(e) /\ Staged(e) /\ Ordered(j)
    <3>1. Working(e)
      BY <1>2, <2>4 DEF Working, SameKind
    <3>2. Staged(e)
      BY <1>2, <2>2, <2>4, <2>5 DEF Staged, SameKind
    <3>3. Len(j.replies) = 0 /\ Len(j.sent) \in Nat
      BY <2>6 DEF ConnectionRecord
    <3>4. Ordered(j)
      BY <1>2, <2>6, <3>3 DEF Ordered, Broken, SameEnd
    <3> QED BY <3>1, <3>2, <3>4
  <2>8. SubSeq(o.cmds, n - left + 1, n) = (IF o.piped THEN o.cmds ELSE <<>>) /\ SubSeq(o.cmds, 1, n - left + 0) = IF o.piped THEN <<>> ELSE o.cmds
    <3>1. SubSeq(o.cmds, 1, n) = o.cmds
      BY ONLY <2>2, SubSeqFull
    <3>2. SubSeq(o.cmds, n + 1, n) = <<>> /\ SubSeq(o.cmds, 1, 0) = <<>>
      <4>1. n + 1 \in Int /\ n \in Int /\ n < n + 1 /\ 1 \in Int /\ 0 \in Int /\ 0 < 1
        BY <2>2
      <4> QED BY ONLY <4>1, SubSeqEmpty
    <3>3. n - n + 1 = 1 /\ n - n + 0 = 0 /\ n - 0 + 1 = n + 1 /\ n - 0 + 0 = n
      BY <2>2
    <3> HIDE DEF n
    <3> QED BY <3>1, <3>2, <3>3
  <2>9. Len(j.replies) = 0
    BY <2>6, EmptySeq
  <2>10. Expected(e) = k.sent /\ InMulti(e, j) /\ InQueue(e, j) = (IF o.piped THEN <<>> ELSE o.cmds) /\ Replied(e, j)
    <3>1. InMulti(e, j) /\ Replied(e, j)
      BY <2>5, <2>6 DEF InMulti, Replied
    <3>2. Expected(e) = SubSeq(o.cmds, n - left + 1, n)
      BY <2>4, <2>5 DEF Expected
    <3>3. InQueue(e, j) = SubSeq(o.cmds, 1, n - left + 0)
      BY <2>4, <2>5, <2>9 DEF InQueue
    <3>4. k.sent = (IF o.piped THEN o.cmds ELSE <<>>)
      BY <1>2 DEF Expected, WaitsForQueued, Talks
    <3> QED BY <2>8, <3>1, <3>2, <3>3, <3>4
  <2>11. Talks(e, j)
    BY <1>2, <1>3, <2>4, <2>5, <2>6, <2>10 DEF Talks, SameEnd, SameKind
  <2> QED BY <1>1, <1>2, <2>1, <2>4, <2>6, <2>7, <2>11, BecomesPlaced DEF Owns, SameKind, SameEnd
<1>4. CASE ~o.open
  <2>1. Invalidate(q, c, k) /\ Harmless(k)
    BY <1>2, <1>4 DEF Closes, Harmless
  <2> QED BY <1>1, <1>2, <2>1, InvalidatePlaced
<1> QED BY <1>3, <1>4

\* A method ends, and nothing is left on the connection.
LEMMA IsPristine ==
    ASSUME NEW k \in ConnectionRecord, k.link = "ok", k.sent = <<>>, k.written = 0, k.replies = <<>>,
           k.multi = "no", k.queue = <<>>, k.watch = "no"
    PROVE  k = Pristine
BY DEF ConnectionRecord, Pristine

LEMMA PristineReset ==
    ASSUME IInv, NEW q \in Queues, NEW c \in Conns, Near(q, c), NEW back \in BOOLEAN,
           obj[q].life = "live", obj[q].valid, ~obj[q].open, Owns(obj[q], q, c),
           Store(c, Pristine), Reset(q, obj[q], c, back), plain' = plain
    PROVE  IInv'
<1> DEFINE o == obj[q]
           e == Emptied(o, c)
<1>1. o \in Object /\ (o.piped => o.tx) /\ c \in Conns \cup {NoConn}
  BY DEF IInv, CoreTypes, Conversations, Shape
<1>2. e.cmds = <<>> /\ e.doing = "nothing" /\ ~e.open /\ e.valid /\ e.life = "live"
  BY <1>1, EmptiedIs
<1> HIDE DEF e
<1>3. Expected(e) = <<>> /\ ~InMulti(e, Pristine)
  BY <1>2 DEF Expected, InMulti
<1>4. Talks(e, Pristine)
  BY <1>2, <1>3 DEF Talks, Replied, Pristine
<1>5. Matches(e, Pristine)
  BY <1>2, <1>4, PristineIs DEF Matches, Broken
<1> QED BY <1>1, <1>5, PristineIs, ResetPlaced DEF Owns, Clean, e

\* The last reply of a transaction.
LEMMA Concluded ==
    ASSUME IInv, NEW q \in Queues, NEW doing \in {"exec", "discard"}, Receives(q, doing)
    PROVE  /\ After(q) = Pristine /\ ~obj[q].open
           /\ conn[obj[q].conn].sent = <<Own(doing)>>
           /\ Replied(obj[q], conn[obj[q].conn]) /\ conn[obj[q].conn].replies # <<>>
<1> DEFINE o == obj[q]
           k == conn[o.conn]
<1>1. doing \in Doing \ {"nothing", "sharing"}
  BY DEF Doing
<1>2. /\ o \in Object /\ Staged(o) /\ o.doing = doing /\ Talks(o, k) /\ k.replies # <<>>
      /\ After(q) \in ConnectionRecord /\ SameEnd(After(q), k) /\ After(q).link = "ok"
  BY <1>1, Answering
<1>3. ~o.open /\ k.sent = <<Own(doing)>> /\ ~InMulti(o, k)
  BY <1>2 DEF Staged, Talks, Expected, InMulti
<1>4. After(q).sent = <<>> /\ After(q).written = 0 /\ After(q).replies = <<>>
  BY <1>1, <1>3, AnsweringLast
<1>5. k.multi = "no" /\ k.queue = <<>> /\ k.watch = "no" /\ Replied(o, k)
  BY <1>2, <1>3 DEF Talks, Replied
<1> QED BY <1>2, <1>3, <1>4, <1>5, IsPristine DEF SameEnd

LEMMA ConcludesKeeps ==
    ASSUME IInv, NEW q \in Queues, ExecReply(q) \/ DiscardReply(q), plain' = plain
    PROVE  IInv'
<1> DEFINE o == obj[q]
<1>1. PICK doing \in {"exec", "discard"} : Receives(q, doing)
  BY DEF ExecReply, DiscardReply
<1>2. doing \in Doing \ {"nothing", "sharing"}
  BY DEF Doing
<1>3. /\ o.conn \in Conns /\ Near(q, o.conn) /\ Owns(o, q, o.conn) /\ o.life = "live" /\ o.valid
      /\ ~o.open /\ After(q) = Pristine
  BY <1>1, <1>2, Answering, Concluded DEF Working
<1>4. Harmless(After(q))
  BY <1>3, PristineIs DEF Harmless, Pristine
<1>5. \/ Store(o.conn, After(q)) /\ \E back \in BOOLEAN : Reset(q, o, o.conn, back)
      \/ Throws(q)
  BY DEF ExecReply, DiscardReply
<1> QED BY <1>1, <1>2, <1>3, <1>4, <1>5, PristineReset, ThrowsPlaced

LEMMA PipelineExecKeeps ==
    ASSUME IInv, NEW q \in Queues, PipelineExec(q), plain' = plain
    PROVE  IInv'
<1> DEFINE o == obj[q]
<1>1. PICK c \in Conns :
          /\ ~o.tx /\ Begins(q, c)
          /\ Store(c, Flush(Fetched(c)))
          /\ IF o.cmds = <<>> THEN Reset(q, o, c, TRUE)
             ELSE Becomes(q, [o EXCEPT !.doing = "reading", !.left = Len(o.cmds)], c)
  BY DEF PipelineExec
<1> DEFINE k == Fetched(c)
           j == Flush(k)
<1>2. Near(q, c) /\ Ready(o, k) /\ Owns(o, q, c)
  BY <1>1, Begun DEF Owns
<1>3. /\ o \in Object /\ Working(o) /\ Staged(o) /\ o.doing = "nothing" /\ k \in ConnectionRecord /\ Ordered(k)
      /\ k.link = "ok" /\ k.replies = <<>> /\ Talks(o, k)
      /\ k.sent = (IF WaitsForQueued(o) THEN <<>> ELSE o.cmds)
      /\ (InMulti(o, k) <=> o.open)
  BY <1>2, BegunAlone DEF Ready, Talks
<1>4. ~o.open /\ k.sent = o.cmds /\ k.multi = "no" /\ k.queue = <<>> /\ k.watch = "no"
  BY <1>1, <1>3 DEF Staged, Working, WaitsForQueued, Talks
<1>5. /\ j \in ConnectionRecord /\ SameEnd(j, k) /\ j.sent = o.cmds
      /\ j.written = Len(o.cmds) /\ j.replies = <<>>
  BY <1>3, <1>4, FlushIs
<1> HIDE DEF k, j
<1>6. CASE o.cmds = <<>>
  <2>1. j.written = 0
    BY <1>5, <1>6, EmptySeq
  <2>2. j = Pristine
    BY <1>3, <1>4, <1>5, <1>6, <2>1, IsPristine DEF SameEnd
  <2>3. Store(c, Pristine) /\ Reset(q, o, c, TRUE)
    BY <1>1, <1>6, <2>2 DEF j, k
  <2> QED BY <1>2, <1>3, <1>4, <2>3, PristineReset DEF Working
<1>7. CASE o.cmds # <<>>
  <2> DEFINE n == Len(o.cmds)
             e == [o EXCEPT !.doing = "reading", !.left = n]
  <2>1. o.cmds \in Seq(UserCommand) /\ n \in Nat \ {0}
    BY <1>3, <1>7, EmptySeq DEF Object
  <2> HIDE DEF n
  <2>2. e \in Object /\ SameKind(e, o) /\ e.cmds = o.cmds /\ e.sets = o.sets
    BY <1>3, <2>1 DEF Object, Doing, SameKind
  <2>3. e.doing = "reading" /\ e.left = n /\ ~e.open
    BY <1>3, <1>4 DEF Object
  <2>4. Store(c, j) /\ Becomes(q, e, c)
    BY <1>1, <1>7 DEF j, k, n
  <2> HIDE DEF e
  <2>5. Working(e) /\ Staged(e)
    BY <1>1, <1>3, <2>1, <2>2, <2>3 DEF Working, Staged, SameKind, n
  <2>6. Ordered(j)
    BY <1>3, <1>5, <2>1, EmptySeq DEF Ordered, Broken, SameEnd, n
  <2>7. SubSeq(o.cmds, n - n + 1, n) = o.cmds
    <3>1. SubSeq(o.cmds, 1, n) = o.cmds
      BY ONLY <2>1, SubSeqFull DEF n
    <3> QED BY <2>1, <3>1
  <2>8. Expected(e) = o.cmds /\ ~InMulti(e, j) /\ Replied(e, j)
    BY <1>5, <2>2, <2>3, <2>7 DEF Expected, InMulti, Replied, n
  <2>9. Talks(e, j)
    BY <1>4, <1>5, <2>3, <2>8 DEF Talks, SameEnd
  <2> QED BY <1>2, <1>3, <1>5, <2>2, <2>4, <2>5, <2>6, <2>9, BecomesPlaced DEF Owns, SameKind, SameEnd
<1> QED BY <1>6, <1>7

LEMMA PipelineReplyKeeps ==
    ASSUME IInv, NEW q \in Queues, PipelineReply(q), plain' = plain
    PROVE  IInv'
<1> DEFINE o == obj[q]
           c == o.conn
           k == conn[c]
           n == Len(o.cmds)
           j == After(q)
<1>1. "reading" \in Doing \ {"nothing", "sharing"} /\ Receives(q, "reading") /\ Store(c, j)
  BY DEF Doing, PipelineReply
<1>2. /\ c \in Conns /\ Near(q, c) /\ Owns(o, q, c) /\ o \in Object /\ Working(o) /\ Staged(o)
      /\ o.doing = "reading" /\ k \in ConnectionRecord /\ Talks(o, k) /\ k.replies # <<>>
      /\ j \in ConnectionRecord /\ SameEnd(j, k) /\ Ordered(j) /\ j.link = "ok"
      /\ j.sent = Tail(k.sent) /\ j.written = k.written - 1 /\ j.replies = Tail(k.replies)
  BY <1>1, Answering
<1>3. /\ ~o.tx /\ ~o.open /\ o.left \in 1..n /\ n \in Nat /\ o.cmds \in Seq(UserCommand)
  BY <1>2 DEF Staged, Object
<1>4. /\ k.sent = SubSeq(o.cmds, n - o.left + 1, n) /\ k.written = Len(k.sent)
      /\ k.multi = "no" /\ k.queue = <<>> /\ k.watch = "no"
  BY <1>2, <1>3 DEF Talks, Expected, InMulti
<1>5. /\ j.sent = SubSeq(o.cmds, n - (o.left - 1) + 1, n) /\ k.sent \in Seq(UserCommand) /\ Len(k.sent) = o.left
  <2> DEFINE s == o.cmds
             m == o.left
             t == SubSeq(s, Len(s) - m + 1, Len(s))
  <2>1. s \in Seq(UserCommand) /\ m \in 1..Len(s) /\ k.sent = t /\ j.sent = Tail(t)
    BY ONLY <1>2, <1>3, <1>4
  <2> HIDE DEF s, m
  <2>2. t \in Seq(UserCommand) /\ Len(t) = m /\ Tail(t) = SubSeq(s, Len(s) - (m - 1) + 1, Len(s))
    BY ONLY <2>1, LastOnes
  <2> QED BY ONLY <2>1, <2>2 DEF s, m
<1>6. Len(j.sent) = o.left - 1 /\ j.written = o.left - 1
  <2>1. k.sent # <<>> /\ o.left \in Nat \ {0}
    BY <1>3, <1>5, EmptySeq
  <2> QED BY ONLY <1>2, <1>4, <1>5, <2>1, HeadTailProperties
<1> HIDE DEF j, n
<1>7. CASE o.left = 1
  <2>1. j.written = 0 /\ Len(j.sent) = 0 /\ j.sent \in Seq(Command) /\ j.replies \in Seq(Reply) /\ Len(j.replies) <= 0
    <3>1. j.written = 0 /\ Len(j.sent) = 0
      BY ONLY <1>6, <1>7
    <3> QED BY <1>2, <3>1 DEF Ordered, ConnectionRecord
  <2>2. j.sent = <<>> /\ j.replies = <<>>
    BY ONLY <2>1, EmptySeq
  <2>3. j = Pristine
    BY <1>2, <1>4, <2>1, <2>2, IsPristine DEF SameEnd
  <2>4. Store(c, Pristine) /\ Reset(q, o, c, TRUE)
    BY <1>1, <1>7, <2>3 DEF PipelineReply
  <2> QED BY <1>2, <1>3, <2>4, PristineReset DEF Working
<1>8. CASE o.left # 1
  <2> DEFINE e == [o EXCEPT !.left = @ - 1]
  <2>1. o.left - 1 \in Nat /\ o.left - 1 \in 1..n
    BY <1>3, <1>8
  <2>2. e \in Object /\ SameKind(e, o) /\ e.cmds = o.cmds /\ e.sets = o.sets
    BY <1>2, <2>1 DEF Object, SameKind
  <2>3. e.doing = "reading" /\ e.left = o.left - 1 /\ ~e.open
    BY <1>2, <1>3 DEF Object
  <2>4. Becomes(q, e, c)
    BY <1>8 DEF PipelineReply
  <2> HIDE DEF e
  <2>5. Working(e) /\ Staged(e)
    BY <1>2, <1>3, <2>1, <2>2, <2>3 DEF Working, Staged, SameKind, n
  <2>6. Expected(e) = j.sent /\ ~InMulti(e, j) /\ Replied(e, j)
    BY <1>5, <2>2, <2>3 DEF Expected, InMulti, Replied, n
  <2>7. Talks(e, j)
    BY <1>2, <1>4, <1>6, <2>3, <2>6 DEF Talks, SameEnd
  <2> QED BY <1>1, <1>2, <2>2, <2>4, <2>5, <2>7, BecomesPlaced DEF Owns, SameKind
<1> QED BY <1>7, <1>8

LEMMA PipelineDiscardKeeps ==
    ASSUME IInv, NEW q \in Queues, PipelineDiscard(q), plain' = plain
    PROVE  IInv'
<1>1. PICK c \in Conns :
          /\ ~obj[q].tx /\ Begins(q, c)
          /\ \/ Store(c, Pristine) /\ Reset(q, obj[q], c, TRUE)
             \/ Invalidate(q, c, Fetched(c))
  BY DEF PipelineDiscard
<1>2. Near(q, c) /\ Ready(obj[q], Fetched(c)) /\ Owns(obj[q], q, c)
  BY <1>1, Begun DEF Owns
<1>3. /\ obj[q].life = "live" /\ obj[q].valid /\ ~obj[q].open
      /\ Fetched(c) \in ConnectionRecord /\ Ordered(Fetched(c)) /\ Harmless(Fetched(c))
  BY <1>1, <1>2, BegunAlone DEF Ready, Staged, Harmless
<1> QED BY <1>1, <1>2, <1>3, PristineReset, InvalidatePlaced

LEMMA MethodsEndKeep ==
    ASSUME IInv, NEW q \in Queues, TransactionExec(q) \/ TransactionDiscard(q), plain' = plain
    PROVE  IInv'
<1>1. PICK c \in Conns, then \in {"exec", "discard"} : obj[q].tx /\ Begins(q, c) /\ Closes(q, c, then)
  BY DEF TransactionExec, TransactionDiscard
<1> QED BY <1>1, ClosesPlaced

-----------------------------------------------------------------------------
(* The lives of the objects, and the Redis objects.                        *)

LEMMA Holding ==
    ASSUME IInv, NEW q \in Queues, obj[q].conn # NoConn
    PROVE  LET o == obj[q]
               c == o.conn
           IN  /\ c \in Conns /\ Near(q, c) /\ Owns(o, q, c) /\ c \notin idle
               /\ o \in Object /\ Shape(o) /\ Staged(o)
               /\ conn[c] \in ConnectionRecord /\ Ordered(conn[c]) /\ Matches(o, conn[c])
<1>1. obj[q] \in Object /\ Shape(obj[q]) /\ Staged(obj[q])
  BY DEF IInv, CoreTypes, Conversations
<1>2. obj[q].conn \in Conns /\ Near(q, obj[q].conn) /\ Owns(obj[q], q, obj[q].conn) /\ obj[q].conn \notin idle
  BY <1>1 DEF IInv, Exclusive, Conns, Object, Near, Owns
<1> QED BY <1>1, <1>2 DEF IInv, CoreTypes, Conversations

\* An object without a connection: its own one, or any, is clean.
LEMMA Without ==
    ASSUME IInv, NEW q \in Queues, obj[q].conn = NoConn
    PROVE  /\ q \in Conns /\ q \notin Slots /\ NoConn \notin Conns /\ Near(q, q)
           /\ obj[q] \in Object /\ Shape(obj[q]) /\ Staged(obj[q])
           /\ conn[q] \in ConnectionRecord /\ Ordered(conn[q]) /\ Clean(conn[q])
<1>1. q \in Conns /\ q \notin Slots /\ Near(q, q) /\ NoConn \notin Conns
  BY QueuedAssumption DEF Conns, Near
<1> QED BY <1>1, NearIsAlone DEF IInv, CoreTypes, Conversations

LEMMA NoObjectIs == NoObject \in Object /\ Shape(NoObject) /\ Staged(NoObject)
<1>1. <<>> \in Seq(UserCommand) /\ {} \in SUBSET Nat /\ 0 \in Nat
  OBVIOUS
<1>2. NoObject \in Object
  BY <1>1 DEF NoObject, Object, Doing
<1>3. /\ NoObject.life = "none" /\ ~NoObject.valid /\ ~NoObject.handle /\ ~NoObject.piped /\ ~NoObject.open
      /\ NoObject.conn = NoConn /\ NoObject.doing = "nothing" /\ NoObject.cmds = <<>> /\ NoObject.sets = {}
  BY DEF NoObject
<1> QED BY <1>2, <1>3 DEF Shape, Staged

LEMMA CreateKeeps ==
    ASSUME IInv, NEW q \in Queues, NEW tx \in BOOLEAN, NEW piped \in BOOLEAN, NEW own \in BOOLEAN,
           Create(q, tx, piped, own), plain' = plain
    PROVE  IInv'
<1> DEFINE e == [NoObject EXCEPT !.life = "live", !.valid = TRUE, !.tx = tx, !.piped = piped, !.own = own]
<1>1. obj[q].life = "none" /\ (piped => tx) /\ obj' = [obj EXCEPT ![q] = e] /\ idle' = idle
      /\ conn' = [conn EXCEPT ![q] = NoContext]
  BY DEF Create
<1>2. obj[q].conn = NoConn
  <2>1. Shape(obj[q])
    BY DEF IInv, Conversations
  <2> QED BY <1>1, <2>1 DEF Shape, NoObject
<1>3. e \in Object
  BY NoObjectIs DEF Object
<1>4. /\ e.life = "live" /\ e.valid /\ e.tx = tx /\ e.piped = piped /\ ~e.open /\ ~e.handle /\ e.conn = NoConn
      /\ e.doing = "nothing" /\ e.cmds = <<>> /\ e.sets = {}
  BY DEF NoObject
<1> HIDE DEF e
<1>5. Shape(e) /\ Staged(e)
  BY <1>1, <1>4 DEF Shape, Staged
<1>6. Leaving(q, q, e, NoContext)
  BY <1>1, <1>2, <1>3, <1>4, <1>5, Without, PristineIs DEF Leaving, Clean
<1> QED BY <1>2, <1>6, Without, Placed

LEMMA SanityCheckFailsKeeps ==
    ASSUME IInv, NEW q \in Queues, SanityCheckFails(q), plain' = plain
    PROVE  IInv'
<1> DEFINE c == obj[q].conn
<1>1. obj[q].life = "live" /\ obj[q].doing = "nothing"
  BY DEF SanityCheckFails
<1>2. CASE c = NoConn
  <2> DEFINE e == [obj[q] EXCEPT !.valid = FALSE]
  <2>1. obj' = [obj EXCEPT ![q] = e] /\ conn' = conn /\ idle' = idle
    BY <1>2 DEF SanityCheckFails
  <2>2. /\ e \in Object /\ e.conn = NoConn /\ ~e.valid /\ e.life = obj[q].life /\ e.handle = obj[q].handle
        /\ e.doing = obj[q].doing /\ e.cmds = obj[q].cmds /\ e.sets = obj[q].sets
        /\ e.piped = obj[q].piped /\ e.tx = obj[q].tx
    <3>1. obj[q] \in Object /\ obj[q].conn = NoConn
      BY <1>2, Without
    <3> QED BY <3>1 DEF Object
  <2> HIDE DEF e
  <2>3. Shape(e) /\ Staged(e)
    BY <1>1, <1>2, <2>2, Without DEF Shape, Staged
  <2>4. conn' = [conn EXCEPT ![q] = conn[q]]
    BY <1>2, <2>1, Without DEF IInv, CoreTypes
  <2>5. Leaving(q, q, e, conn[q])
    BY <1>2, <2>1, <2>2, <2>3, <2>4, Without DEF Leaving
  <2> QED BY <1>2, <2>5, Without, Placed
<1>3. CASE c # NoConn
  <2>1. Invalidate(q, c, conn[c]) /\ (~obj[q].valid \/ Broken(conn[c]))
    BY <1>3 DEF SanityCheckFails
  <2>2. obj[q].own /\ ~Broken(conn[c]) /\ ~UseAfterFailure => Harmless(conn[c])
    BY <1>3, <2>1, Holding DEF Matches
  <2> QED BY <1>1, <1>3, <2>1, <2>2, Holding, InvalidatePlaced
<1> QED BY <1>2, <1>3

LEMMA MakeHandleKeeps ==
    ASSUME IInv, NEW q \in Queues, MakeHandle(q), plain' = plain
    PROVE  IInv'
<1> DEFINE o == obj[q]
           e == [o EXCEPT !.handle = TRUE]
<1>1. PICK c \in Conns : Begins(q, c) /\ Store(c, Fetched(c)) /\ Becomes(q, e, c)
  BY DEF MakeHandle
<1> DEFINE k == Fetched(c)
<1>2. Near(q, c) /\ Owns(o, q, c) /\ Ready(o, k)
  BY <1>1, Begun DEF Owns
<1>3. /\ o \in Object /\ Working(o) /\ Staged(o) /\ k \in ConnectionRecord /\ Ordered(k) /\ k.link = "ok" /\ Talks(o, k)
  BY <1>2, BegunAlone
<1>4. /\ e \in Object /\ e.life = o.life /\ e.valid = o.valid /\ e.tx = o.tx /\ e.piped = o.piped /\ e.own = o.own
      /\ e.cmds = o.cmds /\ e.sets = o.sets /\ e.open = o.open /\ e.doing = o.doing
      /\ e.next = o.next /\ e.left = o.left /\ e.then = o.then
  BY <1>3 DEF Object
<1> HIDE DEF e, k
<1>5. Working(e) /\ Staged(e) /\ Talks(e, k) /\ Owns(e, q, c)
  BY <1>2, <1>3, <1>4 DEF Working, Staged, Talks, Expected, InMulti, InQueue, Replied, Owns
<1> QED BY <1>1, <1>2, <1>3, <1>4, <1>5, BecomesPlaced DEF k

\* An object goes on with the connection it has.
LEMMA StaysPlaced ==
    ASSUME IInv, NEW q \in Queues, obj[q].conn # NoConn,
           NEW e \in Object, NEW k \in ConnectionRecord, e.own = obj[q].own, e.conn = obj[q].conn,
           Shape(e), Staged(e), Ordered(k), Matches(e, k),
           obj' = [obj EXCEPT ![q] = e], Store(obj[q].conn, k), idle' = idle, plain' = plain
    PROVE  IInv'
<1>1. Leaving(q, obj[q].conn, e, k)
  BY Holding DEF Leaving, Owns, Store
<1> QED BY <1>1, Holding, Placed

LEMMA HandleSendsKeeps ==
    ASSUME IInv, NEW q \in Queues, plain' = plain,
           \/ \E x \in UserCommand : HandleCommand(q, x)
           \/ HandleWatch(q)
    PROVE  IInv'
<1>1. PICK x \in Command : /\ HandleSends(q, x)
                           /\ \/ x \in UserCommand /\ x.op = "get"
                              \/ x = Own("watch") /\ obj[q].tx
  <2>1. Own("watch") \in Command /\ UserCommand \subseteq Command
    BY DEF Own, Command
  <2> QED BY <2>1 DEF HandleCommand, HandleWatch
<1> DEFINE o == obj[q]
           c == o.conn
           k == conn[c]
           e == [o EXCEPT !.doing = "sharing", !.next = x]
           j == Asks(k, x)
<1>2. /\ o.handle /\ o.doing = "nothing" /\ o.cmds = <<>> /\ ~Broken(k) /\ (o.valid \/ UseAfterFailure)
      /\ Store(c, j) /\ obj' = [obj EXCEPT ![q] = e] /\ idle' = idle
  BY <1>1 DEF HandleSends, HandleUsable
<1>3. c # NoConn
  <2>1. Shape(o)
    BY DEF IInv, Conversations
  <2> QED BY <1>2, <2>1 DEF Shape
<1>4. /\ o \in Object /\ Shape(o) /\ Staged(o) /\ k \in ConnectionRecord /\ Ordered(k) /\ Matches(o, k)
  BY <1>3, Holding
<1>5. /\ e \in Object /\ SameKind(e, o) /\ e.conn = c /\ e.cmds = <<>> /\ e.sets = o.sets /\ e.open = o.open
      /\ e.doing = "sharing" /\ e.next = x
  BY <1>2, <1>4 DEF Object, Doing, SameKind
<1>6. o.valid => k.sent = <<>> /\ ~o.open /\ k.multi = "no" /\ k.queue = <<>> /\ (~o.tx => k.watch = "no")
  BY <1>2, <1>4 DEF Matches, Talks, Expected, InMulti, Staged
<1>7. j \in ConnectionRecord /\ SameEnd(j, k) /\ Ordered(j) /\ ~Broken(j)
  BY <1>2, <1>4, AsksIs DEF SameEnd, Broken
<1>8. o.valid => j.sent = <<x>> /\ Len(j.sent) = 1 /\ j.written = 1 /\ j.replies = <<>>
  BY <1>2, <1>4, <1>6, AsksFirst
<1> HIDE DEF e, j
<1>9. Shape(e) /\ Staged(e)
  <2>1. o.life # "none"
    BY <1>2, <1>4 DEF Shape, NoObject
  <2>2. Shape(e)
    BY <1>2, <1>3, <1>4, <1>5, <2>1 DEF Shape, SameKind
  <2>3. Staged(e)
    BY <1>1, <1>5, <1>6 DEF Staged, SameKind
  <2> QED BY <2>2, <2>3
<1>10. o.valid => Expected(e) = <<x>> /\ ~InMulti(e, j) /\ Replied(e, j)
  BY <1>5, <1>6, <1>8 DEF Expected, InMulti, Replied
<1>11. Matches(e, j)
  BY <1>2, <1>4, <1>5, <1>6, <1>7, <1>8, <1>10 DEF Matches, Talks, SameEnd, SameKind
<1> QED BY <1>2, <1>3, <1>5, <1>7, <1>9, <1>11, StaysPlaced DEF SameKind

LEMMA HandleEndsKeeps ==
    ASSUME IInv, NEW q \in Queues, HandleReply(q) \/ HandleFails(q), plain' = plain
    PROVE  IInv'
<1> DEFINE o == obj[q]
           c == o.conn
           k == conn[c]
           e == [o EXCEPT !.doing = "nothing", !.next = NoCommand]
<1>1. PICK j : /\ o.doing = "sharing"
               /\ j = Break \/ (j = AfterRecv(k) /\ Answered(k))
               /\ Store(c, j) /\ obj' = [obj EXCEPT ![q] = e] /\ idle' = idle
  BY DEF HandleReply, HandleFails, HandleEnds, Receives, After
<1>2. c # NoConn
  <2>1. Shape(o)
    BY DEF IInv, Conversations
  <2> QED BY <1>1, <2>1 DEF Shape
<1>3. /\ o \in Object /\ Shape(o) /\ Staged(o) /\ k \in ConnectionRecord /\ Ordered(k) /\ Matches(o, k)
  BY <1>2, Holding
<1>4. /\ e \in Object /\ SameKind(e, o) /\ e.conn = c /\ e.cmds = o.cmds /\ e.sets = o.sets /\ e.open = o.open
      /\ e.doing = "nothing"
  BY <1>3 DEF Object, Doing, SameKind
<1> HIDE DEF e
<1>5. o.cmds = <<>> /\ (o.valid => ~o.open)
  BY <1>1, <1>3 DEF Staged
<1>6. Shape(e) /\ Staged(e)
  <2>1. o.life # "none"
    BY <1>1, <1>3 DEF Shape, NoObject
  <2> QED BY <1>2, <1>3, <1>4, <1>5, <2>1 DEF Shape, Staged, SameKind
<1>7. CASE j = Break
  <2>1. Matches(e, j)
    BY <1>4, <1>7, PristineIs DEF Matches
  <2> QED BY <1>1, <1>2, <1>4, <1>6, <1>7, <2>1, PristineIs, StaysPlaced DEF SameKind
<1>8. CASE j = AfterRecv(k) /\ Answered(k)
  <2>1. j \in ConnectionRecord /\ SameEnd(j, k) /\ Ordered(j) /\ ~Broken(k)
    BY <1>3, <1>8, RecvIs
  <2>2. ASSUME o.valid PROVE Talks(e, j)
    <3>1. k.sent = <<o.next>> /\ k.multi = "no" /\ k.queue = <<>> /\ (~o.tx => k.watch = "no")
      BY <1>1, <1>3, <1>5, <2>1, <2>2 DEF Matches, Talks, Expected, InMulti
    <3>2. j.sent = <<>> /\ j.written = 0 /\ j.replies = <<>>
      BY <1>3, <1>8, <3>1, RecvLast
    <3>3. Expected(e) = <<>> /\ ~InMulti(e, j)
      BY <1>4, <1>5, <2>2 DEF Expected, InMulti
    <3> QED BY <1>4, <2>1, <3>1, <3>2, <3>3 DEF Talks, Replied, SameEnd, SameKind
  <2>3. Matches(e, j)
    BY <1>1, <1>3, <1>4, <2>1, <2>2 DEF Matches, SameKind, SameEnd, Broken
  <2> QED BY <1>1, <1>2, <1>4, <1>6, <2>1, <2>3, StaysPlaced DEF SameKind
<1> QED BY <1>1, <1>7, <1>8

\* An object, and its Redis object, are gone; its connection c is left as k.
LEMMA LeavesPlaced ==
    ASSUME IInv, NEW q \in Queues, obj[q].conn # NoConn, NEW k \in ConnectionRecord,
           Ordered(k), ~obj[q].own => Broken(k),
           obj' = [obj EXCEPT ![q] = NoObject], Leaves(q, obj[q].conn, k), plain' = plain
    PROVE  IInv'
<1> DEFINE c == obj[q].conn
           j == IF obj[q].own THEN NoContext ELSE k
<1>1. j \in ConnectionRecord /\ Ordered(j) /\ Clean(j) /\ conn' = [conn EXCEPT ![c] = j]
  BY PristineIs DEF Leaves, Store, Clean
<1>2. c \in Conns /\ Near(q, c) /\ Owns(obj[q], q, c) /\ NoObject.conn = NoConn /\ q \notin Slots
  BY Holding, QueuedAssumption DEF NoObject
<1>3. idle' = idle \cup ({c} \cap Slots)
  BY <1>2 DEF Leaves, Owns
<1>4. Leaving(q, c, NoObject, j)
  BY <1>1, <1>2, <1>3, NoObjectIs DEF Leaving
<1> QED BY <1>1, <1>2, <1>4, Placed

\* All that differs is who may use it.
LEMMA Handed ==
    ASSUME NEW o \in Object, NEW life \in {"live", "gone"}, NEW handle \in BOOLEAN, NEW k,
           Shape(o), Staged(o), o.life = "live", o.conn # NoConn, o.doing = "nothing",
           life = "gone" => handle /\ (~o.own => Broken(k)),
           Matches(o, k)
    PROVE  LET e == [o EXCEPT !.life = life, !.handle = handle]
           IN  e \in Object /\ e.own = o.own /\ e.conn = o.conn /\ Shape(e) /\ Staged(e) /\ Matches(e, k)
<1> DEFINE e == [o EXCEPT !.life = life, !.handle = handle]
<1>1. /\ e \in Object /\ e.life = life /\ e.handle = handle /\ e.conn = o.conn
      /\ e.valid = o.valid /\ e.tx = o.tx /\ e.piped = o.piped /\ e.own = o.own
      /\ e.cmds = o.cmds /\ e.sets = o.sets /\ e.open = o.open /\ e.doing = o.doing
      /\ e.next = o.next /\ e.left = o.left /\ e.then = o.then
  BY DEF Object
<1> HIDE DEF e
<1>2. Shape(e) /\ Staged(e)
  BY <1>1 DEF Shape, Staged
<1>3. Talks(o, k) => Talks(e, k)
  BY <1>1 DEF Talks, Expected, InMulti, InQueue, Replied
<1>4. Matches(e, k)
  BY <1>1, <1>3 DEF Matches
<1> QED BY <1>1, <1>2, <1>4 DEF e

LEMMA DropHandleKeeps ==
    ASSUME IInv, NEW q \in Queues, DropHandle(q), plain' = plain
    PROVE  IInv'
<1> DEFINE o == obj[q]
           k == conn[o.conn]
<1>1. o.handle /\ o.doing = "nothing"
  BY DEF DropHandle
<1>2. o.conn # NoConn
  <2>1. Shape(o)
    BY DEF IInv, Conversations
  <2> QED BY <1>1, <2>1 DEF Shape
<1>3. /\ o.conn \in Conns /\ o \in Object /\ Shape(o) /\ Staged(o)
      /\ k \in ConnectionRecord /\ Ordered(k) /\ Matches(o, k)
  BY <1>2, Holding
<1>4. CASE o.life = "gone"
  BY <1>2, <1>3, <1>4, LeavesPlaced DEF DropHandle, Matches
<1>5. CASE o.life # "gone"
  <2> DEFINE e == [o EXCEPT !.handle = FALSE]
  <2>1. obj' = [obj EXCEPT ![q] = e] /\ conn' = conn /\ idle' = idle
    BY <1>5 DEF DropHandle
  <2>2. o.life = "live" /\ e = [o EXCEPT !.life = "live", !.handle = FALSE]
    <3>1. o.life = "live"
      BY <1>1, <1>3, <1>5 DEF Shape, Object, NoObject
    <3> QED BY <1>3, <3>1 DEF Object
  <2>3. e \in Object /\ e.own = o.own /\ e.conn = o.conn /\ Shape(e) /\ Staged(e) /\ Matches(e, k)
    BY <1>1, <1>2, <1>3, <2>2, Handed
  <2>4. Store(o.conn, k)
    BY <1>3, <2>1 DEF Store, IInv, CoreTypes
  <2> QED BY <1>2, <1>3, <2>1, <2>3, <2>4, StaysPlaced
<1> QED BY <1>4, <1>5

LEMMA DestroyKeeps ==
    ASSUME IInv, NEW q \in Queues, Destroy(q), plain' = plain
    PROVE  IInv'
<1> DEFINE o == obj[q]
<1>1. o.life = "live" /\ o.doing = "nothing"
  BY DEF Destroy
<1>2. CASE o.conn = NoConn /\ obj' = [obj EXCEPT ![q] = NoObject] /\ UNCHANGED <<conn, idle>>
  <2>1. conn' = [conn EXCEPT ![q] = conn[q]]
    BY <1>2, Without DEF IInv, CoreTypes
  <2>2. Leaving(q, q, NoObject, conn[q])
    BY <1>2, <2>1, Without, NoObjectIs DEF Leaving, NoObject
  <2> QED BY <1>2, <2>2, Without, Placed
<1>3. CASE o.conn # NoConn /\ obj' = [obj EXCEPT ![q] = NoObject] /\ Leaves(q, o.conn, Break)
  BY <1>3, PristineIs, LeavesPlaced
<1>4. CASE /\ o.handle /\ obj' = [obj EXCEPT ![q].life = "gone"] /\ UNCHANGED idle
           /\ Store(o.conn, IF o.own THEN conn[o.conn] ELSE Break)
  <2> DEFINE e == [o EXCEPT !.life = "gone"]
             k == IF o.own THEN conn[o.conn] ELSE Break
  <2>1. o.conn # NoConn
    <3>1. Shape(o)
      BY DEF IInv, Conversations
    <3> QED BY <1>4, <3>1 DEF Shape
  <2>2. /\ o \in Object /\ Shape(o) /\ Staged(o) /\ conn[o.conn] \in ConnectionRecord
        /\ Ordered(conn[o.conn]) /\ Matches(o, conn[o.conn])
    BY <2>1, Holding
  <2>3. k \in ConnectionRecord /\ Ordered(k) /\ (~o.own => Broken(k)) /\ Matches(o, k)
    BY <1>1, <2>2, PristineIs DEF Matches
  <2>4. e = [o EXCEPT !.life = "gone", !.handle = TRUE]
    BY <1>4, <2>2 DEF Object
  <2>5. e \in Object /\ e.own = o.own /\ e.conn = o.conn /\ Shape(e) /\ Staged(e) /\ Matches(e, k)
    BY <1>1, <2>1, <2>2, <2>3, <2>4, Handed
  <2>6. obj' = [obj EXCEPT ![q] = e] /\ Store(o.conn, k) /\ idle' = idle
    BY <1>4
  <2> QED BY <2>1, <2>3, <2>5, <2>6, StaysPlaced
<1> QED BY <1>2, <1>3, <1>4 DEF Destroy

-----------------------------------------------------------------------------
(* Plain users.                                                            *)

LEMMA PlainPlaced ==
    ASSUME IInv, NEW c \in Slots, \A q \in Queues : ~Holds(q, c),
           NEW x \in UserCommand \cup {NoCommand}, NEW k \in ConnectionRecord, Ordered(k),
           IF x = NoCommand THEN Clean(k) ELSE PlainTalks(x, k),
           idle' = IF x = NoCommand THEN idle \cup {c} ELSE idle \ {c},
           plain' = [plain EXCEPT ![c] = x], Store(c, k), obj' = obj
    PROVE  IInv'
<1>1. /\ conn \in [Conns -> ConnectionRecord] /\ idle \subseteq Slots /\ obj \in [Queues -> Object] /\ c \in Conns
      /\ plain \in [Slots -> UserCommand \cup {NoCommand}] /\ NoConn \notin Conns /\ Slots \subseteq Conns
  BY QueuedAssumption DEF IInv, CoreTypes, Conns
<1>2. /\ conn'[c] = k /\ (\A d \in Conns : d # c => conn'[d] = conn[d])
      /\ plain'[c] = x /\ (\A d \in Slots : d # c => plain'[d] = plain[d])
      /\ \A q \in Queues : obj[q].conn # c /\ obj[q].conn \in Conns \cup {NoConn}
  BY <1>1 DEF Store, Holds, Object
<1>3. CoreTypes'
  BY <1>1 DEF CoreTypes, Store
<1>4. Exclusive'
  BY <1>1, <1>2 DEF IInv, Exclusive, Holds
<1>5. \A d \in Conns : Ordered(conn'[d])
  BY <1>2 DEF IInv, Conversations
<1>6. ASSUME NEW d \in Conns, Free(d)' PROVE Clean(conn'[d])
  BY <1>1, <1>2, <1>6 DEF IInv, Conversations, Free, Holds
<1>7. ASSUME NEW d \in Slots, plain'[d] # NoCommand PROVE PlainTalks(plain'[d], conn'[d])
  BY <1>1, <1>2, <1>7 DEF IInv, Conversations
<1>8. ASSUME NEW q \in Queues, obj[q].conn # NoConn PROVE Matches(obj[q], conn'[obj[q].conn])
  BY <1>1, <1>2, <1>8 DEF IInv, Conversations
<1>9. Conversations'
  BY <1>5, <1>6, <1>7, <1>8 DEF IInv, Conversations
<1> QED BY <1>3, <1>4, <1>9 DEF IInv

LEMMA PlainCommandKeeps ==
    ASSUME IInv, NEW c \in Slots, NEW x \in UserCommand, PlainCommand(c, x)
    PROVE  IInv'
<1> DEFINE k == Asks(Fetched(c), x)
<1>1. /\ c \in idle /\ x.op \in {"get", "bad"} /\ Store(c, k) /\ idle' = idle \ {c}
      /\ plain' = [plain EXCEPT ![c] = x] /\ obj' = obj
  BY DEF PlainCommand, Issue, UserOps
<1>2. /\ \A q \in Queues : ~Holds(q, c)
      /\ plain[c] = NoCommand /\ c \in Conns
  BY <1>1 DEF IInv, Exclusive, Holds, Conns
<1>3. Clean(conn[c])
  BY <1>2 DEF IInv, Conversations, Free
<1>4. Fetched(c) = Pristine
  BY <1>3 DEF Fetched, Clean
<1>5. Pristine.sent = <<>> /\ Pristine.multi = "no" /\ Pristine.queue = <<>> /\ Pristine.watch = "no" /\ ~Broken(Pristine)
  BY DEF Pristine, Broken
<1>6. /\ k \in ConnectionRecord /\ Ordered(k) /\ SameEnd(k, Pristine) /\ k.sent = <<x>> /\ k.written = 1
  BY <1>4, <1>5, PristineIs, AsksFirst DEF Command
<1>7. PlainTalks(x, k) /\ x # NoCommand
  BY <1>1, <1>5, <1>6, PristineIs DEF PlainTalks, SameEnd, NoCommand
<1> QED BY <1>1, <1>2, <1>6, <1>7, PlainPlaced

LEMMA PlainEndsKeeps ==
    ASSUME IInv, NEW c \in Slots, PlainReply(c) \/ PlainFails(c)
    PROVE  IInv'
<1>1. PICK k : /\ plain[c] # NoCommand /\ PlainEnds(c, k)
               /\ k = Break \/ (k = AfterRecv(conn[c]) /\ Answered(conn[c]))
  BY DEF PlainReply, PlainFails
<1>2. /\ \A q \in Queues : ~Holds(q, c)
      /\ c \in Conns /\ conn[c] \in ConnectionRecord /\ Ordered(conn[c]) /\ PlainTalks(plain[c], conn[c])
  BY <1>1 DEF IInv, CoreTypes, Exclusive, Conversations, Conns
<1>3. k \in ConnectionRecord /\ Ordered(k) /\ Clean(k)
  <2>1. CASE k = Break
    BY <2>1, PristineIs DEF Clean
  <2>2. CASE k = AfterRecv(conn[c]) /\ Answered(conn[c])
    <3>1. k \in ConnectionRecord /\ Ordered(k) /\ SameEnd(k, conn[c])
      BY <1>2, <2>2, RecvIs
    <3>2. k.sent = <<>> /\ k.written = 0 /\ k.replies = <<>>
      BY <1>2, <2>2, RecvLast DEF PlainTalks
    <3>3. k = Pristine
      BY <1>2, <3>1, <3>2, IsPristine DEF PlainTalks, SameEnd
    <3> QED BY <3>1, <3>3 DEF Clean
  <2> QED BY <1>1, <2>1, <2>2
<1>4. /\ idle' = idle \cup {c} /\ plain' = [plain EXCEPT ![c] = NoCommand] /\ Store(c, k) /\ obj' = obj
  BY <1>1 DEF PlainEnds
<1> QED BY <1>2, <1>3, <1>4, PlainPlaced

-----------------------------------------------------------------------------
(* The server.                                                             *)

\* The other end of a connection does something.
LEMMA ServerPlaced ==
    ASSUME IInv, NEW c \in Conns, NEW k \in ConnectionRecord, Ordered(k),
           Clean(conn[c]) => Clean(k),
           \A x : PlainTalks(x, conn[c]) => PlainTalks(x, k),
           \A o \in Object : Shape(o) /\ Staged(o) /\ Matches(o, conn[c]) => Matches(o, k),
           Store(c, k), UNCHANGED <<idle, obj, plain>>
    PROVE  IInv'
<1>1. /\ conn \in [Conns -> ConnectionRecord] /\ obj \in [Queues -> Object] /\ Slots \subseteq Conns
  BY DEF IInv, CoreTypes, Conns
<1>2. conn'[c] = k /\ \A d \in Conns : d # c => conn'[d] = conn[d]
  BY <1>1 DEF Store
<1>3. CoreTypes' /\ Exclusive'
  BY <1>1 DEF IInv, CoreTypes, Exclusive, Store, Holds
<1>4. ASSUME NEW q \in Queues, obj[q].conn # NoConn PROVE Matches(obj[q], conn'[obj[q].conn])
  <2>1. obj[q] \in Object /\ Shape(obj[q]) /\ Staged(obj[q]) /\ Matches(obj[q], conn[obj[q].conn]) /\ obj[q].conn \in Conns
    BY <1>1, <1>4 DEF IInv, Conversations, Object
  <2> QED BY <1>2, <2>1
<1>5. ASSUME NEW d \in Conns, Free(d)' PROVE Clean(conn'[d])
  BY <1>1, <1>2, <1>5 DEF IInv, Conversations, Free, Holds
<1>6. ASSUME NEW d \in Slots, plain'[d] # NoCommand PROVE PlainTalks(plain'[d], conn'[d])
  BY <1>1, <1>2, <1>6 DEF IInv, Conversations
<1>7. Conversations'
  BY <1>2, <1>4, <1>5, <1>6 DEF IInv, Conversations
<1> QED BY <1>3, <1>7 DEF IInv

LEMMA IdsOfIs ==
    ASSUME NEW xs \in Seq(UserCommand)
    PROVE  /\ IdsOf(xs) \in Seq(Ids) /\ Len(IdsOf(xs)) = Len(xs)
           /\ \A i \in DOMAIN xs : IdsOf(xs)[i] = xs[i].id
<1>1. DOMAIN xs = 1..Len(xs) /\ Len(xs) \in Nat /\ \A i \in DOMAIN xs : xs[i] \in UserCommand
  BY ElementsOf
<1>2. \A i \in 1..Len(xs) : xs[i].id \in Ids
  BY <1>1 DEF UserCommand
<1> QED BY <1>1, <1>2 DEF IdsOf

\* What serving adds does not change what was sent; and what it makes of the rest.
Served(j, k, r) ==
    /\ j.link = k.link /\ j.sent = k.sent /\ j.written = k.written
    /\ j.replies = Append(k.replies, r)

LEMMA SaysIs ==
    ASSUME NEW k \in ConnectionRecord, NEW r \in Reply
    PROVE  /\ Says(k, r) \in ConnectionRecord /\ Served(Says(k, r), k, r)
           /\ Says(k, r).multi = k.multi /\ Says(k, r).queue = k.queue /\ Says(k, r).watch = k.watch
<1>1. Append(k.replies, r) \in Seq(Reply)
  BY DEF ConnectionRecord
<1> QED BY <1>1 DEF Says, ConnectionRecord, Served

LEMMA AnswerIs ==
    \A kind \in {"ok", "value", "queued", "error", "nil"} : Answer(kind) \in Reply /\ Answer(kind).kind = kind
<1>1. <<>> \in Seq(Ids)
  OBVIOUS
<1> QED BY <1>1 DEF Answer, Reply

LEMMA ServeOwn ==
    ASSUME NEW k \in ConnectionRecord, NEW x \in Command, x.op \in {"exec", "discard", "multi", "watch"}
    PROVE  \E r \in Reply :
              LET j == Serve(k, x)
              IN  /\ j \in ConnectionRecord /\ Served(j, k, r)
                  /\ x.op \in {"exec", "discard"} => j.multi = "no" /\ j.queue = <<>> /\ j.watch = "no"
                  /\ x.op = "exec" /\ r.kind = "array" => k.multi = "open" /\ k.watch # "touched" /\ r.ran = IdsOf(k.queue)
                  /\ x.op = "exec" /\ k.multi = "open" /\ k.watch # "touched" => r.kind = "array"
                  /\ x.op \in {"multi", "watch"} => j.queue = k.queue
                  /\ x.op \in {"multi", "watch"} /\ k.multi # "no" => j.multi = k.multi
                  /\ x.op = "multi" => j.watch = k.watch
                  /\ x.op = "multi" /\ k.multi = "no" => r.kind = "ok" /\ j.multi = "open"
                  /\ x.op = "watch" => j.multi = k.multi
<1> DEFINE j == Serve(k, x)
<1>1. Ended(k) \in ConnectionRecord /\ Ended(k).link = k.link /\ Ended(k).sent = k.sent
      /\ Ended(k).written = k.written /\ Ended(k).replies = k.replies
      /\ Ended(k).multi = "no" /\ Ended(k).queue = <<>> /\ Ended(k).watch = "no"
  <2>1. <<>> \in Seq(UserCommand)
    OBVIOUS
  <2> QED BY <2>1 DEF Ended, ConnectionRecord
<1>2. CASE x.op = "exec"
  <2>1. PICK r \in Reply : /\ j = Says(Ended(k), r)
                           /\ r.kind = "array" <=> k.multi = "open" /\ k.watch # "touched"
                           /\ r.kind = "array" => r.ran = IdsOf(k.queue)
    <3>1. [kind |-> "array", ran |-> IdsOf(k.queue)] \in Reply
      BY IdsOfIs DEF ConnectionRecord, Reply
    <3> QED BY <1>2, <3>1, AnswerIs DEF Serve, Exec
  <2>2. j \in ConnectionRecord /\ Served(j, Ended(k), r) /\ j.multi = "no" /\ j.queue = <<>> /\ j.watch = "no"
    BY <1>1, <2>1, SaysIs
  <2> QED BY <1>1, <1>2, <2>1, <2>2 DEF Served
<1>3. CASE x.op = "discard"
  <2>1. PICK r \in Reply : j = Says(Ended(k), r)
    <3>1. j = Says(Ended(k), IF k.multi = "no" THEN Answer("error") ELSE Answer("ok"))
      BY <1>3 DEF Serve
    <3> QED BY <3>1, AnswerIs
  <2>2. j \in ConnectionRecord /\ Served(j, Ended(k), r) /\ j.multi = "no" /\ j.queue = <<>> /\ j.watch = "no"
    BY <1>1, <2>1, SaysIs
  <2> QED BY <1>1, <1>3, <2>2 DEF Served
<1>4. CASE x.op \in {"multi", "watch"} /\ k.multi # "no"
  <2>1. j = Says(k, Answer("error")) /\ Answer("error") \in Reply
    BY <1>4, AnswerIs DEF Serve
  <2> QED BY <1>4, <2>1, SaysIs
<1>5. CASE x.op = "multi" /\ k.multi = "no"
  <2> DEFINE i == [k EXCEPT !.multi = "open"]
  <2>1. j = Says(i, Answer("ok")) /\ Answer("ok") \in Reply /\ Answer("ok").kind = "ok"
    BY <1>5, AnswerIs DEF Serve
  <2>2. /\ i \in ConnectionRecord /\ i.link = k.link /\ i.sent = k.sent /\ i.written = k.written
        /\ i.replies = k.replies /\ i.multi = "open" /\ i.queue = k.queue /\ i.watch = k.watch
    BY DEF ConnectionRecord
  <2> HIDE DEF i
  <2>3. /\ j \in ConnectionRecord /\ Served(j, i, Answer("ok"))
        /\ j.multi = "open" /\ j.queue = k.queue /\ j.watch = k.watch
    BY <2>1, <2>2, SaysIs
  <2> QED BY <1>5, <2>1, <2>2, <2>3 DEF Served
<1>6. CASE x.op = "watch" /\ k.multi = "no"
  <2> DEFINE i == [k EXCEPT !.watch = IF @ = "no" THEN "clean" ELSE @]
  <2>1. j = Says(i, Answer("ok")) /\ Answer("ok") \in Reply
    BY <1>6, AnswerIs DEF Serve
  <2>2. /\ i \in ConnectionRecord /\ i.link = k.link /\ i.sent = k.sent /\ i.written = k.written
        /\ i.replies = k.replies /\ i.multi = k.multi /\ i.queue = k.queue
    BY DEF ConnectionRecord
  <2> HIDE DEF i
  <2>3. j \in ConnectionRecord /\ Served(j, i, Answer("ok")) /\ j.multi = k.multi /\ j.queue = k.queue
    BY <2>1, <2>2, SaysIs
  <2> QED BY <1>6, <2>1, <2>2, <2>3 DEF Served
<1> QED BY <1>2, <1>3, <1>4, <1>5, <1>6

LEMMA ServeUser ==
    ASSUME NEW k \in ConnectionRecord, NEW x \in UserCommand
    PROVE  \E r \in Reply :
              LET j == Serve(k, x)
              IN  /\ j \in ConnectionRecord /\ Served(j, k, r) /\ j.watch = k.watch
                  /\ k.multi = "no" => j.multi = "no" /\ j.queue = k.queue
                  /\ k.multi # "no" => j.multi # "no"
                  /\ k.multi # "no" /\ j.multi = "open" => k.multi = "open" /\ j.queue = Append(k.queue, x)
<1> DEFINE j == Serve(k, x)
<1>1. x.op \in {"get", "set", "bad"}
  BY DEF UserCommand, UserOps
<1>2. CASE x.op = "bad"
  <2> DEFINE i == [k EXCEPT !.multi = IF @ = "no" THEN @ ELSE "dirty"]
  <2>1. j = Says(i, Answer("error")) /\ Answer("error") \in Reply
    BY <1>2, AnswerIs DEF Serve
  <2>2. /\ i \in ConnectionRecord /\ i.link = k.link /\ i.sent = k.sent /\ i.written = k.written
        /\ i.replies = k.replies /\ i.queue = k.queue /\ i.watch = k.watch
        /\ i.multi = IF k.multi = "no" THEN "no" ELSE "dirty"
    BY DEF ConnectionRecord
  <2> HIDE DEF i
  <2>3. /\ j \in ConnectionRecord /\ Served(j, i, Answer("error"))
        /\ j.multi = i.multi /\ j.queue = k.queue /\ j.watch = k.watch
    BY <2>1, <2>2, SaysIs
  <2> QED BY <2>1, <2>2, <2>3 DEF Served
<1>3. CASE x.op # "bad" /\ k.multi = "no"
  <2>1. j = Says(k, Answer("value")) /\ Answer("value") \in Reply
    BY <1>1, <1>3, AnswerIs DEF Serve
  <2> QED BY <1>3, <2>1, SaysIs
<1>4. CASE x.op # "bad" /\ k.multi # "no"
  <2> DEFINE i == [k EXCEPT !.queue = Append(@, x)]
  <2>1. j = Says(i, Answer("queued")) /\ Answer("queued") \in Reply
    BY <1>1, <1>4, AnswerIs DEF Serve
  <2>2. Append(k.queue, x) \in Seq(UserCommand)
    BY DEF ConnectionRecord
  <2>3. /\ i \in ConnectionRecord /\ i.link = k.link /\ i.sent = k.sent /\ i.written = k.written
        /\ i.replies = k.replies /\ i.queue = Append(k.queue, x) /\ i.watch = k.watch /\ i.multi = k.multi
    BY <2>2 DEF ConnectionRecord
  <2> HIDE DEF i
  <2>4. /\ j \in ConnectionRecord /\ Served(j, i, Answer("queued"))
        /\ j.multi = k.multi /\ j.queue = Append(k.queue, x) /\ j.watch = k.watch
    BY <2>1, <2>3, SaysIs
  <2> QED BY <1>4, <2>1, <2>3, <2>4 DEF Served
<1> QED BY <1>2, <1>3, <1>4

\* Everything but what the commands do.
LEMMA ServedIs ==
    ASSUME NEW k \in ConnectionRecord, Ordered(k), Unserved(k), NEW j \in ConnectionRecord, NEW r \in Reply, Served(j, k, r)
    PROVE  /\ Ordered(j) /\ ~Broken(k) /\ ~Broken(j) /\ ~Clean(k) /\ k.written # 0 /\ k.sent # <<>>
           /\ NextServed(k) \in Command
           /\ j.replies # <<>> /\ Len(j.replies) = Len(k.replies) + 1
           /\ k.replies = <<>> => Head(j.replies) = r
<1>1. k.replies \in Seq(Reply) /\ k.sent \in Seq(Command) /\ k.written \in Nat
  BY DEF ConnectionRecord
<1>2. /\ Append(k.replies, r) # <<>> /\ Len(Append(k.replies, r)) = Len(k.replies) + 1
      /\ k.replies = <<>> => Head(Append(k.replies, r)) = r
  BY <1>1, AppendProperties, HeadTailAppend
<1>3. Len(k.replies) < k.written /\ k.written <= Len(k.sent) /\ Len(k.replies) \in Nat /\ Len(k.sent) \in Nat
  BY <1>1 DEF Unserved, Ordered
<1>4. k.sent # <<>> /\ k.written # 0
  BY <1>1, <1>3, EmptySeq
<1>5. ~Broken(k) /\ ~Broken(j) /\ ~Clean(k)
  BY <1>4 DEF Ordered, Served, Broken, Clean, Pristine
<1>6. Ordered(j)
  BY <1>1, <1>2, <1>3, <1>5 DEF Ordered, Served
<1>7. NextServed(k) \in Command
  BY <1>1, <1>3 DEF NextServed
<1> QED BY <1>2, <1>4, <1>5, <1>6, <1>7 DEF Served

\* The only command there is.
LEMMA NextOfOne ==
    ASSUME NEW k \in ConnectionRecord, Ordered(k), Unserved(k), NEW x, k.sent = <<x>>
    PROVE  NextServed(k) = x /\ k.replies = <<>>
<1>1. Len(<<x>>) = 1 /\ <<x>>[1] = x
  OBVIOUS
<1>2. k.replies \in Seq(Reply) /\ k.written \in Nat
  BY DEF ConnectionRecord
<1>3. Len(k.replies) = 0
  BY <1>1, <1>2 DEF Unserved, Ordered
<1>4. k.replies = <<>>
  BY <1>2, <1>3, EmptySeq
<1> QED BY <1>1, <1>3, <1>4 DEF NextServed

\* The next command of an object that collects or reads.
LEMMA NextOfMany ==
    ASSUME NEW o \in Object, NEW k \in ConnectionRecord, Ordered(k), Unserved(k),
           o.left \in 0..Len(o.cmds), k.sent = SubSeq(o.cmds, Len(o.cmds) - o.left + 1, Len(o.cmds))
    PROVE  LET n == Len(o.cmds) - o.left + Len(k.replies)
           IN  /\ n \in 0..Len(o.cmds) - 1 /\ NextServed(k) = o.cmds[n + 1] /\ NextServed(k) \in UserCommand
               /\ Append(SubSeq(o.cmds, 1, n), NextServed(k)) = SubSeq(o.cmds, 1, n + 1)
<1> DEFINE s == o.cmds
           m == o.left
           r == Len(k.replies)
           n == Len(s) - m + r
<1>1. s \in Seq(UserCommand) /\ Len(s) \in Nat /\ m \in 0..Len(s) /\ r \in Nat /\ r < k.written /\ k.written <= Len(k.sent)
      /\ k.written \in Nat
  <2>1. s \in Seq(UserCommand)
    BY DEF Object
  <2>2. Len(s) \in Nat
    BY ONLY <2>1
  <2>3. m \in 0..Len(s)
    OBVIOUS
  <2>4. k.replies \in Seq(Reply) /\ k.written \in Nat
    BY DEF ConnectionRecord
  <2>5. r \in Nat
    BY ONLY <2>4 DEF r
  <2>6. r < k.written /\ k.written <= Len(k.sent)
    BY DEF Unserved, Ordered
  <2> QED BY ONLY <2>1, <2>2, <2>3, <2>4, <2>5, <2>6
<1>2. k.sent = SubSeq(s, Len(s) - m + 1, Len(s))
  OBVIOUS
<1> HIDE DEF s, m, r
<1>3. m # 0
  <2>1. ASSUME m = 0 PROVE FALSE
    <3>1. Len(s) + 1 \in Int /\ Len(s) \in Int /\ Len(s) < Len(s) + 1 /\ Len(s) - m + 1 = Len(s) + 1
      BY <1>1, <2>1
    <3>2. k.sent = <<>>
      BY ONLY <1>2, <3>1, SubSeqEmpty
    <3>3. Len(k.sent) = 0
      BY ONLY <3>2, EmptySeq
    <3> QED BY ONLY <1>1, <3>3
  <2> QED BY <2>1
<1>4. m \in 1..Len(s)
  BY <1>1, <1>3
<1>5. Len(k.sent) = m /\ \A i \in 1..m : k.sent[i] = s[Len(s) - m + i]
  BY ONLY <1>1, <1>2, <1>4, LastOnes
<1>6. r + 1 \in 1..m /\ n \in 0..Len(s) - 1 /\ Len(s) - m + (r + 1) = n + 1
  <2> DEFINE L == Len(s)
             w == k.written
  <2>1. L \in Nat /\ m \in 1..L /\ r \in Nat /\ w \in Nat /\ r < w /\ w <= m
    BY <1>1, <1>4, <1>5
  <2> HIDE DEF L, w
  <2>2. r + 1 \in 1..m /\ L - m + r \in 0..L - 1 /\ L - m + (r + 1) = L - m + r + 1
    BY ONLY <2>1
  <2> QED BY <2>2 DEF L
<1>7. NextServed(k) = s[n + 1]
  BY <1>5, <1>6 DEF NextServed, r
<1>8. s[n + 1] \in UserCommand
  BY <1>1, <1>6
<1>9. Append(SubSeq(s, 1, n), s[n + 1]) = SubSeq(s, 1, n + 1)
  BY ONLY <1>1, <1>6, FirstOnes
<1> QED BY <1>6, <1>7, <1>8, <1>9 DEF s, m, r

\* Serving keeps an object and its connection in step.
LEMMA ServeTalks ==
    ASSUME NEW o \in Object, NEW k \in ConnectionRecord, Ordered(k), Unserved(k), o.valid, Staged(o), Talks(o, k)
    PROVE  Talks(o, Serve(k, NextServed(k)))
<1> DEFINE x == NextServed(k)
           j == Serve(k, x)
<1> SUFFICES Talks(o, j)
  OBVIOUS
<1>1. o.doing # "nothing"
  BY DEF Talks, Unserved, ConnectionRecord
<1>2. /\ k.sent = Expected(o) /\ k.written = Len(k.sent) /\ (~o.tx => k.watch = "no")
      /\ IF InMulti(o, k) THEN k.multi # "no" /\ (k.multi = "open" => k.queue = InQueue(o, k))
                          ELSE k.multi = "no" /\ k.queue = <<>>
  BY <1>1 DEF Talks
<1>3. CASE o.doing = "opening"
  <2>1. k.sent = <<Own("multi")>> /\ o.tx /\ ~o.open
    BY <1>2, <1>3 DEF Expected, Staged
  <2>2. x = Own("multi") /\ x \in Command /\ x.op = "multi" /\ k.replies = <<>>
    BY <2>1, NextOfOne DEF Own, Command
  <2>3. ~InMulti(o, k)
    BY <1>3, <2>1, <2>2 DEF InMulti
  <2>4. PICK r \in Reply : j \in ConnectionRecord /\ Served(j, k, r) /\ r.kind = "ok" /\ j.multi = "open" /\ j.queue = <<>>
    BY <1>2, <2>2, <2>3, ServeOwn
  <2>5. j.replies # <<>> /\ Head(j.replies) = r
    BY <2>2, <2>4, ServedIs
  <2> HIDE DEF x, j
  <2>6. InMulti(o, j) /\ InQueue(o, j) = <<>> /\ Replied(o, j)
    BY <1>3, <2>4, <2>5 DEF InMulti, InQueue, Replied
  <2> QED BY <1>1, <1>2, <2>1, <2>4, <2>6 DEF Talks, Served
<1>4. CASE o.doing \in {"exec", "discard"}
  <2>1. k.sent = <<Own(o.doing)>> /\ o.tx /\ ~o.open
    BY <1>2, <1>4 DEF Expected, Staged
  <2>2. x = Own(o.doing) /\ x \in Command /\ x.op = o.doing /\ k.replies = <<>>
    BY <1>4, <2>1, NextOfOne DEF Own, Command
  <2>3. k.multi = "open" => k.queue = o.cmds
    BY <1>2, <1>4, <2>2 DEF InMulti, InQueue
  <2>4. PICK r \in Reply : /\ j \in ConnectionRecord /\ Served(j, k, r)
                           /\ j.multi = "no" /\ j.queue = <<>> /\ j.watch = "no"
                           /\ o.doing = "exec" /\ r.kind = "array" => r.ran = IdsOf(o.cmds)
    BY <1>4, <2>2, <2>3, ServeOwn
  <2>5. j.replies # <<>> /\ Head(j.replies) = r
    BY <2>2, <2>4, ServedIs
  <2> HIDE DEF x, j
  <2>6. ~InMulti(o, j) /\ Replied(o, j)
    BY <1>4, <2>1, <2>4, <2>5 DEF InMulti, Replied
  <2> QED BY <1>1, <1>2, <2>1, <2>4, <2>6 DEF Talks, Served
<1>5. CASE o.doing = "queueing"
  <2>1. k.sent = <<o.next>> /\ o.tx /\ o.open /\ o.next \in UserCommand
    BY <1>2, <1>5 DEF Expected, Staged
  <2>2. x = o.next /\ k.replies = <<>> /\ InMulti(o, k) /\ InQueue(o, k) = o.cmds
    BY <1>5, <2>1, NextOfOne DEF InMulti, InQueue
  <2>3. PICK r \in Reply : /\ j \in ConnectionRecord /\ Served(j, k, r) /\ j.multi # "no"
                           /\ j.multi = "open" => k.multi = "open" /\ j.queue = Append(k.queue, x)
    BY <1>2, <2>1, <2>2, ServeUser
  <2>4. j.replies # <<>>
    BY <2>3, ServedIs
  <2>5. j.multi = "open" => j.queue = Append(o.cmds, o.next)
    BY <1>2, <2>2, <2>3
  <2> HIDE DEF x, j
  <2>6. InMulti(o, j) /\ InQueue(o, j) = Append(o.cmds, o.next) /\ Replied(o, j)
    BY <1>5, <2>1, <2>4 DEF InMulti, InQueue, Replied
  <2> QED BY <1>1, <1>2, <2>1, <2>3, <2>5, <2>6 DEF Talks, Served
<1>6. CASE o.doing = "collecting"
  <2> DEFINE n == Len(o.cmds) - o.left + Len(k.replies)
  <2>1. o.tx /\ o.left \in 0..Len(o.cmds) /\ k.sent = SubSeq(o.cmds, Len(o.cmds) - o.left + 1, Len(o.cmds))
    BY <1>2, <1>6 DEF Expected, Staged
  <2>2. /\ x \in UserCommand /\ Append(SubSeq(o.cmds, 1, n), x) = SubSeq(o.cmds, 1, n + 1)
    BY <2>1, NextOfMany
  <2>3. InMulti(o, k) /\ InQueue(o, k) = SubSeq(o.cmds, 1, n)
    BY <1>6 DEF InMulti, InQueue
  <2>4. PICK r \in Reply : /\ j \in ConnectionRecord /\ Served(j, k, r) /\ j.multi # "no"
                           /\ j.multi = "open" => k.multi = "open" /\ j.queue = Append(k.queue, x)
    BY <1>2, <2>2, <2>3, ServeUser
  <2>5. Len(j.replies) = Len(k.replies) + 1
    BY <2>4, ServedIs
  <2>6. j.multi = "open" => j.queue = SubSeq(o.cmds, 1, n + 1)
    BY <1>2, <2>2, <2>3, <2>4
  <2>7. Len(o.cmds) - o.left + Len(j.replies) = n + 1
    <3>1. Len(o.cmds) \in Nat /\ o.left \in Nat /\ Len(k.replies) \in Nat
      BY DEF Object, ConnectionRecord
    <3> DEFINE a == Len(o.cmds)
               b == Len(k.replies)
               d == Len(j.replies)
    <3>2. a \in Nat /\ o.left \in Nat /\ b \in Nat /\ d = b + 1
      BY <2>5, <3>1
    <3> HIDE DEF a, b, d
    <3>3. a - o.left + d = a - o.left + b + 1
      BY ONLY <3>2
    <3> QED BY ONLY <3>3 DEF a, b, d
  <2> HIDE DEF x, j, n
  <2>8. InMulti(o, j) /\ InQueue(o, j) = SubSeq(o.cmds, 1, n + 1) /\ Replied(o, j)
    BY <1>6, <2>7 DEF InMulti, InQueue, Replied
  <2> QED BY <1>1, <1>2, <2>1, <2>4, <2>6, <2>8 DEF Talks, Served
<1>7. CASE o.doing = "reading"
  <2>1. ~o.tx /\ ~o.open /\ o.left \in 0..Len(o.cmds) /\ k.sent = SubSeq(o.cmds, Len(o.cmds) - o.left + 1, Len(o.cmds))
    <3>1. o.left \in 1..Len(o.cmds) /\ ~o.tx /\ ~o.open
      BY <1>7 DEF Staged
    <3>2. 1..Len(o.cmds) \subseteq 0..Len(o.cmds)
      BY DEF Object
    <3> QED BY <1>2, <1>7, <3>1, <3>2 DEF Expected
  <2>2. x \in UserCommand /\ ~InMulti(o, k)
    BY <1>7, <2>1, NextOfMany DEF InMulti
  <2>3. PICK r \in Reply : /\ j \in ConnectionRecord /\ Served(j, k, r) /\ j.watch = k.watch
                           /\ j.multi = "no" /\ j.queue = <<>>
    BY <1>2, <2>2, ServeUser
  <2> HIDE DEF x, j
  <2>4. ~InMulti(o, j) /\ Replied(o, j)
    BY <1>7, <2>1 DEF InMulti, Replied
  <2> QED BY <1>1, <1>2, <2>3, <2>4 DEF Talks, Served
<1>8. CASE o.doing = "sharing"
  <2>1. k.sent = <<o.next>> /\ ~o.open
    BY <1>2, <1>8 DEF Expected, Staged
  <2>2. x = o.next /\ ~InMulti(o, k)
    BY <1>8, <2>1, NextOfOne DEF InMulti
  <2>3. \E r \in Reply : /\ j \in ConnectionRecord /\ Served(j, k, r) /\ (~o.tx => j.watch = "no")
                         /\ j.multi = "no" /\ j.queue = <<>>
    <3>1. CASE o.next \in UserCommand
      BY <1>2, <2>2, <3>1, ServeUser
    <3>2. CASE o.next = Own("watch") /\ o.tx
      <4>1. x \in Command /\ x.op = "watch"
        BY <2>2, <3>2 DEF Own, Command
      <4> QED BY <1>2, <2>2, <3>2, <4>1, ServeOwn
    <3> QED BY <1>8, <3>1, <3>2 DEF Staged
  <2> HIDE DEF x, j
  <2>4. ~InMulti(o, j) /\ Replied(o, j)
    BY <1>8, <2>1 DEF InMulti, Replied
  <2> QED BY <1>1, <1>2, <2>3, <2>4 DEF Talks, Served
<1> QED BY <1>1, <1>3, <1>4, <1>5, <1>6, <1>7, <1>8 DEF Object, Doing

LEMMA ServerAnswersKeeps ==
    ASSUME IInv, NEW c \in Conns, ServerAnswers(c), UNCHANGED <<idle, obj, plain>>
    PROVE  IInv'
<1> DEFINE k == conn[c]
           x == NextServed(k)
           j == Serve(k, x)
<1>1. k \in ConnectionRecord /\ Ordered(k) /\ Unserved(k) /\ Store(c, j)
  BY DEF ServerAnswers, IInv, CoreTypes, Conversations
<1>2. PICK r \in Reply : /\ j \in ConnectionRecord /\ Served(j, k, r)
                         /\ x.op \notin {"exec", "discard"} /\ k.multi # "no" => j.multi # "no"
  <2>1. x \in Command
    <3>1. Len(k.replies) + 1 \in DOMAIN k.sent /\ k.sent \in Seq(Command)
      BY <1>1 DEF ConnectionRecord, Unserved, Ordered
    <3> QED BY ONLY <3>1, ElementsOf DEF NextServed
  <2>2. CASE x \in UserCommand
    BY <1>1, <2>2, ServeUser
  <2>3. CASE x.op \in {"exec", "discard", "multi", "watch"}
    BY <1>1, <2>1, <2>3, ServeOwn
  <2> QED BY <2>1, <2>2, <2>3 DEF Command
<1>3. Ordered(j) /\ ~Broken(k) /\ ~Broken(j) /\ ~Clean(k) /\ k.written # 0
  BY <1>1, <1>2, ServedIs
<1>4. ASSUME NEW y, PlainTalks(y, k) PROVE PlainTalks(y, j)
  <2>1. x = y /\ x \in Command /\ k.sent = <<y>>
    BY <1>1, <1>2, <1>4, NextOfOne, ServedIs DEF PlainTalks
  <2>2. x \in UserCommand /\ k.multi = "no"
    BY <1>4, <2>1 DEF PlainTalks, Command
  <2>3. j.watch = k.watch /\ j.multi = "no" /\ j.queue = k.queue
    BY <1>1, <2>2, ServeUser
  <2> HIDE DEF j
  <2> QED BY <1>2, <1>4, <2>3 DEF PlainTalks, Served
<1>5. ASSUME NEW o \in Object, Shape(o), Staged(o), Matches(o, k) PROVE Matches(o, j)
  <2>1. o.valid => Talks(o, j)
    BY <1>1, <1>3, <1>5, ServeTalks DEF Matches
  <2>2. Harmless(k) => Harmless(j)
    <3>1. ASSUME Harmless(k) PROVE k.multi # "no" /\ \A i \in DOMAIN k.sent : k.sent[i].op \notin {"exec", "discard"}
      BY <1>3, <3>1 DEF Harmless
    <3>2. Len(k.replies) + 1 \in DOMAIN k.sent
      BY <1>1 DEF ConnectionRecord, Unserved, Ordered
    <3>3. Harmless(k) => x.op \notin {"exec", "discard"}
      BY <3>1, <3>2 DEF NextServed
    <3> HIDE DEF x, j
    <3> QED BY <1>2, <3>1, <3>3 DEF Harmless, Served
  <2> HIDE DEF j, x
  <2> QED BY <1>3, <1>5, <2>1, <2>2 DEF Matches
<1> HIDE DEF j
<1> QED BY <1>1, <1>2, <1>3, <1>4, <1>5, ServerPlaced

LEMMA TouchKeeps ==
    ASSUME IInv, NEW c \in Conns, Touch(c), UNCHANGED <<idle, obj, plain>>
    PROVE  IInv'
<1> DEFINE k == conn[c]
           j == [k EXCEPT !.watch = "touched"]
<1>1. k \in ConnectionRecord /\ Ordered(k) /\ k.watch = "clean" /\ Store(c, j)
  BY DEF Touch, Store, IInv, CoreTypes, Conversations
<1>2. /\ j \in ConnectionRecord /\ j.link = k.link /\ j.sent = k.sent /\ j.written = k.written
      /\ j.replies = k.replies /\ j.multi = k.multi /\ j.queue = k.queue
  BY <1>1 DEF ConnectionRecord
<1> HIDE DEF j
<1>3. Ordered(j) /\ (Broken(j) <=> Broken(k))
  BY <1>1, <1>2 DEF Ordered, Broken
<1>4. Clean(k) => Clean(j)
  BY <1>1, <1>3 DEF Clean, Pristine
<1>5. \A y : ~PlainTalks(y, k)
  BY <1>1 DEF PlainTalks
<1>6. ASSUME NEW o \in Object, Shape(o), Staged(o), Matches(o, k) PROVE Matches(o, j)
  <2>1. ASSUME Talks(o, k) PROVE Talks(o, j)
    <3>1. o.tx /\ (o.doing \in {"exec", "discard"} => k.replies = <<>>)
      BY <1>1, <2>1 DEF Talks, Replied, Object
    <3>2. InMulti(o, j) = InMulti(o, k) /\ InQueue(o, j) = InQueue(o, k)
      BY <1>2 DEF InMulti, InQueue
    <3>3. Replied(o, j)
      BY <1>2, <2>1, <3>1 DEF Talks, Replied
    <3> QED BY <1>2, <2>1, <3>1, <3>2, <3>3 DEF Talks
  <2>2. Harmless(k) => Harmless(j)
    BY <1>2 DEF Harmless
  <2> QED BY <1>3, <1>6, <2>1, <2>2 DEF Matches
<1> QED BY <1>1, <1>2, <1>3, <1>4, <1>5, <1>6, ServerPlaced

-----------------------------------------------------------------------------
LEMMA InitHolds == Init => IInv
<1> SUFFICES ASSUME Init PROVE IInv
  OBVIOUS
<1>1. CoreTypes
  BY PristineIs, NoObjectIs DEF Init, CoreTypes
<1>2. Exclusive
  BY QueuedAssumption DEF Init, Exclusive, Holds, NoObject
<1>3. Conversations
  BY PristineIs, NoObjectIs DEF Init, Conversations, Free, Clean, NoObject
<1> QED BY <1>1, <1>2, <1>3 DEF IInv

LEMMA StepKeeps ==
    ASSUME IInv, NEW q \in Queues, Step(q), plain' = plain
    PROVE  IInv'
<1>1. CASE \E tx, piped, own \in BOOLEAN : Create(q, tx, piped, own)
  BY <1>1, CreateKeeps
<1>2. CASE \E x \in UserCommand : CommandBegins(q, x)
  BY <1>2, CommandBeginsKeeps
<1>3. CASE (\E x \in UserCommand : HandleCommand(q, x)) \/ HandleWatch(q)
  BY <1>3, HandleSendsKeeps
<1>4. CASE OpenTransaction(q) \/ GetQueuedReply(q) \/ GetQueuedReplies(q) \/ RecvFails(q)
  BY <1>4, OpenTransactionKeeps, GetQueuedReplyKeeps, GetQueuedRepliesKeeps, RecvFailsKeeps
<1>5. CASE TransactionExec(q) \/ TransactionDiscard(q) \/ ExecReply(q) \/ DiscardReply(q)
  BY <1>5, MethodsEndKeep, ConcludesKeeps
<1>6. CASE PipelineExec(q) \/ PipelineReply(q) \/ PipelineDiscard(q)
  BY <1>6, PipelineExecKeeps, PipelineReplyKeeps, PipelineDiscardKeeps
<1>7. CASE SanityCheckFails(q) \/ MakeHandle(q) \/ DropHandle(q) \/ Destroy(q) \/ HandleReply(q) \/ HandleFails(q)
  BY <1>7, SanityCheckFailsKeeps, MakeHandleKeeps, DropHandleKeeps, DestroyKeeps, HandleEndsKeeps
<1> QED BY <1>1, <1>2, <1>3, <1>4, <1>5, <1>6, <1>7 DEF Step

LEMMA NextKeeps == IInv /\ [Next]_vars => IInv'
<1> SUFFICES ASSUME IInv, [Next]_vars PROVE IInv'
  OBVIOUS
<1>1. ASSUME NEW q \in Queues, Step(q), plain' = plain PROVE IInv'
  BY <1>1, StepKeeps
<1>2. ASSUME NEW c \in Slots, Plain(c) PROVE IInv'
  BY <1>2, PlainCommandKeeps, PlainEndsKeeps DEF Plain
<1>3. ASSUME NEW c \in Conns, ServerAnswers(c) \/ Touch(c), UNCHANGED <<idle, obj, plain>> PROVE IInv'
  BY <1>3, ServerAnswersKeeps, TouchKeeps
<1>4. CASE UNCHANGED vars
  BY <1>4 DEF vars, IInv, CoreTypes, Exclusive, Conversations, Holds, Free
<1> QED BY <1>1, <1>2, <1>3, <1>4 DEF Next

LEMMA Invariant == Spec => []IInv
BY InitHolds, NextKeeps, PTL DEF Spec

\* A connection in the pool is clean: whoever gave it back, what it was doing
\* and what went wrong, it has nothing left on it, or will be connected again.
THEOREM PoolGetsCleanBack == Spec => []PooledIsClean
<1>1. IInv => PooledIsClean
  BY DEF IInv, CoreTypes, Exclusive, Conversations, Free, Holds, Clean, PooledIsClean, Conns
<1> QED BY <1>1, Invariant, PTL

-----------------------------------------------------------------------------
(* What the steps write down.                                              *)

Books ==
    /\ issued \in Ids \cup {0}
    /\ ran \subseteq Ids /\ queued \subseteq Ids
    /\ batches \subseteq SUBSET Ids
    /\ misread \subseteq {"queue", "handle", "plain"}

\* Which commands a step of q issues, queues and executes, and how it reads.
LEMMA StepBooks ==
    ASSUME NEW q \in Queues, Step(q)
    PROVE  /\ \/ issued' = issued /\ queued' = queued
              \/ \E x \in UserCommand : /\ issued' = x.id /\ x.id = issued + 1
                                        /\ queued' \in {queued, queued \cup {x.id}}
           /\ batches' \in {batches, batches \cup {Range(IdsOf(obj[q].cmds))},
                            batches \cup {{i} : i \in Range(IdsOf(obj[q].cmds))}}
           /\ misread' \in {misread, misread \cup {"queue"}, misread \cup {"handle"}}
<1> USE DEF NothingIssued, NothingRead
<1>1. CASE \E tx, piped, own \in BOOLEAN : Create(q, tx, piped, own)
  BY <1>1 DEF Create
<1>2. CASE \E x \in UserCommand : CommandBegins(q, x)
  BY <1>2 DEF CommandBegins, Issue
<1>3. CASE \E x \in UserCommand : HandleCommand(q, x)
  BY <1>3 DEF HandleCommand, HandleSends, Issue
<1>4. CASE HandleWatch(q)
  BY <1>4 DEF HandleWatch, HandleSends
<1>5. CASE OpenTransaction(q) \/ GetQueuedReply(q) \/ GetQueuedReplies(q) \/ RecvFails(q)
  BY <1>5 DEF OpenTransaction, GetQueuedReply, GetQueuedReplies, RecvFails, Read
<1>6. CASE TransactionExec(q) \/ TransactionDiscard(q) \/ ExecReply(q) \/ DiscardReply(q)
  <2>1. CASE TransactionExec(q) \/ TransactionDiscard(q)
    BY <2>1 DEF TransactionExec, TransactionDiscard
  <2>2. CASE ExecReply(q)
    <3>1. misread' \in {misread, misread \cup {"queue"}}
      BY <2>2 DEF ExecReply
    <3> QED BY <2>2, <3>1 DEF ExecReply
  <2>3. CASE DiscardReply(q)
    BY <2>3 DEF DiscardReply, Read
  <2> QED BY <1>6, <2>1, <2>2, <2>3
<1>7. CASE PipelineExec(q) \/ PipelineReply(q) \/ PipelineDiscard(q)
  BY <1>7 DEF PipelineExec, PipelineReply, PipelineDiscard, Read
<1>8. CASE SanityCheckFails(q) \/ MakeHandle(q) \/ DropHandle(q) \/ Destroy(q)
  BY <1>8 DEF SanityCheckFails, MakeHandle, DropHandle, Destroy
<1>9. CASE HandleReply(q) \/ HandleFails(q)
  BY <1>9 DEF HandleReply, HandleFails, HandleEnds, Read
<1> QED BY <1>1, <1>2, <1>3, <1>4, <1>5, <1>6, <1>7, <1>8, <1>9 DEF Step

LEMMA IdsOfRange ==
    ASSUME NEW xs \in Seq(UserCommand)
    PROVE  /\ Range(IdsOf(xs)) \subseteq Ids
           /\ \A i : i \in Range(IdsOf(xs)) <=> \E j \in DOMAIN xs : xs[j].id = i
<1>1. DOMAIN IdsOf(xs) = DOMAIN xs /\ \A j \in DOMAIN xs : IdsOf(xs)[j] = xs[j].id
  BY DEF IdsOf
<1>2. \A j \in DOMAIN xs : xs[j].id \in Ids
  <2>1. \A j \in DOMAIN xs : xs[j] \in UserCommand
    BY ElementsOf
  <2> QED BY <2>1 DEF UserCommand
<1> DEFINE f == IdsOf(xs)
<1> HIDE DEF f
<1>3. Range(f) = {f[j] : j \in DOMAIN f}
  BY DEF Range
<1>4. \A i : i \in Range(f) <=> \E j \in DOMAIN xs : xs[j].id = i
  BY <1>1, <1>3 DEF f
<1> QED BY <1>2, <1>4 DEF f

LEMMA BooksKeep == IInv /\ Books /\ [Next]_vars => Books'
<1> SUFFICES ASSUME IInv, Books, [Next]_vars PROVE Books'
  OBVIOUS
<1>1. ASSUME NEW q \in Queues, Step(q), ran' = ran PROVE Books'
  <2>1. obj[q].cmds \in Seq(UserCommand)
    BY DEF IInv, CoreTypes, Object
  <2>2. Range(IdsOf(obj[q].cmds)) \subseteq Ids
    BY <2>1, IdsOfRange
  <2>3. issued' \in Ids \cup {0} /\ queued' \subseteq Ids
    BY <1>1, StepBooks DEF Books, UserCommand
  <2>4. batches' \subseteq SUBSET Ids
    BY <1>1, <2>2, StepBooks DEF Books
  <2>5. misread' \subseteq {"queue", "handle", "plain"}
    BY <1>1, StepBooks DEF Books
  <2> QED BY <1>1, <2>3, <2>4, <2>5 DEF Books
<1>2. ASSUME NEW c \in Slots, Plain(c), ran' = ran PROVE Books'
  <2>1. ASSUME NEW x \in UserCommand, PlainCommand(c, x) PROVE Books'
    BY <1>2, <2>1 DEF PlainCommand, Issue, NothingRead, Books, UserCommand
  <2>2. CASE PlainReply(c) \/ PlainFails(c)
    BY <1>2, <2>2 DEF PlainReply, PlainFails, PlainEnds, Read, NothingRead, NothingIssued, Books
  <2> QED BY <1>2, <2>1, <2>2 DEF Plain
<1>3. ASSUME NEW c \in Conns, ServerAnswers(c) \/ Touch(c), UNCHANGED <<idle, obj, plain, issued, queued, batches, misread>>
      PROVE  Books'
  <2>1. CASE Touch(c)
    BY <1>3, <2>1 DEF Touch, Books
  <2>2. CASE ServerAnswers(c)
    <3> DEFINE k == conn[c]
               x == NextServed(k)
    <3>1. k \in ConnectionRecord /\ Ordered(k) /\ Unserved(k)
      BY <2>2 DEF ServerAnswers, IInv, CoreTypes, Conversations
    <3>2. x \in Command /\ k.queue \in Seq(UserCommand)
      <4>1. Len(k.replies) + 1 \in DOMAIN k.sent /\ k.sent \in Seq(Command)
        BY <3>1 DEF ConnectionRecord, Unserved, Ordered
      <4> QED BY <3>1, <4>1, ElementsOf DEF NextServed, ConnectionRecord
    <3>3. x.op \in {"get", "set"} => x.id \in Ids
      BY <3>2 DEF Command, UserCommand
    <3>4. Runs(k, x) \subseteq Ids
      BY <3>2, <3>3, IdsOfRange DEF Runs
    <3>5. ran' = ran \cup Runs(k, x)
      BY <2>2 DEF ServerAnswers
    <3> QED BY <1>3, <3>4, <3>5 DEF Books
  <2> QED BY <1>3, <2>1, <2>2
<1>4. CASE UNCHANGED vars
  BY <1>4 DEF vars, Books
<1> QED BY <1>1, <1>2, <1>3, <1>4 DEF Next

\* The state has the types it is declared with.
THEOREM TypeSafe == Spec => []TypeOK
<1>1. Init => Books
  BY DEF Init, Books
<1>2. IInv /\ Books => TypeOK
  BY DEF IInv, CoreTypes, Books, TypeOK
<1> QED BY <1>1, <1>2, BooksKeep, Invariant, PTL DEF Spec

-----------------------------------------------------------------------------
(* Replies.                                                                *)

LEMMA NothingMisread ==
    ASSUME IInv, UseAfterFailure = FALSE, misread = {}, [Next]_vars
    PROVE  misread' = {}
<1> USE DEF Read
<1>1. ASSUME NEW q \in Queues, Step(q) PROVE misread' = {}
  <2> DEFINE o == obj[q]
             k == conn[o.conn]
  <2>1. CASE OpenTransaction(q)
    <3>1. Receives(q, "opening") /\ "opening" \in Doing \ {"nothing", "sharing"}
      BY <2>1 DEF OpenTransaction, Doing
    <3>2. k.sent = <<Own("multi")>>
      BY <3>1, Answering DEF Talks, Expected
    <3> QED BY <2>1, <3>2 DEF OpenTransaction, Asked
  <2>2. CASE GetQueuedReply(q)
    <3>1. Receives(q, "queueing") /\ "queueing" \in Doing \ {"nothing", "sharing"}
      BY <2>2 DEF GetQueuedReply, Doing
    <3>2. k.sent = <<o.next>>
      BY <3>1, Answering DEF Talks, Expected
    <3> QED BY <2>2, <3>2 DEF GetQueuedReply, Asked
  <2>3. ASSUME (Receives(q, "collecting") /\ o.left # 0) \/ Receives(q, "reading") PROVE Asked(q) = Due(o)
    <3>1. PICK doing \in {"collecting", "reading"} : Receives(q, doing) /\ (doing = "collecting" => o.left # 0)
      BY <2>3
    <3>2. doing \in Doing \ {"nothing", "sharing"}
      BY DEF Doing
    <3>3. /\ o \in Object /\ Staged(o) /\ o.doing = doing
          /\ k.sent = SubSeq(o.cmds, Len(o.cmds) - o.left + 1, Len(o.cmds))
      BY <3>1, <3>2, Answering DEF Talks, Expected
    <3>4. o.cmds \in Seq(UserCommand) /\ o.left \in 1..Len(o.cmds)
      BY <3>1, <3>3 DEF Staged, Object
    <3>5. Head(SubSeq(o.cmds, Len(o.cmds) - o.left + 1, Len(o.cmds))) = o.cmds[Len(o.cmds) - o.left + 1]
      BY ONLY <3>4, LastOnes
    <3> QED BY <3>3, <3>5 DEF Asked, Due
  <2>4. CASE GetQueuedReplies(q)
    BY <2>3, <2>4 DEF GetQueuedReplies, NothingRead
  <2>5. CASE PipelineReply(q)
    BY <2>3, <2>5 DEF PipelineReply
  <2>6. CASE ExecReply(q)
    <3>1. Receives(q, "exec") /\ "exec" \in Doing \ {"nothing", "sharing"}
      BY <2>6 DEF ExecReply, Doing
    <3>2. k.sent = <<Own("exec")>> /\ Replied(o, k) /\ k.replies # <<>>
      BY <3>1, Concluded
    <3>3. o.doing = "exec" /\ o.sets = {i \in DOMAIN o.cmds : o.cmds[i].op = "set"}
      BY <3>1, Answering DEF Working
    <3>4. Asked(q) = Own("exec")
      BY <3>2 DEF Asked
    <3>5. Received(q).kind = "array" => Received(q).ran = IdsOf(o.cmds)
      BY <3>2, <3>3 DEF Received, Replied
    <3> QED BY <2>6, <3>3, <3>4, <3>5 DEF ExecReply
  <2>7. CASE DiscardReply(q)
    <3>1. Receives(q, "discard") /\ "discard" \in Doing \ {"nothing", "sharing"}
      BY <2>7 DEF DiscardReply, Doing
    <3>2. k.sent = <<Own("discard")>>
      BY <3>1, Concluded
    <3> QED BY <2>7, <3>2 DEF DiscardReply, Asked
  <2>8. CASE HandleReply(q)
    <3>1. o.doing = "sharing" /\ Answered(k)
      BY <2>8 DEF HandleReply, Receives
    <3>2. Shape(o) /\ o.conn # NoConn
      BY <3>1 DEF IInv, Conversations, Shape
    <3>3. Matches(o, k) /\ ~Broken(k)
      BY <3>1, <3>2, Holding, RecvIs
    <3>4. k.sent = <<o.next>>
      BY <3>1, <3>3 DEF Matches, Talks, Expected
    <3> QED BY <2>8, <3>4 DEF HandleReply, Asked
  <2>9. CASE HandleFails(q) \/ HandleWatch(q) \/ \E x \in UserCommand : HandleCommand(q, x)
    BY <2>9 DEF HandleFails, HandleWatch, HandleCommand, HandleSends, NothingRead
  <2>10. CASE \/ \E tx, piped, own \in BOOLEAN : Create(q, tx, piped, own)
              \/ \E x \in UserCommand : CommandBegins(q, x)
              \/ RecvFails(q) \/ TransactionExec(q) \/ TransactionDiscard(q) \/ PipelineExec(q)
    BY <2>10 DEF Create, CommandBegins, RecvFails, TransactionExec, TransactionDiscard, PipelineExec, NothingRead
  <2>11. CASE PipelineDiscard(q) \/ SanityCheckFails(q) \/ MakeHandle(q) \/ DropHandle(q) \/ Destroy(q)
    BY <2>11 DEF PipelineDiscard, SanityCheckFails, MakeHandle, DropHandle, Destroy, NothingRead
  <2> QED BY <1>1, <2>1, <2>2, <2>4, <2>5, <2>6, <2>7, <2>8, <2>9, <2>10, <2>11 DEF Step
<1>2. ASSUME NEW c \in Slots, Plain(c) PROVE misread' = {}
  <2>1. CASE PlainReply(c)
    <3>1. conn[c].sent = <<plain[c]>>
      BY <2>1 DEF PlainReply, IInv, Conversations, PlainTalks
    <3> QED BY <2>1, <3>1 DEF PlainReply
  <2>2. CASE PlainFails(c) \/ \E x \in UserCommand : PlainCommand(c, x)
    BY <2>2 DEF PlainFails, PlainCommand, NothingRead
  <2> QED BY <1>2, <2>1, <2>2 DEF Plain
<1> QED BY <1>1, <1>2 DEF Next, vars

\* If users give up the Redis object of a QueuedRedis that failed, nobody ever
\* takes the reply to one command for that to another: the methods of
\* transactions and pipelines, the Redis objects, and plain commands.
THEOREM RepliesAreRead ==
    ASSUME UseAfterFailure = FALSE
    PROVE  Spec => []RepliesMatch
<1>1. Init => RepliesMatch
  BY DEF Init, RepliesMatch
<1>2. IInv /\ RepliesMatch /\ [Next]_vars => RepliesMatch'
  BY NothingMisread DEF RepliesMatch
<1> QED BY <1>1, <1>2, Invariant, PTL DEF Spec

-----------------------------------------------------------------------------
(* All or nothing.                                                         *)

\* The object e has no command that o had not, and executes those it has if o did.
Quiet(e, o) ==
    \A i \in Ids : Has(e, i) =>
        /\ Has(o, i)
        /\ Executing(e) <=> Executing(o)
        /\ Executing(e) => Batch(e, i) = Batch(o, i)

\* If it is its Redis object that waits, then for a command nobody queued.
Apart(e) == e.doing = "sharing" /\ e.next.op = "get" => e.next.id \in (1..issued') \ queued'

\* The commands of an object, as a set.
LEMMA HasIs ==
    ASSUME NEW o \in Object
    PROVE  \A i \in Ids : Has(o, i) <=> \/ i \in Range(IdsOf(o.cmds))
                                        \/ o.doing \in {"opening", "queueing"} /\ o.next.id = i
<1>1. o.cmds \in Seq(UserCommand)
  BY DEF Object
<1> QED BY <1>1, IdsOfRange DEF Has

LEMMA HistoryTypes ==
    ASSUME IInv, Books, History
    PROVE  /\ obj \in [Queues -> Object] /\ issued \in Nat /\ Ids \subseteq Nat
           /\ ran \subseteq Ids /\ queued \subseteq Ids
           /\ \A q \in Queues : obj[q] \in Object /\ Shape(obj[q]) /\ Staged(obj[q])
BY CommandsAssumption DEF IInv, CoreTypes, Conversations, Books, Ids

LEMMA QuietKeeps ==
    ASSUME IInv, Books, History, NEW q \in Queues, NEW e, Quiet(e, obj[q]), Apart(e),
           obj' = [obj EXCEPT ![q] = e], plain' = plain, issued' \in Nat, issued <= issued',
           UNCHANGED <<queued, ran, batches>>
    PROVE  History'
<1>1. obj \in [Queues -> Object] /\ issued \in Nat
  BY HistoryTypes
<1>2. obj'[q] = e /\ \A p \in Queues : p # q => obj'[p] = obj[p]
  BY <1>1
<1>3. 1..issued \subseteq 1..issued'
  BY <1>1
<1>4. \A p \in Queues, i \in Ids : Has(obj'[p], i) =>
          /\ Has(obj[p], i) /\ (Executing(obj'[p]) <=> Executing(obj[p]))
          /\ Executing(obj'[p]) => Batch(obj'[p], i) = Batch(obj[p], i)
  BY <1>2 DEF Quiet
<1>5. Batched'
  BY <1>4 DEF History, Batched
<1>6. /\ \A p \in Queues, i \in Ids : Has(obj'[p], i) => i \in queued
      /\ \A p, r \in Queues, i \in Ids : p # r /\ Has(obj'[p], i) => ~Has(obj'[r], i)
  BY <1>4 DEF History, Issued
<1>7. \A p \in Queues : obj'[p].doing = "sharing" /\ obj'[p].next.op = "get" => obj'[p].next.id \in (1..issued') \ queued
  BY <1>2, <1>3 DEF History, Issued, Apart
<1>8. Issued'
  BY <1>3, <1>6, <1>7 DEF History, Issued
<1> QED BY <1>5, <1>8 DEF History, AllOrNothing

\* The simple cases: the commands are forgotten, or nothing is done with them.
LEMMA QuietCases ==
    ASSUME NEW e, NEW o,
           \/ e.cmds = <<>> /\ e.doing \notin {"opening", "queueing"}
           \/ /\ e.cmds = o.cmds /\ e.tx = o.tx /\ (Executing(e) <=> Executing(o))
              /\ e.doing \in {"opening", "queueing"} => o.doing \in {"opening", "queueing"} /\ e.next = o.next
    PROVE  Quiet(e, o)
<1>1. DOMAIN <<>> = {}
  OBVIOUS
<1> QED BY <1>1 DEF Quiet, Has, Batch

\* The step ends a method of q, or uses up its connection.
LEMMA EndsQuietly ==
    ASSUME IInv, Books, History, NEW q \in Queues, NEW e, e.cmds = <<>>, e.doing = "nothing",
           obj' = [obj EXCEPT ![q] = e], plain' = plain, UNCHANGED <<issued, queued, ran, batches>>
    PROVE  History'
<1>1. Quiet(e, obj[q]) /\ Apart(e)
  BY QuietCases DEF Apart
<1>2. issued' \in Nat /\ issued <= issued'
  BY HistoryTypes
<1> QED BY <1>1, <1>2, QuietKeeps

LEMMA InvalidatesQuietly ==
    ASSUME IInv, Books, History, NEW q \in Queues, NEW c \in Conns, NEW o, NEW back,
           o = obj[q] \/ o = [obj[q] EXCEPT !.valid = FALSE],
           Reset(q, o, c, back), plain' = plain, UNCHANGED <<issued, queued, ran, batches>>
    PROVE  History'
<1>1. o \in Object
  BY HistoryTypes DEF Object
<1> DEFINE d == IF back /\ ~o.own /\ ~o.handle THEN NoConn ELSE c
<1>2. obj' = [obj EXCEPT ![q] = Emptied(o, d)]
  BY DEF Reset, Emptied
<1>3. Emptied(o, d).cmds = <<>> /\ Emptied(o, d).doing = "nothing"
  BY <1>1, EmptiedIs
<1> QED BY <1>2, <1>3, EndsQuietly

\* ++_cmd_num of a command that was about to be queued.
LEMMA CountedQuietly ==
    ASSUME NEW o \in Object, Working(o), o.next \in UserCommand
    PROVE  /\ \A i \in Ids : Has(Counted(o), i) <=> i \in Range(IdsOf(o.cmds)) \/ o.next.id = i
           /\ Counted(o).doing = "nothing"
<1> DEFINE e == Counted(o)
<1>1. e \in Object /\ e.cmds = Append(o.cmds, o.next) /\ e.doing = "nothing"
  BY CountedIs
<1>2. o.cmds \in Seq(UserCommand) /\ e.cmds \in Seq(UserCommand)
  BY <1>1 DEF Object
<1> HIDE DEF e
<1>3. \A i : (\E j \in DOMAIN e.cmds : e.cmds[j].id = i) <=> (\E j \in DOMAIN o.cmds : o.cmds[j].id = i) \/ o.next.id = i
  <2>1. /\ Len(o.cmds) \in Nat /\ DOMAIN o.cmds = 1..Len(o.cmds) /\ DOMAIN e.cmds = 1..Len(o.cmds) + 1
        /\ \A j \in 1..Len(o.cmds) : e.cmds[j] = o.cmds[j]
        /\ e.cmds[Len(o.cmds) + 1] = o.next
    BY <1>1, <1>2, AppendProperties, LenProperties
  <2>2. \A j : j \in DOMAIN e.cmds <=> j \in DOMAIN o.cmds \/ j = Len(o.cmds) + 1
    BY ONLY <2>1
  <2> QED BY ONLY <2>1, <2>2
<1> QED BY <1>1, <1>2, <1>3, IdsOfRange DEF e, Has

\* What Becomes makes of the object o.
LEMMA BecomesIs ==
    ASSUME NEW q \in Queues, NEW o \in Object, NEW c \in Conns, Becomes(q, o, c)
    PROVE  \E e \in Object : /\ obj' = [obj EXCEPT ![q] = e]
                             /\ e.cmds = o.cmds /\ e.doing = o.doing /\ e.next = o.next /\ e.then = o.then /\ e.tx = o.tx
<1> DEFINE e == [o EXCEPT !.conn = c]
<1>1. e \in Object
  BY DEF Object
<1>2. e.cmds = o.cmds /\ e.doing = o.doing /\ e.next = o.next /\ e.then = o.then /\ e.tx = o.tx
  BY DEF Object
<1> QED BY <1>1, <1>2 DEF Becomes

LEMMA CommandBeginsHistory ==
    ASSUME IInv, Books, History, NEW q \in Queues, NEW x \in UserCommand, CommandBegins(q, x),
           plain' = plain, ran' = ran
    PROVE  History'
<1> DEFINE o == [obj[q] EXCEPT !.next = x]
           R == Range(IdsOf(obj[q].cmds))
<1>1. PICK c \in Conns :
          /\ Begins(q, c)
          /\ Becomes(q, IF o.tx /\ ~o.open THEN [o EXCEPT !.doing = "opening"] ELSE AfterSend(o), c)
  BY DEF CommandBegins
<1>2. x.id = issued + 1 /\ issued' = x.id /\ queued' = queued \cup {x.id} /\ batches' = batches
  BY DEF CommandBegins, Issue
<1>3. /\ Working(obj[q]) /\ obj[q].doing = "nothing" /\ obj[q] \in Object
  BY <1>1, HistoryTypes DEF Begins, Working, Shape
<1>4. /\ o \in Object /\ Working(o) /\ o.next = x /\ o.cmds = obj[q].cmds /\ o.doing = "nothing"
  <2>1. x \in Command
    BY DEF Command
  <2> QED BY <1>3, <2>1 DEF Object, Working
<1> HIDE DEF o
<1>5. PICK f \in Object : /\ Becomes(q, f, c) /\ f.doing \in {"opening", "queueing", "nothing"}
                          /\ \A i \in Ids : Has(f, i) <=> i \in R \/ i = x.id
  <2>1. CASE o.tx /\ ~o.open
    <3> DEFINE f == [o EXCEPT !.doing = "opening"]
    <3>1. f \in Object /\ f.doing = "opening" /\ f.cmds = obj[q].cmds /\ f.next = x
      BY <1>4 DEF Object, Doing
    <3> QED BY <1>1, <2>1, <3>1, HasIs
  <2>2. CASE ~(o.tx /\ ~o.open) /\ WaitsForQueued(o)
    <3> DEFINE f == [o EXCEPT !.doing = "queueing"]
    <3>1. f \in Object /\ f.doing = "queueing" /\ f.cmds = obj[q].cmds /\ f.next = x
      BY <1>4 DEF Object, Doing
    <3> QED BY <1>1, <2>2, <3>1, HasIs DEF AfterSend
  <2>3. CASE ~(o.tx /\ ~o.open) /\ ~WaitsForQueued(o)
    BY <1>1, <1>4, <2>3, CountedIs, CountedQuietly DEF AfterSend
  <2> QED BY <2>1, <2>2, <2>3
<1>6. PICK e \in Object : /\ obj' = [obj EXCEPT ![q] = e] /\ e.doing \in {"opening", "queueing", "nothing"}
                          /\ \A i \in Ids : Has(e, i) <=> i \in R \/ i = x.id
  <2>1. PICK e \in Object : /\ obj' = [obj EXCEPT ![q] = e]
                            /\ e.cmds = f.cmds /\ e.doing = f.doing /\ e.next = f.next
    BY <1>5, BecomesIs
  <2>2. \A i \in Ids : Has(e, i) <=> Has(f, i)
    BY ONLY <2>1 DEF Has
  <2> QED BY ONLY <1>5, <2>1, <2>2
<1>7. \A i \in Ids : Has(obj[q], i) <=> i \in R
  BY <1>3, HasIs
<1>8. /\ obj'[q] = e /\ \A p \in Queues : p # q => obj'[p] = obj[p]
  BY <1>6, HistoryTypes
<1>9. /\ issued \in Nat /\ x.id \in Ids /\ x.id \notin 1..issued /\ 1..issued \subseteq 1..issued' /\ x.id \in 1..issued'
      /\ queued \subseteq 1..issued /\ ran \subseteq 1..issued
  BY <1>2, HistoryTypes DEF UserCommand, History, Issued
<1>10. \A p \in Queues, i \in Ids : Has(obj'[p], i) => Has(obj[p], i) \/ (p = q /\ i = x.id)
  BY <1>6, <1>7, <1>8
<1>11. \A p \in Queues : ~Has(obj[p], x.id)
  BY <1>9 DEF History, Issued
<1>12. Issued'
  <2>1. queued' \subseteq 1..issued' /\ ran' \subseteq 1..issued' /\ \A b \in batches' : b \subseteq queued'
    BY <1>2, <1>9 DEF History, Issued
  <2>2. \A p \in Queues, i \in Ids : Has(obj'[p], i) => i \in queued'
    BY <1>2, <1>10 DEF History, Issued
  <2>3. \A p, r \in Queues, i \in Ids : p # r /\ Has(obj'[p], i) => ~Has(obj'[r], i)
    BY <1>10, <1>11 DEF History, Issued
  <2>4. \A c2 \in Slots : plain'[c2] # NoCommand => plain'[c2].id \in (1..issued') \ queued'
    BY <1>2, <1>9 DEF History, Issued
  <2>5. \A p \in Queues : obj'[p].doing = "sharing" /\ obj'[p].next.op = "get" => obj'[p].next.id \in (1..issued') \ queued'
    BY <1>2, <1>6, <1>8, <1>9 DEF History, Issued
  <2> QED BY <2>1, <2>2, <2>3, <2>4, <2>5 DEF Issued
<1>13. Batched'
  <2>1. ~Executing(e) /\ ~Executing(obj[q])
    BY <1>3, <1>6 DEF Executing
  <2>2. \A b \in batches : x.id \notin b
    BY <1>9 DEF History, Issued
  <2>3. \A p \in Queues, i \in Ids : Has(obj'[p], i) => IF p = q THEN \A b \in batches : i \notin b ELSE Has(obj[p], i)
    BY <1>6, <1>7, <1>8, <2>1, <2>2 DEF History, Batched
  <2> QED BY <1>2, <1>8, <2>1, <2>3 DEF History, Batched
<1>14. AllOrNothing'
  BY <1>2, <1>9 DEF History, AllOrNothing
<1> QED BY <1>12, <1>13, <1>14 DEF History

\* The replies to commands.
LEMMA RepliesHistory ==
    ASSUME IInv, Books, History, NEW q \in Queues,
           OpenTransaction(q) \/ GetQueuedReply(q) \/ GetQueuedReplies(q) \/ PipelineReply(q),
           plain' = plain, ran' = ran
    PROVE  History'
<1> DEFINE o == obj[q]
<1>1. /\ issued' = issued /\ queued' = queued /\ batches' = batches /\ issued' \in Nat /\ issued <= issued'
  <2>1. issued' = issued /\ queued' = queued /\ batches' = batches
    BY DEF OpenTransaction, GetQueuedReply, GetQueuedReplies, PipelineReply, NothingIssued
  <2> QED BY <2>1, HistoryTypes
<1>2. o.doing \in {"opening", "queueing", "collecting", "reading"}
  BY DEF OpenTransaction, GetQueuedReply, GetQueuedReplies, PipelineReply, Receives
<1>3. o \in Object /\ Working(o) /\ Staged(o) /\ o.conn \in Conns
  BY <1>2, Midway
<1>4. ASSUME NEW f \in Object, Becomes(q, f, o.conn), Quiet(f, o), f.doing # "sharing" PROVE History'
  <2>1. PICK e \in Object : /\ obj' = [obj EXCEPT ![q] = e]
                            /\ e.cmds = f.cmds /\ e.doing = f.doing /\ e.next = f.next /\ e.then = f.then /\ e.tx = f.tx
    BY <1>3, <1>4, BecomesIs
  <2>2. Quiet(e, o) /\ Apart(e)
    BY <1>4, <2>1 DEF Quiet, Apart, Has, Executing, Batch
  <2> QED BY <1>1, <2>1, <2>2, QuietKeeps
<1>5. ASSUME NEW f \in Object, Becomes(q, f, o.conn), f.cmds = o.cmds, f.tx = o.tx, Executing(f) <=> Executing(o),
             f.doing = "queueing" => o.doing = "opening" /\ f.next = o.next, f.doing \notin {"opening", "sharing"}
      PROVE  History'
  <2>1. Quiet(f, o)
    BY <1>5, QuietCases
  <2> QED BY <1>4, <1>5, <2>1
<1>6. ASSUME NEW f \in Object, Working(f), f.cmds = o.cmds, f.next = o.next, f.next \in UserCommand,
             o.doing \in {"opening", "queueing"}, Becomes(q, Counted(f), o.conn)
      PROVE  History'
  <2>1. Counted(f) \in Object /\ Counted(f).doing = "nothing"
    BY <1>6, CountedIs
  <2>2. \A i \in Ids : Has(Counted(f), i) => Has(o, i)
    BY <1>3, <1>6, HasIs, CountedQuietly
  <2>3. Quiet(Counted(f), o)
    BY <1>6, <2>1, <2>2 DEF Quiet, Executing
  <2> QED BY <1>4, <1>6, <2>1, <2>3
<1>7. CASE Throws(q)
  BY <1>1, <1>3, <1>7, InvalidatesQuietly DEF Throws, Invalidate
<1>8. CASE OpenTransaction(q) /\ ~Throws(q)
  <2> DEFINE f == [o EXCEPT !.open = TRUE]
  <2>1. o.doing = "opening" /\ Becomes(q, AfterSend(f), o.conn) /\ o.next \in UserCommand
    BY <1>3, <1>8 DEF OpenTransaction, Receives, Staged
  <2>2. f \in Object /\ Working(f) /\ f.cmds = o.cmds /\ f.next = o.next /\ f.tx = o.tx
    BY <1>3 DEF Object, Working
  <2>3. CASE WaitsForQueued(f)
    <3> DEFINE g == [f EXCEPT !.doing = "queueing"]
    <3>1. g \in Object /\ g.cmds = o.cmds /\ g.next = o.next /\ g.tx = o.tx /\ g.doing = "queueing"
      BY <2>2 DEF Object, Doing
    <3> HIDE DEF g, f
    <3>2. Executing(g) <=> Executing(o)
      BY <2>1, <3>1 DEF Executing
    <3>3. Becomes(q, g, o.conn)
      BY <2>1, <2>3 DEF AfterSend, g
    <3> QED BY <1>5, <2>1, <3>1, <3>2, <3>3
  <2>4. CASE ~WaitsForQueued(f)
    <3>1. Becomes(q, Counted(f), o.conn)
      BY <2>1, <2>4 DEF AfterSend
    <3> HIDE DEF f
    <3> QED BY <1>6, <2>1, <2>2, <3>1
  <2> QED BY <2>3, <2>4
<1>9. CASE GetQueuedReply(q) /\ ~Throws(q)
  BY <1>3, <1>6, <1>9 DEF GetQueuedReply, Receives, Staged
<1>10. CASE GetQueuedReplies(q) /\ ~Throws(q)
  <2> DEFINE f == [o EXCEPT !.doing = o.then]
             g == [o EXCEPT !.left = @ - 1]
  <2>1. o.doing = "collecting" /\ o.then \in {"exec", "discard"}
    BY <1>3, <1>10 DEF GetQueuedReplies, Object
  <2>2. CASE o.left = 0
    <3>1. f \in Object /\ f.cmds = o.cmds /\ f.tx = o.tx /\ f.doing = o.then /\ f.then = o.then
      BY <1>3, <2>1 DEF Object, Doing
    <3>2. Becomes(q, f, o.conn)
      BY <1>10, <2>2 DEF GetQueuedReplies
    <3> HIDE DEF f
    <3>3. Executing(f) <=> Executing(o)
      BY <2>1, <3>1 DEF Executing
    <3> QED BY <1>5, <2>1, <3>1, <3>2, <3>3
  <2>3. CASE o.left # 0
    <3>1. o.left - 1 \in Nat
      BY <1>3, <2>3 DEF Object
    <3>2. g \in Object /\ g.cmds = o.cmds /\ g.tx = o.tx /\ g.doing = o.doing /\ g.then = o.then
      BY <1>3, <3>1 DEF Object
    <3>3. Becomes(q, g, o.conn)
      BY <1>10, <2>3 DEF GetQueuedReplies
    <3> HIDE DEF g
    <3>4. Executing(g) <=> Executing(o)
      BY <3>2 DEF Executing
    <3> QED BY <1>5, <2>1, <3>2, <3>3, <3>4
  <2> QED BY <2>2, <2>3
<1>11. CASE PipelineReply(q)
  <2> DEFINE g == [o EXCEPT !.left = @ - 1]
  <2>1. CASE o.left = 1
    BY <1>1, <1>3, <1>11, <2>1, InvalidatesQuietly DEF PipelineReply
  <2>2. CASE o.left # 1
    <3>1. o.doing = "reading" /\ o.left - 1 \in Nat /\ Becomes(q, g, o.conn)
      BY <1>3, <1>11, <2>2 DEF PipelineReply, Receives, Staged
    <3>2. g \in Object /\ g.cmds = o.cmds /\ g.tx = o.tx /\ g.doing = "reading"
      BY <1>3, <3>1 DEF Object
    <3> HIDE DEF g
    <3>3. Executing(g) <=> Executing(o)
      BY <3>1, <3>2 DEF Executing
    <3> QED BY <1>5, <3>1, <3>2, <3>3
  <2> QED BY <2>1, <2>2
<1> QED BY <1>7, <1>8, <1>9, <1>10, <1>11

\* exec() is called for the commands of o, in the batches New: the object e
\* that it leaves executes them now, or has forgotten them.
Executes(o, e, New) ==
    /\ o.doing = "nothing" /\ e.doing # "sharing"
    /\ \A i \in Ids : Has(o, i) => Batch(o, i) \in New
    /\ \A b \in New : \A i \in b : i \in Ids /\ Has(o, i) /\ b = Batch(o, i)
    /\ \A i \in Ids : Has(e, i) => Has(o, i) /\ Executing(e) /\ Batch(e, i) = Batch(o, i)

LEMMA ExecutesKeeps ==
    ASSUME IInv, Books, History, NEW q \in Queues, NEW New, NEW e, Executes(obj[q], e, New),
           obj' = [obj EXCEPT ![q] = e], plain' = plain, UNCHANGED <<issued, queued, ran>>,
           batches' = batches \cup New
    PROVE  History'
<1> USE DEF Executes
<1> DEFINE R == {i \in Ids : Has(obj[q], i)}
<1>1. /\ obj'[q] = e /\ \A p \in Queues : p # q => obj'[p] = obj[p]
  BY HistoryTypes
<1>2. /\ \A i \in R : Batch(obj[q], i) \in New
      /\ \A b \in New : b \subseteq R /\ (\A i \in b : b = Batch(obj[q], i))
  OBVIOUS
<1>3. ~Executing(obj[q])
  BY DEF Executing
<1>4. \A i \in R : i \in queued /\ (\A b \in batches : i \notin b) /\ (\A p \in Queues : p # q => ~Has(obj[p], i))
  BY <1>3 DEF History, Issued, Batched
<1>5. R \cap ran = {}
  BY <1>4 DEF History, AllOrNothing
<1>6. \A i \in Ids : Has(e, i) => Has(obj[q], i)
  OBVIOUS
<1>7. Issued'
  <2>1. queued' \subseteq 1..issued' /\ ran' \subseteq 1..issued' /\ \A b \in batches' : b \subseteq queued'
    BY <1>2, <1>4 DEF History, Issued
  <2>2. \A p \in Queues, i \in Ids : Has(obj'[p], i) => Has(obj[p], i)
    BY <1>1, <1>6
  <2>3. /\ \A p \in Queues, i \in Ids : Has(obj'[p], i) => i \in queued'
        /\ \A p, r \in Queues, i \in Ids : p # r /\ Has(obj'[p], i) => ~Has(obj'[r], i)
    BY <2>2 DEF History, Issued
  <2>4. \A p \in Queues : obj'[p].doing = "sharing" /\ obj'[p].next.op = "get" => obj'[p].next.id \in (1..issued') \ queued'
    BY <1>1 DEF History, Issued
  <2> QED BY <2>1, <2>3, <2>4 DEF History, Issued
<1>8. Batched'
  <2>1. ASSUME NEW i \in Ids, Has(e, i)
        PROVE  Executing(e) /\ Batch(e, i) \in batches' /\ \A b \in batches' : i \in b => b = Batch(e, i)
    BY <1>2, <1>4, <2>1
  <2>2. ASSUME NEW p \in Queues, p # q, NEW i \in Ids, Has(obj[p], i) PROVE \A b \in New : i \notin b
    BY <1>2, <1>4, <2>2
  <2>3. ASSUME NEW p \in Queues, p # q, NEW i \in Ids, Has(obj[p], i)
        PROVE  IF Executing(obj[p])
               THEN Batch(obj[p], i) \in batches' /\ \A b \in batches' : i \in b => b = Batch(obj[p], i)
               ELSE \A b \in batches' : i \notin b
    BY <2>2, <2>3 DEF History, Batched
  <2>4. ASSUME NEW p \in Queues, NEW i \in Ids, Has(obj'[p], i)
        PROVE  IF Executing(obj'[p])
               THEN Batch(obj'[p], i) \in batches' /\ \A b \in batches' : i \in b => b = Batch(obj'[p], i)
               ELSE \A b \in batches' : i \notin b
    <3>1. CASE p = q
      BY <1>1, <2>1, <2>4, <3>1
    <3>2. CASE p # q
      BY <1>1, <2>3, <2>4, <3>2
    <3> QED BY <3>1, <3>2
  <2> QED BY <2>4 DEF Batched
<1>9. AllOrNothing'
  <2>1. \A b \in New : b \cap ran = {}
    BY <1>2, <1>5
  <2> QED BY <2>1 DEF History, AllOrNothing
<1> QED BY <1>7, <1>8, <1>9 DEF History

\* exec().
LEMMA ExecHistory ==
    ASSUME IInv, Books, History, NEW q \in Queues, TransactionExec(q) \/ PipelineExec(q),
           plain' = plain, ran' = ran
    PROVE  History'
<1> DEFINE o == obj[q]
           R == Range(IdsOf(o.cmds))
<1>1. PICK c \in Conns : /\ Begins(q, c)
                         /\ \/ o.tx /\ Closes(q, c, "exec")
                            \/ /\ ~o.tx
                               /\ IF o.cmds = <<>>
                                  THEN Reset(q, o, c, TRUE)
                                  ELSE Becomes(q, [o EXCEPT !.doing = "reading", !.left = Len(o.cmds)], c)
  BY DEF TransactionExec, PipelineExec
<1>2. /\ UNCHANGED <<issued, queued, ran>>
      /\ batches' = batches \cup (IF o.tx THEN {R} ELSE {{i} : i \in R})
  BY DEF TransactionExec, PipelineExec, NothingIssued
<1>3. o \in Object /\ o.doing = "nothing" /\ o.cmds \in Seq(UserCommand) /\ Len(o.cmds) \in Nat
  BY <1>1, HistoryTypes DEF Begins, Object
<1>4. R \subseteq Ids /\ \A i \in Ids : Has(o, i) <=> i \in R
  BY <1>3, IdsOfRange, HasIs
<1> HIDE DEF R
<1>5. ASSUME NEW e, obj' = [obj EXCEPT ![q] = e], e.doing # "sharing",
             \/ e.cmds = <<>> /\ e.doing = "nothing"
             \/ e.cmds = o.cmds /\ e.tx = o.tx /\ Executing(e) /\ e.doing \notin {"opening", "queueing"}
      PROVE  History'
  <2>1. \A i \in Ids : Has(e, i) => Has(o, i) /\ Executing(e) /\ Batch(e, i) = Batch(o, i)
    <3>1. CASE e.cmds = <<>> /\ e.doing = "nothing"
      <4>1. DOMAIN e.cmds = {}
        BY <3>1
      <4> QED BY <3>1, <4>1 DEF Has
    <3>2. CASE e.cmds = o.cmds /\ e.tx = o.tx /\ Executing(e) /\ e.doing \notin {"opening", "queueing"}
      BY <3>2 DEF Has, Batch
    <3> QED BY <1>5, <3>1, <3>2
  <2> DEFINE New == IF o.tx THEN {R} ELSE {{i} : i \in R}
  <2>2. /\ \A i \in Ids : Has(o, i) => Batch(o, i) \in New
        /\ \A b \in New : \A i \in b : i \in Ids /\ Has(o, i) /\ b = Batch(o, i)
    <3>1. /\ \A i \in R : Batch(o, i) \in New
          /\ \A b \in New : b \subseteq R /\ (\A i \in b : b = Batch(o, i))
      BY DEF Batch, R
    <3> HIDE DEF New
    <3> QED BY <1>4, <3>1
  <2>3. batches' = batches \cup New
    BY <1>2
  <2>4. Executes(o, e, New)
    <3> HIDE DEF New
    <3> QED BY <1>3, <1>5, <2>1, <2>2 DEF Executes
  <2> HIDE DEF New
  <2> QED BY <1>2, <1>5, <2>3, <2>4, ExecutesKeeps
<1>6. ASSUME NEW f \in Object, Reset(q, f, c, TRUE) PROVE History'
  <2> DEFINE d == IF ~f.own /\ ~f.handle THEN NoConn ELSE c
  <2>1. obj' = [obj EXCEPT ![q] = Emptied(f, d)]
    BY <1>6 DEF Reset, Emptied
  <2>2. Emptied(f, d).cmds = <<>> /\ Emptied(f, d).doing = "nothing"
    BY EmptiedIs
  <2> QED BY <1>5, <2>1, <2>2
<1>7. ASSUME NEW f \in Object, Becomes(q, f, c), f.cmds = o.cmds, f.tx = o.tx, Executing(f),
             f.doing \in {"reading", "collecting"}
      PROVE  History'
  <2>1. PICK e \in Object : /\ obj' = [obj EXCEPT ![q] = e]
                            /\ e.cmds = f.cmds /\ e.doing = f.doing /\ e.then = f.then /\ e.tx = f.tx
    BY <1>7, BecomesIs
  <2>2. Executing(e)
    BY <1>7, <2>1 DEF Executing
  <2> QED BY <1>5, <1>7, <2>1, <2>2
<1>8. CASE o.tx /\ Closes(q, c, "exec")
  <2> DEFINE f == [Collecting(o, "exec") EXCEPT !.open = FALSE]
             g == [o EXCEPT !.valid = FALSE]
  <2>1. f \in Object /\ f.cmds = o.cmds /\ f.tx = o.tx /\ f.doing = "collecting" /\ f.then = "exec"
    BY <1>3 DEF Collecting, Object, Doing
  <2>2. g \in Object
    BY <1>3 DEF Object
  <2>3. Becomes(q, f, c) \/ Reset(q, g, c, TRUE)
    BY <1>8 DEF Closes, Invalidate
  <2> HIDE DEF f, g
  <2>4. Executing(f)
    BY <2>1 DEF Executing
  <2> QED BY <1>6, <1>7, <2>1, <2>2, <2>3, <2>4
<1>9. CASE ~o.tx
  <2> DEFINE f == [o EXCEPT !.doing = "reading", !.left = Len(o.cmds)]
  <2>1. f \in Object /\ f.cmds = o.cmds /\ f.tx = o.tx /\ f.doing = "reading"
    BY <1>3 DEF Object, Doing
  <2>2. Becomes(q, f, c) \/ Reset(q, o, c, TRUE)
    BY <1>1, <1>9
  <2> HIDE DEF f
  <2>3. Executing(f)
    BY <2>1 DEF Executing
  <2> QED BY <1>3, <1>6, <1>7, <2>1, <2>2, <2>3
<1> QED BY <1>1, <1>8, <1>9

\* The ends of methods, and of objects.
LEMMA EndsHistory ==
    ASSUME IInv, Books, History, NEW q \in Queues,
           \/ RecvFails(q) \/ ExecReply(q) \/ DiscardReply(q) \/ PipelineDiscard(q) \/ TransactionDiscard(q)
           \/ SanityCheckFails(q),
           plain' = plain, ran' = ran
    PROVE  History'
<1> DEFINE o == obj[q]
           g == [o EXCEPT !.valid = FALSE]
<1>1. UNCHANGED <<issued, queued, ran, batches>>
  BY DEF RecvFails, ExecReply, DiscardReply, PipelineDiscard, TransactionDiscard, SanityCheckFails, NothingIssued
<1>2. o \in Object /\ Shape(o)
  BY HistoryTypes
<1>3. ASSUME NEW c \in Conns, Reset(q, o, c, TRUE) \/ Reset(q, o, c, FALSE) \/ Reset(q, g, c, TRUE) PROVE History'
  BY <1>1, <1>3, InvalidatesQuietly
<1>4. CASE RecvFails(q) \/ ExecReply(q) \/ DiscardReply(q)
  <2>1. o.conn \in Conns
    <3>1. o.doing \notin {"nothing", "sharing"}
      BY <1>4 DEF RecvFails, ExecReply, DiscardReply, Receives
    <3> QED BY <3>1, Midway
  <2>2. CASE RecvFails(q)
    BY <1>3, <2>1, <2>2 DEF RecvFails, Invalidate
  <2>3. CASE ExecReply(q)
    BY <1>3, <2>1, <2>3 DEF ExecReply, Throws, Invalidate
  <2>4. CASE DiscardReply(q)
    BY <1>3, <2>1, <2>4 DEF DiscardReply, Throws, Invalidate
  <2> QED BY <1>4, <2>2, <2>3, <2>4
<1>5. CASE PipelineDiscard(q)
  BY <1>3, <1>5 DEF PipelineDiscard, Invalidate
<1>6. CASE TransactionDiscard(q)
  <2>1. PICK c \in Conns : Begins(q, c) /\ Closes(q, c, "discard")
    BY <1>6 DEF TransactionDiscard
  <2> DEFINE f == [Collecting(o, "discard") EXCEPT !.open = FALSE]
  <2>2. /\ f \in Object /\ f.cmds = o.cmds /\ f.tx = o.tx /\ f.doing = "collecting" /\ f.then = "discard"
        /\ o.doing = "nothing"
    <3>1. o.doing = "nothing" /\ Len(o.cmds) \in Nat
      BY <1>2, <2>1 DEF Begins, Object
    <3> QED BY <1>2, <3>1 DEF Collecting, Object, Doing
  <2>3. Becomes(q, f, c) \/ Reset(q, g, c, TRUE)
    BY <2>1 DEF Closes, Invalidate
  <2> HIDE DEF f
  <2>4. CASE Becomes(q, f, c)
    <3>1. PICK e \in Object : /\ obj' = [obj EXCEPT ![q] = e]
                              /\ e.cmds = f.cmds /\ e.doing = f.doing /\ e.then = f.then /\ e.tx = f.tx
      BY <2>2, <2>4, BecomesIs
    <3>2. Executing(e) <=> Executing(o)
      BY <2>2, <3>1 DEF Executing
    <3>3. Quiet(e, o) /\ Apart(e)
      BY <2>2, <3>1, <3>2, QuietCases DEF Apart
    <3>4. issued' \in Nat /\ issued <= issued'
      BY <1>1, HistoryTypes
    <3> QED BY <1>1, <3>1, <3>3, <3>4, QuietKeeps
  <2> HIDE DEF g
  <2> QED BY <1>3, <2>3, <2>4 DEF g
<1>7. CASE SanityCheckFails(q)
  <2>1. CASE o.conn = NoConn
    <3>1. obj' = [obj EXCEPT ![q] = g] /\ g.cmds = <<>> /\ g.doing = "nothing"
      BY <1>2, <1>7, <2>1 DEF SanityCheckFails, Shape, Object
    <3> QED BY <1>1, <3>1, EndsQuietly
  <2>2. CASE o.conn # NoConn
    <3>1. o.conn \in Conns
      BY <2>2, Holding
    <3> QED BY <1>3, <1>7, <2>2, <3>1 DEF SanityCheckFails, Invalidate
  <2> QED BY <2>1, <2>2
<1> QED BY <1>4, <1>5, <1>6, <1>7

\* The lives of the objects.
LEMMA ObjectsHistory ==
    ASSUME IInv, Books, History, NEW q \in Queues,
           \/ \E tx, piped, own \in BOOLEAN : Create(q, tx, piped, own)
           \/ MakeHandle(q) \/ DropHandle(q) \/ Destroy(q),
           plain' = plain, ran' = ran
    PROVE  History'
<1> DEFINE o == obj[q]
<1>1. UNCHANGED <<issued, queued, ran, batches>>
  <2>1. CASE \E tx, piped, own \in BOOLEAN : Create(q, tx, piped, own)
    BY ONLY <2>1, ran' = ran DEF Create, NothingIssued
  <2>2. CASE MakeHandle(q) \/ DropHandle(q) \/ Destroy(q)
    BY <2>2 DEF MakeHandle, DropHandle, Destroy, NothingIssued
  <2> QED BY <2>1, <2>2
<1>2. o \in Object /\ Shape(o) /\ issued' \in Nat /\ issued <= issued'
  BY <1>1, HistoryTypes
<1>3. ASSUME NEW e, obj' = [obj EXCEPT ![q] = e], e.cmds = o.cmds, e.tx = o.tx, e.doing = "nothing", o.doing = "nothing"
      PROVE  History'
  <2>1. Executing(e) <=> Executing(o)
    BY <1>3 DEF Executing
  <2>2. Quiet(e, o) /\ Apart(e)
    BY <1>3, <2>1, QuietCases DEF Apart
  <2> QED BY <1>1, <1>2, <1>3, <2>2, QuietKeeps
<1>4. ASSUME obj' = [obj EXCEPT ![q] = NoObject] PROVE History'
  <2>1. NoObject.cmds = <<>> /\ NoObject.doing = "nothing"
    BY DEF NoObject
  <2> QED BY <1>1, <1>4, <2>1, EndsQuietly
<1>5. ASSUME NEW tx \in BOOLEAN, NEW piped \in BOOLEAN, NEW own \in BOOLEAN, Create(q, tx, piped, own) PROVE History'
  <2> DEFINE e == [NoObject EXCEPT !.life = "live", !.valid = TRUE, !.tx = tx, !.piped = piped, !.own = own]
  <2>1. obj' = [obj EXCEPT ![q] = e]
    BY ONLY <1>5 DEF Create
  <2>2. e.cmds = <<>> /\ e.doing = "nothing"
    BY DEF NoObject
  <2> HIDE DEF e
  <2> QED BY <1>1, <2>1, <2>2, EndsQuietly
<1>6. CASE MakeHandle(q)
  <2> DEFINE f == [o EXCEPT !.handle = TRUE]
  <2>1. PICK c \in Conns : Begins(q, c) /\ Becomes(q, f, c)
    BY <1>6 DEF MakeHandle
  <2>2. f \in Object /\ f.cmds = o.cmds /\ f.tx = o.tx /\ f.doing = "nothing" /\ o.doing = "nothing"
    BY <1>2, <2>1 DEF Begins, Object
  <2> HIDE DEF f
  <2>3. PICK e \in Object : /\ obj' = [obj EXCEPT ![q] = e]
                            /\ e.cmds = f.cmds /\ e.doing = f.doing /\ e.tx = f.tx
    BY <2>1, <2>2, BecomesIs
  <2> QED BY <1>3, <2>2, <2>3
<1>7. CASE DropHandle(q)
  <2> DEFINE e == [o EXCEPT !.handle = FALSE]
  <2>1. e.cmds = o.cmds /\ e.tx = o.tx /\ e.doing = "nothing" /\ o.doing = "nothing"
    BY <1>2, <1>7 DEF DropHandle, Object
  <2>2. obj' = [obj EXCEPT ![q] = e] \/ obj' = [obj EXCEPT ![q] = NoObject]
    BY <1>7 DEF DropHandle
  <2> HIDE DEF e
  <2> QED BY <1>3, <1>4, <2>1, <2>2
<1>8. CASE Destroy(q)
  <2> DEFINE e == [o EXCEPT !.life = "gone"]
  <2>1. e.cmds = o.cmds /\ e.tx = o.tx /\ e.doing = "nothing" /\ o.doing = "nothing"
    BY <1>2, <1>8 DEF Destroy, Object
  <2>2. obj' = [obj EXCEPT ![q] = e] \/ obj' = [obj EXCEPT ![q] = NoObject]
    BY <1>8 DEF Destroy
  <2> HIDE DEF e
  <2> QED BY <1>3, <1>4, <2>1, <2>2
<1> QED BY <1>5, <1>6, <1>7, <1>8

\* The Redis objects.
LEMMA HandlesHistory ==
    ASSUME IInv, Books, History, NEW q \in Queues,
           \/ \E x \in UserCommand : HandleCommand(q, x)
           \/ HandleWatch(q) \/ HandleReply(q) \/ HandleFails(q),
           plain' = plain, ran' = ran
    PROVE  History'
<1> DEFINE o == obj[q]
<1>1. o \in Object /\ issued \in Nat /\ queued \subseteq 1..issued /\ Staged(o)
  BY HistoryTypes DEF History, Issued
<1>2. CASE HandleReply(q) \/ HandleFails(q)
  <2> DEFINE e == [o EXCEPT !.doing = "nothing", !.next = NoCommand]
  <2>1. /\ o.doing = "sharing" /\ obj' = [obj EXCEPT ![q] = e]
        /\ UNCHANGED <<issued, queued, ran, batches>>
    BY <1>2 DEF HandleReply, HandleFails, HandleEnds, Receives, NothingIssued
  <2>2. e.cmds = <<>> /\ e.doing = "nothing"
    BY <1>1, <2>1 DEF Staged, Object
  <2> QED BY <2>1, <2>2, EndsQuietly
<1>3. ASSUME NEW x, HandleSends(q, x), x.op = "get" => x.id = issued + 1 /\ issued' = issued + 1,
             issued' \in {issued, issued + 1}
      PROVE  History'
  <2> DEFINE e == [o EXCEPT !.doing = "sharing", !.next = x]
  <2>1. obj' = [obj EXCEPT ![q] = e] /\ o.cmds = <<>> /\ UNCHANGED <<queued, ran, batches>>
    BY <1>3 DEF HandleSends, HandleUsable
  <2>2. e.cmds = <<>> /\ e.doing = "sharing" /\ e.next = x
    BY <1>1, <2>1 DEF Object
  <2>3. issued' \in Nat /\ issued <= issued'
    BY <1>1, <1>3
  <2> HIDE DEF e
  <2>4. Quiet(e, o)
    BY <2>2, QuietCases
  <2>5. Apart(e)
    BY <1>1, <1>3, <2>1, <2>2 DEF Apart
  <2> QED BY <2>1, <2>3, <2>4, <2>5, QuietKeeps
<1>4. CASE HandleWatch(q)
  BY <1>3, <1>4 DEF HandleWatch, Own
<1>5. ASSUME NEW x \in UserCommand, HandleCommand(q, x) PROVE History'
  BY <1>3, <1>5 DEF HandleCommand, Issue
<1> QED BY <1>2, <1>4, <1>5

LEMMA StepHistory ==
    ASSUME IInv, Books, History, NEW q \in Queues, Step(q), plain' = plain, ran' = ran
    PROVE  History'
<1>1. CASE \E x \in UserCommand : CommandBegins(q, x)
  BY <1>1, CommandBeginsHistory
<1>2. CASE \/ \E x \in UserCommand : HandleCommand(q, x)
           \/ HandleWatch(q) \/ HandleReply(q) \/ HandleFails(q)
  BY <1>2, HandlesHistory
<1>3. CASE OpenTransaction(q) \/ GetQueuedReply(q) \/ GetQueuedReplies(q) \/ PipelineReply(q)
  BY <1>3, RepliesHistory
<1>4. CASE TransactionExec(q) \/ PipelineExec(q)
  BY <1>4, ExecHistory
<1>5. CASE \/ RecvFails(q) \/ ExecReply(q) \/ DiscardReply(q) \/ PipelineDiscard(q) \/ TransactionDiscard(q)
           \/ SanityCheckFails(q)
  BY <1>5, EndsHistory
<1>6. CASE \/ \E tx, piped, own \in BOOLEAN : Create(q, tx, piped, own)
           \/ MakeHandle(q) \/ DropHandle(q) \/ Destroy(q)
  BY <1>6, ObjectsHistory
<1> QED BY <1>1, <1>2, <1>3, <1>4, <1>5, <1>6 DEF Step

LEMMA PlainHistory ==
    ASSUME IInv, Books, History, NEW c \in Slots, Plain(c), ran' = ran
    PROVE  History'
<1>1. obj' = obj /\ queued' = queued /\ batches' = batches
  BY DEF Plain, PlainReply, PlainFails, PlainEnds, PlainCommand, NothingIssued
<1>2. \/ issued' = issued /\ plain' = [plain EXCEPT ![c] = NoCommand]
      \/ \E x \in UserCommand : x.id = issued + 1 /\ issued' = issued + 1 /\ plain' = [plain EXCEPT ![c] = x]
  BY DEF Plain, PlainReply, PlainFails, PlainEnds, PlainCommand, NothingIssued, Issue
<1>3. plain \in [Slots -> UserCommand \cup {NoCommand}] /\ issued \in Nat /\ queued \subseteq 1..issued
  BY HistoryTypes DEF IInv, CoreTypes, History, Issued
<1>4. 1..issued \subseteq 1..issued' /\ (issued' = issued \/ issued' = issued + 1)
  BY <1>2, <1>3
<1>5. \A d \in Slots : plain'[d] # NoCommand => plain'[d].id \in (1..issued') \ queued
  <2>1. ASSUME NEW d \in Slots, d # c, plain'[d] # NoCommand PROVE plain'[d].id \in (1..issued') \ queued
    <3>1. plain'[d] = plain[d]
      BY <1>2, <1>3, <2>1
    <3> QED BY <1>4, <2>1, <3>1 DEF History, Issued
  <2>2. plain'[c] # NoCommand => plain'[c].id \in (1..issued') \ queued
    BY <1>2, <1>3
  <2> QED BY <2>1, <2>2
<1>6. Issued'
  BY <1>1, <1>4, <1>5 DEF History, Issued
<1>7. Batched'
  BY <1>1 DEF History, Batched
<1> QED BY <1>1, <1>6, <1>7 DEF History, AllOrNothing

\* The server runs R: nothing, one batch, or a command nobody queued.
LEMMA RunsKeeps ==
    ASSUME History, NEW R,
           \/ R = {}
           \/ R \in batches /\ \A i \in R : \A b \in batches : i \in b => b = R
           \/ \E i \in (1..issued) \ queued : R = {i},
           ran' = ran \cup R, UNCHANGED <<obj, plain, issued, queued, batches>>
    PROVE  History'
<1>1. R \subseteq 1..issued /\ R \cap queued \subseteq UNION batches
  BY DEF History, Issued
<1>2. \A b \in batches : b \cap R = {} \/ b = R
  BY DEF History, Issued
<1>3. Issued' /\ Batched'
  BY <1>1 DEF History, Issued, Batched
<1>4. AllOrNothing'
  BY <1>1, <1>2 DEF History, AllOrNothing
<1> QED BY <1>3, <1>4 DEF History

\* What the server runs on the connection of q.
LEMMA RunsForQueue ==
    ASSUME IInv, Books, History, UseAfterFailure = FALSE, NEW q \in Queues, obj[q].conn # NoConn,
           Unserved(conn[obj[q].conn])
    PROVE  LET k == conn[obj[q].conn]
               R == Runs(k, NextServed(k))
           IN  \/ R = {}
               \/ R \in batches /\ \A i \in R : \A b \in batches : i \in b => b = R
               \/ \E i \in (1..issued) \ queued : R = {i}
<1> DEFINE o == obj[q]
           k == conn[o.conn]
           x == NextServed(k)
           R == Runs(k, x)
           Fine == \/ R = {}
                   \/ R \in batches /\ \A i \in R : \A b \in batches : i \in b => b = R
                   \/ \E i \in (1..issued) \ queued : R = {i}
<1> SUFFICES Fine
  OBVIOUS
<1>1. /\ o \in Object /\ Shape(o) /\ Staged(o) /\ k \in ConnectionRecord /\ Ordered(k) /\ Matches(o, k) /\ Unserved(k)
  BY Holding
<1>2. k.written # 0 /\ ~Broken(k) /\ Len(k.replies) + 1 \in DOMAIN k.sent /\ x = k.sent[Len(k.replies) + 1]
  BY <1>1 DEF ConnectionRecord, Unserved, Ordered, Broken, NextServed
<1>3. ASSUME k.multi # "no", x.op \notin {"exec", "discard"} PROVE R = {}
  BY <1>3 DEF Runs
<1>4. CASE ~o.valid
  <2>1. k.multi # "no" /\ x.op \notin {"exec", "discard"}
    BY <1>1, <1>2, <1>4 DEF Matches, Harmless
  <2> QED BY <1>3, <2>1
<1>5. CASE o.valid
  <2>1. /\ Talks(o, k) /\ k.sent = Expected(o) /\ o.doing # "nothing"
        /\ IF InMulti(o, k) THEN k.multi # "no" /\ (k.multi = "open" => k.queue = InQueue(o, k))
                            ELSE k.multi = "no" /\ k.queue = <<>>
    BY <1>1, <1>2, <1>5 DEF Matches, Talks
  <2>2. CASE o.doing \in {"opening", "discard"}
    <3>1. k.sent = <<Own("multi")>> \/ k.sent = <<Own("discard")>>
      BY <2>1, <2>2 DEF Expected
    <3>2. x = Own("multi") \/ x = Own("discard")
      BY <1>1, <3>1, NextOfOne
    <3>3. x.op \in {"multi", "discard"}
      BY <3>2 DEF Own
    <3> QED BY <3>3 DEF Runs
  <2>3. CASE o.doing = "queueing"
    <3>1. k.sent = <<o.next>> /\ o.next \in UserCommand /\ o.open
      BY <1>1, <2>1, <2>3 DEF Expected, Staged
    <3>2. x \in UserCommand /\ k.multi # "no"
      BY <1>1, <2>1, <3>1, NextOfOne DEF InMulti
    <3> QED BY <1>3, <3>2 DEF UserCommand, UserOps
  <2>4. ASSUME o.doing \in {"collecting", "reading"}
        PROVE  \E j \in DOMAIN o.cmds : x = o.cmds[j] /\ x \in UserCommand
    <3>1. /\ o.left \in 0..Len(o.cmds) /\ k.sent = SubSeq(o.cmds, Len(o.cmds) - o.left + 1, Len(o.cmds))
          /\ o.cmds \in Seq(UserCommand)
      <4>1. o.cmds \in Seq(UserCommand) /\ Len(o.cmds) \in Nat
        BY <1>1 DEF Object
      <4>2. CASE o.doing = "collecting"
        BY <1>1, <2>1, <4>1, <4>2 DEF Expected, Staged
      <4>3. CASE o.doing = "reading"
        <5>1. o.left \in 1..Len(o.cmds)
          BY <1>1, <4>3 DEF Staged
        <5>2. k.sent = SubSeq(o.cmds, Len(o.cmds) - o.left + 1, Len(o.cmds))
          BY <2>1, <4>3 DEF Expected
        <5> QED BY <4>1, <5>1, <5>2
      <4> QED BY <2>4, <4>2, <4>3, <4>1
    <3> DEFINE n == Len(o.cmds) - o.left + Len(k.replies)
    <3>2. n \in 0..Len(o.cmds) - 1 /\ x = o.cmds[n + 1] /\ x \in UserCommand
      BY <1>1, <3>1, NextOfMany
    <3> HIDE DEF n, x
    <3>3. n + 1 \in DOMAIN o.cmds
      BY <3>1, <3>2
    <3> QED BY <3>2, <3>3
  <2>5. CASE o.doing = "collecting"
    <3>1. k.multi # "no"
      BY <2>1, <2>5 DEF InMulti
    <3> QED BY <1>3, <2>4, <2>5, <3>1 DEF UserCommand, UserOps
  <2>6. CASE o.doing = "exec"
    <3>1. x = Own("exec") /\ k.replies = <<>>
      BY <1>1, <2>1, <2>6, NextOfOne DEF Expected
    <3>2. k.multi = "open" => k.queue = o.cmds
      BY <2>1, <2>6, <3>1 DEF InMulti, InQueue
    <3>3. R = {} \/ R = Range(IdsOf(o.cmds))
      BY <3>1, <3>2 DEF Runs, Own
    <3>4. o.cmds \in Seq(UserCommand) /\ o.tx /\ Executing(o)
      BY <1>1, <2>6 DEF Object, Staged, Executing
    <3> HIDE DEF R
    <3>5. ASSUME R = Range(IdsOf(o.cmds)), NEW i \in R PROVE R \in batches /\ \A b \in batches : i \in b => b = R
      <4>1. i \in Ids /\ Has(o, i) /\ Batch(o, i) = R
        BY <1>1, <3>4, <3>5, IdsOfRange, HasIs DEF Batch
      <4> QED BY <3>4, <4>1 DEF History, Batched
    <3> QED BY <3>3, <3>5
  <2>7. CASE o.doing = "reading"
    <3>1. k.multi = "no" /\ ~o.tx /\ Executing(o)
      BY <1>1, <2>1, <2>7 DEF InMulti, Staged, Executing
    <3>2. PICK j \in DOMAIN o.cmds : x = o.cmds[j] /\ x \in UserCommand
      BY <2>4, <2>7
    <3>3. R = {} \/ R = {x.id}
      BY <3>1 DEF Runs
    <3>4. x.id \in Ids /\ Has(o, x.id) /\ Batch(o, x.id) = {x.id}
      BY <3>1, <3>2 DEF Has, Batch, UserCommand
    <3> HIDE DEF R, x
    <3>5. {x.id} \in batches /\ \A b \in batches : x.id \in b => b = {x.id}
      <4> DEFINE i == x.id
      <4>1. i \in Ids /\ Has(o, i) /\ Batch(o, i) = {i}
        BY <3>4
      <4> HIDE DEF i
      <4>2. Batch(o, i) \in batches /\ \A b \in batches : i \in b => b = Batch(o, i)
        BY <3>1, <4>1 DEF History, Batched
      <4> QED BY <4>1, <4>2 DEF i
    <3> QED BY <3>3, <3>5
  <2>8. CASE o.doing = "sharing"
    <3>1. x = o.next /\ k.multi = "no"
      BY <1>1, <1>5, <2>1, <2>8, NextOfOne DEF Expected, InMulti, Staged
    <3>2. x.op = "get" \/ x = Own("watch")
      BY <1>1, <2>8, <3>1 DEF Staged
    <3>3. x.op = "get" => x.id \in (1..issued) \ queued
      BY <2>8, <3>1 DEF History, Issued
    <3>4. x.op \notin {"exec", "set"}
      BY <3>2 DEF Own
    <3>5. R = {} \/ (x.op = "get" /\ R = {x.id})
      BY <3>4 DEF Runs
    <3> HIDE DEF R, x
    <3> QED BY <3>3, <3>5
  <2> QED BY <1>1, <2>1, <2>2, <2>3, <2>5, <2>6, <2>7, <2>8 DEF Object, Doing
<1> QED BY <1>4, <1>5

LEMMA ServerHistory ==
    ASSUME IInv, Books, History, UseAfterFailure = FALSE, NEW c \in Conns, ServerAnswers(c),
           UNCHANGED <<obj, plain, issued, queued, batches>>
    PROVE  History'
<1> DEFINE k == conn[c]
           x == NextServed(k)
           R == Runs(k, x)
<1>1. k \in ConnectionRecord /\ Ordered(k) /\ Unserved(k) /\ ran' = ran \cup R
  BY DEF ServerAnswers, IInv, CoreTypes, Conversations
<1>2. ~Clean(k)
  <2>1. k.written # 0 /\ k.sent # <<>>
    BY <1>1 DEF ConnectionRecord, Unserved, Ordered
  <2> QED BY <1>1, <2>1 DEF Clean, Ordered, Pristine
<1>3. CASE \E q \in Queues : Holds(q, c)
  <2>1. PICK q \in Queues : obj[q].conn = c
    BY <1>3 DEF Holds
  <2>2. c # NoConn
    BY QueuedAssumption DEF Conns
  <2>3. \/ R = {}
        \/ R \in batches /\ \A i \in R : \A b \in batches : i \in b => b = R
        \/ \E i \in (1..issued) \ queued : R = {i}
    BY <1>1, <2>1, <2>2, RunsForQueue
  <2> HIDE DEF R
  <2> QED BY <1>1, <2>3, RunsKeeps
<1>4. CASE c \in Slots /\ plain[c] # NoCommand
  <2>1. PlainTalks(plain[c], k) /\ plain[c].id \in (1..issued) \ queued
    BY <1>4 DEF IInv, Conversations, History, Issued
  <2>2. x = plain[c] /\ k.multi = "no" /\ x.op \in {"get", "bad"}
    BY <1>1, <2>1, NextOfOne DEF PlainTalks
  <2>3. R = {} \/ R = {x.id}
    BY <2>2 DEF Runs
  <2> HIDE DEF R, x
  <2> QED BY <1>1, <2>1, <2>2, <2>3, RunsKeeps
<1>5. CASE Free(c)
  BY <1>2, <1>5 DEF IInv, Conversations
<1> QED BY <1>3, <1>4, <1>5 DEF Free

LEMMA HistoryKeeps ==
    ASSUME IInv, Books, History, UseAfterFailure = FALSE, [Next]_vars
    PROVE  History'
<1>1. ASSUME NEW q \in Queues, Step(q), UNCHANGED <<plain, ran>> PROVE History'
  BY <1>1, StepHistory
<1>2. ASSUME NEW c \in Slots, Plain(c), UNCHANGED ran PROVE History'
  BY <1>2, PlainHistory
<1>3. ASSUME NEW c \in Conns, ServerAnswers(c), UNCHANGED <<obj, plain, issued, queued, batches>> PROVE History'
  BY <1>3, ServerHistory
<1>4. ASSUME UNCHANGED <<obj, plain, issued, ran, queued, batches>> PROVE History'
  BY <1>4 DEF History, Issued, Batched, AllOrNothing
<1>5. ASSUME NEW c \in Conns, Touch(c), UNCHANGED <<obj, plain, issued, queued, batches>> PROVE History'
  BY <1>4, <1>5 DEF Touch
<1> QED BY <1>1, <1>2, <1>3, <1>4, <1>5 DEF Next, vars

\* If users give up the Redis object of a QueuedRedis that failed, a server
\* runs a queued command only if exec() was called for it, and a transaction as
\* a whole or not at all, whatever fails, times out or is given up in between.
THEOREM TransactionsAreWhole ==
    ASSUME UseAfterFailure = FALSE
    PROVE  Spec => []AllOrNothing
<1>1. Init => Books
  BY DEF Init, Books
<1>2. Init => History
  <2> SUFFICES ASSUME Init PROVE History
    OBVIOUS
  <2>1. \A q \in Queues : obj[q] = NoObject
    BY DEF Init
  <2>2. \A i \in Ids : ~Has(NoObject, i)
    BY DEF Has, NoObject
  <2>3. NoObject.doing = "nothing" /\ \A c \in Slots : plain[c] = NoCommand
    BY DEF Init, NoObject
  <2>4. Issued
    BY <2>1, <2>2, <2>3 DEF Init, Issued
  <2>5. Batched
    BY <2>1, <2>2 DEF Batched
  <2> QED BY <2>4, <2>5 DEF Init, History, AllOrNothing
<1>3. IInv /\ Books /\ History /\ [Next]_vars => History'
  <2> SUFFICES ASSUME IInv, Books, History, [Next]_vars PROVE History'
    OBVIOUS
  <2> QED BY HistoryKeeps
<1>4. History => AllOrNothing
  BY DEF History
<1> QED BY <1>1, <1>2, <1>3, <1>4, BooksKeep, Invariant, PTL DEF Spec
=============================================================================
