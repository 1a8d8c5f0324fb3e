----------------------------- MODULE Connection -----------------------------
(***************************************************************************)
(* A connection (connection.h, connection.cpp) and the server at its other *)
(* end (external), as values: a connection is a record, and the operators  *)
(* say what sending, receiving and failing make of it. The modules that    *)
(* use connections keep these records in their variables.                  *)
(*                                                                         *)
(* send() only appends to the output buffer of hiredis; recv() flushes the *)
(* buffer and takes the oldest reply that was not read. Nothing in a reply *)
(* says which command it belongs to: only its position does.               *)
(***************************************************************************)
EXTENDS Naturals, SequencesExt

CONSTANT MaxCommands   \* bound: how many commands users ever issue

ASSUME CommandsAssumption == MaxCommands \in Nat

Ids == 1..MaxCommands

\* A command of a user has an id, and the server may refuse it ("bad"). Those
\* the library adds (MULTI, EXEC, DISCARD) or uses to watch have the id 0.
UserOps == {"get", "set", "bad"}
UserCommand == [op : UserOps, id : Ids]
Command == UserCommand \cup [op : {"multi", "exec", "discard", "watch"}, id : {0}]
Own(op) == [op |-> op, id |-> 0]

\* EXEC is answered with the commands it ran.
Reply == [kind : {"ok", "value", "queued", "error", "nil", "array"}, ran : Seq(Ids)]
Answer(kind) == [kind |-> kind, ran |-> <<>>]

\* link     "none" no context, "ok", "broken" (broken(): hiredis set `err')
\* sent     commands whose replies were not read, in the order of send()
\* written  how many of them the server got; the others are in the output buffer
\* replies  those to the first of them
\* multi    at the server: "no" MULTI, one that is "open", or open and "dirty",
\*          so that EXEC will refuse;  queue  the commands queued in it
\* watch    "no" WATCH, or its keys are "clean", or "touched" by others
Links == {"none", "ok", "broken"}
ConnectionRecord ==
    [link : Links, sent : Seq(Command), written : Nat, replies : Seq(Reply),
     multi : {"no", "open", "dirty"}, queue : Seq(UserCommand), watch : {"no", "clean", "touched"}]
Pristine == [link |-> "ok", sent |-> <<>>, written |-> 0, replies |-> <<>>,
             multi |-> "no", queue |-> <<>>, watch |-> "no"]
NoContext == [Pristine EXCEPT !.link = "none"]

Broken(k) == k.link # "ok"

\* A connection that went wrong is only ever closed: what is in its buffers
\* and at its server does not matter any more.
Break == [Pristine EXCEPT !.link = "broken"]

Send(k, x) == [k EXCEPT !.sent = Append(@, x)]

-----------------------------------------------------------------------------
(***************************************************************************)
(* Receiving                                                               *)
(***************************************************************************)
\* recv() begins: the output buffer is written.
Flush(k) == [k EXCEPT !.written = Len(k.sent)]

\* It takes the oldest reply, which answers the oldest command.
Answered(k) == k.replies # <<>>
AfterRecv(k) == [k EXCEPT !.sent = Tail(@), !.written = @ - 1, !.replies = Tail(@)]

-----------------------------------------------------------------------------
(***************************************************************************)
(* The server (external)                                                   *)
(***************************************************************************)
IdsOf(xs) == [i \in DOMAIN xs |-> xs[i].id]

\* The command that is the next to be served.
Unserved(k) == Len(k.replies) < k.written
NextServed(k) == k.sent[Len(k.replies) + 1]

\* MULTI and WATCH end with EXEC and DISCARD, whatever they answer.
Ended(k) == [k EXCEPT !.multi = "no", !.queue = <<>>, !.watch = "no"]
Says(k, reply) == [k EXCEPT !.replies = Append(@, reply)]

Exec(k) ==
    CASE k.multi # "open" -> Says(Ended(k), Answer("error"))
      [] k.multi = "open" /\ k.watch = "touched" -> Says(Ended(k), Answer("nil"))
      [] OTHER -> Says(Ended(k), [kind |-> "array", ran |-> IdsOf(k.queue)])

\* What the server does with the command x,
Serve(k, x) ==
    CASE x.op = "exec" -> Exec(k)
      [] x.op = "discard" -> Says(Ended(k), Answer(IF k.multi = "no" THEN "error" ELSE "ok"))
      [] x.op \in {"multi", "watch"} /\ k.multi # "no" -> Says(k, Answer("error"))
      [] x.op = "multi" /\ k.multi = "no" -> Says([k EXCEPT !.multi = "open"], Answer("ok"))
      [] x.op = "watch" /\ k.multi = "no" -> Says([k EXCEPT !.watch = IF @ = "no" THEN "clean" ELSE @], Answer("ok"))
      [] x.op = "bad" -> Says([k EXCEPT !.multi = IF @ = "no" THEN @ ELSE "dirty"], Answer("error"))
      [] x.op \in {"get", "set"} /\ k.multi # "no" -> Says([k EXCEPT !.queue = Append(@, x)], Answer("queued"))
      [] OTHER -> Says(k, Answer("value"))

\* and which commands it runs then.
Runs(k, x) ==
    CASE x.op = "exec" /\ k.multi = "open" /\ k.watch # "touched" -> Range(IdsOf(k.queue))
      [] x.op \in {"get", "set"} /\ k.multi = "no" -> {x.id}
      [] OTHER -> {}
=============================================================================
