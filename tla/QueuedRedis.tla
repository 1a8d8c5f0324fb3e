---------------------------- MODULE QueuedRedis -----------------------------
(***************************************************************************)
(* Transactions and pipelines (queued_redis.hpp, transaction.cpp,          *)
(* pipeline.cpp), the Redis objects that share their connections           *)
(* (QueuedRedis::redis()), and plain commands: the users of one pool.      *)
(*                                                                         *)
(* A QueuedRedis is not thread-safe. Different objects are used by         *)
(* different threads, and get each other's connections from the pool, so a *)
(* method is as many steps as it receives replies. The server runs what it *)
(* was sent between any two of them.                                       *)
(***************************************************************************)
EXTENDS Connection, FiniteSets

CONSTANTS Queues,      \* QueuedRedis objects
          Slots,       \* connections of the shared pool
          NoConn,      \* no _guarded_connection
          UseAfterFailure  \* whether users keep the Redis object of a QueuedRedis that failed

ASSUME QueuedAssumption ==
    /\ Queues \cap Slots = {} /\ NoConn \notin Queues \cup Slots
    /\ UseAfterFailure \in BOOLEAN

VARIABLES conn,     \* conn[c]: a pooled connection, or the own one of a QueuedRedis
          idle,     \* pooled connections nobody has
          obj,      \* obj[q]: the QueuedRedis q
          plain,    \* plain[c]: the command whose reply a plain user of c waits for
          issued,   \* commands issued so far
          ran,      \* history: commands a server has run
          queued,   \* history: commands of transactions and pipelines
          batches,  \* history: what exec() was asked to run, a transaction in one batch
          misread   \* history: who took the reply of another command for its own

vars == <<conn, idle, obj, plain, issued, ran, queued, batches, misread>>

\* With new_connection an object has a pool, and so a connection, of its own.
Conns == Slots \cup Queues

\* life    "none", "live", or "gone" while its Redis object is still there
\* tx, piped, own   its template, _piped, _new_connection
\* cmds    the commands _cmd_num counts,  sets  _set_cmd_indexes
\* open    _in_transaction,  handle  a Redis object shares _guarded_connection
\* doing   which reply a method waits for, or the Redis object ("sharing")
\* next    the command being queued, or that of the Redis object
\* left    replies that are still to come before the last one
NoCommand == [op |-> "none", id |-> 0]
Doing == {"nothing", "opening", "queueing", "collecting", "exec", "discard", "reading", "sharing"}
Object == [life : {"none", "live", "gone"}, tx : BOOLEAN, piped : BOOLEAN, own : BOOLEAN,
           valid : BOOLEAN, conn : Conns \cup {NoConn}, cmds : Seq(UserCommand), sets : SUBSET Nat,
           open : BOOLEAN, handle : BOOLEAN, doing : Doing, next : Command \cup {NoCommand},
           left : Nat, then : {"exec", "discard"}]

NoObject == [life |-> "none", tx |-> FALSE, piped |-> FALSE, own |-> FALSE, valid |-> FALSE,
             conn |-> NoConn, cmds |-> <<>>, sets |-> {}, open |-> FALSE, handle |-> FALSE,
             doing |-> "nothing", next |-> NoCommand, left |-> 0, then |-> "exec"]

TypeOK ==
    /\ conn \in [Conns -> ConnectionRecord]
    /\ idle \subseteq Slots
    /\ obj \in [Queues -> Object]
    /\ plain \in [Slots -> UserCommand \cup {NoCommand}]
    /\ issued \in Ids \cup {0}
    /\ ran \subseteq Ids /\ queued \subseteq Ids
    /\ batches \subseteq SUBSET Ids
    /\ misread \subseteq {"queue", "handle", "plain"}

Init ==
    /\ conn = [c \in Conns |-> NoContext]
    /\ idle = Slots
    /\ obj = [q \in Queues |-> NoObject]
    /\ plain = [c \in Slots |-> NoCommand]
    /\ issued = 0
    /\ ran = {} /\ queued = {} /\ batches = {} /\ misread = {}

\* Connection c is left as k.
Store(c, k) == conn' = [conn EXCEPT ![c] = k]

\* A reply is read: the one to command y, which is taken for that to x.
Read(who, y, x) == misread' = misread \cup (IF y = x THEN {} ELSE {who})
NothingRead == UNCHANGED misread

Issue(x) == x.op \in UserOps /\ x.id = issued + 1 /\ issued' = x.id
NothingIssued == UNCHANGED <<issued, queued>>

\* A command whose reply is waited for.
Asks(k, x) == Flush(Send(k, x))

-----------------------------------------------------------------------------
(***************************************************************************)
(* The connection of an object, and the ends of its methods                *)
(***************************************************************************)

\* What ConnectionPool::fetch() makes of connection c.
Fetched(c) == IF Broken(conn[c]) THEN Pristine ELSE conn[c]

\* A method of q may begin with connection c: the object is valid, and has that
\* connection, or fetches it from its own pool or from the shared one, where it
\* waits for an idle one.
Begins(q, c) ==
    /\ obj[q].life = "live" /\ obj[q].valid /\ obj[q].doing = "nothing"
    /\ \/ c = obj[q].conn /\ ~Broken(conn[c])
       \/ obj[q].conn = NoConn /\ c \in IF obj[q].own THEN {q} ELSE idle

\* The object becomes o; its connection c, if it is pooled, is not idle.
Becomes(q, o, c) ==
    /\ obj' = [obj EXCEPT ![q] = [o EXCEPT !.conn = c]]
    /\ idle' = idle \ {c}

\* _reset(reset_connection): the method ends, and the object o, on connection
\* c, forgets its commands. A pooled connection goes back to the pool if no
\* Redis object shares it.
Reset(q, o, c, back) ==
    LET returned == back /\ ~o.own /\ ~o.handle
    IN  /\ obj' = [obj EXCEPT ![q] = [o EXCEPT !.cmds = <<>>, !.sets = {}, !.doing = "nothing",
                                               !.next = NoCommand, !.left = 0, !.then = "exec",
                                               !.conn = IF returned THEN NoConn ELSE c]]
        /\ idle' = IF returned THEN idle \cup {c} ELSE idle \ {c}

\* Mutant: the connection goes back as it is.
Invalidate_keeps(q, c, k) == Store(c, k) /\ Reset(q, [obj[q] EXCEPT !.valid = FALSE], c, TRUE)

\* _invalidate(), before the exception goes on: a pooled connection is marked
\* broken, so that the pool connects it again; an own one stays as it is.
Invalidate(q, c, k) ==
    /\ Store(c, IF obj[q].own THEN k ELSE Break)
    /\ Reset(q, [obj[q] EXCEPT !.valid = FALSE], c, TRUE)

\* _sanity_check() throws in command(), exec() or discard(): the object was
\* invalid already, its connection is broken, or it got none.
SanityCheckFails(q) ==
    /\ obj[q].life = "live" /\ obj[q].doing = "nothing"
    /\ IF obj[q].conn = NoConn
       THEN /\ obj' = [obj EXCEPT ![q].valid = FALSE]
            /\ UNCHANGED <<conn, idle>>
       ELSE /\ ~obj[q].valid \/ Broken(conn[obj[q].conn])
            /\ Invalidate(q, obj[q].conn, conn[obj[q].conn])
    /\ NothingIssued /\ NothingRead /\ UNCHANGED batches

-----------------------------------------------------------------------------
(***************************************************************************)
(* command()                                                               *)
(***************************************************************************)

\* ++_cmd_num; set() notes the number of its command for the reply's sake.
Counted(o) ==
    [o EXCEPT !.cmds = Append(@, o.next), !.next = NoCommand, !.doing = "nothing",
              !.sets = IF o.next.op = "set" THEN @ \cup {Len(o.cmds) + 1} ELSE @]

\* The command itself is sent. A transaction that is not piped waits for QUEUED.
WaitsForQueued(o) == o.tx /\ ~o.piped
AfterSend(o) == IF WaitsForQueued(o) THEN [o EXCEPT !.doing = "queueing"] ELSE Counted(o)
SendsCommand(o, k) == IF WaitsForQueued(o) THEN Asks(k, o.next) ELSE Send(k, o.next)

\* The first command of a transaction sends MULTI and waits for its reply.
CommandBegins(q, x) ==
    \E c \in Conns :
        /\ Begins(q, c)
        /\ Issue(x) /\ queued' = queued \cup {x.id}
        /\ LET o == [obj[q] EXCEPT !.next = x]
               multi == o.tx /\ ~o.open
           IN  /\ Store(c, IF multi THEN Asks(Fetched(c), Own("multi")) ELSE SendsCommand(o, Fetched(c)))
               /\ Becomes(q, IF multi THEN [o EXCEPT !.doing = "opening"] ELSE AfterSend(o), c)
        /\ NothingRead /\ UNCHANGED batches

-----------------------------------------------------------------------------
(***************************************************************************)
(* The replies a method waits for                                          *)
(***************************************************************************)
Receives(q, doing) == obj[q].doing = doing /\ Answered(conn[obj[q].conn])
Received(q) == Head(conn[obj[q].conn].replies)
Asked(q) == Head(conn[obj[q].conn].sent)
After(q) == AfterRecv(conn[obj[q].conn])
Throws(q) == Invalidate(q, obj[q].conn, After(q))

\* _open_transaction(): OK, and the command follows.
OpenTransaction(q) ==
    /\ Receives(q, "opening")
    /\ Read("queue", Asked(q), Own("multi"))
    /\ IF Received(q).kind = "ok"
       THEN /\ Store(obj[q].conn, SendsCommand(obj[q], After(q)))
            /\ Becomes(q, AfterSend([obj[q] EXCEPT !.open = TRUE]), obj[q].conn)
       ELSE Throws(q)
    /\ NothingIssued /\ UNCHANGED batches

\* _get_queued_reply(), after a command.
GetQueuedReply(q) ==
    /\ Receives(q, "queueing")
    /\ Read("queue", Asked(q), obj[q].next)
    /\ IF Received(q).kind = "queued"
       THEN Store(obj[q].conn, After(q)) /\ Becomes(q, Counted(obj[q]), obj[q].conn)
       ELSE Throws(q)
    /\ NothingIssued /\ UNCHANGED batches

\* The reply that is due when `left' more are to be read.
Due(o) == o.cmds[Len(o.cmds) - o.left + 1]

\* _get_queued_replies(): a piped transaction reads what it did not read
\* before; then EXEC or DISCARD is sent.
GetQueuedReplies(q) ==
    /\ obj[q].doing = "collecting"
    /\ IF obj[q].left = 0
       THEN /\ Store(obj[q].conn, Asks(conn[obj[q].conn], Own(obj[q].then)))
            /\ Becomes(q, [obj[q] EXCEPT !.doing = obj[q].then], obj[q].conn)
            /\ NothingRead
       ELSE /\ Receives(q, "collecting")
            /\ Read("queue", Asked(q), Due(obj[q]))
            /\ IF Received(q).kind = "queued"
               THEN Store(obj[q].conn, After(q)) /\ Becomes(q, [obj[q] EXCEPT !.left = @ - 1], obj[q].conn)
               ELSE Throws(q)
    /\ NothingIssued /\ UNCHANGED batches

\* recv() throws: a timeout, or the connection is closed, and `err' stays set.
RecvFails(q) ==
    /\ obj[q].doing \notin {"nothing", "sharing"}
    /\ obj[q].doing = "collecting" => obj[q].left # 0
    /\ Invalidate(q, obj[q].conn, Break)
    /\ NothingIssued /\ NothingRead /\ UNCHANGED batches

-----------------------------------------------------------------------------
(***************************************************************************)
(* exec() and discard()                                                    *)
(***************************************************************************)
\* The replies to the commands of a piped transaction come first.
Collecting(o, then) ==
    [o EXCEPT !.doing = "collecting", !.then = then, !.left = IF o.piped THEN Len(o.cmds) ELSE 0]

\* Mutant: the transaction is still thought to be open.
Closes_staysOpen(q, c, then) ==
    IF obj[q].open
    THEN Store(c, Flush(Fetched(c))) /\ Becomes(q, Collecting(obj[q], then), c)
    ELSE Invalidate(q, c, Fetched(c))

\* _close_transaction(), or its exception "No command in transaction".
Closes(q, c, then) ==
    IF obj[q].open
    THEN Store(c, Flush(Fetched(c))) /\ Becomes(q, [Collecting(obj[q], then) EXCEPT !.open = FALSE], c)
    ELSE Invalidate(q, c, Fetched(c))

\* exec() of a transaction.
TransactionExec(q) ==
    \E c \in Conns :
        /\ obj[q].tx /\ Begins(q, c)
        /\ Closes(q, c, "exec")
        /\ batches' = batches \cup {Range(IdsOf(obj[q].cmds))}
        /\ NothingIssued /\ NothingRead

\* _exec(): nil is a WatchError, after which the object keeps its connection
\* and may be used again; replies are taken for those of the commands, in
\* their order, and converted by the numbers in _set_cmd_indexes.
ExecReply(q) ==
    /\ Receives(q, "exec")
    /\ LET o == obj[q]
           mine == /\ Asked(q) = Own("exec")
                   /\ Received(q).kind = "array" =>
                         /\ Received(q).ran = IdsOf(o.cmds)
                         /\ o.sets = {i \in DOMAIN o.cmds : o.cmds[i].op = "set"}
       IN  /\ misread' = misread \cup (IF mine THEN {} ELSE {"queue"})
           /\ CASE Received(q).kind = "array" -> Store(o.conn, After(q)) /\ Reset(q, o, o.conn, TRUE)
                [] Received(q).kind = "nil" -> Store(o.conn, After(q)) /\ Reset(q, o, o.conn, FALSE)
                [] OTHER -> Throws(q)
    /\ NothingIssued /\ UNCHANGED batches

TransactionDiscard(q) ==
    \E c \in Conns :
        /\ obj[q].tx /\ Begins(q, c)
        /\ Closes(q, c, "discard")
        /\ NothingIssued /\ NothingRead /\ UNCHANGED batches

DiscardReply(q) ==
    /\ Receives(q, "discard")
    /\ Read("queue", Asked(q), Own("discard"))
    /\ IF Received(q).kind = "ok"
       THEN Store(obj[q].conn, After(q)) /\ Reset(q, obj[q], obj[q].conn, TRUE)
       ELSE Throws(q)
    /\ NothingIssued /\ UNCHANGED batches

\* PipelineImpl::exec(): as many replies as commands, errors among them.
PipelineExec(q) ==
    \E c \in Conns :
        /\ ~obj[q].tx /\ Begins(q, c)
        /\ Store(c, Flush(Fetched(c)))
        /\ IF obj[q].cmds = <<>>
           THEN Reset(q, obj[q], c, TRUE)
           ELSE Becomes(q, [obj[q] EXCEPT !.doing = "reading", !.left = Len(obj[q].cmds)], c)
        /\ batches' = batches \cup {{i} : i \in Range(IdsOf(obj[q].cmds))}
        /\ NothingIssued /\ NothingRead

PipelineReply(q) ==
    /\ Receives(q, "reading")
    /\ Read("queue", Asked(q), Due(obj[q]))
    /\ Store(obj[q].conn, After(q))
    /\ IF obj[q].left = 1
       THEN Reset(q, obj[q], obj[q].conn, TRUE)
       ELSE Becomes(q, [obj[q] EXCEPT !.left = @ - 1], obj[q].conn)
    /\ NothingIssued /\ UNCHANGED batches

\* Mutant: the commands are forgotten and the connection is kept.
PipelineDiscard_keeps(q) ==
    \E c \in Conns :
        /\ ~obj[q].tx /\ Begins(q, c)
        /\ Store(c, Fetched(c)) /\ Reset(q, obj[q], c, TRUE)
        /\ NothingIssued /\ NothingRead /\ UNCHANGED batches

\* PipelineImpl::discard(): reconnect(), which leaves the connection as it was
\* if it fails.
PipelineDiscard(q) ==
    \E c \in Conns :
        /\ ~obj[q].tx /\ Begins(q, c)
        /\ \/ Store(c, Pristine) /\ Reset(q, obj[q], c, TRUE)
           \/ Invalidate(q, c, Fetched(c))
        /\ NothingIssued /\ NothingRead /\ UNCHANGED batches

-----------------------------------------------------------------------------
(***************************************************************************)
(* Life of the objects                                                     *)
(***************************************************************************)
\* Redis::transaction() and Redis::pipeline().
Create(q, tx, piped, own) ==
    /\ obj[q].life = "none" /\ (piped => tx)
    /\ obj' = [obj EXCEPT ![q] = [NoObject EXCEPT !.life = "live", !.valid = TRUE, !.tx = tx,
                                                  !.piped = piped, !.own = own]]
    /\ conn' = [conn EXCEPT ![q] = NoContext]
    /\ NothingIssued /\ NothingRead /\ UNCHANGED <<idle, batches>>

\* redis(): a Redis object on the connection of q.
MakeHandle(q) ==
    \E c \in Conns :
        /\ Begins(q, c) /\ ~obj[q].handle
        /\ Store(c, Fetched(c))
        /\ Becomes(q, [obj[q] EXCEPT !.handle = TRUE], c)
        /\ NothingIssued /\ NothingRead /\ UNCHANGED batches

\* The user of a Redis object waits with it while the object it came from has
\* commands queued, and (unless UseAfterFailure) gives it up when that failed.
HandleUsable(q) ==
    /\ obj[q].handle /\ obj[q].doing = "nothing"
    /\ obj[q].cmds = <<>> /\ ~Broken(conn[obj[q].conn])
    /\ obj[q].valid \/ UseAfterFailure

\* Redis::command() in single connection mode: send, and wait for one reply.
HandleSends(q, x) ==
    /\ HandleUsable(q)
    /\ Store(obj[q].conn, Asks(conn[obj[q].conn], x))
    /\ obj' = [obj EXCEPT ![q].doing = "sharing", ![q].next = x]
    /\ NothingRead /\ UNCHANGED <<idle, queued, batches>>

HandleCommand(q, x) == x.op = "get" /\ Issue(x) /\ HandleSends(q, x)

\* watch(), for the sake of a transaction.
HandleWatch(q) ==
    /\ obj[q].tx /\ obj[q].life = "live"
    /\ HandleSends(q, Own("watch")) /\ UNCHANGED issued

\* Its reply, or an exception: then the connection is broken.
HandleEnds(q, k) ==
    /\ Store(obj[q].conn, k)
    /\ obj' = [obj EXCEPT ![q].doing = "nothing", ![q].next = NoCommand]
    /\ NothingIssued /\ UNCHANGED <<idle, batches>>

HandleReply(q) ==
    /\ Receives(q, "sharing")
    /\ Read("handle", Asked(q), obj[q].next)
    /\ HandleEnds(q, After(q))

HandleFails(q) == obj[q].doing = "sharing" /\ HandleEnds(q, Break) /\ NothingRead

\* The connection c goes back to its pool as k, or its own pool is destroyed.
Leaves(q, c, k) ==
    /\ Store(c, IF obj[q].own THEN NoContext ELSE k)
    /\ idle' = IF obj[q].own THEN idle ELSE idle \cup {c}

\* The Redis object is destroyed, the last that had the connection or not.
DropHandle(q) ==
    /\ obj[q].handle /\ obj[q].doing = "nothing"
    /\ IF obj[q].life = "gone"
       THEN obj' = [obj EXCEPT ![q] = NoObject] /\ Leaves(q, obj[q].conn, conn[obj[q].conn])
       ELSE obj' = [obj EXCEPT ![q].handle = FALSE] /\ UNCHANGED <<conn, idle>>
    /\ NothingIssued /\ NothingRead /\ UNCHANGED batches

\* ~QueuedRedis: _clean_up() breaks a pooled connection, with what it may have
\* sent and not read; then it goes back, or stays with the Redis object.
Destroy(q) ==
    /\ obj[q].life = "live" /\ obj[q].doing = "nothing"
    /\ \/ /\ obj[q].conn = NoConn
          /\ obj' = [obj EXCEPT ![q] = NoObject] /\ UNCHANGED <<conn, idle>>
       \/ /\ obj[q].conn # NoConn /\ ~obj[q].handle
          /\ obj' = [obj EXCEPT ![q] = NoObject] /\ Leaves(q, obj[q].conn, Break)
       \/ /\ obj[q].handle
          /\ obj' = [obj EXCEPT ![q].life = "gone"]
          /\ Store(obj[q].conn, IF obj[q].own THEN conn[obj[q].conn] ELSE Break)
          /\ UNCHANGED idle
    /\ NothingIssued /\ NothingRead /\ UNCHANGED batches

-----------------------------------------------------------------------------
(***************************************************************************)
(* Others                                                                  *)
(***************************************************************************)
\* Redis::command() in pool mode, on whatever idle connection it gets.
PlainCommand(c, x) ==
    /\ c \in idle /\ x.op # "set" /\ Issue(x)
    /\ Store(c, Asks(Fetched(c), x))
    /\ idle' = idle \ {c} /\ plain' = [plain EXCEPT ![c] = x]
    /\ NothingRead /\ UNCHANGED <<obj, queued, batches>>

\* The connection goes back, and is broken after an exception.
PlainEnds(c, k) ==
    /\ Store(c, k)
    /\ idle' = idle \cup {c} /\ plain' = [plain EXCEPT ![c] = NoCommand]
    /\ NothingIssued /\ UNCHANGED <<obj, batches>>

PlainReply(c) ==
    /\ plain[c] # NoCommand /\ Answered(conn[c])
    /\ Read("plain", Head(conn[c].sent), plain[c])
    /\ PlainEnds(c, AfterRecv(conn[c]))

PlainFails(c) == plain[c] # NoCommand /\ PlainEnds(c, Break) /\ NothingRead

\* The server (external) serves the next command it was sent.
ServerAnswers(c) ==
    /\ Unserved(conn[c])
    /\ Store(c, Serve(conn[c], NextServed(conn[c])))
    /\ ran' = ran \cup Runs(conn[c], NextServed(conn[c]))

\* Another client changes a watched key (external).
Touch(c) ==
    /\ conn[c].watch = "clean"
    /\ conn' = [conn EXCEPT ![c].watch = "touched"]
    /\ UNCHANGED ran

Step(q) ==
    \/ \E tx, piped, own \in BOOLEAN : Create(q, tx, piped, own)
    \/ \E x \in UserCommand : CommandBegins(q, x) \/ HandleCommand(q, x)
    \/ OpenTransaction(q) \/ GetQueuedReply(q) \/ GetQueuedReplies(q) \/ RecvFails(q)
    \/ TransactionExec(q) \/ ExecReply(q) \/ TransactionDiscard(q) \/ DiscardReply(q)
    \/ PipelineExec(q) \/ PipelineReply(q) \/ PipelineDiscard(q)
    \/ SanityCheckFails(q) \/ MakeHandle(q) \/ DropHandle(q) \/ Destroy(q)
    \/ HandleWatch(q) \/ HandleReply(q) \/ HandleFails(q)

Plain(c) == PlainReply(c) \/ PlainFails(c) \/ \E x \in UserCommand : PlainCommand(c, x)

Next ==
    \/ \E q \in Queues : Step(q) /\ UNCHANGED <<plain, ran>>
    \/ \E c \in Slots : Plain(c) /\ UNCHANGED ran
    \/ \E c \in Conns : /\ ServerAnswers(c) \/ Touch(c)
                        /\ UNCHANGED <<idle, obj, plain, issued, queued, batches, misread>>

Spec == Init /\ [][Next]_vars

-----------------------------------------------------------------------------
(***************************************************************************)
(* Properties                                                              *)
(***************************************************************************)
\* Whatever went wrong in the methods of a transaction or a pipeline, and
\* whoever still shared its connection: a connection in the pool that will be
\* used as it is has no command or reply left in it, no open MULTI, no WATCH.
PooledIsClean ==
    \A c \in idle : ~Broken(conn[c]) => conn[c] = Pristine

\* Replies are matched to commands by position only, and yet everybody reads
\* the replies of their own commands, and exec() returns those of the commands
\* queued since the last exec(), converted by the right indexes.
RepliesMatch == misread = {}

\* A queued command is run only if exec() was called for it ("any command that
\* has NOT been executed will be ignored", queued_redis.h), and a transaction
\* is run as a whole or not at all.
AllOrNothing ==
    /\ ran \cap queued \subseteq UNION batches
    /\ \A b \in batches : b \subseteq ran \/ b \cap ran = {}
=============================================================================
