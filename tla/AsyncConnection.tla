-------------------------- MODULE AsyncConnection --------------------------
(***************************************************************************)
(* sw::redis::AsyncConnection (async_connection.h, async_connection.cpp)   *)
(* and the EventLoop that runs it (event_loop.h, event_loop.cpp).          *)
(*                                                                         *)
(* Threads of the application append an event (a command and the promise   *)
(* of its reply) to the queue of a connection, add the connection to a set *)
(* of the loop and wake the loop's thread. That thread connects, shakes    *)
(* hands, sends, and completes the promises, in the callbacks of uv and of *)
(* hiredis. Only it changes a connection, except for pushing events, so a  *)
(* callback is one step, at the point where it takes the queue; _connect() *)
(* is two, since it holds a reference to the loop on the loop's thread.    *)
(*                                                                         *)
(* What hiredis keeps of a connection is external: the context, and the    *)
(* commands that wait for a reply.                                         *)
(***************************************************************************)
EXTENDS Naturals, FiniteSets

CONSTANTS Conns,     \* connections, each used once: a broken one is replaced by its pool
          Events,    \* events, each sent once
          Sentinel,  \* the worker that asks the sentinel for an address
          NoConn,    \* no connection
          Needs      \* commands of the handshake that the options ask for

Handshake == {"AUTHING", "SET_RESP", "SET_NAME", "SELECTING_DB", "ENABLE_READONLY"}

ASSUME AsyncAssumption ==
    /\ Sentinel \notin Events
    /\ NoConn \notin Conns
    /\ Needs \subseteq Handshake

VARIABLES
    \* the application
    unsent,     \* events that nobody has sent yet
    adding,     \* adding[c]: calls of send(c) and update_node_info(c) before loop->add()
    notifying,  \* how many callers have still to call uv_async_send()
    retired,    \* connections that their pool has given up
    tasks,      \* connections whose task waits for the sentinel
    appRef,     \* whether the application has a reference to the loop
    \* EventLoop
    commands,   \* _command_events
    goodbyes,   \* _disconnect_events: "flush" without an exception, "drop" with one
    wake,       \* _event_async is pending
    stopping,   \* _stop_async is pending
    lpc,        \* what _loop_thread is doing
    cur,        \* the connection in _connect()
    batch,      \* command_events of _event_callback
    byes,       \* disconnect_events of _event_callback
    dtor,       \* ~EventLoop
    \* AsyncConnection
    state,      \* _state
    host,       \* whether _opts.host is not empty
    ptr,        \* whether _ctx is not null
    queue,      \* _events
    \* hiredis
    ctx,        \* the redisAsyncContext of a connection
    asked,      \* the command of the handshake that waits for its reply
    sent,       \* the events that wait for their reply
    \* history
    agreed,     \* commands of the handshake that the server has accepted
    completed   \* how often the promise of an event was set

appVars == <<unsent, adding, notifying, retired, tasks, appRef>>
setVars == <<commands, goodbyes, wake>>
threadVars == <<lpc, cur, batch, byes>>
loopVars == <<setVars, stopping, threadVars, dtor>>
hiredisVars == <<ctx, asked, sent, agreed>>
connVars == <<state, host, ptr, queue, hiredisVars, completed>>
vars == <<appVars, loopVars, connVars>>

States == {"BROKEN", "NOT_CONNECTED", "CONNECTING", "READY", "WAIT_SENTINEL"} \cup Handshake
Byes == {"no", "flush", "drop"}
NoByes == [c \in Conns |-> "no"]

TypeOK ==
    /\ unsent \subseteq Events
    /\ adding \in [Conns -> SUBSET (Events \cup {Sentinel})]
    /\ notifying \in Nat
    /\ {retired, tasks, commands, batch} \subseteq SUBSET Conns
    /\ {appRef, wake, stopping} \subseteq BOOLEAN
    /\ goodbyes \in [Conns -> Byes] /\ byes \in [Conns -> Byes]
    /\ lpc \in {"poll", "batch", "locked", "ended"}
    /\ cur \in Conns \cup {NoConn}
    /\ lpc = "locked" <=> cur # NoConn
    /\ dtor \in {"none", "joining", "draining", "done", "terminated"}
    /\ state \in [Conns -> States]
    /\ host \in [Conns -> BOOLEAN] /\ ptr \in [Conns -> BOOLEAN]
    /\ queue \in [Conns -> SUBSET Events] /\ sent \in [Conns -> SUBSET Events]
    /\ ctx \in [Conns -> {"none", "connecting", "up", "closing"}]
    /\ asked \in [Conns -> SUBSET Needs] /\ agreed \in [Conns -> SUBSET Needs]
    /\ completed \in [Events -> Nat]

\* AsyncConnectionMode::SINGLE, or SENTINEL with a task for the sentinel.
Init ==
    /\ unsent = Events
    /\ adding = [c \in Conns |-> {}] /\ notifying = 0
    /\ retired = {} /\ appRef = TRUE
    /\ commands = {} /\ goodbyes = NoByes /\ wake = FALSE
    /\ stopping = FALSE
    /\ lpc = "poll" /\ cur = NoConn
    /\ batch = {} /\ byes = NoByes
    /\ dtor = "none"
    /\ tasks \in SUBSET Conns
    /\ state = [c \in Conns |-> IF c \in tasks THEN "WAIT_SENTINEL" ELSE "NOT_CONNECTED"]
    /\ host = [c \in Conns |-> c \notin tasks]
    /\ ptr = [c \in Conns |-> FALSE]
    /\ queue = [c \in Conns |-> {}] /\ sent = [c \in Conns |-> {}]
    /\ ctx = [c \in Conns |-> "none"]
    /\ asked = [c \in Conns |-> {}] /\ agreed = [c \in Conns |-> {}]
    /\ completed = [e \in Events |-> 0]

Alive == dtor # "terminated"

(***************************************************************************)
(* Threads of the application, and of the sentinel                         *)
(***************************************************************************)
\* send(), its critical section. A pool lends only what it has not given up.
Push(e, c) ==
    /\ Alive /\ appRef
    /\ e \in unsent
    /\ c \notin retired
    /\ unsent' = unsent \ {e}
    /\ queue' = [queue EXCEPT ![c] = @ \cup {e}]
    /\ adding' = [adding EXCEPT ![c] = @ \cup {e}]
    /\ UNCHANGED <<notifying, retired, tasks, appRef, loopVars, state, host, ptr, hiredisVars, completed>>

\* Mutant: the connection is not added to the loop.
SentinelAnswers_silent(c) ==
    /\ Alive /\ appRef
    /\ c \in tasks
    /\ tasks' = tasks \ {c}
    /\ host' = [host EXCEPT ![c] = TRUE]
    /\ UNCHANGED <<unsent, adding, notifying, retired, appRef, loopVars, state, ptr, queue, hiredisVars, completed>>

\* The sentinel has answered: update_node_info(host, port).
SentinelAnswers(c) ==
    /\ Alive /\ appRef
    /\ c \in tasks
    /\ tasks' = tasks \ {c}
    /\ host' = [host EXCEPT ![c] = TRUE]
    /\ adding' = [adding EXCEPT ![c] = @ \cup {Sentinel}]
    /\ UNCHANGED <<unsent, notifying, retired, appRef, loopVars, state, ptr, queue, hiredisVars, completed>>

\* loop->add(), its critical section.
Add(c) ==
    /\ Alive
    /\ \E who \in adding[c] : adding' = [adding EXCEPT ![c] = @ \ {who}]
    /\ commands' = commands \cup {c}
    /\ notifying' = notifying + 1
    /\ UNCHANGED <<unsent, retired, tasks, appRef, goodbyes, wake, stopping, threadVars, dtor, connVars>>

\* loop->unwatch(), its critical section: emplace() keeps what is there.
Unwatch(c, how) ==
    /\ goodbyes' = [goodbyes EXCEPT ![c] = IF @ = "no" THEN how ELSE @]
    /\ notifying' = notifying + 1
    /\ UNCHANGED <<unsent, adding, appRef, commands, wake, stopping, threadVars, dtor, connVars>>

\* The sentinel has failed: update_node_info(connection, err).
SentinelFails(c) ==
    /\ Alive /\ appRef
    /\ c \in tasks
    /\ tasks' = tasks \ {c}
    /\ Unwatch(c, "drop")
    /\ UNCHANGED retired

\* The pool gives up a connection that nobody uses: it has expired, or the
\* pool is destroyed.
Retire(c) ==
    /\ Alive /\ appRef
    /\ c \notin retired
    /\ adding[c] \subseteq {Sentinel}
    /\ retired' = retired \cup {c}
    /\ Unwatch(c, "flush")
    /\ UNCHANGED tasks

\* uv_async_send(), which does nothing if the handle is pending already.
Notify ==
    /\ Alive
    /\ notifying > 0
    /\ notifying' = notifying - 1
    /\ wake' = TRUE
    /\ UNCHANGED <<unsent, adding, retired, tasks, appRef, commands, goodbyes, stopping, threadVars, dtor, connVars>>

\* The last reference of the application. If the loop's thread has none it is
\* the last one of all, and ~EventLoop calls stop().
ReleaseLoop ==
    /\ Alive /\ appRef
    /\ retired = Conns
    /\ adding = [c \in Conns |-> {}] /\ notifying = 0
    /\ appRef' = FALSE
    /\ tasks' = {}
    /\ IF lpc = "locked" THEN UNCHANGED <<stopping, dtor>>
                         ELSE stopping' = TRUE /\ dtor' = "joining"
    /\ UNCHANGED <<unsent, adding, notifying, retired, setVars, threadVars, connVars>>

(***************************************************************************)
(* What callbacks do to a connection                                       *)
(***************************************************************************)
\* The promises of the events in S are set.
Complete(S) == completed' = [e \in Events |-> completed[e] + IF e \in S THEN 1 ELSE 0]

Queued(C) == UNION {queue[c] : c \in C}

\* _fail_events(): the connections are broken, and their queues are failed.
FailEvents(C) ==
    /\ ptr' = [c \in Conns |-> ptr[c] /\ c \notin C]
    /\ state' = [c \in Conns |-> IF c \in C THEN "BROKEN" ELSE state[c]]
    /\ queue' = [c \in Conns |-> IF c \in C THEN {} ELSE queue[c]]

\* disconnect(): hiredis closes the context when no reply is missing.
Disconnect(C) ==
    /\ ctx' = [c \in Conns |-> IF c \in C /\ ptr[c] THEN "closing" ELSE ctx[c]]
    /\ FailEvents(C)

\* Mutant: when a command fails, the ones before it are failed, too.
Send_failsAll(c) ==
    \/ /\ sent' = [sent EXCEPT ![c] = @ \cup queue[c]]
       /\ queue' = [queue EXCEPT ![c] = {}]
       /\ state' = [state EXCEPT ![c] = "READY"]
       /\ ctx' = [ctx EXCEPT ![c] = "up"]
       /\ UNCHANGED <<ptr, completed>>
    \/ \E S \in SUBSET queue[c] :
          /\ S # queue[c]
          /\ sent' = [sent EXCEPT ![c] = @ \cup S]
          /\ Complete(queue[c])
          /\ Disconnect({c})

\* _send(): all events of the queue, or those before one that hiredis refuses.
Send(c) ==
    \/ /\ sent' = [sent EXCEPT ![c] = @ \cup queue[c]]
       /\ queue' = [queue EXCEPT ![c] = {}]
       /\ state' = [state EXCEPT ![c] = "READY"]
       /\ ctx' = [ctx EXCEPT ![c] = "up"]
       /\ UNCHANGED <<ptr, completed>>
    \/ \E S \in SUBSET queue[c] :
          /\ S # queue[c]
          /\ sent' = [sent EXCEPT ![c] = @ \cup S]
          /\ Complete(queue[c] \ S)
          /\ Disconnect({c})

\* The order of the handshake.
Pos == [CONNECTING |-> 0, AUTHING |-> 1, SET_RESP |-> 2, SET_NAME |-> 3, SELECTING_DB |-> 4,
        ENABLE_READONLY |-> 5, READY |-> 6]

Follows(s, n) == n \in Needs \cup {"READY"} /\ Pos[s] < Pos[n]

\* Mutant: _authing_callback() forgets one of the commands.
After_skips(s) ==
    CHOOSE n \in Needs \cup {"READY"} :
       /\ Follows(s, n) /\ ~(s = "AUTHING" /\ n = "SELECTING_DB")
       /\ \A m \in Needs : Follows(s, m) /\ ~(s = "AUTHING" /\ m = "SELECTING_DB") => Pos[n] <= Pos[m]

\* What follows state s: the next command that the options ask for.
After(s) ==
    CHOOSE n \in Needs \cup {"READY"} : Follows(s, n) /\ \A m \in Needs : Follows(s, m) => Pos[n] <= Pos[m]

\* connect_callback() without an error, from the callback of connecting or of
\* the last command: it asks the next command, or is ready and sends. A failure
\* on the way disconnects. Nothing is done on a connection that is broken.
Proceed(c) ==
    IF state[c] = "BROKEN"
    THEN UNCHANGED <<state, ptr, queue, ctx, sent, completed>> /\ asked' = [asked EXCEPT ![c] = {}]
    ELSE \/ /\ After(state[c]) = "READY"
            /\ Send(c)
            /\ asked' = [asked EXCEPT ![c] = {}]
         \/ /\ After(state[c]) # "READY"
            /\ asked' = [asked EXCEPT ![c] = {After(state[c])}]
            /\ state' = [state EXCEPT ![c] = After(state[c])]
            /\ ctx' = [ctx EXCEPT ![c] = "up"]
            /\ UNCHANGED <<ptr, queue, sent, completed>>
         \/ /\ state[c] = "CONNECTING" \/ After(state[c]) # "READY"
            /\ Disconnect({c})
            /\ Complete(queue[c])
            /\ asked' = [asked EXCEPT ![c] = {}]
            /\ UNCHANGED sent

(***************************************************************************)
(* The thread of the loop: _event_callback, _stop_callback                 *)
(***************************************************************************)
\* uv clears the handle and calls _event_callback, which takes both sets.
WakeUp ==
    /\ Alive /\ lpc = "poll"
    /\ wake
    /\ wake' = FALSE
    /\ batch' = commands /\ byes' = goodbyes
    /\ commands' = {} /\ goodbyes' = NoByes
    /\ lpc' = "batch"
    /\ UNCHANGED <<appVars, stopping, cur, dtor, connVars>>

\* The callback is about to call event_callback() of c: for a command, or
\* before it disconnects c without an exception.
Calls(c) == c \in batch \/ (batch = {} /\ byes[c] = "flush")

Called(c) ==
    IF c \in batch THEN batch' = batch \ {c} /\ UNCHANGED byes
                   ELSE byes' = [byes EXCEPT ![c] = "drop"] /\ UNCHANGED batch

MustConnect(c) == state[c] = "NOT_CONNECTED" \/ (state[c] = "WAIT_SENTINEL" /\ host[c])

\* event_callback() while the handshake goes on, or without an address.
CallEarly(c) ==
    /\ Alive /\ lpc = "batch" /\ Calls(c)
    /\ state[c] \notin {"READY", "BROKEN"} /\ ~MustConnect(c)
    /\ Called(c)
    /\ UNCHANGED <<appVars, setVars, stopping, lpc, cur, dtor, connVars>>

CallReady(c) ==
    /\ Alive /\ lpc = "batch" /\ Calls(c)
    /\ state[c] = "READY"
    /\ Send(c)
    /\ Called(c)
    /\ UNCHANGED <<appVars, setVars, stopping, lpc, cur, dtor, host, asked, agreed>>

\* Mutant: events of a broken connection stay where they are.
CallBroken_ignored(c) ==
    /\ Alive /\ lpc = "batch" /\ Calls(c)
    /\ state[c] = "BROKEN"
    /\ Called(c)
    /\ UNCHANGED <<appVars, setVars, stopping, lpc, cur, dtor, connVars>>

\* _clean_up()
CallBroken(c) ==
    /\ Alive /\ lpc = "batch" /\ Calls(c)
    /\ state[c] = "BROKEN"
    /\ Complete(queue[c])
    /\ queue' = [queue EXCEPT ![c] = {}]
    /\ Called(c)
    /\ UNCHANGED <<appVars, setVars, stopping, lpc, cur, dtor, state, host, ptr, hiredisVars>>

\* _connect(): it makes a context, and locks its weak_ptr of the loop.
ConnectBegins(c) ==
    /\ Alive /\ lpc = "batch" /\ Calls(c)
    /\ MustConnect(c)
    /\ \/ /\ appRef
          /\ lpc' = "locked" /\ cur' = c
          /\ state' = [state EXCEPT ![c] = "NOT_CONNECTED"]
          /\ UNCHANGED <<batch, byes, ptr, queue, completed>>
       \/ /\ FailEvents({c})
          /\ Complete(queue[c])
          /\ Called(c)
          /\ UNCHANGED <<lpc, cur>>
    /\ UNCHANGED <<appVars, setVars, stopping, dtor, host, hiredisVars>>

\* watch(), and the reference to the loop is gone. If it was the last one,
\* ~EventLoop runs on the thread that it joins: the exception of join() ends
\* the process.
ConnectEnds(c) ==
    /\ Alive /\ lpc = "locked" /\ cur = c
    /\ \/ /\ ctx' = [ctx EXCEPT ![c] = "connecting"]
          /\ ptr' = [ptr EXCEPT ![c] = TRUE]
          /\ state' = [state EXCEPT ![c] = "CONNECTING"]
          /\ UNCHANGED <<queue, completed>>
       \/ /\ FailEvents({c})
          /\ Complete(queue[c])
          /\ UNCHANGED ctx
    /\ lpc' = "batch" /\ cur' = NoConn
    /\ Called(c)
    /\ dtor' = IF appRef THEN dtor ELSE "terminated"
    /\ UNCHANGED <<appVars, setVars, stopping, host, asked, sent, agreed>>

\* disconnect() of a connection that was unwatched, after all commands.
Goodbye(c) ==
    /\ Alive /\ lpc = "batch"
    /\ batch = {} /\ byes[c] = "drop"
    /\ byes' = [byes EXCEPT ![c] = "no"]
    /\ Disconnect({c})
    /\ Complete(queue[c])
    /\ UNCHANGED <<appVars, setVars, stopping, lpc, cur, batch, dtor, host, asked, sent, agreed>>

BatchEnds ==
    /\ Alive /\ lpc = "batch"
    /\ batch = {} /\ byes = NoByes
    /\ lpc' = "poll"
    /\ UNCHANGED <<appVars, setVars, stopping, cur, batch, byes, dtor, connVars>>

\* Mutant: the loop stops without a look at its sets.
StopCallback_leaves ==
    /\ Alive /\ lpc = "poll"
    /\ stopping
    /\ stopping' = FALSE
    /\ lpc' = "ended"
    /\ UNCHANGED <<appVars, setVars, cur, batch, byes, dtor, connVars>>

\* _stop_callback: _clean_up() disconnects what is in the sets, and uv_run()
\* returns.
StopCallback ==
    /\ Alive /\ lpc = "poll"
    /\ stopping
    /\ stopping' = FALSE
    /\ LET C == commands \cup {c \in Conns : goodbyes[c] # "no"} IN
          /\ Disconnect(C)
          /\ Complete(Queued(C))
    /\ commands' = {} /\ goodbyes' = NoByes
    /\ lpc' = "ended"
    /\ UNCHANGED <<appVars, wake, cur, batch, byes, dtor, host, asked, sent, agreed>>

(***************************************************************************)
(* Callbacks of hiredis: in the loop's thread, or in the uv_run() of       *)
(* LoopDeleter                                                             *)
(***************************************************************************)
Callback == Alive /\ (lpc = "poll" \/ dtor = "draining")

ConnectSucceeds(c) ==
    /\ Callback /\ ctx[c] = "connecting"
    /\ Proceed(c)
    /\ UNCHANGED <<appVars, loopVars, host, agreed>>

\* An error or a timeout: hiredis frees the context after connect_callback().
ConnectFails(c) ==
    /\ Callback /\ ctx[c] = "connecting"
    /\ FailEvents({c})
    /\ Complete(queue[c])
    /\ ctx' = [ctx EXCEPT ![c] = "none"]
    /\ UNCHANGED <<appVars, loopVars, host, asked, sent, agreed>>

\* set_options_callback() and hello_callback()
HandshakeAccepted(c) ==
    /\ Callback /\ ctx[c] \in {"up", "closing"}
    /\ asked[c] # {}
    /\ agreed' = [agreed EXCEPT ![c] = @ \cup asked[c]]
    /\ Proceed(c)
    /\ UNCHANGED <<appVars, loopVars, host>>

HandshakeRejected(c) ==
    /\ Callback /\ ctx[c] \in {"up", "closing"}
    /\ asked[c] # {}
    /\ asked' = [asked EXCEPT ![c] = {}]
    /\ Disconnect({c})
    /\ Complete(queue[c])
    /\ UNCHANGED <<appVars, loopVars, host, sent, agreed>>

\* _reply_callback() with a reply, to a value or to an exception.
Reply(c, e) ==
    /\ Callback /\ ctx[c] \in {"up", "closing"}
    /\ e \in sent[c]
    /\ sent' = [sent EXCEPT ![c] = @ \ {e}]
    /\ Complete({e})
    /\ UNCHANGED <<appVars, loopVars, state, host, ptr, queue, ctx, asked, agreed>>

\* Mutant: disconnect_callback() leaves _ctx as it is.
Lost_keepsContext(c) ==
    /\ Callback /\ ctx[c] \in {"up", "closing"}
    /\ ctx' = [ctx EXCEPT ![c] = "none"]
    /\ sent' = [sent EXCEPT ![c] = {}]
    /\ asked' = [asked EXCEPT ![c] = {}]
    /\ Complete(sent[c])
    /\ UNCHANGED <<appVars, loopVars, state, host, ptr, queue, agreed>>

\* The peer closes, or socket_timeout passes: callbacks get a null reply, which
\* those of the handshake ignore, and disconnect_callback() fails what is
\* queued, unless disconnect() has disabled it.
Lost(c) ==
    /\ Callback /\ ctx[c] \in {"up", "closing"}
    /\ ctx' = [ctx EXCEPT ![c] = "none"]
    /\ sent' = [sent EXCEPT ![c] = {}]
    /\ asked' = [asked EXCEPT ![c] = {}]
    /\ IF ptr[c] THEN FailEvents({c}) /\ Complete(sent[c] \cup queue[c])
                 ELSE Complete(sent[c]) /\ UNCHANGED <<state, ptr, queue>>
    /\ UNCHANGED <<appVars, loopVars, host, agreed>>

\* The context is freed when it has no callback left.
Close(c) ==
    /\ Callback /\ ctx[c] = "closing"
    /\ asked[c] = {} /\ sent[c] = {}
    /\ ctx' = [ctx EXCEPT ![c] = "none"]
    /\ UNCHANGED <<appVars, loopVars, state, host, ptr, queue, asked, sent, agreed, completed>>

(***************************************************************************)
(* The rest of ~EventLoop                                                  *)
(***************************************************************************)
\* join() returns; LoopDeleter closes both handles.
Joined ==
    /\ dtor = "joining" /\ lpc = "ended"
    /\ dtor' = "draining"
    /\ UNCHANGED <<appVars, setVars, stopping, threadVars, connVars>>

\* uv_run() returns when no context is left. The connections are destroyed with
\* the last references to them, and ~AsyncConnection cleans up.
Destroyed ==
    /\ dtor = "draining"
    /\ \A c \in Conns : ctx[c] = "none"
    /\ dtor' = "done"
    /\ commands' = {} /\ goodbyes' = NoByes
    /\ queue' = [c \in Conns |-> {}]
    /\ Complete(Queued(Conns))
    /\ UNCHANGED <<appVars, wake, stopping, threadVars, state, host, ptr, hiredisVars>>

-----------------------------------------------------------------------------
Application ==
    \/ \E e \in Events, c \in Conns : Push(e, c)
    \/ \E c \in Conns : SentinelAnswers(c) \/ SentinelFails(c) \/ Add(c) \/ Retire(c)
    \/ Notify \/ ReleaseLoop

LoopThread ==
    \/ WakeUp \/ BatchEnds \/ StopCallback
    \/ \E c \in Conns : \/ CallEarly(c) \/ CallReady(c) \/ CallBroken(c)
                        \/ ConnectBegins(c) \/ ConnectEnds(c) \/ Goodbye(c)

\* Something that hiredis, or its timeouts, will call back for.
Awaited(c) ==
    \/ ConnectSucceeds(c) \/ ConnectFails(c)
    \/ HandshakeAccepted(c) \/ HandshakeRejected(c)
    \/ \E e \in Events : Reply(c, e)
    \/ Close(c)

Next ==
    \/ Application \/ LoopThread
    \/ \E c \in Conns : Awaited(c) \/ Lost(c)
    \/ Joined \/ Destroyed

Spec == Init /\ [][Next]_vars

\* Threads finish their calls, the loop's thread runs, the sentinel's worker
\* does its tasks. A server answers, or the connection is lost or times out.
Fairness ==
    /\ \A c \in Conns : WF_vars(Add(c)) /\ WF_vars(SentinelAnswers(c) \/ SentinelFails(c))
    /\ WF_vars(Notify)
    /\ WF_vars(LoopThread)
    /\ \A c \in Conns : WF_vars(Awaited(c) \/ ((asked[c] # {} \/ sent[c] # {}) /\ Lost(c)))
    /\ WF_vars(Joined \/ Destroyed)

FairSpec == Spec /\ Fairness

-----------------------------------------------------------------------------
(***************************************************************************)
(* Properties                                                              *)
(***************************************************************************)
Pending(e) == {c \in Conns : e \in queue[c] \cup sent[c]}

\* The promise of an event is set once and not twice (which would throw in a
\* callback, or run the callback of a user again), and until then exactly one
\* of the queue of a connection, hiredis, and the user still has the event:
\* through failures in the middle of a send, of the handshake or of a goodbye.
CompletedOnce ==
    \A e \in Events :
        /\ e \in unsent => Pending(e) = {} /\ completed[e] = 0
        /\ e \notin unsent => completed[e] = IF Pending(e) = {} THEN 1 ELSE 0
        /\ \A c, d \in Pending(e) : c = d
        /\ \A c \in Conns : e \notin queue[c] \cap sent[c]

\* The assertions of async_connection.h and .cpp: _ctx is not null when a
\* command is sent (`assert(_ctx != nullptr)', `assert(!broken())'), and it
\* never points to a context that hiredis has freed or is closing.
ContextIsOpen ==
    \A c \in Conns :
        /\ ptr[c] <=> ctx[c] \in {"connecting", "up"}
        /\ ptr[c] <=> state[c] \in {"CONNECTING", "READY"} \cup Handshake
        /\ asked[c] \cup sent[c] # {} => ctx[c] \in {"up", "closing"}

\* No command of a user is sent on a connection before the server has accepted
\* everything that the options ask for, whichever of the five callbacks that
\* choose the next command the handshake went through.
HandshakeFirst == \A c \in Conns : sent[c] # {} \/ state[c] = "READY" => agreed[c] = Needs

\* What will make the loop's thread look at connection c.
Announced(c) ==
    \/ adding[c] # {}
    \/ (c \in commands \/ goodbyes[c] # "no") /\ (notifying > 0 \/ wake \/ stopping)
    \/ c \in batch \/ byes[c] # "no"

\* No event sleeps in a queue: its connection is in a set of the loop whose
\* thread will wake up, or in the middle of connecting, or waits for the
\* sentinel, although uv merges wakeups, and sets are taken as a whole.
NobodySleeps ==
    \A c \in Conns :
        queue[c] # {} => \/ Announced(c)
                         \/ cur = c
                         \/ state[c] \in {"CONNECTING"} \cup Handshake
                         \/ c \in tasks

\* Every event that was sent is completed, also if its connection breaks, is
\* given up, or the loop is destroyed.
EventsComplete == \A e \in Events : e \notin unsent ~> (completed[e] # 0 \/ ~Alive)

\* ~EventLoop returns: the thread ends and no connection is left watched.
DestructorReturns == dtor = "joining" ~> dtor = "done"

\* README.md: "once `AsyncRedis` is destroyed, it will stop the underlying event
\* loop." The destructor of the loop ends its thread, and not the process.
NoSelfJoin == dtor # "terminated"
=============================================================================
