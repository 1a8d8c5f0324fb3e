------------------------ MODULE AsyncConnectionPool -------------------------
(***************************************************************************)
(* sw::redis::AsyncConnectionPool (async_connection_pool.h, .cpp), with    *)
(* the worker of AsyncSentinel (async_sentinel.cpp) that finds addresses   *)
(* for its connections (NodeLookup), or without a sentinel.                *)
(*                                                                         *)
(* Threads fetch a connection, send a command on it, and release it before *)
(* the command is answered. (A thread that does not wait for the answer is *)
(* two threads here.) A new connection waits for the sentinel; the worker  *)
(* sets its address and adds it to the loop. Waiting for an idle connection*)
(* is the same code as in ConnectionPool, which has its condition variable *)
(* and its timeout: here fetch() is a step that is not possible yet.       *)
(*                                                                         *)
(* AsyncConnection has the connection and its loop in detail. Here a step  *)
(* of the loop is one callback; connecting, with its handshake, is part of *)
(* it; and replies that are missing when a connection is disconnected are  *)
(* failed at once. The loop outlives the pool, as in AsyncRedis.           *)
(***************************************************************************)
EXTENDS NodeLookup, Naturals, FiniteSets, SequencesExt

CONSTANTS Threads,
          Size,          \* ConnectionPoolOptions::size
          CanExpire,     \* connection_lifetime > 0 or connection_idle_time > 0
          MaxConns       \* bound: connections that exist at a time

ASSUME AsyncPoolAssumption ==
    /\ Size \in Nat \ {0}
    /\ MaxConns \in Nat /\ MaxConns > Size
    /\ CanExpire \in BOOLEAN
    /\ IsFiniteSet(Threads)

VARIABLES
    \* AsyncConnectionPool
    opts,      \* _opts.host
    used,      \* _used_connections
    pool,      \* _pool
    life,      \* "live", "dropped" while the worker still has it, or "gone"
    \* the threads
    pc, held,
    seen,      \* `opts' and `role_changed', read before the mutex is unlocked
    \* connections and the loop
    conn,
    todo,      \* what _command_events and _disconnect_events hold of a connection
    \* AsyncSentinel
    taskList   \* the connections of the tasks that the worker took, and of _tasks

poolVars == <<opts, used, pool, life>>
callerVars == <<pc, held, seen>>
asyncPoolVars == <<lookupVars, poolVars, callerVars, conn, todo, taskList>>

Ids == 1..MaxConns
Elements(s) == Range(s)
Hosts == Nodes \cup {NoHost}

\* host    _opts.host of the connection,  peer  where its context is connected to
\* link    its _state; a connection that does not exist is as one that is BROKEN
\* events  threads that wait for a reply on it, in their order
Connection == [host : Hosts, peer : Hosts, events : Seq(Threads),
               link : {"WAIT_SENTINEL", "NOT_CONNECTED", "READY", "BROKEN"}]
NoConnection == [host |-> NoHost, peer |-> NoHost, events |-> <<>>, link |-> "BROKEN"]

PoolTypeOK ==
    /\ LookupTypeOK
    /\ opts \in Hosts /\ used \in 0..Size /\ pool \in Seq(Ids)
    /\ life \in {"live", "dropped", "gone"}
    /\ pc \in [Threads -> {"out", "checking", "using"}]
    /\ held \in [Threads -> Ids \cup {0}]
    /\ seen \in [Threads -> [opts : Hosts, changed : BOOLEAN]]
    /\ conn \in [Ids -> Connection]
    /\ todo \in [Ids -> SUBSET {"event", "flush", "drop"}]
    /\ taskList \in Seq(Ids)

Nothing == [opts |-> NoHost, changed |-> FALSE]

PoolInit ==
    /\ LookupInit
    /\ opts = IF role = "none" THEN master ELSE NoHost
    /\ used = 0 /\ pool = <<>> /\ life = "live"
    /\ pc = [t \in Threads |-> "out"] /\ held = [t \in Threads |-> 0]
    /\ seen = [t \in Threads |-> Nothing]
    /\ conn = [c \in Ids |-> NoConnection]
    /\ todo = [c \in Ids |-> {}]
    /\ taskList = <<>>

\* Thread t has an event on c that is not completed.
Waits(t, c) == t \in Elements(conn[c].events)

Move(t, to) == pc' = [pc EXCEPT ![t] = to]

\* Somebody still has connection c: the pool, a thread, a task, the loop, or the
\* context that hiredis calls back with.
Referenced(c) ==
    \/ c \in Elements(pool) \cup Elements(taskList)
    \/ \E t \in Threads : held[t] = c
    \/ todo[c] # {}
    \/ conn[c].link = "READY"

-----------------------------------------------------------------------------
(***************************************************************************)
(* AsyncConnectionPool::fetch() and release()                              *)
(***************************************************************************)
\* A thread makes connection c, for the address h. With a sentinel it waits in
\* State::WAIT_SENTINEL, and a task is added for it.
Create(t, c, h) ==
    /\ ~Referenced(c) /\ \A d \in 1..(c - 1) : Referenced(d)
    /\ conn' = [conn EXCEPT ![c] = [NoConnection EXCEPT !.host = h,
                   !.link = IF role = "none" THEN "NOT_CONNECTED" ELSE "WAIT_SENTINEL"]]
    /\ taskList' = IF role = "none" THEN taskList ELSE Append(taskList, c)
    /\ held' = [held EXCEPT ![t] = c]
    /\ UNCHANGED lookupVars

\* A thread that has got its reply calls fetch().
CallsFetch(t) ==
    /\ life = "live" /\ pc[t] = "out"
    /\ \A c \in Ids : ~Waits(t, c)

FetchNew(t) ==
    /\ CallsFetch(t) /\ pool = <<>> /\ used # Size
    /\ used' = used + 1
    /\ \E c \in Ids : Create(t, c, opts)
    /\ Move(t, "using")
    /\ UNCHANGED <<opts, pool, life, seen, todo>>

\* _role_changed(): a connection without an address still waits for it.
RoleChanged(c) == role # "none" /\ conn[c].host \notin {NoHost, opts}

\* The front of the deque, and what is read under the mutex.
FetchIdle(t) ==
    /\ CallsFetch(t)
    /\ pool # <<>>
    /\ pool' = Tail(pool)
    /\ held' = [held EXCEPT ![t] = Head(pool)]
    /\ seen' = [seen EXCEPT ![t] = [opts |-> opts, changed |-> RoleChanged(Head(pool))]]
    /\ Move(t, "checking")
    /\ UNCHANGED <<lookupVars, opts, used, life, conn, todo, taskList>>

\* The connection is as it should be.
Keep(t) ==
    /\ pc[t] = "checking"
    /\ ~seen[t].changed /\ conn[held[t]].link # "BROKEN"
    /\ seen' = [seen EXCEPT ![t] = Nothing]
    /\ Move(t, "using")
    /\ UNCHANGED <<lookupVars, poolVars, held, conn, todo, taskList>>

\* Mutant: the old connection is dropped without a word to the loop.
Replace_silently(t) ==
    /\ pc[t] = "checking"
    /\ seen[t].changed \/ conn[held[t]].link = "BROKEN" \/ CanExpire
    /\ \E c \in Ids : Create(t, c, seen[t].opts)
    /\ seen' = [seen EXCEPT ![t] = Nothing]
    /\ Move(t, "using")
    /\ UNCHANGED <<poolVars, todo>>

\* It belongs to another node, is broken, or has expired: a new one is made for
\* the address that was read, and the loop disconnects the old one.
Replace(t) ==
    /\ pc[t] = "checking"
    /\ seen[t].changed \/ conn[held[t]].link = "BROKEN" \/ CanExpire
    /\ \E c \in Ids : Create(t, c, seen[t].opts)
    /\ todo' = [todo EXCEPT ![held[t]] = @ \cup {"flush"}]
    /\ seen' = [seen EXCEPT ![t] = Nothing]
    /\ Move(t, "using")
    /\ UNCHANGED poolVars

\* AsyncConnection::send() on the connection that fetch() returned, and the
\* release() of the guard around it, which looks at nothing of the connection.
SendAndRelease(t) ==
    /\ pc[t] = "using"
    /\ conn' = [conn EXCEPT ![held[t]].events = Append(@, t)]
    /\ todo' = [todo EXCEPT ![held[t]] = @ \cup {"event"}]
    /\ pool' = Append(pool, held[t])
    /\ held' = [held EXCEPT ![t] = 0]
    /\ Move(t, "out")
    /\ UNCHANGED <<lookupVars, opts, used, life, seen, taskList>>

\* ~AsyncConnectionPool: the loop disconnects the connections of the pool.
Destruct(leftOver) ==
    /\ life' = "gone"
    /\ todo' = [c \in Ids |-> IF c \in Elements(pool) THEN leftOver[c] \cup {"flush"} ELSE leftOver[c]]
    /\ pool' = <<>>
    /\ UNCHANGED <<opts, used>>

\* The application lets go of the pool, with nobody in it. The worker may have
\* it still.
DropPool ==
    /\ life = "live" /\ \A t \in Threads : pc[t] = "out"
    /\ IF lookup = "idle"
       THEN Destruct(todo)
       ELSE life' = "dropped" /\ UNCHANGED <<opts, used, pool, todo>>
    /\ UNCHANGED <<lookupVars, callerVars, conn, taskList>>

-----------------------------------------------------------------------------
(***************************************************************************)
(* The connections and their loop                                          *)
(***************************************************************************)
\* Every pending event fails, and the context is gone. (Nobody asks for the
\* address of a broken connection: it is replaced.)
Fail(k) == NoConnection

\* It connects, does the handshake, and sends its events; or one of these fails.
Connect(k) == {[k EXCEPT !.link = "READY", !.peer = k.host], Fail(k)}

\* _connect_with_sentinel(): it waits for the sentinel, or no longer.
HasAddress(k) == k.link = "WAIT_SENTINEL" /\ k.host # NoHost

\* event_callback(). Events of a connection that is READY are sent; those of
\* one that waits or connects stay in its queue.
EventCallback(k) ==
    CASE HasAddress(k) \/ k.link = "NOT_CONNECTED" -> Connect(k)
      [] k.link = "BROKEN" -> {[k EXCEPT !.events = <<>>]}
      [] OTHER -> {k}

\* EventLoop::_event_callback(): events, and then the disconnects, which flush
\* events first if there is no exception.
LoopRuns(c) ==
    /\ todo[c] # {}
    /\ \E k \in IF todo[c] = {"drop"} THEN {conn[c]} ELSE EventCallback(conn[c]) :
          conn' = [conn EXCEPT ![c] = IF todo[c] \cap {"flush", "drop"} # {} THEN Fail(k) ELSE k]
    /\ todo' = [todo EXCEPT ![c] = {}]
    /\ UNCHANGED <<lookupVars, poolVars, callerVars, taskList>>

\* A reply arrives.
Answer(c) ==
    /\ conn[c].link = "READY" /\ conn[c].events # <<>>
    /\ conn' = [conn EXCEPT ![c].events = Tail(@)]
    /\ UNCHANGED <<lookupVars, poolVars, callerVars, todo, taskList>>

\* The connection is lost.
Lose(c) ==
    /\ conn[c].link = "READY"
    /\ conn' = [conn EXCEPT ![c] = Fail(@)]
    /\ UNCHANGED <<lookupVars, poolVars, callerVars, todo, taskList>>

-----------------------------------------------------------------------------
(***************************************************************************)
(* The worker of AsyncSentinel                                             *)
(***************************************************************************)
TaskDone == taskList' = Tail(taskList) /\ UNCHANGED callerVars

\* _run_task(): the weak_ptr of the pool is locked, or the task is given up.
RunTask ==
    /\ taskList # <<>> /\ life = "live" /\ BeginLookup
    /\ UNCHANGED <<poolVars, callerVars, conn, todo, taskList>>

GiveUpTask ==
    /\ taskList # <<>> /\ lookup = "idle" /\ life = "gone"
    /\ TaskDone
    /\ UNCHANGED <<lookupVars, poolVars, conn, todo>>

\* Sentinel::master() or slave() returns or throws.
Asked ==
    /\ LookupFails \/ \E n \in Nodes : Find(n)
    /\ UNCHANGED <<poolVars, callerVars, conn, todo, taskList>>

\* update_node_info(host, port, connection), its critical section.
UpdatePool ==
    /\ lookup = "found" /\ opts # node
    /\ opts' = node
    /\ UNCHANGED <<lookupVars, used, pool, life, callerVars, conn, todo, taskList>>

\* The pool may go with the reference of the worker.
LetPoolGo(rest) ==
    IF life = "dropped" THEN Destruct(rest) ELSE todo' = rest /\ UNCHANGED poolVars

\* ... and outside of it: the address of the connection, and loop->add().
UpdateConnection ==
    /\ lookup = "found" /\ opts = node /\ EndLookup
    /\ conn' = [conn EXCEPT ![Head(taskList)].host = IF conn[Head(taskList)].link = "BROKEN" THEN @ ELSE opts]
    /\ LetPoolGo([todo EXCEPT ![Head(taskList)] = @ \cup {"event"}])
    /\ TaskDone

\* Mutant: the exception ends the task, and nobody tells the connection.
UpdateFails_silent ==
    /\ lookup = "failed" /\ EndLookup
    /\ LetPoolGo(todo)
    /\ TaskDone /\ UNCHANGED conn

\* update_node_info(connection, err): loop->unwatch().
UpdateFails ==
    /\ lookup = "failed" /\ EndLookup
    /\ LetPoolGo([todo EXCEPT ![Head(taskList)] = @ \cup {"drop"}])
    /\ TaskDone /\ UNCHANGED conn

-----------------------------------------------------------------------------
\* Another node becomes the master, and the old one drops its clients (external).
Failover(n) ==
    /\ Promote(n)
    /\ conn' = [c \in Ids |-> IF conn[c].peer = master THEN Fail(conn[c]) ELSE conn[c]]
    /\ UNCHANGED <<poolVars, callerVars, todo, taskList>>

Thread(t) ==
    \/ FetchNew(t) \/ FetchIdle(t) \/ Keep(t) \/ Replace(t) \/ SendAndRelease(t)

Worker ==
    \/ RunTask \/ GiveUpTask \/ Asked \/ UpdatePool \/ UpdateConnection \/ UpdateFails

PoolNext ==
    \/ \E t \in Threads : Thread(t)
    \/ DropPool
    \/ \E c \in Ids : LoopRuns(c) \/ Answer(c) \/ Lose(c)
    \/ Worker
    \/ \E n \in Nodes : Failover(n)

PoolSpec == PoolInit /\ [][PoolNext]_asyncPoolVars

\* Threads that are in the pool go on, the loop handles what it was given, the
\* worker its tasks: the timeouts of the sentinel and of hiredis end each call.
\* Nothing says that an idle connection is ever lost.
PoolFairness ==
    /\ \A t \in Threads : WF_asyncPoolVars(Keep(t) \/ Replace(t) \/ SendAndRelease(t))
    /\ \A c \in Ids : WF_asyncPoolVars(LoopRuns(c)) /\ WF_asyncPoolVars(Answer(c))
    /\ WF_asyncPoolVars(Worker)

FairPoolSpec == PoolSpec /\ PoolFairness

-----------------------------------------------------------------------------
(***************************************************************************)
(* Properties                                                              *)
(***************************************************************************)
\* The pool or a thread has connection c.
Owned(c) == c \in Elements(pool) \/ \E t \in Threads : held[t] = c

\* A command is answered or failed, whenever it was sent: while its connection
\* waited for the sentinel, was replaced or disconnected, or its pool destroyed
\* with the task of the connection still to come.
EventsAnswered ==
    \A t \in Threads : (\E c \in Ids : Waits(t, c)) ~> (\A c \in Ids : ~Waits(t, c))

\* A connection that neither the pool nor a thread has is closed in the end:
\* also one whose address arrives only after it was replaced.
DiscardedCloses ==
    \A c \in Ids :
        conn[c].link = "READY" /\ ~Owned(c) ~> conn[c].link # "READY"

\* After the last failover the pool heals: from some moment on its connections
\* are connected to the new master only ("With Role::MASTER, redis-plus-plus
\* will always connect to current master instance, even if a failover occurs").
FailoverHeals ==
    \/ role # "master"
    \/ []<><<\E n \in Nodes : Failover(n)>>_asyncPoolVars
    \/ <>[](\A c \in Ids : Owned(c) /\ conn[c].link = "READY" => conn[c].peer = master)
=============================================================================
