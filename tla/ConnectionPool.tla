--------------------------- MODULE ConnectionPool ---------------------------
(***************************************************************************)
(* sw::redis::ConnectionPool (connection_pool.h, connection_pool.cpp): the *)
(* threads of a program share a bounded pool of connections.               *)
(*                                                                         *)
(* An action is one critical section of `_mutex', or one step a thread     *)
(* takes outside of it: connecting, asking the sentinel, running commands, *)
(* and the notify_one() that release() calls after it unlocked the mutex.  *)
(* The condition variable is the set of threads at "waiting"; a thread     *)
(* that left it ("woken", "timedout") has still to get the mutex back.     *)
(*                                                                         *)
(* A connection is a slot 1..Size. The data of a connection is the address *)
(* it was made for (`_opts') and the state of its link:                    *)
(*   "broken"  broken() holds: hiredis reported an error, or no context    *)
(*   "dead"    the peer is gone and this client has not noticed yet        *)
(*   "ok"      usable                                                      *)
(***************************************************************************)
EXTENDS Naturals, Sequences, FiniteSets

CONSTANTS Threads,       \* threads that call fetch(), release() and create()
          Size,          \* ConnectionPoolOptions::size
          Hosts,         \* the addresses a server may have
          NoHost,        \* the address ("", -1) of _update_connection_opts
          SentinelMode,  \* whether _sentinel is set
          TimedWait,     \* wait_timeout > 0
          CanExpire      \* connection_lifetime > 0 or connection_idle_time > 0

\* connection_pool.cpp:29: a pool of size 0 is refused by the constructor.
ASSUME PoolAssumption ==
    /\ Size \in Nat \ {0}
    /\ IsFiniteSet(Threads)
    /\ Threads \cap {"unborn", "free"} = {}
    /\ NoHost \notin Hosts
    /\ Hosts # {}
    /\ {SentinelMode, TimedWait, CanExpire} \subseteq BOOLEAN

VARIABLES opts,    \* _opts: the address new connections are made for
          used,    \* _used_connections
          pool,    \* _pool: idle connections, oldest release first
          conn,    \* conn[c]: the data of connection c
          pc,      \* where each thread is
          held,    \* the connection a thread has, 0 for none
          fresh,   \* the connection sentinel.create() has just returned to it
          server   \* the address the service really has now

vars == <<opts, used, pool, conn, pc, held, fresh, server>>

Slots == 1..Size
Links == {"ok", "dead", "broken"}
Connection == [host : Hosts \cup {NoHost}, link : Links]
Dummy(h) == [host |-> h, link |-> "broken"]
Locations == {"out", "waiting", "woken", "timedout", "connecting", "created",
              "failed", "using", "used", "notifying"}

TypeOK ==
    /\ opts \in Hosts \cup {NoHost}
    /\ used \in 0..Size
    /\ pool \in Seq(Slots)
    /\ conn \in [Slots -> Connection]
    /\ pc \in [Threads -> Locations]
    /\ held \in [Threads -> 0..Size]
    /\ fresh \in [Threads -> Connection]
    /\ server \in Hosts

Move(t, to) == pc' = [pc EXCEPT ![t] = to]

(***************************************************************************)
(* The constructors: no connection yet, and with a sentinel no address.    *)
(***************************************************************************)
Init ==
    /\ server \in Hosts
    /\ opts = IF SentinelMode THEN NoHost ELSE server
    /\ used = 0
    /\ pool = <<>>
    /\ conn = [c \in Slots |-> Dummy(NoHost)]
    /\ pc = [t \in Threads |-> "out"]
    /\ held = [t \in Threads |-> 0]
    /\ fresh = [t \in Threads |-> Dummy(NoHost)]

RoleChanged(c) == SentinelMode /\ conn[c].host # opts

MustReconnect(c) == RoleChanged(c) \/ conn[c].link = "broken"

(***************************************************************************)
(* fetch(), first critical section                                         *)
(***************************************************************************)

\* The pool is empty but not at its limit: the thread takes a new, broken
\* connection, which it connects after it has unlocked the mutex.
FetchNew(t) ==
    /\ pc[t] = "out"
    /\ pool = <<>>
    /\ used # Size
    /\ used' = used + 1
    /\ conn' = [conn EXCEPT ![used'] = Dummy(opts)]
    /\ held' = [held EXCEPT ![t] = used']
    /\ Move(t, "connecting")
    /\ UNCHANGED <<opts, pool, fresh, server>>

\* Every connection is with some thread: wait for a release.
FetchWait(t) ==
    /\ pc[t] = "out"
    /\ pool = <<>>
    /\ used = Size
    /\ Move(t, "waiting")
    /\ UNCHANGED <<opts, used, pool, conn, held, fresh, server>>

\* Mutant: the front of the deque is copied and never popped.
FetchIdle_noPop(t) ==
    /\ pc[t] \in {"out", "woken", "timedout"}
    /\ pool # <<>>
    /\ held' = [held EXCEPT ![t] = Head(pool)]
    /\ Move(t, "connecting")
    /\ UNCHANGED <<opts, used, pool, conn, fresh, server>>

\* There is an idle connection: a new caller takes the oldest, and so does a
\* waiter that has the mutex again, whether it was notified or timed out (the
\* predicate of wait_for is evaluated once more). Whether to reconnect is
\* decided from `_opts' read under the mutex and from the age and the state of
\* the connection.
FetchIdle(t) ==
    /\ pc[t] \in {"out", "woken", "timedout"}
    /\ pool # <<>>
    /\ pool' = Tail(pool)
    /\ held' = [held EXCEPT ![t] = Head(pool)]
    /\ \/ /\ MustReconnect(Head(pool)) \/ CanExpire
          /\ Move(t, "connecting")
       \/ /\ ~MustReconnect(Head(pool))
          /\ Move(t, "using")
    /\ UNCHANGED <<opts, used, conn, fresh, server>>

(***************************************************************************)
(* _wait_for_connection()                                                  *)
(***************************************************************************)

\* A condition variable may wake a thread for no reason.
SpuriousWakeup(t) ==
    /\ pc[t] = "waiting"
    /\ Move(t, "woken")
    /\ UNCHANGED <<opts, used, pool, conn, held, fresh, server>>

\* Mutant: every wakeup starts the whole wait_timeout anew.
Timeout_restarts(t) ==
    /\ TimedWait
    /\ pc[t] = "waiting"
    /\ Move(t, "timedout")
    /\ UNCHANGED <<opts, used, pool, conn, held, fresh, server>>

\* The deadline of wait_for passes, before or after a notification.
Timeout(t) ==
    /\ TimedWait
    /\ pc[t] \in {"waiting", "woken"}
    /\ Move(t, "timedout")
    /\ UNCHANGED <<opts, used, pool, conn, held, fresh, server>>

\* Someone else took the connection first: wait again.
WaitAgain(t) ==
    /\ pc[t] = "woken"
    /\ pool = <<>>
    /\ Move(t, "waiting")
    /\ UNCHANGED <<opts, used, pool, conn, held, fresh, server>>

\* "Failed to fetch a connection in ... milliseconds".
ThrowTimeout(t) ==
    /\ pc[t] = "timedout"
    /\ pool = <<>>
    /\ Move(t, "out")
    /\ UNCHANGED <<opts, used, pool, conn, held, fresh, server>>

(***************************************************************************)
(* fetch(), after the mutex is unlocked                                    *)
(***************************************************************************)

\* Without a sentinel the connection reconnects to the address it has.
Reconnect(t) ==
    /\ ~SentinelMode
    /\ pc[t] = "connecting"
    /\ conn' = [conn EXCEPT ![held[t]].link = "ok"]
    /\ Move(t, "using")
    /\ UNCHANGED <<opts, used, pool, held, fresh, server>>

\* Mutant: the connection reconnects to its own address in this mode, too.
AskSentinel_notAsked(t) ==
    /\ SentinelMode
    /\ pc[t] = "connecting"
    /\ \E h \in Hosts :
          /\ h = IF held[t] # 0 /\ conn[held[t]].host # NoHost THEN conn[held[t]].host ELSE server
          /\ fresh' = [fresh EXCEPT ![t] = [host |-> h, link |-> "ok"]]
    /\ Move(t, "created")
    /\ UNCHANGED <<opts, used, pool, conn, held, server>>

\* With one, sentinel.create() looks the address up, connects and checks the
\* role, all of it without the mutex.
AskSentinel(t) ==
    /\ SentinelMode
    /\ pc[t] = "connecting"
    /\ fresh' = [fresh EXCEPT ![t] = [host |-> server, link |-> "ok"]]
    /\ Move(t, "created")
    /\ UNCHANGED <<opts, used, pool, conn, held, server>>

\* Second critical section, of _create(): the answer becomes the pool's
\* address. fetch() returns the new connection in place of the old one,
\* create() returns it to a caller that keeps it outside of the pool.
Adopt(t) ==
    /\ pc[t] = "created"
    /\ opts' = fresh[t].host
    /\ fresh' = [fresh EXCEPT ![t] = Dummy(NoHost)]
    /\ IF held[t] # 0
       THEN /\ conn' = [conn EXCEPT ![held[t]] = fresh[t]]
            /\ Move(t, "using")
       ELSE /\ Move(t, "out")
            /\ UNCHANGED conn
    /\ UNCHANGED <<used, pool, held, server>>

\* Mutant: fetch() lets the error out without giving the connection back.
ConnectFails_leaks(t) ==
    /\ pc[t] = "connecting"
    /\ held' = [held EXCEPT ![t] = 0]
    /\ Move(t, "out")
    /\ UNCHANGED <<opts, used, pool, conn, fresh, server>>

\* Connecting failed. fetch() catches the error to give the connection back,
\* as it was; create() has none to give back.
ConnectFails(t) ==
    /\ pc[t] = "connecting"
    /\ Move(t, IF held[t] # 0 THEN "failed" ELSE "out")
    /\ UNCHANGED <<opts, used, pool, conn, held, fresh, server>>

\* create(): a connection of its own for a Subscriber. Without a sentinel it
\* changes nothing in the pool.
Create(t) ==
    /\ SentinelMode
    /\ pc[t] = "out"
    /\ Move(t, "connecting")
    /\ UNCHANGED <<opts, used, pool, conn, held, fresh, server>>

(***************************************************************************)
(* SafeConnection and GuardedConnection: use, then release()               *)
(***************************************************************************)

\* A command is sent and its reply received; on a link whose peer is gone that
\* fails, on any other it may.
Execute(t) ==
    /\ pc[t] \in {"using", "used"}
    /\ conn[held[t]].link # "broken"
    /\ Move(t, "used")
    /\ \/ /\ conn[held[t]].link = "ok"
          /\ UNCHANGED conn
       \/ conn' = [conn EXCEPT ![held[t]].link = "broken"]
    /\ UNCHANGED <<opts, used, pool, held, fresh, server>>

\* Mutant: the handler of fetch() puts the connection back and tells nobody.
Release_silentAfterError(t) ==
    /\ pc[t] \in {"using", "used", "failed"}
    /\ pool' = Append(pool, held[t])
    /\ held' = [held EXCEPT ![t] = 0]
    /\ Move(t, IF pc[t] = "failed" THEN "out" ELSE "notifying")
    /\ UNCHANGED <<opts, used, conn, fresh, server>>

\* release(), its critical section: from the destructor, or from the handler
\* of fetch().
Release(t) ==
    /\ pc[t] \in {"using", "used", "failed"}
    /\ pool' = Append(pool, held[t])
    /\ held' = [held EXCEPT ![t] = 0]
    /\ Move(t, "notifying")
    /\ UNCHANGED <<opts, used, conn, fresh, server>>

\* _cv.notify_one(), after the mutex was unlocked.
Notify(t) ==
    /\ pc[t] = "notifying"
    /\ \/ /\ \A w \in Threads : pc[w] # "waiting"
          /\ Move(t, "out")
       \/ \E w \in Threads :
             /\ pc[w] = "waiting"
             /\ pc' = [pc EXCEPT ![t] = "out", ![w] = "woken"]
    /\ UNCHANGED <<opts, used, pool, conn, held, fresh, server>>

(***************************************************************************)
(* The servers                                                             *)
(***************************************************************************)
Cut(k) == IF k.link = "ok" THEN [k EXCEPT !.link = "dead"] ELSE k

\* The peer of a connection closes it, and nobody here notices yet.
PeerCloses(c) ==
    /\ conn[c].link = "ok"
    /\ conn' = [conn EXCEPT ![c] = Cut(@)]
    /\ UNCHANGED <<opts, used, pool, pc, held, fresh, server>>

\* A failover: another node takes over and the demoted one drops its clients.
Failover(h) ==
    /\ SentinelMode
    /\ h # server
    /\ server' = h
    /\ conn' = [c \in Slots |-> IF conn[c].host = server THEN Cut(conn[c]) ELSE conn[c]]
    /\ fresh' = [t \in Threads |-> Cut(fresh[t])]
    /\ UNCHANGED <<opts, used, pool, pc, held>>

-----------------------------------------------------------------------------
FetchBegins(t) == pc[t] = "out" /\ (FetchNew(t) \/ FetchWait(t) \/ FetchIdle(t))

Step(t) ==
    \/ FetchNew(t) \/ FetchWait(t) \/ FetchIdle(t)
    \/ SpuriousWakeup(t) \/ Timeout(t) \/ WaitAgain(t) \/ ThrowTimeout(t)
    \/ Reconnect(t) \/ AskSentinel(t) \/ Adopt(t) \/ ConnectFails(t) \/ Create(t)
    \/ Execute(t) \/ Release(t) \/ Notify(t)

Next ==
    \/ \E t \in Threads : Step(t)
    \/ \E c \in Slots : PeerCloses(c)
    \/ \E h \in Hosts : Failover(h)

Spec == Init /\ [][Next]_vars

\* A thread that can go on inside of the pool does: it gets the mutex, connect
\* and socket timeouts bound its network calls, its deadline passes, and it
\* destroys the SafeConnection it has. Nothing makes a thread begin a fetch.
Fairness ==
    \A t \in Threads :
        /\ WF_vars(pc[t] \in {"woken", "timedout"} /\ (FetchIdle(t) \/ WaitAgain(t) \/ ThrowTimeout(t)))
        /\ WF_vars(Timeout(t))
        /\ WF_vars(Reconnect(t) \/ AskSentinel(t) \/ ConnectFails(t))
        /\ WF_vars(Adopt(t))
        /\ WF_vars(Release(t))
        /\ WF_vars(Notify(t))

FairSpec == Spec /\ Fairness

-----------------------------------------------------------------------------
(***************************************************************************)
(* Safety                                                                  *)
(***************************************************************************)
Elements(s) == {s[i] : i \in DOMAIN s}
Idle == Elements(pool)

\* The threads on their way to look at the pool, or to send a thread there.
Coming == {t \in Threads : pc[t] \in {"notifying", "woken", "timedout"}}

\* Every connection counted by _used_connections is idle in the pool or with
\* exactly one thread, and never both: no path through fetch(), its error
\* handlers and release() loses a connection, returns it twice or lends it to
\* two threads.
Conservation ==
    /\ \A i, j \in DOMAIN pool : pool[i] = pool[j] => i = j
    /\ \A t, u \in Threads : held[t] # 0 /\ held[t] = held[u] => t = u
    /\ \A t \in Threads : held[t] \notin Idle
    /\ \A c \in Slots : c <= used <=> (c \in Idle \/ \E t \in Threads : held[t] = c)

\* What SafeConnection and GuardedConnection assert (connection_pool.h): the
\* connection fetch() returns is not broken. It is checked while the thread has
\* not used it yet.
FetchedNotBroken ==
    \A t \in Threads : pc[t] = "using" => held[t] # 0 /\ conn[held[t]].link # "broken"

\* A waiter sleeps next to an idle connection only while somebody is on the
\* way to it: for each idle connection there is a release that has still to
\* notify, or a thread out of the wait set that has still to look at the pool.
NoLostWakeup ==
    (\E t \in Threads : pc[t] = "waiting") =>
        Len(pool) <= Cardinality(Coming)

(***************************************************************************)
(* Liveness                                                                *)
(***************************************************************************)

\* With a wait_timeout, every fetch() that waits returns, or throws, however
\* many other threads take connections away from it.
WaitEnds ==
    \A t \in Threads : pc[t] = "waiting" ~> pc[t] \in {"connecting", "using", "out"}

\* Without one ("0ms means client waits forever") a waiter may starve, but
\* only if other threads never stop beginning new fetches.
ServedUnlessOvertaken ==
    \/ []<><<\E t \in Threads : FetchBegins(t)>>_vars
    \/ \A t \in Threads : pc[t] = "waiting" ~> pc[t] \in {"connecting", "using"}

\* After the last failover the pool heals: from some moment on, commands run
\* only on connections to the node that took over, although answers of the
\* sentinel may have been adopted in the wrong order.
FailoverHeals ==
    \/ []<><<\E h \in Hosts : Failover(h)>>_vars
    \/ <>[](\A t \in Threads : pc[t] = "used" => conn[held[t]].host = server)

(***************************************************************************)
(* The pool implements SlotPool                                            *)
(***************************************************************************)
OwnerOf(c) ==
    IF \E t \in Threads : held[t] = c THEN CHOOSE t \in Threads : held[t] = c
    ELSE IF c \in Idle THEN "free" ELSE "unborn"

owned == [c \in Slots |-> OwnerOf(c)]

Slot == INSTANCE SlotPool WITH Unborn <- "unborn", Free <- "free", owner <- owned

\* Every behaviour of the pool is one of SlotPool: lazily created connections,
\* the wait queue, reconnecting outside of the mutex and the error handlers of
\* fetch() never show as anything but a connection lent and given back.
ImplementsSlotPool == Slot!SlotSpec
=============================================================================
