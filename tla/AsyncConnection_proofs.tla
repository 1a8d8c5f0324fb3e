---------------------- MODULE AsyncConnection_proofs -----------------------
(***************************************************************************)
(* Proofs, for any connections, events and options, of the safety          *)
(* properties of AsyncConnection; and, in the second half, of the safety   *)
(* halves of what AsyncConnectionPool promises in the end.                 *)
(***************************************************************************)
EXTENDS AsyncConnection, AsyncConnectionPool, FiniteSetTheorems, TLAPS

\* When the application has let go of the loop, none of its calls is under
\* way, and it had given up every connection.
AppGone ==
    /\ ~appRef => /\ \A c \in Conns : adding[c] = {}
                  /\ notifying = 0
                  /\ tasks = {}
                  /\ retired = Conns
    /\ stopping \/ lpc = "ended" \/ dtor # "none" => ~appRef

\* Where the loop's thread is.
ThreadInv ==
    /\ lpc \in {"poll", "ended"} => batch = {} /\ byes = NoByes
    /\ lpc = "ended" => commands = {} /\ goodbyes = NoByes
    /\ dtor \in {"draining", "done"} => lpc = "ended"

\* What is in the sets of the loop wakes its thread up.
SetsInv ==
    \A c \in Conns : c \in commands \/ goodbyes[c] # "no" => notifying > 0 \/ wake \/ stopping

\* A connection that was given up is disconnected, or is going to be; one that
\* has no address waits for the sentinel, or is going to be disconnected.
Leaving(c) == goodbyes[c] # "no" \/ byes[c] # "no"

LeavingInv ==
    \A c \in Conns :
        /\ c \in retired => Leaving(c) \/ state[c] = "BROKEN"
        /\ host[c] => c \notin tasks
        /\ state[c] = "WAIT_SENTINEL" /\ ~host[c] => c \in tasks \/ Leaving(c)

\* How the state of a connection, its context and its handshake belong together.
ConnOK(c) ==
    /\ ptr[c] <=> ctx[c] \in {"connecting", "up"}
    /\ ptr[c] <=> state[c] \in {"CONNECTING", "READY"} \cup Handshake
    /\ ctx[c] = "connecting" <=> state[c] = "CONNECTING"
    /\ asked[c] \cup sent[c] # {} => ctx[c] \in {"up", "closing"}
    /\ sent[c] # {} \/ state[c] = "READY" => agreed[c] = Needs
    /\ state[c] \in {"NOT_CONNECTED", "WAIT_SENTINEL"} => ctx[c] = "none"
    /\ state[c] \in {"NOT_CONNECTED", "WAIT_SENTINEL", "CONNECTING"} => agreed[c] = {}
    /\ state[c] = "READY" => asked[c] = {}
    /\ state[c] \in Handshake => /\ asked[c] = {state[c]}
                                 /\ sent[c] = {}
                                 /\ agreed[c] = {n \in Needs : Pos[n] < Pos[state[c]]}
    /\ cur = c => state[c] = "NOT_CONNECTED"

ConnInv == \A c \in Conns : ConnOK(c)

\* NobodySleeps, where only a connection without an address waits for the
\* sentinel.
SleepInv ==
    \A c \in Conns :
        queue[c] # {} => \/ Announced(c)
                         \/ cur = c
                         \/ state[c] \in {"CONNECTING"} \cup Handshake
                         \/ state[c] = "WAIT_SENTINEL" /\ c \in tasks

IInv ==
    /\ TypeOK /\ AppGone /\ ThreadInv /\ SetsInv /\ LeavingInv
    /\ ConnInv /\ CompletedOnce /\ SleepInv

-----------------------------------------------------------------------------
(* The order of the handshake.                                             *)

Begun == {"CONNECTING"} \cup Handshake

\* After(s) is there, and what is asked next comes before all that is left.
LEMMA AfterFacts ==
    ASSUME NEW s \in Begun
    PROVE  /\ Follows(s, After(s))
           /\ \A m \in Needs : Follows(s, m) => Pos[After(s)] <= Pos[m]
<1> DEFINE First(n) == Follows(s, n) /\ \A m \in Needs : Follows(s, m) => Pos[n] <= Pos[m]
<1> USE AsyncAssumption DEF Handshake, Follows, Pos, Begun
<1>1. CASE Follows(s, "AUTHING")
  <2> First("AUTHING") BY <1>1
  <2> QED BY DEF After
<1>2. CASE ~Follows(s, "AUTHING") /\ Follows(s, "SET_RESP")
  <2> First("SET_RESP") BY <1>2
  <2> QED BY DEF After
<1>3. CASE /\ ~Follows(s, "AUTHING") /\ ~Follows(s, "SET_RESP")
           /\ Follows(s, "SET_NAME")
  <2> First("SET_NAME") BY <1>3
  <2> QED BY DEF After
<1>4. CASE /\ ~Follows(s, "AUTHING") /\ ~Follows(s, "SET_RESP") /\ ~Follows(s, "SET_NAME")
           /\ Follows(s, "SELECTING_DB")
  <2> First("SELECTING_DB") BY <1>4
  <2> QED BY DEF After
<1>5. CASE /\ ~Follows(s, "AUTHING") /\ ~Follows(s, "SET_RESP") /\ ~Follows(s, "SET_NAME")
           /\ ~Follows(s, "SELECTING_DB")
           /\ Follows(s, "ENABLE_READONLY")
  <2> First("ENABLE_READONLY") BY <1>5
  <2> QED BY DEF After
<1>6. CASE \A m \in Handshake : ~Follows(s, m)
  <2> First("READY") BY <1>6
  <2> QED BY DEF After
<1> QED BY <1>1, <1>2, <1>3, <1>4, <1>5, <1>6

\* When After(s) is asked, the server has agreed to what comes before it.
LEMMA AfterAgreed ==
    ASSUME NEW s \in Begun
    PROVE  /\ After(s) \in Needs \cup {"READY"} /\ After(s) # s
           /\ After(s) \in Needs =>
                {m \in Needs : Pos[m] < Pos[After(s)]} = {m \in Needs : Pos[m] < Pos[s]} \cup ({s} \cap Needs)
           /\ After(s) = "READY" => Needs = {m \in Needs : Pos[m] < Pos[s]} \cup ({s} \cap Needs)
<1>1. Follows(s, After(s)) /\ \A m \in Needs : Follows(s, m) => Pos[After(s)] <= Pos[m]
  BY AfterFacts
<1>2. After(s) \in Needs \cup {"READY"} /\ Pos[s] < Pos[After(s)]
  BY <1>1 DEF Follows
<1>3. \A n \in Begun \cup {"READY"} : Pos[n] \in Nat
  BY DEF Pos, Begun, Handshake
<1>5. ASSUME NEW m \in Needs
      PROVE  Pos[m] < Pos[After(s)] <=> Pos[m] < Pos[s] \/ m = s
  <2>1. Pos[m] = Pos[s] => m = s
    BY AsyncAssumption DEF Pos, Begun, Handshake
  <2>2. Pos[s] < Pos[m] => Pos[After(s)] <= Pos[m]
    BY <1>1 DEF Follows
  <2>3. Pos[m] \in Nat /\ Pos[s] \in Nat /\ Pos[After(s)] \in Nat
    BY <1>2, <1>3, AsyncAssumption DEF Begun
  <2> QED BY <1>2, <2>1, <2>2, <2>3
<1>6. After(s) # s
  BY <1>2, <1>3
<1>4. After(s) = "READY" => \A m \in Needs : Pos[m] < Pos[After(s)]
  BY AsyncAssumption DEF Pos, Handshake
<1> QED BY <1>2, <1>4, <1>5, <1>6

-----------------------------------------------------------------------------
(* Types.                                                                  *)

LEMMA InitIInv == Init => IInv
<1> SUFFICES ASSUME Init PROVE IInv
  OBVIOUS
<1> USE AsyncAssumption DEF Init, NoByes
<1>1. TypeOK
  BY DEF TypeOK, States, Byes
<1>2. AppGone /\ ThreadInv /\ SetsInv /\ LeavingInv
  BY DEF AppGone, ThreadInv, SetsInv, LeavingInv
<1>3. ConnInv
  BY DEF ConnInv, ConnOK, Handshake
<1>4. CompletedOnce
  BY DEF CompletedOnce, Pending
<1>5. SleepInv
  BY DEF SleepInv
<1> QED BY <1>1, <1>2, <1>3, <1>4, <1>5 DEF IInv

\* What TypeOK says of the variables that callbacks change.
ConnTypes ==
    /\ state \in [Conns -> States]
    /\ ptr \in [Conns -> BOOLEAN]
    /\ queue \in [Conns -> SUBSET Events] /\ sent \in [Conns -> SUBSET Events]
    /\ ctx \in [Conns -> {"none", "connecting", "up", "closing"}]
    /\ asked \in [Conns -> SUBSET Needs]
    /\ completed \in [Events -> Nat]

LEMMA CompleteTypes ==
    ASSUME ConnTypes, NEW S, Complete(S)
    PROVE  completed' \in [Events -> Nat]
BY DEF Complete, ConnTypes

LEMMA FailEventsTypes ==
    ASSUME ConnTypes, NEW C, FailEvents(C)
    PROVE  state' \in [Conns -> States] /\ ptr' \in [Conns -> BOOLEAN] /\ queue' \in [Conns -> SUBSET Events]
BY DEF FailEvents, ConnTypes, States

LEMMA DisconnectTypes ==
    ASSUME ConnTypes, NEW C, Disconnect(C)
    PROVE  /\ state' \in [Conns -> States] /\ ptr' \in [Conns -> BOOLEAN] /\ queue' \in [Conns -> SUBSET Events]
           /\ ctx' \in [Conns -> {"none", "connecting", "up", "closing"}]
BY FailEventsTypes DEF Disconnect, ConnTypes

LEMMA SendTypes ==
    ASSUME ConnTypes, NEW c \in Conns, Send(c), asked' \in [Conns -> SUBSET Needs]
    PROVE  ConnTypes'
<1>1. CASE /\ sent' = [sent EXCEPT ![c] = @ \cup queue[c]]
           /\ queue' = [queue EXCEPT ![c] = {}]
           /\ state' = [state EXCEPT ![c] = "READY"]
           /\ ctx' = [ctx EXCEPT ![c] = "up"]
           /\ UNCHANGED <<ptr, completed>>
  BY <1>1 DEF ConnTypes, States
<1>2. ASSUME NEW S \in SUBSET queue[c], sent' = [sent EXCEPT ![c] = @ \cup S],
             Complete(queue[c] \ S), Disconnect({c})
      PROVE  ConnTypes'
  BY <1>2, DisconnectTypes, CompleteTypes DEF ConnTypes
<1> QED BY <1>1, <1>2 DEF Send

LEMMA ProceedTypes ==
    ASSUME ConnTypes, NEW c \in Conns, state[c] \in Begun \cup {"BROKEN"}, Proceed(c)
    PROVE  ConnTypes'
<1>1. CASE asked' = [asked EXCEPT ![c] = {}] /\ Send(c)
  BY <1>1, SendTypes DEF ConnTypes
<1>2. CASE UNCHANGED <<state, ptr, queue, ctx, sent, completed>> /\ asked' = [asked EXCEPT ![c] = {}]
  BY <1>2 DEF ConnTypes
<1>3. CASE /\ asked' = [asked EXCEPT ![c] = {}] /\ UNCHANGED sent
           /\ Disconnect({c}) /\ Complete(queue[c])
  BY <1>3, DisconnectTypes, CompleteTypes DEF ConnTypes
<1>4. ASSUME state[c] \in Begun, After(state[c]) # "READY",
             asked' = [asked EXCEPT ![c] = {After(state[c])}],
             state' = [state EXCEPT ![c] = After(state[c])],
             ctx' = [ctx EXCEPT ![c] = "up"],
             UNCHANGED <<ptr, queue, sent, completed>>
      PROVE  ConnTypes'
  <2>1. After(state[c]) \in Needs /\ After(state[c]) \in States
    BY <1>4, AfterAgreed, AsyncAssumption DEF States
  <2> QED BY <1>4, <2>1 DEF ConnTypes
<1> QED BY <1>1, <1>2, <1>3, <1>4 DEF Proceed

AppTypes ==
    /\ unsent \subseteq Events
    /\ adding \in [Conns -> SUBSET (Events \cup {Sentinel})]
    /\ notifying \in Nat
    /\ retired \subseteq Conns /\ tasks \subseteq Conns
    /\ appRef \in BOOLEAN

LoopTypes ==
    /\ commands \subseteq Conns /\ batch \subseteq Conns
    /\ wake \in BOOLEAN /\ stopping \in BOOLEAN
    /\ goodbyes \in [Conns -> Byes] /\ byes \in [Conns -> Byes]
    /\ lpc \in {"poll", "batch", "locked", "ended"}
    /\ cur \in Conns \cup {NoConn}
    /\ lpc = "locked" <=> cur # NoConn
    /\ dtor \in {"none", "joining", "draining", "done", "terminated"}

OtherTypes ==
    /\ host \in [Conns -> BOOLEAN]
    /\ agreed \in [Conns -> SUBSET Needs]

LEMMA TypeParts == TypeOK <=> AppTypes /\ LoopTypes /\ ConnTypes /\ OtherTypes
BY DEF TypeOK, AppTypes, LoopTypes, ConnTypes, OtherTypes

LEMMA CalledTypes ==
    ASSUME LoopTypes, NEW c \in Conns, Called(c)
    PROVE  batch' \subseteq Conns /\ byes' \in [Conns -> Byes]
BY DEF LoopTypes, Called, Byes

\* A command of the handshake is answered in its state, or too late.
LEMMA AnsweredIn ==
    ASSUME TypeOK, ConnInv, NEW c \in Conns
    PROVE  /\ asked[c] # {} => state[c] \in Handshake \cup {"BROKEN"}
           /\ ctx[c] = "connecting" => state[c] = "CONNECTING"
BY DEF TypeOK, ConnInv, ConnOK, States

\* Steps of the application.
LEMMA TypeOfApplication ==
    ASSUME TypeOK, Application
    PROVE  TypeOK'
<1>1. ASSUME NEW e \in Events, NEW c \in Conns, Push(e, c)
      PROVE  TypeOK'
  <2>1. AppTypes' BY <1>1, TypeParts DEF Push, AppTypes
  <2>2. LoopTypes' BY <1>1, TypeParts DEF Push, LoopTypes, loopVars, setVars, threadVars
  <2>3. ConnTypes' /\ OtherTypes' BY <1>1, TypeParts DEF Push, ConnTypes, OtherTypes, hiredisVars
  <2> QED BY <2>1, <2>2, <2>3, TypeParts, PTL
<1>2. ASSUME NEW c \in Conns, SentinelAnswers(c)
      PROVE  TypeOK'
  <2>1. AppTypes' BY <1>2, TypeParts DEF SentinelAnswers, AppTypes
  <2>2. LoopTypes' BY <1>2, TypeParts DEF SentinelAnswers, LoopTypes, loopVars, setVars, threadVars
  <2>3. ConnTypes' /\ OtherTypes' BY <1>2, TypeParts DEF SentinelAnswers, ConnTypes, OtherTypes, hiredisVars
  <2> QED BY <2>1, <2>2, <2>3, TypeParts, PTL
<1>3. ASSUME NEW c \in Conns, SentinelFails(c) \/ Retire(c)
      PROVE  TypeOK'
  <2>1. AppTypes' BY <1>3, TypeParts DEF SentinelFails, Retire, Unwatch, AppTypes
  <2>2. LoopTypes' BY <1>3, TypeParts DEF SentinelFails, Retire, Unwatch, LoopTypes, threadVars, Byes
  <2>3. ConnTypes' /\ OtherTypes'
    BY <1>3, TypeParts DEF SentinelFails, Retire, Unwatch, ConnTypes, OtherTypes, connVars, hiredisVars
  <2> QED BY <2>1, <2>2, <2>3, TypeParts, PTL
<1>4. ASSUME NEW c \in Conns, Add(c)
      PROVE  TypeOK'
  <2>1. AppTypes' BY <1>4, TypeParts DEF Add, AppTypes
  <2>2. LoopTypes' BY <1>4, TypeParts DEF Add, LoopTypes, threadVars
  <2>3. ConnTypes' /\ OtherTypes' BY <1>4, TypeParts DEF Add, ConnTypes, OtherTypes, connVars, hiredisVars
  <2> QED BY <2>1, <2>2, <2>3, TypeParts, PTL
<1>5. CASE Notify \/ ReleaseLoop
  <2>1. AppTypes'
    <3>1. CASE Notify BY <3>1, TypeParts DEF Notify, AppTypes
    <3>2. CASE ReleaseLoop BY <3>2, TypeParts DEF ReleaseLoop, AppTypes
    <3> QED BY <1>5, <3>1, <3>2
  <2>2. LoopTypes' BY <1>5, TypeParts DEF Notify, ReleaseLoop, LoopTypes, setVars, threadVars
  <2>3. ConnTypes' /\ OtherTypes'
    BY <1>5, TypeParts DEF Notify, ReleaseLoop, ConnTypes, OtherTypes, connVars, hiredisVars
  <2> QED BY <2>1, <2>2, <2>3, TypeParts, PTL
<1> QED BY <1>1, <1>2, <1>3, <1>4, <1>5 DEF Application

\* Steps of the loop's thread.
LEMMA TypeOfLoopThread ==
    ASSUME TypeOK, LoopThread
    PROVE  TypeOK'
<1>1. CASE WakeUp \/ BatchEnds
  <2>1. AppTypes' BY <1>1, TypeParts DEF WakeUp, BatchEnds, AppTypes, appVars
  <2>2. LoopTypes' BY <1>1, TypeParts DEF WakeUp, BatchEnds, LoopTypes, setVars, NoByes, Byes
  <2>3. ConnTypes' /\ OtherTypes'
    BY <1>1, TypeParts DEF WakeUp, BatchEnds, ConnTypes, OtherTypes, connVars, hiredisVars
  <2> QED BY <2>1, <2>2, <2>3, TypeParts, PTL
<1>2. CASE StopCallback
  <2>1. AppTypes' BY <1>2, TypeParts DEF StopCallback, AppTypes, appVars
  <2>2. LoopTypes' BY <1>2, TypeParts DEF StopCallback, LoopTypes, NoByes, Byes
  <2>3. PICK C : Disconnect(C) /\ Complete(Queued(C))
    BY <1>2 DEF StopCallback
  <2>4. ConnTypes' /\ OtherTypes'
    BY <1>2, <2>3, DisconnectTypes, CompleteTypes, TypeParts DEF StopCallback, ConnTypes, OtherTypes
  <2> QED BY <2>1, <2>2, <2>4, TypeParts, PTL
<1>3. ASSUME NEW c \in Conns, CallEarly(c)
      PROVE  TypeOK'
  <2>1. AppTypes' BY <1>3, TypeParts DEF CallEarly, AppTypes, appVars
  <2>2. LoopTypes' BY <1>3, TypeParts, CalledTypes DEF CallEarly, LoopTypes, setVars
  <2>3. ConnTypes' /\ OtherTypes' BY <1>3, TypeParts DEF CallEarly, ConnTypes, OtherTypes, connVars, hiredisVars
  <2> QED BY <2>1, <2>2, <2>3, TypeParts, PTL
<1>4. ASSUME NEW c \in Conns, CallReady(c)
      PROVE  TypeOK'
  <2>1. AppTypes' BY <1>4, TypeParts DEF CallReady, AppTypes, appVars
  <2>2. LoopTypes' BY <1>4, TypeParts, CalledTypes DEF CallReady, LoopTypes, setVars
  <2>3. asked' \in [Conns -> SUBSET Needs] /\ OtherTypes'
    BY <1>4, TypeParts DEF CallReady, ConnTypes, OtherTypes
  <2>4. ConnTypes' BY <1>4, <2>3, SendTypes, TypeParts DEF CallReady
  <2> QED BY <2>1, <2>2, <2>3, <2>4, TypeParts, PTL
<1>5. ASSUME NEW c \in Conns, CallBroken(c)
      PROVE  TypeOK'
  <2>1. AppTypes' BY <1>5, TypeParts DEF CallBroken, AppTypes, appVars
  <2>2. LoopTypes' BY <1>5, TypeParts, CalledTypes DEF CallBroken, LoopTypes, setVars
  <2>3. ConnTypes' /\ OtherTypes'
    BY <1>5, TypeParts, CompleteTypes DEF CallBroken, ConnTypes, OtherTypes, hiredisVars
  <2> QED BY <2>1, <2>2, <2>3, TypeParts, PTL
<1>6. ASSUME NEW c \in Conns, ConnectBegins(c)
      PROVE  TypeOK'
  <2>1. AppTypes' BY <1>6, TypeParts DEF ConnectBegins, AppTypes, appVars
  <2>2. LoopTypes' BY <1>6, TypeParts, CalledTypes, AsyncAssumption DEF ConnectBegins, LoopTypes, setVars
  <2>3. ConnTypes' /\ OtherTypes'
    BY <1>6, TypeParts, FailEventsTypes, CompleteTypes
       DEF ConnectBegins, ConnTypes, OtherTypes, hiredisVars, States
  <2> QED BY <2>1, <2>2, <2>3, TypeParts, PTL
<1>7. ASSUME NEW c \in Conns, ConnectEnds(c)
      PROVE  TypeOK'
  <2>1. AppTypes' BY <1>7, TypeParts DEF ConnectEnds, AppTypes, appVars
  <2>2. LoopTypes' BY <1>7, TypeParts, CalledTypes, AsyncAssumption DEF ConnectEnds, LoopTypes, setVars
  <2>3. ConnTypes' /\ OtherTypes'
    BY <1>7, TypeParts, FailEventsTypes, CompleteTypes DEF ConnectEnds, ConnTypes, OtherTypes, States
  <2> QED BY <2>1, <2>2, <2>3, TypeParts, PTL
<1>8. ASSUME NEW c \in Conns, Goodbye(c)
      PROVE  TypeOK'
  <2>1. AppTypes' BY <1>8, TypeParts DEF Goodbye, AppTypes, appVars
  <2>2. LoopTypes' BY <1>8, TypeParts DEF Goodbye, LoopTypes, setVars, Byes
  <2>3. ConnTypes' /\ OtherTypes'
    BY <1>8, TypeParts, DisconnectTypes, CompleteTypes DEF Goodbye, ConnTypes, OtherTypes
  <2> QED BY <2>1, <2>2, <2>3, TypeParts, PTL
<1> QED BY <1>1, <1>2, <1>3, <1>4, <1>5, <1>6, <1>7, <1>8 DEF LoopThread

\* Callbacks of hiredis, and the end of the destructor.
LEMMA TypeOfCallbacks ==
    ASSUME TypeOK, ConnInv, NEW c \in Conns, Awaited(c) \/ Lost(c)
    PROVE  TypeOK'
<1> USE TypeParts DEF loopVars, setVars, threadVars, appVars
<1> DEFINE Kept == UNCHANGED <<appVars, loopVars, host>>
<1>1. Kept => AppTypes' /\ LoopTypes' /\ host' \in [Conns -> BOOLEAN]
  BY DEF AppTypes, LoopTypes, OtherTypes
<1>2. CASE ConnectSucceeds(c) \/ HandshakeAccepted(c)
  <2>1. Kept /\ agreed' \in [Conns -> SUBSET Needs]
    BY <1>2 DEF ConnectSucceeds, HandshakeAccepted, OtherTypes, ConnTypes
  <2>2. state[c] \in Begun \cup {"BROKEN"} /\ Proceed(c)
    BY <1>2, AnsweredIn DEF ConnectSucceeds, HandshakeAccepted, Begun
  <2>3. ConnTypes' BY <2>2, ProceedTypes
  <2> HIDE DEF Kept
  <2> QED BY <1>1, <2>1, <2>3 DEF OtherTypes, TypeOK, AppTypes, LoopTypes, ConnTypes
<1>3. ASSUME Awaited(c) \/ Lost(c), ~ConnectSucceeds(c), ~HandshakeAccepted(c)
      PROVE  Kept /\ UNCHANGED agreed /\ ConnTypes'
  <2>1. CASE ConnectFails(c)
    BY <2>1, FailEventsTypes, CompleteTypes DEF ConnectFails, ConnTypes
  <2>2. CASE HandshakeRejected(c)
    BY <2>2, DisconnectTypes, CompleteTypes DEF HandshakeRejected, ConnTypes
  <2>3. ASSUME NEW e \in Events, Reply(c, e)
        PROVE  Kept /\ UNCHANGED agreed /\ ConnTypes'
    BY <2>3, CompleteTypes DEF Reply, ConnTypes
  <2>4. CASE Close(c)
    BY <2>4 DEF Close, ConnTypes
  <2>5. CASE Lost(c)
    BY <2>5, FailEventsTypes, CompleteTypes DEF Lost, ConnTypes
  <2> QED BY <1>3, <2>1, <2>2, <2>3, <2>4, <2>5 DEF Awaited
<1>4. CASE ~ConnectSucceeds(c) /\ ~HandshakeAccepted(c)
  BY <1>1, <1>3, <1>4 DEF OtherTypes, TypeOK, AppTypes, LoopTypes, ConnTypes
<1> QED BY <1>2, <1>4

LEMMA TypeOfDestructor ==
    ASSUME TypeOK, Joined \/ Destroyed
    PROVE  TypeOK'
<1>1. AppTypes'
  BY TypeParts DEF Joined, Destroyed, AppTypes, appVars
<1>2. LoopTypes'
  BY TypeParts DEF Joined, Destroyed, LoopTypes, setVars, threadVars, NoByes, Byes
<1>3. ConnTypes' /\ OtherTypes'
  BY TypeParts, CompleteTypes DEF Joined, Destroyed, ConnTypes, OtherTypes, connVars, hiredisVars
<1> QED BY <1>1, <1>2, <1>3, TypeParts, PTL

LEMMA TypeStep == TypeOK /\ ConnInv /\ [Next]_vars => TypeOK'
<1> SUFFICES ASSUME TypeOK, ConnInv, [Next]_vars PROVE TypeOK'
  OBVIOUS
<1>1. CASE UNCHANGED vars
  BY <1>1 DEF TypeOK, vars, appVars, loopVars, setVars, threadVars, connVars, hiredisVars
<1> QED BY <1>1, TypeOfApplication, TypeOfLoopThread, TypeOfCallbacks, TypeOfDestructor DEF Next

-----------------------------------------------------------------------------
(* The application and the loop.                                           *)

LEMMA CallbacksKeep ==
    ASSUME NEW c \in Conns, Awaited(c) \/ Lost(c)
    PROVE  UNCHANGED <<appVars, loopVars, host>>
BY DEF Awaited, Lost, ConnectSucceeds, ConnectFails, HandshakeAccepted, HandshakeRejected, Reply, Close

LEMMA LoopThreadKeeps ==
    ASSUME LoopThread
    PROVE  UNCHANGED <<appVars, host>>
BY DEF LoopThread, WakeUp, BatchEnds, StopCallback, CallEarly, CallReady, CallBroken, ConnectBegins,
       ConnectEnds, Goodbye, connVars

LEMMA AppGoneStep ==
    ASSUME TypeOK, AppGone, [Next]_vars
    PROVE  AppGone'
<1> USE DEF AppGone
<1>1. CASE UNCHANGED <<appVars, loopVars>>
  BY <1>1 DEF appVars, loopVars, threadVars
<1>2. CASE UNCHANGED vars
  BY <1>1, <1>2 DEF vars
<1>3. ASSUME NEW c \in Conns, Awaited(c) \/ Lost(c)
      PROVE  AppGone'
  BY <1>1, <1>3, CallbacksKeep
<1>4. CASE LoopThread
  <2>1. UNCHANGED appVars
    BY <1>4, LoopThreadKeeps
  <2> DEFINE Later == /\ stopping' => stopping
                      /\ lpc' = "ended" => lpc = "ended" \/ stopping
                      /\ dtor' # "none" => dtor # "none" \/ ~appRef
  <2>2. CASE WakeUp \/ BatchEnds \/ StopCallback
    BY <2>2, <2>1 DEF WakeUp, BatchEnds, StopCallback, appVars
  <2>3. ASSUME NEW c \in Conns, CallEarly(c) \/ CallReady(c) \/ CallBroken(c) \/ ConnectBegins(c)
                                \/ ConnectEnds(c) \/ Goodbye(c)
        PROVE  Later
    BY <2>3 DEF CallEarly, CallReady, CallBroken, ConnectBegins, ConnectEnds, Goodbye
  <2>4. CASE Later
    BY <2>1, <2>4 DEF appVars
  <2> QED BY <1>4, <2>2, <2>3, <2>4 DEF LoopThread
<1>5. CASE Joined \/ Destroyed
  BY <1>5 DEF Joined, Destroyed, appVars, threadVars
<1>6. ASSUME NEW c \in Conns, NEW e \in Events, Push(e, c)
      PROVE  AppGone'
  BY <1>6 DEF Push, loopVars, threadVars
<1>7. ASSUME NEW c \in Conns, SentinelAnswers(c) \/ SentinelFails(c) \/ Retire(c)
      PROVE  AppGone'
  BY <1>7 DEF SentinelAnswers, SentinelFails, Retire, Unwatch, loopVars, threadVars
<1>8. ASSUME NEW c \in Conns, Add(c)
      PROVE  AppGone'
  BY <1>8 DEF Add, threadVars
<1>9. CASE Notify
  BY <1>9 DEF Notify, threadVars, TypeOK
<1>10. CASE ReleaseLoop
  BY <1>10 DEF ReleaseLoop, threadVars
<1> QED BY <1>2, <1>3, <1>4, <1>5, <1>6, <1>7, <1>8, <1>9, <1>10 DEF Next, Application

LEMMA ThreadInvStep ==
    ASSUME TypeOK, AppGone, ThreadInv, [Next]_vars
    PROVE  ThreadInv'
<1> USE DEF ThreadInv, setVars, threadVars
<1>1. CASE UNCHANGED loopVars
  BY <1>1 DEF loopVars
<1>2. CASE UNCHANGED vars
  BY <1>1, <1>2 DEF vars
<1>3. ASSUME NEW c \in Conns, Awaited(c) \/ Lost(c)
      PROVE  ThreadInv'
  BY <1>1, <1>3, CallbacksKeep
<1>4. CASE WakeUp \/ BatchEnds \/ StopCallback
  BY <1>4 DEF WakeUp, BatchEnds, StopCallback
<1>5. ASSUME NEW c \in Conns, CallEarly(c) \/ CallReady(c) \/ CallBroken(c) \/ ConnectBegins(c)
                              \/ ConnectEnds(c) \/ Goodbye(c)
      PROVE  ThreadInv'
  BY <1>5 DEF CallEarly, CallReady, CallBroken, ConnectBegins, ConnectEnds, Goodbye
<1>6. CASE Joined \/ Destroyed
  BY <1>6 DEF Joined, Destroyed
<1>7. ASSUME NEW c \in Conns, Add(c) \/ SentinelFails(c) \/ Retire(c)
      PROVE  ThreadInv'
  BY <1>7 DEF Add, SentinelFails, Retire, Unwatch, AppGone
<1>8. CASE Notify \/ ReleaseLoop
  BY <1>8 DEF Notify, ReleaseLoop, AppGone
<1>9. ASSUME NEW c \in Conns, SentinelAnswers(c) \/ \E e \in Events : Push(e, c)
      PROVE  ThreadInv'
  BY <1>1, <1>9 DEF SentinelAnswers, Push
<1> QED BY <1>2, <1>3, <1>4, <1>5, <1>6, <1>7, <1>8, <1>9 DEF Next, Application, LoopThread

LEMMA SetsInvStep ==
    ASSUME TypeOK, SetsInv, AppGone, [Next]_vars
    PROVE  SetsInv'
<1> USE DEF SetsInv, setVars, NoByes
<1>1. CASE UNCHANGED <<appVars, loopVars>>
  BY <1>1 DEF appVars, loopVars
<1>2. CASE UNCHANGED vars
  BY <1>1, <1>2 DEF vars
<1>3. ASSUME NEW c \in Conns, Awaited(c) \/ Lost(c)
      PROVE  SetsInv'
  BY <1>1, <1>3, CallbacksKeep
<1>4. CASE WakeUp \/ StopCallback
  BY <1>4 DEF WakeUp, StopCallback
<1>5. CASE BatchEnds
  BY <1>5 DEF BatchEnds, appVars
<1>6. ASSUME NEW c \in Conns, CallEarly(c) \/ CallReady(c) \/ CallBroken(c) \/ ConnectBegins(c)
                              \/ ConnectEnds(c) \/ Goodbye(c)
      PROVE  SetsInv'
  BY <1>6 DEF CallEarly, CallReady, CallBroken, ConnectBegins, ConnectEnds, Goodbye, appVars
<1>7. CASE Joined \/ Destroyed
  BY <1>7 DEF Joined, Destroyed, appVars
<1>8. ASSUME NEW c \in Conns, Add(c) \/ SentinelFails(c) \/ Retire(c)
      PROVE  SetsInv'
  <2>1. notifying' > 0
    BY <1>8 DEF Add, SentinelFails, Retire, Unwatch, TypeOK
  <2> QED BY <2>1
<1>9. CASE Notify
  BY <1>9 DEF Notify
<1>10. CASE ReleaseLoop
  BY <1>10 DEF ReleaseLoop
<1>11. ASSUME NEW c \in Conns, SentinelAnswers(c) \/ \E e \in Events : Push(e, c)
      PROVE  SetsInv'
  BY <1>11 DEF SentinelAnswers, Push, loopVars
<1> QED BY <1>2, <1>3, <1>4, <1>5, <1>6, <1>7, <1>8, <1>9, <1>10, <1>11 DEF Next, Application, LoopThread

-----------------------------------------------------------------------------
(* States of connections.                                                  *)

\* A broken connection remains broken, and no other begins to wait for the
\* sentinel.
Onward(c) ==
    /\ state[c] = "BROKEN" => state'[c] = "BROKEN"
    /\ state'[c] = "WAIT_SENTINEL" => state[c] = "WAIT_SENTINEL"

LEMMA FailEventsOnward ==
    ASSUME TypeOK, NEW C, FailEvents(C), NEW d \in Conns
    PROVE  Onward(d) /\ (d \in C => state'[d] = "BROKEN")
BY DEF TypeOK, FailEvents, Onward

LEMMA SendOnward ==
    ASSUME TypeOK, NEW c \in Conns, Send(c), state[c] # "BROKEN", NEW d \in Conns
    PROVE  Onward(d)
BY FailEventsOnward DEF TypeOK, Send, Disconnect, Onward

LEMMA ProceedOnward ==
    ASSUME TypeOK, NEW c \in Conns, state[c] \in Begun \cup {"BROKEN"}, Proceed(c), NEW d \in Conns
    PROVE  Onward(d)
<1>1. CASE state[c] = "BROKEN"
  BY <1>1 DEF Proceed, Onward
<1>2. CASE state[c] # "BROKEN" /\ Send(c)
  BY <1>2, SendOnward
<1>3. CASE Disconnect({c})
  BY <1>3, FailEventsOnward DEF Disconnect
<1>4. CASE state[c] \in Begun /\ state' = [state EXCEPT ![c] = After(state[c])]
  <2>1. After(state[c]) # "WAIT_SENTINEL" /\ state[c] # "BROKEN"
    BY <1>4, AfterAgreed, AsyncAssumption DEF Begun, Handshake
  <2> QED BY <1>4, <2>1 DEF TypeOK, Onward
<1> QED BY <1>1, <1>2, <1>3, <1>4 DEF Proceed

LEMMA CallbackOnward ==
    ASSUME TypeOK, ConnInv, NEW c \in Conns, Awaited(c) \/ Lost(c), NEW d \in Conns
    PROVE  Onward(d)
<1>1. CASE ConnectSucceeds(c) \/ HandshakeAccepted(c)
  <2>1. state[c] \in Begun \cup {"BROKEN"} /\ Proceed(c)
    BY <1>1, AnsweredIn DEF ConnectSucceeds, HandshakeAccepted, Begun
  <2> QED BY <2>1, ProceedOnward
<1>2. CASE ConnectFails(c) \/ HandshakeRejected(c)
  BY <1>2, FailEventsOnward DEF ConnectFails, HandshakeRejected, Disconnect
<1>3. CASE Close(c) \/ \E e \in Events : Reply(c, e)
  BY <1>3 DEF Close, Reply, Onward
<1>4. CASE Lost(c)
  BY <1>4, FailEventsOnward DEF Lost, Onward
<1> QED BY <1>1, <1>2, <1>3, <1>4 DEF Awaited

LEMMA CallOnward ==
    ASSUME TypeOK, NEW c \in Conns, NEW d \in Conns,
           CallEarly(c) \/ CallReady(c) \/ CallBroken(c) \/ ConnectBegins(c) \/ ConnectEnds(c),
           cur = c => state[c] = "NOT_CONNECTED"
    PROVE  Onward(d)
<1>1. CASE CallEarly(c) \/ CallBroken(c)
  BY <1>1 DEF CallEarly, CallBroken, connVars, Onward
<1>2. CASE CallReady(c)
  BY <1>2, SendOnward DEF CallReady
<1>3. CASE ConnectBegins(c)
  BY <1>3, FailEventsOnward DEF ConnectBegins, MustConnect, TypeOK, Onward
<1>4. CASE ConnectEnds(c)
  BY <1>4, FailEventsOnward DEF ConnectEnds, TypeOK, Onward
<1> QED BY <1>1, <1>2, <1>3, <1>4

LEMMA LeavingInvStep ==
    ASSUME TypeOK, AppGone, ThreadInv, ConnInv, LeavingInv, [Next]_vars
    PROVE  LeavingInv'
<1> USE DEF LeavingInv, Leaving
<1>1. CASE UNCHANGED vars
  BY <1>1 DEF vars, appVars, loopVars, setVars, threadVars, connVars
<1>2. ASSUME NEW c \in Conns, Awaited(c) \/ Lost(c)
      PROVE  LeavingInv'
  BY <1>2, CallbacksKeep, CallbackOnward DEF appVars, loopVars, setVars, threadVars, Onward
<1>3. CASE WakeUp
  BY <1>3 DEF WakeUp, ThreadInv, NoByes, appVars, connVars
<1>4. CASE BatchEnds
  BY <1>4 DEF BatchEnds, setVars, appVars, connVars
<1>5. CASE StopCallback
  <2> DEFINE C == commands \cup {c \in Conns : goodbyes[c] # "no"}
  <2>1. Disconnect(C) /\ UNCHANGED <<retired, tasks, byes, host>>
    BY <1>5 DEF StopCallback, appVars
  <2>2. \A c \in Conns : Onward(c) /\ (goodbyes[c] # "no" => state'[c] = "BROKEN")
    BY <2>1, FailEventsOnward DEF Disconnect
  <2> QED BY <2>1, <2>2 DEF Onward
<1>6. ASSUME NEW c \in Conns,
             CallEarly(c) \/ CallReady(c) \/ CallBroken(c) \/ ConnectBegins(c) \/ ConnectEnds(c)
      PROVE  LeavingInv'
  <2>1. \A d \in Conns : Onward(d)
    BY <1>6, CallOnward DEF ConnInv, ConnOK
  <2>2. UNCHANGED <<retired, tasks, goodbyes, host>>
    BY <1>6 DEF CallEarly, CallReady, CallBroken, ConnectBegins, ConnectEnds, appVars, setVars, connVars
  <2>3. Called(c) \/ UNCHANGED byes
    BY <1>6 DEF CallEarly, CallReady, CallBroken, ConnectBegins, ConnectEnds
  <2>4. \A d \in Conns : byes[d] # "no" => byes'[d] # "no"
    BY <2>3 DEF Called, TypeOK
  <2> QED BY <2>1, <2>2, <2>4 DEF Onward
<1>7. ASSUME NEW c \in Conns, Goodbye(c)
      PROVE  LeavingInv'
  <2>1. \A d \in Conns : Onward(d) /\ (d = c => state'[d] = "BROKEN")
    BY <1>7, FailEventsOnward DEF Goodbye, Disconnect
  <2>2. UNCHANGED <<retired, tasks, goodbyes, host>> /\ \A d \in Conns : d # c => byes'[d] = byes[d]
    BY <1>7 DEF Goodbye, appVars, setVars, TypeOK
  <2> QED BY <2>1, <2>2 DEF Onward
<1>8. CASE Joined
  BY <1>8 DEF Joined, appVars, setVars, threadVars, connVars
<1>9. CASE Destroyed
  BY <1>9 DEF Destroyed, ThreadInv, appVars, threadVars
<1>10. ASSUME NEW c \in Conns, NEW e \in Events, Push(e, c)
      PROVE  LeavingInv'
  BY <1>10 DEF Push, loopVars, setVars, threadVars
<1>11. ASSUME NEW c \in Conns, SentinelAnswers(c)
      PROVE  LeavingInv'
  BY <1>11 DEF SentinelAnswers, loopVars, setVars, threadVars, TypeOK
<1>12. ASSUME NEW c \in Conns, SentinelFails(c) \/ Retire(c)
      PROVE  LeavingInv'
  <2>1. /\ UNCHANGED <<byes, state, host>>
        /\ \A d \in Conns : goodbyes[d] # "no" => goodbyes'[d] # "no"
        /\ goodbyes'[c] # "no"
    BY <1>12 DEF SentinelFails, Retire, Unwatch, threadVars, connVars, TypeOK
  <2>2. tasks' \subseteq tasks /\ tasks \subseteq tasks' \cup {c} /\ retired' \subseteq retired \cup {c}
    BY <1>12 DEF SentinelFails, Retire
  <2> QED BY <2>1, <2>2
<1>13. ASSUME NEW c \in Conns, Add(c)
      PROVE  LeavingInv'
  BY <1>13 DEF Add, threadVars, connVars
<1>14. CASE Notify
  BY <1>14 DEF Notify, threadVars, connVars
<1>15. CASE ReleaseLoop
  BY <1>15 DEF ReleaseLoop, setVars, threadVars, connVars
<1> QED
  BY <1>1, <1>2, <1>3, <1>4, <1>5, <1>6, <1>7, <1>8, <1>9, <1>10, <1>11, <1>12, <1>13, <1>14, <1>15
  DEF Next, Application, LoopThread

-----------------------------------------------------------------------------
(* Connections, their contexts and the handshake.                          *)

\* Connection d is as it was.
Same(d) ==
    /\ state'[d] = state[d] /\ ptr'[d] = ptr[d] /\ ctx'[d] = ctx[d]
    /\ asked'[d] = asked[d] /\ sent'[d] = sent[d] /\ agreed'[d] = agreed[d]
    /\ cur' = d => cur = d

LEMMA SameOK ==
    ASSUME NEW d \in Conns, ConnOK(d), Same(d)
    PROVE  ConnOK(d)'
BY DEF ConnOK, Same

LEMMA DisconnectOthers ==
    ASSUME TypeOK, NEW C, Disconnect(C), NEW d \in Conns, d \notin C
    PROVE  state'[d] = state[d] /\ ptr'[d] = ptr[d] /\ ctx'[d] = ctx[d]
BY DEF Disconnect, FailEvents, TypeOK

LEMMA SendOthers ==
    ASSUME TypeOK, NEW c \in Conns, Send(c), NEW d \in Conns, d # c
    PROVE  state'[d] = state[d] /\ ptr'[d] = ptr[d] /\ ctx'[d] = ctx[d] /\ sent'[d] = sent[d]
<1>1. CASE Disconnect({c}) /\ \E S \in SUBSET queue[c] : sent' = [sent EXCEPT ![c] = @ \cup S]
  BY <1>1, DisconnectOthers DEF TypeOK
<1> QED BY <1>1 DEF Send, TypeOK

LEMMA ProceedOthers ==
    ASSUME TypeOK, NEW c \in Conns, Proceed(c), NEW d \in Conns, d # c
    PROVE  /\ state'[d] = state[d] /\ ptr'[d] = ptr[d] /\ ctx'[d] = ctx[d] /\ sent'[d] = sent[d]
           /\ asked'[d] = asked[d]
<1>1. CASE Send(c) /\ asked' = [asked EXCEPT ![c] = {}]
  BY <1>1, SendOthers DEF TypeOK
<1>2. CASE Disconnect({c}) /\ UNCHANGED sent /\ asked' = [asked EXCEPT ![c] = {}]
  BY <1>2, DisconnectOthers DEF TypeOK
<1> QED BY <1>1, <1>2 DEF Proceed, TypeOK

\* A context is closed, with whatever still waits for a reply.
LEMMA DisconnectOK ==
    ASSUME TypeOK, NEW C \in SUBSET Conns, NEW c \in C, Disconnect(C), ConnOK(c),
           asked'[c] \subseteq asked[c], sent'[c] = sent[c], agreed'[c] = agreed[c], cur' # c
    PROVE  ConnOK(c)'
<1>1. state'[c] = "BROKEN" /\ ptr'[c] = FALSE /\ ctx'[c] = IF ptr[c] THEN "closing" ELSE ctx[c]
  BY DEF Disconnect, FailEvents, TypeOK
<1> QED BY <1>1 DEF ConnOK, Handshake, TypeOK

LEMMA SendOK ==
    ASSUME TypeOK, NEW c \in Conns, Send(c), ctx[c] \in {"connecting", "up"}, ptr[c],
           asked'[c] = {}, agreed'[c] = Needs, cur' # c
    PROVE  ConnOK(c)'
<1>1. CASE UNCHANGED ptr /\ state' = [state EXCEPT ![c] = "READY"] /\ ctx' = [ctx EXCEPT ![c] = "up"]
  BY <1>1 DEF ConnOK, Handshake, TypeOK
<1>2. CASE Disconnect({c})
  <2>1. state'[c] = "BROKEN" /\ ptr'[c] = FALSE /\ ctx'[c] = "closing"
    BY <1>2 DEF Disconnect, FailEvents, TypeOK
  <2> QED BY <2>1 DEF ConnOK, Handshake
<1> QED BY <1>1, <1>2 DEF Send

LEMMA ProceedOK ==
    ASSUME TypeOK, NEW c \in Conns, ConnOK(c), Proceed(c), cur' = cur,
           state[c] \in Begun,
           agreed'[c] = {m \in Needs : Pos[m] < Pos[state[c]]} \cup ({state[c]} \cap Needs)
    PROVE  ConnOK(c)'
<1>1. ptr[c] /\ sent[c] = {} /\ cur # c /\ ctx[c] \in {"connecting", "up"} /\ state[c] # "BROKEN"
  BY DEF ConnOK, Begun, Handshake
<1>2. CASE After(state[c]) = "READY" /\ Send(c) /\ asked' = [asked EXCEPT ![c] = {}]
  BY <1>1, <1>2, AfterAgreed, SendOK DEF TypeOK
<1>3. CASE /\ After(state[c]) # "READY"
           /\ asked' = [asked EXCEPT ![c] = {After(state[c])}]
           /\ state' = [state EXCEPT ![c] = After(state[c])]
           /\ ctx' = [ctx EXCEPT ![c] = "up"]
           /\ UNCHANGED <<ptr, queue, sent, completed>>
  <2>1. After(state[c]) \in Needs /\ After(state[c]) \in Handshake
    BY <1>3, AfterAgreed, AsyncAssumption
  <2>2. agreed'[c] = {m \in Needs : Pos[m] < Pos[After(state[c])]}
    BY <2>1, AfterAgreed
  <2>3. state'[c] = After(state[c]) /\ asked'[c] = {After(state[c])} /\ ctx'[c] = "up"
    BY <1>3 DEF TypeOK
  <2>4. After(state[c]) \notin {"CONNECTING", "READY", "NOT_CONNECTED", "WAIT_SENTINEL"}
    BY <2>1 DEF Handshake
  <2> QED BY <1>1, <1>3, <2>1, <2>2, <2>3, <2>4 DEF ConnOK
<1>4. CASE Disconnect({c}) /\ asked' = [asked EXCEPT ![c] = {}] /\ UNCHANGED sent
  <2>1. state'[c] = "BROKEN" /\ ptr'[c] = FALSE /\ ctx'[c] = "closing"
    BY <1>1, <1>4 DEF Disconnect, FailEvents, TypeOK
  <2> QED BY <1>1, <1>4, <2>1 DEF ConnOK, Handshake, TypeOK
<1> QED BY <1>1, <1>2, <1>3, <1>4 DEF Proceed

LEMMA ConnInvOfCallbacks ==
    ASSUME TypeOK, TypeOK', ConnInv, NEW c \in Conns, Awaited(c) \/ Lost(c), NEW d \in Conns
    PROVE  ConnOK(d)'
<1> ConnOK(c) /\ ConnOK(d) /\ cur' = cur
  BY CallbacksKeep DEF ConnInv, loopVars, threadVars
<1>1. CASE ConnectSucceeds(c)
  <2>1. Proceed(c) /\ UNCHANGED agreed /\ state[c] = "CONNECTING" /\ agreed[c] = {}
    BY <1>1 DEF ConnectSucceeds, ConnOK
  <2>2. CASE d = c
    <3>1. /\ \A m \in Handshake : ~(Pos[m] < Pos["CONNECTING"])
          /\ "CONNECTING" \notin Handshake
      BY DEF Pos, Handshake
    <3>2. {m \in Needs : Pos[m] < Pos["CONNECTING"]} = {} /\ "CONNECTING" \notin Needs
      BY <3>1, AsyncAssumption
    <3>3. agreed'[c] = {m \in Needs : Pos[m] < Pos[state[c]]} \cup ({state[c]} \cap Needs)
      BY <2>1, <3>2
    <3> QED BY <2>1, <2>2, <3>3, ProceedOK DEF Begun
  <2>3. CASE d # c
    BY <2>1, <2>3, ProceedOthers, SameOK DEF Same
  <2> QED BY <2>2, <2>3
<1>2. CASE HandshakeAccepted(c)
  <2>1. Proceed(c) /\ asked[c] # {} /\ agreed' = [agreed EXCEPT ![c] = @ \cup asked[c]]
    BY <1>2 DEF HandshakeAccepted
  <2>2. CASE d # c
    BY <2>1, <2>2, ProceedOthers, SameOK DEF Same, TypeOK
  <2>3. CASE d = c /\ state[c] \in Handshake
    <3>1. asked[c] = {state[c]} /\ state[c] \in Needs
      BY <2>3 DEF ConnOK, TypeOK
    <3>2. agreed'[c] = {m \in Needs : Pos[m] < Pos[state[c]]} \cup ({state[c]} \cap Needs)
      BY <2>1, <2>3, <3>1 DEF ConnOK, TypeOK
    <3> QED BY <2>1, <2>3, <3>2, ProceedOK DEF Begun
  <2>4. CASE d = c /\ state[c] = "BROKEN"
    <3>1. UNCHANGED <<state, ptr, ctx, sent>> /\ asked'[c] = {}
      BY <2>1, <2>4 DEF Proceed, TypeOK
    <3>2. agreed[c] = Needs => agreed'[c] = Needs
      BY <2>1 DEF TypeOK
    <3> QED BY <2>4, <3>1, <3>2 DEF ConnOK, Handshake
  <2> QED BY <2>1, <2>2, <2>3, <2>4, AnsweredIn
<1>3. CASE ConnectFails(c)
  <2>1. CASE d = c
    BY <1>3, <2>1 DEF ConnectFails, FailEvents, ConnOK, Handshake, TypeOK
  <2>2. CASE d # c
    BY <1>3, <2>2, SameOK DEF ConnectFails, FailEvents, Same, TypeOK
  <2> QED BY <2>1, <2>2
<1>4. CASE HandshakeRejected(c)
  <2>1. CASE d = c
    <3>1. cur # c
      BY <1>4 DEF HandshakeRejected, ConnOK
    <3> QED BY <1>4, <2>1, <3>1, DisconnectOK DEF HandshakeRejected, TypeOK
  <2>2. CASE d # c
    BY <1>4, <2>2, DisconnectOthers, SameOK DEF HandshakeRejected, Same, TypeOK
  <2> QED BY <2>1, <2>2
<1>5. ASSUME NEW e \in Events, Reply(c, e)
      PROVE  ConnOK(d)'
  BY <1>5 DEF Reply, ConnOK, TypeOK
<1>6. CASE Close(c)
  BY <1>6 DEF Close, ConnOK, Handshake, TypeOK
<1>7. CASE Lost(c)
  <2>1. CASE d = c
    <3>1. ctx'[c] = "none" /\ sent'[c] = {} /\ asked'[c] = {} /\ agreed'[c] = agreed[c]
      BY <1>7 DEF Lost, TypeOK
    <3>2. state'[c] = "BROKEN" /\ ptr'[c] = FALSE
      <4>1. CASE ptr[c]
        BY <1>7, <4>1 DEF Lost, FailEvents, TypeOK
      <4>2. CASE ~ptr[c]
        BY <1>7, <4>2 DEF Lost, ConnOK, TypeOK, States
      <4> QED BY <4>1, <4>2
    <3> QED BY <1>7, <2>1, <3>1, <3>2 DEF ConnOK, Handshake, Lost
  <2>2. CASE d # c
    <3>1. Same(d)
      BY <1>7, <2>2 DEF Lost, FailEvents, Same, TypeOK
    <3> QED BY <3>1, SameOK
  <2> QED BY <2>1, <2>2
<1> QED BY <1>1, <1>2, <1>3, <1>4, <1>5, <1>6, <1>7 DEF Awaited

LEMMA ConnInvOfLoopThread ==
    ASSUME TypeOK, ConnInv, LoopThread, NEW d \in Conns
    PROVE  ConnOK(d)'
<1> USE DEF ConnInv
<1>1. CASE WakeUp \/ BatchEnds
  BY <1>1, SameOK DEF WakeUp, BatchEnds, Same, connVars, hiredisVars
<1>2. CASE StopCallback
  <2> DEFINE C == commands \cup {c \in Conns : goodbyes[c] # "no"}
  <2>1. Disconnect(C) /\ UNCHANGED <<cur, asked, sent, agreed>> /\ cur # d /\ C \in SUBSET Conns
    BY <1>2, AsyncAssumption DEF StopCallback, TypeOK
  <2> HIDE DEF C
  <2>2. CASE d \in C
    BY <2>1, <2>2, DisconnectOK
  <2>3. CASE d \notin C
    BY <2>1, <2>3, DisconnectOthers, SameOK DEF Same
  <2> QED BY <2>2, <2>3
<1>3. ASSUME NEW c \in Conns, CallEarly(c) \/ CallBroken(c)
      PROVE  ConnOK(d)'
  BY <1>3, SameOK DEF CallEarly, CallBroken, Same, connVars, hiredisVars
<1>4. ASSUME NEW c \in Conns, CallReady(c)
      PROVE  ConnOK(d)'
  <2>1. Send(c) /\ UNCHANGED <<cur, asked, agreed>>
    BY <1>4 DEF CallReady
  <2>2. CASE d = c
    <3>1. ctx[c] = "up" /\ ptr[c] /\ asked[c] = {} /\ agreed[c] = Needs /\ cur # c
      BY <1>4 DEF CallReady, ConnOK
    <3> QED BY <2>1, <2>2, <3>1, SendOK
  <2>3. CASE d # c
    BY <2>1, <2>3, SendOthers, SameOK DEF Same
  <2> QED BY <2>2, <2>3
<1>5. ASSUME NEW c \in Conns, ConnectBegins(c)
      PROVE  ConnOK(d)'
  <2>1. UNCHANGED <<ctx, asked, sent, agreed>> /\ MustConnect(c) /\ cur = NoConn
    BY <1>5 DEF ConnectBegins, hiredisVars, TypeOK
  <2>2. CASE d = c
    <3>1. ctx[c] = "none" /\ agreed[c] = {} /\ ~ptr[c] /\ asked[c] = {} /\ sent[c] = {}
      BY <2>1 DEF MustConnect, ConnOK, Handshake
    <3>2. state'[c] \in {"NOT_CONNECTED", "BROKEN"} /\ ~ptr'[c] /\ (cur' = c => state'[c] = "NOT_CONNECTED")
      BY <1>5, <2>1, <3>1, AsyncAssumption DEF ConnectBegins, FailEvents, TypeOK
    <3> QED BY <2>1, <2>2, <3>1, <3>2 DEF ConnOK, Handshake
  <2>3. CASE d # c
    BY <1>5, <2>1, <2>3, SameOK DEF ConnectBegins, FailEvents, Same, TypeOK
  <2> QED BY <2>2, <2>3
<1>6. ASSUME NEW c \in Conns, ConnectEnds(c)
      PROVE  ConnOK(d)'
  <2>1. UNCHANGED <<asked, sent, agreed>> /\ cur = c /\ cur' # d /\ state[c] = "NOT_CONNECTED"
    BY <1>6, AsyncAssumption DEF ConnectEnds, ConnOK
  <2>2. CASE d = c
    <3>1. ctx[c] = "none" /\ agreed[c] = {} /\ ~ptr[c] /\ asked[c] = {} /\ sent[c] = {}
      BY <2>1 DEF ConnOK, Handshake
    <3>2. \/ state'[c] = "CONNECTING" /\ ptr'[c] = TRUE /\ ctx'[c] = "connecting"
          \/ state'[c] = "BROKEN" /\ ptr'[c] = FALSE /\ ctx'[c] = "none"
      BY <1>6, <3>1 DEF ConnectEnds, FailEvents, TypeOK
    <3> QED BY <2>1, <2>2, <3>1, <3>2 DEF ConnOK, Handshake
  <2>3. CASE d # c
    BY <1>6, <2>1, <2>3, SameOK DEF ConnectEnds, FailEvents, Same, TypeOK
  <2> QED BY <2>2, <2>3
<1>7. ASSUME NEW c \in Conns, Goodbye(c)
      PROVE  ConnOK(d)'
  <2>1. Disconnect({c}) /\ UNCHANGED <<cur, asked, sent, agreed>> /\ cur # d
    BY <1>7, AsyncAssumption DEF Goodbye, TypeOK
  <2>2. CASE d = c
    BY <2>1, <2>2, DisconnectOK
  <2>3. CASE d # c
    BY <2>1, <2>3, DisconnectOthers, SameOK DEF Same
  <2> QED BY <2>2, <2>3
<1> QED BY <1>1, <1>2, <1>3, <1>4, <1>5, <1>6, <1>7 DEF LoopThread

LEMMA ConnInvStep ==
    ASSUME TypeOK, TypeOK', ConnInv, [Next]_vars
    PROVE  ConnInv'
<1> SUFFICES ASSUME NEW d \in Conns PROVE ConnOK(d)'
  BY DEF ConnInv
<1>1. CASE UNCHANGED <<state, ptr, hiredisVars, cur>>
  BY <1>1, SameOK DEF Same, ConnInv, hiredisVars
<1>2. CASE Application \/ Joined \/ Destroyed
  BY <1>1, <1>2 DEF Application, Push, SentinelAnswers, SentinelFails, Add, Retire, Unwatch, Notify,
                    ReleaseLoop, Joined, Destroyed, loopVars, threadVars, connVars
<1>3. CASE UNCHANGED vars
  BY <1>1, <1>3 DEF vars, loopVars, threadVars, connVars
<1> QED BY <1>2, <1>3, ConnInvOfCallbacks, ConnInvOfLoopThread DEF Next

-----------------------------------------------------------------------------
(* Events.                                                                 *)

\* The events that connection c and hiredis still have.
Has(c) == queue[c] \cup sent[c]

\* The events in S are completed, and the others stay with their connection.
Moves(S) ==
    /\ unsent' = unsent
    /\ Complete(S)
    /\ \A e \in S : \E c \in Conns : e \in Has(c)
    /\ \A c \in Conns : Has(c)' = Has(c) \ S /\ queue'[c] \cap sent'[c] = {}

LEMMA MovesOnce ==
    ASSUME TypeOK, CompletedOnce, NEW S, Moves(S)
    PROVE  CompletedOnce'
<1> SUFFICES ASSUME NEW e \in Events
             PROVE  /\ e \in unsent' => Pending(e)' = {} /\ completed'[e] = 0
                    /\ e \notin unsent' => completed'[e] = IF Pending(e)' = {} THEN 1 ELSE 0
                    /\ \A c, d \in Pending(e)' : c = d
                    /\ \A c \in Conns : e \notin queue'[c] \cap sent'[c]
  BY DEF CompletedOnce
<1>1. completed'[e] = completed[e] + IF e \in S THEN 1 ELSE 0
  BY DEF Moves, Complete
<1>2. completed[e] \in Nat
  BY DEF TypeOK
<1>3. /\ e \in unsent => Pending(e) = {} /\ completed[e] = 0
      /\ e \notin unsent => completed[e] = IF Pending(e) = {} THEN 1 ELSE 0
      /\ \A c, d \in Pending(e) : c = d
  BY DEF CompletedOnce
<1>4. CASE e \in S
  <2>1. Pending(e) # {} /\ Pending(e)' = {}
    BY <1>4 DEF Moves, Has, Pending
  <2> QED BY <1>1, <1>2, <1>3, <1>4, <2>1 DEF Moves
<1>5. CASE e \notin S
  <2>1. Pending(e)' = Pending(e)
    BY <1>5 DEF Moves, Has, Pending
  <2> QED BY <1>1, <1>2, <1>3, <1>5, <2>1 DEF Moves
<1> QED BY <1>4, <1>5

\* What is failed with a connection was in its queue.
LEMMA FailMoves ==
    ASSUME TypeOK, CompletedOnce, NEW C \in SUBSET Conns, FailEvents(C), Complete(Queued(C)),
           sent' = sent, unsent' = unsent
    PROVE  Moves(Queued(C))
<1>1. \A c \in Conns : queue'[c] = IF c \in C THEN {} ELSE queue[c]
  BY DEF FailEvents
<1>2. \A e \in Queued(C) : e \in Events /\ \E c \in C : e \in queue[c]
  BY DEF Queued, TypeOK
<1>3. ASSUME NEW c \in Conns
      PROVE  Has(c)' = Has(c) \ Queued(C)
  <2>1. ASSUME NEW e \in Queued(C), e \in Has(c)
        PROVE  c \in C /\ e \notin sent[c]
    BY <1>2, <2>1 DEF CompletedOnce, Pending, Has
  <2>2. c \in C => queue[c] \subseteq Queued(C)
    BY DEF Queued
  <2> QED BY <1>1, <2>1, <2>2 DEF Has
<1>4. \A c \in Conns : queue'[c] \cap sent'[c] = {}
  BY <1>1 DEF CompletedOnce, TypeOK
<1> QED BY <1>2, <1>3, <1>4 DEF Moves, Has

LEMMA FailOneMoves ==
    ASSUME TypeOK, CompletedOnce, NEW c \in Conns, FailEvents({c}), Complete(queue[c]),
           sent' = sent, unsent' = unsent
    PROVE  Moves(queue[c])
<1>1. Queued({c}) = queue[c]
  BY DEF Queued
<1> QED BY <1>1, FailMoves

LEMMA NothingMoves ==
    ASSUME TypeOK, CompletedOnce, UNCHANGED <<unsent, completed>>,
           \A c \in Conns : Has(c)' = Has(c) /\ queue'[c] \cap sent'[c] = {}
    PROVE  CompletedOnce'
<1>1. Complete({})
  BY DEF Complete, TypeOK
<1> QED BY <1>1, MovesOnce DEF Moves

LEMMA SendCompletes ==
    ASSUME TypeOK, CompletedOnce, NEW c \in Conns, Send(c), unsent' = unsent
    PROVE  CompletedOnce'
<1>1. CASE /\ sent' = [sent EXCEPT ![c] = @ \cup queue[c]]
           /\ queue' = [queue EXCEPT ![c] = {}]
           /\ UNCHANGED completed
  <2>1. \A d \in Conns : Has(d)' = Has(d) /\ queue'[d] \cap sent'[d] = {}
    BY <1>1 DEF Has, CompletedOnce, TypeOK
  <2> QED BY <1>1, <2>1, NothingMoves
<1>2. ASSUME NEW S \in SUBSET queue[c], sent' = [sent EXCEPT ![c] = @ \cup S],
             Complete(queue[c] \ S), FailEvents({c})
      PROVE  CompletedOnce'
  <2>1. \A d \in Conns : /\ queue'[d] = IF d = c THEN {} ELSE queue[d]
                         /\ sent'[d] = IF d = c THEN sent[d] \cup S ELSE sent[d]
    BY <1>2 DEF FailEvents, TypeOK
  <2>2. ASSUME NEW e \in queue[c], NEW d \in Conns, e \in Has(d)
        PROVE  d = c /\ e \notin sent[d]
    BY <2>2 DEF CompletedOnce, Pending, Has, TypeOK
  <2>3. \A d \in Conns : Has(d)' = Has(d) \ (queue[c] \ S) /\ queue'[d] \cap sent'[d] = {}
    <3> TAKE d \in Conns
    <3>1. CASE d = c
      BY <2>1, <2>2, <3>1 DEF Has
    <3>2. CASE d # c
      BY <2>1, <2>2, <3>2 DEF Has, CompletedOnce, TypeOK
    <3> QED BY <3>1, <3>2
  <2>4. Moves(queue[c] \ S)
    BY <1>2, <2>3 DEF Moves, Has
  <2> QED BY <2>4, MovesOnce
<1> QED BY <1>1, <1>2 DEF Send, Disconnect

LEMMA FailCompletes ==
    ASSUME TypeOK, CompletedOnce, NEW c \in Conns, FailEvents({c}), Complete(queue[c]),
           sent' = sent, unsent' = unsent
    PROVE  CompletedOnce'
BY FailOneMoves, MovesOnce

LEMMA ProceedCompletes ==
    ASSUME TypeOK, CompletedOnce, NEW c \in Conns, Proceed(c), unsent' = unsent
    PROVE  CompletedOnce'
<1>1. CASE UNCHANGED <<queue, sent, completed>>
  BY <1>1, NothingMoves DEF Has, CompletedOnce, TypeOK
<1> QED BY <1>1, SendCompletes, FailCompletes DEF Proceed, Disconnect

LEMMA CallbackCompletes ==
    ASSUME TypeOK, CompletedOnce, NEW c \in Conns, Awaited(c) \/ Lost(c)
    PROVE  CompletedOnce'
<1> unsent' = unsent
  BY CallbacksKeep DEF appVars
<1>1. CASE ConnectSucceeds(c) \/ HandshakeAccepted(c)
  BY <1>1, ProceedCompletes DEF ConnectSucceeds, HandshakeAccepted
<1>2. CASE ConnectFails(c) \/ HandshakeRejected(c)
  BY <1>2, FailCompletes DEF ConnectFails, HandshakeRejected, Disconnect
<1>3. ASSUME NEW e \in Events, Reply(c, e)
      PROVE  CompletedOnce'
  <2>1. /\ e \in sent[c] /\ Complete({e}) /\ queue' = queue
        /\ sent' = [sent EXCEPT ![c] = @ \ {e}]
    BY <1>3 DEF Reply
  <2>2. ASSUME NEW d \in Conns, e \in Has(d)
        PROVE  d = c /\ e \notin queue[d]
    BY <2>1, <2>2 DEF CompletedOnce, Pending, Has
  <2>3. \A d \in Conns : Has(d)' = Has(d) \ {e} /\ queue'[d] \cap sent'[d] = {}
    BY <2>1, <2>2 DEF Has, CompletedOnce, TypeOK
  <2>4. Moves({e})
    BY <2>1, <2>3 DEF Moves, Has
  <2> QED BY <2>4, MovesOnce
<1>4. CASE Close(c)
  BY <1>4, NothingMoves DEF Close, Has, CompletedOnce, TypeOK
<1>5. CASE Lost(c)
  <2> DEFINE S == sent[c] \cup IF ptr[c] THEN queue[c] ELSE {}
  <2>1. /\ Complete(S)
        /\ \A d \in Conns : /\ queue'[d] = IF d = c /\ ptr[c] THEN {} ELSE queue[d]
                            /\ sent'[d] = IF d = c THEN {} ELSE sent[d]
    <3>1. CASE ptr[c]
      <4>1. S = sent[c] \cup queue[c]
        BY <3>1
      <4> QED BY <1>5, <3>1, <4>1 DEF Lost, FailEvents, TypeOK
    <3>2. CASE ~ptr[c]
      <4>1. S = sent[c]
        BY <3>2
      <4> QED BY <1>5, <3>2, <4>1 DEF Lost, TypeOK
    <3> QED BY <3>1, <3>2
  <2>2. ASSUME NEW e \in S, NEW d \in Conns, e \in Has(d)
        PROVE  d = c
    BY <2>2 DEF CompletedOnce, Pending, Has, TypeOK
  <2>3. queue[c] \cap sent[c] = {}
    BY DEF CompletedOnce, TypeOK
  <2>4. \A d \in Conns : Has(d)' = Has(d) \ S
    <3> TAKE d \in Conns
    <3>1. CASE d = c
      BY <2>1, <2>3, <3>1 DEF Has
    <3>2. CASE d # c
      BY <2>1, <2>2, <3>2 DEF Has
    <3> QED BY <3>1, <3>2
  <2>5. \A d \in Conns : queue'[d] \cap sent'[d] = {}
    BY <2>1 DEF CompletedOnce, TypeOK
  <2>6. \A e \in S : e \in Has(c)
    BY DEF Has
  <2>7. Moves(S)
    BY <2>1, <2>4, <2>5, <2>6 DEF Moves
  <2> QED BY <2>7, MovesOnce
<1> QED BY <1>1, <1>2, <1>3, <1>4, <1>5 DEF Awaited

LEMMA CompletedOnceStep ==
    ASSUME TypeOK, CompletedOnce, ThreadInv, [Next]_vars
    PROVE  CompletedOnce'
<1>1. CASE UNCHANGED <<unsent, queue, sent, completed>>
  BY <1>1 DEF CompletedOnce, Pending
<1>2. ASSUME NEW e \in Events, NEW c \in Conns, Push(e, c)
      PROVE  CompletedOnce'
  <2>1. /\ e \in unsent /\ unsent' = unsent \ {e} /\ queue' = [queue EXCEPT ![c] = @ \cup {e}]
        /\ UNCHANGED <<sent, completed>>
    BY <1>2 DEF Push, hiredisVars
  <2>2. ASSUME NEW f \in Events, f # e
        PROVE  Pending(f)' = Pending(f) /\ (f \in unsent' <=> f \in unsent)
    BY <2>1, <2>2 DEF Pending, TypeOK
  <2>3. Pending(e) = {} /\ completed[e] = 0 /\ Pending(e)' = {c} /\ e \notin unsent'
    BY <2>1 DEF CompletedOnce, Pending, TypeOK
  <2>4. \A d \in Conns : \A f \in Events : f \notin queue'[d] \cap sent'[d]
    BY <2>1, <2>3 DEF CompletedOnce, Pending, TypeOK
  <2> QED BY <2>1, <2>2, <2>3, <2>4 DEF CompletedOnce
<1>3. ASSUME NEW c \in Conns, SentinelAnswers(c) \/ SentinelFails(c) \/ Retire(c) \/ Add(c)
      PROVE  CompletedOnce'
  BY <1>1, <1>3 DEF SentinelAnswers, SentinelFails, Retire, Unwatch, Add, hiredisVars, connVars
<1>4. CASE Notify \/ ReleaseLoop \/ WakeUp \/ BatchEnds \/ Joined \/ UNCHANGED vars
  BY <1>1, <1>4 DEF Notify, ReleaseLoop, WakeUp, BatchEnds, Joined, appVars, hiredisVars, connVars, vars
<1>5. CASE StopCallback
  <2> DEFINE C == commands \cup {c \in Conns : goodbyes[c] # "no"}
  <2>1. /\ C \in SUBSET Conns /\ FailEvents(C) /\ Complete(Queued(C))
        /\ sent' = sent /\ unsent' = unsent
    BY <1>5 DEF StopCallback, Disconnect, appVars, TypeOK
  <2> HIDE DEF C
  <2> QED BY <2>1, FailMoves, MovesOnce
<1>6. ASSUME NEW c \in Conns, CallEarly(c)
      PROVE  CompletedOnce'
  BY <1>1, <1>6 DEF CallEarly, appVars, hiredisVars, connVars
<1>7. ASSUME NEW c \in Conns, CallReady(c)
      PROVE  CompletedOnce'
  BY <1>7, SendCompletes DEF CallReady, appVars
<1>8. ASSUME NEW c \in Conns, CallBroken(c)
      PROVE  CompletedOnce'
  <2>1. /\ Complete(queue[c]) /\ queue' = [queue EXCEPT ![c] = {}]
        /\ sent' = sent /\ unsent' = unsent
    BY <1>8 DEF CallBroken, appVars, hiredisVars
  <2>2. ASSUME NEW e \in queue[c], NEW d \in Conns, e \in Has(d)
        PROVE  d = c /\ e \notin sent[d]
    BY <2>2 DEF CompletedOnce, Pending, Has, TypeOK
  <2>3. \A d \in Conns : Has(d)' = Has(d) \ queue[c] /\ queue'[d] \cap sent'[d] = {}
    BY <2>1, <2>2 DEF Has, CompletedOnce, TypeOK
  <2>4. Moves(queue[c])
    BY <2>1, <2>3 DEF Moves, Has
  <2> QED BY <2>4, MovesOnce
<1>9. ASSUME NEW c \in Conns, ConnectBegins(c) \/ ConnectEnds(c) \/ Goodbye(c)
      PROVE  CompletedOnce'
  BY <1>1, <1>9, FailCompletes DEF ConnectBegins, ConnectEnds, Goodbye, Disconnect, appVars, hiredisVars
<1>10. CASE Destroyed
  <2>1. /\ Complete(Queued(Conns)) /\ queue' = [c \in Conns |-> {}]
        /\ sent' = sent /\ unsent' = unsent
    BY <1>10 DEF Destroyed, appVars, hiredisVars
  <2>2. ASSUME NEW c \in Conns, NEW e \in sent[c]
        PROVE  e \notin Queued(Conns)
    <3>1. \A d \in Conns : e \notin queue[d]
      BY DEF CompletedOnce, Pending, TypeOK
    <3> QED BY <3>1 DEF Queued
  <2>3. \A c \in Conns : queue[c] \subseteq Queued(Conns)
    BY DEF Queued
  <2>4. \A c \in Conns : Has(c)' = Has(c) \ Queued(Conns) /\ queue'[c] \cap sent'[c] = {}
    BY <2>1, <2>2, <2>3 DEF Has
  <2>5. \A e \in Queued(Conns) : \E c \in Conns : e \in Has(c)
    BY DEF Queued, Has
  <2>6. Moves(Queued(Conns))
    BY <2>1, <2>4, <2>5 DEF Moves
  <2> QED BY <2>6, MovesOnce
<1> QED
  BY <1>2, <1>3, <1>4, <1>5, <1>6, <1>7, <1>8, <1>9, <1>10, CallbackCompletes DEF Next, Application, LoopThread

-----------------------------------------------------------------------------
(* Nobody sleeps.                                                          *)

\* The queue of d is empty now, or d is as it was or goes on in the handshake.
Settled(d) ==
    \/ queue'[d] = {}
    \/ queue'[d] = queue[d] /\ (state'[d] = state[d] \/ state'[d] \in Handshake)

LEMMA FailEventsSettles ==
    ASSUME TypeOK, NEW C, FailEvents(C), NEW d \in Conns
    PROVE  Settled(d)
BY DEF FailEvents, Settled, TypeOK

LEMMA SendSettles ==
    ASSUME TypeOK, NEW c \in Conns, Send(c), NEW d \in Conns
    PROVE  Settled(d)
<1>1. CASE queue' = [queue EXCEPT ![c] = {}] /\ state' = [state EXCEPT ![c] = "READY"]
  BY <1>1 DEF Settled, TypeOK
<1> QED BY <1>1, FailEventsSettles DEF Send, Disconnect

LEMMA ProceedSettles ==
    ASSUME TypeOK, NEW c \in Conns, state[c] \in Begun \cup {"BROKEN"}, Proceed(c), NEW d \in Conns
    PROVE  Settled(d)
<1>1. CASE UNCHANGED <<state, queue>>
  BY <1>1 DEF Settled
<1>2. CASE Send(c) \/ Disconnect({c})
  BY <1>2, SendSettles, FailEventsSettles DEF Disconnect
<1>3. CASE /\ state[c] \in Begun /\ After(state[c]) # "READY"
           /\ state' = [state EXCEPT ![c] = After(state[c])] /\ UNCHANGED queue
  <2>1. After(state[c]) \in Handshake
    BY <1>3, AfterAgreed, AsyncAssumption
  <2> QED BY <1>3, <2>1 DEF Settled, TypeOK
<1> QED BY <1>1, <1>2, <1>3 DEF Proceed

LEMMA CallbackSettles ==
    ASSUME TypeOK, ConnInv, NEW c \in Conns, Awaited(c) \/ Lost(c), NEW d \in Conns
    PROVE  Settled(d)
<1>1. CASE ConnectSucceeds(c) \/ HandshakeAccepted(c)
  <2>1. state[c] \in Begun \cup {"BROKEN"} /\ Proceed(c)
    BY <1>1, AnsweredIn DEF ConnectSucceeds, HandshakeAccepted, Begun
  <2> QED BY <2>1, ProceedSettles
<1>2. CASE ConnectFails(c) \/ HandshakeRejected(c)
  BY <1>2, FailEventsSettles DEF ConnectFails, HandshakeRejected, Disconnect
<1>3. CASE Close(c) \/ \E e \in Events : Reply(c, e)
  BY <1>3 DEF Close, Reply, Settled
<1>4. CASE Lost(c)
  BY <1>4, FailEventsSettles DEF Lost, Settled
<1> QED BY <1>1, <1>2, <1>3, <1>4 DEF Awaited

\* What c is announced by, and what calls it.
LEMMA CalledKeeps ==
    ASSUME TypeOK, NEW c \in Conns, Called(c), UNCHANGED <<appVars, setVars, stopping>>, NEW d \in Conns,
           d # c \/ byes[d] # "no" \/ d \notin batch, Announced(d)
    PROVE  Announced(d)'
BY DEF Called, Announced, TypeOK, appVars, setVars

LEMMA SleepInvStep ==
    ASSUME TypeOK, AppGone, ThreadInv, SetsInv, LeavingInv, ConnInv, SleepInv, [Next]_vars
    PROVE  SleepInv'
<1> DEFINE Awake(d) == \/ Announced(d)
                       \/ cur = d
                       \/ state[d] \in {"CONNECTING"} \cup Handshake
                       \/ state[d] = "WAIT_SENTINEL" /\ d \in tasks
<1> SUFFICES ASSUME NEW d \in Conns, queue'[d] # {}
             PROVE  Awake(d)'
  BY DEF SleepInv
<1>1. queue[d] # {} => Awake(d)
  BY DEF SleepInv
<1>2. CASE UNCHANGED vars
  BY <1>1, <1>2 DEF vars, appVars, loopVars, setVars, threadVars, connVars, Announced
<1>3. ASSUME NEW c \in Conns, Awaited(c) \/ Lost(c)
      PROVE  Awake(d)'
  BY <1>1, <1>3, CallbacksKeep, CallbackSettles
     DEF Settled, appVars, loopVars, setVars, threadVars, Announced
<1>4. CASE WakeUp
  <2>1. /\ batch' = commands /\ byes' = goodbyes
        /\ UNCHANGED <<adding, tasks, cur, state, queue>>
    BY <1>4 DEF WakeUp, appVars, connVars
  <2>2. batch = {} /\ byes[d] = "no"
    BY <1>4 DEF WakeUp, ThreadInv, NoByes
  <2>3. Announced(d) => Announced(d)'
    BY <2>1, <2>2 DEF Announced
  <2> QED BY <1>1, <2>1, <2>3
<1>5. CASE BatchEnds
  BY <1>1, <1>5 DEF BatchEnds, Announced, appVars, setVars, connVars
<1>6. CASE StopCallback
  <2> DEFINE C == commands \cup {c \in Conns : goodbyes[c] # "no"}
  <2>1. /\ FailEvents(C) /\ ~appRef /\ lpc = "poll"
        /\ UNCHANGED <<tasks, adding, batch, byes, cur>>
    BY <1>6 DEF StopCallback, Disconnect, AppGone, appVars
  <2>2. queue'[d] = queue[d] /\ state'[d] = state[d] /\ d \notin C
    BY <2>1 DEF FailEvents, TypeOK
  <2>3. ~Announced(d)
    BY <2>1, <2>2 DEF Announced, AppGone, ThreadInv, NoByes
  <2> QED BY <1>1, <2>1, <2>2, <2>3
<1>7. ASSUME NEW c \in Conns, CallEarly(c)
      PROVE  Awake(d)'
  <2>1. /\ Called(c) /\ UNCHANGED <<appVars, setVars, stopping, cur, state, queue, host>>
        /\ state[c] \notin {"READY", "BROKEN"} /\ ~MustConnect(c)
    BY <1>7 DEF CallEarly, connVars
  <2>2. CASE d # c
    BY <1>1, <2>1, <2>2, CalledKeeps DEF appVars
  <2>3. CASE d = c /\ state[c] # "WAIT_SENTINEL"
    BY <2>1, <2>3 DEF MustConnect, TypeOK, States
  <2>4. CASE d = c /\ state[c] = "WAIT_SENTINEL"
    <3>1. c \in tasks \/ goodbyes[c] # "no" \/ byes[c] # "no"
      BY <2>1, <2>4 DEF MustConnect, LeavingInv, Leaving, TypeOK
    <3>2. byes[c] # "no" => byes'[c] # "no"
      BY <2>1 DEF Called, TypeOK
    <3> QED BY <2>1, <2>4, <3>1, <3>2 DEF SetsInv, Announced, appVars, setVars
  <2> QED BY <2>2, <2>3, <2>4
<1>8. ASSUME NEW c \in Conns, CallReady(c) \/ CallBroken(c)
      PROVE  Awake(d)'
  <2>1. Called(c) /\ UNCHANGED <<appVars, setVars, stopping, cur>> /\ Settled(d)
    BY <1>8, SendSettles DEF CallReady, CallBroken, Settled, TypeOK
  <2>2. queue'[c] = {}
    <3>1. CASE CallBroken(c)
      BY <3>1 DEF CallBroken, TypeOK
    <3>2. CASE Send(c)
      BY <3>2 DEF Send, Disconnect, FailEvents, TypeOK
    <3> QED BY <1>8, <3>1, <3>2 DEF CallReady
  <2> QED BY <1>1, <2>1, <2>2, CalledKeeps DEF Settled, appVars
<1>9. ASSUME NEW c \in Conns, ConnectBegins(c)
      PROVE  Awake(d)'
  <2>1. UNCHANGED <<appVars, setVars, stopping>> /\ cur = NoConn
    BY <1>9 DEF ConnectBegins, TypeOK
  <2>2. CASE /\ cur' = c /\ state' = [state EXCEPT ![c] = "NOT_CONNECTED"]
             /\ UNCHANGED <<batch, byes, queue>>
    BY <1>1, <2>1, <2>2, AsyncAssumption DEF Announced, appVars, setVars, TypeOK
  <2>3. CASE FailEvents({c}) /\ Called(c) /\ UNCHANGED cur
    <3>1. d # c /\ queue'[d] = queue[d] /\ state'[d] = state[d]
      BY <2>3 DEF FailEvents, TypeOK
    <3> QED BY <1>1, <2>1, <2>3, <3>1, CalledKeeps DEF appVars
  <2> QED BY <1>9, <2>2, <2>3 DEF ConnectBegins
<1>10. ASSUME NEW c \in Conns, ConnectEnds(c)
      PROVE  Awake(d)'
  <2>1. UNCHANGED <<appVars, setVars, stopping>> /\ cur = c /\ Called(c)
    BY <1>10 DEF ConnectEnds
  <2>2. CASE d = c
    <3>1. state'[c] = "CONNECTING"
      BY <1>10, <2>2 DEF ConnectEnds, FailEvents, TypeOK
    <3> QED BY <2>2, <3>1
  <2>3. CASE d # c
    <3>1. queue'[d] = queue[d] /\ state'[d] = state[d]
      BY <1>10, <2>3 DEF ConnectEnds, FailEvents, TypeOK
    <3> QED BY <1>1, <2>1, <2>3, <3>1, CalledKeeps DEF appVars
  <2> QED BY <2>2, <2>3
<1>11. ASSUME NEW c \in Conns, Goodbye(c)
      PROVE  Awake(d)'
  <2>1. /\ FailEvents({c}) /\ UNCHANGED <<appVars, setVars, stopping, cur, batch>>
        /\ byes' = [byes EXCEPT ![c] = "no"]
    BY <1>11 DEF Goodbye, Disconnect
  <2>2. d # c /\ queue'[d] = queue[d] /\ state'[d] = state[d]
    BY <2>1 DEF FailEvents, TypeOK
  <2> QED BY <1>1, <2>1, <2>2 DEF Announced, appVars, setVars, TypeOK
<1>12. CASE Joined
  BY <1>1, <1>12 DEF Joined, appVars, setVars, threadVars, connVars, Announced
<1>13. CASE Destroyed
  BY <1>13 DEF Destroyed
<1>14. ASSUME NEW e \in Events, NEW c \in Conns, Push(e, c)
      PROVE  Awake(d)'
  <2>1. /\ adding' = [adding EXCEPT ![c] = @ \cup {e}] /\ queue' = [queue EXCEPT ![c] = @ \cup {e}]
        /\ UNCHANGED <<notifying, tasks, setVars, stopping, threadVars, state>>
    BY <1>14 DEF Push, loopVars
  <2>2. CASE d = c
    BY <2>1, <2>2 DEF Announced, TypeOK
  <2>3. CASE d # c
    BY <1>1, <2>1, <2>3 DEF Announced, TypeOK, setVars, threadVars
  <2> QED BY <2>2, <2>3
<1>15. ASSUME NEW c \in Conns, SentinelAnswers(c)
      PROVE  Awake(d)'
  <2>1. /\ adding' = [adding EXCEPT ![c] = @ \cup {Sentinel}] /\ tasks' = tasks \ {c}
        /\ UNCHANGED <<notifying, queue, setVars, stopping, threadVars, state>>
    BY <1>15 DEF SentinelAnswers, loopVars
  <2>2. CASE d = c
    BY <2>1, <2>2 DEF Announced, TypeOK
  <2>3. CASE d # c
    BY <1>1, <2>1, <2>3 DEF Announced, TypeOK, setVars, threadVars
  <2> QED BY <2>2, <2>3
<1>16. ASSUME NEW c \in Conns, SentinelFails(c) \/ Retire(c)
      PROVE  Awake(d)'
  <2>1. /\ UNCHANGED <<adding, commands, wake, stopping, threadVars, state, queue>>
        /\ notifying' > 0
        /\ goodbyes'[c] # "no" /\ \A x \in Conns : goodbyes[x] # "no" => goodbyes'[x] # "no"
        /\ tasks \subseteq tasks' \cup {c}
    BY <1>16 DEF SentinelFails, Retire, Unwatch, connVars, TypeOK
  <2>2. CASE d = c
    BY <2>1, <2>2 DEF Announced
  <2>3. CASE d # c
    BY <1>1, <2>1, <2>3 DEF Announced, threadVars
  <2> QED BY <2>2, <2>3
<1>17. ASSUME NEW c \in Conns, Add(c)
      PROVE  Awake(d)'
  <2>1. /\ UNCHANGED <<tasks, goodbyes, wake, stopping, threadVars, state, queue>>
        /\ notifying' > 0
        /\ c \in commands' /\ commands \subseteq commands'
        /\ \A x \in Conns : x # c => adding'[x] = adding[x]
    BY <1>17 DEF Add, connVars, TypeOK
  <2>2. CASE d = c
    BY <2>1, <2>2 DEF Announced
  <2>3. CASE d # c
    BY <1>1, <2>1, <2>3 DEF Announced, threadVars
  <2> QED BY <2>2, <2>3
<1>18. CASE Notify
  <2>1. /\ wake' = TRUE
        /\ UNCHANGED <<adding, tasks, commands, goodbyes, stopping, threadVars, state, queue>>
    BY <1>18 DEF Notify, connVars
  <2> QED BY <1>1, <2>1 DEF Announced, threadVars
<1>19. CASE ReleaseLoop
  <2>1. /\ retired = Conns /\ tasks' = {} /\ stopping' \in BOOLEAN /\ (stopping => stopping')
        /\ UNCHANGED <<adding, notifying, setVars, threadVars, state, queue>>
    BY <1>19 DEF ReleaseLoop, connVars, TypeOK
  <2>2. CASE state[d] = "WAIT_SENTINEL" /\ d \in tasks
    <3>1. goodbyes[d] # "no" \/ byes[d] # "no"
      BY <2>1, <2>2 DEF LeavingInv, Leaving
    <3>2. Announced(d)
      BY <3>1 DEF SetsInv, Announced
    <3> QED BY <2>1, <3>2 DEF Announced, setVars, threadVars
  <2>3. CASE ~(state[d] = "WAIT_SENTINEL" /\ d \in tasks)
    BY <1>1, <2>1, <2>3 DEF Announced, setVars, threadVars
  <2> QED BY <2>2, <2>3
<1> QED
  BY <1>2, <1>3, <1>4, <1>5, <1>6, <1>7, <1>8, <1>9, <1>10, <1>11, <1>12, <1>13, <1>14, <1>15, <1>16,
     <1>17, <1>18, <1>19
  DEF Next, Application, LoopThread

-----------------------------------------------------------------------------
(* Theorems.                                                               *)

LEMMA IInvStep == IInv /\ [Next]_vars => IInv'
<1> SUFFICES ASSUME IInv, [Next]_vars PROVE IInv'
  OBVIOUS
<1> USE DEF IInv
<1>1. TypeOK'
  BY TypeStep
<1>2. AppGone' /\ ThreadInv' /\ SetsInv'
  BY AppGoneStep, ThreadInvStep, SetsInvStep
<1>3. LeavingInv' /\ ConnInv'
  BY <1>1, LeavingInvStep, ConnInvStep
<1>4. CompletedOnce' /\ SleepInv'
  BY CompletedOnceStep, SleepInvStep
<1> QED BY <1>1, <1>2, <1>3, <1>4

LEMMA Inductive == Spec => []IInv
BY InitIInv, IInvStep, PTL DEF Spec

\* The types of the connections, of the loop and of what hiredis keeps: only
\* commands that the options ask for are ever sent in a handshake.
THEOREM TypeSafe == Spec => []TypeOK
<1>1. IInv => TypeOK
  BY DEF IInv
<1> QED BY <1>1, Inductive, PTL

\* Every event is with one of its connection, hiredis and its user.
THEOREM EventsCompleteOnce == Spec => []CompletedOnce
<1>1. IInv => CompletedOnce
  BY DEF IInv
<1> QED BY <1>1, Inductive, PTL

\* _ctx is null when, and only when, there is no open context.
THEOREM ContextIsNeverStale == Spec => []ContextIsOpen
<1>1. IInv => ContextIsOpen
  BY DEF IInv, ConnInv, ConnOK, ContextIsOpen
<1> QED BY <1>1, Inductive, PTL

\* The handshake is complete before the first command, for any options.
THEOREM HandshakeComesFirst == Spec => []HandshakeFirst
<1>1. IInv => HandshakeFirst
  BY DEF IInv, ConnInv, ConnOK, HandshakeFirst
<1> QED BY <1>1, Inductive, PTL

\* Somebody is on the way to each connection that has events in its queue.
THEOREM NoEventSleeps == Spec => []NobodySleeps
<1>1. IInv => NobodySleeps
  BY DEF IInv, SleepInv, NobodySleeps
<1> QED BY <1>1, Inductive, PTL

\* When the loop's thread has ended nobody connects, shakes hands or is ready:
\* every connection is broken, its queue is empty, and its context, if there is
\* one, closes when hiredis has the last reply.
NobodyLeft ==
    lpc = "ended" => \A c \in Conns : /\ state[c] = "BROKEN" /\ queue[c] = {}
                                      /\ ctx[c] \in {"none", "closing"}

LEMMA EndedLeavesNobody == IInv => NobodyLeft
<1> SUFFICES ASSUME IInv, lpc = "ended", NEW c \in Conns
             PROVE  state[c] = "BROKEN" /\ queue[c] = {} /\ ctx[c] \in {"none", "closing"}
  BY DEF NobodyLeft
<1>1. batch = {} /\ commands = {} /\ goodbyes[c] = "no" /\ byes[c] = "no"
  BY DEF IInv, ThreadInv, NoByes
<1>2. adding[c] = {} /\ c \notin tasks /\ c \in retired
  BY DEF IInv, AppGone
<1>3. state[c] = "BROKEN"
  BY <1>1, <1>2 DEF IInv, LeavingInv, Leaving
<1>4. ctx[c] \in {"none", "closing"}
  BY <1>3 DEF IInv, TypeOK, ConnInv, ConnOK, Handshake
<1>5. cur # c
  BY AsyncAssumption DEF IInv, TypeOK
<1>6. queue[c] = {}
  BY <1>1, <1>2, <1>3, <1>5 DEF IInv, SleepInv, Announced, Handshake
<1> QED BY <1>3, <1>4, <1>6

\* uv_run() of LoopDeleter has closed every context.
AllClosed == dtor = "done" => \A c \in Conns : ctx[c] = "none"

LEMMA AllClosedStep ==
    ASSUME IInv, AllClosed, [Next]_vars
    PROVE  AllClosed'
<1> SUFFICES ASSUME dtor' = "done" PROVE \A c \in Conns : ctx'[c] = "none"
  BY DEF AllClosed
<1>1. CASE Destroyed
  BY <1>1 DEF Destroyed, hiredisVars
<1>2. CASE ~Destroyed
  <2>1. dtor = "done"
    BY <1>2 DEF Next, Application, LoopThread, Awaited, Joined, Push, SentinelAnswers, SentinelFails, Add,
       Retire, Unwatch, Notify, ReleaseLoop, WakeUp, BatchEnds, StopCallback, CallEarly, CallReady, CallBroken,
       ConnectBegins, ConnectEnds, Goodbye, ConnectSucceeds, ConnectFails, HandshakeAccepted,
       HandshakeRejected, Reply, Close, Lost, loopVars, vars
  <2>2. lpc = "ended" /\ ~Callback /\ \A c \in Conns : ctx[c] = "none"
    BY <2>1 DEF IInv, ThreadInv, Callback, AllClosed
  <2>3. ctx' = ctx
    BY <1>2, <2>1, <2>2 DEF Next, Application, LoopThread, Awaited, Joined, Push, SentinelAnswers,
       SentinelFails, Add, Retire, Unwatch, Notify, ReleaseLoop, WakeUp, BatchEnds, StopCallback, CallEarly,
       CallReady, CallBroken, ConnectBegins, ConnectEnds, Goodbye, ConnectSucceeds, ConnectFails,
       HandshakeAccepted, HandshakeRejected, Reply, Close, Lost, connVars, hiredisVars, vars
  <2> QED BY <2>2, <2>3
<1> QED BY <1>1, <1>2

\* The destructor of the loop leaves nothing behind: uv_run() waits only for
\* contexts that are closing, since no connection is left in another state when
\* the thread has ended; and then every event that was sent is completed.
AllCompleted == dtor = "done" => \A e \in Events \ unsent : completed[e] = 1

THEOREM NothingIsLeft == Spec => [](NobodyLeft /\ AllCompleted)
<1>1. IInv /\ AllClosed => AllCompleted
  <2> SUFFICES ASSUME IInv, AllClosed, dtor = "done", NEW e \in Events \ unsent
               PROVE  completed[e] = 1
    BY DEF AllCompleted
  <2>1. \A c \in Conns : queue[c] = {}
    BY EndedLeavesNobody DEF IInv, ThreadInv, NobodyLeft
  <2>2. \A c \in Conns : sent[c] = {}
    BY DEF AllClosed, IInv, ConnInv, ConnOK
  <2>3. Pending(e) = {}
    BY <2>1, <2>2 DEF Pending
  <2> QED BY <2>3 DEF IInv, CompletedOnce
<1>2. Init => AllClosed
  BY DEF Init, AllClosed
<1>3. Spec => []AllClosed
  BY <1>2, AllClosedStep, Inductive, PTL DEF Spec
<1> QED BY <1>1, <1>3, EndedLeavesNobody, Inductive, PTL

-----------------------------------------------------------------------------
(***************************************************************************)
(* AsyncConnectionPool, for any threads, nodes, roles, size and bound.     *)
(*                                                                         *)
(* The inductive invariant is in four parts, each kept by every step given *)
(* the first: the types with what the threads, the worker and the end of   *)
(* the pool have to do with each other (PoolBase), the addresses that are  *)
(* connected to (Addresses), who is on the way to a connection (Links) and *)
(* who has it (Ownership).                                                 *)
(***************************************************************************)
\* What the threads, the worker and the end of the pool have to do with each other.
Callers ==
    /\ \A t \in Threads : pc[t] = "out" <=> held[t] = 0
    /\ life # "live" => \A t \in Threads : pc[t] = "out"
    /\ life = "gone" => pool = <<>>
    /\ lookup # "idle" => taskList # <<>> /\ life # "gone"
    /\ lookup = "found" => node \in Nodes

PoolBase == PoolTypeOK /\ Callers

LEMMA HeadAndTail ==
    ASSUME NEW S, NEW s \in Seq(S), s # <<>>
    PROVE  /\ Head(s) \in S /\ Tail(s) \in Seq(S) /\ Len(s) \in Nat \ {0} /\ Len(Tail(s)) = Len(s) - 1
           /\ Range(s) = {Head(s)} \cup Range(Tail(s))
<1>1. /\ Head(s) \in S /\ Tail(s) \in Seq(S) /\ Len(s) \in Nat \ {0} /\ Len(Tail(s)) = Len(s) - 1
      /\ Head(s) = s[1] /\ \A i \in 1..Len(s) - 1 : Tail(s)[i] = s[i + 1]
      /\ DOMAIN s = 1..Len(s) /\ DOMAIN Tail(s) = 1..Len(s) - 1
  OBVIOUS
<1>2. ASSUME NEW x \in Range(s) PROVE x \in {Head(s)} \cup Range(Tail(s))
  <2>1. PICK i \in 1..Len(s) : x = s[i]
    BY <1>1 DEF Range
  <2>2. CASE i = 1
    BY <1>1, <2>1, <2>2
  <2>3. CASE i # 1
    <3>1. i - 1 \in 1..Len(s) - 1 /\ (i - 1) + 1 = i
      BY <1>1, <2>3
    <3>2. Tail(s)[i - 1] = x
      BY ONLY <1>1, <2>1, <3>1
    <3> QED BY <1>1, <3>1, <3>2 DEF Range
  <2> QED BY <2>2, <2>3
<1>3. ASSUME NEW x \in Range(Tail(s)) PROVE x \in Range(s)
  <2>1. PICK i \in 1..Len(s) - 1 : x = Tail(s)[i]
    BY <1>1 DEF Range
  <2>2. i + 1 \in 1..Len(s)
    BY <1>1
  <2> QED BY <1>1, <2>1, <2>2 DEF Range
<1>4. Head(s) \in Range(s)
  BY <1>1 DEF Range
<1> QED BY <1>1, <1>2, <1>3, <1>4

LEMMA Appending ==
    ASSUME NEW S, NEW s \in Seq(S), NEW x \in S
    PROVE  /\ Append(s, x) \in Seq(S) /\ Append(s, x) # <<>> /\ Len(Append(s, x)) = Len(s) + 1
           /\ Len(s) \in Nat /\ Range(Append(s, x)) = Range(s) \cup {x}
<1>1. /\ Append(s, x) \in Seq(S) /\ Len(Append(s, x)) = Len(s) + 1 /\ Len(s) \in Nat
      /\ \A i \in 1..Len(s) : Append(s, x)[i] = s[i]
      /\ Append(s, x)[Len(s) + 1] = x
      /\ DOMAIN s = 1..Len(s) /\ DOMAIN Append(s, x) = 1..Len(s) + 1
  OBVIOUS
<1>2. Append(s, x) # <<>>
  BY <1>1
<1>3. ASSUME NEW y \in Range(Append(s, x)) PROVE y \in Range(s) \cup {x}
  <2>1. PICK i \in 1..Len(s) + 1 : y = Append(s, x)[i]
    BY <1>1 DEF Range
  <2>2. i \in 1..Len(s) \/ i = Len(s) + 1
    BY <1>1
  <2> QED BY <1>1, <2>1, <2>2 DEF Range
<1>4. ASSUME NEW y \in Range(s) \cup {x} PROVE y \in Range(Append(s, x))
  <2>1. CASE y = x
    <3>1. Len(s) + 1 \in 1..Len(s) + 1
      BY <1>1
    <3> QED BY <1>1, <2>1, <3>1 DEF Range
  <2>2. CASE y \in Range(s)
    <3>1. PICK i \in 1..Len(s) : y = s[i]
      BY <1>1, <2>2 DEF Range
    <3>2. i \in 1..Len(s) + 1
      BY <1>1
    <3> QED BY <1>1, <3>1, <3>2 DEF Range
  <2> QED BY <2>1, <2>2
<1> QED BY <1>1, <1>2, <1>3, <1>4

\* What one callback of the loop leaves of a connection.
LEMMA CallbackIs ==
    ASSUME NEW k \in Connection, NEW j \in EventCallback(k)
    PROVE  /\ j \in Connection
           /\ \/ j = NoConnection
              \/ j = k /\ (k.link = "READY" \/ (k.link = "WAIT_SENTINEL" /\ k.host = NoHost))
              \/ /\ k.link = "NOT_CONNECTED" \/ HasAddress(k)
                 /\ j = [k EXCEPT !.link = "READY", !.peer = k.host]
              \/ k.link = "BROKEN" /\ j = [k EXCEPT !.events = <<>>]
<1>1. NoConnection \in Connection
  BY DEF NoConnection, Connection, Hosts
<1>2. /\ [k EXCEPT !.link = "READY", !.peer = k.host] \in Connection
      /\ [k EXCEPT !.events = <<>>] \in Connection
  <2>1. <<>> \in Seq(Threads)
    OBVIOUS
  <2>2. [k EXCEPT !.events = <<>>] \in Connection
    BY <2>1 DEF Connection
  <2>3. [k EXCEPT !.link = "READY", !.peer = k.host] \in Connection
    BY DEF Connection
  <2> QED BY <2>2, <2>3
<1>3. k.link \in {"WAIT_SENTINEL", "NOT_CONNECTED", "READY", "BROKEN"}
  BY DEF Connection
<1>4. CASE HasAddress(k) \/ k.link = "NOT_CONNECTED"
  BY <1>1, <1>2, <1>4 DEF EventCallback, Connect, Fail
<1>5. CASE k.link = "BROKEN"
  <2>1. ~HasAddress(k) /\ k.link # "NOT_CONNECTED"
    BY <1>5 DEF HasAddress
  <2>2. EventCallback(k) = {[k EXCEPT !.events = <<>>]}
    BY <1>5, <2>1 DEF EventCallback
  <2> QED BY <1>2, <1>5, <2>2
<1>6. CASE ~HasAddress(k) /\ k.link # "NOT_CONNECTED" /\ k.link # "BROKEN"
  <2>1. EventCallback(k) = {k}
    BY <1>6 DEF EventCallback
  <2>2. j = k
    BY <2>1
  <2> QED BY <1>3, <1>6, <2>2 DEF HasAddress
<1> QED BY <1>4, <1>5, <1>6

\* What the loop has done of a connection when it has run.
LEMMA LoopRunsIs ==
    ASSUME PoolTypeOK, NEW c \in Ids, LoopRuns(c)
    PROVE  /\ todo[c] # {} /\ todo' = [todo EXCEPT ![c] = {}]
           /\ UNCHANGED <<lookupVars, poolVars, callerVars, taskList>>
           /\ conn' = [conn EXCEPT ![c] = conn'[c]] /\ conn'[c] \in Connection
           /\ \/ conn'[c] = NoConnection
              \/ /\ todo[c] \cap {"flush", "drop"} = {}
                 /\ \/ conn'[c] = conn[c] /\ (conn[c].link = "READY" \/ (conn[c].link = "WAIT_SENTINEL" /\ conn[c].host = NoHost))
                    \/ /\ conn[c].link = "NOT_CONNECTED" \/ HasAddress(conn[c])
                       /\ conn'[c].link = "READY" /\ conn'[c].peer = conn[c].host
                    \/ conn'[c].link = "BROKEN" /\ conn'[c].events = <<>>
<1>1. conn[c] \in Connection /\ DOMAIN conn = Ids /\ NoConnection \in Connection
  BY DEF PoolTypeOK, NoConnection, Connection, Hosts
<1>2. PICK k \in IF todo[c] = {"drop"} THEN {conn[c]} ELSE EventCallback(conn[c]) :
         conn' = [conn EXCEPT ![c] = IF todo[c] \cap {"flush", "drop"} # {} THEN Fail(k) ELSE k]
  BY DEF LoopRuns
<1>3. CASE todo[c] \cap {"flush", "drop"} # {}
  BY <1>1, <1>2, <1>3 DEF LoopRuns, Fail
<1>4. CASE todo[c] \cap {"flush", "drop"} = {}
  <2>1. k \in EventCallback(conn[c]) /\ conn' = [conn EXCEPT ![c] = k] /\ conn'[c] = k
    BY <1>1, <1>2, <1>4
  <2>2. /\ k \in Connection
        /\ \/ k = NoConnection
           \/ k = conn[c] /\ (conn[c].link = "READY" \/ (conn[c].link = "WAIT_SENTINEL" /\ conn[c].host = NoHost))
           \/ /\ conn[c].link = "NOT_CONNECTED" \/ HasAddress(conn[c])
              /\ k = [conn[c] EXCEPT !.link = "READY", !.peer = conn[c].host]
           \/ conn[c].link = "BROKEN" /\ k = [conn[c] EXCEPT !.events = <<>>]
    BY ONLY <1>1, <2>1, CallbackIs
  <2>3. /\ k = [conn[c] EXCEPT !.link = "READY", !.peer = conn[c].host] => k.link = "READY" /\ k.peer = conn[c].host
        /\ conn[c].link = "BROKEN" /\ k = [conn[c] EXCEPT !.events = <<>>] => k.link = "BROKEN" /\ k.events = <<>>
    BY <1>1 DEF Connection
  <2> QED BY <1>4, <2>1, <2>2, <2>3 DEF LoopRuns
<1> QED BY <1>3, <1>4

\* The worker lets go of the pool, which may have been the last to have it.
LEMMA LetPoolGoIs ==
    ASSUME PoolTypeOK, NEW rest \in [Ids -> SUBSET {"event", "flush", "drop"}], LetPoolGo(rest)
    PROVE  /\ UNCHANGED <<opts, used>> /\ todo' \in [Ids -> SUBSET {"event", "flush", "drop"}]
           /\ \A c \in Ids : rest[c] \subseteq todo'[c]
           /\ \/ life # "dropped" /\ UNCHANGED <<life, pool>>
              \/ /\ life = "dropped" /\ life' = "gone" /\ pool' = <<>>
                 /\ \A c \in Ids \cap Elements(pool) : "flush" \in todo'[c]
BY DEF LetPoolGo, Destruct, poolVars

\* A new connection.
LEMMA CreateIs ==
    ASSUME PoolTypeOK, NEW t \in Threads, NEW c \in Ids, NEW h \in Hosts, Create(t, c, h)
    PROVE  /\ UNCHANGED lookupVars
           /\ held' = [held EXCEPT ![t] = c]
           /\ conn' = [conn EXCEPT ![c] = conn'[c]] /\ conn'[c] \in Connection
           /\ conn'[c].host = h /\ conn'[c].events = <<>>
           /\ conn'[c].link = (IF role = "none" THEN "NOT_CONNECTED" ELSE "WAIT_SENTINEL")
           /\ taskList' \in Seq(Ids)
           /\ \A d \in Ids : d \in Elements(taskList) => d \in Elements(taskList')
           /\ role # "none" => c \in Elements(taskList')
           /\ taskList # <<>> => taskList' # <<>>
           /\ c \notin Elements(pool) \cup Elements(taskList) /\ todo[c] = {}
           /\ \A u \in Threads : held[u] # c
<1>1. NoConnection \in Connection /\ NoConnection.events = <<>> /\ conn \in [Ids -> Connection]
  BY DEF PoolTypeOK, NoConnection, Connection, Hosts
<1> DEFINE k == [NoConnection EXCEPT !.host = h, !.link = IF role = "none" THEN "NOT_CONNECTED" ELSE "WAIT_SENTINEL"]
<1>2. /\ k \in Connection /\ k.host = h /\ k.events = <<>>
      /\ k.link = (IF role = "none" THEN "NOT_CONNECTED" ELSE "WAIT_SENTINEL")
  BY <1>1 DEF Connection
<1> HIDE DEF k
<1>3. conn' = [conn EXCEPT ![c] = k]
  BY DEF Create, k
<1>4. conn'[c] = k /\ conn' = [conn EXCEPT ![c] = conn'[c]]
  BY ONLY <1>1, <1>3
<1>5. /\ taskList' \in Seq(Ids) /\ (taskList # <<>> => taskList' # <<>>)
      /\ \A d \in Ids : d \in Elements(taskList) => d \in Elements(taskList')
      /\ role # "none" => c \in Elements(taskList')
  <2>1. taskList \in Seq(Ids) /\ (taskList' = IF role = "none" THEN taskList ELSE Append(taskList, c))
    BY DEF Create, PoolTypeOK
  <2>2. /\ Append(taskList, c) \in Seq(Ids) /\ Append(taskList, c) # <<>>
        /\ Range(Append(taskList, c)) = Range(taskList) \cup {c}
    BY ONLY <2>1, Appending
  <2> QED BY <2>1, <2>2 DEF Elements
<1> QED BY <1>2, <1>4, <1>5 DEF Create, Referenced

LEMMA PoolBaseInit == PoolInit => PoolBase
BY AsyncPoolAssumption, NodesAssumption
   DEF PoolInit, PoolBase, PoolTypeOK, Callers, LookupInit, LookupTypeOK, Hosts, Nothing, NoConnection, Connection, Ids

LEMMA FetchNewTypes ==
    ASSUME PoolBase, NEW t \in Threads, FetchNew(t)
    PROVE  PoolBase'
<1>1. PICK c \in Ids : Create(t, c, opts)
  BY DEF FetchNew
<1>2. opts \in Hosts /\ used \in 0..Size /\ used # Size /\ life = "live"
  BY DEF FetchNew, CallsFetch, PoolBase, PoolTypeOK
<1>3. used' \in 0..Size
  BY <1>2, AsyncPoolAssumption DEF FetchNew
<1>4. c # 0
  BY DEF Ids
<1>5. /\ UNCHANGED lookupVars /\ held' = [held EXCEPT ![t] = c] /\ conn' = [conn EXCEPT ![c] = conn'[c]]
      /\ conn'[c] \in Connection /\ taskList' \in Seq(Ids) /\ (taskList # <<>> => taskList' # <<>>)
  BY <1>1, <1>2, CreateIs DEF PoolBase
<1>6. held' \in [Threads -> Ids \cup {0}] /\ conn' \in [Ids -> Connection] /\ pc' \in [Threads -> {"out", "checking", "using"}]
  BY <1>5 DEF FetchNew, Move, PoolBase, PoolTypeOK
<1>7. PoolTypeOK'
  BY <1>3, <1>5, <1>6 DEF FetchNew, PoolBase, PoolTypeOK, lookupVars, LookupTypeOK
<1>8. Callers'
  BY <1>2, <1>4, <1>5 DEF FetchNew, Move, PoolBase, PoolTypeOK, Callers, lookupVars
<1> QED BY <1>7, <1>8 DEF PoolBase

LEMMA ReplaceTypes ==
    ASSUME PoolBase, NEW t \in Threads, Replace(t)
    PROVE  PoolBase'
<1>1. PICK c \in Ids : Create(t, c, seen[t].opts)
  BY DEF Replace
<1>2. seen[t].opts \in Hosts /\ Nothing \in [opts : Hosts, changed : BOOLEAN]
  BY DEF PoolBase, PoolTypeOK, Nothing, Hosts
<1>3. c # 0 /\ held[t] \in Ids
  BY DEF Replace, PoolBase, Callers, PoolTypeOK, Ids
<1>4. PoolTypeOK'
  <2>1. todo' \in [Ids -> SUBSET {"event", "flush", "drop"}]
    BY <1>3 DEF Replace, PoolBase, PoolTypeOK
  <2>2. /\ UNCHANGED lookupVars /\ held' = [held EXCEPT ![t] = c] /\ conn' = [conn EXCEPT ![c] = conn'[c]]
        /\ conn'[c] \in Connection /\ taskList' \in Seq(Ids)
    BY <1>1, <1>2, CreateIs DEF PoolBase
  <2>3. /\ held' \in [Threads -> Ids \cup {0}] /\ conn' \in [Ids -> Connection] /\ pc' \in [Threads -> {"out", "checking", "using"}]
        /\ seen' \in [Threads -> [opts : Hosts, changed : BOOLEAN]]
    BY <1>2, <2>2 DEF Replace, Move, PoolBase, PoolTypeOK
  <2> QED BY <2>1, <2>2, <2>3 DEF Replace, PoolBase, PoolTypeOK, poolVars, lookupVars, LookupTypeOK
<1>5. Callers'
  BY <1>1, <1>2, <1>3, CreateIs DEF Replace, Move, PoolBase, PoolTypeOK, Callers, poolVars, lookupVars
<1> QED BY <1>4, <1>5 DEF PoolBase

LEMMA ThreadTypes ==
    ASSUME PoolBase, NEW t \in Threads, Thread(t)
    PROVE  PoolBase'
<1>1. CASE FetchNew(t)
  BY <1>1, FetchNewTypes
<1>2. CASE FetchIdle(t)
  <2>1. Head(pool) \in Ids /\ Tail(pool) \in Seq(Ids) /\ Head(pool) # 0
    <3>1. pool \in Seq(Ids) /\ pool # <<>> /\ \A i \in Ids : i # 0
      BY <1>2 DEF FetchIdle, PoolBase, PoolTypeOK, Ids
    <3> QED BY ONLY <3>1, HeadAndTail
  <2>2. [opts |-> opts, changed |-> RoleChanged(Head(pool))] \in [opts : Hosts, changed : BOOLEAN]
    BY DEF PoolBase, PoolTypeOK, RoleChanged
  <2>3. PoolTypeOK'
    BY <1>2, <2>1, <2>2 DEF FetchIdle, Move, PoolBase, PoolTypeOK, lookupVars, LookupTypeOK
  <2>4. Callers'
    BY <1>2, <2>1 DEF FetchIdle, CallsFetch, Move, PoolBase, PoolTypeOK, Callers, lookupVars
  <2> QED BY <2>3, <2>4 DEF PoolBase
<1>3. CASE Keep(t)
  <2>1. Nothing \in [opts : Hosts, changed : BOOLEAN]
    BY DEF Nothing, Hosts
  <2> QED BY <1>3, <2>1 DEF Keep, Move, PoolBase, PoolTypeOK, Callers, lookupVars, LookupTypeOK, poolVars
<1>4. CASE Replace(t)
  BY <1>4, ReplaceTypes
<1>5. CASE SendAndRelease(t)
  <2>1. held[t] \in Ids /\ pool \in Seq(Ids)
    BY <1>5 DEF SendAndRelease, PoolBase, Callers, PoolTypeOK
  <2>2. pool' \in Seq(Ids)
    BY <1>5, <2>1, Appending DEF SendAndRelease
  <2>3. conn[held[t]].events \in Seq(Threads) /\ Append(conn[held[t]].events, t) \in Seq(Threads)
    BY <2>1 DEF PoolBase, PoolTypeOK, Connection
  <2>4. conn' \in [Ids -> Connection]
    <3>1. [conn[held[t]] EXCEPT !.events = Append(conn[held[t]].events, t)] \in Connection
      <4> DEFINE k == conn[held[t]]
      <4>1. k \in Connection /\ Append(k.events, t) \in Seq(Threads)
        BY <2>1, <2>3 DEF PoolBase, PoolTypeOK
      <4> HIDE DEF k
      <4>2. [k EXCEPT !.events = Append(k.events, t)] \in Connection
        BY ONLY <4>1 DEF Connection
      <4> QED BY <4>2 DEF k
    <3>2. conn' = [conn EXCEPT ![held[t]] = [conn[held[t]] EXCEPT !.events = Append(conn[held[t]].events, t)]]
      BY <1>5 DEF SendAndRelease
    <3> QED BY <2>1, <3>1, <3>2 DEF PoolBase, PoolTypeOK
  <2>5. todo' \in [Ids -> SUBSET {"event", "flush", "drop"}]
    BY <1>5, <2>1 DEF SendAndRelease, PoolBase, PoolTypeOK
  <2>6. PoolTypeOK'
    BY <1>5, <2>2, <2>4, <2>5 DEF SendAndRelease, Move, PoolBase, PoolTypeOK, lookupVars, LookupTypeOK
  <2>7. Callers'
    BY <1>5 DEF SendAndRelease, Move, PoolBase, PoolTypeOK, Callers, lookupVars
  <2> QED BY <2>6, <2>7 DEF PoolBase
<1> QED BY <1>1, <1>2, <1>3, <1>4, <1>5 DEF Thread

LEMMA DropPoolIs ==
    ASSUME PoolTypeOK, DropPool
    PROVE  /\ UNCHANGED <<lookupVars, callerVars, conn, taskList, opts, used>>
           /\ \A t \in Threads : pc[t] = "out"
           /\ life = "live" /\ todo' \in [Ids -> SUBSET {"event", "flush", "drop"}]
           /\ \A c \in Ids : todo[c] \subseteq todo'[c]
           /\ \/ life' = "dropped" /\ pool' = pool
              \/ /\ lookup = "idle" /\ life' = "gone" /\ pool' = <<>>
                 /\ \A c \in Ids \cap Elements(pool) : "flush" \in todo'[c]
<1>1. todo \in [Ids -> SUBSET {"event", "flush", "drop"}]
  BY DEF PoolTypeOK
<1>2. CASE lookup = "idle"
  <2>1. Destruct(todo)
    BY <1>2 DEF DropPool
  <2> QED BY <1>1, <1>2, <2>1 DEF DropPool, Destruct
<1>3. CASE lookup # "idle"
  BY <1>1, <1>3 DEF DropPool
<1> QED BY <1>2, <1>3

LEMMA DropPoolTypes ==
    ASSUME PoolBase, DropPool
    PROVE  PoolBase'
<1>1. PoolTypeOK'
  <2>1. <<>> \in Seq(Ids)
    OBVIOUS
  <2>2. /\ UNCHANGED <<lookupVars, callerVars, conn, taskList, opts, used>>
        /\ todo' \in [Ids -> SUBSET {"event", "flush", "drop"}]
        /\ life' \in {"dropped", "gone"} /\ (pool' = pool \/ pool' = <<>>)
    BY DropPoolIs DEF PoolBase
  <2> QED BY <2>1, <2>2 DEF PoolBase, PoolTypeOK, lookupVars, LookupTypeOK, callerVars
<1>2. Callers'
  BY DropPoolIs DEF PoolBase, Callers, lookupVars, callerVars
<1> QED BY <1>1, <1>2 DEF PoolBase

\* A step of the loop or of the server at one connection.
LEMMA ConnectionTypes ==
    ASSUME PoolBase, NEW c \in Ids, LoopRuns(c) \/ Answer(c) \/ Lose(c)
    PROVE  PoolBase'
<1>1. conn' \in [Ids -> Connection] /\ todo' \in [Ids -> SUBSET {"event", "flush", "drop"}]
  <2>1. CASE LoopRuns(c)
    BY <2>1, LoopRunsIs DEF PoolBase, PoolTypeOK
  <2>2. CASE Answer(c)
    <3>1. conn[c].events \in Seq(Threads) /\ conn[c].events # <<>> /\ Tail(conn[c].events) \in Seq(Threads)
      BY <2>2, HeadAndTail DEF Answer, PoolBase, PoolTypeOK, Connection
    <3> QED BY <2>2, <3>1 DEF Answer, PoolBase, PoolTypeOK, Connection
  <2>3. CASE Lose(c)
    BY <2>3 DEF Lose, Fail, NoConnection, Connection, Hosts, PoolBase, PoolTypeOK
  <2> QED BY <2>1, <2>2, <2>3
<1>2. UNCHANGED <<lookupVars, poolVars, callerVars, taskList>>
  BY LoopRunsIs DEF Answer, Lose, PoolBase
<1> QED BY <1>1, <1>2 DEF PoolBase, PoolTypeOK, Callers, lookupVars, LookupTypeOK, poolVars, callerVars

\* The end of a task.
LEMMA TaskDoneIs ==
    ASSUME PoolBase, taskList # <<>>, TaskDone
    PROVE  /\ Head(taskList) \in Ids /\ taskList' \in Seq(Ids)
           /\ Elements(taskList) = {Head(taskList)} \cup Elements(taskList')
           /\ UNCHANGED <<pc, held, seen>>
BY HeadAndTail DEF TaskDone, PoolBase, PoolTypeOK, Elements, callerVars

LEMMA WorkerTypes ==
    ASSUME PoolBase, Worker
    PROVE  PoolBase'
<1>1. CASE RunTask
  BY <1>1 DEF RunTask, BeginLookup, PoolBase, PoolTypeOK, Callers, LookupTypeOK, poolVars, callerVars
<1>2. CASE GiveUpTask
  BY <1>2, TaskDoneIs DEF GiveUpTask, PoolBase, PoolTypeOK, Callers, lookupVars, LookupTypeOK, poolVars
<1>3. CASE Asked
  BY <1>3 DEF Asked, LookupFails, Find, PoolBase, PoolTypeOK, Callers, LookupTypeOK, poolVars, callerVars
<1>4. CASE UpdatePool
  BY <1>4 DEF UpdatePool, PoolBase, PoolTypeOK, Callers, lookupVars, LookupTypeOK, Hosts, callerVars
<1>5. CASE UpdateConnection \/ UpdateFails
  <2>1. EndLookup /\ TaskDone /\ taskList # <<>> /\ life # "gone"
    BY <1>5 DEF UpdateConnection, UpdateFails, PoolBase, Callers
  <2>2. PICK rest \in [Ids -> SUBSET {"event", "flush", "drop"}] : LetPoolGo(rest)
    BY <1>5, <2>1, TaskDoneIs DEF UpdateConnection, UpdateFails, PoolBase, PoolTypeOK
  <2>3. conn' \in [Ids -> Connection]
    <3>1. Head(taskList) \in Ids /\ conn \in [Ids -> Connection] /\ opts \in Hosts
      BY <2>1, TaskDoneIs DEF PoolBase, PoolTypeOK
    <3> DEFINE k == conn[Head(taskList)]
    <3>2. \A h \in Hosts : [k EXCEPT !.host = h] \in Connection
      BY <3>1 DEF Connection
    <3>3. k.host \in Hosts
      BY <3>1 DEF Connection
    <3>4. conn' = conn \/ conn' = [conn EXCEPT ![Head(taskList)] = [k EXCEPT !.host = IF k.link = "BROKEN" THEN k.host ELSE opts]]
      BY <1>5 DEF UpdateConnection, UpdateFails
    <3> HIDE DEF k
    <3> QED BY ONLY <3>1, <3>2, <3>3, <3>4
  <2>4. PoolTypeOK'
    <3>1. /\ UNCHANGED <<opts, used>> /\ todo' \in [Ids -> SUBSET {"event", "flush", "drop"}]
          /\ (UNCHANGED <<life, pool>> \/ (life' = "gone" /\ pool' = <<>>))
      BY <2>2, LetPoolGoIs DEF PoolBase
    <3>2. taskList' \in Seq(Ids) /\ UNCHANGED <<pc, held, seen>> /\ <<>> \in Seq(Ids)
      BY <2>1, TaskDoneIs
    <3> QED BY <2>1, <2>3, <3>1, <3>2 DEF PoolBase, PoolTypeOK, EndLookup, LookupTypeOK
  <2>5. Callers'
    BY <2>1, <2>2, TaskDoneIs, LetPoolGoIs DEF PoolBase, Callers, EndLookup
  <2> QED BY <2>4, <2>5 DEF PoolBase
<1> QED BY <1>1, <1>2, <1>3, <1>4, <1>5 DEF Worker

LEMMA FailoverTypes ==
    ASSUME PoolBase, NEW n \in Nodes, Failover(n)
    PROVE  PoolBase'
<1>1. conn' \in [Ids -> Connection]
  BY DEF Failover, Fail, NoConnection, Connection, Hosts, PoolBase, PoolTypeOK
<1> QED BY <1>1 DEF Failover, Promote, PoolBase, PoolTypeOK, Callers, LookupTypeOK, poolVars, callerVars

LEMMA PoolBaseNext ==
    ASSUME PoolBase, [PoolNext]_asyncPoolVars
    PROVE  PoolBase'
<1>1. CASE UNCHANGED asyncPoolVars
  BY <1>1 DEF asyncPoolVars, PoolBase, PoolTypeOK, Callers, lookupVars, LookupTypeOK, poolVars, callerVars
<1> QED BY <1>1, ThreadTypes, DropPoolTypes, ConnectionTypes, WorkerTypes, FailoverTypes DEF PoolNext

-----------------------------------------------------------------------------
\* A connection is only ever made to a node, never to the empty address that
\* it has before the sentinel has answered.
ConnectsToNodes == \A c \in Ids : conn[c].link = "READY" => conn[c].peer \in Nodes

\* Without a sentinel all addresses are known from the beginning.
Addressed ==
    /\ role = "none" => /\ opts \in Nodes
                       /\ \A t \in Threads : pc[t] = "checking" => seen[t].opts \in Nodes
    /\ \A c \in Ids : conn[c].link = "NOT_CONNECTED" => conn[c].host \in Nodes

Addresses == ConnectsToNodes /\ Addressed

LEMMA AddressesNext ==
    ASSUME PoolBase, Addresses, [PoolNext]_asyncPoolVars
    PROVE  Addresses'
<1> USE DEF Addresses, ConnectsToNodes, Addressed
<1>0. /\ conn \in [Ids -> Connection] /\ seen \in [Threads -> [opts : Hosts, changed : BOOLEAN]]
      /\ pc \in [Threads -> {"out", "checking", "using"}] /\ opts \in Hosts
  BY DEF PoolBase, PoolTypeOK
<1>1. ASSUME NEW t \in Threads, FetchNew(t) PROVE Addresses'
  <2>1. PICK c \in Ids : Create(t, c, opts)
    BY <1>1 DEF FetchNew
  <2>2. /\ UNCHANGED lookupVars /\ conn' = [conn EXCEPT ![c] = conn'[c]]
        /\ conn'[c].link = (IF role = "none" THEN "NOT_CONNECTED" ELSE "WAIT_SENTINEL")
        /\ conn'[c].host = opts
    BY <1>0, <2>1, CreateIs DEF PoolBase
  <2> QED BY <1>0, <1>1, <2>2 DEF FetchNew, Move, lookupVars
<1>2. ASSUME NEW t \in Threads, FetchIdle(t) PROVE Addresses'
  BY <1>0, <1>2 DEF FetchIdle, Move, lookupVars
<1>3. ASSUME NEW t \in Threads, Keep(t) PROVE Addresses'
  BY <1>0, <1>3 DEF Keep, Move, lookupVars, poolVars
<1>4. ASSUME NEW t \in Threads, Replace(t) PROVE Addresses'
  <2>1. PICK c \in Ids : Create(t, c, seen[t].opts)
    BY <1>4 DEF Replace
  <2>2. /\ UNCHANGED lookupVars /\ conn' = [conn EXCEPT ![c] = conn'[c]]
        /\ conn'[c].link = (IF role = "none" THEN "NOT_CONNECTED" ELSE "WAIT_SENTINEL")
        /\ conn'[c].host = seen[t].opts
    BY <1>0, <2>1, CreateIs DEF PoolBase
  <2> QED BY <1>0, <1>4, <2>2 DEF Replace, Move, lookupVars, poolVars
<1>5. ASSUME NEW t \in Threads, SendAndRelease(t) PROVE Addresses'
  <2>1. \A c \in Ids : conn'[c].link = conn[c].link /\ conn'[c].host = conn[c].host /\ conn'[c].peer = conn[c].peer
    BY <1>0, <1>5 DEF SendAndRelease, Connection
  <2> QED BY <1>0, <1>5, <2>1 DEF SendAndRelease, Move, lookupVars
<1>6. CASE DropPool
  BY <1>6, DropPoolIs DEF PoolBase, lookupVars, callerVars
<1>7. ASSUME NEW c \in Ids, LoopRuns(c) PROVE Addresses'
  <2>1. conn' = [conn EXCEPT ![c] = conn'[c]] /\ UNCHANGED <<lookupVars, poolVars, callerVars>>
    BY <1>7, LoopRunsIs DEF PoolBase
  <2>2. /\ conn'[c].link = "READY" => conn'[c].peer \in Nodes
        /\ conn'[c].link # "NOT_CONNECTED"
    <3>1. \/ conn'[c].link = "BROKEN"
          \/ conn'[c] = conn[c] /\ (conn[c].link = "READY" \/ conn[c].link = "WAIT_SENTINEL")
          \/ /\ conn[c].link = "NOT_CONNECTED" \/ HasAddress(conn[c])
             /\ conn'[c].link = "READY" /\ conn'[c].peer = conn[c].host
      BY <1>7, LoopRunsIs DEF PoolBase, NoConnection
    <3>2. HasAddress(conn[c]) => conn[c].host \in Nodes
      BY <1>0 DEF HasAddress, Connection, Hosts
    <3> QED BY <3>1, <3>2
  <2> QED BY <1>0, <2>1, <2>2 DEF lookupVars, poolVars, callerVars
<1>8. ASSUME NEW c \in Ids, Answer(c) \/ Lose(c) PROVE Addresses'
  <2>1. \A d \in Ids : \/ conn'[d].link = conn[d].link /\ conn'[d].host = conn[d].host /\ conn'[d].peer = conn[d].peer
                      \/ conn'[d].link = "BROKEN"
    <3>1. CASE Answer(c)
      BY <1>0, <3>1 DEF Answer, Connection
    <3>2. CASE Lose(c)
      <4>1. NoConnection.link = "BROKEN"
        BY DEF NoConnection
      <4> QED BY <1>0, <3>2, <4>1 DEF Lose, Fail
    <3> QED BY <1>8, <3>1, <3>2
  <2>2. UNCHANGED <<lookupVars, poolVars, callerVars>>
    BY <1>8 DEF Answer, Lose
  <2> QED BY <2>1, <2>2 DEF lookupVars, poolVars, callerVars
<1>9. CASE RunTask \/ GiveUpTask \/ Asked
  <2>1. UNCHANGED <<role, opts, pc, seen, conn>>
    BY <1>9 DEF RunTask, GiveUpTask, Asked, BeginLookup, LookupFails, Find, TaskDone, lookupVars, poolVars, callerVars
  <2> QED BY <2>1
<1>10. CASE UpdatePool
  BY <1>10 DEF UpdatePool, PoolBase, Callers, lookupVars, callerVars
<1>11. CASE UpdateConnection \/ UpdateFails
  <2>1. TaskDone /\ EndLookup /\ taskList # <<>>
    BY <1>11 DEF UpdateConnection, UpdateFails, PoolBase, Callers
  <2>2. UNCHANGED <<role, pc, seen, opts>>
    <3>1. UNCHANGED opts
      BY <1>11 DEF UpdateConnection, UpdateFails, LetPoolGo, Destruct, poolVars
    <3> QED BY <2>1, <3>1 DEF EndLookup, TaskDone, callerVars
  <2>3. \A d \in Ids : /\ conn'[d].link = conn[d].link /\ conn'[d].peer = conn[d].peer
                      /\ (conn'[d].host = conn[d].host \/ conn'[d].host \in Nodes)
    <3>1. Head(taskList) \in Ids
      BY <2>1, TaskDoneIs
    <3>2. CASE UpdateConnection
      <4>1. opts \in Nodes
        BY <3>2 DEF UpdateConnection, PoolBase, Callers
      <4> QED BY <1>0, <3>1, <3>2, <4>1 DEF UpdateConnection, Connection
    <3> QED BY <1>11, <3>2 DEF UpdateFails
  <2>4. ConnectsToNodes'
    BY <2>3
  <2>5. \A d \in Ids : conn'[d].link = "NOT_CONNECTED" => conn'[d].host \in Nodes
    BY <2>3
  <2> QED BY <2>2, <2>4, <2>5
<1>12. ASSUME NEW n \in Nodes, Failover(n) PROVE Addresses'
  <2>1. \A d \in Ids : conn'[d] = conn[d] \/ conn'[d].link = "BROKEN"
    BY <1>0, <1>12 DEF Failover, Fail, NoConnection
  <2>2. UNCHANGED <<role, opts, pc, seen>>
    BY <1>12 DEF Failover, Promote, poolVars, callerVars
  <2> QED BY <2>1, <2>2
<1>13. CASE UNCHANGED asyncPoolVars
  BY <1>13 DEF asyncPoolVars, lookupVars, poolVars, callerVars
<1> QED BY <1>1, <1>2, <1>3, <1>4, <1>5, <1>6, <1>7, <1>8, <1>9, <1>10, <1>11, <1>12, <1>13
        DEF PoolNext, Thread, Worker

-----------------------------------------------------------------------------
\* A command that waits for its reply is on a connection that is connected; or
\* the loop has been told of its connection; or the worker will tell it.
OnItsWay(c) ==
    \/ conn[c].link = "READY"
    \/ todo[c] # {}
    \/ conn[c].link = "WAIT_SENTINEL" /\ c \in Elements(taskList)

NobodyForgotten == \A c \in Ids : conn[c].events # <<>> => OnItsWay(c)

\* A connection that neither the pool nor a thread has is closed, or the loop
\* has been told to close it.
NothingLeaks == \A c \in Ids : conn[c].link # "BROKEN" => Owned(c) \/ "flush" \in todo[c]

\* A connection without an address has a task that asks for it, or will be closed.
AddressComes ==
    \A c \in Ids : conn[c].link = "WAIT_SENTINEL" /\ conn[c].host = NoHost =>
                      c \in Elements(taskList) \/ todo[c] \cap {"flush", "drop"} # {}

Links == NobodyForgotten /\ NothingLeaks /\ AddressComes

LinkOK(c) ==
    /\ conn[c].events # <<>> => OnItsWay(c)
    /\ conn[c].link # "BROKEN" => Owned(c) \/ "flush" \in todo[c]
    /\ conn[c].link = "WAIT_SENTINEL" /\ conn[c].host = NoHost =>
          c \in Elements(taskList) \/ todo[c] \cap {"flush", "drop"} # {}

LEMMA LinksAre ==
    /\ Links <=> \A c \in Ids : LinkOK(c)
    /\ Links' <=> \A c \in Ids : LinkOK(c)'
BY DEF Links, NobodyForgotten, NothingLeaks, AddressComes, LinkOK

\* What is true of a connection stays true in a step that does not change it, and
\* takes neither it from its owner nor its task without a word to the loop.
LEMMA LinkKept ==
    ASSUME NEW c \in Ids, LinkOK(c), conn'[c] = conn[c], todo[c] \subseteq todo'[c],
           c \in Elements(taskList) => c \in Elements(taskList') \/ todo'[c] \cap {"flush", "drop"} # {},
           Owned(c) => Owned(c)' \/ "flush" \in todo'[c]
    PROVE  LinkOK(c)'
<1>1. \/ ~(conn[c].events # <<>>) \/ OnItsWay(c)' 
  BY DEF LinkOK, OnItsWay, Elements
<1>2. conn'[c].link # "BROKEN" => Owned(c)' \/ "flush" \in todo'[c]
  BY DEF LinkOK
<1>3. conn'[c].link = "WAIT_SENTINEL" /\ conn'[c].host = NoHost =>
         c \in Elements(taskList') \/ todo'[c] \cap {"flush", "drop"} # {}
  BY DEF LinkOK
<1> QED BY <1>1, <1>2, <1>3 DEF LinkOK, Elements

LEMMA ClosedIsOK ==
    ASSUME NEW c \in Ids, conn'[c].link = "BROKEN", conn'[c].events = <<>>
    PROVE  LinkOK(c)'
BY DEF LinkOK

LEMMA ElementsNext == Elements(pool)' = Elements(pool') /\ Elements(taskList)' = Elements(taskList')
BY DEF Elements

\* A new connection, and an old one that its thread gives back for it.
LEMMA CreateLinks ==
    ASSUME PoolBase, Links, NEW t \in Threads, NEW c \in Ids, NEW h \in Hosts, Create(t, c, h),
           pool' = pool, \A d \in Ids : todo[d] \subseteq todo'[d],
           held[t] \in Ids => "flush" \in todo'[held[t]]
    PROVE  Links'
<1>1. /\ held' = [held EXCEPT ![t] = c] /\ held \in [Threads -> Ids \cup {0}]
      /\ conn' = [conn EXCEPT ![c] = conn'[c]] /\ conn \in [Ids -> Connection]
      /\ conn'[c].events = <<>>
      /\ conn'[c].link = (IF role = "none" THEN "NOT_CONNECTED" ELSE "WAIT_SENTINEL")
      /\ \A d \in Ids : d \in Elements(taskList) => d \in Elements(taskList')
      /\ role # "none" => c \in Elements(taskList')
  BY CreateIs DEF PoolBase, PoolTypeOK
<1>2. LinkOK(c)'
  <2>1. Owned(c)'
    BY <1>1 DEF Owned
  <2> QED BY <1>1, <2>1, ElementsNext DEF LinkOK
<1>3. ASSUME NEW d \in Ids, d # c PROVE LinkOK(d)'
  <2>1. Owned(d) => Owned(d)' \/ "flush" \in todo'[d]
    BY <1>1, ElementsNext DEF Owned
  <2>2. conn'[d] = conn[d]
    BY <1>1, <1>3
  <2> QED BY <1>1, <2>1, <2>2, LinksAre, LinkKept
<1> QED BY <1>2, <1>3, LinksAre

LEMMA ThreadLinks ==
    ASSUME PoolBase, Links, NEW t \in Threads, Thread(t)
    PROVE  Links'
<1>0. /\ conn \in [Ids -> Connection] /\ held \in [Threads -> Ids \cup {0}] /\ pool \in Seq(Ids)
      /\ todo \in [Ids -> SUBSET {"event", "flush", "drop"}] /\ opts \in Hosts /\ seen[t].opts \in Hosts
      /\ pc[t] = "out" <=> held[t] = 0
  BY DEF PoolBase, PoolTypeOK, Callers
<1>1. CASE FetchNew(t)
  <2>1. PICK c \in Ids : Create(t, c, opts)
    BY <1>1 DEF FetchNew
  <2>2. UNCHANGED <<pool, todo>> /\ held[t] = 0
    BY <1>0, <1>1 DEF FetchNew, CallsFetch
  <2>3. held[t] \notin Ids
    BY <2>2 DEF Ids
  <2> QED BY <1>0, <2>1, <2>2, <2>3, CreateLinks
<1>2. CASE FetchIdle(t)
  <2>1. Elements(pool) = {Head(pool)} \cup Elements(pool') /\ held[t] = 0 /\ held' = [held EXCEPT ![t] = Head(pool)]
    BY <1>0, <1>2, HeadAndTail DEF FetchIdle, CallsFetch, Elements
  <2>2. \A c \in Ids : Owned(c) => Owned(c)'
    <3>1. \A c \in Ids : c # 0
      BY DEF Ids
    <3> QED BY <1>0, <2>1, <3>1, ElementsNext DEF Owned
  <2> QED BY <1>2, <2>2, LinksAre, LinkKept DEF FetchIdle
<1>3. CASE Keep(t)
  <2>1. UNCHANGED <<pool, held, conn, todo, taskList>>
    BY <1>3 DEF Keep, poolVars
  <2>2. ASSUME NEW c \in Ids PROVE LinkOK(c)'
    <3>1. Owned(c) => Owned(c)'
      BY <2>1, ElementsNext DEF Owned
    <3> QED BY <2>1, <3>1, LinksAre, LinkKept
  <2> QED BY <2>2, LinksAre
<1>4. CASE Replace(t)
  <2>1. PICK c \in Ids : Create(t, c, seen[t].opts)
    BY <1>4 DEF Replace
  <2>2. held[t] \in Ids
    BY <1>0, <1>4 DEF Replace
  <2>3. /\ pool' = pool /\ \A d \in Ids : todo[d] \subseteq todo'[d]
        /\ "flush" \in todo'[held[t]]
    BY <1>0, <1>4, <2>2 DEF Replace, poolVars
  <2> QED BY <1>0, <2>1, <2>3, CreateLinks
<1>5. CASE SendAndRelease(t)
  <2>1. held[t] \in Ids
    BY <1>0, <1>5 DEF SendAndRelease
  <2>2. /\ Elements(pool') = Elements(pool) \cup {held[t]} /\ held' = [held EXCEPT ![t] = 0]
        /\ todo' = [todo EXCEPT ![held[t]] = @ \cup {"event"}] /\ taskList' = taskList
    BY <1>0, <1>5, <2>1, Appending DEF SendAndRelease, Elements
  <2>3. \A c \in Ids : Owned(c) => Owned(c)'
    BY <1>0, <2>1, <2>2, ElementsNext DEF Owned
  <2>4. ASSUME NEW c \in Ids, c = held[t] PROVE LinkOK(c)'
    <3>1. Owned(c)' /\ todo'[c] # {}
      BY <1>0, <2>1, <2>2, <2>4, ElementsNext DEF Owned
    <3>2. conn'[c].link = conn[c].link /\ conn'[c].host = conn[c].host /\ todo[c] \subseteq todo'[c]
      BY <1>0, <1>5, <2>1, <2>2, <2>4 DEF SendAndRelease, Connection
    <3>3. LinkOK(c)
      BY LinksAre
    <3> QED BY <2>2, <3>1, <3>2, <3>3, ElementsNext DEF LinkOK, OnItsWay
  <2>5. ASSUME NEW c \in Ids, c # held[t] PROVE LinkOK(c)'
    <3>1. conn'[c] = conn[c] /\ todo'[c] = todo[c]
      BY <1>0, <1>5, <2>1, <2>5 DEF SendAndRelease
    <3> QED BY <2>2, <2>3, <3>1, LinksAre, LinkKept
  <2> QED BY <2>4, <2>5, LinksAre
<1> QED BY <1>1, <1>2, <1>3, <1>4, <1>5 DEF Thread

LEMMA DropPoolLinks ==
    ASSUME PoolBase, Links, DropPool
    PROVE  Links'
<1>1. /\ UNCHANGED <<held, conn, taskList>>
      /\ \A c \in Ids : todo[c] \subseteq todo'[c]
      /\ pool' = pool \/ \A c \in Ids \cap Elements(pool) : "flush" \in todo'[c]
  BY DropPoolIs DEF PoolBase, callerVars
<1>2. \A c \in Ids : Owned(c) => Owned(c)' \/ "flush" \in todo'[c]
  BY <1>1, ElementsNext DEF Owned
<1> QED BY <1>1, <1>2, LinksAre, LinkKept

LEMMA ConnectionLinks ==
    ASSUME PoolBase, Links, NEW c \in Ids, LoopRuns(c) \/ Answer(c) \/ Lose(c)
    PROVE  Links'
<1>0. conn \in [Ids -> Connection] /\ todo \in [Ids -> SUBSET {"event", "flush", "drop"}]
  BY DEF PoolBase, PoolTypeOK
<1>1. UNCHANGED <<lookupVars, poolVars, callerVars, taskList>>
  BY LoopRunsIs DEF Answer, Lose, PoolBase
<1>2. \A d \in Ids : Owned(d) <=> Owned(d)'
  BY <1>1, ElementsNext DEF Owned, poolVars, callerVars
<1>3. ASSUME NEW d \in Ids, d # c PROVE LinkOK(d)'
  <2>1. conn'[d] = conn[d] /\ todo'[d] = todo[d]
    <3>1. conn' = [conn EXCEPT ![c] = conn'[c]] /\ (todo' = todo \/ todo' = [todo EXCEPT ![c] = {}])
      BY <1>0, LoopRunsIs DEF Answer, Lose, PoolBase
    <3> QED BY <1>0, <1>3, <3>1
  <2> QED BY <1>1, <1>2, <2>1, LinksAre, LinkKept
<1>4. LinkOK(c)'
  <2>0. LinkOK(c)
    BY LinksAre
  <2>1. CASE LoopRuns(c)
    <3>1. CASE conn'[c].link = "BROKEN" /\ conn'[c].events = <<>>
      BY <3>1, ClosedIsOK
    <3>2. CASE todo[c] \cap {"flush", "drop"} = {} /\ conn'[c] = conn[c] /\ conn[c].link = "READY"
      BY <1>2, <2>0, <3>2 DEF LinkOK, OnItsWay
    <3>3. CASE /\ todo[c] \cap {"flush", "drop"} = {} /\ conn'[c] = conn[c]
               /\ conn[c].link = "WAIT_SENTINEL" /\ conn[c].host = NoHost
      <4>1. c \in Elements(taskList)
        BY <2>0, <3>3 DEF LinkOK
      <4>2. c \in Elements(taskList')
        BY <1>1, <4>1
      <4> QED BY <1>2, <2>0, <3>3, <4>2, ElementsNext DEF LinkOK, OnItsWay
    <3>4. CASE /\ todo[c] \cap {"flush", "drop"} = {} /\ conn'[c].link = "READY"
               /\ conn[c].link = "NOT_CONNECTED" \/ HasAddress(conn[c])
      BY <1>2, <2>0, <3>4 DEF LinkOK, OnItsWay, HasAddress
    <3>5. NoConnection.link = "BROKEN" /\ NoConnection.events = <<>>
      BY DEF NoConnection
    <3> QED BY <2>1, <3>1, <3>2, <3>3, <3>4, <3>5, LoopRunsIs DEF PoolBase
  <2>2. CASE Answer(c)
    <3>1. conn[c].link = "READY" /\ conn'[c].link = "READY" /\ todo' = todo
      BY <1>0, <2>2 DEF Answer, Connection
    <3> QED BY <1>2, <2>0, <3>1 DEF LinkOK, OnItsWay
  <2>3. CASE Lose(c)
    <3>1. conn'[c] = NoConnection
      BY <1>0, <2>3 DEF Lose, Fail
    <3> QED BY <3>1, ClosedIsOK DEF NoConnection
  <2> QED BY <2>1, <2>2, <2>3
<1> QED BY <1>3, <1>4, LinksAre

LEMMA WorkerLinks ==
    ASSUME PoolBase, Links, Worker
    PROVE  Links'
<1>0. conn \in [Ids -> Connection] /\ todo \in [Ids -> SUBSET {"event", "flush", "drop"}]
  BY DEF PoolBase, PoolTypeOK
<1>1. CASE RunTask \/ Asked \/ UpdatePool
  <2>1. UNCHANGED <<pool, held, conn, todo, taskList>>
    BY <1>1 DEF RunTask, Asked, UpdatePool, poolVars, callerVars
  <2>2. ASSUME NEW c \in Ids PROVE LinkOK(c)'
    <3>1. Owned(c) => Owned(c)'
      BY <2>1, ElementsNext DEF Owned
    <3> QED BY <2>1, <3>1, LinksAre, LinkKept
  <2> QED BY <2>2, LinksAre
<1>2. CASE GiveUpTask
  <2>1. UNCHANGED <<pool, conn, todo>> /\ life = "gone" /\ taskList # <<>> /\ TaskDone
    BY <1>2 DEF GiveUpTask, poolVars
  <2>2. \A c \in Ids : ~Owned(c)
    <3>1. pool = <<>> /\ \A t \in Threads : held[t] = 0
      BY <2>1 DEF PoolBase, Callers
    <3>2. Elements(pool) = {} /\ \A c \in Ids : c # 0
      BY <3>1 DEF Elements, Range, Ids
    <3> QED BY <3>1, <3>2 DEF Owned
  <2>3. ASSUME NEW c \in Ids PROVE LinkOK(c)'
    <3>1. LinkOK(c) /\ ~Owned(c)
      BY <2>2, LinksAre
    <3>2. CASE "flush" \in todo[c]
      BY <2>1, <3>2 DEF LinkOK, OnItsWay
    <3>3. CASE "flush" \notin todo[c]
      <4>1. conn[c].link = "BROKEN"
        BY <3>1, <3>3 DEF LinkOK
      <4> QED BY <2>1, <3>1, <4>1 DEF LinkOK, OnItsWay
    <3> QED BY <3>2, <3>3
  <2> QED BY <2>3, LinksAre
<1>3. CASE UpdateConnection \/ UpdateFails
  <2> DEFINE x == Head(taskList)
  <2>1. TaskDone /\ taskList # <<>>
    BY <1>3 DEF UpdateConnection, UpdateFails, EndLookup, PoolBase, Callers
  <2>2. x \in Ids /\ Elements(taskList) = {x} \cup Elements(taskList') /\ UNCHANGED held
    BY <2>1, TaskDoneIs
  <2>3. PICK rest \in [Ids -> SUBSET {"event", "flush", "drop"}] :
           /\ LetPoolGo(rest) /\ \A c \in Ids : todo[c] \subseteq rest[c]
           /\ UpdateFails => "drop" \in rest[x]
           /\ UpdateConnection => "event" \in rest[x]
    <3> DEFINE Told(what) == [todo EXCEPT ![x] = @ \cup {what}]
    <3>1. ASSUME NEW what \in {"event", "drop"}
          PROVE  /\ Told(what) \in [Ids -> SUBSET {"event", "flush", "drop"}]
                 /\ \A c \in Ids : todo[c] \subseteq Told(what)[c]
                 /\ what \in Told(what)[x]
      BY <1>0, <2>2
    <3>2. CASE UpdateConnection
      <4>1. LetPoolGo(Told("event")) /\ lookup = "found"
        BY <3>2 DEF UpdateConnection
      <4>2. ~UpdateFails
        BY <4>1 DEF UpdateFails
      <4> QED BY <3>1, <4>1, <4>2
    <3>3. CASE UpdateFails
      <4>1. LetPoolGo(Told("drop")) /\ lookup = "failed"
        BY <3>3 DEF UpdateFails
      <4>2. ~UpdateConnection
        BY <4>1 DEF UpdateConnection
      <4> QED BY <3>1, <4>1, <4>2
    <3> QED BY <1>3, <3>2, <3>3
  <2>4. /\ \A c \in Ids : rest[c] \subseteq todo'[c]
        /\ pool' = pool \/ \A c \in Ids \cap Elements(pool) : "flush" \in todo'[c]
    BY <2>3, LetPoolGoIs DEF PoolBase
  <2>5. \A c \in Ids : Owned(c) => Owned(c)' \/ "flush" \in todo'[c]
    BY <2>2, <2>4, ElementsNext DEF Owned
  <2>6. ASSUME NEW c \in Ids, c # x PROVE LinkOK(c)'
    <3>1. conn'[c] = conn[c]
      BY <1>0, <1>3, <2>2, <2>6 DEF UpdateConnection, UpdateFails
    <3>2. todo[c] \subseteq todo'[c]
      BY <2>3, <2>4
    <3>3. c \in Elements(taskList) => c \in Elements(taskList')
      BY <2>2, <2>6
    <3> QED BY <2>5, <3>1, <3>2, <3>3, LinksAre, LinkKept
  <2>7. ASSUME NEW c \in Ids, c = x PROVE LinkOK(c)'
    <3>1. LinkOK(c) /\ todo[c] \subseteq todo'[c] /\ rest[c] \subseteq todo'[c]
      BY <2>3, <2>4, LinksAre
    <3>2. Owned(c) => Owned(c)' \/ "flush" \in todo'[c]
      BY <2>5
    <3>3. CASE UpdateFails
      <4>1. conn' = conn /\ "drop" \in todo'[c]
        BY <2>3, <2>7, <3>1, <3>3 DEF UpdateFails
      <4> QED BY <3>1, <3>2, <4>1 DEF LinkOK, OnItsWay
    <3>4. CASE UpdateConnection
      <4>1. "event" \in todo'[c]
        BY <2>3, <2>7, <3>1, <3>4
      <4>2. opts # NoHost
        BY <3>4, NodesAssumption DEF UpdateConnection, PoolBase, Callers
      <4>3. /\ conn'[c].link = conn[c].link
            /\ conn[c].link # "BROKEN" => conn'[c].host = opts
        BY <1>0, <2>7, <3>4 DEF UpdateConnection, Connection
      <4> QED BY <3>1, <3>2, <4>1, <4>2, <4>3 DEF LinkOK, OnItsWay
    <3> QED BY <1>3, <3>3, <3>4
  <2> QED BY <2>6, <2>7, LinksAre
<1> QED BY <1>1, <1>2, <1>3 DEF Worker

LEMMA LinksNext ==
    ASSUME PoolBase, Links, [PoolNext]_asyncPoolVars
    PROVE  Links'
<1>1. ASSUME NEW n \in Nodes, Failover(n) PROVE Links'
  <2>1. UNCHANGED <<pool, held, todo, taskList>> /\ conn \in [Ids -> Connection]
    BY <1>1 DEF Failover, poolVars, callerVars, PoolBase, PoolTypeOK
  <2>2. \A c \in Ids : Owned(c) => Owned(c)'
    BY <2>1, ElementsNext DEF Owned
  <2>3. ASSUME NEW c \in Ids PROVE LinkOK(c)'
    <3>1. CASE conn'[c] = conn[c]
      BY <2>1, <2>2, <3>1, LinksAre, LinkKept
    <3>2. CASE conn'[c] # conn[c]
      <4>1. conn'[c] = NoConnection
        BY <1>1, <2>1, <3>2 DEF Failover, Fail
      <4> QED BY <4>1, ClosedIsOK DEF NoConnection
    <3> QED BY <3>1, <3>2
  <2> QED BY <2>3, LinksAre
<1>2. CASE UNCHANGED asyncPoolVars
  <2>1. UNCHANGED <<pool, held, conn, todo, taskList>>
    BY <1>2 DEF asyncPoolVars, poolVars, callerVars
  <2>2. ASSUME NEW c \in Ids PROVE LinkOK(c)'
    <3>1. Owned(c) => Owned(c)'
      BY <2>1, ElementsNext DEF Owned
    <3> QED BY <2>1, <3>1, LinksAre, LinkKept
  <2> QED BY <2>2, LinksAre
<1> QED BY <1>1, <1>2, ThreadLinks, DropPoolLinks, ConnectionLinks, WorkerLinks DEF PoolNext

-----------------------------------------------------------------------------
\* A connection is once in the pool, or with one thread, or with neither.
OneOwner ==
    /\ IsInjective(pool)
    /\ \A t \in Threads : held[t] \notin Elements(pool)
    /\ \A t, u \in Threads : held[t] # 0 /\ held[t] = held[u] => t = u

Holders == {t \in Threads : held[t] # 0}

\* _used_connections counts the connections of the pool and of the threads, of
\* which there are never more than Size.
UsedCounts == life # "gone" => used = Len(pool) + Cardinality(Holders)

Ownership == OneOwner /\ UsedCounts

LEMMA FirstTaken ==
    ASSUME NEW S, NEW s \in Seq(S), s # <<>>, IsInjective(s)
    PROVE  IsInjective(Tail(s)) /\ Head(s) \notin Range(Tail(s))
<1>1. /\ Len(s) \in Nat \ {0} /\ Head(s) = s[1] /\ \A i \in 1..Len(s) - 1 : Tail(s)[i] = s[i + 1]
      /\ DOMAIN s = 1..Len(s) /\ DOMAIN Tail(s) = 1..Len(s) - 1
  OBVIOUS
<1>2. ASSUME NEW i \in 1..Len(s) - 1, NEW j \in 1..Len(s) - 1, Tail(s)[i] = Tail(s)[j] PROVE i = j
  <2>1. i + 1 \in 1..Len(s) /\ j + 1 \in 1..Len(s)
    BY <1>1
  <2>2. i + 1 = j + 1
    BY <1>1, <1>2, <2>1 DEF IsInjective
  <2> QED BY <2>2
<1>3. ASSUME NEW i \in 1..Len(s) - 1, Tail(s)[i] = Head(s) PROVE FALSE
  <2>1. i + 1 \in 1..Len(s) /\ 1 \in 1..Len(s) /\ i + 1 # 1
    BY <1>1
  <2> QED BY <1>1, <1>3, <2>1 DEF IsInjective
<1> QED BY <1>1, <1>2, <1>3 DEF IsInjective, Range

LEMMA NewAtTheEnd ==
    ASSUME NEW S, NEW s \in Seq(S), NEW x \in S, IsInjective(s), x \notin Range(s)
    PROVE  IsInjective(Append(s, x))
<1> DEFINE a == Append(s, x)
<1>1. /\ Len(s) \in Nat /\ \A i \in 1..Len(s) : a[i] = s[i]
      /\ a[Len(s) + 1] = x
      /\ DOMAIN s = 1..Len(s) /\ DOMAIN a = 1..Len(s) + 1
  OBVIOUS
<1> HIDE DEF a
<1>2. \A i \in 1..Len(s) : s[i] # x
  BY <1>1 DEF Range
<1>3. ASSUME NEW i \in 1..Len(s) + 1, NEW j \in 1..Len(s) + 1, a[i] = a[j] PROVE i = j
  <2>1. (i \in 1..Len(s) \/ i = Len(s) + 1) /\ (j \in 1..Len(s) \/ j = Len(s) + 1)
    BY <1>1
  <2> QED BY <1>1, <1>2, <1>3, <2>1 DEF IsInjective
<1>4. IsInjective(a)
  BY <1>1, <1>3 DEF IsInjective
<1> QED BY <1>4 DEF a

LEMMA HoldersFinite == IsFiniteSet(Holders) /\ Cardinality(Holders) \in Nat
<1>1. Holders \subseteq Threads /\ IsFiniteSet(Threads)
  BY AsyncPoolAssumption DEF Holders
<1>2. IsFiniteSet(Holders)
  BY <1>1, FS_Subset
<1> QED BY <1>2, FS_CardinalityType

\* A thread gets a connection, or gives it back.
LEMMA HolderAdded ==
    ASSUME PoolBase, NEW t \in Threads, NEW c \in Ids, held[t] = 0, held' = [held EXCEPT ![t] = c]
    PROVE  Cardinality(Holders') = Cardinality(Holders) + 1
<1>1. Holders' = Holders \cup {t} /\ t \notin Holders
  BY DEF Holders, PoolBase, PoolTypeOK, Ids
<1> QED BY <1>1, HoldersFinite, FS_AddElement

LEMMA HolderRemoved ==
    ASSUME PoolBase, NEW t \in Threads, held[t] # 0, held' = [held EXCEPT ![t] = 0]
    PROVE  Cardinality(Holders') = Cardinality(Holders) - 1
<1>1. Holders' = Holders \ {t} /\ t \in Holders
  BY DEF Holders, PoolBase, PoolTypeOK
<1> QED BY <1>1, HoldersFinite, FS_RemoveElement

\* Nobody gets a connection, and the pool keeps its own or is gone.
LEMMA OwnersKeep ==
    ASSUME Ownership, held' = held, used' = used,
           (pool' = pool /\ (life = "gone" => life' = "gone")) \/ (pool' = <<>> /\ life' = "gone")
    PROVE  Ownership'
<1>1. Holders' = Holders
  BY DEF Holders
<1>2. IsInjective(<<>>) /\ Range(<<>>) = {}
  BY DEF IsInjective, Range
<1>3. OneOwner'
  BY <1>2 DEF Ownership, OneOwner, Elements
<1>4. UsedCounts'
  BY <1>1 DEF Ownership, UsedCounts
<1> QED BY <1>3, <1>4 DEF Ownership

LEMMA ThreadOwns ==
    ASSUME PoolBase, Ownership, NEW t \in Threads, Thread(t)
    PROVE  Ownership'
<1>0. /\ held \in [Threads -> Ids \cup {0}] /\ pool \in Seq(Ids) /\ opts \in Hosts /\ seen[t].opts \in Hosts
      /\ (pc[t] = "out" <=> held[t] = 0) /\ used \in Nat /\ Len(pool) \in Nat
      /\ \A c \in Ids : c # 0
  BY AsyncPoolAssumption DEF PoolBase, PoolTypeOK, Callers, Ids
<1>1. CASE FetchNew(t)
  <2>1. PICK c \in Ids : Create(t, c, opts)
    BY <1>1 DEF FetchNew
  <2>2. /\ held' = [held EXCEPT ![t] = c] /\ c \notin Elements(pool) /\ \A u \in Threads : held[u] # c
    BY <1>0, <2>1, CreateIs DEF PoolBase
  <2>3. held[t] = 0 /\ pool' = pool /\ used' = used + 1 /\ life' = life
    BY <1>0, <1>1 DEF FetchNew, CallsFetch
  <2>4. OneOwner'
    BY <1>0, <2>2, <2>3, ElementsNext DEF Ownership, OneOwner
  <2>5. Cardinality(Holders') = Cardinality(Holders) + 1
    BY <2>2, <2>3, HolderAdded
  <2>6. UsedCounts'
    BY <1>0, <2>3, <2>5, HoldersFinite DEF Ownership, UsedCounts
  <2> QED BY <2>4, <2>6 DEF Ownership
<1>2. CASE FetchIdle(t)
  <2> DEFINE c == Head(pool)
  <2>1. /\ pool # <<>> /\ pool' = Tail(pool) /\ held' = [held EXCEPT ![t] = c] /\ held[t] = 0
        /\ UNCHANGED <<used, life>>
    BY <1>0, <1>2 DEF FetchIdle, CallsFetch
  <2>2. /\ c \in Ids /\ Len(pool') = Len(pool) - 1 /\ Range(pool) = {c} \cup Range(pool')
    BY <1>0, <2>1, HeadAndTail
  <2>3. IsInjective(pool') /\ c \notin Range(pool')
    BY <1>0, <2>1, FirstTaken DEF Ownership, OneOwner
  <2> HIDE DEF c
  <2>4. OneOwner'
    <3>1. \A u \in Threads : held'[u] \notin Range(pool')
      BY <1>0, <2>1, <2>2, <2>3 DEF Ownership, OneOwner, Elements
    <3>2. \A u, v \in Threads : held'[u] # 0 /\ held'[u] = held'[v] => u = v
      BY <1>0, <2>1, <2>2 DEF Ownership, OneOwner, Elements
    <3> QED BY <2>3, <3>1, <3>2 DEF OneOwner, Elements
  <2>5. Cardinality(Holders') = Cardinality(Holders) + 1
    BY <2>1, <2>2, HolderAdded
  <2>6. UsedCounts'
    BY <1>0, <2>1, <2>2, <2>5, HoldersFinite DEF Ownership, UsedCounts
  <2> QED BY <2>4, <2>6 DEF Ownership
<1>3. CASE Keep(t)
  BY <1>3, OwnersKeep DEF Keep, poolVars
<1>4. CASE Replace(t)
  <2>1. PICK c \in Ids : Create(t, c, seen[t].opts)
    BY <1>4 DEF Replace
  <2>2. /\ held' = [held EXCEPT ![t] = c] /\ c \notin Elements(pool) /\ \A u \in Threads : held[u] # c
    BY <1>0, <2>1, CreateIs DEF PoolBase
  <2>3. held[t] # 0 /\ UNCHANGED <<pool, used, life>>
    BY <1>0, <1>4 DEF Replace, poolVars
  <2>4. OneOwner'
    BY <1>0, <2>2, <2>3, ElementsNext DEF Ownership, OneOwner
  <2>5. Holders' = Holders
    BY <1>0, <2>2, <2>3 DEF Holders
  <2>6. UsedCounts'
    BY <2>3, <2>5 DEF Ownership, UsedCounts
  <2> QED BY <2>4, <2>6 DEF Ownership
<1>5. CASE SendAndRelease(t)
  <2>1. /\ pool' = Append(pool, held[t]) /\ held' = [held EXCEPT ![t] = 0] /\ held[t] # 0 /\ held[t] \in Ids
        /\ UNCHANGED <<used, life>>
    BY <1>0, <1>5 DEF SendAndRelease
  <2>2. /\ Len(pool') = Len(pool) + 1 /\ Range(pool') = Range(pool) \cup {held[t]} /\ pool' \in Seq(Ids)
    BY <1>0, <2>1, Appending
  <2>3. IsInjective(pool')
    <3>1. IsInjective(pool) /\ held[t] \notin Range(pool)
      BY DEF Ownership, OneOwner, Elements
    <3> QED BY ONLY <1>0, <2>1, <3>1, NewAtTheEnd
  <2>4. OneOwner'
    <3>1. 0 \notin Range(pool')
      BY <1>0, <2>2 DEF Range
    <3>2. \A u \in Threads : held'[u] \notin Range(pool')
      BY <1>0, <2>1, <2>2, <3>1 DEF Ownership, OneOwner, Elements
    <3>3. \A u, v \in Threads : held'[u] # 0 /\ held'[u] = held'[v] => u = v
      BY <1>0, <2>1 DEF Ownership, OneOwner
    <3> QED BY <2>3, <3>2, <3>3 DEF OneOwner, Elements
  <2>5. Cardinality(Holders') = Cardinality(Holders) - 1
    BY <2>1, HolderRemoved
  <2>6. UsedCounts'
    BY <1>0, <2>1, <2>2, <2>5, HoldersFinite DEF Ownership, UsedCounts
  <2> QED BY <2>4, <2>6 DEF Ownership
<1> QED BY <1>1, <1>2, <1>3, <1>4, <1>5 DEF Thread

LEMMA OwnershipNext ==
    ASSUME PoolBase, Ownership, [PoolNext]_asyncPoolVars
    PROVE  Ownership'
<1>1. CASE DropPool
  BY <1>1, DropPoolIs, OwnersKeep DEF PoolBase, callerVars
<1>2. ASSUME NEW c \in Ids, LoopRuns(c) \/ Answer(c) \/ Lose(c) PROVE Ownership'
  <2>1. UNCHANGED <<poolVars, callerVars>>
    BY <1>2, LoopRunsIs DEF Answer, Lose, PoolBase
  <2> QED BY <2>1, OwnersKeep DEF poolVars, callerVars
<1>3. CASE RunTask \/ GiveUpTask \/ Asked \/ UpdatePool
  <2>1. UNCHANGED <<pool, held, used, life>>
    BY <1>3 DEF RunTask, GiveUpTask, Asked, UpdatePool, TaskDone, poolVars, callerVars
  <2> QED BY <2>1, OwnersKeep
<1>4. CASE UpdateConnection \/ UpdateFails
  <2>1. /\ UNCHANGED held /\ used' = used
        /\ \/ UNCHANGED <<pool, life>>
           \/ pool' = <<>> /\ life' = "gone"
    BY <1>4 DEF UpdateConnection, UpdateFails, TaskDone, LetPoolGo, Destruct, poolVars, callerVars
  <2> QED BY <2>1, OwnersKeep
<1>5. ASSUME NEW n \in Nodes, Failover(n) PROVE Ownership'
  BY <1>5, OwnersKeep DEF Failover, poolVars, callerVars
<1>6. CASE UNCHANGED asyncPoolVars
  BY <1>6, OwnersKeep DEF asyncPoolVars, poolVars, callerVars
<1> QED BY <1>1, <1>2, <1>3, <1>4, <1>5, <1>6, ThreadOwns DEF PoolNext, Worker

-----------------------------------------------------------------------------
PoolInv == PoolBase /\ Addresses /\ Links /\ Ownership

LEMMA PoolInvInit == PoolInit => PoolInv
<1> SUFFICES ASSUME PoolInit PROVE PoolInv
  OBVIOUS
<1>1. \A c \in Ids : conn[c].link = "BROKEN" /\ conn[c].events = <<>>
  BY DEF PoolInit, NoConnection
<1>2. Addresses
  BY <1>1 DEF PoolInit, LookupInit, Addresses, ConnectsToNodes, Addressed
<1>3. Links
  BY <1>1 DEF Links, NobodyForgotten, NothingLeaks, AddressComes
<1>4. Ownership
  <2>1. Holders = {} /\ pool = <<>> /\ used = 0
    BY DEF PoolInit, Holders
  <2>2. Cardinality({}) = 0
    BY FS_EmptySet
  <2>3. IsInjective(<<>>) /\ Range(<<>>) = {} /\ Len(<<>>) = 0
    BY DEF IsInjective, Range
  <2>4. OneOwner
    BY <2>1, <2>3 DEF PoolInit, OneOwner, Elements
  <2>5. UsedCounts
    BY <2>1, <2>2, <2>3 DEF UsedCounts
  <2> QED BY <2>4, <2>5 DEF Ownership
<1> QED BY <1>2, <1>3, <1>4, PoolBaseInit DEF PoolInv

LEMMA PoolInvNext == PoolInv /\ [PoolNext]_asyncPoolVars => PoolInv'
BY PoolBaseNext, AddressesNext, LinksNext, OwnershipNext DEF PoolInv

LEMMA PoolInvHolds == PoolSpec => []PoolInv
BY PoolInvInit, PoolInvNext, PTL DEF PoolSpec

\* Types; of these `used \in 0..Size' says that the pool never makes more than
\* its size, and `taskList' that the worker always has the task that it ends.
THEOREM PoolTypeSafe == PoolSpec => []PoolTypeOK
<1>1. PoolInv => PoolTypeOK
  BY DEF PoolInv, PoolBase
<1> QED BY <1>1, PoolInvHolds, PTL

\* A command that waits for its reply is never forgotten: not when its connection
\* has no address yet, when the address comes after the connection was replaced,
\* or when the pool is destroyed with the task of the connection still to come.
THEOREM CommandsAreOnTheirWay == PoolSpec => []NobodyForgotten
<1>1. PoolInv => NobodyForgotten
  BY DEF PoolInv, Links
<1> QED BY <1>1, PoolInvHolds, PTL

\* A connection is never left open with nobody to close it: not when it is
\* replaced while its address is asked for, nor when the pool goes first.
THEOREM ConnectionsAreClosed == PoolSpec => []NothingLeaks
<1>1. PoolInv => NothingLeaks
  BY DEF PoolInv, Links
<1> QED BY <1>1, PoolInvHolds, PTL

\* Two threads never have the same connection between fetch() and release(), and
\* _used_connections is right as long as the pool is there.
THEOREM ConnectionsHaveOneOwner == PoolSpec => [](OneOwner /\ UsedCounts)
<1>1. PoolInv => OneOwner /\ UsedCounts
  BY DEF PoolInv, Ownership
<1> QED BY <1>1, PoolInvHolds, PTL

\* No connection is made to the empty address.
THEOREM ConnectionsHaveAddress == PoolSpec => []ConnectsToNodes
<1>1. PoolInv => ConnectsToNodes
  BY DEF PoolInv, Addresses
<1> QED BY <1>1, PoolInvHolds, PTL
=============================================================================
