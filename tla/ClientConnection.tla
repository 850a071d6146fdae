-------------------------- MODULE ClientConnection --------------------------
(***************************************************************************)
(* The connection of a DanWebSocketClient (src/api/client.cpp): connect,   *)
(* disconnect, handleOpen, handleClose and the frames that change state_,  *)
(* with the client's HeartbeatManager and ReconnectEngine.                 *)
(*                                                                         *)
(* Four kinds of thread run this code: the application's, the socket's     *)
(* (external: IWebSocket), and the timer threads of the two managers.      *)
(* Handlers are atomic, except where they wait or call out: handleClose    *)
(* calls the application's onDisconnect callback half-way, and             *)
(* scheduleNext waits for the previous timer thread.                       *)
(***************************************************************************)
EXTENDS HeartbeatManager, ReconnectEngine

CONSTANTS
    FailsSynchronously,   \* wsFactory_ or ws_->connect may throw
    MaxAppConnects        \* bound: calls of connect() by the application

ASSUME ConnectionAssumption ==
    FailsSynchronously \in BOOLEAN /\ MaxAppConnects \in Nat

VARIABLES
    state,         \* state_
    ws,            \* ws_
    intentional,   \* intentionalDisconnect_
    heartbeat,     \* heartbeat_
    engine,        \* reconnectEngine_
    pc,            \* what handleClose and scheduleNext are waiting for
    closer,        \* the thread that is in handleClose
    process,       \* the process, or the client, has ended
    appConnects    \* calls of connect() so far

vars == <<state, ws, intentional, heartbeat, engine, pc, closer, process, appConnects>>

ClientStates == {"Disconnected", "Connecting", "Identifying", "Authorizing",
                 "Synchronizing", "Ready", "Reconnecting"}

(* Type invariant of the client's connection.                              *)
ConnectionTypeOK ==
    /\ state \in ClientStates
    /\ ws \in {"none", "connecting", "open"}
    /\ intentional \in BOOLEAN
    /\ heartbeat \in Heartbeats({0})
    /\ engine \in Engines
    /\ pc \in {"idle", "onDisconnect", "joining"}
    /\ closer \in {"none", "app", "socket", "heartbeat", "timer"}
    /\ process \in {"up", "destroyed", "heartbeatTerminates", "timerJoinsItself"}
    /\ appConnects \in 0 .. MaxAppConnects

ConnectionInit ==
    /\ state = "Disconnected"
    /\ ws = "none"
    /\ intentional = FALSE
    /\ heartbeat = IdleHeartbeat
    /\ engine \in {IdleEngine(enabled) : enabled \in BOOLEAN}
    /\ pc = "idle"
    /\ closer = "none"
    /\ process = "up"
    /\ appConnects = 0

Idle == process = "up" /\ pc = "idle"
CanConnect == state \in {"Disconnected", "Reconnecting"}

-----------------------------------------------------------------------------
(* handleClose, first half, on thread t: the heartbeat is stopped, the     *)
(* socket dropped with its callbacks, and onDisconnect_ is called unless   *)
(* the disconnection is intentional.                                       *)

(* Mutant: the heartbeat is left running.                                  *)
MutCloseSocket(t, hb) ==
    /\ heartbeat' = hb
    /\ ws' = "none"
    /\ closer' = t
    /\ pc' = IF intentional' THEN "idle" ELSE "onDisconnect"

CloseSocket(t, hb) ==
    /\ heartbeat' = HeartbeatStop(hb)
    /\ ws' = "none"
    /\ closer' = t
    /\ pc' = IF intentional' THEN "idle" ELSE "onDisconnect"

(* connect(), by thread t.                                                 *)
Connect(t) ==
    /\ intentional' = FALSE
    /\ state' = "Connecting"
    /\ \/ /\ ws' = "connecting"
          /\ UNCHANGED <<heartbeat, pc, closer>>
       \/ /\ FailsSynchronously
          /\ CloseSocket(t, heartbeat)

AppConnect ==
    /\ Idle /\ CanConnect
    /\ appConnects < MaxAppConnects /\ appConnects' = appConnects + 1
    /\ Connect("app")
    /\ UNCHANGED <<engine, process>>

(* disconnect(): cleanup() and reconnectEngine_.stop().                    *)
Disconnects ==
    /\ intentional' = TRUE
    /\ engine' = EngineStop(engine)
    /\ heartbeat' = HeartbeatStop(heartbeat)
    /\ ws' = "none"
    /\ state' = "Disconnected"
    /\ UNCHANGED <<pc, closer, process, appConnects>>

AppDisconnect == Idle /\ state # "Disconnected" /\ Disconnects

(* disconnect() from the onDisconnect callback.  (On the timer thread its  *)
(* join fails, and ReconnectAfterClose ends the process in any case.)      *)
DisconnectInCallback ==
    /\ process = "up" /\ pc = "onDisconnect" /\ closer # "timer" /\ ~intentional
    /\ Disconnects

(* handleClose, second half: retry() or start().                           *)

Scheduled(re) ==
    IF Exhausted(NextAttempt(re))
    THEN /\ engine' = EngineGivesUp(NextAttempt(re))
         /\ state' = "Disconnected"
         /\ pc' = "idle"
         /\ UNCHANGED process
    ELSE /\ state' = "Reconnecting"
         /\ \/ /\ closer = "timer"
               /\ process' = "timerJoinsItself"
               /\ engine' = NextAttempt(re)
               /\ pc' = "idle"
            \/ /\ closer # "timer" /\ re.thread = "waiting"
               /\ pc' = "joining"
               /\ engine' = NextAttempt(re)
               /\ UNCHANGED process
            \/ /\ closer # "timer" /\ re.thread # "waiting"
               /\ pc' = "idle"
               /\ engine' = EngineWaits(NextAttempt(re))
               /\ UNCHANGED process

(* Mutant: start() is called whether the engine is active or not.          *)
MutAlwaysStarts ==
    /\ process = "up" /\ pc = "onDisconnect"
    /\ closer' = "none"
    /\ \/ EngineStarts(engine) /\ Scheduled(EngineStart(engine))
       \/ /\ ~EngineStarts(engine)
          /\ state' = "Reconnecting" /\ pc' = "idle"
          /\ UNCHANGED <<engine, process>>
    /\ UNCHANGED <<ws, intentional, heartbeat, appConnects>>

ReconnectAfterClose ==
    /\ process = "up" /\ pc = "onDisconnect"
    /\ closer' = "none"
    /\ \/ engine.active /\ Scheduled(engine)
       \/ EngineStarts(engine) /\ Scheduled(EngineStart(engine))
       \/ /\ ~engine.active /\ ~engine.enabled
          /\ state' = "Reconnecting" /\ pc' = "idle"
          /\ UNCHANGED <<engine, process>>
    /\ UNCHANGED <<ws, intentional, heartbeat, appConnects>>

(* scheduleNext goes on once the previous timer thread has ended.          *)
TimerJoined ==
    /\ process = "up" /\ pc = "joining" /\ engine.thread = "ended"
    /\ engine' = EngineWaits(engine)
    /\ pc' = "idle"
    /\ UNCHANGED <<state, ws, intentional, heartbeat, closer, process, appConnects>>

(* timerLoop: onAttempt_ calls connect(), which returns at once unless the *)
(* client is Disconnected or Reconnecting.  stopRequested_ cannot be seen  *)
(* here: whoever sets it joins the thread.                                 *)
TimerFires ==
    /\ process = "up" /\ pc \in {"idle", "joining"} /\ engine.thread = "waiting"
    /\ engine' = TimerEnds(engine)
    /\ \/ ~CanConnect /\ UNCHANGED <<state, ws, intentional, heartbeat, pc, closer, process>>
       \/ /\ CanConnect /\ pc = "idle"
          /\ Connect("timer")
          /\ UNCHANGED process
       \/ /\ CanConnect /\ pc = "joining"
          /\ intentional' = FALSE /\ state' = "Connecting"
          /\ \/ ws' = "connecting" /\ UNCHANGED process
             \/ FailsSynchronously /\ ws' = "none" /\ process' = "timerJoinsItself"
          /\ UNCHANGED <<heartbeat, pc, closer>>
    /\ UNCHANGED appConnects

-----------------------------------------------------------------------------
(* The socket and the heartbeat.                                           *)

HandleOpen ==
    /\ Idle /\ ws = "connecting"
    /\ ws' = "open"
    /\ state' = "Identifying"
    /\ heartbeat' = HeartbeatStart(heartbeat)
    /\ process' = IF StartTerminates(heartbeat) THEN "heartbeatTerminates" ELSE process
    /\ UNCHANGED <<intentional, engine, pc, closer, appConnects>>

SocketCloses ==
    /\ Idle /\ ws # "none"
    /\ UNCHANGED <<state, intentional, engine, process, appConnects>>
    /\ CloseSocket("socket", heartbeat)

HeartbeatTimesOut ==
    /\ Idle /\ heartbeat.running
    /\ UNCHANGED <<state, intentional, engine, process, appConnects>>
    /\ CloseSocket("heartbeat", HeartbeatTimedOut(heartbeat))

(* The frames that make state_ Synchronizing: AuthOk and ServerReset in    *)
(* any state, key registrations and ServerSync in state Identifying.       *)
BeginsSync ==
    /\ Idle /\ ws = "open" /\ state # "Synchronizing"
    /\ state' = "Synchronizing"
    /\ UNCHANGED <<ws, intentional, heartbeat, engine, pc, closer, process, appConnects>>

(* handleFrame, at the end of a sync; the engine is stopped if active.     *)
BecomesReady ==
    /\ Idle /\ ws = "open" /\ state # "Ready"
    /\ state' = "Ready"
    /\ engine' = IF engine.active THEN EngineStop(engine) ELSE engine
    /\ UNCHANGED <<ws, intentional, heartbeat, pc, closer, process, appConnects>>

AppAuthorizes ==
    /\ Idle /\ ws = "open" /\ state # "Authorizing"
    /\ state' = "Authorizing"
    /\ UNCHANGED <<ws, intentional, heartbeat, engine, pc, closer, process, appConnects>>

(* AuthFail: the engine is not stopped.                                    *)
AuthFails ==
    /\ Idle /\ ws = "open"
    /\ intentional' = TRUE
    /\ heartbeat' = HeartbeatStop(heartbeat)
    /\ ws' = "none"
    /\ state' = "Disconnected"
    /\ UNCHANGED <<engine, pc, closer, process, appConnects>>

(* ~DanWebSocketClient: the destructor of a timer thread that nobody has   *)
(* joined calls std::terminate.                                            *)
Destroy ==
    /\ Idle
    /\ process' = IF HeartbeatStop(heartbeat).thread # "none"
                  THEN "heartbeatTerminates" ELSE "destroyed"
    /\ ws' = "none"
    /\ heartbeat' = HeartbeatStop(heartbeat)
    /\ engine' = EngineStop(engine)
    /\ UNCHANGED <<state, intentional, pc, closer, appConnects>>

-----------------------------------------------------------------------------
ConnectionNext ==
    \/ AppConnect \/ AppDisconnect \/ DisconnectInCallback \/ Destroy
    \/ ReconnectAfterClose \/ TimerJoined \/ TimerFires
    \/ HandleOpen \/ SocketCloses \/ HeartbeatTimesOut
    \/ BeginsSync \/ BecomesReady \/ AppAuthorizes \/ AuthFails

ConnectionSpec == ConnectionInit /\ [][ConnectionNext]_vars

(* Callbacks return, timers fire, and the socket reports the outcome of    *)
(* every attempt to connect.                                               *)
ConnectionFairness ==
    /\ WF_vars(ReconnectAfterClose)
    /\ WF_vars(TimerJoined)
    /\ WF_vars(TimerFires)
    /\ WF_vars(HandleOpen \/ SocketCloses)

FairConnectionSpec == ConnectionSpec /\ ConnectionFairness

-----------------------------------------------------------------------------
(* A client that reports Reconnecting, and is not configured never to, has *)
(* an attempt scheduled: no order of closes, timeouts, manual connects,    *)
(* rejections and disconnects leaves it waiting for an attempt that nobody *)
(* will make.                                                              *)
ReconnectingHasTimer ==
    Idle /\ engine.enabled /\ state = "Reconnecting"
        => engine.active /\ engine.thread = "waiting"

(* maxRetries bounds a reconnection cycle, over closes of every kind and   *)
(* attempts by hand in between.                                            *)
RetriesBounded ==
    MaxRetries > 0 /\ engine.active => engine.attempt \in 1 .. MaxRetries

(* The heartbeat runs exactly while a connection is open: no open          *)
(* connection goes unwatched, and no timer outlives its connection.        *)
HeartbeatFollowsSocket ==
    process = "up" => (heartbeat.running <=> ws = "open")

(* What makes the three inductive: a client that may connect has no socket *)
(* left, and whoever waits for the timer thread is an active engine.       *)
ConnectionInv ==
    /\ ConnectionTypeOK
    /\ ReconnectingHasTimer
    /\ RetriesBounded
    /\ HeartbeatFollowsSocket
    /\ process = "up" /\ (CanConnect \/ pc = "onDisconnect") => ws = "none"
    /\ process = "up" /\ pc = "joining" => engine.active

(* A client that reconnects gets a connection, gives up after maxRetries,  *)
(* or has its process ended by a timer thread (process).                   *)
ReconnectsOrGivesUp ==
    (engine.enabled /\ state = "Reconnecting") ~>
        (state \in {"Identifying", "Disconnected"} \/ process # "up")

-----------------------------------------------------------------------------
(* What the documentation promises but the code does not keep.             *)

(* A heartbeat timeout is survived: the client can be connected again, and *)
(* destroyed.                                                              *)
HeartbeatTimeoutSurvived == process # "heartbeatTerminates"
=============================================================================
