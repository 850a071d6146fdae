----------------------- MODULE ClientConnectionProofs -----------------------
(***************************************************************************)
(* Proofs about ClientConnection, for every limit on the retries, none     *)
(* included, for a factory that may throw and one that never does, and for *)
(* every number of calls of connect().                                     *)
(***************************************************************************)
EXTENDS ClientConnection, TLAPS

(* Stopping a heartbeat leaves a well-typed manager that does not run.     *)
LEMMA HeartbeatStopType ==
    ASSUME NEW hb \in Heartbeats({0})
    PROVE  HeartbeatStop(hb) \in Heartbeats({0}) /\ ~HeartbeatStop(hb).running
BY DEF HeartbeatStop, Heartbeats

(* Stopping an engine leaves a well-typed one that is not active.          *)
LEMMA EngineStopType ==
    ASSUME NEW re \in Engines
    PROVE  EngineStop(re) \in Engines /\ ~EngineStop(re).active
<1>1. 0 \in IF MaxRetries > 0 THEN 0 .. MaxRetries + 1 ELSE Nat
  BY ReconnectAssumption
<1> QED BY <1>1 DEF EngineStop, Engines

(* Counting the next attempt of an engine that is within its limit, or     *)
(* that has just been started, gives a well-typed engine; unless that      *)
(* attempt exhausts it, it is within the limit too.                        *)
LEMMA NextAttemptType ==
    ASSUME NEW re \in Engines,
           MaxRetries > 0 => re.attempt \in 0 .. MaxRetries
    PROVE  /\ NextAttempt(re) \in Engines
           /\ NextAttempt(re).active = re.active
           /\ NextAttempt(re).enabled = re.enabled
           /\ ~Exhausted(NextAttempt(re)) /\ MaxRetries > 0
                => NextAttempt(re).attempt \in 1 .. MaxRetries
BY ReconnectAssumption DEF NextAttempt, Engines, Exhausted

-----------------------------------------------------------------------------
(* The first half of handleClose, on any thread and with any well-typed    *)
(* manager, preserves the invariant.                                       *)
LEMMA CloseSocketStep ==
    ASSUME ConnectionInv, NEW t \in {"app", "socket", "heartbeat", "timer"},
           NEW hb \in Heartbeats({0}), CloseSocket(t, hb),
           process = "up", process' = process,
           engine' \in Engines, RetriesBounded',
           state' \in ClientStates, intentional' \in BOOLEAN,
           appConnects' \in 0 .. MaxAppConnects,
           intentional' => state' # "Reconnecting" \/ UNCHANGED <<state, engine, pc>>
    PROVE  ConnectionInv'
<1>1. ConnectionTypeOK'
  BY HeartbeatStopType DEF ConnectionTypeOK, ConnectionInv, CloseSocket
<1>2. HeartbeatFollowsSocket'
  BY HeartbeatStopType DEF HeartbeatFollowsSocket, CloseSocket
<1>3. ReconnectingHasTimer'
  BY DEF ReconnectingHasTimer, ConnectionInv, CloseSocket, Idle
<1>4. (process = "up" /\ (CanConnect \/ pc = "onDisconnect") => ws = "none")'
  BY DEF CloseSocket
<1>5. (process = "up" /\ pc = "joining" => engine.active)'
  BY DEF CloseSocket
<1> QED BY <1>1, <1>2, <1>3, <1>4, <1>5 DEF ConnectionInv

(* connect(), by the application or by the timer, preserves it.            *)
LEMMA ConnectStep ==
    ASSUME ConnectionInv, NEW t \in {"app", "timer"}, Connect(t), Idle, CanConnect,
           process' = process, engine' \in Engines, RetriesBounded',
           appConnects' \in 0 .. MaxAppConnects
    PROVE  ConnectionInv'
<1>0. /\ ws = "none" /\ ~heartbeat.running
      /\ state' = "Connecting" /\ intentional' = FALSE
      /\ heartbeat \in Heartbeats({0})
  BY DEF ConnectionInv, ConnectionTypeOK, Connect, HeartbeatFollowsSocket, Idle, Heartbeats
<1>1. CASE ws' = "connecting" /\ UNCHANGED <<heartbeat, pc, closer>>
  <2>1. ConnectionTypeOK'
    BY <1>0, <1>1 DEF ConnectionTypeOK, ConnectionInv, Idle, ClientStates
  <2> QED BY <1>0, <1>1, <2>1 DEF ConnectionInv, HeartbeatFollowsSocket, ReconnectingHasTimer,
                                CanConnect, Idle
<1>2. CASE CloseSocket(t, heartbeat)
  BY <1>0, <1>2, CloseSocketStep DEF Idle, ClientStates
<1> QED BY <1>1, <1>2 DEF Connect

(* The second half of handleClose, on the engine as it is or as started,   *)
(* preserves it: an attempt is scheduled, or given up.                     *)
LEMMA ScheduledStep ==
    ASSUME ConnectionInv, NEW re \in Engines, Scheduled(re),
           process = "up", pc = "onDisconnect", closer' = "none",
           MaxRetries > 0 => re.attempt \in 0 .. MaxRetries,
           re.active, re.enabled = engine.enabled,
           UNCHANGED <<ws, intentional, heartbeat, appConnects>>
    PROVE  ConnectionInv'
<1> DEFINE next == NextAttempt(re)
<1>1. /\ next \in Engines /\ next.active /\ next.enabled = engine.enabled
      /\ ~Exhausted(next) /\ MaxRetries > 0 => next.attempt \in 1 .. MaxRetries
  BY NextAttemptType
<1>2. ws = "none" /\ ~heartbeat.running
  BY DEF ConnectionInv, HeartbeatFollowsSocket
<1>3. CASE Exhausted(next)
  <2>1. engine' = EngineGivesUp(next) /\ state' = "Disconnected" /\ pc' = "idle"
        /\ process' = process
    BY <1>3 DEF Scheduled
  <2> HIDE DEF next
  <2>2. engine' \in Engines /\ ~engine'.active
    BY <1>1, <2>1 DEF EngineGivesUp, Engines
  <2>3. ConnectionTypeOK'
    BY <2>1, <2>2 DEF ConnectionTypeOK, ConnectionInv, ClientStates
  <2> QED BY <1>2, <2>1, <2>2, <2>3 DEF ConnectionInv, HeartbeatFollowsSocket,
                                         ReconnectingHasTimer, RetriesBounded, CanConnect
<1>4. CASE ~Exhausted(next)
  <2>1. /\ state' = "Reconnecting"
        /\ \/ process' = "timerJoinsItself" /\ engine' = next /\ pc' = "idle"
           \/ pc' = "joining" /\ engine' = next /\ process' = process
           \/ pc' = "idle" /\ engine' = EngineWaits(next) /\ process' = process
    BY <1>4 DEF Scheduled
  <2> HIDE DEF next
  <2>2. /\ engine' \in Engines /\ engine'.active
        /\ engine' = EngineWaits(next) => engine'.thread = "waiting"
        /\ MaxRetries > 0 => engine'.attempt \in 1 .. MaxRetries
    BY <1>1, <1>4, <2>1 DEF EngineWaits, Engines
  <2>3. ConnectionTypeOK'
    BY <2>1, <2>2 DEF ConnectionTypeOK, ConnectionInv, ClientStates
  <2>4. RetriesBounded'
    BY <2>2 DEF RetriesBounded
  <2>5. ReconnectingHasTimer'
    BY <2>1, <2>2 DEF ReconnectingHasTimer, Idle
  <2> QED BY <1>2, <2>1, <2>2, <2>3, <2>4, <2>5 DEF ConnectionInv, HeartbeatFollowsSocket
<1> QED BY <1>3, <1>4

-----------------------------------------------------------------------------
(* The invariant holds initially, and every step preserves it.             *)
LEMMA ConnectionInvStep ==
    ASSUME ConnectionInv, [ConnectionNext]_vars
    PROVE  ConnectionInv'
<1>0. /\ heartbeat \in Heartbeats({0}) /\ engine \in Engines
      /\ state \in ClientStates /\ intentional \in BOOLEAN
      /\ appConnects \in 0 .. MaxAppConnects
      /\ RetriesBounded
  BY DEF ConnectionInv, ConnectionTypeOK
<1>1. CASE AppConnect
  <2>1. appConnects' \in 0 .. MaxAppConnects
    BY <1>0, <1>1, ConnectionAssumption DEF AppConnect
  <2> QED BY <1>0, <1>1, <2>1, ConnectStep DEF AppConnect, RetriesBounded
<1>2. ASSUME Disconnects, process = "up", pc \in {"idle", "onDisconnect"}
      PROVE  ConnectionInv'
  <2>1. ConnectionTypeOK'
    BY <1>2, HeartbeatStopType, EngineStopType
    DEF Disconnects, ConnectionTypeOK, ConnectionInv, ClientStates
  <2> QED BY <1>0, <1>2, <2>1, HeartbeatStopType, EngineStopType
          DEF Disconnects, ConnectionInv, HeartbeatFollowsSocket,
              ReconnectingHasTimer, RetriesBounded
<1>3. CASE AppDisconnect \/ DisconnectInCallback
  BY <1>2, <1>3 DEF AppDisconnect, DisconnectInCallback, Idle
<1>4. CASE ReconnectAfterClose
  <2>1. CASE engine.active /\ Scheduled(engine)
    <3>1. MaxRetries > 0 => engine.attempt \in 0 .. MaxRetries
      BY <1>0, <2>1, ReconnectAssumption DEF RetriesBounded
    <3> QED BY <1>0, <1>4, <2>1, <3>1, ScheduledStep DEF ReconnectAfterClose
  <2>2. CASE EngineStarts(engine) /\ Scheduled(EngineStart(engine))
    <3> DEFINE re == EngineStart(engine)
    <3>0. /\ 0 \in IF MaxRetries > 0 THEN 0 .. MaxRetries + 1 ELSE Nat
          /\ 0 \in 0 .. MaxRetries
      BY ReconnectAssumption
    <3>1. /\ re \in Engines /\ re.active /\ re.enabled = engine.enabled
          /\ MaxRetries > 0 => re.attempt \in 0 .. MaxRetries
      BY <1>0, <3>0 DEF EngineStart, Engines
    <3> HIDE DEF re
    <3>2. Scheduled(re)
      BY <2>2 DEF re
    <3> QED BY <1>4, <3>1, <3>2, ScheduledStep DEF ReconnectAfterClose
  <2>3. CASE /\ ~engine.active /\ ~engine.enabled
             /\ state' = "Reconnecting" /\ pc' = "idle"
             /\ UNCHANGED <<engine, process>>
    BY <1>4, <2>3 DEF ReconnectAfterClose, ConnectionInv, ConnectionTypeOK, ClientStates,
        ReconnectingHasTimer, RetriesBounded, HeartbeatFollowsSocket, Idle
  <2> QED BY <1>4, <2>1, <2>2, <2>3 DEF ReconnectAfterClose
<1>5. CASE TimerJoined
  <2>1. engine' \in Engines /\ engine'.thread = "waiting" /\ engine'.active
        /\ engine'.attempt = engine.attempt
    BY <1>0, <1>5 DEF TimerJoined, EngineWaits, Engines, ConnectionInv
  <2>2. ConnectionTypeOK'
    BY <1>5, <2>1 DEF TimerJoined, ConnectionTypeOK, ConnectionInv
  <2> QED BY <1>5, <2>1, <2>2 DEF TimerJoined, ConnectionInv, HeartbeatFollowsSocket,
          ReconnectingHasTimer, RetriesBounded, CanConnect
<1>6. CASE TimerFires
  <2>1. engine' \in Engines /\ engine'.active = engine.active
        /\ engine'.attempt = engine.attempt
    BY <1>0, <1>6 DEF TimerFires, TimerEnds, Engines
  <2>2. RetriesBounded'
    BY <1>0, <2>1 DEF RetriesBounded
  <2>3. CASE ~CanConnect /\ UNCHANGED <<state, ws, intentional, heartbeat, pc, closer, process>>
    <3>1. ConnectionTypeOK'
      BY <1>6, <2>1, <2>3 DEF TimerFires, ConnectionTypeOK, ConnectionInv
    <3> QED BY <1>6, <2>1, <2>2, <2>3, <3>1 DEF TimerFires, ConnectionInv,
            HeartbeatFollowsSocket, ReconnectingHasTimer, CanConnect
  <2>4. CASE CanConnect /\ pc = "idle" /\ Connect("timer") /\ UNCHANGED process
    BY <1>0, <1>6, <2>1, <2>2, <2>4, ConnectStep DEF TimerFires, Idle
  <2>5. CASE /\ CanConnect /\ pc = "joining"
             /\ intentional' = FALSE /\ state' = "Connecting"
             /\ \/ ws' = "connecting" /\ UNCHANGED process
                \/ FailsSynchronously /\ ws' = "none" /\ process' = "timerJoinsItself"
             /\ UNCHANGED <<heartbeat, pc, closer>>
    <3>1. ConnectionTypeOK'
      BY <1>6, <2>1, <2>5 DEF TimerFires, ConnectionTypeOK, ConnectionInv, ClientStates
    <3> QED BY <1>6, <2>1, <2>2, <2>5, <3>1 DEF TimerFires, ConnectionInv,
            HeartbeatFollowsSocket, ReconnectingHasTimer, CanConnect
  <2> QED BY <1>6, <2>3, <2>4, <2>5 DEF TimerFires
<1>7. CASE HandleOpen
  <2>1. heartbeat' \in Heartbeats({0}) /\ heartbeat'.running
    BY <1>7 DEF HandleOpen, HeartbeatStart, Heartbeats
  <2>2. ConnectionTypeOK'
    BY <1>7, <2>1 DEF HandleOpen, ConnectionTypeOK, ConnectionInv, ClientStates
  <2> QED BY <1>7, <2>1, <2>2 DEF HandleOpen, ConnectionInv, HeartbeatFollowsSocket,
          ReconnectingHasTimer, RetriesBounded, CanConnect, Idle
<1>8. CASE SocketCloses
  <2>1. CloseSocket("socket", heartbeat) /\ UNCHANGED <<state, intentional, engine, process, appConnects>>
        /\ process = "up" /\ pc = "idle"
    BY <1>8 DEF SocketCloses, Idle
  <2>2. intentional' => pc' = pc
    BY <2>1 DEF CloseSocket
  <2>3. RetriesBounded'
    BY <1>0, <2>1 DEF RetriesBounded
  <2> QED BY <1>0, <2>1, <2>2, <2>3, CloseSocketStep
<1>9. CASE HeartbeatTimesOut
  <2>1. HeartbeatTimedOut(heartbeat) \in Heartbeats({0})
    BY <1>0 DEF HeartbeatTimedOut, Heartbeats
  <2>2. CloseSocket("heartbeat", HeartbeatTimedOut(heartbeat))
        /\ UNCHANGED <<state, intentional, engine, process, appConnects>>
        /\ process = "up" /\ pc = "idle"
    BY <1>9 DEF HeartbeatTimesOut, Idle
  <2>3. intentional' => pc' = pc
    BY <2>2 DEF CloseSocket
  <2>4. RetriesBounded'
    BY <1>0, <2>2 DEF RetriesBounded
  <2> QED BY <1>0, <2>1, <2>2, <2>3, <2>4, CloseSocketStep
<1>10. CASE BeginsSync \/ AppAuthorizes
  BY <1>10 DEF BeginsSync, AppAuthorizes, ConnectionInv, ConnectionTypeOK, ClientStates,
      HeartbeatFollowsSocket, ReconnectingHasTimer, RetriesBounded, CanConnect, Idle
<1>11. CASE BecomesReady
  <2>1. engine' \in Engines /\ ~engine'.active
    BY <1>0, <1>11, EngineStopType DEF BecomesReady, Engines
  <2> QED BY <1>11, <2>1 DEF BecomesReady, ConnectionInv, ConnectionTypeOK, ClientStates,
          HeartbeatFollowsSocket, ReconnectingHasTimer, RetriesBounded, CanConnect, Idle
<1>12. CASE AuthFails
  BY <1>0, <1>12, HeartbeatStopType DEF AuthFails, ConnectionInv, ConnectionTypeOK,
      ClientStates, HeartbeatFollowsSocket, ReconnectingHasTimer, RetriesBounded, Idle
<1>13. CASE Destroy
  BY <1>0, <1>13, HeartbeatStopType, EngineStopType DEF Destroy, ConnectionInv,
      ConnectionTypeOK, HeartbeatFollowsSocket, ReconnectingHasTimer, RetriesBounded, Idle
<1>14. CASE UNCHANGED vars
  BY <1>14 DEF vars, ConnectionInv, ConnectionTypeOK, HeartbeatFollowsSocket,
      ReconnectingHasTimer, RetriesBounded, CanConnect, Idle
<1> QED BY <1>1, <1>3, <1>4, <1>5, <1>6, <1>7, <1>8, <1>9, <1>10, <1>11, <1>12, <1>13,
           <1>14 DEF ConnectionNext

(* The invariant of the client's connection, over closes of every kind,    *)
(* timeouts, rejections, manual calls and the timer's attempts.            *)
THEOREM ConnectionInvariant == ConnectionSpec => []ConnectionInv
<1>1. ConnectionInit => ConnectionInv
  <2> HAVE ConnectionInit
  <2>1. 0 \in IF MaxRetries > 0 THEN 0 .. MaxRetries + 1 ELSE Nat
    BY ReconnectAssumption
  <2>2. engine \in Engines /\ ~engine.active
    <3>1. PICK enabled \in BOOLEAN : engine = IdleEngine(enabled)
      BY DEF ConnectionInit
    <3> QED BY <2>1, <3>1 DEF IdleEngine, Engines
  <2>3. heartbeat \in Heartbeats({0}) /\ ~heartbeat.running
    <3>1. heartbeat = IdleHeartbeat
      BY DEF ConnectionInit
    <3> QED BY <3>1 DEF IdleHeartbeat, Heartbeats
  <2>4. /\ state = "Disconnected" /\ ws = "none" /\ intentional \in BOOLEAN
        /\ pc = "idle" /\ closer = "none" /\ process = "up"
        /\ appConnects \in 0 .. MaxAppConnects
    <3>1. 0 \in 0 .. MaxAppConnects
      BY ConnectionAssumption
    <3> QED BY <3>1 DEF ConnectionInit
  <2>5. ConnectionTypeOK
    BY <2>2, <2>3, <2>4 DEF ConnectionTypeOK, ClientStates
  <2> QED BY <2>2, <2>3, <2>4, <2>5 DEF ConnectionInv, HeartbeatFollowsSocket,
                                         ReconnectingHasTimer, RetriesBounded
<1>2. ConnectionInv /\ [ConnectionNext]_vars => ConnectionInv'
  BY ConnectionInvStep
<1> QED BY <1>1, <1>2, PTL DEF ConnectionSpec

(* The connection's variables keep their types; the attempts of an engine  *)
(* with a limit never go past it by more than the one that gives up.       *)
THEOREM ConnectionTypeCorrect == ConnectionSpec => []ConnectionTypeOK
<1>1. ConnectionInv => ConnectionTypeOK
  BY DEF ConnectionInv
<1> QED BY <1>1, ConnectionInvariant, PTL

(* A client that reports Reconnecting, unless it is configured never to,   *)
(* has a timer that will make the next attempt.                            *)
THEOREM ReconnectingIsTimed == ConnectionSpec => []ReconnectingHasTimer
<1>1. ConnectionInv => ReconnectingHasTimer
  BY DEF ConnectionInv
<1> QED BY <1>1, ConnectionInvariant, PTL

(* No reconnection cycle makes more than maxRetries attempts, whatever     *)
(* maxRetries is.                                                          *)
THEOREM RetriesAreBounded == ConnectionSpec => []RetriesBounded
<1>1. ConnectionInv => RetriesBounded
  BY DEF ConnectionInv
<1> QED BY <1>1, ConnectionInvariant, PTL

(* The heartbeat runs exactly while the socket is open.                    *)
THEOREM HeartbeatIsOnOpenSocket == ConnectionSpec => []HeartbeatFollowsSocket
<1>1. ConnectionInv => HeartbeatFollowsSocket
  BY DEF ConnectionInv
<1> QED BY <1>1, ConnectionInvariant, PTL
=============================================================================
