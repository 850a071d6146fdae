--------------------------- MODULE HeartbeatPair ----------------------------
(***************************************************************************)
(* The two HeartbeatManagers of one connection, in real time: the client's *)
(* is started in handleOpen, the server's in handleIdentified when the     *)
(* Identify frame arrives, and each resets on the heartbeats of the other. *)
(*                                                                         *)
(* A frame takes up to MaxDelay to arrive, in order (external: WebSocket), *)
(* and a timer thread wakes up to MaxLate after its interval (external:    *)
(* the scheduler).  A peer may die at any moment, without a close.         *)
(***************************************************************************)
EXTENDS HeartbeatManager, Sequences

CONSTANTS
    MaxDelay,   \* bound: the time a frame is under way
    MaxLate     \* bound: how late a timer thread wakes up

ASSUME PairAssumption == MaxDelay \in Nat /\ MaxLate \in Nat

(* Two checks are enough for a send to be due (SEND_INTERVAL_MS is twice   *)
(* CHECK_INTERVAL_MS), and the delays and the lateness leave the threshold *)
(* room for two late checks and two frames under way.                      *)
ASSUME TimingAssumption ==
    /\ SEND_INTERVAL <= 2 * CHECK_INTERVAL
    /\ 2 * (CHECK_INTERVAL + MaxLate) + 2 * MaxDelay <= TIMEOUT_THRESHOLD

VARIABLES
    manager,      \* the two managers
    sinceCheck,   \* time since the timer thread began to wait
    flight,       \* the ages of the frames on their way to a peer
    alive,        \* the peers that have not died
    deadFor       \* history: how long the dead peer's survivor has run on

vars == <<manager, sinceCheck, flight, alive, deadFor>>

Peers == {"client", "server"}
Other(p) == IF p = "client" THEN "server" ELSE "client"

(* The age at which a timeout is noticed at the latest.                    *)
NoticeBound == TIMEOUT_THRESHOLD + CHECK_INTERVAL + MaxLate

(* Type invariant of the managers and the frames under way.                *)
PairTypeOK ==
    /\ manager \in [Peers -> Heartbeats(0 .. NoticeBound)]
    /\ sinceCheck \in [Peers -> 0 .. CHECK_INTERVAL + MaxLate]
    /\ flight \in [Peers -> Seq(0 .. MaxDelay)]
    /\ alive \subseteq Peers
    /\ deadFor \in Nat

(* handleOpen: the client's manager starts and its Identify is sent.       *)
PairInit ==
    /\ manager = [p \in Peers |-> IF p = "client" THEN HeartbeatStart(IdleHeartbeat)
                                                  ELSE IdleHeartbeat]
    /\ sinceCheck = [p \in Peers |-> 0]
    /\ flight = [p \in Peers |-> IF p = "server" THEN << 0 >> ELSE << >>]
    /\ alive = Peers
    /\ deadFor = 0

(* A frame arrives: the first one at the server is the Identify.           *)
Deliver(p) ==
    /\ p \in alive /\ flight[p] # << >>
    /\ flight' = [flight EXCEPT ![p] = Tail(@)]
    /\ \/ /\ manager[p].thread = "none"
          /\ manager' = [manager EXCEPT ![p] = HeartbeatStart(@)]
          /\ sinceCheck' = [sinceCheck EXCEPT ![p] = 0]
       \/ /\ manager[p].thread # "none"
          /\ manager' = [manager EXCEPT ![p] = HeartbeatReceived(@)]
          /\ UNCHANGED sinceCheck
    /\ UNCHANGED <<alive, deadFor>>

(* timerLoop wakes up.                                                     *)
Wakes(p) ==
    /\ p \in alive /\ manager[p].thread = "waiting"
    /\ sinceCheck[p] >= CHECK_INTERVAL
    /\ sinceCheck' = [sinceCheck EXCEPT ![p] = 0]
    /\ UNCHANGED <<alive, deadFor>>

CheckTimesOut(p) ==
    /\ Wakes(p) /\ TimeoutDue(manager[p])
    /\ manager' = [manager EXCEPT ![p] = HeartbeatTimedOut(@)]
    /\ UNCHANGED flight

CheckSends(p) ==
    /\ Wakes(p) /\ ~TimeoutDue(manager[p]) /\ SendDue(manager[p])
    /\ manager' = [manager EXCEPT ![p] = HeartbeatSent(@)]
    /\ flight' = [flight EXCEPT ![Other(p)] = Append(@, 0)]

CheckPasses(p) ==
    /\ Wakes(p) /\ ~TimeoutDue(manager[p]) /\ ~SendDue(manager[p])
    /\ UNCHANGED <<manager, flight>>

Die(p) ==
    /\ alive = Peers
    /\ alive' = alive \ {p}
    /\ manager' = [manager EXCEPT ![p] = HeartbeatTimedOut(@)]
    /\ flight' = [flight EXCEPT ![p] = << >>]
    /\ UNCHANGED <<sinceCheck, deadFor>>

Older(ages) == [i \in DOMAIN ages |-> ages[i] + 1]

(* Time passes, unless a frame or a timer thread is due.                   *)
Tick ==
    /\ \A p \in alive :
          /\ flight[p] # << >> => Head(flight[p]) < MaxDelay
          /\ manager[p].running => sinceCheck[p] < CHECK_INTERVAL + MaxLate
    /\ manager' = [p \in Peers |-> Aged(manager[p])]
    /\ sinceCheck' = [p \in Peers |->
                        IF manager[p].running THEN sinceCheck[p] + 1 ELSE sinceCheck[p]]
    /\ flight' = [p \in Peers |-> IF p \in alive THEN Older(flight[p]) ELSE << >>]
    /\ deadFor' = IF alive # Peers /\ \E p \in alive : manager[p].running
                  THEN deadFor + 1 ELSE deadFor
    /\ UNCHANGED alive

PairNext ==
    \/ Tick
    \/ \E p \in Peers :
          Deliver(p) \/ CheckTimesOut(p) \/ CheckSends(p) \/ CheckPasses(p) \/ Die(p)

PairSpec == PairInit /\ [][PairNext]_vars

-----------------------------------------------------------------------------
(* A peer that is alive is never declared dead, whatever the delays and    *)
(* the lateness of the threads within their bounds: the sends, which only  *)
(* happen at a check, come often enough for the threshold, from the first  *)
(* one on.                                                                 *)
NoFalseTimeout == alive = Peers => \A p \in Peers : manager[p].thread # "ended"

(* A dead peer is noticed: the survivor's manager runs on for the          *)
(* threshold and one late check, after the last heartbeat under way.       *)
DeadPeerNoticed == deadFor <= MaxDelay + NoticeBound

-----------------------------------------------------------------------------
(* The inductive invariants of the two.                                    *)

(* The frames under way arrive in the order they were sent in.             *)
InOrder(ages) == \A i, j \in DOMAIN ages : i < j => ages[j] <= ages[i]

PairShape ==
    /\ manager \in [Peers -> Heartbeats(Nat)]
    /\ sinceCheck \in [Peers -> 0 .. CHECK_INTERVAL + MaxLate]
    /\ flight \in [Peers -> Seq(0 .. MaxDelay)]
    /\ \A p \in Peers : InOrder(flight[p])
    /\ alive \in {Peers, {"client"}, {"server"}}
    /\ deadFor \in Nat
    /\ \A p \in Peers : manager[p].running <=> manager[p].thread = "waiting"
    /\ \A p \in Peers \ alive : manager[p].thread = "ended"

(* A running manager has been silent for the threshold at its last check   *)
(* at most, and what is under way to a survivor was sent before its peer   *)
(* died.                                                                   *)
NoticeInv ==
    /\ PairShape
    /\ DeadPeerNoticed
    /\ \A p \in Peers : manager[p].running =>
          manager[p].sinceReceived <= TIMEOUT_THRESHOLD + sinceCheck[p]
    /\ alive = Peers => deadFor = 0
    /\ \A p \in alive : alive # Peers =>
          /\ \A i \in DOMAIN flight[p] : deadFor <= flight[p][i]
          /\ manager[p].running /\ flight[p] = << >>
                => deadFor <= manager[p].sinceReceived + MaxDelay
          /\ manager[p].thread = "none" => deadFor = 0

(* A running manager sends at every second check at the latest.            *)
SendsInTime ==
    \A p \in Peers : manager[p].running =>
        \/ manager[p].sinceSent = sinceCheck[p]
        \/ /\ sinceCheck[p] + CHECK_INTERVAL <= manager[p].sinceSent
           /\ manager[p].sinceSent <= sinceCheck[p] + CHECK_INTERVAL + MaxLate

(* What a peer has not heard yet is under way, or not due yet.             *)
HeardInTime ==
    LET heard(p) == manager[p].sinceReceived
        gap      == 2 * (CHECK_INTERVAL + MaxLate) + MaxDelay
    IN
    /\ manager["client"].thread = "waiting"
    /\ manager["server"].thread # "ended"
    /\ \A p \in Peers :
          /\ flight[p] # << >> => heard(p) <= Head(flight[p]) + gap
          /\ flight[p] = << >> /\ manager[Other(p)].running
                => heard(p) <= manager[Other(p)].sinceSent + MaxDelay
    /\ manager["server"].thread = "none" =>
          /\ flight["client"] = << >> /\ flight["server"] # << >>
          /\ heard("client") <= Head(flight["server"])

PairInv ==
    /\ NoticeInv
    /\ PairTypeOK
    /\ SendsInTime
    /\ alive = Peers => HeardInTime
=============================================================================
