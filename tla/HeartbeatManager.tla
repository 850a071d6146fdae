-------------------------- MODULE HeartbeatManager --------------------------
(***************************************************************************)
(* HeartbeatManager (src/connection/heartbeat_manager.cpp).  A manager is  *)
(* a record of its members; the time points lastReceived_ and lastSent_    *)
(* are kept as their age, which Aged advances.  thread is                  *)
(*     "none"      timerThread_ holds no thread                            *)
(*     "waiting"   timerLoop runs                                          *)
(*     "ended"     timerLoop has returned and nobody has joined it         *)
(***************************************************************************)
EXTENDS Naturals

CONSTANTS
    SEND_INTERVAL,       \* SEND_INTERVAL_MS
    TIMEOUT_THRESHOLD,   \* TIMEOUT_THRESHOLD_MS
    CHECK_INTERVAL       \* CHECK_INTERVAL_MS

ASSUME HeartbeatAssumption ==
    {SEND_INTERVAL, TIMEOUT_THRESHOLD, CHECK_INTERVAL} \subseteq Nat \ {0}

IdleHeartbeat == [running |-> FALSE, stopRequested |-> FALSE, thread |-> "none",
                  sinceReceived |-> 0, sinceSent |-> 0]

Heartbeats(ages) ==
    [running : BOOLEAN, stopRequested : BOOLEAN, thread : {"none", "waiting", "ended"},
     sinceReceived : ages, sinceSent : ages]

(* stop(): returns at once unless running_; otherwise joins the thread.    *)
HeartbeatStop(hb) ==
    IF hb.running
    THEN [hb EXCEPT !.running = FALSE, !.stopRequested = TRUE, !.thread = "none"]
    ELSE hb

(* start() calls stop() and assigns a new thread to timerThread_; if that  *)
(* still holds a thread, its assignment calls std::terminate.              *)
StartTerminates(hb) == HeartbeatStop(hb).thread # "none"

HeartbeatStart(hb) ==
    [running |-> TRUE, stopRequested |-> FALSE, thread |-> "waiting",
     sinceReceived |-> 0, sinceSent |-> 0]

(* received()                                                              *)
HeartbeatReceived(hb) == [hb EXCEPT !.sinceReceived = 0]

(* timerLoop after a wait of CHECK_INTERVAL_MS: a timeout, ...             *)
TimeoutDue(hb) == hb.sinceReceived > TIMEOUT_THRESHOLD
HeartbeatTimedOut(hb) == [hb EXCEPT !.running = FALSE, !.thread = "ended"]

(* Mutant: the interval has to be exceeded, not only reached.              *)
MutSendDue(hb) == hb.sinceSent > SEND_INTERVAL

(* ... or a heartbeat to be sent.                                          *)
SendDue(hb) == hb.sinceSent >= SEND_INTERVAL

(* Mutant: sending also counts as a sign of life of the peer.              *)
MutHeartbeatSent(hb) == [hb EXCEPT !.sinceSent = 0, !.sinceReceived = 0]

(* Mutant: lastSent_ is not updated.                                       *)
MutSentNotNoted(hb) == hb

HeartbeatSent(hb) == [hb EXCEPT !.sinceSent = 0]

(* One unit of time passes.                                                *)
Aged(hb) == IF hb.running
            THEN [hb EXCEPT !.sinceReceived = @ + 1, !.sinceSent = @ + 1] ELSE hb
=============================================================================
