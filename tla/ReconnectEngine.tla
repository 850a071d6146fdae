-------------------------- MODULE ReconnectEngine ---------------------------
(***************************************************************************)
(* ReconnectEngine (src/connection/reconnect_engine.cpp).  An engine is a  *)
(* record of its members.  thread is                                       *)
(*     "none"      timerThread_ holds no thread                            *)
(*     "waiting"   timerLoop waits for its delay                           *)
(*     "ended"     timerLoop has returned and nobody has joined it         *)
(* The length of the delay is left out: the timer may fire at any time.    *)
(***************************************************************************)
EXTENDS Naturals

CONSTANT MaxRetries   \* options_.maxRetries, 0 for no limit

ASSUME ReconnectAssumption == MaxRetries \in Nat

(* An engine as constructed, with options_.enabled.                        *)
IdleEngine(enabled) == [enabled |-> enabled, active |-> FALSE, attempt |-> 0,
                        stopRequested |-> FALSE, thread |-> "none"]

Engines ==
    [enabled : BOOLEAN, active : BOOLEAN,
     attempt : IF MaxRetries > 0 THEN 0 .. MaxRetries + 1 ELSE Nat,
     stopRequested : BOOLEAN, thread : {"none", "waiting", "ended"}]

(* stop(): wakes and joins the timer thread.                               *)
EngineStop(re) == [re EXCEPT !.active = FALSE, !.attempt = 0,
                             !.stopRequested = TRUE, !.thread = "none"]

(* start(), up to its call of scheduleNext; it does nothing when disabled  *)
(* or already active.                                                      *)
EngineStarts(re) == re.enabled /\ ~re.active
EngineStart(re) == [re EXCEPT !.active = TRUE, !.attempt = 0, !.stopRequested = FALSE]

(* scheduleNext: the next attempt is counted, ...                          *)

(* Mutant: the attempts are not counted.                                   *)
MutNextAttempt(re) == [re EXCEPT !.attempt = 1]

NextAttempt(re) == [re EXCEPT !.attempt = @ + 1]

(* Mutant: maxRetries is off by one.                                       *)
MutExhausted(re) == MaxRetries > 0 /\ re.attempt > MaxRetries + 1

(* ... and given up beyond maxRetries, ...                                 *)
Exhausted(re) == MaxRetries > 0 /\ re.attempt > MaxRetries
EngineGivesUp(re) == [re EXCEPT !.active = FALSE]

(* ... or its timer is started, once the previous timer thread is joined.  *)
EngineWaits(re) == [re EXCEPT !.thread = "waiting"]

(* timerLoop returns.                                                      *)
TimerEnds(re) == [re EXCEPT !.thread = "ended"]
=============================================================================
