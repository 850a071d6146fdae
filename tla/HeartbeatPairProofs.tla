------------------------ MODULE HeartbeatPairProofs -------------------------
(***************************************************************************)
(* Proofs about HeartbeatPair, for every interval, threshold, delay and    *)
(* lateness.                                                               *)
(***************************************************************************)
EXTENDS HeartbeatPair, SequenceTheorems, TLAPS

Ages == 0 .. MaxDelay

(* The frames under way after one arrives, ...                             *)
LEMMA AgesTail ==
    ASSUME NEW f \in Seq(Ages), InOrder(f), f # << >>
    PROVE  /\ Tail(f) \in Seq(Ages) /\ InOrder(Tail(f))
           /\ Head(f) \in Ages /\ 1 \in DOMAIN f /\ Head(f) = f[1]
           /\ \A i \in DOMAIN Tail(f) : i + 1 \in DOMAIN f /\ Tail(f)[i] = f[i + 1]
<1>1. /\ Len(f) \in Nat \ {0} /\ DOMAIN f = 1 .. Len(f)
      /\ Tail(f) \in Seq(Ages) /\ Head(f) \in Ages
      /\ Len(Tail(f)) = Len(f) - 1
      /\ \A i \in 1 .. Len(Tail(f)) : Tail(f)[i] = f[i + 1]
  BY EmptySeq, LenProperties, HeadTailProperties
<1>2. DOMAIN Tail(f) = 1 .. Len(f) - 1
  BY <1>1, LenProperties
<1>3. \A i \in DOMAIN Tail(f) : i + 1 \in DOMAIN f /\ Tail(f)[i] = f[i + 1]
  BY <1>1, <1>2
<1>4. InOrder(Tail(f))
  BY <1>1, <1>2, <1>3 DEF InOrder
<1> QED BY <1>1, <1>3, <1>4

(* ... after one is sent, ...                                              *)
LEMMA AgesAppend ==
    ASSUME NEW f \in Seq(Ages), InOrder(f)
    PROVE  /\ Append(f, 0) \in Seq(Ages) /\ InOrder(Append(f, 0))
           /\ Append(f, 0) # << >>
           /\ Head(Append(f, 0)) = IF f = << >> THEN 0 ELSE Head(f)
<1>0. 0 \in Ages
  BY PairAssumption DEF Ages
<1>1. /\ Append(f, 0) \in Seq(Ages) /\ Append(f, 0) # << >>
      /\ Len(Append(f, 0)) = Len(f) + 1 /\ Len(f) \in Nat /\ DOMAIN f = 1 .. Len(f)
      /\ DOMAIN Append(f, 0) = 1 .. Len(Append(f, 0))
      /\ \A i \in 1 .. Len(f) : Append(f, 0)[i] = f[i] /\ f[i] \in Ages
      /\ Append(f, 0)[Len(f) + 1] = 0
  BY <1>0, AppendProperties, LenProperties
<1>2. InOrder(Append(f, 0))
  <2> SUFFICES ASSUME NEW i \in DOMAIN Append(f, 0), NEW j \in DOMAIN Append(f, 0), i < j
               PROVE  Append(f, 0)[j] <= Append(f, 0)[i]
    BY DEF InOrder
  <2>1. i \in 1 .. Len(f)
    BY <1>1
  <2>2. CASE j \in 1 .. Len(f)
    BY <1>1, <2>1, <2>2 DEF InOrder
  <2>3. CASE j = Len(f) + 1
    BY <1>1, <2>1, <2>3, PairAssumption DEF Ages
  <2> QED BY <1>1, <2>2, <2>3
<1>3. Head(Append(f, 0)) = IF f = << >> THEN 0 ELSE Head(f)
  BY HeadTailAppend
<1> QED BY <1>1, <1>2, <1>3

(* ... and after a unit of time in which none was due.                     *)
LEMMA AgesOlder ==
    ASSUME NEW f \in Seq(Ages), InOrder(f), f # << >> => Head(f) < MaxDelay
    PROVE  /\ Older(f) \in Seq(Ages) /\ InOrder(Older(f))
           /\ Older(f) = << >> <=> f = << >>
           /\ f # << >> => Head(Older(f)) = Head(f) + 1
           /\ DOMAIN Older(f) = DOMAIN f
           /\ \A i \in DOMAIN f : Older(f)[i] = f[i] + 1 /\ f[i] \in Ages
<1>1. /\ Len(f) \in Nat /\ DOMAIN f = 1 .. Len(f)
      /\ \A i \in DOMAIN f : f[i] \in Ages
      /\ f = << >> <=> Len(f) = 0
  BY EmptySeq, LenProperties
<1>2. DOMAIN Older(f) = DOMAIN f /\ \A i \in DOMAIN f : Older(f)[i] = f[i] + 1
  BY DEF Older
<1>3. \A i \in DOMAIN f : f[i] < MaxDelay
  <2> TAKE i \in DOMAIN f
  <2>1. f # << >> /\ 1 \in DOMAIN f /\ Head(f) = f[1]
    BY <1>1, AgesTail
  <2>2. f[i] <= f[1]
    BY <1>1, <2>1, PairAssumption DEF InOrder, Ages
  <2> QED BY <1>1, <2>1, <2>2, PairAssumption DEF Ages
<1>4. Older(f) \in [1 .. Len(f) -> Ages]
  <2>1. \A i \in 1 .. Len(f) : f[i] + 1 \in Ages
    BY <1>1, <1>3, PairAssumption DEF Ages
  <2> QED BY <1>1, <2>1 DEF Older
<1>5. Older(f) \in Seq(Ages)
  BY <1>1, <1>4, IsASeq, SeqDef
<1>6. InOrder(Older(f))
  BY <1>1, <1>2, PairAssumption DEF InOrder, Ages
<1>7. Len(Older(f)) = Len(f)
  BY <1>1, <1>2, <1>5, LenProperties
<1>8. Older(f) = << >> <=> f = << >>
  BY <1>1, <1>5, <1>7, EmptySeq
<1>9. ASSUME f # << >> PROVE Head(Older(f)) = Head(f) + 1
  <2>1. Head(f) = f[1] /\ 1 \in DOMAIN f /\ Head(Older(f)) = Older(f)[1]
    BY <1>5, <1>6, <1>8, <1>9, AgesTail
  <2> QED BY <1>2, <2>1
<1> QED BY <1>1, <1>2, <1>5, <1>6, <1>8, <1>9

-----------------------------------------------------------------------------
(* What a step does to a manager.                                          *)

(* start(), received(), onSend and the timeout change exactly the fields   *)
(* of a manager that HeartbeatManager assigns.                             *)
LEMMA ManagerOps ==
    ASSUME NEW hb \in Heartbeats(Nat)
    PROVE  /\ HeartbeatStart(hb) \in Heartbeats(Nat)
           /\ HeartbeatStart(hb).running /\ HeartbeatStart(hb).thread = "waiting"
           /\ HeartbeatStart(hb).sinceReceived = 0 /\ HeartbeatStart(hb).sinceSent = 0
           /\ HeartbeatReceived(hb) \in Heartbeats(Nat)
           /\ HeartbeatReceived(hb).running = hb.running
           /\ HeartbeatReceived(hb).thread = hb.thread
           /\ HeartbeatReceived(hb).sinceReceived = 0
           /\ HeartbeatReceived(hb).sinceSent = hb.sinceSent
           /\ HeartbeatSent(hb) \in Heartbeats(Nat)
           /\ HeartbeatSent(hb).running = hb.running
           /\ HeartbeatSent(hb).thread = hb.thread
           /\ HeartbeatSent(hb).sinceReceived = hb.sinceReceived
           /\ HeartbeatSent(hb).sinceSent = 0
           /\ HeartbeatTimedOut(hb) \in Heartbeats(Nat)
           /\ ~HeartbeatTimedOut(hb).running /\ HeartbeatTimedOut(hb).thread = "ended"
           /\ HeartbeatTimedOut(hb).sinceReceived = hb.sinceReceived
           /\ HeartbeatTimedOut(hb).sinceSent = hb.sinceSent
BY DEF Heartbeats, HeartbeatStart, HeartbeatReceived, HeartbeatSent, HeartbeatTimedOut

(* A tick of the clock ages a running manager by one and leaves a stopped  *)
(* one alone.                                                              *)
LEMMA AgedOps ==
    ASSUME NEW hb \in Heartbeats(Nat)
    PROVE  /\ Aged(hb) \in Heartbeats(Nat)
           /\ Aged(hb).running = hb.running /\ Aged(hb).thread = hb.thread
           /\ hb.running => /\ Aged(hb).sinceReceived = hb.sinceReceived + 1
                            /\ Aged(hb).sinceSent = hb.sinceSent + 1
           /\ ~hb.running => Aged(hb) = hb
<1>1. CASE hb.running
  <2>1. hb.sinceReceived + 1 \in Nat /\ hb.sinceSent + 1 \in Nat
    BY DEF Heartbeats
  <2> QED BY <1>1, <2>1 DEF Heartbeats, Aged
<1>2. CASE ~hb.running
  BY <1>2 DEF Aged
<1> QED BY <1>1, <1>2

(* The values a well-shaped state is made of.                              *)
LEMMA ShapeFacts ==
    ASSUME PairShape
    PROVE  /\ \A p \in Peers :
                 /\ manager[p] \in Heartbeats(Nat)
                 /\ manager[p].running \in BOOLEAN
                 /\ manager[p].thread \in {"none", "waiting", "ended"}
                 /\ manager[p].sinceReceived \in Nat /\ manager[p].sinceSent \in Nat
                 /\ sinceCheck[p] \in Nat /\ sinceCheck[p] <= CHECK_INTERVAL + MaxLate
                 /\ flight[p] \in Seq(Ages) /\ InOrder(flight[p])
                 /\ manager[p].running <=> manager[p].thread = "waiting"
                 /\ manager[p].running => p \in alive
           /\ MaxDelay \in Nat /\ MaxLate \in Nat
           /\ CHECK_INTERVAL \in Nat \ {0} /\ TIMEOUT_THRESHOLD \in Nat \ {0}
           /\ SEND_INTERVAL \in Nat \ {0}
<1>1. /\ MaxDelay \in Nat /\ MaxLate \in Nat
      /\ CHECK_INTERVAL \in Nat \ {0} /\ TIMEOUT_THRESHOLD \in Nat \ {0}
      /\ SEND_INTERVAL \in Nat \ {0}
  BY PairAssumption, HeartbeatAssumption
<1> SUFFICES ASSUME NEW p \in Peers
             PROVE  /\ manager[p] \in Heartbeats(Nat)
                    /\ manager[p].running \in BOOLEAN
                    /\ manager[p].thread \in {"none", "waiting", "ended"}
                    /\ manager[p].sinceReceived \in Nat /\ manager[p].sinceSent \in Nat
                    /\ sinceCheck[p] \in Nat /\ sinceCheck[p] <= CHECK_INTERVAL + MaxLate
                    /\ flight[p] \in Seq(Ages) /\ InOrder(flight[p])
                    /\ manager[p].running <=> manager[p].thread = "waiting"
                    /\ manager[p].running => p \in alive
  BY <1>1
<1>2. manager[p] \in Heartbeats(Nat) /\ flight[p] \in Seq(Ages) /\ InOrder(flight[p])
      /\ sinceCheck[p] \in 0 .. CHECK_INTERVAL + MaxLate
  BY DEF PairShape, Ages
<1>3. /\ manager[p].running \in BOOLEAN
      /\ manager[p].thread \in {"none", "waiting", "ended"}
      /\ manager[p].sinceReceived \in Nat /\ manager[p].sinceSent \in Nat
  BY <1>2 DEF Heartbeats
<1>4. /\ manager[p].running <=> manager[p].thread = "waiting"
      /\ p \notin alive => manager[p].thread = "ended"
  BY DEF PairShape
<1> QED BY <1>1, <1>2, <1>3, <1>4

(* A well-shaped state is one with these values.                           *)
LEMMA ShapeStep ==
    ASSUME PairShape, [PairNext]_vars
    PROVE  PairShape'
<1>0. /\ \A p \in Peers :
            /\ manager[p] \in Heartbeats(Nat)
            /\ manager[p].thread \in {"none", "waiting", "ended"}
            /\ sinceCheck[p] \in Nat /\ sinceCheck[p] <= CHECK_INTERVAL + MaxLate
            /\ flight[p] \in Seq(Ages) /\ InOrder(flight[p])
            /\ manager[p].running <=> manager[p].thread = "waiting"
            /\ manager[p].running => p \in alive
      /\ MaxDelay \in Nat /\ MaxLate \in Nat /\ CHECK_INTERVAL \in Nat \ {0}
  BY ShapeFacts
<1>1. /\ manager \in [Peers -> Heartbeats(Nat)]
      /\ sinceCheck \in [Peers -> 0 .. CHECK_INTERVAL + MaxLate]
      /\ flight \in [Peers -> Seq(Ages)]
      /\ alive \in {Peers, {"client"}, {"server"}} /\ deadFor \in Nat
      /\ \A p \in Peers \ alive : manager[p].thread = "ended"
  BY DEF PairShape, Ages
<1>2. 0 \in 0 .. CHECK_INTERVAL + MaxLate
  BY <1>0
<1>3. << >> \in Seq(Ages) /\ InOrder(<< >>)
  BY DEF InOrder
<1>4. ASSUME NEW p \in Peers, Deliver(p) PROVE PairShape'
  <2>1. PICK hb \in Heartbeats(Nat) :
            /\ manager' = [manager EXCEPT ![p] = hb]
            /\ hb.running <=> hb.thread = "waiting"
    BY <1>0, <1>4, ManagerOps DEF Deliver
  <2>2. flight' = [flight EXCEPT ![p] = Tail(flight[p])] /\ UNCHANGED <<alive, deadFor>>
        /\ p \in alive /\ flight[p] # << >>
    BY <1>4 DEF Deliver
  <2>3. Tail(flight[p]) \in Seq(Ages) /\ InOrder(Tail(flight[p]))
    BY <1>0, <2>2, AgesTail
  <2>4. sinceCheck' \in [Peers -> 0 .. CHECK_INTERVAL + MaxLate]
    BY <1>1, <1>2, <1>4 DEF Deliver
  <2>5. manager' \in [Peers -> Heartbeats(Nat)] /\ flight' \in [Peers -> Seq(Ages)]
    BY <1>1, <2>1, <2>2, <2>3
  <2>6. \A q \in Peers : InOrder(flight'[q])
    BY <1>0, <1>1, <2>2, <2>3
  <2>7. \A q \in Peers : manager'[q].running <=> manager'[q].thread = "waiting"
    BY <1>0, <1>1, <2>1
  <2>8. \A q \in Peers \ alive' : manager'[q].thread = "ended"
    BY <1>1, <2>1, <2>2
  <2> QED BY <1>1, <2>2, <2>4, <2>5, <2>6, <2>7, <2>8 DEF PairShape, Ages
<1>5. ASSUME NEW p \in Peers, CheckTimesOut(p) \/ CheckSends(p) \/ CheckPasses(p)
      PROVE  PairShape'
  <2>1. PICK hb \in Heartbeats(Nat) :
            /\ manager' = [manager EXCEPT ![p] = hb]
            /\ hb.running <=> hb.thread = "waiting"
    <3>1. CASE CheckPasses(p)
      <4>1. manager' = [manager EXCEPT ![p] = manager[p]]
        BY <1>1, <3>1 DEF CheckPasses
      <4> QED BY <1>0, <4>1
    <3> QED BY <1>0, <1>5, <3>1, ManagerOps DEF CheckTimesOut, CheckSends
  <2>2. /\ sinceCheck' = [sinceCheck EXCEPT ![p] = 0]
        /\ UNCHANGED <<alive, deadFor>> /\ p \in alive
    BY <1>5 DEF CheckTimesOut, CheckSends, CheckPasses, Wakes
  <2>3. Other(p) \in Peers
    BY DEF Other, Peers
  <2>4. flight' = flight \/ flight' = [flight EXCEPT ![Other(p)] = Append(flight[Other(p)], 0)]
    BY <1>5 DEF CheckTimesOut, CheckSends, CheckPasses
  <2>5. Append(flight[Other(p)], 0) \in Seq(Ages) /\ InOrder(Append(flight[Other(p)], 0))
    BY <1>0, <2>3, AgesAppend
  <2>6. flight' \in [Peers -> Seq(Ages)] /\ \A q \in Peers : InOrder(flight'[q])
    BY <1>0, <1>1, <2>3, <2>4, <2>5
  <2>7. manager' \in [Peers -> Heartbeats(Nat)]
        /\ sinceCheck' \in [Peers -> 0 .. CHECK_INTERVAL + MaxLate]
    BY <1>1, <1>2, <2>1, <2>2
  <2>8. \A q \in Peers : manager'[q].running <=> manager'[q].thread = "waiting"
    BY <1>0, <1>1, <2>1
  <2>9. \A q \in Peers \ alive' : manager'[q].thread = "ended"
    BY <1>1, <2>1, <2>2
  <2> QED BY <1>1, <2>2, <2>6, <2>7, <2>8, <2>9 DEF PairShape, Ages
<1>6. ASSUME NEW p \in Peers, Die(p) PROVE PairShape'
  <2>1. /\ manager' = [manager EXCEPT ![p] = HeartbeatTimedOut(manager[p])]
        /\ flight' = [flight EXCEPT ![p] = << >>]
        /\ UNCHANGED <<sinceCheck, deadFor>>
        /\ alive' = Peers \ {p} /\ alive = Peers
    BY <1>6 DEF Die
  <2>2. HeartbeatTimedOut(manager[p]) \in Heartbeats(Nat)
        /\ ~HeartbeatTimedOut(manager[p]).running
        /\ HeartbeatTimedOut(manager[p]).thread = "ended"
    BY <1>0, ManagerOps
  <2>3. alive' \in {{"client"}, {"server"}}
    BY <2>1 DEF Peers
  <2>4. manager' \in [Peers -> Heartbeats(Nat)] /\ flight' \in [Peers -> Seq(Ages)]
    BY <1>1, <1>3, <2>1, <2>2
  <2>5. \A q \in Peers : InOrder(flight'[q])
    BY <1>0, <1>1, <1>3, <2>1
  <2>6. \A q \in Peers : manager'[q].running <=> manager'[q].thread = "waiting"
    BY <1>0, <1>1, <2>1, <2>2
  <2>7. \A q \in Peers \ alive' : manager'[q].thread = "ended"
    BY <1>1, <2>1, <2>2
  <2> QED BY <1>1, <2>1, <2>3, <2>4, <2>5, <2>6, <2>7 DEF PairShape, Ages
<1>7. CASE Tick
  <2>1. \A p \in Peers :
           /\ manager'[p] = Aged(manager[p])
           /\ sinceCheck'[p] = IF manager[p].running THEN sinceCheck[p] + 1 ELSE sinceCheck[p]
           /\ flight'[p] = IF p \in alive THEN Older(flight[p]) ELSE << >>
    BY <1>7 DEF Tick
  <2>2. deadFor' \in Nat /\ alive' = alive
    BY <1>1, <1>7 DEF Tick
  <2>3. \A p \in Peers : sinceCheck'[p] \in 0 .. CHECK_INTERVAL + MaxLate
    BY <1>0, <1>7, <2>1 DEF Tick
  <2>4. \A p \in Peers : flight'[p] \in Seq(Ages) /\ InOrder(flight'[p])
    BY <1>0, <1>3, <1>7, <2>1, AgesOlder DEF Tick
  <2>5. \A p \in Peers : /\ manager'[p] \in Heartbeats(Nat)
                         /\ manager'[p].running = manager[p].running
                         /\ manager'[p].thread = manager[p].thread
    BY <1>0, <2>1, AgedOps
  <2>6. /\ manager' \in [Peers -> Heartbeats(Nat)]
        /\ sinceCheck' \in [Peers -> 0 .. CHECK_INTERVAL + MaxLate]
        /\ flight' \in [Peers -> Seq(Ages)]
    BY <1>7, <2>3, <2>4, <2>5 DEF Tick
  <2> QED BY <1>0, <1>1, <2>2, <2>4, <2>5, <2>6 DEF PairShape, Ages
<1>8. CASE UNCHANGED vars
  BY <1>8 DEF vars, PairShape
<1> QED BY <1>4, <1>5, <1>6, <1>7, <1>8 DEF PairNext

-----------------------------------------------------------------------------
(* A dead peer is noticed.                                                 *)

(* A running manager has been silent for the threshold at its last check   *)
(* at most.                                                                *)
SilenceChecked ==
    \A p \in Peers : manager[p].running =>
        manager[p].sinceReceived <= TIMEOUT_THRESHOLD + sinceCheck[p]

(* A running manager is silent no longer than the threshold and the time   *)
(* since its last check: the check would have ended it.                    *)
LEMMA SilenceStep ==
    ASSUME PairShape, SilenceChecked, [PairNext]_vars
    PROVE  SilenceChecked'
<1>0. /\ \A p \in Peers :
            /\ manager[p] \in Heartbeats(Nat) /\ manager[p].sinceReceived \in Nat
            /\ sinceCheck[p] \in Nat
      /\ TIMEOUT_THRESHOLD \in Nat
  BY ShapeFacts
<1>1. manager \in [Peers -> Heartbeats(Nat)] /\ DOMAIN sinceCheck = Peers
  BY DEF PairShape
<1>2. ASSUME NEW p \in Peers, Deliver(p) PROVE SilenceChecked'
  <2>1. PICK hb \in Heartbeats(Nat) :
            manager' = [manager EXCEPT ![p] = hb] /\ hb.sinceReceived = 0
    <3>1. \/ manager' = [manager EXCEPT ![p] = HeartbeatStart(manager[p])]
          \/ manager' = [manager EXCEPT ![p] = HeartbeatReceived(manager[p])]
      BY <1>2 DEF Deliver
    <3>2. /\ HeartbeatStart(manager[p]) \in Heartbeats(Nat)
          /\ HeartbeatReceived(manager[p]) \in Heartbeats(Nat)
          /\ HeartbeatStart(manager[p]).sinceReceived = 0
          /\ HeartbeatReceived(manager[p]).sinceReceived = 0
      BY <1>0, ManagerOps
    <3> QED BY <3>1, <3>2
  <2>2. sinceCheck' = sinceCheck \/ sinceCheck' = [sinceCheck EXCEPT ![p] = 0]
    BY <1>2 DEF Deliver
  <2> QED BY <1>0, <1>1, <2>1, <2>2 DEF SilenceChecked
<1>3. ASSUME NEW p \in Peers, CheckTimesOut(p) PROVE SilenceChecked'
  <2>1. /\ manager' = [manager EXCEPT ![p] = HeartbeatTimedOut(manager[p])]
        /\ ~HeartbeatTimedOut(manager[p]).running
        /\ sinceCheck' = [sinceCheck EXCEPT ![p] = 0]
    BY <1>0, <1>3, ManagerOps DEF CheckTimesOut, Wakes
  <2> QED BY <1>0, <1>1, <2>1 DEF SilenceChecked
<1>4. ASSUME NEW p \in Peers, CheckSends(p) \/ CheckPasses(p) PROVE SilenceChecked'
  <2>1. PICK hb : /\ manager' = [manager EXCEPT ![p] = hb]
                  /\ hb.sinceReceived = manager[p].sinceReceived
    <3>1. CASE CheckPasses(p)
      <4>1. manager' = [manager EXCEPT ![p] = manager[p]]
        BY <1>1, <3>1 DEF CheckPasses
      <4> QED BY <4>1
    <3> QED BY <1>0, <1>4, <3>1, ManagerOps DEF CheckSends
  <2>2. /\ sinceCheck' = [sinceCheck EXCEPT ![p] = 0]
        /\ manager[p].sinceReceived <= TIMEOUT_THRESHOLD
    BY <1>0, <1>4 DEF CheckSends, CheckPasses, Wakes, TimeoutDue
  <2> QED BY <1>0, <1>1, <2>1, <2>2 DEF SilenceChecked
<1>5. ASSUME NEW p \in Peers, Die(p) PROVE SilenceChecked'
  <2>1. /\ manager' = [manager EXCEPT ![p] = HeartbeatTimedOut(manager[p])]
        /\ ~HeartbeatTimedOut(manager[p]).running
        /\ sinceCheck' = sinceCheck
    BY <1>0, <1>5, ManagerOps DEF Die
  <2> QED BY <1>0, <1>1, <2>1 DEF SilenceChecked
<1>6. CASE Tick
  <2> SUFFICES ASSUME NEW p \in Peers, manager'[p].running
               PROVE  manager'[p].sinceReceived <= TIMEOUT_THRESHOLD + sinceCheck'[p]
    BY DEF SilenceChecked
  <2>1. manager'[p] = Aged(manager[p])
        /\ sinceCheck'[p] = IF manager[p].running THEN sinceCheck[p] + 1 ELSE sinceCheck[p]
    BY <1>6 DEF Tick
  <2>2. manager[p].running /\ manager'[p].sinceReceived = manager[p].sinceReceived + 1
    BY <1>0, <2>1, AgedOps
  <2> QED BY <1>0, <2>1, <2>2 DEF SilenceChecked
<1>7. CASE UNCHANGED vars
  BY <1>7 DEF vars, SilenceChecked
<1> QED BY <1>2, <1>3, <1>4, <1>5, <1>6, <1>7 DEF PairNext

(* What is under way to a survivor was sent before its peer died.          *)
SurvivorWaits ==
    \A p \in alive : alive # Peers =>
        /\ \A i \in DOMAIN flight[p] : deadFor <= flight[p][i]
        /\ manager[p].running /\ flight[p] = << >>
              => deadFor <= manager[p].sinceReceived + MaxDelay
        /\ manager[p].thread = "none" => deadFor = 0

(* What the surviving peer still has to receive is no younger than the     *)
(* death of the other, and its silence lasts as long.                      *)
LEMMA SurvivorStep ==
    ASSUME PairShape, SurvivorWaits, alive = Peers => deadFor = 0, [PairNext]_vars
    PROVE  SurvivorWaits' /\ (alive' = Peers => deadFor' = 0)
<1>0. /\ \A p \in Peers :
            /\ manager[p] \in Heartbeats(Nat) /\ manager[p].sinceReceived \in Nat
            /\ flight[p] \in Seq(Ages) /\ InOrder(flight[p])
            /\ manager[p].running <=> manager[p].thread = "waiting"
      /\ MaxDelay \in Nat
  BY ShapeFacts
<1>1. /\ manager \in [Peers -> Heartbeats(Nat)] /\ flight \in [Peers -> Seq(Ages)]
      /\ alive \in {Peers, {"client"}, {"server"}} /\ alive \subseteq Peers /\ deadFor \in Nat
      /\ {"client"} # Peers /\ {"server"} # Peers
  <2>1. {"client"} # Peers /\ {"server"} # Peers
    BY DEF Peers
  <2>2. /\ manager \in [Peers -> Heartbeats(Nat)] /\ flight \in [Peers -> Seq(Ages)]
        /\ alive \in {Peers, {"client"}, {"server"}} /\ deadFor \in Nat
    BY DEF PairShape, Ages
  <2>3. alive \subseteq Peers
    BY <2>2 DEF Peers
  <2> QED BY <2>1, <2>2, <2>3
<1>2. ASSUME NEW p \in Peers, Deliver(p)
      PROVE  SurvivorWaits' /\ (alive' = Peers => deadFor' = 0)
  <2>1. /\ flight' = [flight EXCEPT ![p] = Tail(flight[p])] /\ flight[p] # << >>
        /\ p \in alive /\ UNCHANGED <<alive, deadFor>>
    BY <1>2 DEF Deliver
  <2>2. PICK hb \in Heartbeats(Nat) :
            /\ manager' = [manager EXCEPT ![p] = hb] /\ hb.sinceReceived = 0
            /\ hb.thread # "none"
    BY <1>0, <1>2, ManagerOps DEF Deliver
  <2>3. SUFFICES ASSUME alive # Peers PROVE SurvivorWaits'
    BY <2>1 DEF SurvivorWaits
  <2>4. alive = {p}
    BY <1>1, <2>1, <2>3
  <2>5. /\ Head(flight[p]) = flight[p][1] /\ 1 \in DOMAIN flight[p] /\ Head(flight[p]) \in Ages
        /\ \A i \in DOMAIN Tail(flight[p]) :
              i + 1 \in DOMAIN flight[p] /\ Tail(flight[p])[i] = flight[p][i + 1]
    BY <1>0, <2>1, AgesTail
  <2>6. deadFor <= MaxDelay
    BY <1>0, <1>1, <2>1, <2>3, <2>5 DEF SurvivorWaits, Ages
  <2>7. \A i \in DOMAIN flight'[p] : deadFor' <= flight'[p][i]
    BY <1>1, <2>1, <2>3, <2>5 DEF SurvivorWaits
  <2>8. manager'[p] = hb
    BY <1>1, <2>2
  <2> QED BY <1>0, <1>1, <2>1, <2>2, <2>4, <2>6, <2>7, <2>8 DEF SurvivorWaits
<1>3. ASSUME NEW p \in Peers, CheckTimesOut(p) \/ CheckSends(p) \/ CheckPasses(p)
      PROVE  SurvivorWaits' /\ (alive' = Peers => deadFor' = 0)
  <2>1. p \in alive /\ UNCHANGED <<alive, deadFor>>
    BY <1>3 DEF CheckTimesOut, CheckSends, CheckPasses, Wakes
  <2>2. SUFFICES ASSUME alive # Peers PROVE SurvivorWaits'
    BY <2>1 DEF SurvivorWaits
  <2>3. alive = {p} /\ Other(p) # p
    BY <1>1, <2>1, <2>2 DEF Other, Peers
  <2>4. flight'[p] = flight[p]
    BY <1>1, <1>3, <2>3 DEF CheckTimesOut, CheckSends, CheckPasses
  <2>5. /\ manager'[p].sinceReceived = manager[p].sinceReceived
        /\ manager'[p].running => manager[p].running
        /\ manager'[p].thread = "none" => manager[p].thread = "none"
    BY <1>0, <1>1, <1>3, ManagerOps DEF CheckTimesOut, CheckSends, CheckPasses
  <2> QED BY <2>1, <2>2, <2>3, <2>4, <2>5 DEF SurvivorWaits
<1>4. ASSUME NEW p \in Peers, Die(p)
      PROVE  SurvivorWaits' /\ (alive' = Peers => deadFor' = 0)
  <2>1. /\ deadFor' = 0 /\ alive' = Peers \ {p}
        /\ manager' = [manager EXCEPT ![p] = HeartbeatTimedOut(manager[p])]
        /\ flight' = [flight EXCEPT ![p] = << >>]
    BY <1>4 DEF Die
  <2>2. \A q \in alive' : /\ q \in Peers /\ manager'[q] = manager[q] /\ flight'[q] = flight[q]
    BY <1>1, <2>1
  <2>3. \A q \in Peers : \A i \in DOMAIN flight[q] : flight[q][i] \in Nat
    BY <1>0 DEF Ages
  <2> QED BY <1>0, <2>1, <2>2, <2>3 DEF SurvivorWaits
<1>5. CASE Tick
  <2>1. \A p \in Peers :
           /\ manager'[p] = Aged(manager[p])
           /\ flight'[p] = IF p \in alive THEN Older(flight[p]) ELSE << >>
    BY <1>5 DEF Tick
  <2>2. alive' = alive /\ (alive = Peers => deadFor' = deadFor)
    BY <1>5 DEF Tick
  <2>3. SUFFICES ASSUME NEW p \in alive, alive # Peers
                 PROVE  /\ \A i \in DOMAIN flight'[p] : deadFor' <= flight'[p][i]
                        /\ manager'[p].running /\ flight'[p] = << >>
                              => deadFor' <= manager'[p].sinceReceived + MaxDelay
                        /\ manager'[p].thread = "none" => deadFor' = 0
    BY <2>2 DEF SurvivorWaits
  <2>4. alive = {p} /\ p \in Peers
    BY <1>1, <2>3
  <2>5. deadFor' = IF manager[p].running THEN deadFor + 1 ELSE deadFor
    BY <1>5, <2>3, <2>4 DEF Tick
  <2>6. /\ flight'[p] = << >> <=> flight[p] = << >>
        /\ DOMAIN flight'[p] = DOMAIN flight[p]
        /\ \A i \in DOMAIN flight[p] : flight'[p][i] = flight[p][i] + 1 /\ flight[p][i] \in Ages
    BY <1>0, <1>5, <2>1, <2>4, AgesOlder DEF Tick
  <2>7. /\ manager'[p].running = manager[p].running /\ manager'[p].thread = manager[p].thread
        /\ manager[p].running => manager'[p].sinceReceived = manager[p].sinceReceived + 1
    BY <1>0, <2>1, <2>4, AgedOps
  <2>8. \A i \in DOMAIN flight'[p] : deadFor' <= flight'[p][i]
    BY <1>0, <1>1, <2>3, <2>5, <2>6 DEF SurvivorWaits, Ages
  <2>9. manager'[p].running /\ flight'[p] = << >>
           => deadFor' <= manager'[p].sinceReceived + MaxDelay
    <3> HAVE manager'[p].running /\ flight'[p] = << >>
    <3>1. manager[p].running /\ flight[p] = << >>
      BY <2>6, <2>7
    <3>2. deadFor <= manager[p].sinceReceived + MaxDelay
      BY <2>3, <3>1 DEF SurvivorWaits
    <3> QED BY <1>0, <1>1, <2>4, <2>5, <2>7, <3>1, <3>2
  <2>10. manager'[p].thread = "none" => deadFor' = 0
    BY <1>0, <2>3, <2>4, <2>5, <2>7 DEF SurvivorWaits
  <2> QED BY <2>8, <2>9, <2>10
<1>6. CASE UNCHANGED vars
  BY <1>6 DEF vars, SurvivorWaits
<1> QED BY <1>2, <1>3, <1>4, <1>5, <1>6 DEF PairNext

(* The invariant behind DeadPeerNoticed is inductive.                      *)
LEMMA NoticeStep ==
    ASSUME NoticeInv, [PairNext]_vars
    PROVE  NoticeInv'
<1>0. PairShape /\ SilenceChecked /\ SurvivorWaits /\ DeadPeerNoticed
      /\ (alive = Peers => deadFor = 0)
  BY DEF NoticeInv, SilenceChecked, SurvivorWaits
<1>1. PairShape' /\ SilenceChecked' /\ SurvivorWaits' /\ (alive' = Peers => deadFor' = 0)
  BY <1>0, ShapeStep, SilenceStep, SurvivorStep
<1>2. DeadPeerNoticed'
  <2>1. CASE deadFor' = deadFor
    BY <1>0, <2>1 DEF DeadPeerNoticed
  <2>2. CASE deadFor' # deadFor
    <3>1. Tick /\ alive # Peers
      BY <2>2 DEF PairNext, vars, Deliver, CheckTimesOut, CheckSends, CheckPasses, Wakes, Die,
                  Tick
    <3>2. PICK p \in alive : manager[p].running /\ deadFor' = deadFor + 1
      BY <2>2, <3>1 DEF Tick
    <3>3. /\ p \in Peers
          /\ sinceCheck[p] \in Nat /\ sinceCheck[p] < CHECK_INTERVAL + MaxLate
          /\ flight[p] # << >> => Head(flight[p]) < MaxDelay
          /\ manager[p].sinceReceived \in Nat /\ deadFor \in Nat
          /\ flight[p] \in Seq(Ages) /\ InOrder(flight[p])
      BY <1>0, <3>1, <3>2, ShapeFacts DEF Tick, PairShape, Peers
    <3>4. /\ TIMEOUT_THRESHOLD \in Nat /\ CHECK_INTERVAL \in Nat
          /\ MaxLate \in Nat /\ MaxDelay \in Nat
      BY <1>0, ShapeFacts
    <3>5. CASE flight[p] = << >>
      <4>1. deadFor <= manager[p].sinceReceived + MaxDelay
        BY <1>0, <3>1, <3>2, <3>5 DEF SurvivorWaits
      <4>2. manager[p].sinceReceived <= TIMEOUT_THRESHOLD + sinceCheck[p]
        BY <1>0, <3>2, <3>3 DEF SilenceChecked
      <4>3. deadFor + 1 <= TIMEOUT_THRESHOLD + (CHECK_INTERVAL + MaxLate) + MaxDelay
        BY <3>3, <3>4, <4>1, <4>2
      <4>4. deadFor' <= MaxDelay + (TIMEOUT_THRESHOLD + CHECK_INTERVAL + MaxLate)
        BY <3>2, <3>3, <3>4, <4>3
      <4> QED BY <4>4 DEF DeadPeerNoticed, NoticeBound
    <3>6. CASE flight[p] # << >>
      <4>1. Head(flight[p]) = flight[p][1] /\ 1 \in DOMAIN flight[p] /\ Head(flight[p]) \in Ages
        BY <3>3, <3>6, AgesTail
      <4>2. deadFor <= Head(flight[p])
        BY <1>0, <3>1, <4>1 DEF SurvivorWaits
      <4> QED BY <3>2, <3>3, <3>4, <3>6, <4>1, <4>2 DEF DeadPeerNoticed, NoticeBound, Ages
    <3> QED BY <3>5, <3>6
  <2> QED BY <2>1, <2>2
<1> QED BY <1>1, <1>2 DEF NoticeInv, SilenceChecked, SurvivorWaits

(* The managers as handleOpen leaves them.                                 *)
LEMMA NoticeInit == ASSUME PairInit PROVE NoticeInv
<1>0. /\ MaxDelay \in Nat /\ MaxLate \in Nat
      /\ CHECK_INTERVAL \in Nat /\ TIMEOUT_THRESHOLD \in Nat
  BY PairAssumption, HeartbeatAssumption
<1>1. /\ IdleHeartbeat \in Heartbeats(Nat) /\ ~IdleHeartbeat.running
      /\ IdleHeartbeat.thread = "none"
  BY DEF IdleHeartbeat, Heartbeats
<1>2. /\ HeartbeatStart(IdleHeartbeat) \in Heartbeats(Nat)
      /\ HeartbeatStart(IdleHeartbeat).running
      /\ HeartbeatStart(IdleHeartbeat).thread = "waiting"
      /\ HeartbeatStart(IdleHeartbeat).sinceReceived = 0
  BY <1>1, ManagerOps
<1>3. \A p \in Peers :
         /\ manager[p] \in Heartbeats(Nat)
         /\ manager[p].running <=> manager[p].thread = "waiting"
         /\ manager[p].running => manager[p].sinceReceived = 0
  BY <1>1, <1>2 DEF PairInit
<1>4. << 0 >> \in Seq(Ages) /\ << >> \in Seq(Ages) /\ InOrder(<< 0 >>) /\ InOrder(<< >>)
  BY <1>0 DEF Ages, InOrder
<1>5. \A p \in Peers : flight[p] \in Seq(Ages) /\ InOrder(flight[p])
  BY <1>4 DEF PairInit
<1>6. PairShape
  <2>1. /\ manager \in [Peers -> Heartbeats(Nat)] /\ flight \in [Peers -> Seq(Ages)]
    BY <1>3, <1>5 DEF PairInit
  <2>2. sinceCheck \in [Peers -> 0 .. CHECK_INTERVAL + MaxLate]
    BY <1>0 DEF PairInit
  <2>3. alive = Peers /\ deadFor = 0
    BY DEF PairInit
  <2> QED BY <1>3, <1>5, <2>1, <2>2, <2>3 DEF PairShape, Ages
<1>7. \A p \in Peers : sinceCheck[p] = 0
  BY DEF PairInit
<1>8. alive = Peers /\ deadFor = 0
  BY DEF PairInit
<1> QED BY <1>0, <1>3, <1>6, <1>7, <1>8 DEF NoticeInv, DeadPeerNoticed, NoticeBound

(* The invariant of a pair of managers that any peer may be taken from.    *)
THEOREM NoticeInvariant == PairSpec => []NoticeInv
<1>1. PairInit => NoticeInv
  BY NoticeInit
<1>2. NoticeInv /\ [PairNext]_vars => NoticeInv'
  BY NoticeStep
<1> QED BY <1>1, <1>2, PTL DEF PairSpec

(* A dead peer is noticed within the threshold, one late check and the     *)
(* frames under way, whatever the intervals are.                           *)
THEOREM DeadPeersAreNoticed == PairSpec => []DeadPeerNoticed
<1>1. NoticeInv => DeadPeerNoticed
  BY DEF NoticeInv
<1> QED BY <1>1, NoticeInvariant, PTL

-----------------------------------------------------------------------------
(* A live peer is not given up.                                            *)

(* A manager sends at every second check at the latest.                    *)
LEMMA SendsStep ==
    ASSUME PairShape, SendsInTime, [PairNext]_vars
    PROVE  SendsInTime'
<1>0. /\ \A p \in Peers :
            /\ manager[p] \in Heartbeats(Nat) /\ manager[p].sinceSent \in Nat
            /\ sinceCheck[p] \in Nat /\ sinceCheck[p] <= CHECK_INTERVAL + MaxLate
            /\ manager[p].running <=> manager[p].thread = "waiting"
      /\ MaxLate \in Nat /\ CHECK_INTERVAL \in Nat /\ SEND_INTERVAL \in Nat
  BY ShapeFacts
<1>1. /\ manager \in [Peers -> Heartbeats(Nat)] /\ DOMAIN sinceCheck = Peers
  BY DEF PairShape
<1>2. ASSUME NEW p \in Peers, Deliver(p) PROVE SendsInTime'
  <2>1. CASE /\ manager' = [manager EXCEPT ![p] = HeartbeatStart(manager[p])]
             /\ sinceCheck' = [sinceCheck EXCEPT ![p] = 0]
    <3>1. HeartbeatStart(manager[p]).sinceSent = 0
      BY <1>0, ManagerOps
    <3> QED BY <1>0, <1>1, <2>1, <3>1 DEF SendsInTime
  <2>2. CASE /\ manager' = [manager EXCEPT ![p] = HeartbeatReceived(manager[p])]
             /\ sinceCheck' = sinceCheck
    <3>1. /\ HeartbeatReceived(manager[p]).sinceSent = manager[p].sinceSent
          /\ HeartbeatReceived(manager[p]).running = manager[p].running
      BY <1>0, ManagerOps
    <3> QED BY <1>0, <1>1, <2>2, <3>1 DEF SendsInTime
  <2> QED BY <1>2, <2>1, <2>2 DEF Deliver
<1>3. ASSUME NEW p \in Peers, CheckTimesOut(p) PROVE SendsInTime'
  <2>1. /\ manager' = [manager EXCEPT ![p] = HeartbeatTimedOut(manager[p])]
        /\ ~HeartbeatTimedOut(manager[p]).running
        /\ sinceCheck' = [sinceCheck EXCEPT ![p] = 0]
    BY <1>0, <1>3, ManagerOps DEF CheckTimesOut, Wakes
  <2> QED BY <1>0, <1>1, <2>1 DEF SendsInTime
<1>4. ASSUME NEW p \in Peers, CheckSends(p) PROVE SendsInTime'
  <2>1. /\ manager' = [manager EXCEPT ![p] = HeartbeatSent(manager[p])]
        /\ HeartbeatSent(manager[p]).sinceSent = 0
        /\ sinceCheck' = [sinceCheck EXCEPT ![p] = 0]
    BY <1>0, <1>4, ManagerOps DEF CheckSends, Wakes
  <2> QED BY <1>0, <1>1, <2>1 DEF SendsInTime
<1>5. ASSUME NEW p \in Peers, CheckPasses(p) PROVE SendsInTime'
  <2>1. /\ manager' = manager /\ sinceCheck' = [sinceCheck EXCEPT ![p] = 0]
        /\ manager[p].running /\ sinceCheck[p] >= CHECK_INTERVAL
        /\ manager[p].sinceSent < SEND_INTERVAL
    BY <1>0, <1>5 DEF CheckPasses, Wakes, SendDue
  <2>2. manager[p].sinceSent = sinceCheck[p]
    BY <1>0, <2>1, TimingAssumption DEF SendsInTime
  <2> QED BY <1>0, <1>1, <2>1, <2>2 DEF SendsInTime
<1>6. ASSUME NEW p \in Peers, Die(p) PROVE SendsInTime'
  <2>1. /\ manager' = [manager EXCEPT ![p] = HeartbeatTimedOut(manager[p])]
        /\ ~HeartbeatTimedOut(manager[p]).running
        /\ sinceCheck' = sinceCheck
    BY <1>0, <1>6, ManagerOps DEF Die
  <2> QED BY <1>0, <1>1, <2>1 DEF SendsInTime
<1>7. CASE Tick
  <2>1. \A p \in Peers :
           /\ manager'[p] = Aged(manager[p])
           /\ sinceCheck'[p] = IF manager[p].running THEN sinceCheck[p] + 1 ELSE sinceCheck[p]
    BY <1>7 DEF Tick
  <2>2. \A p \in Peers : manager'[p].running =>
           manager[p].running /\ manager'[p].sinceSent = manager[p].sinceSent + 1
    BY <1>0, <2>1, AgedOps
  <2> QED BY <1>0, <2>1, <2>2 DEF SendsInTime
<1>8. CASE UNCHANGED vars
  BY <1>8 DEF vars, SendsInTime
<1> QED BY <1>2, <1>3, <1>4, <1>5, <1>6, <1>7, <1>8 DEF PairNext

(* The ages stay within the bounds of the types.                           *)
LEMMA PairTypeStep ==
    ASSUME PairTypeOK, PairShape, PairShape', SilenceChecked', SendsInTime', [PairNext]_vars
    PROVE  PairTypeOK'
<1>0. /\ \A p \in Peers :
            /\ manager[p].sinceReceived \in 0 .. NoticeBound
            /\ manager[p].sinceSent \in 0 .. NoticeBound
            /\ manager[p] \in Heartbeats(Nat)
            /\ manager[p].running <=> manager[p].thread = "waiting"
      /\ TIMEOUT_THRESHOLD \in Nat /\ CHECK_INTERVAL \in Nat /\ MaxLate \in Nat
      /\ MaxDelay \in Nat /\ NoticeBound \in Nat
  <2>1. \A p \in Peers : /\ manager[p].sinceReceived \in 0 .. NoticeBound
                         /\ manager[p].sinceSent \in 0 .. NoticeBound
    BY DEF PairTypeOK, Heartbeats
  <2> QED BY <2>1, ShapeFacts DEF NoticeBound
<1>1. /\ manager' \in [Peers -> Heartbeats(Nat)]
      /\ sinceCheck' \in [Peers -> 0 .. CHECK_INTERVAL + MaxLate]
      /\ flight' \in [Peers -> Seq(0 .. MaxDelay)]
      /\ alive' \subseteq Peers /\ deadFor' \in Nat
  <2>1. alive' \in {Peers, {"client"}, {"server"}}
    BY DEF PairShape
  <2>2. alive' \subseteq Peers
    BY <2>1 DEF Peers
  <2> QED BY <2>2 DEF PairShape
<1>2. ASSUME NEW p \in Peers
      PROVE  /\ manager'[p].sinceReceived \in 0 .. NoticeBound
             /\ manager'[p].sinceSent \in 0 .. NoticeBound
  <2>0. /\ manager'[p].sinceReceived \in Nat /\ manager'[p].sinceSent \in Nat
        /\ sinceCheck'[p] \in Nat /\ sinceCheck'[p] <= CHECK_INTERVAL + MaxLate
    BY <1>0, <1>1 DEF Heartbeats
  <2>1. CASE manager'[p].running
    <3>1. manager'[p].sinceReceived <= TIMEOUT_THRESHOLD + sinceCheck'[p]
      BY <2>1 DEF SilenceChecked
    <3>2. manager'[p].sinceSent <= sinceCheck'[p] + CHECK_INTERVAL + MaxLate
      BY <1>0, <2>0, <2>1 DEF SendsInTime
    <3> QED BY <1>0, <2>0, <3>1, <3>2, TimingAssumption DEF NoticeBound
  <2>2. CASE ~manager'[p].running
    <3>1. /\ manager'[p].sinceReceived \in {0, manager[p].sinceReceived}
          /\ manager'[p].sinceSent \in {0, manager[p].sinceSent}
      <4>0. manager \in [Peers -> Heartbeats(Nat)]
        BY DEF PairShape
      <4>1. ASSUME NEW q \in Peers, Deliver(q)
            PROVE  /\ manager'[p].sinceReceived \in {0, manager[p].sinceReceived}
                   /\ manager'[p].sinceSent \in {0, manager[p].sinceSent}
        <5>1. \/ manager' = [manager EXCEPT ![q] = HeartbeatStart(manager[q])]
              \/ manager' = [manager EXCEPT ![q] = HeartbeatReceived(manager[q])]
          BY <4>1 DEF Deliver
        <5> QED BY <1>0, <4>0, <5>1, ManagerOps
      <4>2. ASSUME NEW q \in Peers, CheckTimesOut(q) \/ CheckSends(q) \/ Die(q)
            PROVE  /\ manager'[p].sinceReceived \in {0, manager[p].sinceReceived}
                   /\ manager'[p].sinceSent \in {0, manager[p].sinceSent}
        <5>1. \/ manager' = [manager EXCEPT ![q] = HeartbeatTimedOut(manager[q])]
              \/ manager' = [manager EXCEPT ![q] = HeartbeatSent(manager[q])]
          BY <4>2 DEF CheckTimesOut, CheckSends, Die
        <5> QED BY <1>0, <4>0, <5>1, ManagerOps
      <4>3. CASE Tick
        <5>1. manager'[p] = Aged(manager[p])
          BY <4>3 DEF Tick
        <5> QED BY <1>0, <2>2, <5>1, AgedOps
      <4>4. CASE manager' = manager
        BY <4>4
      <4> QED BY <4>1, <4>2, <4>3, <4>4 DEF PairNext, CheckPasses, vars
    <3> QED BY <1>0, <3>1
  <2> QED BY <2>1, <2>2
<1>3. \A p \in Peers : manager'[p] \in Heartbeats(0 .. NoticeBound)
  BY <1>1, <1>2 DEF Heartbeats
<1> QED BY <1>1, <1>3 DEF PairTypeOK

(* While both peers are alive, neither's silence reaches the threshold.    *)
LEMMA NothingIsDue ==
    ASSUME PairShape, SendsInTime, HeardInTime, NEW p \in Peers, manager[p].running
    PROVE  ~TimeoutDue(manager[p])
<1>0. /\ \A q \in Peers :
            /\ manager[q].sinceReceived \in Nat /\ manager[q].sinceSent \in Nat
            /\ sinceCheck[q] \in Nat /\ sinceCheck[q] <= CHECK_INTERVAL + MaxLate
            /\ flight[q] \in Seq(Ages) /\ InOrder(flight[q])
            /\ manager[q].running <=> manager[q].thread = "waiting"
            /\ manager[q].thread \in {"none", "waiting", "ended"}
      /\ MaxDelay \in Nat /\ MaxLate \in Nat /\ CHECK_INTERVAL \in Nat
      /\ TIMEOUT_THRESHOLD \in Nat
  BY ShapeFacts
<1>1. \A q \in Peers : flight[q] # << >> => Head(flight[q]) \in Nat /\ Head(flight[q]) <= MaxDelay
  BY <1>0, AgesTail DEF Ages
<1>2. Other(p) \in Peers /\ (p = "client" => Other(p) = "server")
      /\ (p # "client" => Other(p) = "client")
  BY DEF Other, Peers
<1>3. CASE flight[p] # << >>
  BY <1>0, <1>1, <1>3, TimingAssumption DEF HeardInTime, TimeoutDue
<1>4. CASE flight[p] = << >> /\ manager[Other(p)].running
  <2>1. manager[p].sinceReceived <= manager[Other(p)].sinceSent + MaxDelay
    BY <1>4 DEF HeardInTime
  <2>2. manager[Other(p)].sinceSent <= 2 * (CHECK_INTERVAL + MaxLate)
    BY <1>0, <1>2, <1>4 DEF SendsInTime
  <2> QED BY <1>0, <1>2, <2>1, <2>2, TimingAssumption DEF TimeoutDue
<1>5. CASE flight[p] = << >> /\ ~manager[Other(p)].running
  <2>1. p = "client" /\ manager["server"].thread = "none"
    BY <1>0, <1>2, <1>5 DEF HeardInTime, Peers
  <2>2. flight["server"] # << >> /\ manager["client"].sinceReceived <= Head(flight["server"])
    BY <2>1 DEF HeardInTime
  <2>3. Head(flight["server"]) \in Nat /\ Head(flight["server"]) <= MaxDelay
    BY <1>1, <2>2 DEF Peers
  <2> QED BY <1>0, <2>1, <2>2, <2>3, TimingAssumption DEF TimeoutDue
<1> QED BY <1>3, <1>4, <1>5

(* As long as both peers live, each hears the other before its threshold,  *)
(* or has a frame on its way that will be in time.                         *)
LEMMA HeardStep ==
    ASSUME PairShape, SendsInTime, HeardInTime, [PairNext]_vars,
           alive = Peers, alive' = Peers
    PROVE  HeardInTime'
<1> DEFINE gap == 2 * (CHECK_INTERVAL + MaxLate) + MaxDelay
           c == "client"
           s == "server"
<1>0. /\ \A q \in Peers :
            /\ manager[q] \in Heartbeats(Nat)
            /\ manager[q].sinceReceived \in Nat /\ manager[q].sinceSent \in Nat
            /\ sinceCheck[q] \in Nat /\ sinceCheck[q] <= CHECK_INTERVAL + MaxLate
            /\ flight[q] \in Seq(Ages) /\ InOrder(flight[q])
            /\ manager[q].running <=> manager[q].thread = "waiting"
            /\ manager[q].thread \in {"none", "waiting", "ended"}
      /\ MaxDelay \in Nat /\ MaxLate \in Nat /\ CHECK_INTERVAL \in Nat
      /\ gap \in Nat
  BY ShapeFacts
<1>1. \A q \in Peers : flight[q] # << >> => Head(flight[q]) \in Nat /\ Head(flight[q]) <= MaxDelay
  BY <1>0, AgesTail DEF Ages
<1>2. /\ c \in Peers /\ s \in Peers /\ c # s /\ \A q \in Peers : q = c \/ q = s
      /\ Other(c) = s /\ Other(s) = c
  BY DEF Other, Peers
<1>3. manager \in [Peers -> Heartbeats(Nat)] /\ flight \in [Peers -> Seq(Ages)]
  BY DEF PairShape, Ages
<1>4. /\ manager[c].thread = "waiting" /\ manager[s].thread # "ended"
      /\ \A q \in Peers :
            /\ flight[q] # << >> => manager[q].sinceReceived <= Head(flight[q]) + gap
            /\ flight[q] = << >> /\ manager[Other(q)].running
                  => manager[q].sinceReceived <= manager[Other(q)].sinceSent + MaxDelay
      /\ manager[s].thread = "none" =>
            /\ flight[c] = << >> /\ flight[s] # << >>
            /\ manager[c].sinceReceived <= Head(flight[s])
  BY DEF HeardInTime
<1>5. ASSUME /\ manager'[c].thread = "waiting" /\ manager'[s].thread # "ended",
             \A q \in Peers :
               /\ flight'[q] # << >> => manager'[q].sinceReceived <= Head(flight'[q]) + gap
               /\ flight'[q] = << >> /\ manager'[Other(q)].running
                    => manager'[q].sinceReceived <= manager'[Other(q)].sinceSent + MaxDelay,
             manager'[s].thread = "none" =>
               /\ flight'[c] = << >> /\ flight'[s] # << >>
               /\ manager'[c].sinceReceived <= Head(flight'[s])
      PROVE  HeardInTime'
  BY <1>5 DEF HeardInTime
<1> HIDE DEF gap
<1>6. ASSUME NEW p \in Peers, Deliver(p) PROVE HeardInTime'
  <2>1. flight' = [flight EXCEPT ![p] = Tail(flight[p])] /\ flight[p] # << >>
    BY <1>6 DEF Deliver
  <2>2. flight'[p] \in Seq(Ages) /\ InOrder(flight'[p])
        /\ \A q \in Peers : q # p => flight'[q] = flight[q]
    BY <1>0, <1>3, <2>1, AgesTail
  <2>3. flight'[p] # << >> => Head(flight'[p]) \in Nat
    BY <2>2, AgesTail DEF Ages
  <2>4. CASE /\ manager[p].thread = "none"
             /\ manager' = [manager EXCEPT ![p] = HeartbeatStart(manager[p])]
    <3>1. p = s
      BY <1>2, <1>4, <2>4
    <3>2. /\ manager'[s].running /\ manager'[s].thread = "waiting"
          /\ manager'[s].sinceReceived = 0 /\ manager'[s].sinceSent = 0
          /\ manager'[c] = manager[c]
      BY <1>0, <1>2, <1>3, <2>4, <3>1, ManagerOps
    <3>3. flight'[c] = << >> /\ manager'[c].sinceReceived <= MaxDelay
      BY <1>0, <1>1, <1>2, <1>4, <2>2, <2>4, <3>1, <3>2
    <3>4. /\ flight'[s] # << >> => manager'[s].sinceReceived <= Head(flight'[s]) + gap
          /\ manager'[s].sinceReceived <= manager'[c].sinceSent + MaxDelay
      <4>1. manager'[c].sinceSent \in Nat /\ MaxDelay \in Nat /\ gap \in Nat
        BY <1>0, <1>2, <3>2
      <4>2. flight'[s] # << >> => Head(flight'[s]) \in Nat
        BY <2>3, <3>1
      <4> QED BY <3>2, <4>1, <4>2
    <3>5. manager'[c].sinceReceived <= manager'[s].sinceSent + MaxDelay
      BY <1>0, <3>2, <3>3
    <3>6. \A q \in Peers :
             /\ flight'[q] # << >> => manager'[q].sinceReceived <= Head(flight'[q]) + gap
             /\ flight'[q] = << >> /\ manager'[Other(q)].running
                  => manager'[q].sinceReceived <= manager'[Other(q)].sinceSent + MaxDelay
      BY <1>2, <3>3, <3>4, <3>5
    <3> QED BY <1>4, <1>5, <3>2, <3>6
  <2>5. CASE /\ manager[p].thread # "none"
             /\ manager' = [manager EXCEPT ![p] = HeartbeatReceived(manager[p])]
    <3>1. /\ manager'[p].running = manager[p].running /\ manager'[p].thread = manager[p].thread
          /\ manager'[p].sinceReceived = 0 /\ manager'[p].sinceSent = manager[p].sinceSent
          /\ \A q \in Peers : q # p => manager'[q] = manager[q]
      BY <1>0, <1>3, <2>5, ManagerOps
    <3>2. \A q \in Peers : /\ manager'[q].running = manager[q].running
                           /\ manager'[q].thread = manager[q].thread
                           /\ manager'[q].sinceSent = manager[q].sinceSent
      BY <3>1
    <3>3. manager[s].thread # "none"
      BY <1>2, <1>4, <2>1, <2>5
    <3>4. ASSUME NEW q \in Peers
          PROVE  /\ flight'[q] # << >> => manager'[q].sinceReceived <= Head(flight'[q]) + gap
                 /\ flight'[q] = << >> /\ manager'[Other(q)].running
                    => manager'[q].sinceReceived <= manager'[Other(q)].sinceSent + MaxDelay
      <4>1. CASE q = p
        <5>1. Other(p) \in Peers
          BY <1>2
        <5> QED BY <1>0, <2>3, <3>1, <3>2, <4>1, <5>1
      <4>2. CASE q # p
        <5>1. Other(q) \in Peers
          BY <1>2
        <5> QED BY <1>4, <2>2, <3>1, <3>2, <4>2, <5>1
      <4> QED BY <4>1, <4>2
    <3> QED BY <1>2, <1>4, <1>5, <3>2, <3>3, <3>4
  <2> QED BY <1>6, <2>4, <2>5 DEF Deliver
<1>7. ASSUME NEW p \in Peers, CheckTimesOut(p) PROVE FALSE
  BY <1>0, <1>7, NothingIsDue DEF CheckTimesOut, Wakes
<1>8. ASSUME NEW p \in Peers, CheckSends(p) PROVE HeardInTime'
  <2>1. /\ manager' = [manager EXCEPT ![p] = HeartbeatSent(manager[p])]
        /\ flight' = [flight EXCEPT ![Other(p)] = Append(flight[Other(p)], 0)]
        /\ manager[p].running /\ manager[p].thread = "waiting"
    BY <1>0, <1>8 DEF CheckSends, Wakes
  <2>2. /\ Other(p) \in Peers /\ Other(p) # p /\ Other(Other(p)) = p
        /\ \A q \in Peers : q = p \/ q = Other(p)
    BY <1>2
  <2>3. /\ flight'[Other(p)] # << >> /\ flight'[p] = flight[p]
        /\ Head(flight'[Other(p)]) = IF flight[Other(p)] = << >> THEN 0
                                     ELSE Head(flight[Other(p)])
    BY <1>0, <1>3, <2>1, <2>2, AgesAppend
  <2>4. /\ manager'[Other(p)] = manager[Other(p)]
        /\ manager'[p].running = manager[p].running /\ manager'[p].thread = manager[p].thread
        /\ manager'[p].sinceReceived = manager[p].sinceReceived
    <3>1. manager'[Other(p)] = manager[Other(p)] /\ manager'[p] = HeartbeatSent(manager[p])
      BY <1>3, <2>1, <2>2
    <3> QED BY <1>0, <3>1, ManagerOps
  <2>5. manager[p].sinceSent <= 2 * (CHECK_INTERVAL + MaxLate)
    <3>1. /\ manager[p].sinceSent \in Nat /\ sinceCheck[p] \in Nat
          /\ sinceCheck[p] <= CHECK_INTERVAL + MaxLate
          /\ CHECK_INTERVAL \in Nat /\ MaxLate \in Nat
      BY <1>0
    <3>2. \/ manager[p].sinceSent = sinceCheck[p]
          \/ manager[p].sinceSent <= sinceCheck[p] + CHECK_INTERVAL + MaxLate
      BY <2>1 DEF SendsInTime
    <3> QED BY <3>1, <3>2
  <2>6. manager'[Other(p)].sinceReceived <= Head(flight'[Other(p)]) + gap
    <3>1. CASE flight[Other(p)] = << >>
      <4>1. manager[Other(p)].sinceReceived <= manager[p].sinceSent + MaxDelay
        BY <1>4, <2>1, <2>2, <3>1
      <4> QED BY <1>0, <2>2, <2>3, <2>4, <2>5, <3>1, <4>1 DEF gap
    <3>2. CASE flight[Other(p)] # << >>
      BY <1>4, <2>2, <2>3, <2>4, <3>2
    <3> QED BY <3>1, <3>2
  <2>7. /\ flight'[p] # << >> => manager'[p].sinceReceived <= Head(flight'[p]) + gap
        /\ flight'[p] = << >> /\ manager'[Other(p)].running
             => manager'[p].sinceReceived <= manager'[Other(p)].sinceSent + MaxDelay
    BY <1>4, <2>3, <2>4
  <2>8. manager'[s].thread = "none" =>
               /\ flight'[c] = << >> /\ flight'[s] # << >>
               /\ manager'[c].sinceReceived <= Head(flight'[s])
    <3> HAVE manager'[s].thread = "none"
    <3>1. p = c /\ Other(p) = s /\ manager[s].thread = "none"
      BY <1>2, <2>1, <2>2, <2>4
    <3> QED BY <1>4, <2>3, <2>4, <3>1
  <2>9. manager'[c].thread = "waiting" /\ manager'[s].thread # "ended"
    BY <1>2, <1>4, <2>2, <2>4
  <2>10. \A q \in Peers :
               /\ flight'[q] # << >> => manager'[q].sinceReceived <= Head(flight'[q]) + gap
               /\ flight'[q] = << >> /\ manager'[Other(q)].running
                    => manager'[q].sinceReceived <= manager'[Other(q)].sinceSent + MaxDelay
    BY <2>2, <2>3, <2>6, <2>7
  <2> QED BY <1>5, <2>8, <2>9, <2>10
<1>9. ASSUME NEW p \in Peers, CheckPasses(p) PROVE HeardInTime'
  BY <1>9 DEF CheckPasses, HeardInTime
<1>10. ASSUME NEW p \in Peers, Die(p) PROVE FALSE
  BY <1>10 DEF Die
<1>11. CASE Tick
  <2>1. \A q \in Peers :
           /\ manager'[q] = Aged(manager[q])
           /\ flight'[q] = Older(flight[q])
           /\ flight[q] # << >> => Head(flight[q]) < MaxDelay
    BY <1>11 DEF Tick
  <2>2. \A q \in Peers :
           /\ manager'[q].running = manager[q].running /\ manager'[q].thread = manager[q].thread
           /\ manager[q].running =>
                 /\ manager'[q].sinceReceived = manager[q].sinceReceived + 1
                 /\ manager'[q].sinceSent = manager[q].sinceSent + 1
           /\ ~manager[q].running => manager'[q] = manager[q]
    BY <1>0, <2>1, AgedOps
  <2>3. \A q \in Peers :
           /\ flight'[q] = << >> <=> flight[q] = << >>
           /\ flight[q] # << >> => Head(flight'[q]) = Head(flight[q]) + 1
    BY <1>0, <2>1, AgesOlder
  <2>4. ASSUME NEW q \in Peers
        PROVE  /\ flight'[q] # << >> => manager'[q].sinceReceived <= Head(flight'[q]) + gap
               /\ flight'[q] = << >> /\ manager'[Other(q)].running
                    => manager'[q].sinceReceived <= manager'[Other(q)].sinceSent + MaxDelay
    <3>1. Other(q) \in Peers
      BY <1>2
    <3>2. manager'[q].sinceReceived <= manager[q].sinceReceived + 1
          /\ manager'[q].sinceReceived \in Nat
      BY <1>0, <2>2
    <3>3. ASSUME flight'[q] # << >>
          PROVE  manager'[q].sinceReceived <= Head(flight'[q]) + gap
      <4>1. flight[q] # << >> /\ Head(flight'[q]) = Head(flight[q]) + 1
        BY <2>3, <3>3
      <4>2. manager[q].sinceReceived <= Head(flight[q]) + gap /\ Head(flight[q]) \in Nat
        BY <1>1, <1>4, <4>1
      <4>3. manager[q].sinceReceived \in Nat /\ gap \in Nat
        BY <1>0
      <4>4. manager[q].sinceReceived + 1 <= Head(flight[q]) + 1 + gap
        BY <4>2, <4>3
      <4>5. manager'[q].sinceReceived <= Head(flight[q]) + 1 + gap
        BY <3>2, <4>2, <4>3, <4>4
      <4> QED BY <4>1, <4>5
    <3>4. ASSUME flight'[q] = << >>, manager'[Other(q)].running
          PROVE  manager'[q].sinceReceived <= manager'[Other(q)].sinceSent + MaxDelay
      <4>1. flight[q] = << >> /\ manager[Other(q)].running
            /\ manager'[Other(q)].sinceSent = manager[Other(q)].sinceSent + 1
        BY <2>2, <2>3, <3>1, <3>4
      <4>2. manager[q].sinceReceived <= manager[Other(q)].sinceSent + MaxDelay
        BY <1>4, <4>1
      <4> QED BY <1>0, <3>1, <3>2, <4>1, <4>2
    <3> QED BY <3>3, <3>4
  <2>5. manager'[s].thread = "none" =>
               /\ flight'[c] = << >> /\ flight'[s] # << >>
               /\ manager'[c].sinceReceived <= Head(flight'[s])
    <3> HAVE manager'[s].thread = "none"
    <3>1. /\ flight[c] = << >> /\ flight[s] # << >>
          /\ manager[c].sinceReceived <= Head(flight[s])
      BY <1>2, <1>4, <2>2
    <3>2. manager'[c].sinceReceived = manager[c].sinceReceived + 1
      BY <1>0, <1>2, <1>4, <2>2
    <3>3. flight'[c] = << >> /\ flight'[s] # << >> /\ Head(flight'[s]) = Head(flight[s]) + 1
      BY <1>2, <2>3, <3>1
    <3>4. Head(flight[s]) \in Nat /\ manager[c].sinceReceived \in Nat
      BY <1>0, <1>1, <1>2, <3>1
    <3> QED BY <3>1, <3>2, <3>3, <3>4
  <2> QED BY <1>2, <1>4, <1>5, <2>2, <2>4, <2>5
<1>12. CASE UNCHANGED vars
  BY <1>12 DEF vars, HeardInTime
<1> QED BY <1>6, <1>7, <1>8, <1>9, <1>10, <1>11, <1>12 DEF PairNext

(* The inductive invariant of both halves: what is noticed, what is sent   *)
(* and what is heard in time.                                              *)
THEOREM PairInvariant == PairSpec => []PairInv
<1>1. PairInit => PairInv
  <2> HAVE PairInit
  <2>1. NoticeInv /\ PairShape
    BY NoticeInit DEF NoticeInv
  <2>2. /\ MaxDelay \in Nat /\ MaxLate \in Nat /\ NoticeBound \in Nat
        /\ CHECK_INTERVAL \in Nat /\ TIMEOUT_THRESHOLD \in Nat
    BY PairAssumption, HeartbeatAssumption DEF NoticeBound
  <2>3. /\ manager["client"] = HeartbeatStart(IdleHeartbeat)
        /\ manager["server"] = IdleHeartbeat
        /\ \A p \in Peers : sinceCheck[p] = 0
        /\ flight["client"] = << >> /\ flight["server"] = << 0 >>
    BY DEF PairInit, Peers
  <2>4. /\ IdleHeartbeat \in Heartbeats({0}) /\ ~IdleHeartbeat.running
        /\ IdleHeartbeat.thread = "none" /\ IdleHeartbeat.sinceReceived = 0
    BY DEF IdleHeartbeat, Heartbeats
  <2>5. /\ HeartbeatStart(IdleHeartbeat) \in Heartbeats({0})
        /\ HeartbeatStart(IdleHeartbeat).thread = "waiting"
        /\ HeartbeatStart(IdleHeartbeat).sinceReceived = 0
        /\ HeartbeatStart(IdleHeartbeat).sinceSent = 0
    BY DEF IdleHeartbeat, HeartbeatStart, Heartbeats
  <2>6. PairTypeOK
    <3>1. Heartbeats({0}) \subseteq Heartbeats(0 .. NoticeBound)
      BY <2>2 DEF Heartbeats
    <3>2. manager \in [Peers -> Heartbeats(0 .. NoticeBound)]
      BY <2>4, <2>5, <3>1 DEF PairInit
    <3>3. alive \subseteq Peers
      BY DEF PairInit
    <3> QED BY <2>1, <3>2, <3>3 DEF PairTypeOK, PairShape
  <2>7. SendsInTime
    BY <2>3, <2>4, <2>5 DEF SendsInTime, Peers
  <2>8. HeardInTime
    <3>1. << 0 >> # << >> /\ Head(<< 0 >>) = 0
      OBVIOUS
    <3>2. 0 <= 0 + (2 * (CHECK_INTERVAL + MaxLate) + MaxDelay)
      BY <2>2
    <3>3. /\ manager["client"].thread = "waiting" /\ manager["server"].thread = "none"
          /\ ~manager["server"].running
          /\ manager["client"].sinceReceived = 0 /\ manager["server"].sinceReceived = 0
      BY <2>3, <2>4, <2>5
    <3>4. flight["server"] # << >> /\ Head(flight["server"]) = 0 /\ flight["client"] = << >>
      BY <2>3, <3>1
    <3>5. Other("client") = "server"
      BY DEF Other
    <3>6. ASSUME NEW p \in Peers
          PROVE  /\ flight[p] # << >>
                      => manager[p].sinceReceived
                           <= Head(flight[p]) + (2 * (CHECK_INTERVAL + MaxLate) + MaxDelay)
                 /\ flight[p] = << >> /\ manager[Other(p)].running
                      => manager[p].sinceReceived <= manager[Other(p)].sinceSent + MaxDelay
      <4>1. CASE p = "client"
        BY <3>3, <3>4, <3>5, <4>1
      <4>2. CASE p = "server"
        BY <3>2, <3>3, <3>4, <4>2
      <4> QED BY <4>1, <4>2 DEF Peers
    <3>7. manager["client"].sinceReceived <= Head(flight["server"])
      BY <3>3, <3>4
    <3> QED BY <3>3, <3>4, <3>6, <3>7 DEF HeardInTime
  <2> QED BY <2>1, <2>6, <2>7, <2>8 DEF PairInv
<1>2. PairInv /\ [PairNext]_vars => PairInv'
  <2> HAVE PairInv /\ [PairNext]_vars
  <2>1. NoticeInv /\ PairTypeOK /\ SendsInTime /\ PairShape
    BY DEF PairInv, NoticeInv
  <2>2. NoticeInv'
    BY <2>1, NoticeStep
  <2>3. PairShape' /\ SilenceChecked'
    BY <2>2 DEF NoticeInv, SilenceChecked
  <2>4. SendsInTime'
    BY <2>1, SendsStep
  <2>5. PairTypeOK'
    BY <2>1, <2>3, <2>4, PairTypeStep
  <2>6. ASSUME alive' = Peers PROVE HeardInTime'
    <3>1. alive = Peers
      <4>1. alive' = alive \/ \E p \in Peers : alive' = Peers \ {p}
        BY DEF PairNext, Tick, Deliver, CheckTimesOut, CheckSends, CheckPasses, Wakes,
               Die, vars
      <4> QED BY <2>6, <4>1
    <3>2. HeardInTime
      BY <3>1 DEF PairInv
    <3> QED BY <2>1, <2>6, <3>1, <3>2, HeardStep
  <2> QED BY <2>2, <2>4, <2>5, <2>6 DEF PairInv
<1> QED BY <1>1, <1>2, PTL DEF PairSpec

(* No age outgrows the latest check that would notice it.                  *)
THEOREM PairTypeCorrect == PairSpec => []PairTypeOK
<1>1. PairInv => PairTypeOK
  BY DEF PairInv
<1> QED BY <1>1, PairInvariant, PTL

(* Under the timing assumption no manager gives up a peer that is alive.   *)
THEOREM LivePeersAreKept == PairSpec => []NoFalseTimeout
<1>1. PairInv => NoFalseTimeout
  BY DEF PairInv, HeardInTime, NoFalseTimeout, Peers
<1> QED BY <1>1, PairInvariant, PTL
=============================================================================
