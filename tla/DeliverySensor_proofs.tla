------------------------- MODULE DeliverySensor_proofs -------------------------
(***************************************************************************)
(* Proofs about the countdown, for any clock, estimates, periods and       *)
(* length of polls: what is shown is consistent and genuine, and a         *)
(* countdown.                                                              *)
(***************************************************************************)
EXTENDS DeliverySensor, TLAPS

-----------------------------------------------------------------------------
(* The inductive invariant.                                                *)

\* Ticks since the poll before the next one has published, at most.
Elapsed == IF poll = "idle" THEN Period - due ELSE Period + took

\* A flag that is set belongs to data that a successful poll has published,
\* and the estimate was not yet past then.
SoonInv ==
    delivery.soon =>
        /\ data.active /\ success
        /\ delivery.estimate \in Int
        /\ delivery.estimate <= now + 3 * Minute
        /\ delivery.estimate >= now - Elapsed

\* What is written of an estimate is what is published of it.
WrittenInv ==
    /\ delivery.estimate # Unknown =>
           data.active /\ success /\ delivery.estimate = Best(data)
    /\ delivery.minutes # Unknown => delivery.estimate # Unknown
    /\ eta.estimate # Unknown => data.active
    /\ success => eta = Eta(data)

\* Polling goes on after a success, within the period of an active order.
ScheduleInv ==
    /\ poll = "running" \/ success => ~stopped
    /\ poll = "idle" /\ data.active => due <= Period

IInv == TypeOK /\ ScheduleInv /\ SoonInv /\ WrittenInv /\ CountdownConsistent

-----------------------------------------------------------------------------
(* What is written at a moment, whatever is published.                     *)
LEMMA DeliveryAtOnce ==
    ASSUME NEW d \in Data, NEW t \in Nat, NEW w, w = Delivery(d, t)
    PROVE  /\ w \in [available : BOOLEAN, estimate : Instant,
                     minutes : Nat \cup {Unknown}, soon : BOOLEAN]
           /\ w.estimate # Unknown => d.active /\ w.estimate = Best(d) /\ w.estimate \in Int
           /\ w.minutes # Unknown => w.estimate # Unknown
           /\ w.soon => /\ w.estimate # Unknown
                        /\ w.estimate >= t /\ w.estimate <= t + 3 * Minute
           /\ w.minutes # Unknown =>
                /\ w.minutes \in 1 .. 3 => w.soon
                /\ w.minutes > 3 => ~w.soon
                /\ w.minutes = 0 /\ ~w.soon => w.estimate < t
<1> DEFINE shows == d.active /\ Best(d) # Unknown /\ Shown(Best(d) - t)
<1>1. Best(d) \in Instant
  BY DEF Best, Data
<1>2. CASE ~shows
  <2>1. w = Blank(d.listed) /\ d.listed \in BOOLEAN
    BY <1>2 DEF Delivery, Data
  <2>2. QED
    BY <2>1 DEF Blank, Instant
<1>3. CASE shows
  <2> DEFINE e == Best(d)
             r == e - t
  <2>1. e \in Estimate /\ e \in Int /\ r \in Int
    <3>1. e # Unknown
      BY <1>3
    <3>2. e \in Estimate
      BY <1>1, <3>1 DEF Instant
    <3> HIDE DEF e
    <3>3. e \in Int
      BY <3>2, ConstantsAssumption
    <3>4. QED
      BY <3>2, <3>3
  <2>2. w = [available |-> TRUE, estimate |-> e, minutes |-> Minutes(r), soon |-> IsSoon(r)]
    BY <1>3 DEF Delivery
  <2> HIDE DEF e
  <2>3. /\ Minutes(r) \in Nat
        /\ Minutes(r) \in 1 .. 3 => IsSoon(r)
        /\ Minutes(r) > 3 => ~IsSoon(r)
        /\ Minutes(r) = 0 /\ ~IsSoon(r) => r < 0
    <3>1. CASE r < 0
      BY <2>1, <3>1 DEF Minutes, IsSoon
    <3>2. CASE r >= 0
      <4> DEFINE q == (-r) \div Minute
      <4>1. /\ q \in Int
            /\ Minute * q <= -r /\ -r < Minute * q + Minute
        BY <2>1, ConstantsAssumption
      <4>2. Minutes(r) = -q
        BY <2>1, <3>2 DEF Minutes
      <4> HIDE DEF q
      <4>3. q <= 0
        BY <4>1, <3>2, <2>1, ConstantsAssumption
      <4>4. q >= -3 => r <= 3 * Minute
        BY <4>1, <2>1, ConstantsAssumption
      <4>5. q < -3 => r > 3 * Minute
        BY <4>1, <2>1, ConstantsAssumption
      <4>6. QED
        BY <4>1, <4>2, <4>3, <4>4, <4>5, <3>2, <2>1, ConstantsAssumption DEF IsSoon
    <3>3. QED
      BY <3>1, <3>2, <2>1
  <2>4. IsSoon(r) \in BOOLEAN /\ (IsSoon(r) => e >= t /\ e <= t + 3 * Minute)
    BY <2>1, ConstantsAssumption DEF IsSoon
  <2>5. e # Unknown /\ e \in Instant
    BY <2>1, ConstantsAssumption DEF Instant
  <2>6. w.estimate = e /\ w.minutes = Minutes(r) /\ w.soon = IsSoon(r) /\ w.available = TRUE
    BY <2>2
  <2>7. w \in [available : BOOLEAN, estimate : Instant, minutes : Nat \cup {Unknown}, soon : BOOLEAN]
    BY <2>2, <2>3, <2>4, <2>5
  <2>8. r < 0 => e < t
    BY <2>1
  <2>9. d.active /\ e = Best(d)
    BY <1>3 DEF e
  <2>10. QED
    BY <2>1, <2>3, <2>4, <2>5, <2>6, <2>7, <2>8, <2>9
<1>4. QED
  BY <1>2, <1>3

-----------------------------------------------------------------------------
LEMMA InitEstablishesIInv == Init => IInv
<1> SUFFICES ASSUME Init PROVE IInv
  OBVIOUS
<1>1. delivery = Blank(FALSE) /\ eta = [available |-> FALSE, estimate |-> Unknown]
      /\ data = NoData
  BY DEF Init
<1>2. TypeOK
  <2>1. data \in Data
    BY <1>1 DEF NoData, Data, Instant
  <2>2. /\ delivery \in [available : BOOLEAN, estimate : Instant,
                        minutes : Nat \cup {Unknown}, soon : BOOLEAN]
        /\ eta \in [available : BOOLEAN, estimate : Instant]
    BY <1>1 DEF Blank, Instant
  <2>3. /\ now \in 0 .. MaxTime /\ poll \in {"idle", "running"} /\ took \in 0 .. PollTime
        /\ due \in 0 .. Period \cup 0 .. IdlePeriod
    BY ConstantsAssumption DEF Init
  <2>4. stopped \in BOOLEAN /\ success \in BOOLEAN
    BY DEF Init
  <2>5. QED
    BY <2>1, <2>2, <2>3, <2>4 DEF TypeOK
<1>3. SoonInv /\ CountdownConsistent /\ ScheduleInv
  BY <1>1 DEF Init, NoData, Blank, SoonInv, CountdownConsistent, ScheduleInv
<1>4. WrittenInv
  BY <1>1 DEF Blank, WrittenInv, NoData, Eta
<1>5. QED
  BY <1>2, <1>3, <1>4 DEF IInv

LEMMA PublishKeepsIInv == ASSUME IInv, Publish PROVE IInv'
<1> USE DEF IInv
<1>1. /\ data' \in Data /\ delivery' = Delivery(data', now) /\ eta' = Eta(data')
      /\ success' = TRUE /\ UNCHANGED <<now, stopped>>
      /\ poll = "running" /\ poll' = "idle" /\ took' = 0
      /\ due' = IF data'.active THEN Period ELSE IdlePeriod
  BY DEF Publish, Ends
<1>2. now \in 0 .. MaxTime /\ now \in Nat /\ stopped \in BOOLEAN
  BY ConstantsAssumption DEF TypeOK
<1>3. /\ delivery' \in [available : BOOLEAN, estimate : Instant,
                         minutes : Nat \cup {Unknown}, soon : BOOLEAN]
      /\ delivery'.estimate # Unknown =>
            data'.active /\ delivery'.estimate = Best(data') /\ delivery'.estimate \in Int
      /\ delivery'.minutes # Unknown => delivery'.estimate # Unknown
      /\ delivery'.soon => /\ delivery'.estimate # Unknown
                           /\ delivery'.estimate >= now
                           /\ delivery'.estimate <= now + 3 * Minute
      /\ delivery'.minutes # Unknown =>
            /\ delivery'.minutes \in 1 .. 3 => delivery'.soon
            /\ delivery'.minutes > 3 => ~delivery'.soon
            /\ delivery'.minutes = 0 /\ ~delivery'.soon => delivery'.estimate < now
  BY <1>1, <1>2, DeliveryAtOnce
<1>4. TypeOK'
  <2>1. due' \in 0 .. Period \cup 0 .. IdlePeriod /\ took' \in 0 .. PollTime
    BY <1>1, ConstantsAssumption
  <2>2. eta' \in [available : BOOLEAN, estimate : Instant]
    BY <1>1 DEF Eta, Best, Data, Instant
  <2>3. QED
    BY <1>1, <1>2, <1>3, <2>1, <2>2 DEF TypeOK
<1>5. CountdownConsistent'
  BY <1>1, <1>3 DEF CountdownConsistent
<1>6. ScheduleInv'
  BY <1>1, ConstantsAssumption DEF ScheduleInv
<1>7. SoonInv'
  BY <1>1, <1>2, <1>3, <1>6, ConstantsAssumption DEF SoonInv, Elapsed
<1>8. WrittenInv'
  BY <1>1, <1>3 DEF WrittenInv, Eta
<1>9. QED
  BY <1>4, <1>5, <1>6, <1>7, <1>8

LEMMA WriteKeepsIInv == ASSUME IInv, WriteDelivery PROVE IInv'
<1> USE DEF IInv
<1>1. /\ delivery' = IF success THEN Delivery(data, now) ELSE Blank(FALSE)
      /\ UNCHANGED <<now, poll, took, due, stopped, data, success, eta>>
  BY DEF WriteDelivery, polling
<1>2. now \in 0 .. MaxTime /\ now \in Nat /\ data \in Data
  BY ConstantsAssumption DEF TypeOK
<1>3. CASE success
  <2>1. delivery' = Delivery(data, now)
    BY <1>1, <1>3
  <2>2. /\ delivery' \in [available : BOOLEAN, estimate : Instant,
                           minutes : Nat \cup {Unknown}, soon : BOOLEAN]
        /\ delivery'.estimate # Unknown =>
              data.active /\ delivery'.estimate = Best(data) /\ delivery'.estimate \in Int
        /\ delivery'.minutes # Unknown => delivery'.estimate # Unknown
        /\ delivery'.soon => /\ delivery'.estimate # Unknown
                             /\ delivery'.estimate >= now
                             /\ delivery'.estimate <= now + 3 * Minute
        /\ delivery'.minutes # Unknown =>
              /\ delivery'.minutes \in 1 .. 3 => delivery'.soon
              /\ delivery'.minutes > 3 => ~delivery'.soon
              /\ delivery'.minutes = 0 /\ ~delivery'.soon => delivery'.estimate < now
    BY <2>1, <1>2, DeliveryAtOnce
  <2>3. TypeOK' /\ CountdownConsistent' /\ ScheduleInv'
    BY <1>1, <2>2 DEF TypeOK, CountdownConsistent, ScheduleInv
  <2>4. WrittenInv'
    BY <1>1, <1>3, <2>2 DEF WrittenInv, Eta, Best
  <2>5. ASSUME delivery'.soon PROVE delivery'.estimate >= now' - Elapsed'
    <3>1. Elapsed' = Elapsed /\ Elapsed \in Nat /\ now' = now
      <4>1. data.active
        BY <2>2, <2>5
      <4>2. QED
        BY <1>1, <4>1, ConstantsAssumption DEF Elapsed, TypeOK, ScheduleInv
    <3>2. delivery'.estimate \in Int /\ delivery'.estimate >= now
      BY <2>2, <2>5
    <3>3. QED
      BY <3>1, <3>2, <1>2
  <2>6. SoonInv'
    BY <1>1, <1>3, <2>2, <2>5 DEF SoonInv
  <2>7. QED
    BY <2>3, <2>4, <2>6
<1>4. CASE ~success
  <2>1. delivery' = Blank(FALSE)
    BY <1>1, <1>4
  <2>2. /\ delivery' \in [available : BOOLEAN, estimate : Instant,
                           minutes : Nat \cup {Unknown}, soon : BOOLEAN]
        /\ delivery'.estimate = Unknown /\ delivery'.minutes = Unknown /\ ~delivery'.soon
    BY <2>1 DEF Blank, Instant
  <2>3. QED
    BY <1>1, <2>2
    DEF TypeOK, CountdownConsistent, ScheduleInv, WrittenInv, SoonInv, Eta, Best
<1>5. QED
  BY <1>3, <1>4

LEMMA OthersKeepIInv ==
    ASSUME IInv, StartPoll \/ Fail \/ Tick \/ UNCHANGED vars PROVE IInv'
<1> USE DEF IInv
<1>1. CASE StartPoll
  BY <1>1, ConstantsAssumption
  DEF StartPoll, entities, TypeOK, ScheduleInv, SoonInv, Elapsed, WrittenInv, CountdownConsistent,
      Eta, Best
<1>2. CASE Fail
  <2>1. /\ delivery' = Blank(FALSE) /\ eta' = [available |-> FALSE, estimate |-> Unknown]
        /\ ~success' /\ success' \in BOOLEAN /\ stopped' \in BOOLEAN
        /\ UNCHANGED <<now, data>>
        /\ poll' = "idle" /\ took' = 0
        /\ due' = IF data.active THEN Period ELSE IdlePeriod
    BY <1>2 DEF Fail, Ends
  <2>2. due' \in 0 .. Period \cup 0 .. IdlePeriod /\ took' \in 0 .. PollTime
    BY <2>1, ConstantsAssumption
  <2>3. /\ delivery' \in [available : BOOLEAN, estimate : Instant,
                           minutes : Nat \cup {Unknown}, soon : BOOLEAN]
        /\ delivery'.estimate = Unknown /\ delivery'.minutes = Unknown /\ ~delivery'.soon
        /\ eta' \in [available : BOOLEAN, estimate : Instant] /\ eta'.estimate = Unknown
    BY <2>1 DEF Blank, Instant
  <2>4. ScheduleInv'
    BY <2>1, ConstantsAssumption DEF ScheduleInv
  <2>5. QED
    BY <2>1, <2>2, <2>3, <2>4 DEF TypeOK, SoonInv, WrittenInv, CountdownConsistent
<1>3. CASE Tick
  <2>1. /\ now' = now + 1 /\ now < MaxTime
        /\ UNCHANGED <<poll, stopped, data, success, delivery, eta>>
        /\ \/ poll = "idle" /\ due > 0 /\ due' = due - 1 /\ took' = took
           \/ poll = "idle" /\ stopped /\ UNCHANGED <<due, took>>
           \/ poll = "running" /\ took < PollTime /\ took' = took + 1 /\ due' = due
    BY <1>3 DEF Tick, entities
  <2>2. TypeOK'
    BY <2>1, ConstantsAssumption DEF TypeOK
  <2>3. ScheduleInv'
    BY <2>1, ConstantsAssumption DEF TypeOK, ScheduleInv
  <2>4. SoonInv'
    BY <2>1, ConstantsAssumption DEF TypeOK, ScheduleInv, SoonInv, Elapsed
  <2>5. WrittenInv'
    BY <2>1 DEF WrittenInv, Eta, Best
  <2>6. ASSUME delivery.minutes # Unknown PROVE delivery.estimate \in Int
    BY <2>6, ConstantsAssumption DEF WrittenInv, TypeOK, Instant
  <2>7. CountdownConsistent'
    BY <2>1, <2>6, ConstantsAssumption DEF CountdownConsistent, TypeOK
  <2>8. QED
    BY <2>2, <2>3, <2>4, <2>5, <2>7
<1>4. CASE UNCHANGED vars
  BY <1>4
  DEF vars, polling, entities, TypeOK, ScheduleInv, SoonInv, Elapsed, WrittenInv,
      CountdownConsistent, Eta, Best
<1>5. QED
  BY <1>1, <1>2, <1>3, <1>4

LEMMA Invariance == Spec => []IInv
<1>1. IInv /\ [Next]_vars => IInv'
  BY PublishKeepsIInv, WriteKeepsIInv, OthersKeepIInv DEF Next
<1>2. QED
  BY <1>1, InitEstablishesIInv, PTL DEF Spec

-----------------------------------------------------------------------------
(* Every variable keeps its type; minutes are never negative               *)
(* (tracking.py:216).                                                      *)
THEOREM TypeCorrect == Spec => []TypeOK
<1>1. IInv => TypeOK
  BY DEF IInv
<1>2. QED
  BY <1>1, Invariance, PTL

(* An entity that says soon says it of an estimate within three minutes,   *)
(* and never past by more than one round of polling, for polls of any      *)
(* length that fail in any way (tracking.py:211-221).                      *)
THEOREM ArrivalsAreGenuine == Spec => []ArrivalIsGenuine
<1>1. IInv => ArrivalIsGenuine
  <2> SUFFICES ASSUME IInv, delivery.soon
               PROVE  /\ delivery.estimate <= now + 3 * Minute
                      /\ delivery.estimate >= now - (Period + PollTime)
    BY DEF ArrivalIsGenuine
  <2>1. Elapsed \in Int /\ Elapsed <= Period + PollTime
    BY ConstantsAssumption DEF IInv, TypeOK, Elapsed
  <2>2. now \in Int
    BY ConstantsAssumption DEF IInv, TypeOK
  <2>3. QED
    BY <2>1, <2>2, ConstantsAssumption DEF IInv, SoonInv
<1>2. QED
  BY <1>1, Invariance, PTL

(* Minutes and flag agree at every boundary and as long as they stand      *)
(* (tracking.py:216-220).                                                  *)
THEOREM CountdownIsConsistent == Spec => []CountdownConsistent
<1>1. IInv => CountdownConsistent
  BY DEF IInv
<1>2. QED
  BY <1>1, Invariance, PTL

(* The delivery and the ETA entity never show different instants, and      *)
(* neither shows one of an order that is over (tracking.py:210,            *)
(* sensor.py:450-456).                                                     *)
THEOREM TheEstimatesAgree == Spec => []EstimatesAgree
<1>1. IInv => EstimatesAgree
  BY DEF IInv, WrittenInv, SoonInv, EstimatesAgree, Eta
<1>2. QED
  BY <1>1, Invariance, PTL

-----------------------------------------------------------------------------
(* The countdown as a countdown.                                           *)

(* ceil(remaining / 60 s) of tracking.py:216: the least number of whole    *)
(* minutes that covers what remains, and nought of what is past.           *)
LEMMA MinutesIsCeiling ==
    ASSUME NEW r \in Int
    PROVE  /\ Minutes(r) \in Nat
           /\ Minutes(r) * Minute >= r
           /\ \A n \in Nat : n * Minute >= r => Minutes(r) <= n
<1>1. CASE r < 0
  BY <1>1, ConstantsAssumption DEF Minutes
<1>2. CASE r >= 0
  <2> DEFINE q == (-r) \div Minute
  <2>1. /\ q \in Int
        /\ Minute * q <= -r /\ -r < Minute * q + Minute
    BY ConstantsAssumption
  <2>2. Minutes(r) = -q
    BY <1>2 DEF Minutes
  <2> HIDE DEF q
  <2>3. q <= 0
    BY <1>2, <2>1, ConstantsAssumption
  <2>4. (-q) * Minute >= r
    BY <2>1, ConstantsAssumption
  <2>5. ASSUME NEW n \in Nat, n * Minute >= r PROVE -q <= n
    <3>1. Minute * n - Minute * (-q) > -Minute
      BY <2>1, <2>5, ConstantsAssumption
    <3>2. Minute * (n + q + 1) > 0
      BY <2>1, <3>1, ConstantsAssumption
    <3>3. n + q + 1 > 0
      BY <2>1, <3>2, ConstantsAssumption
    <3>4. QED
      BY <2>1, <3>3
  <2>6. QED
    BY <2>1, <2>2, <2>3, <2>4, <2>5
<1>3. QED
  BY <1>1, <1>2

LEMMA MinutesMonotone ==
    ASSUME NEW r \in Int, NEW s \in Int, r <= s
    PROVE  Minutes(r) <= Minutes(s)
<1>1. Minutes(s) \in Nat /\ Minutes(s) * Minute >= s
  BY MinutesIsCeiling
<1>2. Minutes(s) * Minute \in Int
  BY <1>1, ConstantsAssumption
<1>3. Minutes(s) * Minute >= r
  BY <1>1, <1>2
<1>4. QED
  BY <1>1, <1>3, MinutesIsCeiling

(* Minutes that were written stand while the clock goes on: until the next *)
(* write they may overstate what is left of the estimate, and they never   *)
(* understate it (tracking.py:213-221).                                    *)
NeverUnderstated ==
    delivery.minutes # Unknown => delivery.minutes >= Minutes(delivery.estimate - now)

\* What is written at once is exact.
LEMMA WrittenExactly ==
    ASSUME NEW d \in Data, NEW t \in Nat, Delivery(d, t).minutes # Unknown
    PROVE  /\ Delivery(d, t).estimate \in Int
           /\ Delivery(d, t).minutes = Minutes(Delivery(d, t).estimate - t)
<1>1. CASE Delivery(d, t) = Blank(d.listed)
  BY <1>1 DEF Blank
<1>2. CASE Delivery(d, t) = [available |-> TRUE, estimate |-> Best(d),
              minutes |-> Minutes(Best(d) - t), soon |-> IsSoon(Best(d) - t)]
  <2>1. Delivery(d, t).estimate \in Int
    BY DeliveryAtOnce
  <2>2. QED
    BY <1>2, <2>1
<1>3. QED
  BY <1>1, <1>2 DEF Delivery

LEMMA StepNeverUnderstates ==
    ASSUME IInv, NeverUnderstated, [Next]_vars PROVE NeverUnderstated'
<1>1. now \in Nat /\ data \in Data
  BY ConstantsAssumption DEF IInv, TypeOK
<1>2. ASSUME NEW d \in Data, delivery' = Delivery(d, now) \/ delivery' = Blank(FALSE), now' = now
      PROVE  NeverUnderstated'
  <2>1. CASE delivery'.minutes = Unknown
    BY <2>1 DEF NeverUnderstated
  <2>2. CASE delivery'.minutes # Unknown
    <3>1. delivery' = Delivery(d, now)
      BY <1>2, <2>2 DEF Blank
    <3>2. delivery'.estimate \in Int /\ delivery'.minutes = Minutes(delivery'.estimate - now)
      BY <1>1, <2>2, <3>1, WrittenExactly
    <3>3. delivery'.estimate - now \in Int
      BY <1>1, <3>2
    <3>4. Minutes(delivery'.estimate - now) \in Nat
      BY <3>3, MinutesIsCeiling
    <3>5. QED
      BY <1>2, <3>2, <3>4 DEF NeverUnderstated, Minutes
  <2>3. QED
    BY <2>1, <2>2
<1>3. CASE Publish
  BY <1>2, <1>3 DEF Publish
<1>4. CASE Fail
  BY <1>1, <1>2, <1>4 DEF Fail
<1>5. CASE WriteDelivery
  BY <1>1, <1>2, <1>5 DEF WriteDelivery
<1>6. CASE Tick
  <2>1. delivery' = delivery /\ now' = now + 1
    BY <1>6 DEF Tick, entities
  <2>2. SUFFICES ASSUME delivery.minutes # Unknown
                 PROVE  delivery.minutes >= Minutes(delivery.estimate - (now + 1))
    BY <2>1 DEF NeverUnderstated, Minutes
  <2>3. delivery.estimate \in Int
    BY <2>2, ConstantsAssumption DEF IInv, TypeOK, WrittenInv, Instant
  <2>4. delivery.minutes \in Nat /\ delivery.minutes >= Minutes(delivery.estimate - now)
    BY <2>2 DEF IInv, TypeOK, NeverUnderstated
  <2>5. /\ delivery.estimate - (now + 1) \in Int /\ delivery.estimate - now \in Int
        /\ delivery.estimate - (now + 1) <= delivery.estimate - now
    BY <1>1, <2>3
  <2>6. /\ Minutes(delivery.estimate - (now + 1)) <= Minutes(delivery.estimate - now)
        /\ Minutes(delivery.estimate - (now + 1)) \in Nat
        /\ Minutes(delivery.estimate - now) \in Nat
    BY <2>5, MinutesMonotone, MinutesIsCeiling
  <2>7. QED
    BY <2>4, <2>6
<1>7. CASE StartPoll \/ UNCHANGED vars
  BY <1>7 DEF StartPoll, vars, entities, NeverUnderstated, Minutes
<1>8. QED
  BY <1>3, <1>4, <1>5, <1>6, <1>7 DEF Next

(* Whatever polls do, the minutes shown are no fewer than those that are   *)
(* left (tracking.py:213-221).                                             *)
THEOREM MinutesAreNeverUnderstated == Spec => []NeverUnderstated
<1>1. Init => NeverUnderstated
  BY DEF Init, Blank, NeverUnderstated
<1>2. IInv /\ NeverUnderstated /\ [Next]_vars => NeverUnderstated'
  BY StepNeverUnderstates
<1>3. QED
  BY <1>1, <1>2, Invariance, PTL DEF Spec

(* Of one and the same estimate the minutes only count down, however the   *)
(* writes of polls and of the entity alone interleave with the clock       *)
(* (tracking.py:213-221).                                                  *)
CountsDown ==
    [][delivery.minutes # Unknown /\ delivery'.minutes # Unknown
           /\ delivery'.estimate = delivery.estimate
         => delivery'.minutes <= delivery.minutes]_vars

(* As long as Wolt's estimate stays, the minutes shown never go up         *)
(* (tracking.py:213-221).                                                  *)
THEOREM SameEstimateCountsDown == Spec => CountsDown
<1> DEFINE Down == delivery.minutes # Unknown /\ delivery'.minutes # Unknown
                       /\ delivery'.estimate = delivery.estimate
                     => delivery'.minutes <= delivery.minutes
<1>1. IInv /\ NeverUnderstated /\ [Next]_vars => [Down]_vars
  <2> SUFFICES ASSUME IInv, NeverUnderstated, [Next]_vars,
                      delivery.minutes # Unknown, delivery'.minutes # Unknown,
                      delivery'.estimate = delivery.estimate
               PROVE  delivery'.minutes <= delivery.minutes
    OBVIOUS
  <2>1. now \in Nat /\ data \in Data /\ delivery.minutes \in Nat
    BY ConstantsAssumption DEF IInv, TypeOK
  <2>2. ASSUME NEW d \in Data, delivery' = Delivery(d, now) \/ delivery' = Blank(FALSE)
        PROVE  delivery'.minutes <= delivery.minutes
    <3>1. delivery' = Delivery(d, now)
      BY <2>2 DEF Blank
    <3>2. delivery'.minutes = Minutes(delivery.estimate - now)
      BY <2>1, <3>1, WrittenExactly
    <3>3. QED
      BY <3>1, <3>2 DEF NeverUnderstated
  <2>3. CASE Publish
    BY <2>2, <2>3 DEF Publish
  <2>4. CASE Fail
    BY <2>1, <2>2, <2>4 DEF Fail
  <2>5. CASE WriteDelivery
    BY <2>1, <2>2, <2>5 DEF WriteDelivery
  <2>6. CASE UNCHANGED delivery
    BY <2>1, <2>6
  <2>7. QED
    BY <2>3, <2>4, <2>5, <2>6 DEF Next, StartPoll, Tick, vars, entities
<1>2. QED
  BY <1>1, Invariance, MinutesAreNeverUnderstated, PTL DEF Spec, CountsDown

=============================================================================
