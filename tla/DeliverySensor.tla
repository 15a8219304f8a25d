---------------------------- MODULE DeliverySensor ----------------------------
(***************************************************************************)
(* The countdown of one order: the delivery entity (tracking.py) with its  *)
(* minutes and its is_arriving_soon, on which automations open doors, and  *)
(* the ETA entity (sensor.py) beside it.  Both are computed from the       *)
(* published data when a state is written, and what is written stands      *)
(* while the clock goes on, until the next poll or the next write.         *)
(*                                                                         *)
(* Time is in ticks of which Minute make a minute.  An estimate is an      *)
(* instant; that of the assigned driver (driver_fields) and that of the    *)
(* order (extract_order_eta) are inputs, Unknown if there is none.         *)
(*                                                                         *)
(* Home Assistant (external) schedules the next poll when one ends, writes *)
(* every entity when the data are published or a poll fails, and one       *)
(* entity alone at any time, for instance when it is renamed.              *)
(***************************************************************************)
EXTENDS Integers

CONSTANTS Estimate,   \* instants Wolt may estimate
          Unknown,    \* no estimate, no minutes
          Minute,     \* ticks in a minute
          Period,     \* ticks to the next poll while the order is active
          IdlePeriod, \* ticks to the next poll otherwise
          PollTime,   \* bound: ticks a poll takes, by its requests' timeouts
          MaxTime     \* bound: the clock

ASSUME ConstantsAssumption ==
    /\ Estimate \subseteq Int /\ Unknown \notin Int
    /\ Minute \in Nat \ {0} /\ Period \in Nat /\ IdlePeriod \in Nat
    /\ PollTime \in Nat /\ MaxTime \in Nat

VARIABLES
    now,      \* the clock
    poll,     \* "idle" or "running"
    took,     \* ticks the running poll has taken
    due,      \* ticks to the next poll
    stopped,  \* polling ended in an authentication failure
    data,     \* what is published of the order
    success,  \* last_update_success
    delivery, \* the delivery entity as written
    eta       \* the ETA entity as written

polling  == <<poll, took, due, stopped>>
entities == <<delivery, eta>>
vars     == <<now, polling, data, success, entities>>

Instant == Estimate \cup {Unknown}
Data == {d \in [listed : BOOLEAN, active : BOOLEAN, driver : Instant, order : Instant] :
            (d.active => d.listed) /\ (d.driver # Unknown => d.active)}
NoData == [listed |-> FALSE, active |-> FALSE, driver |-> Unknown, order |-> Unknown]

\* An entity that is unavailable, or available without an estimate.
Blank(available) ==
    [available |-> available, estimate |-> Unknown, minutes |-> Unknown, soon |-> FALSE]

TypeOK ==
    /\ now \in 0 .. MaxTime
    /\ poll \in {"idle", "running"} /\ took \in 0 .. PollTime
    /\ due \in 0 .. Period \cup 0 .. IdlePeriod
    /\ stopped \in BOOLEAN /\ success \in BOOLEAN
    /\ data \in Data
    /\ delivery \in [available : BOOLEAN, estimate : Instant,
                     minutes : Nat \cup {Unknown}, soon : BOOLEAN]
    /\ eta \in [available : BOOLEAN, estimate : Instant]

Init ==
    /\ now = 0 /\ poll = "idle" /\ took = 0 /\ due = 0 /\ stopped = FALSE
    /\ data = NoData /\ success = TRUE
    /\ delivery = Blank(FALSE) /\ eta = [available |-> FALSE, estimate |-> Unknown]

-----------------------------------------------------------------------------
(* What an entity shows.                                                   *)

IsSoon(remaining) == 0 <= remaining /\ remaining <= 3 * Minute

MinutesDown(remaining) ==   \* mutant: rounded down
    IF remaining < 0 THEN 0 ELSE remaining \div Minute
MinutesNegative(remaining) == -((-remaining) \div Minute)   \* mutant: no max

(* max(0, ceil(remaining / 60 s)).                                         *)
Minutes(remaining) == IF remaining < 0 THEN 0 ELSE -((-remaining) \div Minute)

(* From a minute late to six hours ahead.                                  *)
Shown(remaining) == -Minute <= remaining /\ remaining <= 360 * Minute

(* The driver's estimate before the order's.                               *)
Best(d) == IF d.driver # Unknown THEN d.driver ELSE d.order

(* WoltTrackingSensor._attributes, for kind "delivery".                    *)
Delivery(d, t) ==
    IF d.active /\ Best(d) # Unknown /\ Shown(Best(d) - t)
    THEN [available |-> TRUE, estimate |-> Best(d),
          minutes |-> Minutes(Best(d) - t), soon |-> IsSoon(Best(d) - t)]
    ELSE Blank(d.listed)

EtaOfEnded(d) == [available |-> d.listed, estimate |-> Best(d)]   \* mutant: kept at the end

(* WoltOrderEtaSensor.native_value has no window.                          *)
Eta(d) == [available |-> d.listed, estimate |-> IF d.active THEN Best(d) ELSE Unknown]

-----------------------------------------------------------------------------
StartPoll ==
    /\ poll = "idle" /\ due = 0 /\ ~stopped
    /\ poll' = "running" /\ took' = 0
    /\ UNCHANGED <<now, due, stopped, data, success, entities>>

Ends(active) ==
    /\ poll = "running" /\ poll' = "idle" /\ took' = 0
    /\ due' = IF active THEN Period ELSE IdlePeriod

(* New data: every entity is written.                                      *)
Publish ==
    /\ data' \in Data /\ success' = TRUE
    /\ Ends(data'.active)
    /\ delivery' = Delivery(data', now)
    /\ eta' = Eta(data')
    /\ UNCHANGED <<now, stopped>>

FailStaysAvailable ==   \* mutant: the entities ignore last_update_success
    /\ Ends(data.active)
    /\ success' = FALSE /\ stopped' \in BOOLEAN
    /\ UNCHANGED <<now, data, entities>>

(* The old data stay and the entities are unavailable.                     *)
Fail ==
    /\ Ends(data.active)
    /\ success' = FALSE /\ stopped' \in BOOLEAN
    /\ delivery' = Blank(FALSE) /\ eta' = [available |-> FALSE, estimate |-> Unknown]
    /\ UNCHANGED <<now, data>>

(* Home Assistant writes one entity alone.                                 *)
WriteDelivery ==
    /\ delivery' = IF success THEN Delivery(data, now) ELSE Blank(FALSE)
    /\ UNCHANGED <<now, polling, data, success, eta>>

(* Timers fire when they are due and a poll ends in its time.              *)
Tick ==
    /\ now < MaxTime /\ now' = now + 1
    /\ \/ poll = "idle" /\ due > 0 /\ due' = due - 1 /\ took' = took
       \/ poll = "idle" /\ stopped /\ UNCHANGED <<due, took>>
       \/ poll = "running" /\ took < PollTime /\ took' = took + 1 /\ due' = due
    /\ UNCHANGED <<poll, stopped, data, success, entities>>

Next == StartPoll \/ Publish \/ Fail \/ WriteDelivery \/ Tick

Spec == Init /\ [][Next]_vars

-----------------------------------------------------------------------------
(* Properties.                                                             *)

(* "A past estimate is not proof of imminent arrival" (tracking.py:211):   *)
(* whoever reads is_arriving_soon reads it of an estimate no further away  *)
(* than three minutes and no further past than one round of polling,       *)
(* whichever polls fail or take their time and when polling has stopped.   *)
ArrivalIsGenuine ==
    delivery.soon =>
        /\ delivery.estimate <= now + 3 * Minute
        /\ delivery.estimate >= now - (Period + PollTime)

(* The minutes and the flag tell the same at every boundary: one to three  *)
(* minutes are soon, more are not, and at nought without the flag the      *)
(* estimate has passed.                                                    *)
CountdownConsistent ==
    delivery.minutes # Unknown =>
        /\ delivery.minutes \in 1 .. 3 => delivery.soon
        /\ delivery.minutes > 3 => ~delivery.soon
        /\ delivery.minutes = 0 /\ ~delivery.soon => delivery.estimate < now

(* The two entities never count down to different instants, and of an      *)
(* order that is over neither shows any (docs/MIGRATION.md:14).            *)
EstimatesAgree ==
    /\ delivery.estimate # Unknown => eta.estimate = delivery.estimate
    /\ ~data.active => eta.estimate = Unknown /\ ~delivery.soon

=============================================================================
