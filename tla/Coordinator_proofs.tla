-------------------------- MODULE Coordinator_proofs --------------------------
(***************************************************************************)
(* Proofs about Coordinator, for any set of orders, any limit of the venue *)
(* memory and any backoff: type correctness, the backoff table, missing    *)
(* details, the polling interval, that failing tracking requests fail no   *)
(* poll and skipped ones extend no backoff, the bound of the venue memory, *)
(* the refinement of OrderFeed, and that no order is silenced for good.    *)
(***************************************************************************)
EXTENDS Coordinator, FiniteSetTheorems, TLAPS

(* An order that is waited for has failed.                                 *)
WaitsAfterFailure == \A o \in Order : retry[o].wait > 0 => retry[o].failures > 0

(* A poll works through active orders of its own listing.                  *)
PollWellFormed ==
    /\ poll.todo \subseteq poll.result.active
    /\ poll.at \in {"details", "pickup", "venue"} => poll.now \in poll.result.active \ poll.todo

\* The orders the poll has asked about or skipped.
HandledOrders ==
    poll.result.active \ (poll.todo \cup IF poll.at = "details" THEN {poll.now} ELSE {})

(* What MissingDetailsFailed will say, while the poll is still on its way. *)
HandledHasDetails ==
    ~Between => \A o \in HandledOrders \ poll.result.details : retry[o].failures > 0

IInv ==
    /\ TypeOK
    /\ WaitsAfterFailure
    /\ PollWellFormed
    /\ HandledHasDetails
    /\ RetryOnlyForActive
    /\ MissingDetailsFailed
    /\ PromptPoll

-----------------------------------------------------------------------------
(* The backoff of coordinator.py:108 is a number of ticks within its cap.  *)
LEMMA BackoffBounded ==
    ASSUME NEW failures \in 0 .. MaxDoublings
    PROVE  /\ Backoff(failures) \in 0 .. MaxBackoff
           /\ Lesser(failures + 1, MaxDoublings) \in 1 .. MaxDoublings
<1>1. MaxDoublings \in 1 .. 4 /\ MaxBackoff \in Nat \ {0}
  BY ConstantsAssumption
<1>2. Lesser(failures, MaxDoublings) \in 0 .. 4
  BY <1>1 DEF Lesser
<1>3. \A n \in 0 .. 4 : PowersOfTwo[n + 1] \in Nat
  BY DEF PowersOfTwo
<1>4. Doubled(failures) \in Nat
  BY <1>2, <1>3 DEF Doubled, FirstBackoff
<1>. QED
  BY <1>1, <1>4 DEF Backoff, Lesser

(* Both intervals are positive, and the shorter is for tracked orders.     *)
LEMMA IntervalTyped ==
    ASSUME NEW active
    PROVE  Interval(active) \in 1 .. IdleInterval
BY DEF Interval, IdleInterval, ActiveInterval

LEMMA InitIInv == Init => IInv
<1> SUFFICES ASSUME Init PROVE IInv
  OBVIOUS
<1>1. poll \in Poll /\ data \in Data
  BY DEF Init, Poll, NoPoll, Data, NoData
<1>2. Fresh \in Retry
  BY ConstantsAssumption DEF Fresh, Retry
<1>3. retry \in [Order -> Retry]
  BY <1>2 DEF Init
<1>4. account \in [Order -> {"none", "active", "final"}] /\ due \in 0 .. IdleInterval
  BY DEF Init, IdleInterval
<1>5. wanted \in [Order -> BOOLEAN] /\ success \in BOOLEAN /\ stopped \in BOOLEAN
  BY DEF Init
<1>6. TypeOK
  BY <1>1, <1>3, <1>4, <1>5 DEF Init, TypeOK
<1>7. WaitsAfterFailure /\ PollWellFormed /\ HandledHasDetails
  BY DEF Init, WaitsAfterFailure, PollWellFormed, HandledHasDetails, Between,
         NoPoll, NoData, Fresh
<1>8. RetryOnlyForActive /\ MissingDetailsFailed
  BY DEF Init, RetryOnlyForActive, MissingDetailsFailed, Between, NoPoll, NoData, Fresh
<1>9. PromptPoll
  BY DEF Init, PromptPoll, Interval, NoData, IdleInterval
<1>. QED
  BY <1>6, <1>7, <1>8, <1>9 DEF IInv

-----------------------------------------------------------------------------
(* The poll stays a poll: the steps that change it build it from parts of  *)
(* their types.                                                            *)
LEMMA StepTyped == TypeOK /\ PollWellFormed /\ [Next]_vars => TypeOK'
<1> SUFFICES ASSUME TypeOK, PollWellFormed, [Next]_vars PROVE TypeOK'
  OBVIOUS
<1>1. NoPoll \in Poll /\ NoData \in Data /\ Fresh \in Retry
  BY ConstantsAssumption DEF NoPoll, NoData, Poll, Data, Fresh, Retry
<1>2. ASSUME NEW authFailed \in BOOLEAN, Fail(authFailed) PROVE TypeOK'
  <2>1. due' \in 0 .. IdleInterval
    BY <1>2, IntervalTyped DEF Fail, IdleInterval
  <2>2. success' \in BOOLEAN /\ stopped' \in BOOLEAN
    BY <1>2 DEF Fail
  <2>. QED
    BY <2>1, <2>2, <1>1, <1>2 DEF TypeOK, Fail
<1>3. CASE StartPoll
  <2>1. poll' \in Poll
    BY <1>1, <1>3 DEF StartPoll, Poll
  <2>. QED
    BY <2>1, <1>3 DEF StartPoll, TypeOK
<1>4. CASE Listed
  <2>1. Active \subseteq Order
    BY DEF Active
  <2>2. [orders |-> {o \in Order : account[o] # "none"},
         active |-> Active, details |-> {}] \in Data
    BY <2>1 DEF Data
  <2>3. Listing \in Poll
    BY <2>1, <2>2, <1>1 DEF Listing, Poll, NoPoll
  <2>4. retry' \in [Order -> Retry]
    BY <1>1, <1>4 DEF Listed, TypeOK
  <2>. QED
    BY <2>3, <2>4, <1>4 DEF Listed, TypeOK
<1>5. CASE ListingFails
  BY <1>2, <1>5 DEF ListingFails
<1>6. CASE AskDetails
  <2>1. PICK o \in poll.todo :
          poll' = [poll EXCEPT !.now = o, !.todo = @ \ {o},
                     !.at = IF retry[o].wait > 0 THEN "pickup" ELSE "details"]
    BY <1>6 DEF AskDetails
  <2>2. o \in Order
    BY <2>1 DEF TypeOK, Poll
  <2>3. poll' \in Poll
    BY <2>1, <2>2 DEF TypeOK, Poll
  <2>. QED
    BY <2>3, <1>6 DEF AskDetails, TypeOK
<1>7. CASE DetailsArrive
  <2>1. poll.now \in Order
    BY <1>7 DEF DetailsArrive, PollWellFormed, TypeOK, Poll, Data
  <2>2. poll' \in Poll
    BY <2>1, <1>7 DEF DetailsArrive, TypeOK, Poll, Data
  <2>3. retry' \in [Order -> Retry]
    BY <1>1, <1>7 DEF DetailsArrive, TypeOK
  <2>. QED
    BY <2>2, <2>3, <1>7 DEF DetailsArrive, TypeOK
<1>8. CASE DetailsFail
  <2>1. poll.now \in Order
    BY <1>8 DEF DetailsFail, PollWellFormed, TypeOK, Poll, Data
  <2>2. poll' \in Poll
    BY <1>8 DEF DetailsFail, TypeOK, Poll
  <2>3. retry[poll.now].failures \in 0 .. MaxDoublings
    BY <2>1 DEF TypeOK, Retry
  <2>4. [wait |-> Backoff(retry[poll.now].failures),
         failures |-> Lesser(retry[poll.now].failures + 1, MaxDoublings)] \in Retry
    BY <2>3, BackoffBounded, ConstantsAssumption DEF Retry
  <2>5. retry' \in [Order -> Retry]
    BY <2>4, <1>8 DEF DetailsFail, TypeOK
  <2>. QED
    BY <2>2, <2>5, <1>8 DEF DetailsFail, TypeOK
<1>9. NextOrder \in Poll
  BY DEF NextOrder, TypeOK, Poll
<1>10. CASE PickupWithoutRequest
  BY <1>9, <1>10 DEF PickupWithoutRequest, TypeOK
<1>11. CASE AskVenue
  <2>1. poll' \in Poll
    BY <1>11 DEF AskVenue, TypeOK, Poll
  <2>. QED
    BY <2>1, <1>11 DEF AskVenue, TypeOK
<1>12. CASE VenueArrives
  <2>1. poll.now \in Order
    BY <1>12 DEF VenueArrives, PollWellFormed, TypeOK, Poll, Data
  <2>2. cache' \in SUBSET Order
    BY <2>1, <1>12 DEF VenueArrives, TypeOK
  <2>. QED
    BY <2>2, <1>9, <1>12 DEF VenueArrives, TypeOK
<1>13. CASE VenueFails
  BY <1>9, <1>13 DEF VenueFails, TypeOK
<1>14. CASE VenueUndecodable
  BY <1>2, <1>14 DEF VenueUndecodable
<1>15. CASE Publish
  <2>1. poll.result \in Data
    BY DEF TypeOK, Poll
  <2>2. due' \in 0 .. IdleInterval
    BY <1>15, IntervalTyped DEF Publish, IdleInterval
  <2>3. success' \in BOOLEAN
    BY <1>15 DEF Publish
  <2>. QED
    BY <2>1, <2>2, <2>3, <1>1, <1>15 DEF Publish, TypeOK
<1>16. CASE Tick
  <2>1. retry' \in [Order -> Retry]
    BY <1>16, ConstantsAssumption DEF Tick, TypeOK, Retry
  <2>2. due' \in 0 .. IdleInterval
    BY <1>16 DEF Tick, TypeOK, IdleInterval
  <2>. QED
    BY <2>1, <2>2, <1>16 DEF Tick, TypeOK
<1>17. CASE OrderChanges
  BY <1>17 DEF OrderChanges, TypeOK
<1>18. CASE ConsentChanges
  BY <1>18 DEF ConsentChanges, TypeOK
<1>19. CASE Reload
  <2>1. retry' \in [Order -> Retry]
    BY <1>1, <1>19 DEF Reload
  <2>2. due' \in 0 .. IdleInterval
    BY <1>19 DEF Reload, IdleInterval
  <2>3. success' \in BOOLEAN /\ stopped' \in BOOLEAN
    BY <1>19 DEF Reload
  <2>. QED
    BY <2>1, <2>2, <2>3, <1>1, <1>19 DEF Reload, TypeOK
<1>20. CASE UNCHANGED vars
  BY <1>20 DEF vars, TypeOK
<1>. QED
  BY <1>3, <1>4, <1>5, <1>6, <1>7, <1>8, <1>10, <1>11, <1>12, <1>13, <1>14, <1>15,
     <1>16, <1>17, <1>18, <1>19, <1>20 DEF Next, PollStep

(* The poll's order is one of its listing's active orders, taken from todo *)
(* and not put back.                                                       *)
LEMMA StepWellFormed == TypeOK /\ PollWellFormed /\ [Next]_vars => PollWellFormed'
<1> SUFFICES ASSUME TypeOK, PollWellFormed, [Next]_vars PROVE PollWellFormed'
  OBVIOUS
<1>1. CASE poll' = NoPoll
  BY <1>1 DEF PollWellFormed, NoPoll, NoData
<1>2. CASE StartPoll
  BY <1>2 DEF StartPoll, PollWellFormed, NoPoll, NoData
<1>3. CASE Listed
  BY <1>3 DEF Listed, Listing, PollWellFormed, NoPoll
<1>4. CASE AskDetails
  BY <1>4 DEF AskDetails, PollWellFormed, TypeOK, Poll
<1>5. CASE DetailsArrive
  BY <1>5 DEF DetailsArrive, PollWellFormed, TypeOK, Poll, Data
<1>6. CASE DetailsFail
  BY <1>6 DEF DetailsFail, PollWellFormed, TypeOK, Poll
<1>7. CASE AskVenue
  BY <1>7 DEF AskVenue, PollWellFormed, TypeOK, Poll
<1>8. CASE poll' = NextOrder
  BY <1>8 DEF NextOrder, PollWellFormed, TypeOK, Poll
<1>9. CASE UNCHANGED poll
  BY <1>9 DEF PollWellFormed
<1>. QED
  BY <1>1, <1>2, <1>3, <1>4, <1>5, <1>6, <1>7, <1>8, <1>9
     DEF Next, PollStep, vars, ListingFails, Fail, PickupWithoutRequest, VenueArrives,
         VenueFails, VenueUndecodable, Publish, Tick, OrderChanges, ConsentChanges, Reload

-----------------------------------------------------------------------------
(* The backoff table.                                                      *)

RetryInv == WaitsAfterFailure /\ HandledHasDetails /\ RetryOnlyForActive
            /\ MissingDetailsFailed

(* Each step keeps the table and the progress of the poll in agreement.    *)
LEMMA StepRetry ==
    ASSUME TypeOK, PollWellFormed, RetryInv, [Next]_vars PROVE RetryInv'
<1>. USE DEF RetryInv
<1>1. ASSUME poll' = NoPoll, success' = FALSE, UNCHANGED retry PROVE RetryInv'
  BY <1>1 DEF NoPoll, WaitsAfterFailure, HandledHasDetails, RetryOnlyForActive,
              MissingDetailsFailed, Between
<1>2. CASE StartPoll
  BY <1>2 DEF StartPoll, NoPoll, WaitsAfterFailure, HandledHasDetails, RetryOnlyForActive,
              MissingDetailsFailed, Between
<1>3. CASE Listed
  <2>1. \A o \in Order : retry'[o] = IF o \in Active THEN retry[o] ELSE Fresh
    BY <1>3 DEF Listed
  <2>2. poll'.at = "orders" /\ poll'.todo = Active /\ poll'.result.active = Active
    BY <1>3 DEF Listed, Listing, NoPoll
  <2>3. WaitsAfterFailure'
    BY <2>1 DEF WaitsAfterFailure, Fresh
  <2>4. HandledHasDetails'
    BY <2>2 DEF HandledHasDetails, HandledOrders
  <2>5. RetryOnlyForActive' /\ MissingDetailsFailed'
    BY <2>1, <2>2 DEF RetryOnlyForActive, MissingDetailsFailed, Between
  <2>. QED
    BY <2>3, <2>4, <2>5
<1>4. CASE AskDetails
  <2>1. PICK o \in poll.todo :
          poll' = [poll EXCEPT !.now = o, !.todo = @ \ {o},
                     !.at = IF retry[o].wait > 0 THEN "pickup" ELSE "details"]
    BY <1>4 DEF AskDetails
  <2>2. /\ poll.at = "orders" /\ poll'.at = IF retry[o].wait > 0 THEN "pickup" ELSE "details"
        /\ poll'.now = o /\ poll'.todo = poll.todo \ {o} /\ poll'.result = poll.result
    BY <2>1, <1>4 DEF AskDetails, TypeOK, Poll
  <2>3. retry' = retry /\ o \in Order
    BY <2>1, <1>4 DEF AskDetails, TypeOK, Poll
  <2>4. WaitsAfterFailure' /\ RetryOnlyForActive' /\ MissingDetailsFailed'
    BY <2>2, <2>3 DEF WaitsAfterFailure, RetryOnlyForActive, MissingDetailsFailed, Between
  <2>5. HandledOrders' \subseteq
          HandledOrders \cup IF retry[o].wait > 0 THEN {o} ELSE {}
    BY <2>2 DEF HandledOrders
  <2>6. HandledHasDetails'
    BY <2>2, <2>3, <2>5 DEF HandledHasDetails, Between, WaitsAfterFailure
  <2>. QED
    BY <2>4, <2>6
<1>5. CASE DetailsArrive
  <2>1. poll.now \in Order
    BY <1>5 DEF DetailsArrive, PollWellFormed, TypeOK, Poll, Data
  <2>2. /\ poll.at = "details" /\ poll'.at = "pickup"
        /\ poll'.todo = poll.todo /\ poll'.now = poll.now
        /\ poll'.result.active = poll.result.active
        /\ poll'.result.details = poll.result.details \cup {poll.now}
    BY <1>5 DEF DetailsArrive, TypeOK, Poll, Data
  <2>3. \A o \in Order : retry'[o] = IF o = poll.now THEN Fresh ELSE retry[o]
    BY <2>1, <1>5 DEF DetailsArrive, TypeOK
  <2>4. poll.result.active \subseteq Order
    BY DEF TypeOK, Poll, Data
  <2>5. WaitsAfterFailure' /\ RetryOnlyForActive' /\ MissingDetailsFailed'
    BY <2>2, <2>3 DEF WaitsAfterFailure, RetryOnlyForActive, MissingDetailsFailed, Between,
                      Fresh
  <2>6. HandledHasDetails'
    BY <2>2, <2>3, <2>4 DEF HandledHasDetails, HandledOrders, Between
  <2>. QED
    BY <2>5, <2>6
<1>6. CASE DetailsFail
  <2>1. poll.now \in Order /\ poll.now \in poll.result.active
    BY <1>6 DEF DetailsFail, PollWellFormed, TypeOK, Poll, Data
  <2>2. /\ poll.at = "details" /\ poll'.at = "pickup"
        /\ poll'.todo = poll.todo /\ poll'.now = poll.now /\ poll'.result = poll.result
    BY <1>6 DEF DetailsFail, TypeOK, Poll
  <2>3. \A o \in Order \ {poll.now} : retry'[o] = retry[o]
    BY <2>1, <1>6 DEF DetailsFail, TypeOK
  <2>4. retry[poll.now].failures \in 0 .. MaxDoublings
    BY <2>1 DEF TypeOK, Retry
  <2>5. retry'[poll.now].failures > 0
    BY <2>1, <2>4, <1>6, BackoffBounded, ConstantsAssumption DEF DetailsFail, TypeOK
  <2>6. poll.result.active \subseteq Order
    BY DEF TypeOK, Poll, Data
  <2>7. WaitsAfterFailure'
    BY <2>3, <2>5 DEF WaitsAfterFailure
  <2>8. RetryOnlyForActive' /\ MissingDetailsFailed'
    BY <2>1, <2>2, <2>3 DEF RetryOnlyForActive, MissingDetailsFailed, Between
  <2>9. HandledHasDetails'
    BY <2>2, <2>3, <2>5, <2>6 DEF HandledHasDetails, HandledOrders, Between
  <2>. QED
    BY <2>7, <2>8, <2>9
<1>7. ASSUME poll.at \in {"pickup", "venue"}, UNCHANGED <<retry, data, success>>,
             poll'.at \in {"orders", "pickup", "venue"},
             poll'.todo = poll.todo, poll'.result = poll.result
      PROVE  RetryInv'
  BY <1>7 DEF WaitsAfterFailure, HandledHasDetails, HandledOrders, RetryOnlyForActive,
              MissingDetailsFailed, Between
<1>8. CASE PickupWithoutRequest \/ AskVenue \/ VenueArrives \/ VenueFails
  BY <1>7, <1>8 DEF PickupWithoutRequest, AskVenue, VenueArrives, VenueFails, NextOrder,
                    TypeOK, Poll
<1>9. CASE ListingFails \/ VenueUndecodable
  BY <1>1, <1>9 DEF ListingFails, VenueUndecodable, Fail
<1>10. CASE Publish
  <2>1. /\ poll.at = "orders" /\ poll.todo = {} /\ poll'.at = "idle"
        /\ data' = poll.result /\ retry' = retry
    BY <1>10 DEF Publish, NoPoll
  <2>. QED
    BY <2>1 DEF WaitsAfterFailure, HandledHasDetails, HandledOrders, RetryOnlyForActive,
                MissingDetailsFailed, Between
<1>11. CASE Tick
  <2>1. UNCHANGED <<poll, data, success>>
    BY <1>11 DEF Tick
  <2>2. \A o \in Order : /\ retry'[o].failures = retry[o].failures
                         /\ retry'[o].wait > 0 => retry[o].wait > 0
                         /\ retry[o] = Fresh => retry'[o] = Fresh
    BY <1>11 DEF Tick, TypeOK, Retry, Fresh
  <2>3. data.active \subseteq Order /\ poll.result.active \subseteq Order
    BY DEF TypeOK, Poll, Data
  <2>. QED
    BY <2>1, <2>2, <2>3 DEF WaitsAfterFailure, HandledHasDetails, HandledOrders,
       RetryOnlyForActive, MissingDetailsFailed, Between
<1>12. CASE OrderChanges \/ ConsentChanges \/ UNCHANGED vars
  BY <1>12 DEF OrderChanges, ConsentChanges, vars, WaitsAfterFailure, HandledHasDetails,
               HandledOrders, RetryOnlyForActive, MissingDetailsFailed, Between
<1>13. CASE Reload
  BY <1>13 DEF Reload, NoPoll, NoData, Fresh, WaitsAfterFailure, HandledHasDetails,
               RetryOnlyForActive, MissingDetailsFailed, Between
<1>. QED
  BY <1>2, <1>3, <1>4, <1>5, <1>6, <1>8, <1>9, <1>10, <1>11, <1>12, <1>13
     DEF Next, PollStep

(* The interval belongs to the published data at every moment.             *)
LEMMA StepPrompt == TypeOK /\ PromptPoll /\ [Next]_vars => PromptPoll'
<1> SUFFICES ASSUME TypeOK, PromptPoll, [Next]_vars PROVE PromptPoll'
  OBVIOUS
<1>1. \A active : Interval(active) \in 1 .. IdleInterval
  BY IntervalTyped
<1>2. ASSUME NEW authFailed \in BOOLEAN, Fail(authFailed) PROVE PromptPoll'
  BY <1>1, <1>2 DEF Fail, PromptPoll, IdleInterval
<1>3. CASE ListingFails \/ VenueUndecodable
  BY <1>2, <1>3 DEF ListingFails, VenueUndecodable
<1>4. CASE Publish
  BY <1>1, <1>4 DEF Publish, PromptPoll, IdleInterval
<1>5. CASE Tick
  BY <1>1, <1>5 DEF Tick, PromptPoll, TypeOK, IdleInterval
<1>6. CASE Reload
  BY <1>1, <1>6 DEF Reload, PromptPoll, IdleInterval
<1>7. CASE UNCHANGED <<due, data>>
  BY <1>7 DEF PromptPoll
<1>. QED
  BY <1>3, <1>4, <1>5, <1>6, <1>7
     DEF Next, PollStep, vars, StartPoll, Listed, AskDetails, DetailsArrive, DetailsFail,
         PickupWithoutRequest, AskVenue, VenueArrives, VenueFails, OrderChanges,
         ConsentChanges

-----------------------------------------------------------------------------
(* The invariant holds of every behaviour.                                 *)
THEOREM Invariance == Spec => []IInv
<1>1. IInv /\ [Next]_vars => IInv'
  BY StepTyped, StepWellFormed, StepRetry, StepPrompt DEF IInv, RetryInv
<1>. QED
  BY <1>1, InitIInv, PTL DEF Spec

(* Every variable keeps its type: a backoff never exceeds its cap          *)
(* (coordinator.py:108) and a poll is never more than a minute away.       *)
THEOREM TypeCorrect == Spec => []TypeOK
<1>1. IInv => TypeOK
  BY DEF IInv
<1>. QED
  BY <1>1, Invariance, PTL

(* _rich_retry holds active orders only (coordinator.py:83-87).            *)
THEOREM BackoffOnlyForActive == Spec => []RetryOnlyForActive
<1>1. IInv => RetryOnlyForActive
  BY DEF IInv
<1>. QED
  BY <1>1, Invariance, PTL

(* An active order without details is one whose request failed             *)
(* (coordinator.py:88-110).                                                *)
THEOREM NoSilentSkip == Spec => []MissingDetailsFailed
<1>1. IInv => MissingDetailsFailed
  BY DEF IInv
<1>. QED
  BY <1>1, Invariance, PTL

(* The next poll is due within the interval of the published orders        *)
(* (coordinator.py:134-136).                                               *)
THEOREM PollIsPrompt == Spec => []PromptPoll
<1>1. IInv => PromptPoll
  BY DEF IInv
<1>. QED
  BY <1>1, Invariance, PTL

(* A poll whose listing arrived is failed by no details and no venue       *)
(* request (coordinator.py:96-123) but an undecodable page.                *)
THEOREM TrackingFailuresAreHarmless == Spec => TrackingFailureHarmless
<1> DEFINE Harmless == PollEnds({"orders", "details", "pickup", "venue"})
                           => Published \/ Reloaded \/ VenueUndecodable
<1>1. IInv /\ [Next]_vars => [Harmless]_vars
  <2> SUFFICES ASSUME IInv, [Next]_vars PROVE Harmless
    OBVIOUS
  <2>1. poll \in Poll
    BY DEF IInv, TypeOK
  <2>2. CASE Publish
    BY <2>2 DEF Publish, Published
  <2>3. CASE Reload
    BY <2>3 DEF Reload, Reloaded
  <2>4. CASE StartPoll \/ ListingFails \/ VenueUndecodable \/ Listed
    BY <2>4 DEF StartPoll, ListingFails, Listed, PollEnds
  <2>5. CASE \/ AskDetails \/ DetailsArrive \/ DetailsFail \/ PickupWithoutRequest
             \/ AskVenue \/ VenueArrives \/ VenueFails
    BY <2>1, <2>5 DEF AskDetails, DetailsArrive, DetailsFail, PickupWithoutRequest,
                      NextOrder, AskVenue, VenueArrives, VenueFails, PollEnds, Poll
  <2>6. CASE UNCHANGED poll
    BY <2>6 DEF PollEnds
  <2>. QED
    BY <2>2, <2>3, <2>4, <2>5, <2>6
       DEF Next, PollStep, Tick, OrderChanges, ConsentChanges, vars
<1>2. Spec => []IInv
  BY Invariance
<1>. QED
  BY <1>1, <1>2, PTL DEF Spec, TrackingFailureHarmless

(* The wait of an order grows when its own details fail and at no other    *)
(* step (coordinator.py:88-110), least of all when it is skipped or when   *)
(* another order fails.  With it DetailsAskedAgain stands and falls.       *)
WaitGrowsByFailure ==
    [][\A o \in Order : retry'[o].wait > retry[o].wait => DetailsFail /\ poll.now = o]_vars

(* Being skipped extends no wait, so each runs out with time               *)
(* (coordinator.py:90-92, 107-110).                                        *)
THEOREM SkippingExtendsNoWait == Spec => WaitGrowsByFailure
<1> DEFINE Grows(o) == retry'[o].wait > retry[o].wait
           OnlyByFailure == \A o \in Order : Grows(o) => DetailsFail /\ poll.now = o
<1>1. IInv /\ [Next]_vars => [OnlyByFailure]_vars
  <2> SUFFICES ASSUME IInv, [Next]_vars, NEW o \in Order, Grows(o)
               PROVE  DetailsFail /\ poll.now = o
    OBVIOUS
  <2>1. retry \in [Order -> Retry] /\ retry[o] \in Retry /\ retry[o].wait \in Nat
    BY ConstantsAssumption DEF IInv, TypeOK, Retry
  <2>2. CASE Listed \/ DetailsArrive \/ Reload
    <3>1. retry'[o] = retry[o] \/ retry'[o] = Fresh
      BY <2>1, <2>2 DEF Listed, DetailsArrive, Reload
    <3>. QED
      BY <2>1, <3>1 DEF Fresh
  <2>3. CASE DetailsFail
    <3>1. o # poll.now => retry'[o] = retry[o]
      BY <2>1, <2>3 DEF DetailsFail
    <3>. QED
      BY <2>1, <2>3, <3>1
  <2>4. CASE Tick
    <3>1. retry'[o].wait = IF retry[o].wait > 0 THEN retry[o].wait - 1 ELSE 0
      BY <2>1, <2>4 DEF Tick, Retry
    <3>. QED
      BY <2>1, <3>1
  <2>5. CASE UNCHANGED retry
    BY <2>1, <2>5
  <2>. QED
    BY <2>2, <2>3, <2>4, <2>5
       DEF Next, PollStep, StartPoll, ListingFails, Fail, AskDetails, PickupWithoutRequest,
           AskVenue, VenueArrives, VenueFails, VenueUndecodable, Publish, OrderChanges,
           ConsentChanges, vars
<1>. QED
  BY <1>1, Invariance, PTL DEF Spec, WaitGrowsByFailure

(* The venue memory is emptied before it would exceed its limit            *)
(* (api.py:312-315).                                                       *)
THEOREM VenueMemoryBounded == Spec => []CacheBounded
<1>1. Init => CacheBounded
  BY FS_EmptySet, ConstantsAssumption DEF Init, CacheBounded
<1>2. TypeOK /\ PollWellFormed /\ CacheBounded /\ [Next]_vars => CacheBounded'
  <2> SUFFICES ASSUME TypeOK, PollWellFormed, CacheBounded, [Next]_vars PROVE CacheBounded'
    OBVIOUS
  <2>1. CASE cache' = {}
    BY <2>1, FS_EmptySet, ConstantsAssumption DEF CacheBounded
  <2>2. CASE VenueArrives
    <3>1. cache \subseteq Order /\ IsFiniteSet(Order)
      BY ConstantsAssumption DEF TypeOK
    <3>2. IsFiniteSet(cache) /\ Cardinality(cache) \in Nat
      BY <3>1, FS_Subset, FS_CardinalityType
    <3>3. IsFiniteSet({}) /\ Cardinality({}) = 0
      BY FS_EmptySet
    <3>4. \A S : IsFiniteSet(S) => Cardinality(S \cup {poll.now}) \in
                    {Cardinality(S), Cardinality(S) + 1}
      BY FS_AddElement
    <3>5. CASE cache' = cache
      BY <3>5 DEF CacheBounded
    <3>6. CASE Cardinality(cache) >= CacheLimit /\ cache' = {poll.now} \cup {}
      BY <3>3, <3>4, <3>6, ConstantsAssumption DEF CacheBounded
    <3>7. CASE ~(Cardinality(cache) >= CacheLimit) /\ cache' = {poll.now} \cup cache
      <4>1. cache' = cache \cup {poll.now}
        BY <3>7
      <4>. QED
        BY <4>1, <3>2, <3>4, <3>7, ConstantsAssumption DEF CacheBounded
    <3>. QED
      BY <2>2, <3>5, <3>6, <3>7 DEF VenueArrives
  <2>3. CASE UNCHANGED cache
    BY <2>3 DEF CacheBounded
  <2>. QED
    BY <2>1, <2>2, <2>3
       DEF Next, PollStep, vars, StartPoll, Listed, ListingFails, Fail, AskDetails,
           DetailsArrive, DetailsFail, PickupWithoutRequest, AskVenue, VenueFails,
           VenueUndecodable, Publish, Tick, OrderChanges, ConsentChanges, Reload
<1>3. IInv => TypeOK /\ PollWellFormed
  BY DEF IInv
<1>. QED
  BY <1>1, <1>2, <1>3, Invariance, PTL DEF Spec

-----------------------------------------------------------------------------
(* Every step of the coordinator is a step of the abstract feed or none.   *)
LEMMA StepRefines ==
    ASSUME IInv, [Next]_vars
    PROVE  [Feed!Next]_<<account, IF Between THEN {} ELSE {poll.result}, data>>
<1> DEFINE taken == IF Between THEN {} ELSE {poll.result}
           same  == UNCHANGED <<account, taken, data>>
<1> USE DEF Feed!Next
<1>1. poll \in Poll /\ PollWellFormed /\ TypeOK
  BY DEF IInv, TypeOK
<1>2. CASE StartPoll
  BY <1>2 DEF StartPoll, NoPoll, Between
<1>3. CASE Listed
  <2>1. taken' = {[orders |-> {o \in Order : account[o] # "none"}, active |-> Active,
                   details |-> {}]}
    BY <1>3 DEF Listed, Listing, NoPoll, Between
  <2>2. QED
    BY <1>3, <2>1 DEF Listed, Active, Feed!Take
<1>4. CASE ListingFails \/ VenueUndecodable
  <2>1. poll' = NoPoll /\ UNCHANGED <<account, data>>
    BY <1>4 DEF ListingFails, VenueUndecodable, Fail
  <2>2. taken' = {}
    BY <2>1 DEF NoPoll, Between
  <2>3. QED
    BY <2>1, <2>2 DEF Feed!Drop
<1>5. CASE DetailsArrive
  <2>1. /\ poll.at = "details" /\ poll.now \in poll.result.active
        /\ poll' = [poll EXCEPT !.at = "pickup", !.result.details = @ \cup {poll.now}]
        /\ UNCHANGED <<account, data>>
    BY <1>1, <1>5 DEF DetailsArrive, PollWellFormed
  <2>2. taken = {poll.result}
    BY <2>1 DEF Between
  <2>3. taken' = {[poll.result EXCEPT !.details = @ \cup {poll.now}]}
    BY <1>1, <2>1 DEF Between, Poll
  <2>4. QED
    BY <2>1, <2>2, <2>3 DEF Feed!Learn
<1>6. CASE \/ AskDetails \/ DetailsFail \/ PickupWithoutRequest \/ AskVenue
           \/ VenueArrives \/ VenueFails
  BY <1>1, <1>6 DEF AskDetails, DetailsFail, PickupWithoutRequest, NextOrder, AskVenue,
                    VenueArrives, VenueFails, Between, Poll
<1>7. CASE Publish
  BY <1>7 DEF Publish, NoPoll, Between, Feed!Publish
<1>8. CASE Reload
  BY <1>8 DEF Reload, NoPoll, NoData, Between, Feed!Restart, Feed!Empty
<1>9. CASE OrderChanges
  <2>1. account' \in [Order -> {"none", "active", "final"}]
    BY <1>1, <1>9 DEF OrderChanges, TypeOK
  <2>2. QED
    BY <1>9, <2>1 DEF OrderChanges, Between, Feed!AccountChanges, Feed!State
<1>10. CASE Tick \/ ConsentChanges \/ UNCHANGED vars
  BY <1>10 DEF Tick, ConsentChanges, vars, Between
<1>11. QED
  BY <1>2, <1>3, <1>4, <1>5, <1>6, <1>7, <1>8, <1>9, <1>10 DEF Next, PollStep

(* Whatever requests fail and orders do, the entities read whole listings  *)
(* with details of their own (coordinator.py:66-137).                      *)
THEOREM ImplementsOrderFeed == Spec => FeedSpec
<1>1. Init => Feed!Init
  BY DEF Init, NoPoll, NoData, Between, Feed!Init, Feed!Empty
<1>2. IInv /\ [Next]_vars => [Feed!Next]_<<account, IF Between THEN {} ELSE {poll.result}, data>>
  BY StepRefines
<1>3. QED
  BY <1>1, <1>2, Invariance, PTL DEF Spec, FeedSpec, Feed!Spec

-----------------------------------------------------------------------------
(* Nobody is silenced for good.                                            *)

AllHandled == poll.at = "orders" /\ poll.todo = {}
Resting    == poll.at = "idle" /\ due > 0
Asked(o)   == poll.at = "details" /\ poll.now = o
Tracked(o) == account[o] = "active"
Waits(o, k) == retry[o].wait <= k

(* A poll that has handled all its orders can publish.  A prover of        *)
(* ENABLED is not at hand: this is a hypothesis of the theorem, which TLC  *)
(* evaluates in the states of the run polls.                               *)
EnabledAsGuarded == AllHandled => ENABLED <<PollStep>>_vars

\* What would refute DetailsAskedAgain.
Silenced(o) ==
    /\ FairSpec /\ []EnabledAsGuarded
    /\ <>[]Tracked(o) /\ []<>AllHandled
    /\ <>[](~Asked(o))

\* From some time on the wait is at most k.
Below(o, k) == <>[]Waits(o, k)

(* A poll that has handled all its orders only publishes.                  *)
LEMMA HandledPublishes == AllHandled /\ PollStep => Publish /\ ~AllHandled'
<1>1. ASSUME AllHandled, PollStep PROVE Publish
  BY <1>1 DEF AllHandled, PollStep, Listed, ListingFails, AskDetails, DetailsArrive, DetailsFail,
     PickupWithoutRequest, AskVenue, VenueArrives, VenueFails, VenueUndecodable
<1>2. Publish => ~AllHandled'
  BY DEF Publish, AllHandled, NoPoll
<1>. QED
  BY <1>1, <1>2

(* What a step does once an order is no longer asked about: its wait does  *)
(* not grow, and a poll that publishes leaves the next one to the clock.   *)
LEMMA SilentStep ==
    ASSUME NEW o \in Order, NEW k \in Nat, IInv, ~Asked(o), [Next]_vars
    PROVE  /\ Waits(o, k) => Waits(o, k)'
           /\ AllHandled =>
                \/ AllHandled'
                \/ Resting'
                \/ Waits(o, k + 1) => Waits(o, k)'
           /\ Resting =>
                \/ Resting'
                \/ Waits(o, k + 1) => Waits(o, k)'
<1>1. /\ retry \in [Order -> Retry] /\ retry[o].wait \in Nat /\ poll \in Poll
      /\ data \in Data
  BY ConstantsAssumption DEF IInv, TypeOK, Retry
<1>2. CASE Tick
  <2>1. retry'[o].wait = (IF retry[o].wait > 0 THEN retry[o].wait - 1 ELSE 0) /\ poll' = poll
    BY <1>1, <1>2 DEF Tick, Retry
  <2>2. Waits(o, k) => Waits(o, k)'
    BY <1>1, <2>1 DEF Waits
  <2>3. Waits(o, k + 1) => Waits(o, k)'
    BY <1>1, <2>1 DEF Waits
  <2>. QED
    BY <2>2, <2>3
<1>3. CASE Reload
  <2>1. retry'[o].wait = 0 /\ poll'.at = "idle"
    BY <1>3 DEF Reload, Fresh, NoPoll
  <2>2. Waits(o, k)' /\ ~AllHandled'
    BY <2>1 DEF Waits, AllHandled, Resting
  <2>. QED
    BY <2>2
<1>4. CASE Publish
  <2>1. poll'.at = "idle" /\ due' > 0 /\ retry' = retry /\ poll.at = "orders"
    BY <1>4 DEF Publish, NoPoll, Interval, IdleInterval, ActiveInterval
  <2>. QED
    BY <2>1 DEF Waits, AllHandled, Resting
<1>5. CASE DetailsFail
  <2>1. poll.now # o /\ retry'[o] = retry[o] /\ poll.at = "details"
    BY <1>1, <1>5 DEF DetailsFail, Asked
  <2>. QED
    BY <2>1 DEF Waits, AllHandled, Resting
<1>6. CASE Listed \/ DetailsArrive
  <2>1. retry'[o] = retry[o] \/ retry'[o] = Fresh
    BY <1>1, <1>6 DEF Listed, DetailsArrive
  <2>2. Waits(o, k) => Waits(o, k)'
    BY <1>1, <2>1 DEF Waits, Fresh
  <2>. QED
    BY <1>6, <2>2 DEF Listed, DetailsArrive, AllHandled, Resting
<1>7. CASE AskDetails
  <2>1. retry' = retry /\ poll.at = "orders" /\ poll.todo # {}
    BY <1>7 DEF AskDetails
  <2>. QED
    BY <2>1 DEF Waits, AllHandled, Resting
<1>8. CASE StartPoll
  <2>1. retry' = retry /\ poll.at = "idle" /\ due = 0
    BY <1>8 DEF StartPoll
  <2>. QED
    BY <2>1 DEF Waits, AllHandled, Resting
<1>9. CASE \/ ListingFails \/ PickupWithoutRequest \/ AskVenue \/ VenueArrives
           \/ VenueFails \/ VenueUndecodable
  <2>1. retry' = retry /\ poll.at \in {"listing", "pickup", "venue"}
    BY <1>9 DEF ListingFails, Fail, PickupWithoutRequest, AskVenue, VenueArrives,
       VenueFails, VenueUndecodable
  <2>. QED
    BY <2>1 DEF Waits, AllHandled, Resting
<1>10. CASE OrderChanges \/ ConsentChanges \/ UNCHANGED vars
  <2>1. retry' = retry /\ poll' = poll /\ due' = due
    BY <1>10 DEF OrderChanges, ConsentChanges, vars
  <2>. QED
    BY <2>1 DEF Waits, AllHandled, Resting
<1>. QED
  BY <1>2, <1>3, <1>4, <1>5, <1>6, <1>7, <1>8, <1>9, <1>10 DEF Next, PollStep

(* Polls come to their end for ever, each but a reloaded one after a tick  *)
(* of the clock: a wait that does not grow gets shorter.                   *)
LEMMA WaitRunsDown ==
    ASSUME NEW o \in Order, NEW k \in Nat
    PROVE  Silenced(o) => (Below(o, k + 1) => Below(o, k))
<1> DEFINE Old == Waits(o, k + 1)
           New == Waits(o, k)
           A == AllHandled
           Q == Asked(o)
<1>1. IInv /\ ~Q /\ [Next]_vars => (New => New')
  BY SilentStep
<1>2. IInv /\ ~Q /\ [Next]_vars /\ A => A' \/ Resting' \/ (Old => New')
  BY SilentStep
<1>3. IInv /\ ~Q /\ [Next]_vars /\ Resting => Resting' \/ (Old => New')
  BY SilentStep
<1>4. A /\ PollStep => ~A'
  BY HandledPublishes
<1>5. A => ~Resting
  BY DEF AllHandled, Resting
<1>. QED
  BY <1>1, <1>2, <1>3, <1>4, <1>5, Invariance, PTL
     DEF Silenced, Below, Spec, FairSpec, EnabledAsGuarded

(* By doubling the number of steps, any wait up to the longest backoff.    *)
LEMMA WaitRunsOut ==
    ASSUME NEW o \in Order, MaxBackoff <= 30
    PROVE  Silenced(o) => Below(o, 0)
<1> DEFINE Falls(n) == \A k \in Nat : Silenced(o) => (Below(o, k + n) => Below(o, k))
<1>1. Falls(1)
  BY WaitRunsDown
<1>2. ASSUME NEW n \in Nat, Falls(n) PROVE Falls(n + n)
  <2> SUFFICES ASSUME NEW k \in Nat
               PROVE  Silenced(o) => (Below(o, k + (n + n)) => Below(o, k))
    OBVIOUS
  <2>1. k + n \in Nat /\ k + (n + n) = (k + n) + n
    OBVIOUS
  <2>2. Silenced(o) => (Below(o, (k + n) + n) => Below(o, k + n))
    BY <1>2, <2>1
  <2>3. Silenced(o) => (Below(o, k + n) => Below(o, k))
    BY <1>2
  <2>. QED
    BY <2>1, <2>2, <2>3
<1> HIDE DEF Falls
<1>3. Falls(2) /\ Falls(4) /\ Falls(8) /\ Falls(16) /\ Falls(32)
  <2>1. Falls(1 + 1)
    BY <1>1, <1>2
  <2>2. Falls(2 + 2)
    BY <1>2, <2>1
  <2>3. Falls(4 + 4)
    BY <1>2, <2>2
  <2>4. Falls(8 + 8)
    BY <1>2, <2>3
  <2>5. Falls(16 + 16)
    BY <1>2, <2>4
  <2>. QED
    BY <2>1, <2>2, <2>3, <2>4, <2>5
<1>4. Silenced(o) => (Below(o, 0 + 32) => Below(o, 0))
  BY <1>3 DEF Falls
<1>5. Silenced(o) => Below(o, 32)
  <2>1. IInv => Waits(o, 32)
    BY ConstantsAssumption DEF IInv, TypeOK, Retry, Waits
  <2>. QED
    BY <2>1, Invariance, PTL DEF Silenced, Below, FairSpec
<1>. QED
  BY <1>4, <1>5

\* The order is still to come in the poll under way, or the poll in the next.
Ahead(o) == Between \/ o \in poll.todo

(* An order without a wait is not passed over.                             *)
LEMMA AheadStep ==
    ASSUME NEW o \in Order, IInv, Tracked(o), Waits(o, 0), ~Asked(o)', [Next]_vars
    PROVE  /\ AllHandled => AllHandled' \/ Ahead(o)'
           /\ Ahead(o) => Ahead(o)'
<1>1. retry[o].wait = 0 /\ poll \in Poll
  BY ConstantsAssumption DEF IInv, TypeOK, Retry, Waits
<1>2. CASE Listed
  BY <1>2 DEF Listed, Listing, NoPoll, Active, Tracked, Ahead, AllHandled
<1>3. CASE AskDetails
  <2>1. PICK p \in poll.todo :
          poll' = [poll EXCEPT !.now = p, !.todo = @ \ {p},
                     !.at = IF retry[p].wait > 0 THEN "pickup" ELSE "details"]
    BY <1>3 DEF AskDetails
  <2>2. /\ poll'.now = p /\ poll'.todo = poll.todo \ {p}
        /\ poll'.at = IF retry[p].wait > 0 THEN "pickup" ELSE "details"
    BY <1>1, <2>1 DEF Poll
  <2>3. p # o
    BY <1>1, <2>2 DEF Asked
  <2>. QED
    BY <1>3, <2>2, <2>3 DEF AskDetails, Ahead, Between, AllHandled
<1>4. CASE Publish \/ Reload \/ ListingFails \/ VenueUndecodable
  <2>1. poll' = NoPoll
    BY <1>4 DEF Publish, Reload, ListingFails, VenueUndecodable, Fail
  <2>. QED
    BY <2>1 DEF NoPoll, Ahead, Between
<1>5. CASE StartPoll
  BY <1>5 DEF StartPoll, NoPoll, Ahead, Between
<1>6. CASE \/ DetailsArrive \/ DetailsFail \/ PickupWithoutRequest \/ AskVenue
           \/ VenueArrives \/ VenueFails
  <2>1. poll'.todo = poll.todo /\ poll.at \in {"details", "pickup", "venue"}
    BY <1>1, <1>6 DEF DetailsArrive, DetailsFail, PickupWithoutRequest, NextOrder, AskVenue,
       VenueArrives, VenueFails, Poll
  <2>. QED
    BY <2>1 DEF Ahead, Between, AllHandled
<1>7. CASE UNCHANGED poll
  BY <1>7 DEF Ahead, Between, AllHandled
<1>. QED
  BY <1>2, <1>3, <1>4, <1>5, <1>6, <1>7
     DEF Next, PollStep, Tick, OrderChanges, ConsentChanges, vars

LEMMA NobodySilenced ==
    ASSUME NEW o \in Order, MaxBackoff <= 30
    PROVE  ~Silenced(o)
<1> DEFINE Ready == Waits(o, 0)
<1>1. IInv /\ Tracked(o) /\ Ready /\ ~Asked(o)' /\ [Next]_vars =>
          /\ AllHandled => AllHandled' \/ Ahead(o)'
          /\ Ahead(o) => Ahead(o)'
  BY AheadStep
<1>2. AllHandled => ~Ahead(o)
  BY DEF AllHandled, Ahead, Between
<1>3. Silenced(o) => Below(o, 0)
  BY WaitRunsOut
<1>4. AllHandled /\ PollStep => ~AllHandled'
  BY HandledPublishes
<1>. QED
  BY <1>1, <1>2, <1>3, <1>4, Invariance, PTL
     DEF Silenced, Below, Spec, FairSpec, EnabledAsGuarded

(* An order that stays active is asked about again and again as long as    *)
(* polls come to their end (coordinator.py:88-110), whatever fails: its    *)
(* wait runs down, and an order without one is not passed over.  900       *)
(* seconds are 30 ticks.                                                   *)
THEOREM NobodyIsSilenced ==
    ASSUME MaxBackoff <= 30
    PROVE  FairSpec /\ []EnabledAsGuarded => DetailsAskedAgain
<1>1. ASSUME NEW o \in Order PROVE FairSpec /\ []EnabledAsGuarded => AskedAgain(o)
  <2>1. ~Silenced(o)
    BY NobodySilenced
  <2>. QED
    BY <2>1, PTL DEF Silenced, AskedAgain, Tracked, AllHandled, Asked
<1>. QED
  BY <1>1 DEF DetailsAskedAgain

=============================================================================
