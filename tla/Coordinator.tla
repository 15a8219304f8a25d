----------------------------- MODULE Coordinator -----------------------------
(***************************************************************************)
(* WoltDataUpdateCoordinator._async_update_data (coordinator.py): one poll *)
(* lists the account's orders, then asks for the details of each active    *)
(* one in turn, and for the venue's public page when the pickup location   *)
(* is wanted and the details lack it.  Every request is a suspension at    *)
(* which time passes, Wolt's orders change, consent changes and the        *)
(* integration may be reloaded.                                            *)
(*                                                                         *)
(* Time is counted in ticks of 30 seconds.  Home Assistant (external) runs *)
(* one poll at a time, schedules the next when one ends, keeps the last    *)
(* data when one fails, and stops polling after ConfigEntryAuthFailed.     *)
(* A failing first refresh is retried by setup, which ConfigEntry models;  *)
(* here it is a poll as any other.                                         *)
(***************************************************************************)
EXTENDS Integers, FiniteSets

CONSTANTS Order,             \* purchase ids
          NoOrder,           \* no purchase id
          CacheLimit,        \* venue pages remembered, 64 in the code
          MaxDoublings,      \* of the first backoff, 4 in the code
          MaxBackoff         \* the longest backoff in ticks, 30 in the code

ASSUME ConstantsAssumption ==
    /\ IsFiniteSet(Order) /\ NoOrder \notin Order
    /\ CacheLimit \in Nat \ {0}
    /\ MaxDoublings \in 1 .. 4 /\ MaxBackoff \in Nat \ {0}

ActiveInterval == 1   \* ACTIVE_UPDATE_INTERVAL
IdleInterval   == 2   \* IDLE_UPDATE_INTERVAL
FirstBackoff   == 2   \* 60 seconds

VARIABLES
    account,   \* what Wolt would list for each order
    wanted,    \* location_enabled(order, "pickup"), the details lacking it
    poll,      \* the poll in progress
    retry,     \* _rich_retry: ticks left and failures; absent is Fresh
    cache,     \* _venue_locations of the client: orders whose page is kept
    data,      \* the published WoltCoordinatorData
    success,   \* last_update_success
    due,       \* ticks to the next poll
    stopped    \* polling ended in an authentication failure

vars == <<account, wanted, poll, retry, cache, data, success, due, stopped>>

Data == [orders : SUBSET Order, active : SUBSET Order, details : SUBSET Order]
NoData == [orders |-> {}, active |-> {}, details |-> {}]

\* now: the order dealt with; todo: the active orders that follow it.
Poll == [at : {"idle", "listing", "orders", "details", "pickup", "venue"},
         now : Order \cup {NoOrder}, todo : SUBSET Order, result : Data]
NoPoll == [at |-> "idle", now |-> NoOrder, todo |-> {}, result |-> NoData]

\* A count of failures above MaxDoublings has the same effect as MaxDoublings.
Retry == [wait : 0 .. MaxBackoff, failures : 0 .. MaxDoublings]
Fresh == [wait |-> 0, failures |-> 0]

TypeOK ==
    /\ account \in [Order -> {"none", "active", "final"}]
    /\ wanted \in [Order -> BOOLEAN]
    /\ poll \in Poll
    /\ retry \in [Order -> Retry]
    /\ cache \in SUBSET Order
    /\ data \in Data
    /\ success \in BOOLEAN
    /\ due \in 0 .. IdleInterval
    /\ stopped \in BOOLEAN

Init ==
    /\ account = [o \in Order |-> "none"]
    /\ wanted \in [Order -> BOOLEAN]
    /\ poll = NoPoll
    /\ retry = [o \in Order |-> Fresh]
    /\ cache = {} /\ data = NoData /\ success = TRUE
    /\ due = 0 /\ stopped = FALSE

Lesser(m, n) == IF m < n THEN m ELSE n

PowersOfTwo == <<1, 2, 4, 8, 16>>
Doubled(failures) ==
    FirstBackoff * PowersOfTwo[Lesser(failures, MaxDoublings) + 1]

BackoffUncapped(failures) == Doubled(failures)   \* mutant

(* min(60 * 2 ** min(failures, 4), 900) seconds, in ticks.                 *)
Backoff(failures) == Lesser(Doubled(failures), MaxBackoff)

Interval(active) == IF active = {} THEN IdleInterval ELSE ActiveInterval

-----------------------------------------------------------------------------
StartPoll ==
    /\ poll.at = "idle" /\ due = 0 /\ ~stopped
    /\ poll' = [NoPoll EXCEPT !.at = "listing"]
    /\ UNCHANGED <<account, wanted, retry, cache, data, success, due, stopped>>

Active == {o \in Order : account[o] = "active"}

ListingKeepsDetails ==   \* mutant: the details of the last poll are kept
    [NoPoll EXCEPT !.at = "orders", !.todo = Active,
        !.result = [orders |-> {o \in Order : account[o] # "none"},
                    active |-> Active, details |-> data.details \cap Active]]

Listing ==
    [NoPoll EXCEPT !.at = "orders", !.todo = Active,
        !.result = [orders |-> {o \in Order : account[o] # "none"},
                    active |-> Active, details |-> {}]]

ListedKeepsRetry ==   \* mutant: the retry table is not pruned
    /\ poll.at = "listing" /\ poll' = Listing
    /\ UNCHANGED <<account, wanted, retry, cache, data, success, due, stopped>>

(* fetch_orders answers: retry state of orders that are not active goes.   *)
Listed ==
    /\ poll.at = "listing"
    /\ poll' = Listing
    /\ retry' = [o \in Order |-> IF o \in Active THEN retry[o] ELSE Fresh]
    /\ UNCHANGED <<account, wanted, cache, data, success, due, stopped>>

(* The poll raises: the published data and the interval stay.              *)
Fail(authFailed) ==
    /\ poll' = NoPoll
    /\ success' = FALSE
    /\ due' = Interval(data.active)
    /\ stopped' = authFailed
    /\ UNCHANGED <<account, wanted, retry, cache, data>>

(* fetch_orders raises: an authentication error stops polling.             *)
ListingFails ==
    /\ poll.at = "listing"
    /\ \E authFailed \in BOOLEAN : Fail(authFailed)

AskDetailsExtendsWait ==   \* mutant: a skipped request counts as a failure
    /\ poll.at = "orders"
    /\ \E o \in poll.todo :
          /\ poll' = [poll EXCEPT !.now = o, !.todo = @ \ {o},
                        !.at = IF retry[o].wait > 0 THEN "pickup" ELSE "details"]
          /\ retry' = IF retry[o].wait > 0
                       THEN [retry EXCEPT ![o].wait = Backoff(retry[o].failures)]
                       ELSE retry
    /\ UNCHANGED <<account, wanted, cache, data, success, due, stopped>>

(* The next order's details are asked for unless it is backing off.  Which *)
(* is next, the sorting of the ids, is left open.                          *)
AskDetails ==
    /\ poll.at = "orders"
    /\ \E o \in poll.todo :
          poll' = [poll EXCEPT !.now = o, !.todo = @ \ {o},
                     !.at = IF retry[o].wait > 0 THEN "pickup" ELSE "details"]
    /\ UNCHANGED <<account, wanted, retry, cache, data, success, due, stopped>>

DetailsArrive ==
    /\ poll.at = "details"
    /\ poll' = [poll EXCEPT !.at = "pickup", !.result.details = @ \cup {poll.now}]
    /\ retry' = [retry EXCEPT ![poll.now] = Fresh]
    /\ UNCHANGED <<account, wanted, cache, data, success, due, stopped>>

DetailsFailForgotten ==   \* mutant: the failure is not recorded
    /\ poll.at = "details"
    /\ poll' = [poll EXCEPT !.at = "pickup"]
    /\ UNCHANGED <<account, wanted, retry, cache, data, success, due, stopped>>

DetailsFailRaised ==   \* mutant: an authentication error is not caught
    /\ poll.at = "details"
    /\ \/ DetailsFailForgotten
       \/ Fail(TRUE)

(* Any of the client's errors, authentication included, only backs off.    *)
DetailsFail ==
    /\ poll.at = "details"
    /\ poll' = [poll EXCEPT !.at = "pickup"]
    /\ retry' = [retry EXCEPT ![poll.now] =
                   [wait |-> Backoff(@.failures),
                    failures |-> Lesser(@.failures + 1, MaxDoublings)]]
    /\ UNCHANGED <<account, wanted, cache, data, success, due, stopped>>

NextOrder == [poll EXCEPT !.at = "orders", !.now = NoOrder]

(* The pickup is not wanted, the order has no venue page, or the client    *)
(* remembers it: no request.                                               *)
PickupWithoutRequest ==
    /\ poll.at = "pickup"
    /\ poll' = NextOrder
    /\ UNCHANGED <<account, wanted, retry, cache, data, success, due, stopped>>

AskVenue ==
    /\ poll.at = "pickup" /\ wanted[poll.now] /\ poll.now \notin cache
    /\ poll' = [poll EXCEPT !.at = "venue"]
    /\ UNCHANGED <<account, wanted, retry, cache, data, success, due, stopped>>

VenueArrivesLate ==   \* mutant: emptied one page too late
    /\ poll.at = "venue"
    /\ poll' = NextOrder
    /\ cache' = {poll.now} \cup IF Cardinality(cache) > CacheLimit THEN {} ELSE cache
    /\ UNCHANGED <<account, wanted, retry, data, success, due, stopped>>

(* A page with coordinates is remembered; a full memory is emptied first.  *)
VenueArrives ==
    /\ poll.at = "venue"
    /\ poll' = NextOrder
    /\ \/ cache' = cache
       \/ cache' = {poll.now} \cup IF Cardinality(cache) >= CacheLimit THEN {} ELSE cache
    /\ UNCHANGED <<account, wanted, retry, data, success, due, stopped>>

(* WoltConnectionError and WoltInvalidPayloadError are suppressed.         *)
VenueFails ==
    /\ poll.at = "venue"
    /\ poll' = NextOrder
    /\ UNCHANGED <<account, wanted, retry, cache, data, success, due, stopped>>

(* response.text() raises UnicodeDecodeError, which nothing here catches.  *)
VenueUndecodable ==
    /\ poll.at = "venue"
    /\ Fail(FALSE)

PublishOldInterval ==   \* mutant: the interval of the data before
    /\ poll.at = "orders" /\ poll.todo = {}
    /\ data' = poll.result /\ success' = TRUE /\ poll' = NoPoll
    /\ due' = Interval(data.active)
    /\ UNCHANGED <<account, wanted, retry, cache, stopped>>

Publish ==
    /\ poll.at = "orders" /\ poll.todo = {}
    /\ data' = poll.result
    /\ success' = TRUE
    /\ due' = Interval(poll.result.active)
    /\ poll' = NoPoll
    /\ UNCHANGED <<account, wanted, retry, cache, stopped>>

-----------------------------------------------------------------------------
(* The surroundings (external).                                            *)

Tick ==
    /\ IF poll.at = "idle" THEN due > 0 /\ due' = due - 1 ELSE due' = due
    /\ retry' = [o \in Order |->
           [retry[o] EXCEPT !.wait = IF @ > 0 THEN @ - 1 ELSE 0]]
    /\ UNCHANGED <<account, wanted, poll, cache, data, success, stopped>>

OrderChanges ==
    /\ \E o \in Order, s \in {"none", "active", "final"} :
          account[o] # s /\ account' = [account EXCEPT ![o] = s]
    /\ UNCHANGED <<wanted, poll, retry, cache, data, success, due, stopped>>

ConsentChanges ==
    /\ \E o \in Order : wanted' = [wanted EXCEPT ![o] = ~@]
    /\ UNCHANGED <<account, poll, retry, cache, data, success, due, stopped>>

(* The entry is reloaded: a new client and a new coordinator.              *)
Reload ==
    /\ poll' = NoPoll
    /\ retry' = [o \in Order |-> Fresh]
    /\ cache' = {} /\ data' = NoData /\ success' = TRUE
    /\ due' = 0 /\ stopped' = FALSE
    /\ UNCHANGED <<account, wanted>>

-----------------------------------------------------------------------------
PollStep ==
    \/ Listed \/ ListingFails \/ AskDetails \/ DetailsArrive \/ DetailsFail
    \/ PickupWithoutRequest \/ AskVenue \/ VenueArrives \/ VenueFails
    \/ VenueUndecodable \/ Publish

Next ==
    \/ StartPoll \/ PollStep
    \/ Tick \/ OrderChanges \/ ConsentChanges \/ Reload

Spec == Init /\ [][Next]_vars

(* Time passes, timers fire and every request is answered or times out.    *)
FairSpec ==
    /\ Spec
    /\ WF_vars(StartPoll) /\ WF_vars(PollStep)
    /\ WF_vars(poll.at = "idle" /\ Tick)

-----------------------------------------------------------------------------
(* Properties.                                                             *)

Between == poll.at \in {"idle", "listing"}

(* Only active orders have a backoff: those of the listing a poll is       *)
(* working on, and after a successful poll those it published.  An order   *)
(* that ended and comes back starts afresh, and the table cannot grow.     *)
RetryOnlyForActive ==
    \A o \in Order : retry[o] # Fresh =>
        IF Between THEN success => o \in data.active ELSE o \in poll.result.active

(* After a successful poll an active order published without details is    *)
(* one whose details failed since they last arrived: it is asked about     *)
(* again on the backoff's terms, never silently skipped.                   *)
MissingDetailsFailed ==
    Between /\ success =>
        \A o \in data.active \ data.details : retry[o].failures > 0

(* While an order is tracked the next poll is at most 30 seconds away,     *)
(* otherwise at most a minute, also after polls that failed.               *)
PromptPoll == due <= Interval(data.active)

PollEnds(from) == poll.at \in from /\ poll'.at = "idle"
Published == success' /\ data'.orders = poll.result.orders
Reloaded == due' = 0   \* a reload polls at once

(* docs/MIGRATION.md:37: "Optional tracking failure keeps the order        *)
(* summary working and uses backoff".  Once the listing has arrived a poll *)
(* ends by publishing it or is cut off by a reload, whatever details and   *)
(* venue requests do, with one exception: a venue page that is no text in  *)
(* its charset (api.py:304).                                               *)
TrackingFailureHarmless ==
    [][PollEnds({"orders", "details", "pickup", "venue"})
        => Published \/ Reloaded \/ VenueUndecodable]_vars

(* The entities read whole listings of the account in the order of their   *)
(* taking, each with details of its own, and never a mixture of two polls. *)
Feed == INSTANCE OrderFeed
            WITH taken <- IF Between THEN {} ELSE {poll.result}, feed <- data
FeedSpec == Feed!Spec

(* The venue memory of the client keeps its limit.                         *)
CacheBounded == Cardinality(cache) <= CacheLimit

(* An order that stays active is asked about again and again as long as    *)
(* polls come to their end: no run of failures silences it for good.       *)
AskedAgain(o) ==
    <>[](account[o] = "active") /\ []<>(poll.at = "orders" /\ poll.todo = {})
        => []<>(poll.at = "details" /\ poll.now = o)
DetailsAskedAgain == \A o \in Order : AskedAgain(o)

=============================================================================
