------------------------------ MODULE OrderStatus ------------------------------
(***************************************************************************)
(* What an order is shown as: whether it is active (api.is_active_order),  *)
(* its status (sensor.normalize_order_status) and the lifecycle attribute  *)
(* of its tracking entity, from payloads whose sources may contradict each *)
(* other.  The details of an active order are read some time after the     *)
(* summary, so the two may describe different moments.                     *)
(*                                                                         *)
(* A text is one phrase: a word, plain or negated ("not yet delivered").   *)
(* The words are the classes that the code's fragments tell apart:         *)
(* "failing" and "refund" have the fragments "fail" and "refund" without   *)
(* being "failed" and "refunded", "other" has no fragment.  The status     *)
(* types are words in capitals.  A payload has each key or lacks it.       *)
(***************************************************************************)
CONSTANTS Word, StatusType

ASSUME ConstantsAssumption ==
    /\ StatusType \subseteq Word
    /\ "in_progress" \in StatusType
    /\ Word \subseteq
         {"delivered", "completed", "cancelled", "failed", "failing", "rejected",
          "refunded", "refund", "declined", "arriving", "picked_up", "ready",
          "preparing", "pending", "in_progress", "on_the_way", "other"}

NoText == [word |-> "", negated |-> FALSE]
Phrase == [word : Word, negated : BOOLEAN]
Text   == Phrase \cup {NoText}

\* "malformed": telemetry that is no object; "untyped": one without a type.
Telemetry == StatusType \cup {"absent", "malformed", "untyped"}
TopLevel  == StatusType \cup {"absent", "untyped"}

Details == [telemetry : Telemetry, top : TopLevel, status : Text]
Summary == [telemetry : Telemetry, top : TopLevel, status : Text, cta : BOOLEAN]

NoPayload == [telemetry |-> "absent", top |-> "absent", status |-> NoText]

VARIABLES
    stage,     \* of the poll
    summary,   \* the order's item of the listing
    active,    \* whether it is in active_order_ids
    details    \* its rich details

vars == <<stage, summary, active, details>>

TypeOK ==
    /\ stage \in {"waiting", "listed", "published"}
    /\ summary \in Summary /\ details \in Details /\ active \in BOOLEAN
    /\ details # NoPayload => active

Init ==
    /\ stage = "waiting" /\ active = FALSE
    /\ details = NoPayload
    /\ summary = [telemetry |-> "absent", top |-> "absent", status |-> NoText, cta |-> FALSE]

-----------------------------------------------------------------------------
(* The conversions.                                                        *)

\* _contains_non_negated_status, for the words that have the fragments.
Says(text, words) == ~text.negated /\ text.word \in words

IsActiveTrustsText(o) ==   \* mutant: the text is asked before the telemetry
    \/ o.cta
    \/ o.status # NoText
       /\ ~Says(o.status, {"delivered", "cancelled", "failed", "refunded", "rejected"})

(* is_active_order: the first source that is there decides.                *)
IsActive(o) ==
    CASE o.telemetry # "absent" -> o.telemetry = "in_progress"
      [] o.telemetry = "absent" /\ o.top # "absent" -> o.top = "in_progress"
      [] OTHER ->
            \/ o.cta
            \/ /\ o.status # NoText
               /\ ~Says(o.status, {"delivered", "cancelled", "failed", "refunded", "rejected"})

(* The status type, telemetry before the top level; none, if what is there *)
(* has no type.                                                            *)
Type(o) ==
    LET t == IF o.telemetry # "absent" THEN o.telemetry ELSE o.top
    IN  IF t \in StatusType THEN [word |-> t, negated |-> FALSE] ELSE NoText

RawStatusUnfiltered(o) ==   \* mutant: any text outranks IN_PROGRESS
    CASE o.telemetry = "absent" /\ o.top = "absent" -> o.status
      [] Type(o).word # "in_progress" /\ (o.telemetry # "absent" \/ o.top # "absent") -> Type(o)
      [] OTHER -> IF o.status = NoText THEN Type(o) ELSE o.status

RawStatusTelemetryOnly(o) ==   \* mutant: the type at the top level is not read
    IF o.telemetry # "absent" /\ Type(o).word # "in_progress" THEN Type(o) ELSE o.status

(* _raw_status: a type other than IN_PROGRESS decides alone, IN_PROGRESS   *)
(* leaves the text to say how far the order is, unless it says final.      *)
RawStatus(o) ==
    CASE o.telemetry = "absent" /\ o.top = "absent" -> o.status
      [] Type(o).word # "in_progress" /\ (o.telemetry # "absent" \/ o.top # "absent") -> Type(o)
      [] OTHER ->
            IF \/ o.status = NoText
               \/ Says(o.status, {"delivered", "completed", "cancelled", "failed", "failing",
                                  "rejected", "refunded", "refund"})
            THEN Type(o) ELSE o.status

(* normalize_order_status.                                                 *)
Normalized(text) ==
    CASE Says(text, {"cancelled", "refunded"}) -> "cancelled"
      [] Says(text, {"failed", "failing", "rejected", "declined"}) -> "failed"
      [] Says(text, {"delivered", "completed"}) -> "delivered"
      [] Says(text, {"pending", "in_progress"}) -> "pending"
      [] Says(text, {"arriving", "picked_up", "preparing", "on_the_way"}) -> text.word
      [] Says(text, {"ready"}) -> "ready_for_pickup"
      [] OTHER -> "unknown"

(* _order_data: every key the summary has overrides the details.           *)
Merged ==
    [telemetry |-> IF summary.telemetry = "absent" THEN details.telemetry ELSE summary.telemetry,
     top       |-> IF summary.top = "absent" THEN details.top ELSE summary.top,
     status    |-> IF summary.status = NoText THEN details.status ELSE summary.status]

(* The state of the status entity.                                         *)
Status == Normalized(RawStatus(Merged))

(* order_status_type of the tracking entity, from the summary alone.       *)
TrackingType ==
    LET t == IF summary.telemetry \in {"absent", "malformed"} THEN summary.top
             ELSE summary.telemetry
    IN  CASE active -> "in_progress"
          [] ~active /\ t \in {"delivered", "cancelled", "failed", "rejected", "refunded",
                               "completed"} -> t
          [] OTHER -> "unknown"

-----------------------------------------------------------------------------
(* The poll of one order.                                                  *)

List ==
    /\ stage = "waiting" /\ stage' = "listed"
    /\ summary' \in Summary
    /\ active' = IsActive(summary')
    /\ UNCHANGED details

FetchDetailsOfAll ==   \* mutant: details of ended orders are fetched too
    /\ stage = "listed" /\ stage' = "published"
    /\ details' \in Details
    /\ UNCHANGED <<summary, active>>

(* Only an active order has its details asked for.                         *)
FetchDetails ==
    /\ stage = "listed" /\ stage' = "published"
    /\ active /\ details' \in Details
    /\ UNCHANGED <<summary, active>>

(* The order is over, or its details failed or are not asked for yet.      *)
NoDetails ==
    /\ stage = "listed" /\ stage' = "published"
    /\ UNCHANGED <<summary, active, details>>

(* The next poll starts from nothing.                                      *)
Wait ==
    /\ stage = "published" /\ stage' = "waiting"
    /\ active' = FALSE /\ details' = NoPayload
    /\ summary' = [telemetry |-> "absent", top |-> "absent", status |-> NoText, cta |-> FALSE]

Next == List \/ FetchDetails \/ NoDetails \/ Wait

Spec == Init /\ [][Next]_vars

-----------------------------------------------------------------------------
(* Properties of what is published.                                        *)

Final == {"delivered", "cancelled", "failed"}

(* While the listing's telemetry says IN_PROGRESS no stale text and no     *)
(* newer details make the order look ended (sensor.py:104-118,             *)
(* CHANGELOG.md:112), with one exception: "declined" is not among the      *)
(* texts that are overridden, and shows the order as failed.               *)
OngoingNotEnded ==
    stage = "published" /\ summary.telemetry = "in_progress" =>
        \/ Status \notin Final
        \/ Status = "failed" /\ Says(Merged.status, {"declined"})

(* The text and the call to action of an order that is not active never    *)
(* make it look under way (api.py:29-66 against sensor.py:84-152): it does *)
(* only if the status type that made it inactive is itself a word of       *)
(* progress, like the PENDING of tests/test_api.py:120, and then the type  *)
(* is what is shown.                                                       *)
InactiveProgressIsByType ==
    stage = "published" /\ ~active /\ Status \notin Final \cup {"unknown"} =>
        LET t == IF summary.telemetry # "absent" THEN summary.telemetry ELSE summary.top
        IN  /\ t \in StatusType \ {"in_progress"}
            /\ Status = Normalized([word |-> t, negated |-> FALSE])

(* The two entities of an order that has ended do not contradict each      *)
(* other about how it ended (tracking.py:145 against sensor.py:122).       *)
EntitiesAgree ==
    stage = "published" /\ TrackingType \in StatusType \ {"in_progress"}
        => Status \in {Normalized([word |-> TrackingType, negated |-> FALSE]), "unknown"}

=============================================================================
