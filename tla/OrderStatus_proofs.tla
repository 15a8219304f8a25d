-------------------------- MODULE OrderStatus_proofs --------------------------
(***************************************************************************)
(* Proofs about OrderStatus, for any set of the words the code tells apart *)
(* and any status types among them.                                        *)
(***************************************************************************)
EXTENDS OrderStatus, TLAPS

(* An order is in active_order_ids if its own listing says so, and has no  *)
(* details before they have been asked for.                                *)
ActiveInv ==
    /\ stage # "waiting" => active = IsActive(summary)
    /\ stage # "published" => details = NoPayload

IInv == TypeOK /\ ActiveInv

LEMMA IsActiveTyped == ASSUME NEW o \in Summary PROVE IsActive(o) \in BOOLEAN
<1>1. o.cta \in BOOLEAN
  BY DEF Summary
<1>2. QED
  BY <1>1, Zenon DEF IsActive, Says

LEMMA EmptyTyped ==
    /\ [telemetry |-> "absent", top |-> "absent", status |-> NoText, cta |-> FALSE] \in Summary
    /\ NoPayload \in Details
BY DEF Summary, Details, NoPayload, Telemetry, TopLevel, Text

LEMMA Invariance == Spec => []IInv
<1>1. Init => IInv
  BY EmptyTyped DEF Init, IInv, TypeOK, ActiveInv
<1>2. IInv /\ [Next]_vars => IInv'
  <2> SUFFICES ASSUME IInv, [Next]_vars PROVE IInv'
    OBVIOUS
  <2> USE DEF IInv, TypeOK, ActiveInv
  <2>1. CASE List
    <3>1. /\ stage = "waiting" /\ stage' = "listed" /\ summary' \in Summary
          /\ active' = IsActive(summary') /\ details' = details
      BY <2>1 DEF List
    <3>2. active' \in BOOLEAN
      BY <3>1, IsActiveTyped
    <3>3. QED
      BY <3>1, <3>2
  <2>2. CASE FetchDetails
    BY <2>2 DEF FetchDetails, IsActive
  <2>3. CASE NoDetails
    BY <2>3 DEF NoDetails, IsActive
  <2>4. CASE Wait
    BY <2>4, EmptyTyped DEF Wait
  <2>5. CASE UNCHANGED vars
    BY <2>5 DEF vars, IsActive
  <2>6. QED
    BY <2>1, <2>2, <2>3, <2>4, <2>5 DEF Next
<1>3. QED
  BY <1>1, <1>2, PTL DEF Spec

-----------------------------------------------------------------------------
(* Words.                                                                  *)

(* What the normalized status tells of the text it was made from.          *)
LEMMA NormalizedMeans ==
    ASSUME NEW text
    PROVE  /\ Normalized(text) = "delivered" => Says(text, {"delivered", "completed"})
           /\ Normalized(text) = "cancelled" => Says(text, {"cancelled", "refunded"})
           /\ Normalized(text) = "failed" =>
                 Says(text, {"failed", "failing", "rejected", "declined"})
           /\ \/ Normalized(text) \in Final \cup {"unknown"}
              \/ Says(text, {"pending", "in_progress", "arriving", "picked_up", "preparing",
                             "on_the_way", "ready"})
BY DEF Normalized, Says, Final

LEMMA NoTextSaysNothing ==
    /\ NoText.word # "in_progress"
    /\ Normalized(NoText) = "unknown"
<1>1. NoText.word = ""
  BY DEF NoText
<1>2. NoText.word # "in_progress"
  BY <1>1
<1>3. \A words : Says(NoText, words) => "" \in words
  BY <1>1 DEF Says
<1>4. Normalized(NoText) = "unknown"
  BY <1>3 DEF Normalized
<1>5. QED
  BY <1>2, <1>4

(* Every variable keeps its type; only an active order has details         *)
(* (coordinator.py:88).                                                    *)
THEOREM TypeCorrect == Spec => []TypeOK
<1>1. IInv => TypeOK
  BY DEF IInv
<1>2. QED
  BY <1>1, Invariance, PTL

(* While the telemetry of the listing says IN_PROGRESS the order is not    *)
(* shown as ended, unless a text says "declined" (sensor.py:104-118).      *)
THEOREM OngoingIsNotEnded == Spec => []OngoingNotEnded
<1>1. IInv => OngoingNotEnded
  <2> SUFFICES ASSUME IInv, summary.telemetry = "in_progress", Status \in Final
               PROVE  Status = "failed" /\ Says(Merged.status, {"declined"})
    BY DEF OngoingNotEnded
  <2>1. "in_progress" \in StatusType
    BY DEF IInv, TypeOK, Summary, Telemetry
  <2>2. Merged.telemetry = "in_progress"
    BY DEF Merged
  <2>3. Type(Merged) = [word |-> "in_progress", negated |-> FALSE]
    BY <2>1, <2>2 DEF Type
  <2>4. RawStatus(Merged) = Type(Merged)
        \/ /\ RawStatus(Merged) = Merged.status
           /\ ~Says(Merged.status, {"delivered", "completed", "cancelled", "failed", "failing",
                                    "rejected", "refunded", "refund"})
    BY <2>2, <2>3 DEF RawStatus
  <2>5. CASE RawStatus(Merged) = Type(Merged)
    BY <2>3, <2>5, NormalizedMeans DEF Status, Final, Says
  <2>6. CASE RawStatus(Merged) = Merged.status
             /\ ~Says(Merged.status, {"delivered", "completed", "cancelled", "failed", "failing",
                                      "rejected", "refunded", "refund"})
    BY <2>6, NormalizedMeans DEF Status, Final, Says
  <2>7. QED
    BY <2>4, <2>5, <2>6
<1>2. QED
  BY <1>1, Invariance, PTL

-----------------------------------------------------------------------------
(* An order that is not active.                                            *)

LEMMA InactiveIsSummary ==
    ASSUME IInv, stage = "published", ~active
    PROVE  /\ ~IsActive(summary)
           /\ Merged.telemetry = summary.telemetry
           /\ Merged.top = summary.top
           /\ Merged.status = summary.status
<1>1. details = NoPayload
  BY DEF IInv, TypeOK
<1>2. QED
  BY <1>1 DEF IInv, ActiveInv, Merged, NoPayload

LEMMA InactiveRawStatus ==
    ASSUME IInv, stage = "published", ~active
    PROVE  \/ RawStatus(Merged) = Type(Merged) /\ Type(Merged).word # "in_progress"
           \/ /\ summary.telemetry = "absent" /\ summary.top = "absent"
              /\ RawStatus(Merged) = summary.status
              /\ \/ summary.status = NoText
                 \/ Says(summary.status, {"delivered", "cancelled", "failed", "refunded",
                                          "rejected"})
<1>1. /\ Merged.telemetry = summary.telemetry
      /\ Merged.top = summary.top /\ Merged.status = summary.status
      /\ ~IsActive(summary)
  BY InactiveIsSummary
<1>2. CASE summary.telemetry # "absent"
  <2>1. summary.telemetry # "in_progress"
    BY <1>1, <1>2 DEF IsActive
  <2>2. Type(Merged).word # "in_progress"
    BY <1>1, <1>2, <2>1 DEF Type, NoText
  <2>3. QED
    BY <1>1, <1>2, <2>2 DEF RawStatus
<1>3. CASE summary.telemetry = "absent" /\ summary.top # "absent"
  <2>1. summary.top # "in_progress"
    BY <1>1, <1>3 DEF IsActive
  <2>2. Type(Merged).word # "in_progress"
    BY <1>1, <1>3, <2>1 DEF Type, NoText
  <2>3. QED
    BY <1>1, <1>3, <2>2 DEF RawStatus
<1>4. CASE summary.telemetry = "absent" /\ summary.top = "absent"
  BY <1>1, <1>4 DEF RawStatus, IsActive
<1>5. QED
  BY <1>2, <1>3, <1>4

(* Text and call to action never make an order that is not active look     *)
(* under way (api.py:29-66, sensor.py:84-119), for any status types: what  *)
(* is left is a type like PENDING, which is shown as it is.                *)
THEOREM InactiveIsNotUnderWay == Spec => []InactiveProgressIsByType
<1>1. IInv => InactiveProgressIsByType
  <2> DEFINE progress == {"pending", "in_progress", "arriving", "picked_up", "preparing",
                          "on_the_way", "ready"}
             t == IF summary.telemetry # "absent" THEN summary.telemetry ELSE summary.top
  <2> SUFFICES ASSUME IInv, stage = "published", ~active,
                      Status \notin Final \cup {"unknown"}
               PROVE  /\ t \in StatusType \ {"in_progress"}
                      /\ Status = Normalized([word |-> t, negated |-> FALSE])
    BY DEF InactiveProgressIsByType
  <2>1. CASE RawStatus(Merged) = Type(Merged) /\ Type(Merged).word # "in_progress"
    <3>1. Status = Normalized(Type(Merged))
      BY <2>1 DEF Status
    <3>2. Type(Merged) # NoText
      BY <3>1, NoTextSaysNothing
    <3>3. Merged.telemetry = summary.telemetry /\ Merged.top = summary.top
      BY InactiveIsSummary
    <3>4. t \in StatusType /\ Type(Merged) = [word |-> t, negated |-> FALSE]
      BY <3>2, <3>3 DEF Type
    <3>5. QED
      BY <2>1, <3>1, <3>4
  <2>2. CASE RawStatus(Merged) = summary.status
             /\ (\/ summary.status = NoText
                 \/ Says(summary.status, {"delivered", "cancelled", "failed", "refunded",
                                          "rejected"}))
    <3>1. CASE summary.status = NoText
      BY <2>2, <3>1, NoTextSaysNothing DEF Status
    <3>2. CASE Says(summary.status, {"delivered", "cancelled", "failed", "refunded", "rejected"})
      <4>1. ~Says(summary.status, progress)
        BY <3>2 DEF Says
      <4>2. QED
        BY <2>2, <4>1, NormalizedMeans DEF Status
    <3>3. QED
      BY <2>2, <3>1, <3>2
  <2>3. QED
    BY <2>1, <2>2, InactiveRawStatus
<1>2. QED
  BY <1>1, Invariance, PTL

(* The status and the tracking entity of an order that has ended do not    *)
(* contradict each other about how (tracking.py:145-169,                   *)
(* sensor.py:84-152).                                                      *)
THEOREM TheEntitiesAgree == Spec => []EntitiesAgree
<1>1. IInv => EntitiesAgree
  <2> DEFINE ended == {"delivered", "cancelled", "failed", "rejected", "refunded", "completed"}
             t == IF summary.telemetry \in {"absent", "malformed"} THEN summary.top
                  ELSE summary.telemetry
  <2> SUFFICES ASSUME IInv, stage = "published", TrackingType \in StatusType \ {"in_progress"}
               PROVE  Status \in {Normalized([word |-> TrackingType, negated |-> FALSE]), "unknown"}
    BY DEF EntitiesAgree
  <2>1. /\ "unknown" \notin StatusType /\ "malformed" \notin StatusType
        /\ "untyped" \notin StatusType /\ "absent" \notin StatusType
    BY ConstantsAssumption
  <2>2. ~active /\ TrackingType = t /\ t \in ended /\ t \in StatusType
    BY <2>1 DEF TrackingType, IInv, TypeOK
  <2>3. Merged.telemetry = summary.telemetry /\ Merged.top = summary.top
    BY <2>2, InactiveIsSummary
  <2>4. CASE summary.telemetry = "malformed"
    <3>1. Type(Merged) = NoText
      BY <2>1, <2>3, <2>4 DEF Type
    <3>2. RawStatus(Merged) = NoText
      BY <2>3, <2>4, <3>1, NoTextSaysNothing DEF RawStatus
    <3>3. QED
      BY <3>2, NoTextSaysNothing DEF Status
  <2>5. CASE summary.telemetry # "malformed"
    <3>1. Type(Merged) = [word |-> t, negated |-> FALSE]
      BY <2>2, <2>3, <2>5 DEF Type
    <3>2. /\ Type(Merged).word # "in_progress"
          /\ Merged.telemetry # "absent" \/ Merged.top # "absent"
      BY <2>1, <2>2, <2>3, <2>5, <3>1
    <3>3. RawStatus(Merged) = Type(Merged)
      BY <3>2 DEF RawStatus
    <3>4. QED
      BY <2>2, <3>1, <3>3 DEF Status
  <2>6. QED
    BY <2>4, <2>5
<1>2. QED
  BY <1>1, Invariance, PTL

=============================================================================
