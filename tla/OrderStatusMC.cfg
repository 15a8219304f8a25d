SPECIFICATION Spec
CONSTANTS
    Word = {"delivered", "completed", "cancelled", "failed", "failing", "rejected",
            "refunded", "refund", "declined", "arriving", "picked_up", "ready",
            "preparing", "pending", "in_progress", "on_the_way", "other"}
    StatusType = {"in_progress", "delivered", "refunded", "pending", "other"}
INVARIANTS
    TypeOK
    OngoingNotEnded
    InactiveProgressIsByType
    EntitiesAgree
