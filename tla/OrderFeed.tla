------------------------------- MODULE OrderFeed -------------------------------
(***************************************************************************)
(* What the coordinator promises to the entities that read its data:       *)
(* whatever it publishes is one whole listing, as the account was at one   *)
(* moment after the last publication, with details gathered since for some *)
(* of its active orders.  Listings are never mixed, and details never      *)
(* outlive the listing they were asked for.                                *)
(***************************************************************************)
CONSTANT Order

VARIABLES account,  \* what Wolt lists for each order
          taken,    \* the listing being worked on, a set of at most one
          feed      \* what the entities read

State == {"none", "active", "final"}
Empty == [orders |-> {}, active |-> {}, details |-> {}]

Init == account = [o \in Order |-> "none"] /\ taken = {} /\ feed = Empty

AccountChanges == account' \in [Order -> State] /\ UNCHANGED <<taken, feed>>

Take ==
    /\ taken' = {[orders  |-> {o \in Order : account[o] # "none"},
                  active  |-> {o \in Order : account[o] = "active"},
                  details |-> {}]}
    /\ UNCHANGED <<account, feed>>

Learn ==
    /\ \E listing \in taken : \E o \in listing.active :
          taken' = {[listing EXCEPT !.details = @ \cup {o}]}
    /\ UNCHANGED <<account, feed>>

Publish == feed' \in taken /\ taken' = {} /\ UNCHANGED account

Drop == taken' = {} /\ UNCHANGED <<account, feed>>

Restart == taken' = {} /\ feed' = Empty /\ UNCHANGED account

Next == AccountChanges \/ Take \/ Learn \/ Publish \/ Drop \/ Restart

Spec == Init /\ [][Next]_<<account, taken, feed>>
=============================================================================
