----------------------------- MODULE Credential -----------------------------
(***************************************************************************)
(* What the client promises about a single-use refresh token, without any *)
(* client: the generation the integration holds and the generation the    *)
(* account server accepts.  A generation is consumed exactly once.  Either *)
(* its replacement reaches the store (Exchange) or the answer that carried *)
(* it was lost on the way (Lose), and then nothing this installation does  *)
(* uses up another generation: only new credentials help.                  *)
(***************************************************************************)
EXTENDS Naturals

VARIABLES held,   \* the generation the config entry stores
          live    \* the generation the server would accept

vars == <<held, live>>

\* The user may have pasted a token that was used up elsewhere already.
Init == held \in Nat /\ live \in Nat /\ held <= live

Exchange ==
    /\ held = live
    /\ live' = live + 1
    /\ held' = live'

Lose ==
    /\ held = live
    /\ live' = live + 1
    /\ held' = held

Next == Exchange \/ Lose

Spec == Init /\ [][Next]_vars
=============================================================================
