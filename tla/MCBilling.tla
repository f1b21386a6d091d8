------------------------------ MODULE MCBilling -------------------------------
(***************************************************************************)
(* An instance of Billing for TLC.  Which Stripe subscription comes first  *)
(* and which handler takes a webhook are alike, and no property is a       *)
(* liveness property: both sets are symmetric.  Webhooks handled at the    *)
(* same time are followed through fewer changes of the purchases than      *)
(* those handled one by one.                                               *)
(***************************************************************************)
EXTENDS Billing, TLC

CONSTANT MaxCrowded  \* bound: changes while two webhooks are handled at once

Symmetry == Permutations(Sub) \cup Permutations(Handler)

Crowded == Cardinality({h \in Handler : work[h].pc # "idle"}) > 1

MCNext == Next /\ (Crowded' => changes' <= MaxCrowded)

MCSpec == Init /\ [][MCNext]_vars

=============================================================================
