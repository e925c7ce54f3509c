----------------------------- MODULE MC_Delivery -----------------------------
(***************************************************************************)
(* Delivery on small instances.  Workers with a downstream are             *)
(* interchangeable as long as no liveness property is checked and all or   *)
(* none of them may be stopped, and so are messages.                       *)
(***************************************************************************)
EXTENDS Delivery, TLC

Symmetry == Permutations(Workers \ Unconfigured) \union Permutations(Msgs)
=============================================================================
