---------------------------- MODULE MC_ClaimLease ----------------------------
(***************************************************************************)
(* ClaimLease on small instances, with the symmetry of MC_Delivery.        *)
(***************************************************************************)
EXTENDS ClaimLease, TLC

Symmetry == Permutations(Workers) \union Permutations(Msgs)
=============================================================================
