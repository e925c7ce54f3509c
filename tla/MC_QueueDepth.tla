---------------------------- MODULE MC_QueueDepth ----------------------------
(***************************************************************************)
(* QueueDepth on small instances.  One worker has no downstream, so the    *)
(* workers are not interchangeable; messages are.                          *)
(***************************************************************************)
EXTENDS QueueDepth, TLC

Symmetry == Permutations(Msgs)
=============================================================================
