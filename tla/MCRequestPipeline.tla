-------------------------- MODULE MCRequestPipeline --------------------------
(***************************************************************************)
(* RequestPipeline for TLC.                                                *)
(***************************************************************************)
EXTENDS RequestPipeline, TLC

Symmetry == Permutations(Tokens)

=============================================================================
