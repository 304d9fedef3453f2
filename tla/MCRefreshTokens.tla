--------------------------- MODULE MCRefreshTokens ---------------------------
(***************************************************************************)
(* RefreshTokens for TLC.  Requests, tokens and families are drawn fresh   *)
(* from their sets and are interchangeable.                                *)
(***************************************************************************)
EXTENDS RefreshTokens, TLC

Symmetry == Permutations(Requests) \union Permutations(Tokens) \union Permutations(Families)

=============================================================================
