------------------------------ MODULE MCPaging ------------------------------
(***************************************************************************)
(* Paging for TLC: three full pages, so that a walk can begin with none,   *)
(* part or all of them and users can be created before, on and after the   *)
(* page a client asks for.                                                 *)
(***************************************************************************)
EXTENDS Paging

MCUsers == 1 .. 6

=============================================================================
