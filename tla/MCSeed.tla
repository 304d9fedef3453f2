------------------------------- MODULE MCSeed -------------------------------
(***************************************************************************)
(* Seed for TLC: one hotel of the seed's list, since two share no row.     *)
(***************************************************************************)
EXTENDS Seed

OneHotel == <<"deniz">>

=============================================================================
