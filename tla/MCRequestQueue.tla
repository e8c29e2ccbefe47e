--------------------------- MODULE MCRequestQueue ---------------------------
(***************************************************************************)
(* RequestQueue for TLC: the bounds are given in the configurations.       *)
(***************************************************************************)
EXTENDS RequestQueue
=============================================================================
