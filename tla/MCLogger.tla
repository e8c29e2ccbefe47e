------------------------------ MODULE MCLogger ------------------------------
(***************************************************************************)
(* Logger for TLC: the bounds are given in the configuration.              *)
(***************************************************************************)
EXTENDS Logger
=============================================================================
