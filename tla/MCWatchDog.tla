----------------------------- MODULE MCWatchDog -----------------------------
(***************************************************************************)
(* Instances of WatchDog for TLC.                                          *)
(***************************************************************************)
EXTENDS WatchDog

MCSteps == {-2, 3}
NoSteps == {}
=============================================================================
