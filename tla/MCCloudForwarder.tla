-------------------------- MODULE MCCloudForwarder --------------------------
(***************************************************************************)
(* Instances of CloudForwarder for TLC.                                    *)
(***************************************************************************)
EXTENDS CloudForwarder

\* Data points and an event, beside the audits of the process itself: two of
\* the listeners have messages, and the order on one list can go wrong.
MCUplink ==
  [l \in List |-> CASE l = "data" -> 2 [] l = "events" -> 1 [] OTHER -> 0]
=============================================================================
