--------------------------- MODULE OrderedChannel ---------------------------
(***************************************************************************)
(* What the forwarding half of the uplink promises the cloud: on every     *)
(* list the messages arrive in the order they were pushed.  A message may  *)
(* be missing, and may arrive several times in a row; no message arrives   *)
(* that was not pushed, and none arrives after a later one.                *)
(***************************************************************************)
EXTENDS Naturals, Sequences

CONSTANT List    \* the lists messages are pushed on

VARIABLES
  sent,   \* [List -> Nat]: how many messages were pushed; they are 1 .. sent
  got     \* [List -> Seq(Nat)]: the messages that arrived, in order

vars == <<sent, got>>

Init ==
  /\ sent = [l \in List |-> 0]
  /\ got = [l \in List |-> <<>>]

Send(l) ==
  /\ sent' = [sent EXCEPT ![l] = @ + 1]
  /\ UNCHANGED got

Arrive(l, n) ==
  /\ n \in 1 .. sent[l]
  /\ \A i \in DOMAIN got[l] : got[l][i] <= n
  /\ got' = [got EXCEPT ![l] = Append(@, n)]
  /\ UNCHANGED sent

Next == \E l \in List : Send(l) \/ \E n \in 1 .. sent[l] : Arrive(l, n)

Spec == Init /\ [][Next]_vars
=============================================================================
