----------------------------- MODULE MCDownlink -----------------------------
(***************************************************************************)
(* Instances of Downlink for TLC.                                          *)
(***************************************************************************)
EXTENDS Downlink

\* A request that ProcessDownlinkConsume reads, for this gateway.
Ours(kind, data) ==
  [keys |-> {"ban_tin_id", "che_do_phat", "cum_loa_id", "data"}, here |-> TRUE,
   kind |-> kind, data |-> data]

Obj(s, x) == [state |-> s, index |-> x]

\* One of every way a request can go: the last relay on; off with the state in an
\* object of its own; without state and index; a reboot, an unknown command,
\* one whose handler throws, a restart, an empty command; one for another
\* gateway; one without the keys.
MCAll ==
  {Ours("set", <<Obj(1, NumRelays)>>),
   Ours("set", <<Obj(1, NumRelays), Obj(0, Missing)>>),
   Ours("set", <<Obj(Missing, Missing)>>), Ours("reboot", <<>>),
   Ours("unknown", <<>>), Ours("broken", <<>>), Ours("restart", <<>>),
   Ours("empty", <<>>),
   [Ours("set", <<Obj(1, NumRelays)>>) EXCEPT !.here = FALSE],
   [Ours("set", <<Obj(1, NumRelays)>>) EXCEPT !.keys = {}]}

\* The relay that is switched is off or on, and the other one is not what it is.
MCInstalled == {[r \in Relay |-> IF r = NumRelays THEN s ELSE 1 - s] : s \in {0, 1}}
=============================================================================
