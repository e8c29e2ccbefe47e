----------------------------- MODULE MCSampler -----------------------------
(***************************************************************************)
(* Instances of Sampler for TLC: temperatures at the edges of the width of *)
(* five characters, of the sign and of the two codes; the list of          *)
(* Config-1.0.1, one with two rooms at two addresses and a tag of neither  *)
(* prefix, one where both tags have the same thermometer, and one without  *)
(* an outdoor tag.                                                         *)
(***************************************************************************)
EXTENDS Sampler

Room(a) == [prefix |-> "RoomTemperature", addr |-> a]
Outdoor(a) == [prefix |-> "OutdoorTemperature", addr |-> a]
Other(a) == [prefix |-> "other", addr |-> a]

MCTemps == {-10125, -2000, -1000, 0, 21500, 99999, 100000}
MCGroups == {<<Room("a1"), Outdoor("a2")>>,
             <<Room("a1"), Outdoor("a2"), Other("a2"), Room("a3")>>,
             <<Outdoor("a2"), Room("a2")>>,
             <<Room("a1")>>}
MCIntervals == {-5, 0, 10}
=============================================================================
