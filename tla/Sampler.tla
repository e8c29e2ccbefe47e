------------------------------ MODULE Sampler ------------------------------
(***************************************************************************)
(* The collecting loop of the sensor process: two DS18B20 thermometers are *)
(* read through their files, their tags put among the good or the error    *)
(* tags of a message, the message pushed, and the loop sleeps.             *)
(*                                                                         *)
(* SENSOR_GROUP lists tags, each with the address of a thermometer.  Which *)
(* of the two readings a tag gets depends on how its name starts, and the  *)
(* loop that looks for the addresses keeps one for each such prefix.       *)
(*                                                                         *)
(* Temperatures are in thousandths of a degree, as in the files.  A file   *)
(* is read with scanf into variables without a first value, five           *)
(* characters of the number at most, into an unsigned integer.             *)
(***************************************************************************)
EXTENDS Integers, Sequences

CONSTANTS
  Temps,       \* temperatures the thermometers may have
  Intervals,   \* values of interval in SENSOR_GROUP
  Addrs,       \* addresses, of thermometers or of none
  Groups,      \* the lists SensorAlarm that SENSOR_GROUP may give
  Wrap         \* 2^32

\* The two prefixes that strncmp looks for, and a tag of the list: how its name
\* starts and the address it was loaded with.
Sensors == {"RoomTemperature", "OutdoorTemperature"}
Tag == [prefix : Sensors \cup {"other"}, addr : Addrs]

\* The codes that getTemp returns for a file it could not open and for one it
\* could not read.
NotOpened == -2000
NotRead == -1000

ASSUME SamplerAssumption ==
  /\ Temps \subseteq Int
  /\ \A t \in Temps : -55000 <= t /\ t <= 125000
  /\ Intervals \subseteq Int
  /\ Groups \subseteq Seq(Tag)
  /\ Wrap \in Nat
  /\ Wrap > 1000000

\* The file of a thermometer: not there, there without any text, with a
\* checksum that does not match, or good with the temperature t.
Files == [kind : {"none", "empty", "badcrc"}, t : {0}]
         \cup [kind : {"good"}, t : Temps]

VARIABLES
  pc,        \* the process: where it is in StartCollecting
  group,     \* SensorGroup().SensorAlarm
  dev,       \* the addresses of w1Device1 and w1Device2
  interval,  \* -1 if SENSOR_GROUP has none
  temp,      \* romTemp and outDoorTemp
  left,      \* what the last reading left in tempInt and crcConf
  read,      \* history: the files as they were read, and their addresses
  good,      \* good_tags of the last message: places in group, with values
  error      \* error_tags of the last message: places in group

vars == <<pc, group, dev, interval, temp, left, read, good, error>>

TypeOK ==
  /\ pc \in {"off", "devices", "interval", "room", "outdoor", "push", "sleep",
             "sleeping"}
  /\ group \in Seq(Tag)
  /\ dev \in [Sensors -> Addrs]
  /\ interval \in Intervals \cup {-1}
  /\ temp \in [Sensors -> Int]
  /\ left \in [t : Nat, yes : BOOLEAN]
  /\ read \in [Sensors -> [addr : Addrs, file : Files]]
  /\ good \subseteq (DOMAIN group) \X Nat
  /\ error \subseteq DOMAIN group

Init ==
  /\ pc = "off"
  /\ group = <<>>
  /\ dev \in [Sensors -> Addrs]
  /\ interval = -1
  /\ temp = [s \in Sensors |-> NotRead]
  /\ left = [t |-> 0, yes |-> FALSE]
  /\ read = [s \in Sensors |->
               [addr |-> dev[s], file |-> [kind |-> "none", t |-> 0]]]
  /\ good = {}
  /\ error = {}

-----------------------------------------------------------------------------
(***************************************************************************)
(* DS18B20::getTemp                                                        *)
(***************************************************************************)

\* The number that the first five characters of t stand for, a sign included.
FirstFive(t) ==
  IF t >= 100000 THEN t \div 10
  ELSE IF t <= -10000 THEN -((-t) \div 10)
  ELSE t

\* Mutation of Convert: the number is kept with its sign.
ConvertSigned(t) == FirstFive(t)

\* Into an unsigned integer, and from it.
Convert(t) == FirstFive(t) % Wrap

\* The results of getTemp on a file: without text, crcConf and tempInt keep
\* what is left where they lie.
Results(f) ==
  CASE f.kind = "none"   -> {NotOpened}
    [] f.kind = "badcrc" -> {NotRead}
    [] f.kind = "good"   -> {Convert(f.t)}
    [] f.kind = "empty"  -> IF left.yes THEN {NotRead, left.t} ELSE {NotRead}

IsError(v) == v \in {NotOpened, NotRead}

\* One of the two calls of getTemp, on a file f.
GetTemp(s, f, from, to) ==
  /\ pc = from
  /\ pc' = to
  /\ \E v \in Results(f) : temp' = [temp EXCEPT ![s] = v]
  /\ read' = [read EXCEPT ![s] = [addr |-> dev[s], file |-> f]]
  /\ left' = CASE f.kind = "good"   -> [t |-> Convert(f.t) % Wrap, yes |-> TRUE]
               [] f.kind = "badcrc" -> [left EXCEPT !.yes = FALSE]
               [] OTHER             -> left
  /\ UNCHANGED <<group, dev, interval, good, error>>

-----------------------------------------------------------------------------
(***************************************************************************)
(* SensorDevice::StartCollecting                                           *)
(***************************************************************************)

\* The places of the tags whose names start with prefix s.
Named(g, s) == {i \in DOMAIN g : g[i].prefix = s}

\* The addresses that ds18b20_1 or ds18b20_2 may point to after the loop: that
\* of the last tag of the prefix.  Without one the pointer was never set, and
\* if the process survives strdup it has whatever text lies there.
Chosen(g, s) ==
  LET last == {i \in Named(g, s) : \A j \in Named(g, s) : j <= i}
  IN  IF Named(g, s) = {} THEN Addrs ELSE {g[i].addr : i \in last}

\* The process starts and loads its configuration.
LoadGroup ==
  /\ pc = "off"
  /\ pc' = "devices"
  /\ group' \in Groups
  /\ UNCHANGED <<dev, interval, temp, left, read, good, error>>

\* The addresses are looked for, and the two thermometers made.
MakeDevices ==
  /\ pc = "devices"
  /\ pc' = "interval"
  /\ \E room  \in Chosen(group, "RoomTemperature"),
        outer \in Chosen(group, "OutdoorTemperature") :
       dev' = [s \in Sensors |-> IF s = "RoomTemperature" THEN room ELSE outer]
  /\ UNCHANGED <<group, interval, temp, left, read, good, error>>

\* SENSOR_GROUP is read once more, for interval alone.
GetInterval ==
  /\ pc = "interval"
  /\ pc' = "room"
  /\ interval' \in Intervals \cup {-1}
  /\ UNCHANGED <<group, dev, temp, left, read, good, error>>

GetRoom ==
  \E f \in Files : GetTemp("RoomTemperature", f, "room", "outdoor")

GetOutdoor ==
  \E f \in Files : GetTemp("OutdoorTemperature", f, "outdoor", "push")

\* The tags of the two prefixes, and the push on local_data_bus.  The tags of
\* the relays are those of Downlink.
Push ==
  /\ pc = "push"
  /\ pc' = "sleep"
  /\ error' = {i \in DOMAIN group : /\ group[i].prefix \in Sensors
                                    /\ IsError(temp[group[i].prefix])}
  /\ good' = {<<i, temp[group[i].prefix]>> :
                i \in {j \in DOMAIN group : /\ group[j].prefix \in Sensors
                                            /\ ~IsError(temp[group[j].prefix])}}
  /\ UNCHANGED <<group, dev, interval, temp, left, read>>

\* sleep(interval), and the lists go out of scope.  As unsigned a negative
\* interval, also the -1 of a missing one, is 2^31 seconds at least, which do
\* not end.
Sleep ==
  /\ pc = "sleep"
  /\ pc' = IF interval < 0 THEN "sleeping" ELSE "room"
  /\ good' = {}
  /\ error' = {}
  /\ UNCHANGED <<group, dev, interval, temp, left, read>>

\* The process ends: at a pointer that was never set, at a SENSOR_GROUP that is
\* not there or does not parse, or because a relay was switched.  The Manager
\* spawns it again.
Respawn ==
  /\ pc # "off"
  /\ pc' = "off"
  /\ group' = <<>>
  /\ left' = [t |-> 0, yes |-> FALSE]
  /\ good' = {}
  /\ error' = {}
  /\ UNCHANGED <<dev, interval, temp, read>>

StartCollecting == LoadGroup \/ MakeDevices \/ GetInterval

Loop == GetRoom \/ GetOutdoor \/ Push \/ Sleep

Next == StartCollecting \/ Loop \/ Respawn

Spec == Init /\ [][Next]_vars

-----------------------------------------------------------------------------
(***************************************************************************)
(* Properties.                                                             *)
(***************************************************************************)

\* A message was just made of what was read.
Sent == pc = "sleep"

\* No other address took the place of that of tag i: the last tag with its
\* prefix has the same.
Keeps(i) ==
  /\ group[i].prefix \in Sensors
  /\ \E j \in DOMAIN group :
       /\ group[j] = group[i]
       /\ \A k \in DOMAIN group : group[k].prefix = group[i].prefix => k <= j

\* What the cloud is told of a thermometer is true, although it is scanned
\* with a width, as unsigned, with two values that mean errors, and both
\* thermometers go through the same variables.  For a tag whose address was
\* not given up for that of a later tag with its prefix: the file that was
\* read is that of its own address; one that was read, at any temperature, is
\* not taken for one that was not; one without its file or with a wrong
\* checksum is not taken for one that was; and between 0 and 100 degrees the
\* value is the temperature (SensorDevice.cpp:86-96, 117-167, DS18B20.cpp).
TagsAreTrue ==
  Sent => \A i \in DOMAIN group : Keeps(i) =>
            LET r == read[group[i].prefix]
                f == r.file
            IN  /\ r.addr = group[i].addr
                /\ f.kind = "good" => i \notin error
                /\ f.kind \in {"none", "badcrc"} => i \in error
                /\ f.kind = "good" /\ f.t >= 0 /\ f.t < 100000
                     => <<i, f.t>> \in good
=============================================================================
