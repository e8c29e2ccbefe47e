---------------------------- MODULE SensorBridge ----------------------------
(***************************************************************************)
(* The collecting half of the uplink: the M2M processes (in this           *)
(* repository one, M2M_SENSOR) push readings on the Redis list             *)
(* local_data_bus; the Bridge stores the newest reading of each device     *)
(* under the Redis key collector_<type>, on its event loop, and a timer    *)
(* thread of the same process sweeps those keys into a data point that it  *)
(* pushes on the list M2C_DATA_MQTT and publishes as live_data.            *)
(*                                                                         *)
(* Every Redis command is one step, so the event loop and the timer        *)
(* thread interleave between the timer's Get and Set exactly as the code   *)
(* (whose lock is commented out, Bridge.cpp:44-45) lets them.              *)
(***************************************************************************)
EXTENDS Naturals, Sequences

CONSTANTS
  NumDevices,   \* length of BridgeConfig::Collector().Devices
  Sources,      \* sub_device_ids that M2M processes put in their messages
  Garbled,      \* stands for the sub id of a message that does not parse
  MaxReadings,  \* bound: readings per source
  MaxPoints,    \* bound: data points the timer pushes
  MaxCrashes    \* bound: deaths of the Bridge process

(***************************************************************************)
(* A configured device is its position in the list of devices; its SubID   *)
(* and its DeviceType stand for that position, other ids name no device.   *)
(***************************************************************************)
Device == 1 .. NumDevices

ASSUME ConstantsAssumption ==
  /\ NumDevices \in Nat
  /\ Sources \subseteq Nat
  /\ Garbled \in Nat \ Device
  /\ MaxReadings \in Nat
  /\ MaxPoints \in Nat
  /\ MaxCrashes \in Nat

VARIABLES
  next,        \* [Sources -> Nat]: readings taken so far by each source
  bus,         \* Redis list local_data_bus, oldest first
  taken,       \* the message the event loop popped and is handling
  slot,        \* Redis keys collector_<type>; 0 is the empty string
  tpc,         \* where the timer thread is in DataPointProcessor
  ti,          \* the device the loop of DataPointProcessor is at
  dp,          \* the data point DataPointProcessor is building
  log,         \* every data point pushed on M2C_DATA_MQTT, in order
  live,        \* index in log of the value of live_data; 0 is not set
  registered,  \* BridgeConfig::RegInfo().DevID is not empty
  newest,      \* history: the newest reading ProcessCollectData stored
  crashes      \* deaths of the Bridge process so far

vars == <<next, bus, taken, slot, tpc, ti, dp, log, live, registered,
          newest, crashes>>

busVars == <<next, bus>>
timerVars == <<tpc, ti, dp>>
outVars == <<log, live>>

Message == [sub : Sources, n : Nat \ {0}]

\* The event loop holds no message.
NoMessage == [sub |-> Garbled, n |-> 0]

\* The skeleton {"good_tags":[],...} for every device.
EmptyPoint == [d \in Device |-> 0]

TypeOK ==
  /\ next \in [Sources -> Nat]
  /\ bus \in Seq(Message)
  /\ taken \in Message \cup {NoMessage}
  /\ slot \in [Device -> Nat]
  /\ tpc \in {"idle", "get", "clear", "push", "live"}
  /\ ti \in 1 .. NumDevices + 1
  /\ tpc \in {"get", "clear"} => ti \in Device
  /\ dp \in [Device -> Nat]
  /\ log \in Seq([Device -> Nat])
  /\ live \in Nat
  /\ registered \in BOOLEAN
  /\ newest \in [Device -> Nat]
  /\ crashes \in Nat

Init ==
  /\ next = [s \in Sources |-> 0]
  /\ bus = <<>>
  /\ taken = NoMessage
  /\ slot = EmptyPoint
  /\ tpc = "idle"
  /\ ti = 1
  /\ dp = EmptyPoint
  /\ log = <<>>
  /\ live = 0
  /\ registered \in BOOLEAN
  /\ newest = EmptyPoint
  /\ crashes = 0

-----------------------------------------------------------------------------
(***************************************************************************)
(* One turn of an M2M process's loop: read, build the message, LPush.      *)
(***************************************************************************)
StartCollecting(s) ==
  /\ next[s] < MaxReadings
  /\ next' = [next EXCEPT ![s] = @ + 1]
  /\ bus' = Append(bus, [sub |-> s, n |-> next[s] + 1])
  /\ UNCHANGED <<taken, slot, timerVars, outVars, registered, newest, crashes>>

(***************************************************************************)
(* The Redis listener of the event loop pops the oldest message and hands  *)
(* it to the callback; only a callback that fails puts it back, which      *)
(* ProcessCollectData never does.                                          *)
(***************************************************************************)
ListenerRPop ==
  /\ taken = NoMessage
  /\ bus # <<>>
  /\ taken' = Head(bus)
  /\ bus' = Tail(bus)
  /\ UNCHANGED <<next, slot, timerVars, outVars, registered, newest, crashes>>

\* CollectorConfig_T::FindBySubId finds a device with this sub id.
FindBySubId(sub) == sub \in Device

\* What a process death leaves behind: Redis is another process, so only the
\* popped message and the data point under construction go; the Manager
\* starts the Bridge again, which reads the registration from Redis.
BridgeRestart ==
  /\ crashes < MaxCrashes
  /\ crashes' = crashes + 1
  /\ taken' = NoMessage
  /\ tpc' = "idle"
  /\ ti' = 1
  /\ dp' = EmptyPoint
  /\ registered' \in BOOLEAN
  /\ UNCHANGED <<next, bus, slot, outVars, newest>>

\* ProcessCollectData of a message that parses and names a configured device.
CollectKnown ==
  /\ taken # NoMessage
  /\ taken.sub # Garbled
  /\ FindBySubId(taken.sub)
  /\ slot' = [slot EXCEPT ![taken.sub] = taken.n]
  /\ newest' = [newest EXCEPT ![taken.sub] = taken.n]
  /\ taken' = NoMessage
  /\ UNCHANGED <<busVars, timerVars, outVars, registered, crashes>>

\* Mutation of CollectIgnored: the callback returns false, and the listener
\* puts the message back.
CollectRefused ==
  /\ taken # NoMessage
  /\ taken.sub = Garbled \/ ~FindBySubId(taken.sub)
  /\ taken' = NoMessage
  /\ bus' = <<taken>> \o bus
  /\ UNCHANGED <<next, slot, timerVars, outVars, registered, newest, crashes>>

\* ProcessCollectData of a message that does not parse, or of a device that
\* is not configured when the build keeps the test of the null reference.
CollectIgnored ==
  /\ taken # NoMessage
  /\ taken.sub = Garbled \/ ~FindBySubId(taken.sub)
  /\ taken' = NoMessage
  /\ UNCHANGED <<busVars, slot, timerVars, outVars, registered, newest, crashes>>

\* The other outcome of binding a reference to a null pointer: the build
\* drops the test and the process dies in reading d.DeviceType.
CollectNullReference ==
  /\ taken # NoMessage
  /\ taken.sub # Garbled
  /\ ~FindBySubId(taken.sub)
  /\ BridgeRestart

ProcessCollectData == CollectKnown \/ CollectIgnored \/ CollectNullReference

-----------------------------------------------------------------------------
(***************************************************************************)
(* DataPointProcessor, run by the timer thread every DataReportInterval.   *)
(***************************************************************************)

\* Where the loop over the devices goes after the device it is at.
LoopOn(d) ==
  /\ ti' = d + 1
  /\ tpc' = IF d < NumDevices THEN "get" ELSE "push"

TimerTick ==
  /\ tpc = "idle"
  /\ Len(log) < MaxPoints
  /\ dp' = EmptyPoint
  /\ ti' = 1
  /\ tpc' = IF NumDevices > 0 THEN "get" ELSE "push"
  /\ UNCHANGED <<busVars, taken, slot, outVars, registered, newest, crashes>>

\* Mutation of GetSlot: a value that was read is not cleared.
GetSlotOnly ==
  /\ tpc = "get"
  /\ dp' = [dp EXCEPT ![ti] = slot[ti]]
  /\ LoopOn(ti)
  /\ UNCHANGED <<busVars, taken, slot, outVars, registered, newest, crashes>>

\* Get of collector_<type>: an empty value is the skeleton.
GetSlot ==
  /\ tpc = "get"
  /\ dp' = [dp EXCEPT ![ti] = slot[ti]]
  /\ IF slot[ti] = 0
       THEN LoopOn(ti)
       ELSE tpc' = "clear" /\ ti' = ti
  /\ UNCHANGED <<busVars, taken, slot, outVars, registered, newest, crashes>>

\* Mutation of ClearSlot: the Set of the empty string is missing.
ClearNothing ==
  /\ tpc = "clear"
  /\ LoopOn(ti)
  /\ UNCHANGED <<busVars, taken, slot, dp, outVars, registered, newest, crashes>>

\* Set of collector_<type> to the empty string, whatever it holds by now.
ClearSlot ==
  /\ tpc = "clear"
  /\ slot' = [slot EXCEPT ![ti] = 0]
  /\ LoopOn(ti)
  /\ UNCHANGED <<busVars, taken, dp, outVars, registered, newest, crashes>>

\* Mutation of DropPoint: without the early return the data point is not
\* pushed and is still shown as live_data.
DropAndShow ==
  /\ tpc = "push"
  /\ ~registered
  /\ live' = Len(log) + 1
  /\ tpc' = "idle"
  /\ ti' = 1
  /\ dp' = EmptyPoint
  /\ UNCHANGED <<busVars, taken, slot, log, registered, newest, crashes>>

\* Without a device id the data point, whose slots are cleared, is dropped.
DropPoint ==
  /\ tpc = "push"
  /\ ~registered
  /\ tpc' = "idle"
  /\ ti' = 1
  /\ dp' = EmptyPoint
  /\ UNCHANGED <<busVars, taken, slot, outVars, registered, newest, crashes>>

PushPoint ==
  /\ tpc = "push"
  /\ registered
  /\ log' = Append(log, dp)
  /\ tpc' = "live"
  /\ ti' = 1
  /\ dp' = EmptyPoint
  /\ UNCHANGED <<busVars, taken, slot, live, registered, newest, crashes>>

SetLive ==
  /\ tpc = "live"
  /\ live' = Len(log)
  /\ tpc' = "idle"
  /\ UNCHANGED <<busVars, taken, slot, ti, dp, log, registered, newest, crashes>>

DataPointProcessor ==
  TimerTick \/ GetSlot \/ ClearSlot \/ DropPoint \/ PushPoint \/ SetLive

Next ==
  \/ \E s \in Sources : StartCollecting(s)
  \/ ListenerRPop
  \/ ProcessCollectData
  \/ DataPointProcessor
  \/ BridgeRestart

Spec == Init /\ [][Next]_vars

(***************************************************************************)
(* The event loop and the timer thread keep running as long as the process *)
(* does, and the Manager starts it again.  Nothing obliges a sensor.       *)
(***************************************************************************)
Fairness ==
  /\ WF_vars(ListenerRPop)
  /\ WF_vars(ProcessCollectData)
  /\ WF_vars(DataPointProcessor)

FairSpec == Spec /\ Fairness

-----------------------------------------------------------------------------
(***************************************************************************)
(* A reading is reported at most once, and the readings of a device are    *)
(* reported in the order the sensor took them: in the data points pushed   *)
(* on M2C_DATA_MQTT the readings that are there go up strictly, whatever   *)
(* the interleaving of ProcessCollectData with DataPointProcessor and      *)
(* wherever the process dies.  (Bridge.cpp:52-64 clears the slot it read,  *)
(* and the listener never delivers a popped message again.)                *)
(***************************************************************************)
ReadingsReportedInOrder ==
  \A d \in Device : \A i, j \in DOMAIN log :
    i < j /\ log[i][d] # 0 /\ log[j][d] # 0 => log[i][d] < log[j][d]

\* v is older than w, where 0 stands for no reading.
Older(v, w) == v # 0 /\ w # 0 => v < w

(***************************************************************************)
(* The readings of a device move down one pipeline and never overtake one  *)
(* another: what was reported is older than what the timer holds in its    *)
(* data point, that is older than the slot (or is the slot's value, read   *)
(* and not yet cleared), the slot is older than the message in the event   *)
(* loop's hands, and that is older than everything on the bus.             *)
(***************************************************************************)
ReportedIsOlder(d) == \A i \in DOMAIN log :
  /\ Older(log[i][d], dp[d])
  /\ Older(log[i][d], slot[d])
  /\ taken.sub = d => Older(log[i][d], taken.n)
  /\ \A k \in DOMAIN bus : bus[k].sub = d => Older(log[i][d], bus[k].n)
  /\ d \in Sources => log[i][d] <= next[d]
  /\ d \notin Sources => log[i][d] = 0

PointIsOlder(d) ==
  /\ \/ Older(dp[d], slot[d])
     \/ tpc = "clear" /\ ti = d /\ dp[d] <= slot[d]
  /\ taken.sub = d => Older(dp[d], taken.n)
  /\ \A k \in DOMAIN bus : bus[k].sub = d => Older(dp[d], bus[k].n)
  /\ d \in Sources => dp[d] <= next[d]
  /\ d \notin Sources => dp[d] = 0

SlotIsOlder(d) ==
  /\ taken.sub = d => Older(slot[d], taken.n)
  /\ \A k \in DOMAIN bus : bus[k].sub = d => Older(slot[d], bus[k].n)
  /\ d \in Sources => slot[d] <= next[d]
  /\ d \notin Sources => slot[d] = 0

BusIsOrdered ==
  /\ taken # NoMessage => taken.n <= next[taken.sub]
  /\ \A k \in DOMAIN bus :
       /\ bus[k].n <= next[bus[k].sub]
       /\ taken # NoMessage /\ bus[k].sub = taken.sub => taken.n < bus[k].n
       /\ \A m \in DOMAIN bus :
            k < m /\ bus[k].sub = bus[m].sub => bus[k].n < bus[m].n

\* No reading overtakes another on the way from the sensor to M2C_DATA_MQTT
\* (SensorDevice.cpp:185, Bridge.cpp:52-76, 144).
PipelineOrder ==
  /\ \A d \in Device : ReportedIsOlder(d) /\ PointIsOlder(d) /\ SlotIsOlder(d)
  /\ BusIsOrdered

(***************************************************************************)
(* live_data never shows a data point that was not pushed for the cloud,   *)
(* and never goes back to an older one (Bridge.cpp:75-79).                 *)
(***************************************************************************)
LiveNeverGoesBack == [][live' >= live /\ live' <= Len(log)]_live

(***************************************************************************)
(* Every message put on local_data_bus is handled: the newest reading a    *)
(* source took is one day no longer on the bus nor in the event loop's     *)
(* hands, though messages the Bridge cannot use come before it             *)
(* (Bridge.cpp:93, 96, 104, "Pop message from queue").                     *)
(***************************************************************************)
BusIsDrained == (bus # <<>>) ~> (bus = <<>> /\ taken = NoMessage)

(***************************************************************************)
(* A stored reading does not stay in collector_<type>: the timer takes it  *)
(* into a data point, or a newer reading replaces it (Bridge.cpp:51-60).   *)
(* Bounded here by the data points the timer may still build.              *)
(***************************************************************************)
SlotIsSwept ==
  \A d \in Device :
    (slot[d] # 0) ~> (slot[d] = 0 \/ (tpc = "idle" /\ Len(log) = MaxPoints))

(***************************************************************************)
(* What the comment "not set yet" (Bridge.cpp:54) says: a device whose     *)
(* slot is empty when the timer comes to it has no reading that is still   *)
(* to be reported.  Without crashes, in a registered gateway.              *)
(***************************************************************************)
EmptySlotMeansNotSet ==
  tpc = "get" /\ slot[ti] = 0 /\ crashes = 0 /\ registered =>
    newest[ti] = 0 \/ \E i \in DOMAIN log : log[i][ti] = newest[ti]
=============================================================================
