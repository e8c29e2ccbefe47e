--------------------------- MODULE GatewayConfig ---------------------------
(***************************************************************************)
(* The configuration of the gateway.  Each section is a JSON object under  *)
(* a key of Redis.  A process loads the sections of its list Entries when  *)
(* it starts; only the Manager writes: it gives the gateway its identity,  *)
(* it rewrites its own section when all children are spawned, and it saves *)
(* the relays when one is switched.  The children are starting meanwhile,  *)
(* and any process may die between two steps.                              *)
(*                                                                         *)
(* A JSON object is a function from its keys to values; a JSON null is     *)
(* Null, and so is a section that Redis does not have.                     *)
(***************************************************************************)
EXTENDS Integers, Sequences, FiniteSets, SequencesExt

CONSTANTS
  Null,        \* JSON null, and the value of a missing key of Redis
  Installed,   \* what the installation may have written to Redis
  Identities,  \* the ids that the network interfaces may yield
  Garbage      \* characters that an uninitialized variable may hold

Section == {"Manager", "Collector", "RegInfo", "MQTT", "SensorGroup",
            "DFRelayState"}

Child == {"BRIDGE", "MQTT", "SENSOR"}
Proc == Child \cup {"MANAGER"}

\* COMCFG::Entries of each process, without the sections that nothing reads
\* (LOGS, NTP, NETWORK).
Entries == [MANAGER |-> <<"Manager", "Collector", "RegInfo", "MQTT",
                          "DFRelayState">>,
            BRIDGE  |-> <<"RegInfo", "Manager", "Collector">>,
            MQTT    |-> <<"Manager", "MQTT", "RegInfo">>,
            SENSOR  |-> <<"Manager", "SensorGroup", "Collector",
                          "DFRelayState", "RegInfo">>]

VARIABLES
  installed,  \* history: the sections as they were installed
  redis,      \* the sections in Redis
  pc,         \* the Manager: where it is
  spawned,    \* how many children it has spawned
  jconf,      \* JConf of the Manager's sections
  queueId,    \* COM_Queue::RegInfo.DevID in the Manager
  mem         \* for each process that runs, the sections it has loaded

vars == <<installed, redis, pc, spawned, jconf, queueId, mem>>

-----------------------------------------------------------------------------
(***************************************************************************)
(* Loading.  JGET leaves a variable alone if the key is missing or null.   *)
(* The loops over "Children", "devices", "Sensors" and "Relays" read into  *)
(* one variable declared before the loop, so a field that an element does  *)
(* not give keeps the value of the element before it.                      *)
(***************************************************************************)
Gives(jc, k) == k \in DOMAIN jc /\ jc[k] # Null

JGET(v, jc, k) == IF Gives(jc, k) THEN jc[k] ELSE v

\* An array that is missing is taken to be empty, as is a value that is none.
JGET_ARR(jc, k) == IF k \in DOMAIN jc THEN jc[k] ELSE <<>>

Array(jc, k) == IF JGET_ARR(jc, k) = Null THEN <<>> ELSE JGET_ARR(jc, k)

LoadObject(v, jc) == [k \in DOMAIN v |-> JGET(v[k], jc, k)]

LoadArray(v, arr) ==
  LET elem[i \in 0 .. Len(arr)] ==
        IF i = 0 THEN v ELSE LoadObject(elem[i - 1], arr[i])
  IN  [i \in DOMAIN arr |-> elem[i]]

\* ComUtil::StrRemove(str, ' '), for a string as a sequence of characters.  It
\* compares with its local variable c, which is never set, and not with its
\* parameter ch: what c holds is a choice of the caller.
StrRemove(str, c) == SelectSeq(str, LAMBDA x : x # c)

EmptyStr == ""

\* The fields of the sections with what Clear() sets them to, or with their
\* initializers where Clear() leaves them alone.  The fields that start
\* uninitialized have the value 0; the installed sections give them.
ManagerClear == [Host |-> "127.0.0.1", Port |-> 6789, SoftVer |-> "this",
                 WatchdogInterval |-> 60, SysReportInterval |-> 60]
ProcessConfig == [Protocol |-> EmptyStr, Command |-> EmptyStr, IsRespawn |-> 0,
                  MaxSpawnTimes |-> 0, Priority |-> 100, RespawnDelay |-> 30]
CollectorClear == [data_report_interval |-> 60]
DeviceConfig == [device_type |-> EmptyStr, sub_id |-> EmptyStr, protocol |-> EmptyStr,
                 interval |-> 10]
RegInfoClear == [name |-> EmptyStr, Model |-> EmptyStr, RestAPI |-> <<>>, RestAPIVer |-> "v2",
                 ProductID |-> "this", DevID |-> EmptyStr, Protocol |-> "MQTT",
                 RegisterState |-> "None", IsLocked |-> FALSE]
MqttClear == [host |-> <<>>, port |-> 0, topic_data |-> "data_channel",
              topic_qos |-> 1, topic_ctrl |-> "message_delivery",
              topic_ctrl_qos |-> 1, sub_qos |-> 1, queue |-> "device_log",
              queue_ctrl |-> "receive_cmd", state |-> 0]
SensorAlarmConfig == [description |-> EmptyStr, tag |-> EmptyStr, state |-> 0, high |-> 0,
                      low |-> 0, alarm_level |-> EmptyStr, mac_addr |-> EmptyStr]
RelayState == [description |-> EmptyStr, tag |-> EmptyStr, state |-> 0, gpio |-> 0,
               index |-> 0]

Elements(v, jc, k) == LoadArray(v, Array(jc, k))

ManagerLoad(jc) == [fields |-> LoadObject(ManagerClear, jc),
                    list |-> Elements(ProcessConfig, jc, "Children")]

\* A device whose "alarms" is no array is skipped, after its fields were read;
\* an alarm that is no object is skipped.
Kept(arr) == {i \in DOMAIN arr : JGET_ARR(arr[i], "alarms") # Null}

Rank(kept, i) == Cardinality({j \in kept : j <= i})

Alarms(jc) == SelectSeq(JGET_ARR(jc, "alarms"), LAMBDA a : a # Null)

CollectorLoad(jc) ==
  LET arr    == Array(jc, "devices")
      devs   == LoadArray(DeviceConfig, arr)
      Nth(n) == CHOOSE i \in Kept(arr) : Rank(Kept(arr), i) = n
  IN  [fields |-> LoadObject(CollectorClear, jc),
       list |-> [n \in 1 .. Cardinality(Kept(arr)) |->
                   [dev |-> devs[Nth(n)], alarms |-> Alarms(arr[Nth(n)])]]]

RegInfoLoad(jc, c) ==
  [fields |-> [LoadObject(RegInfoClear, jc) EXCEPT !.RestAPI = StrRemove(@, c)],
   list |-> <<>>]

MqttLoad(jc, c) ==
  [fields |-> [LoadObject(MqttClear, jc) EXCEPT !.host = StrRemove(@, c)],
   list |-> <<>>]

SensorGroupLoad(jc) == [fields |-> <<>>,
                        list |-> Elements(SensorAlarmConfig, jc, "Sensors")]

DFRelayStateLoad(jc) == [fields |-> <<>>,
                         list |-> Elements(RelayState, jc, "Relays")]

\* Load() of section s; only the Collector may be missing, and its object is
\* then as it was constructed, which is what an empty section yields.
Load(s, jc, c) ==
  CASE s = "Manager"      -> ManagerLoad(jc)
    [] s = "Collector"    -> CollectorLoad(IF jc = Null THEN <<>> ELSE jc)
    [] s = "RegInfo"      -> RegInfoLoad(jc, c)
    [] s = "MQTT"         -> MqttLoad(jc, c)
    [] s = "SensorGroup"  -> SensorGroupLoad(jc)
    [] s = "DFRelayState" -> DFRelayStateLoad(jc)

(***************************************************************************)
(* Saving.  JSave() sets the fields in JConf, which keeps the keys that    *)
(* are not fields, and replaces the elements of the array, if it is one.   *)
(***************************************************************************)
Override(new, jc) ==
  [k \in DOMAIN new \cup DOMAIN jc |-> IF k \in DOMAIN new THEN new[k] ELSE jc[k]]

SetArray(jc, k, list) ==
  Override([x \in {k} |-> IF JGET_ARR(jc, k) = Null THEN Null ELSE list], jc)

\* Mutation of ManagerJSave: the loop forgets RespawnDelay.
ManagerJSaveShort(v, jc) ==
  LET Short(c) == [k \in DOMAIN c \ {"RespawnDelay"} |-> c[k]]
  IN  SetArray(Override(v.fields, jc), "Children",
               [i \in DOMAIN v.list |-> Short(v.list[i])])

ManagerJSave(v, jc) == SetArray(Override(v.fields, jc), "Children", v.list)

\* Mutation of RegInfoJSave: a new object, not JConf, is filled.
RegInfoJSaveAnew(v, jc) == v.fields

RegInfoJSave(v, jc) == Override(v.fields, jc)

\* Mutation of DFRelayStateJSave: the loop forgets gpio.
DFRelayStateJSaveShort(v, jc) ==
  LET Short(r) == [k \in DOMAIN r \ {"gpio"} |-> r[k]]
  IN  SetArray(jc, "Relays", [i \in DOMAIN v.list |-> Short(v.list[i])])

DFRelayStateJSave(v, jc) == SetArray(jc, "Relays", v.list)

JSave(s, v, jc) ==
  CASE s = "Manager"      -> ManagerJSave(v, jc)
    [] s = "RegInfo"      -> RegInfoJSave(v, jc)
    [] s = "DFRelayState" -> DFRelayStateJSave(v, jc)

\* Save(): JSave(), and the text of JConf goes to Redis.
Save(s) ==
  /\ jconf' = [jconf EXCEPT ![s] = JSave(s, mem["MANAGER"][s], @)]
  /\ redis' = [redis EXCEPT ![s] = jconf'[s]]

-----------------------------------------------------------------------------
(***************************************************************************)
(* What the installation leaves in Redis: every section but perhaps the    *)
(* Collector, arrays where the loops look for them, children that are      *)
(* programs of the gateway, and relays that are off or on.                 *)
(***************************************************************************)
IsArray(a) == a \in Seq({a[i] : i \in DOMAIN a})

\* The relays of database db, each off or on.
RelayLists(db) ==
  LET list == Elements(RelayState, db["DFRelayState"], "Relays")
  IN  {[i \in DOMAIN list |-> [list[i] EXCEPT !.state = on[i]]] :
         on \in [DOMAIN list -> {0, 1}]}

NoNull(v) == \A k \in DOMAIN v : v[k] # Null

ASSUME NullAssumption ==
  /\ NoNull(ManagerClear) /\ NoNull(ProcessConfig) /\ NoNull(CollectorClear)
  /\ NoNull(DeviceConfig) /\ NoNull(RegInfoClear) /\ NoNull(MqttClear)
  /\ NoNull(SensorAlarmConfig) /\ NoNull(RelayState)
  /\ Null \notin Identities /\ EmptyStr \notin Identities
  /\ Null # 1

ASSUME ConfigAssumption ==
  \A db \in Installed :
    /\ DOMAIN db = Section
    /\ \A s \in Section \ {"Collector"} : db[s] # Null
    /\ IsArray(Array(db["Manager"], "Children"))
    /\ IsArray(Array(db["DFRelayState"], "Relays"))
    /\ db["Collector"] # Null => IsArray(Array(db["Collector"], "devices"))
    /\ LET list == Elements(ProcessConfig, db["Manager"], "Children")
       IN  list # Null /\ \A i \in DOMAIN list : list[i].Protocol \in Child
    /\ Elements(RelayState, db["DFRelayState"], "Relays") \in RelayLists(db)
    /\ Null \notin RelayLists(db)

\* The first element of an array gives the fields that the code leaves
\* uninitialized, so that no process runs with what such a field happens to
\* hold; the elements after it may leave them out.
FirstGives(arr, keys) ==
  IsArray(arr) /\ (arr # <<>> => \A k \in keys : Gives(arr[1], k))

ASSUME ElementsAssumption ==
  \A db \in Installed :
    /\ FirstGives(Array(db["Manager"], "Children"), {"IsRespawn", "MaxSpawnTimes"})
    /\ FirstGives(Array(db["SensorGroup"], "Sensors"), {"state", "high", "low"})
    /\ FirstGives(Array(db["DFRelayState"], "Relays"), {"state", "gpio", "index"})

DevID(m) == m["RegInfo"].fields.DevID

\* Mutation of NeedsIdentity: an identity is made at every start.
NeedsAlways(m) == TRUE

NeedsIdentity(m) == DevID(m) = EmptyStr

\* The processes that run with what they have loaded so far.
Loads(p, s, c) ==
  [mem EXCEPT ![p] = Override([x \in {s} |-> Load(s, redis[s], c)], @)]

Starts(m, p) == Override([x \in {p} |-> <<>>], m)

Init ==
  /\ installed \in Installed
  /\ redis = installed
  /\ pc = "down"
  /\ spawned = 0
  /\ jconf = <<>>
  /\ queueId = EmptyStr
  /\ mem = <<>>

(***************************************************************************)
(* The start of the Manager.  COM_Queue::RegInfo is a static object: it is *)
(* loaded before main().  Nothing else runs while the Manager loads.       *)
(***************************************************************************)
ManagerStart ==
  /\ pc = "down"
  /\ jconf' = [s \in Range(Entries["MANAGER"]) |-> redis[s]]
  /\ \E c \in [{"RegInfo", "MQTT"} -> Garbage] :
       LET C(s) == IF s \in DOMAIN c THEN c[s] ELSE c["MQTT"]
       IN  mem' = [p \in {"MANAGER"} |->
                     [s \in Range(Entries["MANAGER"]) |->
                        Load(s, redis[s], C(s))]]
  /\ queueId' = DevID(mem'["MANAGER"])
  /\ pc' = IF NeedsIdentity(mem'["MANAGER"]) THEN "identify" ELSE "spawn"
  /\ spawned' = 0
  /\ UNCHANGED <<installed, redis>>

\* RegInfo().DevID = tmp, from the address of a network interface.
Identify ==
  /\ pc = "identify"
  /\ \E id \in Identities :
       mem' = [mem EXCEPT !["MANAGER"]["RegInfo"].fields.DevID = id]
  /\ pc' = "save_id"
  /\ UNCHANGED <<installed, redis, spawned, jconf, queueId>>

\* Mutation of SaveIdentity: the static copy is forgotten.
SaveOnlyIdentity ==
  /\ pc = "save_id"
  /\ Save("RegInfo")
  /\ pc' = "spawn"
  /\ UNCHANGED <<installed, spawned, queueId, mem>>

SaveIdentity ==
  /\ pc = "save_id"
  /\ Save("RegInfo")
  /\ queueId' = DevID(mem["MANAGER"])
  /\ pc' = "spawn"
  /\ UNCHANGED <<installed, spawned, mem>>

\* ComProcess::Spawn for each element of Children, in their order.
SpawnChild ==
  /\ pc = "spawn"
  /\ spawned < Len(mem["MANAGER"]["Manager"].list)
  /\ spawned' = spawned + 1
  /\ mem' = Starts(mem, mem["MANAGER"]["Manager"].list[spawned'].Protocol)
  /\ UNCHANGED <<installed, redis, pc, jconf, queueId>>

SaveManager ==
  /\ pc = "spawn"
  /\ spawned = Len(mem["MANAGER"]["Manager"].list)
  /\ Save("Manager")
  /\ pc' = "run"
  /\ UNCHANGED <<installed, spawned, queueId, mem>>

\* Mutation of SwitchRelay: a state that is not one of a relay.
SwitchWrong ==
  /\ pc = "run"
  /\ \E i \in DOMAIN mem["MANAGER"]["DFRelayState"].list :
       mem' = [mem EXCEPT !["MANAGER"]["DFRelayState"].list[i].state = @ - 1]
  /\ pc' = "save_relay"
  /\ UNCHANGED <<installed, redis, spawned, jconf, queueId>>

\* CloudSetAirCState: the state in memory, then Save(), then Respawn().
SwitchRelay ==
  /\ pc = "run"
  /\ \E i \in DOMAIN mem["MANAGER"]["DFRelayState"].list :
       mem' = [mem EXCEPT !["MANAGER"]["DFRelayState"].list[i].state = 1 - @]
  /\ pc' = "save_relay"
  /\ UNCHANGED <<installed, redis, spawned, jconf, queueId>>

SaveRelay ==
  /\ pc = "save_relay"
  /\ Save("DFRelayState")
  /\ pc' = "respawn"
  /\ UNCHANGED <<installed, spawned, queueId, mem>>

\* Mutation of RespawnSensor: the sensor process goes on.
RespawnNothing ==
  /\ pc = "respawn"
  /\ pc' = "run"
  /\ UNCHANGED <<installed, redis, spawned, jconf, queueId, mem>>

RespawnSensor ==
  /\ pc = "respawn"
  /\ mem' = IF "SENSOR" \in DOMAIN mem THEN Starts(mem, "SENSOR") ELSE mem
  /\ pc' = "run"
  /\ UNCHANGED <<installed, redis, spawned, jconf, queueId>>

\* A child constructs the sections of its Entries, one after the other.
ChildLoads(p) ==
  /\ p \in DOMAIN mem
  /\ \E n \in DOMAIN Entries[p] :
       /\ DOMAIN mem[p] = {Entries[p][i] : i \in 1 .. n - 1}
       /\ \E c \in Garbage : mem' = Loads(p, Entries[p][n], c)
  /\ UNCHANGED <<installed, redis, pc, spawned, jconf, queueId>>

\* A child dies and is spawned again.
ChildDies(p) ==
  /\ p \in DOMAIN mem
  /\ mem' = Starts(mem, p)
  /\ UNCHANGED <<installed, redis, pc, spawned, jconf, queueId>>

\* The death of the Manager ends all processes of the service.
ManagerDies ==
  /\ pc # "down"
  /\ pc' = "down"
  /\ spawned' = 0
  /\ jconf' = <<>>
  /\ queueId' = EmptyStr
  /\ mem' = <<>>
  /\ UNCHANGED <<installed, redis>>

ManagerInitialize == ManagerStart \/ Identify \/ SaveIdentity \/ SpawnChild
                     \/ SaveManager

CloudSetAirCState == SwitchRelay \/ SaveRelay \/ RespawnSensor

Next ==
  \/ ManagerInitialize
  \/ CloudSetAirCState
  \/ ManagerDies
  \/ \E p \in Child : ChildLoads(p) \/ ChildDies(p)

Spec == Init /\ [][Next]_vars

-----------------------------------------------------------------------------
TypeOK ==
  /\ installed \in Installed
  /\ DOMAIN redis = Section
  /\ pc \in {"down", "identify", "save_id", "spawn", "run", "save_relay",
             "respawn"}
  /\ spawned \in Nat
  /\ DOMAIN jconf = IF pc = "down" THEN {} ELSE Range(Entries["MANAGER"])
  /\ DOMAIN mem \subseteq Proc
  /\ \A p \in DOMAIN mem :
       /\ DOMAIN mem[p] \subseteq Range(Entries[p])
       /\ "DFRelayState" \in DOMAIN mem[p] =>
            mem[p]["DFRelayState"].list \in RelayLists(installed)

\* A section without the two strings that StrRemove may spoil.
Sure(v) ==
  [fields |-> [k \in DOMAIN v.fields \ {"RestAPI", "host"} |-> v.fields[k]],
   list |-> v.list]

(***************************************************************************)
(* The processes that run agree about every section that two of them have, *)
(* whichever of them was started before the Manager rewrote the section    *)
(* and whichever after (Manager.cpp:71-75); about the relays except while  *)
(* a relay is being switched (ManagerDownlinkHandler.cpp:238-241).         *)
(***************************************************************************)
RunningAgree ==
  \A p \in DOMAIN mem : \A s \in DOMAIN mem[p] \cap DOMAIN mem["MANAGER"] :
    \/ s = "DFRelayState" /\ pc \in {"save_relay", "respawn"}
    \/ Sure(mem[p][s]) = Sure(mem["MANAGER"][s])

(***************************************************************************)
(* When children run, all of them and the queue of the Manager have the    *)
(* same identity, it is not empty, and it is the one in Redis, so that a   *)
(* restart keeps it (Manager.cpp:27-51).                                   *)
(***************************************************************************)
OneIdentity ==
  \A p \in DOMAIN mem :
    "RegInfo" \in DOMAIN mem[p] /\ pc \notin {"identify", "save_id"} =>
      /\ DevID(mem[p]) # EmptyStr
      /\ DevID(mem[p]) = queueId
      /\ DevID(mem[p]) = redis["RegInfo"].DevID

(***************************************************************************)
(* An identity in Redis never changes: not with the interfaces the gateway *)
(* has at its next start, and not if the Manager dies while it makes one.  *)
(***************************************************************************)
IdentityIsForever ==
  [][Gives(redis["RegInfo"], "DevID") /\ redis["RegInfo"].DevID # EmptyStr
     => redis'["RegInfo"].DevID = redis["RegInfo"].DevID]_vars

(***************************************************************************)
(* What was saved is what is loaded: if the Manager died now, it would run *)
(* again with the sections it has, unless it is about to save.  This is    *)
(* what makes Load() and JSave() fit together (ComConfig.cpp:31-102,       *)
(* 231-284, 964-1019).                                                     *)
(***************************************************************************)
Unsaved == CASE pc = "save_id"    -> {"RegInfo"}
             [] pc = "save_relay" -> {"DFRelayState"}
             [] OTHER             -> {}

ReloadIsStable ==
  pc # "down" =>
    \A s \in Range(Entries["MANAGER"]) \ Unsaved :
      \A c \in Garbage : Sure(Load(s, redis[s], c)) = Sure(mem["MANAGER"][s])

(***************************************************************************)
(* What the installation gives is what every process runs with, however    *)
(* often the Manager has rewritten the sections since and whoever died     *)
(* between loading and saving them: each child, sensor, relay and device   *)
(* with "alarms" is there, at its place, with every value of its element.  *)
(* Only the state of a relay is the gateway's to change                    *)
(* (ComConfig.cpp:52-102, 131-164, 915-926, 964-1019).                     *)
(***************************************************************************)
Follows(v, elem, given) ==
  \A k \in DOMAIN v : Gives(given, k) => elem[k] = given[k]

AllFollow(v, list, arr) ==
  /\ Len(list) = Len(arr)
  /\ \A i \in DOMAIN arr : Follows(v, list[i], arr[i])

Unswitched(v) == [k \in DOMAIN v \ {"state"} |-> v[k]]

RunsWhatIsGiven ==
  \A p \in DOMAIN mem :
    /\ "Manager" \in DOMAIN mem[p] =>
         AllFollow(ProcessConfig, mem[p]["Manager"].list,
                   Array(installed["Manager"], "Children"))
    /\ "SensorGroup" \in DOMAIN mem[p] =>
         AllFollow(SensorAlarmConfig, mem[p]["SensorGroup"].list,
                   Array(installed["SensorGroup"], "Sensors"))
    /\ "DFRelayState" \in DOMAIN mem[p] =>
         AllFollow(Unswitched(RelayState), mem[p]["DFRelayState"].list,
                   Array(installed["DFRelayState"], "Relays"))
    /\ "Collector" \in DOMAIN mem[p] /\ installed["Collector"] # Null =>
         LET arr  == Array(installed["Collector"], "devices")
             list == mem[p]["Collector"].list
         IN  /\ Len(list) = Cardinality(Kept(arr))
             /\ \A i \in Kept(arr) :
                  Follows(DeviceConfig, list[Rank(Kept(arr), i)].dev, arr[i])

(***************************************************************************)
(* ComConfig.h:43 gives a child a default, "uint RespawnDelay = 30; // 30  *)
(* seconds", for an element that does not say how long to wait.            *)
(***************************************************************************)
UnsaidIsDefault ==
  \A p \in DOMAIN mem : "Manager" \in DOMAIN mem[p] =>
    LET arr == Array(installed["Manager"], "Children")
    IN  \A i \in DOMAIN arr : ~Gives(arr[i], "RespawnDelay") =>
          mem[p]["Manager"].list[i].RespawnDelay = 30

(***************************************************************************)
(* A key of an installed section that is no field, such as "config", by    *)
(* which it5-cfg finds the section, and "interval" of the relays, survives *)
(* every save with its value.                                              *)
(***************************************************************************)
ForeignKeysSurvive ==
  \A s \in Section : installed[s] # Null =>
    /\ DOMAIN installed[s] \subseteq DOMAIN redis[s]
    /\ \A k \in DOMAIN installed[s] \cap {"config", "interval"} :
         redis[s][k] = installed[s][k]

(***************************************************************************)
(* ComConfig.cpp:320 takes the blanks out of the host of the broker, and   *)
(* nothing else: Host = ComUtil::StrRemove(Host, ' ').                     *)
(***************************************************************************)
HostHasNoBlanks ==
  \A p \in DOMAIN mem : "MQTT" \in DOMAIN mem[p] =>
    mem[p]["MQTT"].fields.host = SelectSeq(installed["MQTT"].host,
                                           LAMBDA x : x # " ")
=============================================================================
