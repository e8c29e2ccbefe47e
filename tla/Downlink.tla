------------------------------ MODULE Downlink ------------------------------
(***************************************************************************)
(* The downlink: a request that the cloud publishes is taken by the        *)
(* consume thread of M2C_MQTT, acknowledged, sent over the local IPC to    *)
(* the Manager, executed there, and answered over the IPC and the event    *)
(* loop of M2C_MQTT.  The request that matters most switches a relay: the  *)
(* Manager writes the pin, saves the state in Redis and respawns the       *)
(* sensor process, which reads the states when it starts and reports them  *)
(* with every reading.                                                     *)
(*                                                                         *)
(* A delivery of a request is the number of its arrival, so two deliveries *)
(* of the same request are told apart.                                     *)
(***************************************************************************)
EXTENDS Integers, Sequences, FiniteSets, FiniteSetsExt

CONSTANTS
  NumRelays,    \* length of DFRelayState().DFRelay, numbered by Index
  Installed,    \* the states of DEFAULT_RELAY that may be installed
  Commands,     \* the requests the cloud may send
  MaxRequests,  \* bound: deliveries
  MaxFaults     \* bound: deaths of processes, lost links, lost publishes

Relay == 1 .. NumRelays

\* A key that a JSON object does not have.
Missing == -99

(***************************************************************************)
(* A request, as far as the code tells requests apart: the keys of its     *)
(* JSON object (none if it does not parse), whether its cum_loa_id is that *)
(* of this gateway, its command and the objects of its array "data".  A    *)
(* "broken" request makes the Manager's handler throw: a field of the      *)
(* wrong type, or get_alarm_config when COLLECTOR_CONFIG is not set.  An   *)
(* "empty" one has the empty string for its command, which splits into no  *)
(* words at all.                                                           *)
(***************************************************************************)
Kind == {"reboot", "restart", "version", "set", "broken", "unknown", "empty"}

Command == [keys : SUBSET STRING, here : BOOLEAN, kind : Kind,
            data : Seq([state : Int, index : Int])]

ASSUME ConstantsAssumption ==
  /\ NumRelays \in Nat
  /\ Installed \subseteq [Relay -> {0, 1}]
  /\ Commands \subseteq Command
  /\ MaxRequests \in Nat
  /\ MaxFaults \in Nat

VARIABLES
  delivered,  \* Seq(Commands): every delivery, in order
  inbox,      \* deliveries the consume thread has not taken yet
  cpc, creq,  \* the consume thread: where it is and with which delivery
  ipcUp,      \* IPC messages from M2C_MQTT to the Manager
  mpc, mreq,  \* the Manager's event loop: where it is, with which delivery
  mok,        \* the result of the request it handles
  mem,        \* DFRelayState() in the Manager's memory
  gpio,       \* the pins
  saved,      \* DEFAULT_RELAY in Redis
  ipcDown,    \* IPC messages from the Manager to M2C_MQTT
  m2c,        \* M2C_MQTT runs and is connected with the Manager
  online,     \* M2C_MQTT is connected with the broker and subscribed
  ending,     \* the system command that is under way, if any
  ready,      \* MQTTConfig::MQTT().IsReady()
  mqtt,       \* ManagerConfig::RegInfo().Protocol is MQTT
  sensor,     \* the sensor process: "starting" or "running"
  seen,       \* the relay states the sensor process read at its start
  cloud,      \* what the cloud got, in order
  done,       \* history: deliveries whose relay has the state asked for, saved
  lost,       \* history: deliveries a death or a failed publish cut off
  faults      \* faults so far

vars == <<delivered, inbox, cpc, creq, ipcUp, mpc, mreq, mok, mem, gpio, saved,
          ipcDown, m2c, online, ending, ready, mqtt, sensor, seen, cloud, done,
          lost, faults>>

consumeVars == <<inbox, cpc, creq>>
managerVars == <<mpc, mreq, mok>>
relayVars == <<mem, gpio, saved>>
sensorVars == <<sensor, seen>>
procVars == <<m2c, online, ending, ready, mqtt>>

States == [Relay -> {0, 1}]
Report == [n : Nat, what : {"san_sang", "error", "result"}, ok : BOOLEAN]

TypeOK ==
  /\ delivered \in Seq(Commands)
  /\ inbox \in Seq(Nat)
  /\ cpc \in {"idle", "error", "ack", "confirm", "exec", "ipc"}
  /\ creq \in Nat
  /\ ipcUp \in Seq(Nat)
  /\ mpc \in {"down", "idle", "handle", "save", "respawn", "respond"}
  /\ mreq \in Nat
  /\ mok \in BOOLEAN
  /\ mem \in States /\ gpio \in States /\ saved \in States
  /\ ipcDown \in Seq([n : Nat, ok : BOOLEAN])
  /\ m2c \in BOOLEAN
  /\ online \in BOOLEAN
  /\ ending \in {"no", "restart", "reboot"}
  /\ ready \in BOOLEAN
  /\ mqtt \in BOOLEAN
  /\ sensor \in {"starting", "running"}
  /\ seen \in States
  /\ cloud \in Seq(Report)
  /\ done \subseteq Nat
  /\ lost \subseteq Nat
  /\ faults \in Nat

\* The gateway boots: Redis has the states of the relays, the pins are low.
Init ==
  /\ delivered = <<>>
  /\ inbox = <<>>
  /\ cpc = "idle" /\ creq = 0
  /\ ipcUp = <<>>
  /\ mpc = "down" /\ mreq = 0 /\ mok = FALSE
  /\ saved \in Installed
  /\ mem = saved
  /\ gpio = [r \in Relay |-> 0]
  /\ ipcDown = <<>>
  /\ m2c = FALSE /\ online = FALSE /\ ending = "no"
  /\ ready \in BOOLEAN
  /\ mqtt \in BOOLEAN
  /\ sensor = "starting"
  /\ seen = saved
  /\ cloud = <<>>
  /\ done = {}
  /\ lost = {}
  /\ faults = 0

-----------------------------------------------------------------------------
(***************************************************************************)
(* The connection of M2C_MQTT with the cloud.                              *)
(***************************************************************************)

\* The broker passes a request on; with a clean session it keeps none for a
\* client that is away.
Deliver(c) ==
  /\ online
  /\ Len(delivered) < MaxRequests
  /\ delivered' = Append(delivered, c)
  /\ inbox' = Append(inbox, Len(delivered) + 1)
  /\ UNCHANGED <<cpc, creq, ipcUp, managerVars, relayVars, ipcDown, procVars,
                 sensorVars, cloud, done, lost, faults>>

Connect ==
  /\ ~online
  /\ m2c
  /\ online' = TRUE
  /\ UNCHANGED <<delivered, consumeVars, ipcUp, managerVars, relayVars, ipcDown,
                 m2c, ending, ready, mqtt, sensorVars, cloud, done, lost, faults>>

\* A report that never arrives; an answer is then lost for good.
PublishFails(report) ==
  /\ lost' = IF report.what = "san_sang" THEN lost ELSE lost \cup {report.n}
  /\ UNCHANGED cloud

\* Publish of a report, whose result no caller looks at: it arrives, or it
\* does not, because the client is offline or the publish fails.
Publish(report) ==
  \/ /\ online
     /\ cloud' = Append(cloud, report)
     /\ UNCHANGED <<lost, faults>>
  \/ /\ ~online
     /\ PublishFails(report)
     /\ UNCHANGED faults
  \/ /\ online
     /\ faults < MaxFaults
     /\ faults' = faults + 1
     /\ PublishFails(report)

\* ProcessDev2Cloud_CTRL, the callback that ProcessDownlinkConsume reports with.
PublishCtrl(report) ==
  \/ ready /\ Publish(report)
  \/ ~ready /\ PublishFails(report) /\ UNCHANGED faults

\* The link to the broker goes; what the client consumed stays with it.
LinkLost ==
  /\ online
  /\ faults < MaxFaults
  /\ faults' = faults + 1
  /\ online' = FALSE
  /\ UNCHANGED <<delivered, consumeVars, ipcUp, managerVars, relayVars, ipcDown,
                 m2c, ending, ready, mqtt, sensorVars, cloud, done, lost>>

-----------------------------------------------------------------------------
(***************************************************************************)
(* ProcessDownlinkConsume, on the consume thread of M2C_MQTT.              *)
(***************************************************************************)

\* getValue throws when one of the two obligatory keys is not there.
Reads(c) == {"ban_tin_id", "che_do_phat"} \subseteq c.keys

\* The request names this gateway.
Mine(c) == "cum_loa_id" \in c.keys /\ c.here

\* The next request is for this gateway and has no command in it.
NextIsEmpty ==
  LET c == delivered[Head(inbox)] IN Reads(c) /\ Mine(c) /\ c.kind = "empty"

\* consume_message returns a request: where its handling begins.
ConsumeMessage ==
  /\ cpc = "idle"
  /\ inbox # <<>>
  /\ ~NextIsEmpty
  /\ creq' = Head(inbox)
  /\ inbox' = Tail(inbox)
  /\ LET c == delivered[Head(inbox)] IN
       cpc' = CASE ~Reads(c) -> "error"
                [] Reads(c) /\ ~Mine(c) -> "idle"
                [] Reads(c) /\ Mine(c) -> "ack"
  /\ UNCHANGED <<delivered, ipcUp, managerVars, relayVars, ipcDown, procVars,
                 sensorVars, cloud, done, lost, faults>>

\* The exception handler reports trang_thai error.
SendError ==
  /\ cpc = "error"
  /\ PublishCtrl([n |-> creq, what |-> "error", ok |-> FALSE])
  /\ cpc' = "idle"
  /\ UNCHANGED <<delivered, inbox, creq, ipcUp, managerVars, relayVars, ipcDown,
                 procVars, sensorVars, done>>

\* The request is acknowledged (trang_thai san_sang) before anything is done.
SendReady ==
  /\ cpc = "ack"
  /\ PublishCtrl([n |-> creq, what |-> "san_sang", ok |-> TRUE])
  /\ cpc' = IF delivered[creq].kind \in {"reboot", "restart"}
              THEN "confirm" ELSE "ipc"
  /\ UNCHANGED <<delivered, inbox, creq, ipcUp, managerVars, relayVars, ipcDown,
                 procVars, sensorVars, done>>

\* Mutation of SendConfirm: without the return the request also goes to the
\* Manager, which answers it too.
ConfirmAndSend ==
  /\ cpc = "confirm"
  /\ PublishCtrl([n |-> creq, what |-> "result", ok |-> TRUE])
  /\ cpc' = "ipc"
  /\ UNCHANGED <<delivered, inbox, creq, ipcUp, managerVars, relayVars, ipcDown,
                 procVars, sensorVars, done>>

\* Reboot and restart are reported successful before they are executed.
SendConfirm ==
  /\ cpc = "confirm"
  /\ PublishCtrl([n |-> creq, what |-> "result", ok |-> TRUE])
  /\ cpc' = "exec"
  /\ UNCHANGED <<delivered, inbox, creq, ipcUp, managerVars, relayVars, ipcDown,
                 procVars, sensorVars, done>>

\* IPCSEND(MGRDownlinkItf::CloudReq, msg).
SendCloudReq ==
  /\ cpc = "ipc"
  /\ ipcUp' = Append(ipcUp, creq)
  /\ cpc' = "idle"
  /\ UNCHANGED <<delivered, inbox, creq, managerVars, relayVars, ipcDown, procVars,
                 sensorVars, cloud, done, lost, faults>>

\* ComReboot and ComRestart start the system's command and return.
ExecCommand ==
  /\ cpc = "exec"
  /\ ending' = delivered[creq].kind
  /\ cpc' = "idle"
  /\ UNCHANGED <<delivered, inbox, creq, ipcUp, managerVars, relayVars, ipcDown,
                 m2c, online, ready, mqtt, sensorVars, cloud, done, lost, faults>>

-----------------------------------------------------------------------------
(***************************************************************************)
(* The handler of the Manager.                                             *)
(***************************************************************************)

\* The value a key has after the loop over the objects of "data": that of
\* the last object that has the key, else the initial -1.
LastOf(data, key) ==
  LET has == {j \in DOMAIN data : data[j][key] # Missing}
  IN  IF has = {} THEN -1 ELSE data[Max(has)][key]

\* CloudSetAirCState refuses an object without keys, a state that is neither
\* on nor off, and an index that is not 1 or 2.
Refused(data) ==
  \/ \E j \in DOMAIN data : data[j] = [state |-> Missing, index |-> Missing]
  \/ LastOf(data, "state") \notin {0, 1}
  \/ LastOf(data, "index") \notin {1, 2}

\* The relays whose Index is the one asked for and whose state is another.
ToSwitch(data) ==
  {r \in Relay : r = LastOf(data, "index") /\ mem[r] # LastOf(data, "state")}

\* The result of a request that is handled without switching a relay.
PlainResult(c) ==
  \/ c.kind = "version"
  \/ c.kind = "set" /\ ~Refused(c.data)

\* The states in Redis give the relay of request c the state it asks for.
SavedAsAsked(c, states) ==
  /\ c.kind = "set"
  /\ \E r \in Relay : /\ r = LastOf(c.data, "index")
                      /\ states[r] = LastOf(c.data, "state")

ReceiveCloudReq ==
  /\ mpc = "idle"
  /\ ipcUp # <<>>
  /\ mreq' = Head(ipcUp)
  /\ ipcUp' = Tail(ipcUp)
  /\ mpc' = "handle"
  /\ UNCHANGED <<delivered, consumeVars, mok, relayVars, ipcDown, procVars,
                 sensorVars, cloud, done, lost, faults>>

\* The handler throws: "TODO: Send response here".
HandleThrows ==
  /\ mpc = "handle"
  /\ delivered[mreq].kind = "broken"
  /\ mpc' = "idle"
  /\ UNCHANGED <<delivered, consumeVars, ipcUp, mreq, mok, relayVars, ipcDown,
                 procVars, sensorVars, cloud, done, lost, faults>>

\* Mutation of HandlePlain: an unknown command gets no response.
HandlePlainQuietly ==
  /\ mpc = "handle"
  /\ LET c == delivered[mreq] IN
       /\ c.kind # "broken"
       /\ c.kind = "set" /\ ~Refused(c.data) => ToSwitch(c.data) = {}
       /\ mok' = PlainResult(c)
       /\ done' = IF SavedAsAsked(c, saved) THEN done \cup {mreq} ELSE done
       /\ mpc' = IF c.kind = "unknown" THEN "idle" ELSE "respond"
  /\ UNCHANGED <<delivered, consumeVars, ipcUp, mreq, relayVars, ipcDown,
                 procVars, sensorVars, cloud, lost, faults>>

\* get_version, an unknown command, a refused set and a set of the state
\* that the relay has already.
HandlePlain ==
  /\ mpc = "handle"
  /\ LET c == delivered[mreq] IN
       /\ c.kind # "broken"
       /\ c.kind = "set" /\ ~Refused(c.data) => ToSwitch(c.data) = {}
       /\ mok' = PlainResult(c)
       /\ done' = IF SavedAsAsked(c, saved) THEN done \cup {mreq} ELSE done
  /\ mpc' = "respond"
  /\ UNCHANGED <<delivered, consumeVars, ipcUp, mreq, relayVars, ipcDown, procVars,
                 sensorVars, cloud, lost, faults>>

\* A relay is switched: what is written, and where the handler goes next.
Switches(key, then) ==
  /\ mpc = "handle"
  /\ LET c == delivered[mreq] IN
       /\ c.kind = "set"
       /\ ~Refused(c.data)
       /\ \E r \in ToSwitch(c.data) :
            /\ mem' = [mem EXCEPT ![r] = LastOf(c.data, key)]
            /\ gpio' = [gpio EXCEPT ![r] = LastOf(c.data, key)]
  /\ mok' = TRUE
  /\ mpc' = then
  /\ UNCHANGED <<delivered, consumeVars, ipcUp, mreq, saved, ipcDown, procVars,
                 sensorVars, cloud, done, lost, faults>>

\* Mutation of SwitchRelay: Save and Respawn are missing.
SwitchUnsaved == Switches("state", "respond")

\* r.State = state; digitalWrite(r.Gpio, state).
SwitchRelay == Switches("state", "save")

\* Mutation of SaveRelays: the sensor process is not respawned.
SaveOnly ==
  /\ mpc = "save"
  /\ saved' = mem
  /\ done' = IF SavedAsAsked(delivered[mreq], mem) THEN done \cup {mreq}
                                                   ELSE done
  /\ mpc' = "respond"
  /\ UNCHANGED <<delivered, consumeVars, ipcUp, mreq, mok, mem, gpio, ipcDown,
                 procVars, sensorVars, cloud, lost, faults>>

\* DFRelayState().Save().
SaveRelays ==
  /\ mpc = "save"
  /\ saved' = mem
  /\ done' = IF SavedAsAsked(delivered[mreq], mem) THEN done \cup {mreq}
                                                   ELSE done
  /\ mpc' = "respawn"
  /\ UNCHANGED <<delivered, consumeVars, ipcUp, mreq, mok, mem, gpio, ipcDown,
                 procVars, sensorVars, cloud, lost, faults>>

\* ComProcess::Respawn(NodeKeys::Sensor, true).
RespawnSensor ==
  /\ mpc = "respawn"
  /\ sensor' = "starting"
  /\ mpc' = "respond"
  /\ UNCHANGED <<delivered, consumeVars, ipcUp, mreq, mok, relayVars, ipcDown,
                 procVars, seen, cloud, done, lost, faults>>

\* ManagerIPCSend of the response, to nobody if M2C_MQTT is away, and not at all
\* if the gateway is registered with another protocol: that is only logged.
SendCloudResp ==
  /\ mpc = "respond"
  /\ \/ mqtt /\ m2c
        /\ ipcDown' = Append(ipcDown, [n |-> mreq, ok |-> mok]) /\ lost' = lost
     \/ mqtt /\ ~m2c
        /\ ipcDown' = ipcDown /\ lost' = lost \cup {mreq}
     \/ ~mqtt
        /\ ipcDown' = ipcDown /\ lost' = lost
  /\ mpc' = "idle"
  /\ UNCHANGED <<delivered, consumeVars, ipcUp, mreq, mok, relayVars, procVars,
                 sensorVars, cloud, done, faults>>

\* M2C_MQTT::ProcessIPC publishes the response.
ProcessIPC ==
  /\ ipcDown # <<>>
  /\ LET resp == Head(ipcDown) IN
       Publish([n |-> resp.n, what |-> "result", ok |-> resp.ok])
  /\ ipcDown' = Tail(ipcDown)
  /\ UNCHANGED <<delivered, consumeVars, ipcUp, managerVars, relayVars, procVars,
                 sensorVars, done>>

-----------------------------------------------------------------------------
(***************************************************************************)
(* Processes end and start.                                                *)
(***************************************************************************)

\* The deliveries that a death of M2C_MQTT cuts off.
HeldByM2C ==
  {inbox[i] : i \in DOMAIN inbox} \cup {ipcDown[i].n : i \in DOMAIN ipcDown}
    \cup (IF cpc = "idle" THEN {} ELSE {creq})

\* The deliveries that a death of the Manager cuts off.
HeldByManager ==
  {ipcUp[i] : i \in DOMAIN ipcUp} \cup (IF mpc = "idle" THEN {} ELSE {mreq})

M2CEnds ==
  /\ lost' = lost \cup HeldByM2C
  /\ inbox' = <<>> /\ cpc' = "idle" /\ creq' = 0
  /\ ipcDown' = <<>>
  /\ m2c' = FALSE /\ online' = FALSE
  /\ UNCHANGED <<delivered, ipcUp, managerVars, relayVars, ending, ready,
                 mqtt, sensorVars, cloud, done>>

\* M2C_MQTT dies, or calls exit(1) after 300 seconds without a connection.
M2CDies ==
  /\ m2c
  /\ faults < MaxFaults
  /\ faults' = faults + 1
  /\ M2CEnds

\* cmds[0] of a request without a command: the first of no words is read.
ConsumeEmpty ==
  /\ cpc = "idle"
  /\ inbox # <<>>
  /\ NextIsEmpty
  /\ M2CEnds
  /\ UNCHANGED faults

\* The Manager spawns M2C_MQTT, at first and after a death.
M2CStarts ==
  /\ ~m2c
  /\ mpc # "down"
  /\ m2c' = TRUE
  /\ UNCHANGED <<delivered, consumeVars, ipcUp, managerVars, relayVars, ipcDown,
                 online, ending, ready, mqtt, sensorVars, cloud, done, lost, faults>>

\* The Manager ends, and with it, by the rules of its service, every process.
ServiceEnds ==
  /\ lost' = lost \cup HeldByM2C \cup HeldByManager
  /\ inbox' = <<>> /\ cpc' = "idle" /\ creq' = 0
  /\ ipcUp' = <<>> /\ ipcDown' = <<>>
  /\ mpc' = "down" /\ mreq' = 0 /\ mok' = FALSE
  /\ m2c' = FALSE /\ online' = FALSE /\ ending' = "no"
  /\ sensor' = "starting"
  /\ UNCHANGED <<delivered, mem, saved, ready, mqtt, seen, cloud, done>>

ManagerDies ==
  /\ mpc # "down"
  /\ faults < MaxFaults
  /\ faults' = faults + 1
  /\ ServiceEnds
  /\ UNCHANGED gpio

\* The system command takes effect; a reboot resets the pins.
SystemEnds ==
  /\ ending # "no"
  /\ ServiceEnds
  /\ gpio' = IF ending = "reboot" THEN [r \in Relay |-> 0] ELSE gpio
  /\ UNCHANGED faults

\* Mutation of ManagerInitialize: the pins are left as they are.
InitializeNoWrite ==
  /\ mpc = "down"
  /\ mem' = saved
  /\ mpc' = "idle"
  /\ UNCHANGED <<delivered, consumeVars, ipcUp, mreq, mok, gpio, saved, ipcDown,
                 procVars, sensorVars, cloud, done, lost, faults>>

\* Manager::Initialize: the states are read from Redis and written to the
\* pins, and the children are spawned.
ManagerInitialize ==
  /\ mpc = "down"
  /\ mem' = saved
  /\ gpio' = saved
  /\ mpc' = "idle"
  /\ UNCHANGED <<delivered, consumeVars, ipcUp, mreq, mok, saved, ipcDown,
                 procVars, sensorVars, cloud, done, lost, faults>>

\* The sensor process starts and reads its configuration.
SensorInitialize ==
  /\ sensor = "starting"
  /\ mpc # "down"
  /\ seen' = saved
  /\ sensor' = "running"
  /\ UNCHANGED <<delivered, consumeVars, ipcUp, managerVars, relayVars, ipcDown,
                 procVars, cloud, done, lost, faults>>

ProcessDownlinkConsume ==
  \/ ConsumeMessage \/ SendError \/ SendReady \/ SendConfirm \/ SendCloudReq
  \/ ExecCommand \/ ConsumeEmpty

ProcessMGRDownlinkMsg ==
  \/ ReceiveCloudReq \/ HandleThrows \/ HandlePlain \/ SwitchRelay \/ SaveRelays
  \/ RespawnSensor \/ SendCloudResp

Next ==
  \/ \E c \in Commands : Deliver(c)
  \/ Connect
  \/ LinkLost
  \/ ProcessDownlinkConsume
  \/ ProcessMGRDownlinkMsg
  \/ ProcessIPC
  \/ M2CDies
  \/ ManagerDies
  \/ SystemEnds
  \/ M2CStarts
  \/ ManagerInitialize
  \/ SensorInitialize

Spec == Init /\ [][Next]_vars

(***************************************************************************)
(* The threads that handle requests go on, processes are started again and *)
(* the client reconnects.                                                  *)
(***************************************************************************)
Fairness ==
  /\ WF_vars(ProcessDownlinkConsume)
  /\ WF_vars(ProcessMGRDownlinkMsg)
  /\ WF_vars(ProcessIPC)
  /\ WF_vars(ManagerInitialize)
  /\ WF_vars(SensorInitialize)
  /\ WF_vars(SystemEnds)
  /\ WF_vars(M2CStarts)
  /\ WF_vars(Connect)

FairSpec == Spec /\ Fairness

-----------------------------------------------------------------------------
(***************************************************************************)
(* Between two requests the Manager, the pins and Redis agree on every     *)
(* relay, wherever the Manager died before (Manager.cpp:59-62,             *)
(* ManagerDownlinkHandler.cpp:238-240).                                    *)
(***************************************************************************)
RelaysAgree == mpc = "idle" => mem = saved /\ gpio = saved

(***************************************************************************)
(* Between two requests a sensor process that runs reports the states the  *)
(* relays have: it read them after the last Save                           *)
(* (ManagerDownlinkHandler.cpp:240-241, SensorDevice.cpp:169-177).         *)
(***************************************************************************)
SensorSeesRelays == mpc = "idle" /\ sensor = "running" => seen = saved

(***************************************************************************)
(* A set request that is reported successful, for a relay that exists, had *)
(* its state saved in Redis before the report left the Manager, whatever   *)
(* died since (ManagerDownlinkHandler.cpp:231-244, 95-110).                *)
(***************************************************************************)
SuccessIsSaved ==
  \A i \in DOMAIN cloud :
    LET c == delivered[cloud[i].n] IN
      /\ cloud[i].what = "result" /\ cloud[i].ok
      /\ c.kind = "set" /\ LastOf(c.data, "index") \in Relay
      => cloud[i].n \in done

(***************************************************************************)
(* The cloud hears of a request in order: at most one acknowledgement,     *)
(* then at most one result, never a result and an error                    *)
(* (M2CMQTTDownlink.cpp:49-93, M2CMQTT.cpp:160-169).                       *)
(***************************************************************************)
ReportsInOrder ==
  \A i, j \in DOMAIN cloud :
    i < j /\ cloud[i].n = cloud[j].n =>
      cloud[i].what = "san_sang" /\ cloud[j].what = "result"

\* Delivery n is answered: by a result, or by the report of an error.
Answered(n) == \E i \in DOMAIN cloud :
  cloud[i].n = n /\ cloud[i].what \in {"result", "error"}

(***************************************************************************)
(* Every request is answered, unless a process died with it in hand or the *)
(* publish of the answer failed, or it is for another gateway, or the      *)
(* handler threw, or the Manager executed it for a gateway that is not     *)
(* registered with MQTT (M2CMQTTDownlink.cpp:31-37, 78-93;                 *)
(* ManagerDownlinkHandler.cpp:109-138).  The requests that M2C_MQTT        *)
(* answers itself, reboot, restart and the ones it cannot read, are        *)
(* answered with any protocol.                                             *)
(***************************************************************************)
EventuallyAnswered ==
  \A n \in 1 .. MaxRequests :
    (n \in DOMAIN delivered) ~>
      /\ n \in DOMAIN delivered
      /\ \/ Answered(n)
         \/ n \in lost
         \/ Reads(delivered[n]) /\ ~Mine(delivered[n])
         \/ /\ Reads(delivered[n])
            /\ \/ delivered[n].kind = "broken"
               \/ ~mqtt /\ delivered[n].kind \notin {"reboot", "restart"}
=============================================================================
