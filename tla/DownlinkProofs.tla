--------------------------- MODULE DownlinkProofs ---------------------------
(***************************************************************************)
(* Relays, sensor and reports agree in Downlink, for every number of       *)
(* relays, requests and faults.                                            *)
(***************************************************************************)
EXTENDS Downlink, TLAPS

-----------------------------------------------------------------------------
(***************************************************************************)
(* The relays.  A state lives in the Manager's memory, at the pin, in      *)
(* Redis and in the sensor process; this is how far the four may be apart  *)
(* at each step of the Manager.                                            *)
(***************************************************************************)
Relays ==
  /\ mpc \in {"idle", "handle", "respawn", "respond"}
       => mem = saved /\ gpio = saved
  /\ mpc = "save" => gpio = mem
  /\ mpc \in {"idle", "handle", "save", "respond"} /\ sensor = "running"
       => seen = saved
  /\ mpc = "down" => sensor = "starting"

\* The steps of M2C_MQTT and of the network.
Outside ==
  \/ \E c \in Commands : Deliver(c)
  \/ Connect \/ LinkLost \/ ProcessDownlinkConsume \/ ProcessIPC
  \/ M2CDies \/ M2CStarts

\* They touch neither the relays nor the Manager nor the sensor process.
LEMMA OutsideFrame ==
  ASSUME Outside
  PROVE  UNCHANGED <<mpc, mreq, mok, mem, gpio, saved, sensor, seen, done>>
<1>1. CASE \E c \in Commands : Deliver(c)
  BY <1>1 DEF Deliver, managerVars, relayVars, sensorVars
<1>2. CASE Connect \/ LinkLost \/ M2CStarts
  BY <1>2 DEF Connect, LinkLost, M2CStarts, managerVars, relayVars, sensorVars
<1>3. CASE ConsumeMessage \/ SendCloudReq \/ ExecCommand
  BY <1>3 DEF ConsumeMessage, SendCloudReq, ExecCommand, managerVars,
              relayVars, sensorVars
<1>4. CASE SendError \/ SendReady \/ SendConfirm
  BY <1>4 DEF SendError, SendReady, SendConfirm, managerVars, relayVars,
              sensorVars
<1>5. CASE ConsumeEmpty \/ M2CDies
  BY <1>5 DEF ConsumeEmpty, M2CDies, M2CEnds, managerVars, relayVars,
              sensorVars
<1>6. CASE ProcessIPC
  BY <1>6 DEF ProcessIPC, managerVars, relayVars, sensorVars
<1> QED
  BY <1>1, <1>2, <1>3, <1>4, <1>5, <1>6 DEF Outside, ProcessDownlinkConsume

\* Every step keeps the relays together.
LEMMA RelaysStep ==
  ASSUME Relays, [Next]_vars
  PROVE  Relays'
<1>1. CASE Outside
  BY <1>1, OutsideFrame DEF Relays
<1>2. CASE ReceiveCloudReq
  BY <1>2 DEF ReceiveCloudReq, Relays, relayVars, sensorVars
<1>3. CASE HandleThrows
  BY <1>3 DEF HandleThrows, Relays, relayVars, sensorVars
<1>4. CASE HandlePlain
  BY <1>4 DEF HandlePlain, Relays, relayVars, sensorVars
<1>5. CASE SwitchRelay
  BY <1>5 DEF SwitchRelay, Switches, Relays, sensorVars
<1>6. CASE SaveRelays
  BY <1>6 DEF SaveRelays, Relays, sensorVars
<1>7. CASE RespawnSensor
  BY <1>7 DEF RespawnSensor, Relays, relayVars
<1>8. CASE SendCloudResp
  BY <1>8 DEF SendCloudResp, Relays, relayVars, sensorVars
<1>9. CASE ManagerDies \/ SystemEnds
  BY <1>9 DEF ManagerDies, SystemEnds, ServiceEnds, Relays
<1>10. CASE ManagerInitialize
  BY <1>10 DEF ManagerInitialize, Relays, sensorVars
<1>11. CASE SensorInitialize
  BY <1>11 DEF SensorInitialize, Relays, managerVars, relayVars
<1>12. CASE UNCHANGED vars
  BY <1>12 DEF vars, Relays
<1> QED
  BY <1>1, <1>2, <1>3, <1>4, <1>5, <1>6, <1>7, <1>8, <1>9, <1>10, <1>11, <1>12
     DEF Next, Outside, ProcessMGRDownlinkMsg

\* The relays are together at all times.
LEMMA RelaysInvariance == Spec => []Relays
<1>1. Init => Relays
  BY DEF Init, Relays
<1> QED
  BY <1>1, RelaysStep, PTL DEF Spec

(***************************************************************************)
(* Between two requests the Manager's memory, the pins and Redis agree,    *)
(* wherever a death fell into a switch before (Manager.cpp:59-62,          *)
(* ManagerDownlinkHandler.cpp:238-240).                                    *)
(***************************************************************************)
THEOREM RelaysTogether == Spec => []RelaysAgree
<1>1. Relays => RelaysAgree
  BY DEF Relays, RelaysAgree
<1> QED
  BY RelaysInvariance, <1>1, PTL

(***************************************************************************)
(* And a sensor process that runs between two requests has read the states *)
(* that are saved (ManagerDownlinkHandler.cpp:240-241).                    *)
(***************************************************************************)
THEOREM SensorUpToDate == Spec => []SensorSeesRelays
<1>1. Relays => SensorSeesRelays
  BY DEF Relays, SensorSeesRelays
<1> QED
  BY RelaysInvariance, <1>1, PTL
-----------------------------------------------------------------------------
(***************************************************************************)
(* The requests.  Queues are seen through the set of what is in them.      *)
(***************************************************************************)
Values(q) == {q[i] : i \in DOMAIN q}

\* Appending adds the new element, and only that.
LEMMA Appended ==
  ASSUME NEW S, NEW q \in Seq(S), NEW x \in S
  PROVE  /\ Append(q, x) \in Seq(S)
         /\ Values(Append(q, x)) = Values(q) \cup {x}
<1> DEFINE p == Append(q, x)
<1>1. p \in Seq(S) /\ DOMAIN p = 1 .. Len(q) + 1 /\ DOMAIN q = 1 .. Len(q)
      /\ Len(q) \in Nat
  OBVIOUS
<1>2. \A i \in 1 .. Len(q) : p[i] = q[i]
  OBVIOUS
<1>3. p[Len(q) + 1] = x
  OBVIOUS
<1> HIDE DEF p
<1>4. \A i \in 1 .. Len(q) + 1 : i \in 1 .. Len(q) \/ i = Len(q) + 1
  BY <1>1
<1>5. Values(p) \subseteq Values(q) \cup {x}
  BY <1>1, <1>2, <1>3, <1>4 DEF Values
<1>6. x \in Values(p)
  <2>1. Len(q) + 1 \in DOMAIN p
    BY <1>1
  <2> QED
    BY <2>1, <1>3 DEF Values
<1>7. Values(q) \subseteq Values(p)
  <2>1. \A i \in DOMAIN q : i \in DOMAIN p
    BY <1>1
  <2> QED
    BY <2>1, <1>1, <1>2 DEF Values
<1> QED
  BY <1>1, <1>5, <1>6, <1>7 DEF p

\* Taking the first element adds nothing.
LEMMA Taken ==
  ASSUME NEW S, NEW q \in Seq(S), q # <<>>
  PROVE  /\ Head(q) \in S
         /\ Head(q) \in Values(q)
         /\ Tail(q) \in Seq(S)
         /\ Values(Tail(q)) \subseteq Values(q)
<1>1. Head(q) = q[1] /\ 1 \in DOMAIN q /\ Head(q) \in S /\ Tail(q) \in Seq(S)
  OBVIOUS
<1>2. \A i \in DOMAIN Tail(q) : i + 1 \in DOMAIN q /\ Tail(q)[i] = q[i + 1]
  OBVIOUS
<1> QED
  BY <1>1, <1>2 DEF Values

\* Nothing is in the empty sequence.
LEMMA Emptied == ASSUME NEW S PROVE <<>> \in Seq(S) /\ Values(<<>>) = {}
  BY DEF Values

(***************************************************************************)
(* A delivery that asks for a state of a relay that exists is settled when *)
(* that state is saved.                                                    *)
(***************************************************************************)
Settled(n) ==
  delivered[n].kind = "set" /\ LastOf(delivered[n].data, "index") \in Relay
    => n \in done

\* Whatever a queue, a thread or a report is about was delivered.
Numbers ==
  /\ Values(inbox) \subseteq DOMAIN delivered
  /\ cpc # "idle" => creq \in DOMAIN delivered
  /\ Values(ipcUp) \subseteq DOMAIN delivered
  /\ mpc \notin {"down", "idle"} => mreq \in DOMAIN delivered
  /\ \A d \in Values(ipcDown) : d.n \in DOMAIN delivered
  /\ \A r \in Values(cloud) : r.n \in DOMAIN delivered

\* How far the Manager is with a delivery, and what success stands for.
Progress ==
  /\ cpc \in {"confirm", "exec"}
       => delivered[creq].kind \in {"reboot", "restart"}
  /\ mpc = "save" => SavedAsAsked(delivered[mreq], mem)
  /\ mpc = "respawn" => Settled(mreq)
  /\ mpc = "respond" /\ mok => Settled(mreq)
  /\ \A d \in Values(ipcDown) : d.ok => Settled(d.n)
  /\ \A r \in Values(cloud) : r.what = "result" /\ r.ok => Settled(r.n)

IInv == TypeOK /\ Relays /\ Numbers /\ Progress

\* A new delivery leaves the earlier ones as they are.
LEMMA DeliverKeeps ==
  ASSUME NEW c \in Commands, delivered \in Seq(Commands), Deliver(c)
  PROVE  /\ delivered' \in Seq(Commands)
         /\ DOMAIN delivered' = DOMAIN delivered \cup {Len(delivered) + 1}
         /\ Len(delivered) + 1 \in Nat
         /\ \A n \in DOMAIN delivered : delivered'[n] = delivered[n]
<1>1. delivered' = Append(delivered, c)
  BY DEF Deliver
<1>2. Append(delivered, c) \in Seq(Commands)
  OBVIOUS
<1>3. /\ DOMAIN Append(delivered, c) = 1 .. Len(delivered) + 1
      /\ DOMAIN delivered = 1 .. Len(delivered)
      /\ Len(delivered) \in Nat
  OBVIOUS
<1>4. 1 .. Len(delivered) + 1 = (1 .. Len(delivered)) \cup {Len(delivered) + 1}
  BY <1>3
<1>5. \A n \in 1 .. Len(delivered) : Append(delivered, c)[n] = delivered[n]
  OBVIOUS
<1>6. Len(delivered) + 1 \in Nat
  BY <1>3
<1> QED
  BY <1>1, <1>2, <1>3, <1>4, <1>5, <1>6

LEMMA DeliverStep ==
  ASSUME IInv, NEW c \in Commands, Deliver(c)
  PROVE  TypeOK' /\ Numbers' /\ Progress'
<1> DEFINE new == Len(delivered) + 1
<1>1. /\ delivered' \in Seq(Commands)
      /\ DOMAIN delivered' = DOMAIN delivered \cup {new}
      /\ new \in Nat
      /\ \A n \in DOMAIN delivered : delivered'[n] = delivered[n]
  BY DeliverKeeps DEF IInv, TypeOK
<1>2. inbox' \in Seq(Nat) /\ Values(inbox') = Values(inbox) \cup {new}
  <2>1. inbox' = Append(inbox, new) /\ inbox \in Seq(Nat)
    BY DEF IInv, TypeOK, Deliver
  <2> HIDE DEF new
  <2> QED
    BY <1>1, <2>1, Appended
<1>3. UNCHANGED <<cpc, creq, ipcUp, managerVars, relayVars, ipcDown, procVars,
                  sensorVars, cloud, done, lost, faults>>
  BY DEF Deliver
<1> HIDE DEF new
<1>4. TypeOK'
  BY <1>1, <1>2, <1>3 DEF IInv, TypeOK, managerVars, relayVars, procVars,
                          sensorVars
<1>5. Numbers'
  BY <1>1, <1>2, <1>3 DEF IInv, Numbers, Values, managerVars
<1>6. \A n \in DOMAIN delivered : Settled(n) => Settled(n)'
  BY <1>1, <1>3 DEF Settled
<1>7. mpc = "save"
        => SavedAsAsked(delivered'[mreq], mem)
  BY <1>1 DEF IInv, Numbers, Progress
<1>8. Values(cloud') = Values(cloud) /\ Values(ipcDown') = Values(ipcDown)
  BY <1>3 DEF Values
<1>9. Progress'
  BY <1>1, <1>3, <1>6, <1>7, <1>8
     DEF IInv, Numbers, Progress, managerVars, relayVars
<1> QED
  BY <1>4, <1>5, <1>9
\* A report joins those of the cloud, or does not.
Reported(r) ==
  /\ cloud' = cloud \/ cloud' = Append(cloud, r)
  /\ lost' = lost \/ lost' = lost \cup {r.n}
  /\ faults' = faults \/ faults' = faults + 1

\* That is all a publish does.
LEMMA PublishReports ==
  ASSUME NEW r, Publish(r) \/ PublishCtrl(r)
  PROVE  Reported(r)
  BY DEF Reported, Publish, PublishCtrl, PublishFails

LEMMA ReportedKeeps ==
  ASSUME IInv, NEW r \in Report, Reported(r)
  PROVE  /\ cloud' \in Seq(Report) /\ lost' \subseteq Nat /\ faults' \in Nat
         /\ Values(cloud') \subseteq Values(cloud) \cup {r}
<1>1. cloud \in Seq(Report) /\ lost \subseteq Nat /\ faults \in Nat
  BY DEF IInv, TypeOK
<1>2. Append(cloud, r) \in Seq(Report)
      /\ Values(Append(cloud, r)) = Values(cloud) \cup {r}
  BY <1>1, Appended
<1>3. cloud' \in Seq(Report) /\ Values(cloud') \subseteq Values(cloud) \cup {r}
  BY <1>1, <1>2 DEF Reported
<1>4. r.n \in Nat
  BY DEF Report
<1>5. lost' \subseteq Nat
  BY <1>1, <1>4 DEF Reported
<1>6. faults' \in Nat
  BY <1>1 DEF Reported
<1> QED
  BY <1>3, <1>5, <1>6

\* The connection and the start of a process.
LEMMA LinkStep ==
  ASSUME IInv, Connect \/ LinkLost \/ M2CStarts
  PROVE  TypeOK' /\ Numbers' /\ Progress'
<1>1. UNCHANGED <<delivered, consumeVars, ipcUp, managerVars, relayVars,
                  ipcDown, ending, ready, mqtt, sensorVars, cloud, done,
                  lost>>
  BY DEF Connect, LinkLost, M2CStarts
<1>2. m2c' \in BOOLEAN /\ online' \in BOOLEAN
  BY DEF IInv, TypeOK, Connect, LinkLost, M2CStarts
<1>3. faults' \in Nat
  BY DEF IInv, TypeOK, Connect, LinkLost, M2CStarts
<1>4. TypeOK'
  BY <1>1, <1>2, <1>3
     DEF IInv, TypeOK, consumeVars, managerVars, relayVars, sensorVars
<1>5. Numbers'
  BY <1>1 DEF IInv, Numbers, Values, consumeVars, managerVars
<1>6. Progress'
  BY <1>1 DEF IInv, Progress, Settled, SavedAsAsked, Values, consumeVars,
              managerVars, relayVars
<1> QED
  BY <1>4, <1>5, <1>6

\* The consume thread takes a request.
LEMMA ConsumeStep ==
  ASSUME IInv, ConsumeMessage
  PROVE  TypeOK' /\ Numbers' /\ Progress'
<1>1. inbox \in Seq(Nat) /\ inbox # <<>>
  BY DEF IInv, TypeOK, ConsumeMessage
<1>2. /\ Head(inbox) \in Nat /\ Head(inbox) \in Values(inbox)
      /\ Tail(inbox) \in Seq(Nat)
      /\ Values(Tail(inbox)) \subseteq Values(inbox)
  BY <1>1, Taken
<1>3. /\ inbox' \in Seq(Nat) /\ Values(inbox') \subseteq Values(inbox)
      /\ creq' \in Nat /\ creq' \in Values(inbox)
  BY <1>2 DEF ConsumeMessage
<1>4. cpc' \in {"error", "idle", "ack"}
  BY DEF ConsumeMessage
<1>5. UNCHANGED <<delivered, ipcUp, managerVars, relayVars, ipcDown, procVars,
                  sensorVars, cloud, done, lost, faults>>
  BY DEF ConsumeMessage
<1>6. TypeOK'
  BY <1>3, <1>4, <1>5 DEF IInv, TypeOK, managerVars, relayVars, procVars,
                          sensorVars
<1>7. Numbers'
  BY <1>3, <1>5 DEF IInv, Numbers, Values, managerVars
<1>8. Progress'
  BY <1>4, <1>5 DEF IInv, Progress, Settled, SavedAsAsked, Values,
                    managerVars, relayVars
<1> QED
  BY <1>6, <1>7, <1>8

\* None of the reports of the consume thread is a success of a set request.
LEMMA ReportStep ==
  ASSUME IInv, SendError \/ SendReady \/ SendConfirm
  PROVE  TypeOK' /\ Numbers' /\ Progress'
<1>1. creq \in Nat /\ creq \in DOMAIN delivered
  BY DEF IInv, TypeOK, Numbers, SendError, SendReady, SendConfirm
<1>2. PICK r \in Report :
        /\ Reported(r)
        /\ r.n = creq
        /\ r.what = "result" => delivered[creq].kind \in {"reboot", "restart"}
  <2>1. CASE SendError
    <3> DEFINE r == [n |-> creq, what |-> "error", ok |-> FALSE]
    <3>1. r \in Report /\ r.n = creq /\ r.what # "result"
      BY <1>1 DEF Report
    <3>2. Reported(r)
      BY <2>1, PublishReports DEF SendError
    <3> HIDE DEF r
    <3> QED
      BY <3>1, <3>2
  <2>2. CASE SendReady
    <3> DEFINE r == [n |-> creq, what |-> "san_sang", ok |-> TRUE]
    <3>1. r \in Report /\ r.n = creq /\ r.what # "result"
      BY <1>1 DEF Report
    <3>2. Reported(r)
      BY <2>2, PublishReports DEF SendReady
    <3> HIDE DEF r
    <3> QED
      BY <3>1, <3>2
  <2>3. CASE SendConfirm
    <3> DEFINE r == [n |-> creq, what |-> "result", ok |-> TRUE]
    <3>1. r \in Report /\ r.n = creq
      BY <1>1 DEF Report
    <3>2. Reported(r)
      BY <2>3, PublishReports DEF SendConfirm
    <3>3. delivered[creq].kind \in {"reboot", "restart"}
      BY <2>3 DEF SendConfirm, IInv, Progress
    <3> HIDE DEF r
    <3> QED
      BY <3>1, <3>2, <3>3
  <2> QED
    BY <2>1, <2>2, <2>3
<1>3. /\ cloud' \in Seq(Report) /\ lost' \subseteq Nat /\ faults' \in Nat
      /\ Values(cloud') \subseteq Values(cloud) \cup {r}
  BY <1>2, ReportedKeeps
<1>4. UNCHANGED <<delivered, inbox, creq, ipcUp, managerVars, relayVars,
                  ipcDown, procVars, sensorVars, done>>
  BY DEF SendError, SendReady, SendConfirm
<1>5. /\ cpc' \in {"idle", "confirm", "exec", "ipc"}
      /\ cpc' \in {"confirm", "exec"}
           => delivered[creq].kind \in {"reboot", "restart"}
  BY DEF SendError, SendReady, SendConfirm, IInv, Progress
<1>6. TypeOK'
  BY <1>3, <1>4, <1>5 DEF IInv, TypeOK, managerVars, relayVars, procVars,
                          sensorVars
<1>7. Numbers'
  BY <1>1, <1>2, <1>3, <1>4 DEF IInv, Numbers, Values, managerVars
<1>8. r.what = "result" => Settled(r.n)
  BY <1>2 DEF Settled
<1>9. Progress'
  <2>1. \A n : Settled(n)' = Settled(n)
    BY <1>4 DEF Settled
  <2>2. \A x \in Values(cloud') : x.what = "result" /\ x.ok => Settled(x.n)'
    BY <1>3, <1>8, <2>1 DEF IInv, Progress
  <2> QED
    BY <1>4, <1>5, <2>2 DEF IInv, Progress, Settled, SavedAsAsked, Values,
                            managerVars, relayVars
<1> QED
  BY <1>6, <1>7, <1>9

\* It hands the request to the Manager, or executes it.
LEMMA HandOverStep ==
  ASSUME IInv, SendCloudReq \/ ExecCommand
  PROVE  TypeOK' /\ Numbers' /\ Progress'
<1>1. creq \in Nat /\ creq \in DOMAIN delivered
  BY DEF IInv, TypeOK, Numbers, SendCloudReq, ExecCommand
<1>2. ipcUp' \in Seq(Nat) /\ Values(ipcUp') \subseteq Values(ipcUp) \cup {creq}
  <2>1. ipcUp \in Seq(Nat)
    BY DEF IInv, TypeOK
  <2>2. Append(ipcUp, creq) \in Seq(Nat)
        /\ Values(Append(ipcUp, creq)) = Values(ipcUp) \cup {creq}
    BY <1>1, <2>1, Appended
  <2>3. ipcUp' = ipcUp \/ ipcUp' = Append(ipcUp, creq)
    BY DEF SendCloudReq, ExecCommand
  <2> QED
    BY <2>1, <2>2, <2>3
<1>3. ending' \in {"no", "restart", "reboot"} /\ cpc' = "idle"
  BY DEF IInv, TypeOK, Progress, SendCloudReq, ExecCommand, procVars
<1>4. UNCHANGED <<delivered, inbox, creq, managerVars, relayVars, ipcDown, m2c,
                  online, ready, mqtt, sensorVars, cloud, done, lost,
                  faults>>
  BY DEF SendCloudReq, ExecCommand, procVars
<1>5. TypeOK'
  BY <1>2, <1>3, <1>4 DEF IInv, TypeOK, managerVars, relayVars, sensorVars
<1>6. Numbers'
  BY <1>1, <1>2, <1>3, <1>4 DEF IInv, Numbers, Values, managerVars
<1>7. Progress'
  BY <1>3, <1>4 DEF IInv, Progress, Settled, SavedAsAsked, Values,
                    managerVars, relayVars
<1> QED
  BY <1>5, <1>6, <1>7

\* The Manager takes a request.
LEMMA ReceiveStep ==
  ASSUME IInv, ReceiveCloudReq
  PROVE  TypeOK' /\ Numbers' /\ Progress'
<1>1. ipcUp \in Seq(Nat) /\ ipcUp # <<>>
  BY DEF IInv, TypeOK, ReceiveCloudReq
<1>2. /\ Head(ipcUp) \in Nat /\ Head(ipcUp) \in Values(ipcUp)
      /\ Tail(ipcUp) \in Seq(Nat)
      /\ Values(Tail(ipcUp)) \subseteq Values(ipcUp)
  BY <1>1, Taken
<1>3. /\ ipcUp' \in Seq(Nat) /\ Values(ipcUp') \subseteq Values(ipcUp)
      /\ mreq' \in Nat /\ mreq' \in Values(ipcUp) /\ mpc' = "handle"
  BY <1>2 DEF ReceiveCloudReq
<1>4. UNCHANGED <<delivered, consumeVars, mok, relayVars, ipcDown, procVars,
                  sensorVars, cloud, done, lost, faults>>
  BY DEF ReceiveCloudReq
<1>5. TypeOK'
  BY <1>3, <1>4 DEF IInv, TypeOK, consumeVars, relayVars, procVars, sensorVars
<1>6. Numbers'
  BY <1>3, <1>4 DEF IInv, Numbers, Values, consumeVars
<1>7. Progress'
  BY <1>3, <1>4 DEF IInv, Progress, Settled, Values, consumeVars
<1> QED
  BY <1>5, <1>6, <1>7

\* It handles one without switching a relay: if that is a success, the relay
\* had the state already, and that state is saved.
LEMMA PlainStep ==
  ASSUME IInv, HandleThrows \/ HandlePlain
  PROVE  TypeOK' /\ Numbers' /\ Progress'
<1>1. UNCHANGED <<delivered, consumeVars, ipcUp, mreq, relayVars, ipcDown,
                  procVars, sensorVars, cloud, lost, faults>>
  BY DEF HandleThrows, HandlePlain
<1>2. mpc' \in {"idle", "respond"} /\ mpc = "handle"
  BY DEF HandleThrows, HandlePlain
<1>3. done' = done \/ done' = done \cup {mreq}
  BY DEF HandleThrows, HandlePlain
<1>4. mreq \in Nat /\ mreq \in DOMAIN delivered
  BY <1>2 DEF IInv, TypeOK, Numbers
<1>5. mok' \in BOOLEAN
  BY DEF IInv, TypeOK, HandleThrows, HandlePlain, PlainResult
<1>6. mpc' = "respond" /\ mok' => Settled(mreq)'
  <2> SUFFICES ASSUME HandlePlain, mok',
                      delivered[mreq].kind = "set",
                      LastOf(delivered[mreq].data, "index") \in Relay
               PROVE  mreq \in done'
    BY <1>1, <1>2 DEF HandleThrows, Settled
  <2> DEFINE c == delivered[mreq]
             r == LastOf(c.data, "index")
  <2>1. ~Refused(c.data)
    BY DEF HandlePlain, PlainResult
  <2>2. ToSwitch(c.data) = {}
    BY <2>1 DEF HandlePlain
  <2>3. mem[r] = LastOf(c.data, "state")
    BY <2>2 DEF ToSwitch
  <2>4. saved[r] = LastOf(c.data, "state")
    BY <1>2, <2>3 DEF IInv, Relays
  <2>5. SavedAsAsked(c, saved)
    BY <2>4 DEF SavedAsAsked
  <2> QED
    BY <2>5 DEF HandlePlain
<1>7. TypeOK'
  <2>1. done' \subseteq Nat
    BY <1>3, <1>4 DEF IInv, TypeOK
  <2> QED
    BY <1>1, <1>2, <1>5, <2>1
       DEF IInv, TypeOK, consumeVars, relayVars, procVars, sensorVars
<1>8. Numbers'
  BY <1>1, <1>4 DEF IInv, Numbers, Values, consumeVars
<1>9. \A n : Settled(n) => Settled(n)'
  BY <1>1, <1>3 DEF Settled
<1>10. Progress'
  <2>1. Values(ipcDown') = Values(ipcDown) /\ Values(cloud') = Values(cloud)
    BY <1>1
  <2> QED
    BY <1>1, <1>2, <1>6, <1>9, <2>1 DEF IInv, Progress, consumeVars
<1> QED
  BY <1>7, <1>8, <1>10

\* It switches a relay.
LEMMA SwitchStep ==
  ASSUME IInv, SwitchRelay
  PROVE  TypeOK' /\ Numbers' /\ Progress'
<1> DEFINE c == delivered[mreq]
           v == LastOf(c.data, "state")
<1>1. mem \in [Relay -> {0, 1}] /\ gpio \in [Relay -> {0, 1}]
  BY DEF IInv, TypeOK, States
<1>2. PICK r \in ToSwitch(c.data) :
        /\ mem' = [mem EXCEPT ![r] = v]
        /\ gpio' = [gpio EXCEPT ![r] = v]
  BY DEF SwitchRelay, Switches
<1>3. c.kind = "set" /\ ~Refused(c.data) /\ mpc = "handle" /\ mpc' = "save"
      /\ mok' = TRUE
  BY DEF SwitchRelay, Switches
<1>4. v \in {0, 1}
  BY <1>3 DEF Refused
<1>5. r \in Relay /\ r = LastOf(c.data, "index")
  BY <1>2 DEF ToSwitch
<1> HIDE DEF v
<1>6. mem' \in [Relay -> {0, 1}] /\ gpio' \in [Relay -> {0, 1}] /\ mem'[r] = v
  BY <1>1, <1>2, <1>4, <1>5
<1>7. SavedAsAsked(c, mem')
  BY <1>3, <1>5, <1>6 DEF SavedAsAsked, v
<1>8. UNCHANGED <<delivered, consumeVars, ipcUp, mreq, saved, ipcDown,
                  procVars, sensorVars, cloud, done, lost, faults>>
  BY DEF SwitchRelay, Switches
<1> HIDE DEF c
<1>9. TypeOK'
  BY <1>3, <1>6, <1>8 DEF IInv, TypeOK, States, consumeVars, procVars,
                          sensorVars
<1>10. Numbers'
  BY <1>3, <1>8 DEF IInv, Numbers, Values, consumeVars
<1>11. Progress'
  <2>1. SavedAsAsked(delivered[mreq], mem)'
    BY <1>7, <1>8 DEF c
  <2> QED
    BY <2>1, <1>3, <1>8 DEF IInv, Progress, Settled, Values, consumeVars
<1> QED
  BY <1>9, <1>10, <1>11

\* It saves and respawns.
LEMMA SaveStep ==
  ASSUME IInv, SaveRelays \/ RespawnSensor
  PROVE  TypeOK' /\ Numbers' /\ Progress'
<1>1. UNCHANGED <<delivered, consumeVars, ipcUp, mreq, mok, mem, gpio, ipcDown,
                  procVars, seen, cloud, lost, faults>>
  BY DEF SaveRelays, RespawnSensor, relayVars, sensorVars
<1>2. mpc \in {"save", "respawn"} /\ mpc' \in {"respawn", "respond"}
  BY DEF SaveRelays, RespawnSensor
<1>3. done' = done \/ done' = done \cup {mreq}
  BY DEF SaveRelays, RespawnSensor
<1>4. mreq \in Nat /\ mreq \in DOMAIN delivered
  BY <1>2 DEF IInv, TypeOK, Numbers
<1>5. saved' \in States /\ sensor' \in {"starting", "running"}
  BY DEF IInv, TypeOK, SaveRelays, RespawnSensor, relayVars, sensorVars
<1>6. Settled(mreq)'
  <2>1. CASE SaveRelays
    BY <2>1 DEF IInv, Progress, SaveRelays, Settled
  <2>2. CASE RespawnSensor
    BY <2>2 DEF IInv, Progress, RespawnSensor, Settled
  <2> QED
    BY <2>1, <2>2
<1>7. TypeOK'
  <2>1. done' \subseteq Nat
    BY <1>3, <1>4 DEF IInv, TypeOK
  <2> QED
    BY <1>1, <1>2, <1>5, <2>1 DEF IInv, TypeOK, consumeVars, procVars
<1>8. Numbers'
  BY <1>1, <1>4 DEF IInv, Numbers, Values, consumeVars
<1>9. \A n : Settled(n) => Settled(n)'
  BY <1>1, <1>3 DEF Settled
<1>10. Progress'
  <2>1. Values(ipcDown') = Values(ipcDown) /\ Values(cloud') = Values(cloud)
    BY <1>1
  <2> QED
    BY <1>1, <1>2, <1>6, <1>9, <2>1 DEF IInv, Progress, consumeVars
<1> QED
  BY <1>7, <1>8, <1>10

\* It answers.
LEMMA RespondStep ==
  ASSUME IInv, SendCloudResp
  PROVE  TypeOK' /\ Numbers' /\ Progress'
<1> DEFINE d == [n |-> mreq, ok |-> mok]
           Resp == [n : Nat, ok : BOOLEAN]
<1>1. mreq \in Nat /\ mreq \in DOMAIN delivered /\ mok \in BOOLEAN
  BY DEF IInv, TypeOK, Numbers, SendCloudResp
<1>2. d \in Resp /\ d.n = mreq /\ d.ok = mok
  BY <1>1
<1>3. ipcDown \in Seq(Resp) /\ lost \subseteq Nat
  BY DEF IInv, TypeOK
<1>4. \/ ipcDown' = ipcDown
      \/ ipcDown' = Append(ipcDown, d)
  BY DEF SendCloudResp
<1>5. lost' = lost \/ lost' = lost \cup {mreq}
  BY DEF SendCloudResp
<1>6. d.ok => Settled(d.n)
  BY <1>2 DEF IInv, Progress, SendCloudResp
<1> HIDE DEF d, Resp
<1>7. Append(ipcDown, d) \in Seq(Resp)
      /\ Values(Append(ipcDown, d)) = Values(ipcDown) \cup {d}
  BY <1>2, <1>3, Appended
<1>8. /\ ipcDown' \in Seq(Resp)
      /\ Values(ipcDown') \subseteq Values(ipcDown) \cup {d}
  BY <1>3, <1>4, <1>7
<1>9. mpc' = "idle"
      /\ UNCHANGED <<delivered, consumeVars, ipcUp, mreq, mok, relayVars,
                     procVars, sensorVars, cloud, done, faults>>
  BY DEF SendCloudResp
<1>10. TypeOK'
  <2>1. lost' \subseteq Nat
    BY <1>1, <1>3, <1>5
  <2> QED
    BY <1>8, <1>9, <2>1 DEF Resp, IInv, TypeOK, consumeVars, relayVars,
                            procVars, sensorVars
<1>11. Numbers'
  BY <1>1, <1>2, <1>8, <1>9 DEF IInv, Numbers, Values, consumeVars
<1>12. Progress'
  <2>1. \A n : Settled(n)' = Settled(n)
    BY <1>9 DEF Settled
  <2>2. \A x \in Values(ipcDown') : x.ok => Settled(x.n)'
    BY <1>6, <1>8, <2>1 DEF IInv, Progress
  <2>3. Values(cloud') = Values(cloud)
    BY <1>9
  <2> QED
    BY <1>9, <2>1, <2>2, <2>3 DEF IInv, Progress, consumeVars
<1> QED
  BY <1>10, <1>11, <1>12

\* The event loop of M2C_MQTT passes the answer on.
LEMMA AnswerStep ==
  ASSUME IInv, ProcessIPC
  PROVE  TypeOK' /\ Numbers' /\ Progress'
<1> DEFINE Resp == [n : Nat, ok : BOOLEAN]
           d == Head(ipcDown)
           r == [n |-> d.n, what |-> "result", ok |-> d.ok]
<1>1. ipcDown \in Seq(Resp) /\ ipcDown # <<>>
  BY DEF IInv, TypeOK, ProcessIPC
<1>2. Reported(r) /\ ipcDown' = Tail(ipcDown)
  BY PublishReports DEF ProcessIPC
<1> HIDE DEF Resp
<1>3. /\ d \in Resp /\ d \in Values(ipcDown)
      /\ Tail(ipcDown) \in Seq(Resp)
      /\ Values(Tail(ipcDown)) \subseteq Values(ipcDown)
  BY <1>1, Taken
<1> HIDE DEF d
<1>4. r \in Report /\ r.n = d.n /\ r.ok = d.ok
  BY <1>3 DEF Resp, Report
<1>5. r.n \in DOMAIN delivered /\ (r.ok => Settled(r.n))
  BY <1>3, <1>4 DEF IInv, Numbers, Progress
<1> HIDE DEF r
<1>6. /\ cloud' \in Seq(Report) /\ lost' \subseteq Nat /\ faults' \in Nat
      /\ Values(cloud') \subseteq Values(cloud) \cup {r}
  BY <1>2, <1>4, ReportedKeeps
<1>7. ipcDown' \in Seq(Resp) /\ Values(ipcDown') \subseteq Values(ipcDown)
  BY <1>2, <1>3
<1>8. UNCHANGED <<delivered, consumeVars, ipcUp, managerVars, relayVars,
                  procVars, sensorVars, done>>
  BY DEF ProcessIPC
<1>9. TypeOK'
  BY <1>6, <1>7, <1>8 DEF Resp, IInv, TypeOK, consumeVars, managerVars,
                          relayVars, procVars, sensorVars
<1>10. Numbers'
  BY <1>5, <1>6, <1>7, <1>8 DEF IInv, Numbers, Values, consumeVars, managerVars
<1>11. Progress'
  <2>1. \A n : Settled(n)' = Settled(n)
    BY <1>8 DEF Settled
  <2>2. \A x \in Values(cloud') : x.what = "result" /\ x.ok => Settled(x.n)'
    BY <1>5, <1>6, <2>1 DEF IInv, Progress
  <2>3. \A x \in Values(ipcDown') : x.ok => Settled(x.n)'
    BY <1>7, <2>1 DEF IInv, Progress
  <2> QED
    BY <1>8, <2>1, <2>2, <2>3 DEF IInv, Progress, SavedAsAsked, consumeVars,
                                  managerVars, relayVars
<1> QED
  BY <1>9, <1>10, <1>11

\* What a death may cut off are deliveries.
LEMMA HeldAreDeliveries ==
  ASSUME IInv
  PROVE  HeldByM2C \subseteq Nat /\ HeldByManager \subseteq Nat
<1>1. /\ \A k \in DOMAIN inbox : inbox[k] \in Nat
      /\ \A k \in DOMAIN ipcUp : ipcUp[k] \in Nat
      /\ \A k \in DOMAIN ipcDown : ipcDown[k] \in [n : Nat, ok : BOOLEAN]
      /\ creq \in Nat /\ mreq \in Nat
  <2> DEFINE Resp == [n : Nat, ok : BOOLEAN]
  <2>1. inbox \in Seq(Nat) /\ ipcUp \in Seq(Nat) /\ ipcDown \in Seq(Resp)
        /\ creq \in Nat /\ mreq \in Nat
    BY DEF IInv, TypeOK
  <2> HIDE DEF Resp
  <2>2. \A k \in DOMAIN ipcDown : ipcDown[k] \in Resp
    BY <2>1
  <2>3. \A k \in DOMAIN inbox : inbox[k] \in Nat
    BY <2>1
  <2>4. \A k \in DOMAIN ipcUp : ipcUp[k] \in Nat
    BY <2>1
  <2> QED
    BY <2>1, <2>2, <2>3, <2>4 DEF Resp
<1>2. \A k \in DOMAIN ipcDown : ipcDown[k].n \in Nat
  BY <1>1
<1> QED
  BY <1>1, <1>2 DEF HeldByM2C, HeldByManager

\* Processes end.
LEMMA EndStep ==
  ASSUME IInv, M2CDies \/ ConsumeEmpty \/ ManagerDies \/ SystemEnds
  PROVE  TypeOK' /\ Numbers' /\ Progress'
<1>1. /\ UNCHANGED <<delivered, mem, saved, ready, mqtt, seen, cloud, done>>
      /\ inbox' = <<>> /\ cpc' = "idle" /\ creq' = 0 /\ ipcDown' = <<>>
      /\ m2c' = FALSE /\ online' = FALSE
  BY DEF M2CDies, ConsumeEmpty, ManagerDies, SystemEnds, M2CEnds, ServiceEnds,
         relayVars, sensorVars
<1>2. \/ UNCHANGED <<ipcUp, mpc, mreq, mok, gpio, ending, sensor>>
      \/ /\ ipcUp' = <<>> /\ mpc' = "down" /\ mreq' = 0 /\ mok' = FALSE
         /\ ending' = "no" /\ sensor' = "starting"
         /\ gpio' = gpio \/ gpio' = [r \in Relay |-> 0]
  BY DEF M2CDies, ConsumeEmpty, ManagerDies, SystemEnds, M2CEnds, ServiceEnds,
         managerVars, relayVars, sensorVars
<1>3. faults' = faults \/ faults' = faults + 1
  BY DEF M2CDies, ConsumeEmpty, ManagerDies, SystemEnds
<1>4. \/ lost' = lost \cup HeldByM2C
      \/ lost' = lost \cup HeldByM2C \cup HeldByManager
  BY DEF M2CDies, ConsumeEmpty, ManagerDies, SystemEnds, M2CEnds, ServiceEnds
<1>5. TypeOK'
  <2>1. lost' \subseteq Nat
    BY <1>4, HeldAreDeliveries DEF IInv, TypeOK
  <2>2. faults' \in Nat
    BY <1>3 DEF IInv, TypeOK
  <2>3. inbox' \in Seq(Nat) /\ ipcDown' \in Seq([n : Nat, ok : BOOLEAN])
    BY <1>1, Emptied
  <2>4. ipcUp' \in Seq(Nat)
    BY <1>2, Emptied DEF IInv, TypeOK
  <2>5. gpio' \in States
    BY <1>2 DEF IInv, TypeOK, States
  <2>6. mok' \in BOOLEAN
    BY <1>2 DEF IInv, TypeOK
  <2>7. mpc' \in {"down", "idle", "handle", "save", "respawn", "respond"}
        /\ mreq' \in Nat /\ ending' \in {"no", "restart", "reboot"}
        /\ sensor' \in {"starting", "running"}
    BY <1>2 DEF IInv, TypeOK
  <2> QED
    BY <1>1, <2>1, <2>2, <2>3, <2>4, <2>5, <2>6, <2>7 DEF IInv, TypeOK
<1>6. Numbers'
  <2>1. Values(inbox') = {} /\ Values(ipcDown') = {}
    BY <1>1, Emptied
  <2>2. Values(ipcUp') \subseteq Values(ipcUp)
    BY <1>2, Emptied
  <2>3. Values(cloud') = Values(cloud)
    BY <1>1
  <2> QED
    BY <1>1, <1>2, <2>1, <2>2, <2>3 DEF IInv, Numbers
<1>7. Progress'
  <2>1. \A n : Settled(n)' = Settled(n)
    BY <1>1 DEF Settled
  <2>2. Values(ipcDown') = {} /\ Values(cloud') = Values(cloud)
    BY <1>1, Emptied
  <2> QED
    BY <1>1, <1>2, <2>1, <2>2 DEF IInv, Progress, SavedAsAsked
<1> QED
  BY <1>5, <1>6, <1>7

\* Processes start.
LEMMA InitializeStep ==
  ASSUME IInv, ManagerInitialize \/ SensorInitialize
  PROVE  TypeOK' /\ Numbers' /\ Progress'
<1>1. UNCHANGED <<delivered, consumeVars, ipcUp, mreq, mok, saved, ipcDown,
                  procVars, cloud, done, lost, faults>>
  BY DEF ManagerInitialize, SensorInitialize, managerVars, relayVars
<1>2. \/ mpc' = "idle" /\ UNCHANGED sensorVars
      \/ /\ UNCHANGED <<mpc, mem, gpio>>
         /\ sensor' = "running" /\ seen' = saved
  BY DEF ManagerInitialize, SensorInitialize, managerVars, relayVars
<1>3. mem' \in States /\ gpio' \in States
  BY DEF IInv, TypeOK, ManagerInitialize, SensorInitialize, relayVars
<1>4. mpc' \in {"idle", mpc} /\ (mpc' # "idle" => mem' = mem)
  BY <1>2 DEF IInv, TypeOK
<1>5. TypeOK'
  BY <1>1, <1>2, <1>3 DEF IInv, TypeOK, consumeVars, procVars, sensorVars
<1>6. Numbers'
  BY <1>1, <1>4 DEF IInv, Numbers, Values, consumeVars
<1>7. Progress'
  BY <1>1, <1>4 DEF IInv, Progress, Settled, SavedAsAsked, Values, consumeVars
<1> QED
  BY <1>5, <1>6, <1>7

LEMMA IInvStep ==
  ASSUME IInv, [Next]_vars
  PROVE  IInv'
<1> SUFFICES TypeOK' /\ Numbers' /\ Progress'
  BY RelaysStep DEF IInv
<1>1. CASE \E c \in Commands : Deliver(c)
  BY <1>1, DeliverStep
<1>2. CASE ConsumeMessage
  BY <1>2, ConsumeStep
<1>3. CASE SendError \/ SendReady \/ SendConfirm
  BY <1>3, ReportStep
<1>4. CASE SendCloudReq \/ ExecCommand
  BY <1>4, HandOverStep
<1>5. CASE Connect \/ LinkLost \/ M2CStarts
  BY <1>5, LinkStep
<1>6. CASE ProcessIPC
  BY <1>6, AnswerStep
<1>7. CASE ProcessMGRDownlinkMsg
  BY <1>7, ReceiveStep, PlainStep, SwitchStep, SaveStep, RespondStep
     DEF ProcessMGRDownlinkMsg
<1>8. CASE M2CDies \/ ConsumeEmpty \/ ManagerDies \/ SystemEnds
  BY <1>8, EndStep
<1>9. CASE ManagerInitialize \/ SensorInitialize
  BY <1>9, InitializeStep
<1>10. CASE UNCHANGED vars
  <2>1. TypeOK'
    BY <1>10 DEF vars, IInv, TypeOK
  <2>2. Numbers'
    BY <1>10 DEF vars, IInv, Numbers, Values
  <2>3. Progress'
    BY <1>10 DEF vars, IInv, Progress, Settled, SavedAsAsked, Values
  <2> QED
    BY <2>1, <2>2, <2>3
<1> QED
  BY <1>1, <1>2, <1>3, <1>4, <1>5, <1>6, <1>7, <1>8, <1>9, <1>10
     DEF Next, ProcessDownlinkConsume

\* At the start nothing was delivered.
LEMMA IInvInit == Init => IInv
<1> SUFFICES ASSUME Init PROVE IInv
  OBVIOUS
<1>1. Relays
  BY DEF Init, Relays
<1>2. /\ delivered \in Seq(Commands) /\ inbox \in Seq(Nat) /\ ipcUp \in Seq(Nat)
      /\ ipcDown \in Seq([n : Nat, ok : BOOLEAN]) /\ cloud \in Seq(Report)
  BY Emptied DEF Init
<1>3. gpio \in States /\ saved \in States
  BY ConstantsAssumption DEF Init, States
<1>4. TypeOK
  BY <1>2, <1>3 DEF Init, TypeOK
<1>5. Values(inbox) = {} /\ Values(ipcUp) = {} /\ Values(ipcDown) = {}
      /\ Values(cloud) = {}
  BY Emptied DEF Init
<1>6. Numbers
  BY <1>5 DEF Init, Numbers
<1>7. Progress
  BY <1>5 DEF Init, Progress
<1> QED
  BY <1>1, <1>4, <1>6, <1>7 DEF IInv

LEMMA IInvInvariance == Spec => []IInv
  BY IInvInit, IInvStep, PTL DEF Spec

(***************************************************************************)
(* Every variable of the downlink has its type; among other things the     *)
(* command that ends the system is a reboot or a restart                   *)
(* (M2CMQTTDownlink.cpp:49-69).                                            *)
(***************************************************************************)
THEOREM DownlinkTypeCorrect == Spec => []TypeOK
<1>1. IInv => TypeOK
  BY DEF IInv
<1> QED
  BY IInvInvariance, <1>1, PTL

(***************************************************************************)
(* A success that the cloud hears of is one that a restart keeps: the      *)
(* state asked for was saved before the answer left the Manager            *)
(* (ManagerDownlinkHandler.cpp:231-244).                                   *)
(***************************************************************************)
THEOREM SuccessMeansSaved == Spec => []SuccessIsSaved
<1>1. IInv => SuccessIsSaved
  <2> SUFFICES ASSUME IInv, NEW k \in DOMAIN cloud,
                      cloud[k].what = "result", cloud[k].ok,
                      delivered[cloud[k].n].kind = "set",
                      LastOf(delivered[cloud[k].n].data, "index") \in Relay
               PROVE  cloud[k].n \in done
    BY DEF SuccessIsSaved
  <2>1. cloud[k] \in Values(cloud)
    BY DEF Values
  <2>2. Settled(cloud[k].n)
    BY <2>1 DEF IInv, Progress
  <2> QED
    BY <2>2 DEF Settled
<1> QED
  BY IInvInvariance, <1>1, PTL
-----------------------------------------------------------------------------
(***************************************************************************)
(* A delivery is in one place at a time: before the consume thread, in its *)
(* hands, before the Manager, in its hands, or on the way back.            *)
(***************************************************************************)
InConsume == IF cpc = "idle" THEN {} ELSE {creq}
InManager == IF mpc \in {"down", "idle"} THEN {} ELSE {mreq}
Answers == {d.n : d \in Values(ipcDown)}

Apart(A, B) == A \cap B = {}

\* The places share no delivery.
Places ==
  /\ Apart(Values(inbox), InConsume) /\ Apart(Values(inbox), Values(ipcUp))
  /\ Apart(Values(inbox), InManager) /\ Apart(Values(inbox), Answers)
  /\ Apart(InConsume, Values(ipcUp)) /\ Apart(InConsume, InManager)
  /\ Apart(InConsume, Answers) /\ Apart(Values(ipcUp), InManager)
  /\ Apart(Values(ipcUp), Answers) /\ Apart(InManager, Answers)

\* No queue has the same delivery twice.
Single(q) == \A i, j \in DOMAIN q : q[i] = q[j] => i = j
SingleAnswers(q) == \A i, j \in DOMAIN q : q[i].n = q[j].n => i = j

Queues == Single(inbox) /\ Single(ipcUp) /\ SingleAnswers(ipcDown)

\* What the cloud has heard of a delivery, by the place where that is.
Heard ==
  \A r \in Values(cloud) :
    /\ r.n \notin Values(inbox)
    /\ r.n \in InConsume => /\ cpc \notin {"ack", "error"}
                            /\ cpc = "exec" \/ r.what = "san_sang"
    /\ r.n \in Values(ipcUp) \cup InManager \cup Answers => r.what = "san_sang"

Once == Places /\ Queues /\ Heard /\ ReportsInOrder

\* A queue that gets a delivery it does not have.
LEMMA AppendedOnce ==
  ASSUME NEW q \in Seq(Nat), NEW x \in Nat, x \notin Values(q), Single(q)
  PROVE  Single(Append(q, x))
<1> DEFINE p == Append(q, x)
<1>1. DOMAIN p = 1 .. Len(q) + 1 /\ DOMAIN q = 1 .. Len(q) /\ Len(q) \in Nat
  OBVIOUS
<1>2. \A i \in 1 .. Len(q) : p[i] = q[i]
  OBVIOUS
<1>3. p[Len(q) + 1] = x
  OBVIOUS
<1> HIDE DEF p
<1>4. \A i \in 1 .. Len(q) : p[i] # x
  BY <1>1, <1>2 DEF Values
<1>5. \A i \in 1 .. Len(q) + 1 : i \in 1 .. Len(q) \/ i = Len(q) + 1
  BY <1>1
<1>6. \A i, j \in 1 .. Len(q) : p[i] = p[j] => i = j
  BY <1>1, <1>2 DEF Single
<1>7. Single(p)
  BY <1>1, <1>3, <1>4, <1>5, <1>6 DEF Single
<1> QED
  BY <1>7 DEF p

\* A queue that gives its first delivery away has it no more.
LEMMA TakenOnce ==
  ASSUME NEW q \in Seq(Nat), q # <<>>, Single(q)
  PROVE  Single(Tail(q)) /\ Head(q) \notin Values(Tail(q))
<1>1. Head(q) = q[1] /\ 1 \in DOMAIN q
  OBVIOUS
<1>2. \A i \in DOMAIN Tail(q) : /\ i \in Nat /\ i + 1 \in DOMAIN q /\ i + 1 # 1
                                /\ Tail(q)[i] = q[i + 1]
  OBVIOUS
<1>3. \A i, j \in DOMAIN Tail(q) : Tail(q)[i] = Tail(q)[j] => i = j
  <2> SUFFICES ASSUME NEW i \in DOMAIN Tail(q), NEW j \in DOMAIN Tail(q),
                      Tail(q)[i] = Tail(q)[j]
               PROVE  i = j
    OBVIOUS
  <2>1. i + 1 = j + 1
    BY <1>2 DEF Single
  <2> QED
    BY <1>2, <2>1
<1>4. \A i \in DOMAIN Tail(q) : Tail(q)[i] # Head(q)
  BY <1>1, <1>2 DEF Single
<1>5. Single(Tail(q))
  BY <1>3 DEF Single
<1> QED
  BY <1>4, <1>5 DEF Values

\* The same for the answers, which are records.
LEMMA AnswerAppended ==
  ASSUME NEW S, NEW q \in Seq(S), NEW x \in S,
         \A d \in Values(q) : d.n # x.n, SingleAnswers(q)
  PROVE  SingleAnswers(Append(q, x))
<1> DEFINE p == Append(q, x)
<1>1. DOMAIN p = 1 .. Len(q) + 1 /\ DOMAIN q = 1 .. Len(q) /\ Len(q) \in Nat
  OBVIOUS
<1>2. \A i \in 1 .. Len(q) : p[i] = q[i]
  OBVIOUS
<1>3. p[Len(q) + 1] = x
  OBVIOUS
<1> HIDE DEF p
<1>4. \A i \in 1 .. Len(q) : p[i].n # x.n
  BY <1>1, <1>2 DEF Values
<1>5. \A i \in 1 .. Len(q) + 1 : i \in 1 .. Len(q) \/ i = Len(q) + 1
  BY <1>1
<1>6. \A i, j \in 1 .. Len(q) : p[i].n = p[j].n => i = j
  BY <1>1, <1>2 DEF SingleAnswers
<1>7. SingleAnswers(p)
  BY <1>1, <1>3, <1>4, <1>5, <1>6 DEF SingleAnswers
<1> QED
  BY <1>7 DEF p

LEMMA AnswerTaken ==
  ASSUME NEW S, NEW q \in Seq(S), q # <<>>, SingleAnswers(q)
  PROVE  /\ SingleAnswers(Tail(q))
         /\ \A d \in Values(Tail(q)) : d.n # Head(q).n
<1>1. Head(q) = q[1] /\ 1 \in DOMAIN q
  OBVIOUS
<1>2. \A i \in DOMAIN Tail(q) : /\ i \in Nat /\ i + 1 \in DOMAIN q /\ i + 1 # 1
                                /\ Tail(q)[i] = q[i + 1]
  OBVIOUS
<1>3. \A i, j \in DOMAIN Tail(q) : Tail(q)[i].n = Tail(q)[j].n => i = j
  <2> SUFFICES ASSUME NEW i \in DOMAIN Tail(q), NEW j \in DOMAIN Tail(q),
                      Tail(q)[i].n = Tail(q)[j].n
               PROVE  i = j
    OBVIOUS
  <2>1. i + 1 = j + 1
    BY <1>2 DEF SingleAnswers
  <2> QED
    BY <1>2, <2>1
<1>4. \A i \in DOMAIN Tail(q) : Tail(q)[i].n # Head(q).n
  BY <1>1, <1>2 DEF SingleAnswers
<1>5. SingleAnswers(Tail(q))
  BY <1>3 DEF SingleAnswers
<1> QED
  BY <1>4, <1>5 DEF Values

\* A report keeps the order if all that was heard of its delivery is that it
\* is acknowledged, and the report is a result.
LEMMA ReportedInOrder ==
  ASSUME IInv, ReportsInOrder, NEW r \in Report, Reported(r),
         \A x \in Values(cloud) :
           x.n = r.n => x.what = "san_sang" /\ r.what = "result"
  PROVE  ReportsInOrder'
<1>1. CASE cloud' = cloud
  BY <1>1 DEF ReportsInOrder
<1>2. CASE cloud' = Append(cloud, r)
  <2>1. cloud \in Seq(Report)
    BY DEF IInv, TypeOK
  <2>2. /\ DOMAIN Append(cloud, r) = 1 .. Len(cloud) + 1
        /\ DOMAIN cloud = 1 .. Len(cloud) /\ Len(cloud) \in Nat
    BY <2>1
  <2>3. \A i \in 1 .. Len(cloud) : cloud'[i] = cloud[i]
    BY <1>2, <2>1
  <2>4. cloud'[Len(cloud) + 1] = r
    BY <1>2, <2>1
  <2>5. \A i \in 1 .. Len(cloud) :
          cloud'[i].n = r.n => cloud'[i].what = "san_sang" /\ r.what = "result"
    BY <2>2, <2>3 DEF Values
  <2>6. \A i, j \in 1 .. Len(cloud) :
          i < j /\ cloud'[i].n = cloud'[j].n =>
            cloud'[i].what = "san_sang" /\ cloud'[j].what = "result"
    BY <2>2, <2>3 DEF ReportsInOrder
  <2>7. \A i, j \in 1 .. Len(cloud) + 1 :
          i < j => i \in 1 .. Len(cloud)
                   /\ (j \in 1 .. Len(cloud) \/ j = Len(cloud) + 1)
    BY <2>2
  <2>8. DOMAIN cloud' = 1 .. Len(cloud) + 1
    BY <1>2, <2>2
  <2> QED
    BY <2>4, <2>5, <2>6, <2>7, <2>8 DEF ReportsInOrder
<1> QED
  BY <1>1, <1>2 DEF Reported

\* A step that moves no delivery and reports nothing, or ends a process.
LEMMA QuietOnce ==
  ASSUME Once, cloud' = cloud,
         inbox' \in {inbox, <<>>}, ipcUp' \in {ipcUp, <<>>},
         ipcDown' \in {ipcDown, <<>>},
         UNCHANGED <<cpc, creq>> \/ cpc' = "idle",
         UNCHANGED mreq \/ mpc' \in {"down", "idle"},
         mpc \in {"down", "idle"} => mpc' \in {"down", "idle"}
  PROVE  Once'
<1>1. /\ Values(inbox') \subseteq Values(inbox)
      /\ Values(ipcUp') \subseteq Values(ipcUp)
      /\ Values(ipcDown') \subseteq Values(ipcDown)
      /\ Values(cloud') = Values(cloud)
  BY Emptied
<1>2. Answers' \subseteq Answers
  BY <1>1 DEF Answers
<1>3. InConsume' \subseteq InConsume /\ InManager' \subseteq InManager
  BY DEF InConsume, InManager
<1>4. Places'
  BY <1>1, <1>2, <1>3 DEF Once, Places, Apart
<1>5. Queues'
  BY DEF Once, Queues, Single, SingleAnswers
<1>6. InConsume' # {} => cpc' = cpc
  BY DEF InConsume
<1>7. Heard'
  BY <1>1, <1>2, <1>3, <1>6 DEF Once, Heard
<1>8. ReportsInOrder'
  BY DEF Once, ReportsInOrder
<1> QED
  BY <1>4, <1>5, <1>7, <1>8 DEF Once

LEMMA DeliverOnce ==
  ASSUME IInv, Once, NEW c \in Commands, Deliver(c)
  PROVE  Once'
<1> DEFINE new == Len(delivered) + 1
<1>1. delivered \in Seq(Commands) /\ inbox \in Seq(Nat)
  BY DEF IInv, TypeOK
<1>2. new \in Nat /\ new \notin DOMAIN delivered
  BY <1>1
<1>3. inbox' = Append(inbox, new)
      /\ UNCHANGED <<cpc, creq, ipcUp, mpc, mreq, ipcDown, cloud>>
  BY DEF Deliver, managerVars
<1> HIDE DEF new
<1>4. /\ new \notin Values(inbox) /\ new \notin InConsume
      /\ new \notin Values(ipcUp) /\ new \notin InManager
      /\ new \notin Answers
      /\ \A r \in Values(cloud) : r.n # new
  BY <1>2 DEF IInv, Numbers, InConsume, InManager, Answers
<1>5. Values(inbox') = Values(inbox) \cup {new}
  BY <1>1, <1>2, <1>3, Appended
<1>6. Single(inbox')
  BY <1>1, <1>2, <1>3, <1>4, AppendedOnce DEF Once, Queues
<1>7. UNCHANGED <<InConsume, Values(ipcUp), InManager, Answers, Values(cloud)>>
  BY <1>3 DEF InConsume, InManager, Answers, Values
<1>8. Places'
  BY <1>4, <1>5, <1>7 DEF Once, Places, Apart
<1>9. Queues'
  BY <1>3, <1>6 DEF Once, Queues, Single, SingleAnswers
<1>10. Heard'
  BY <1>3, <1>4, <1>5, <1>7 DEF Once, Heard
<1>11. ReportsInOrder'
  BY <1>3 DEF Once, ReportsInOrder
<1> QED
  BY <1>8, <1>9, <1>10, <1>11 DEF Once

LEMMA ConsumeOnce ==
  ASSUME IInv, Once, ConsumeMessage
  PROVE  Once'
<1> DEFINE h == Head(inbox)
<1>1. inbox \in Seq(Nat) /\ inbox # <<>>
  BY DEF IInv, TypeOK, ConsumeMessage
<1>2. /\ cpc = "idle" /\ cpc' \in {"idle", "error", "ack"} /\ creq' = h
      /\ inbox' = Tail(inbox)
      /\ UNCHANGED <<ipcUp, mpc, mreq, ipcDown, cloud>>
  BY DEF ConsumeMessage, managerVars
<1>3. h \in Values(inbox) /\ Values(inbox') \subseteq Values(inbox)
  BY <1>1, <1>2, Taken
<1>4. Single(inbox') /\ h \notin Values(inbox')
  BY <1>1, <1>2, TakenOnce DEF Once, Queues
<1> HIDE DEF h
<1>5. InConsume = {} /\ InConsume' \subseteq {h}
  BY <1>2 DEF InConsume
<1>6. UNCHANGED <<Values(ipcUp), InManager, Answers, Values(cloud)>>
  BY <1>2 DEF InManager, Answers, Values
<1>7. Places'
  BY <1>3, <1>4, <1>5, <1>6 DEF Once, Places, Apart
<1>8. Queues'
  BY <1>2, <1>4 DEF Once, Queues, Single, SingleAnswers
<1>9. Heard'
  BY <1>3, <1>5, <1>6 DEF Once, Heard
<1>10. ReportsInOrder'
  BY <1>2 DEF Once, ReportsInOrder
<1> QED
  BY <1>7, <1>8, <1>9, <1>10 DEF Once

\* The reports of the consume thread.
LEMMA ReportOnce ==
  ASSUME IInv, Once, SendError \/ SendReady \/ SendConfirm
  PROVE  Once'
<1>1. creq \in Nat /\ cpc \in {"error", "ack", "confirm"}
  BY DEF IInv, TypeOK, SendError, SendReady, SendConfirm
<1>2. PICK r \in Report :
        /\ Reported(r)
        /\ r.n = creq
        /\ \/ cpc = "error" /\ cpc' = "idle"
           \/ cpc = "ack" /\ cpc' \in {"confirm", "ipc"} /\ r.what = "san_sang"
           \/ cpc = "confirm" /\ cpc' = "exec" /\ r.what = "result"
  <2>1. CASE SendError
    <3> DEFINE r == [n |-> creq, what |-> "error", ok |-> FALSE]
    <3>1. r \in Report /\ r.n = creq
      BY <1>1 DEF Report
    <3>2. Reported(r) /\ cpc = "error" /\ cpc' = "idle"
      BY <2>1, PublishReports DEF SendError
    <3> HIDE DEF r
    <3> QED
      BY <3>1, <3>2
  <2>2. CASE SendReady
    <3> DEFINE r == [n |-> creq, what |-> "san_sang", ok |-> TRUE]
    <3>1. r \in Report /\ r.n = creq /\ r.what = "san_sang"
      BY <1>1 DEF Report
    <3>2. Reported(r) /\ cpc = "ack" /\ cpc' \in {"confirm", "ipc"}
      BY <2>2, PublishReports DEF SendReady
    <3> HIDE DEF r
    <3> QED
      BY <3>1, <3>2
  <2>3. CASE SendConfirm
    <3> DEFINE r == [n |-> creq, what |-> "result", ok |-> TRUE]
    <3>1. r \in Report /\ r.n = creq /\ r.what = "result"
      BY <1>1 DEF Report
    <3>2. Reported(r) /\ cpc = "confirm" /\ cpc' = "exec"
      BY <2>3, PublishReports DEF SendConfirm
    <3> HIDE DEF r
    <3> QED
      BY <3>1, <3>2
  <2> QED
    BY <2>1, <2>2, <2>3
<1>3. Values(cloud') \subseteq Values(cloud) \cup {r}
  BY <1>2, ReportedKeeps
<1>4. UNCHANGED <<inbox, creq, ipcUp, mpc, mreq, ipcDown>>
  BY DEF SendError, SendReady, SendConfirm, managerVars
<1>5. InConsume = {creq} /\ InConsume' \subseteq {creq}
      /\ (InConsume' # {} => cpc' # "idle")
  BY <1>1, <1>4 DEF InConsume
<1>6. UNCHANGED <<Values(inbox), Values(ipcUp), InManager, Answers>>
  BY <1>4 DEF InManager, Answers, Values
<1>7. Places'
  BY <1>5, <1>6 DEF Once, Places, Apart
<1>8. Queues'
  BY <1>4 DEF Once, Queues, Single, SingleAnswers
<1>9. \A x \in Values(cloud) :
        x.n = creq => cpc = "confirm" /\ x.what = "san_sang"
  BY <1>1, <1>5 DEF Once, Heard
<1>10. ReportsInOrder'
  BY <1>2, <1>9, ReportedInOrder DEF Once
<1>11. Heard'
  <2>1. ASSUME NEW x \in Values(cloud'), x \in Values(cloud)
        PROVE  /\ x.n \notin Values(inbox')
               /\ x.n \in InConsume' => /\ cpc' \notin {"ack", "error"}
                                        /\ cpc' = "exec" \/ x.what = "san_sang"
               /\ x.n \in Values(ipcUp') \cup InManager' \cup Answers'
                    => x.what = "san_sang"
    BY <2>1, <1>2, <1>5, <1>6, <1>9 DEF Once, Heard
  <2>2. /\ r.n \notin Values(inbox)
        /\ r.n \notin Values(ipcUp) \cup InManager \cup Answers
    BY <1>2, <1>5 DEF Once, Places, Apart
  <2>3. r.n \in InConsume' => /\ cpc' \notin {"ack", "error"}
                              /\ cpc' = "exec" \/ r.what = "san_sang"
    BY <1>2, <1>5
  <2> QED
    BY <1>3, <1>6, <2>1, <2>2, <2>3 DEF Heard
<1> QED
  BY <1>7, <1>8, <1>10, <1>11 DEF Once

\* A request that goes to the Manager was only acknowledged.
LEMMA HandOverOnce ==
  ASSUME IInv, Once, SendCloudReq
  PROVE  Once'
<1>1. ipcUp \in Seq(Nat) /\ creq \in Nat
  BY DEF IInv, TypeOK
<1>2. /\ cpc = "ipc" /\ cpc' = "idle"
      /\ ipcUp' = Append(ipcUp, creq)
      /\ UNCHANGED <<inbox, mpc, mreq, ipcDown, cloud>>
  BY DEF SendCloudReq, managerVars
<1>3. InConsume = {creq} /\ InConsume' = {}
  BY <1>2 DEF InConsume
<1>4. Values(ipcUp') = Values(ipcUp) \cup {creq}
  BY <1>1, <1>2, Appended
<1>5. creq \notin Values(ipcUp)
  BY <1>3 DEF Once, Places, Apart
<1>6. Single(ipcUp')
  BY <1>1, <1>2, <1>5, AppendedOnce DEF Once, Queues
<1>7. UNCHANGED <<Values(inbox), InManager, Answers, Values(cloud)>>
  BY <1>2 DEF InManager, Answers, Values
<1>8. Places'
  BY <1>3, <1>4, <1>7 DEF Once, Places, Apart
<1>9. Queues'
  BY <1>2, <1>6 DEF Once, Queues, Single, SingleAnswers
<1>10. Heard'
  BY <1>2, <1>3, <1>4, <1>7 DEF Once, Heard
<1>11. ReportsInOrder'
  BY <1>2 DEF Once, ReportsInOrder
<1> QED
  BY <1>8, <1>9, <1>10, <1>11 DEF Once

LEMMA ReceiveOnce ==
  ASSUME IInv, Once, ReceiveCloudReq
  PROVE  Once'
<1> DEFINE h == Head(ipcUp)
<1>1. ipcUp \in Seq(Nat) /\ ipcUp # <<>>
  BY DEF IInv, TypeOK, ReceiveCloudReq
<1>2. /\ mpc = "idle" /\ mpc' = "handle" /\ mreq' = h
      /\ ipcUp' = Tail(ipcUp)
      /\ UNCHANGED <<inbox, cpc, creq, ipcDown, cloud>>
  BY DEF ReceiveCloudReq, consumeVars
<1>3. h \in Values(ipcUp) /\ Values(ipcUp') \subseteq Values(ipcUp)
  BY <1>1, <1>2, Taken
<1>4. Single(ipcUp') /\ h \notin Values(ipcUp')
  BY <1>1, <1>2, TakenOnce DEF Once, Queues
<1> HIDE DEF h
<1>5. InManager = {} /\ InManager' = {h}
  BY <1>2 DEF InManager
<1>6. UNCHANGED <<Values(inbox), InConsume, Answers, Values(cloud)>>
  BY <1>2 DEF InConsume, Answers, Values
<1>7. Places'
  BY <1>3, <1>4, <1>5, <1>6 DEF Once, Places, Apart
<1>8. Queues'
  BY <1>2, <1>4 DEF Once, Queues, Single, SingleAnswers
<1>9. Heard'
  BY <1>2, <1>3, <1>5, <1>6 DEF Once, Heard
<1>10. ReportsInOrder'
  BY <1>2 DEF Once, ReportsInOrder
<1> QED
  BY <1>7, <1>8, <1>9, <1>10 DEF Once

LEMMA RespondOnce ==
  ASSUME IInv, Once, SendCloudResp
  PROVE  Once'
<1> DEFINE d == [n |-> mreq, ok |-> mok]
           Resp == [n : Nat, ok : BOOLEAN]
<1>1. mreq \in Nat /\ mok \in BOOLEAN /\ ipcDown \in Seq(Resp)
  BY DEF IInv, TypeOK
<1>2. d \in Resp /\ d.n = mreq
  BY <1>1
<1>3. /\ mpc = "respond" /\ mpc' = "idle"
      /\ ipcDown' = ipcDown \/ ipcDown' = Append(ipcDown, d)
      /\ UNCHANGED <<inbox, cpc, creq, ipcUp, mreq, cloud>>
  BY DEF SendCloudResp, consumeVars
<1> HIDE DEF d, Resp
<1>4. InManager = {mreq} /\ InManager' = {}
  BY <1>3 DEF InManager
<1>5. Values(ipcDown') \subseteq Values(ipcDown) \cup {d}
  <2>1. Values(Append(ipcDown, d)) = Values(ipcDown) \cup {d}
    BY <1>1, <1>2, Appended
  <2> QED
    BY <1>3, <2>1
<1>6. Answers' \subseteq Answers \cup {mreq}
  BY <1>2, <1>5 DEF Answers
<1>7. \A x \in Values(ipcDown) : x.n # d.n
  BY <1>2, <1>4 DEF Once, Places, Apart, Answers
<1>8. SingleAnswers(ipcDown')
  <2>1. SingleAnswers(ipcDown)
    BY DEF Once, Queues
  <2>2. SingleAnswers(Append(ipcDown, d))
    BY <1>1, <1>2, <1>7, <2>1, AnswerAppended
  <2> QED
    BY <1>3, <2>1, <2>2
<1>9. UNCHANGED <<Values(inbox), InConsume, Values(ipcUp), Values(cloud)>>
  BY <1>3 DEF InConsume, Values
<1>10. Places'
  BY <1>4, <1>6, <1>9 DEF Once, Places, Apart
<1>11. Queues'
  BY <1>3, <1>8 DEF Once, Queues, Single
<1>12. Heard'
  BY <1>3, <1>4, <1>6, <1>9 DEF Once, Heard
<1>13. ReportsInOrder'
  BY <1>3 DEF Once, ReportsInOrder
<1> QED
  BY <1>10, <1>11, <1>12, <1>13 DEF Once

LEMMA AnswerOnce ==
  ASSUME IInv, Once, ProcessIPC
  PROVE  Once'
<1> DEFINE Resp == [n : Nat, ok : BOOLEAN]
           d == Head(ipcDown)
           r == [n |-> d.n, what |-> "result", ok |-> d.ok]
<1>1. ipcDown \in Seq(Resp) /\ ipcDown # <<>>
  BY DEF IInv, TypeOK, ProcessIPC
<1>2. /\ Reported(r) /\ ipcDown' = Tail(ipcDown)
      /\ UNCHANGED <<inbox, cpc, creq, ipcUp, mpc, mreq>>
  BY PublishReports DEF ProcessIPC, consumeVars, managerVars
<1> HIDE DEF Resp
<1>3. /\ d \in Resp /\ d \in Values(ipcDown)
      /\ Values(ipcDown') \subseteq Values(ipcDown)
  BY <1>1, <1>2, Taken
<1>4. SingleAnswers(ipcDown') /\ \A x \in Values(ipcDown') : x.n # d.n
  BY <1>1, <1>2, AnswerTaken DEF Once, Queues
<1> HIDE DEF d
<1>5. r \in Report /\ r.n = d.n /\ r.what = "result"
  BY <1>3 DEF Resp, Report
<1> HIDE DEF r
<1>6. d.n \in Answers /\ d.n \notin Answers' /\ Answers' \subseteq Answers
  BY <1>3, <1>4 DEF Answers
<1>7. Values(cloud') \subseteq Values(cloud) \cup {r}
  BY <1>2, <1>5, ReportedKeeps
<1>8. UNCHANGED <<Values(inbox), InConsume, Values(ipcUp), InManager>>
  BY <1>2 DEF InConsume, InManager, Values
<1>9. Places'
  BY <1>6, <1>8 DEF Once, Places, Apart
<1>10. Queues'
  BY <1>2, <1>4 DEF Once, Queues, Single
<1>11. \A x \in Values(cloud) : x.n = r.n => x.what = "san_sang"
  BY <1>5, <1>6 DEF Once, Heard
<1>12. ReportsInOrder'
  BY <1>2, <1>5, <1>11, ReportedInOrder DEF Once
<1>13. Heard'
  <2>1. /\ r.n \notin Values(inbox) /\ r.n \notin InConsume
        /\ r.n \notin Values(ipcUp) \cup InManager
    BY <1>5, <1>6 DEF Once, Places, Apart
  <2> QED
    BY <1>2, <1>5, <1>6, <1>7, <1>8, <2>1 DEF Once, Heard
<1> QED
  BY <1>9, <1>10, <1>12, <1>13 DEF Once

LEMMA OnceStep ==
  ASSUME IInv, Once, [Next]_vars
  PROVE  Once'
<1>1. CASE \E c \in Commands : Deliver(c)
  BY <1>1, DeliverOnce
<1>2. CASE ConsumeMessage
  BY <1>2, ConsumeOnce
<1>3. CASE SendError \/ SendReady \/ SendConfirm
  BY <1>3, ReportOnce
<1>4. CASE SendCloudReq
  BY <1>4, HandOverOnce
<1>5. CASE ReceiveCloudReq
  BY <1>5, ReceiveOnce
<1>6. CASE SendCloudResp
  BY <1>6, RespondOnce
<1>7. CASE ProcessIPC
  BY <1>7, AnswerOnce
<1>8. CASE ExecCommand \/ Connect \/ LinkLost \/ M2CStarts \/ SensorInitialize
           \/ UNCHANGED vars
  <2>1. /\ UNCHANGED <<cloud, inbox, ipcUp, ipcDown, mpc, mreq, creq>>
        /\ cpc' \in {cpc, "idle"}
    BY <1>8 DEF ExecCommand, Connect, LinkLost, M2CStarts, SensorInitialize,
                vars, consumeVars, managerVars
  <2> QED
    BY <2>1, QuietOnce
<1>9. CASE HandleThrows \/ HandlePlain \/ SwitchRelay \/ SaveRelays
           \/ RespawnSensor \/ ManagerInitialize
  <2>1. /\ UNCHANGED <<cloud, inbox, ipcUp, ipcDown, cpc, creq, mreq>>
        /\ mpc \in {"down", "idle"} => mpc' \in {"down", "idle"}
    BY <1>9 DEF HandleThrows, HandlePlain, SwitchRelay, Switches, SaveRelays,
                RespawnSensor, ManagerInitialize, consumeVars
  <2> QED
    BY <2>1, QuietOnce
<1>10. CASE M2CDies \/ ConsumeEmpty \/ ManagerDies \/ SystemEnds
  <2>1. /\ cloud' = cloud /\ inbox' = <<>> /\ ipcDown' = <<>> /\ cpc' = "idle"
        /\ ipcUp' \in {ipcUp, <<>>}
        /\ UNCHANGED <<mpc, mreq>> \/ mpc' = "down"
    BY <1>10 DEF M2CDies, ConsumeEmpty, ManagerDies, SystemEnds, M2CEnds,
                 ServiceEnds, managerVars
  <2> QED
    BY <2>1, QuietOnce
<1> QED
  BY <1>1, <1>2, <1>3, <1>4, <1>5, <1>6, <1>7, <1>8, <1>9, <1>10
     DEF Next, ProcessDownlinkConsume, ProcessMGRDownlinkMsg

(***************************************************************************)
(* The cloud hears of each delivery in order and of its end once, whatever *)
(* dies or is lost in between (M2CMQTTDownlink.cpp:49-93,                  *)
(* M2CMQTT.cpp:160-169).                                                   *)
(***************************************************************************)
THEOREM HeardInOrder == Spec => []ReportsInOrder
<1>1. Init => Once
  <2> SUFFICES ASSUME Init PROVE Once
    OBVIOUS
  <2>1. Values(inbox) = {} /\ Values(ipcUp) = {} /\ Values(ipcDown) = {}
        /\ Values(cloud) = {}
    BY Emptied DEF Init
  <2>2. Answers = {} /\ InConsume = {} /\ InManager = {}
    BY <2>1 DEF Answers, InConsume, InManager, Init
  <2>3. Places
    BY <2>1, <2>2 DEF Places, Apart
  <2>4. Queues
    BY DEF Init, Queues, Single, SingleAnswers
  <2>5. Heard
    BY <2>1 DEF Heard
  <2>6. ReportsInOrder
    BY DEF Init, ReportsInOrder
  <2> QED
    BY <2>3, <2>4, <2>5, <2>6 DEF Once
<1>2. Once => ReportsInOrder
  BY DEF Once
<1> QED
  BY IInvInvariance, <1>1, <1>2, OnceStep, PTL DEF Spec
=============================================================================
