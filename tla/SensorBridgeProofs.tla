------------------------- MODULE SensorBridgeProofs -------------------------
(***************************************************************************)
(* For every configuration of devices and sources and every bound: the     *)
(* state of the uplink's collecting half is well typed, readings never     *)
(* overtake one another, and each is reported at most once, in order.      *)
(***************************************************************************)
EXTENDS SensorBridge, TLAPS

USE ConstantsAssumption

\* The head and the tail of a list of messages, element by element.
LEMMA TailFacts ==
  ASSUME NEW S, NEW q \in Seq(S), q # <<>>
  PROVE  /\ Head(q) \in S
         /\ Head(q) = q[1]
         /\ 1 \in DOMAIN q
         /\ Tail(q) \in Seq(S)
         /\ \A k \in DOMAIN Tail(q) :
              k \in Nat /\ k + 1 \in DOMAIN q /\ Tail(q)[k] = q[k + 1] /\ 1 < k + 1
  OBVIOUS

\* Appending to a list, element by element.
LEMMA AppendFacts ==
  ASSUME NEW S, NEW q \in Seq(S), NEW e \in S
  PROVE  /\ Append(q, e) \in Seq(S)
         /\ \A k \in DOMAIN Append(q, e) :
              \/ k \in DOMAIN q /\ Append(q, e)[k] = q[k] /\ k < Len(q) + 1
              \/ k = Len(q) + 1 /\ Append(q, e)[k] = e
  OBVIOUS

\* Type correctness of the collecting half of the uplink.
THEOREM TypeCorrect == Spec => []TypeOK
<1>1. Init => TypeOK
  BY DEF Init, TypeOK, Device, EmptyPoint
<1>2. TypeOK /\ [Next]_vars => TypeOK'
  <2> SUFFICES ASSUME TypeOK, [Next]_vars PROVE TypeOK'
    OBVIOUS
  <2> USE DEF TypeOK, busVars, timerVars, outVars
  <2>0. NoMessage = [sub |-> Garbled, n |-> 0] /\ EmptyPoint \in [Device -> Nat]
    BY DEF NoMessage, EmptyPoint
  <2>a. 1 \in 1 .. NumDevices + 1 /\ (NumDevices > 0 => 1 \in Device)
    BY DEF Device
  <2>b. \A d \in Device : /\ d \in Nat
                          /\ d + 1 \in 1 .. NumDevices + 1
                          /\ d < NumDevices => d + 1 \in Device
    BY DEF Device
  <2>1. ASSUME NEW s \in Sources, StartCollecting(s) PROVE TypeOK'
    <3>1. [sub |-> s, n |-> next[s] + 1] \in Message
      BY DEF Message
    <3>2. bus' \in Seq(Message)
      BY <2>1, <3>1, AppendFacts DEF StartCollecting
    <3>3. QED
      BY <2>1, <3>2 DEF StartCollecting
  <2>2. CASE ListenerRPop
    <3>1. taken' \in Message /\ bus' \in Seq(Message)
      BY <2>2, TailFacts DEF ListenerRPop
    <3>2. QED
      BY <2>2, <3>1 DEF ListenerRPop
  <2>3. CASE BridgeRestart
    BY <2>3, <2>0, <2>a DEF BridgeRestart
  <2>4. CASE CollectKnown
    <3>1. taken \in Message
      BY <2>4 DEF CollectKnown
    <3>2. taken.n \in Nat
      BY <3>1 DEF Message
    <3>3. QED
      BY <2>4, <3>2 DEF CollectKnown, FindBySubId
  <2>5. CASE CollectIgnored
    BY <2>5 DEF CollectIgnored
  <2>6. CASE CollectNullReference
    BY <2>6, <2>3 DEF CollectNullReference
  <2>7. CASE TimerTick
    BY <2>7, <2>0, <2>a DEF TimerTick
  <2>8. CASE GetSlot
    BY <2>8, <2>b DEF GetSlot, LoopOn
  <2>9. CASE ClearSlot
    BY <2>9, <2>b DEF ClearSlot, LoopOn
  <2>10. CASE DropPoint
    BY <2>10, <2>0, <2>a DEF DropPoint
  <2>11. CASE PushPoint
    BY <2>11, <2>0, <2>a, AppendFacts DEF PushPoint
  <2>12. CASE SetLive
    BY <2>12 DEF SetLive
  <2>13. CASE UNCHANGED vars
    BY <2>13 DEF vars
  <2>14. QED
    BY <2>1, <2>2, <2>3, <2>4, <2>5, <2>6, <2>7, <2>8, <2>9, <2>10, <2>11,
       <2>12, <2>13 DEF Next, ProcessCollectData, DataPointProcessor
<1>3. QED
  BY <1>1, <1>2, PTL DEF Spec

-----------------------------------------------------------------------------
\* The invariant that the steps preserve together with TypeOK.
IInv == PipelineOrder /\ ReadingsReportedInOrder

\* What TypeOK says of each single value.
Typed ==
  /\ \A d \in Device : dp[d] \in Nat /\ slot[d] \in Nat
  /\ \A i \in DOMAIN log : \A d \in Device : log[i][d] \in Nat
  /\ \A k \in DOMAIN bus :
       k \in Nat /\ bus[k].n \in Nat \ {0} /\ bus[k].sub \in Sources
  /\ Len(bus) \in Nat
  /\ taken # NoMessage => taken.sub \in Sources /\ taken.n \in Nat \ {0}

LEMMA TypedFacts == TypeOK => Typed
<1> SUFFICES ASSUME TypeOK PROVE Typed
  OBVIOUS
<1>1. \A d \in Device : dp[d] \in Nat /\ slot[d] \in Nat
  BY DEF TypeOK
<1>2. \A i \in DOMAIN log : log[i] \in [Device -> Nat]
  BY DEF TypeOK
<1>3. \A k \in DOMAIN bus : k \in Nat /\ bus[k] \in Message
  BY DEF TypeOK
<1>4. taken # NoMessage => taken \in Message
  BY DEF TypeOK
<1>5. Len(bus) \in Nat
  BY DEF TypeOK
<1>6. QED
  BY <1>1, <1>2, <1>3, <1>4, <1>5 DEF Typed, Message

\* A new reading is newer than all of its source that is under way.
LEMMA StartCollectingKeepsOrder ==
  ASSUME TypeOK, IInv, NEW s \in Sources, StartCollecting(s)
  PROVE  IInv'
<1> DEFINE e == [sub |-> s, n |-> next[s] + 1]
<1>1. /\ e \in Message /\ e.sub = s /\ e.n = next[s] + 1 /\ next[s] \in Nat
      /\ bus \in Seq(Message)
  BY DEF Message, TypeOK
<1>2. \A k \in DOMAIN bus' :
        \/ k \in DOMAIN bus /\ bus'[k] = bus[k] /\ k < Len(bus) + 1
        \/ k = Len(bus) + 1 /\ bus'[k] = e
  BY <1>1, AppendFacts DEF StartCollecting
<1>3. /\ next' = [next EXCEPT ![s] = @ + 1]
      /\ \A x \in Sources : next[x] \in Nat /\ next[x] <= next'[x]
      /\ next'[s] = next[s] + 1
      /\ taken' = taken /\ slot' = slot /\ dp' = dp /\ log' = log
      /\ tpc' = tpc /\ ti' = ti
  BY DEF StartCollecting, TypeOK, timerVars, outVars
<1>a. Typed
  BY TypedFacts
<1> USE DEF Typed
<1> HIDE DEF e
<1>4. ASSUME NEW d \in Device PROVE ReportedIsOlder(d)'
  BY <1>1, <1>2, <1>3, <1>a DEF IInv, PipelineOrder, ReportedIsOlder, Older
<1>5. ASSUME NEW d \in Device PROVE PointIsOlder(d)'
  BY <1>1, <1>2, <1>3, <1>a DEF IInv, PipelineOrder, PointIsOlder, Older
<1>6. ASSUME NEW d \in Device PROVE SlotIsOlder(d)'
  BY <1>1, <1>2, <1>3, <1>a DEF IInv, PipelineOrder, SlotIsOlder, Older
<1>7. BusIsOrdered'
  <2>1. BusIsOrdered
    BY DEF IInv, PipelineOrder
  <2>2. taken' # NoMessage => taken'.n <= next'[taken'.sub]
    BY <2>1, <1>3, <1>a DEF BusIsOrdered
  <2>3. \A k \in DOMAIN bus' : bus'[k].n <= next'[bus'[k].sub]
    BY <2>1, <1>1, <1>2, <1>3, <1>a DEF BusIsOrdered
  <2>4. \A k \in DOMAIN bus' :
          taken' # NoMessage /\ bus'[k].sub = taken'.sub => taken'.n < bus'[k].n
    BY <2>1, <1>1, <1>2, <1>3, <1>a DEF BusIsOrdered
  <2>5. \A k, m \in DOMAIN bus' :
          k < m /\ bus'[k].sub = bus'[m].sub => bus'[k].n < bus'[m].n
    BY <2>1, <1>1, <1>2, <1>3, <1>a DEF BusIsOrdered
  <2>6. QED
    BY <2>2, <2>3, <2>4, <2>5 DEF BusIsOrdered
<1>8. ReadingsReportedInOrder'
  BY <1>3 DEF IInv, ReadingsReportedInOrder
<1>9. QED
  BY <1>4, <1>5, <1>6, <1>7, <1>8 DEF IInv, PipelineOrder, Device

\* The oldest message moves from the bus to the event loop.
LEMMA ListenerRPopKeepsOrder ==
  ASSUME TypeOK, IInv, ListenerRPop
  PROVE  IInv'
<1>1. /\ bus \in Seq(Message) /\ bus # <<>> /\ taken = NoMessage
      /\ taken' = Head(bus) /\ bus' = Tail(bus)
      /\ next' = next /\ slot' = slot /\ dp' = dp /\ log' = log
      /\ tpc' = tpc /\ ti' = ti
  BY DEF ListenerRPop, TypeOK, timerVars, outVars
<1>2. /\ taken' \in Message /\ taken' = bus[1] /\ 1 \in DOMAIN bus
      /\ \A k \in DOMAIN bus' :
           /\ k \in Nat /\ k + 1 \in DOMAIN bus /\ 1 < k + 1
           /\ bus'[k] = bus[k + 1]
  BY <1>1, TailFacts
<1>3. \A k, m \in DOMAIN bus' : k < m => k + 1 < m + 1
  BY <1>2
<1>4. ASSUME NEW d \in Device PROVE ReportedIsOlder(d)'
  BY <1>1, <1>2 DEF IInv, PipelineOrder, ReportedIsOlder
<1>5. ASSUME NEW d \in Device PROVE PointIsOlder(d)'
  BY <1>1, <1>2 DEF IInv, PipelineOrder, PointIsOlder
<1>6. ASSUME NEW d \in Device PROVE SlotIsOlder(d)'
  BY <1>1, <1>2 DEF IInv, PipelineOrder, SlotIsOlder
<1>7. BusIsOrdered'
  BY <1>1, <1>2, <1>3 DEF IInv, PipelineOrder, BusIsOrdered
<1>8. ReadingsReportedInOrder'
  BY <1>1 DEF IInv, ReadingsReportedInOrder
<1>9. QED
  BY <1>4, <1>5, <1>6, <1>7, <1>8 DEF IInv, PipelineOrder, Device

\* The message in the event loop's hands replaces the value of its slot.
LEMMA CollectKnownKeepsOrder ==
  ASSUME TypeOK, IInv, CollectKnown
  PROVE  IInv'
<1> DEFINE t == taken.sub
<1>1. /\ taken # NoMessage /\ t \in Device /\ t # Garbled
      /\ slot' = [slot EXCEPT ![t] = taken.n] /\ slot \in [Device -> Nat]
      /\ taken' = NoMessage
      /\ next' = next /\ bus' = bus /\ dp' = dp /\ log' = log
      /\ tpc' = tpc /\ ti' = ti
  BY DEF CollectKnown, FindBySubId, TypeOK, busVars, timerVars, outVars
<1>2. /\ slot'[t] = taken.n
      /\ \A d \in Device : d # t => slot'[d] = slot[d]
      /\ \A d \in Device : taken'.sub # d
  BY <1>1 DEF NoMessage
<1>3. Typed
  BY TypedFacts
<1> HIDE DEF t
<1>t. taken.sub = t
  BY DEF t
<1>4. ASSUME NEW d \in Device PROVE ReportedIsOlder(d)'
  BY <1>1, <1>2, <1>t DEF IInv, PipelineOrder, ReportedIsOlder
<1>5. ASSUME NEW d \in Device PROVE PointIsOlder(d)'
  <2>1. d = t => Older(dp[d], slot'[d])
    BY <1>1, <1>2, <1>t DEF IInv, PipelineOrder, PointIsOlder
  <2>2. QED
    BY <2>1, <1>1, <1>2 DEF IInv, PipelineOrder, PointIsOlder
<1>6. ASSUME NEW d \in Device PROVE SlotIsOlder(d)'
  <2>1. CASE d = t
    BY <2>1, <1>1, <1>2, <1>3, <1>t
    DEF IInv, PipelineOrder, SlotIsOlder, BusIsOrdered, Older, Typed
  <2>2. CASE d # t
    BY <2>2, <1>1, <1>2 DEF IInv, PipelineOrder, SlotIsOlder
  <2>3. QED
    BY <2>1, <2>2
<1>7. BusIsOrdered'
  BY <1>1 DEF IInv, PipelineOrder, BusIsOrdered
<1>8. ReadingsReportedInOrder'
  BY <1>1 DEF IInv, ReadingsReportedInOrder
<1>9. QED
  BY <1>4, <1>5, <1>6, <1>7, <1>8 DEF IInv, PipelineOrder, Device

\* A step that only drops the message in the event loop's hands and, perhaps,
\* the data point under construction.
LEMMA DropKeepsOrder ==
  ASSUME TypeOK, IInv, UNCHANGED <<next, bus, slot, log>>,
         taken' \in {taken, NoMessage},
         \/ dp' = EmptyPoint
         \/ dp' = dp /\ (tpc = "clear" => tpc' = "clear" /\ ti' = ti)
  PROVE  IInv'
<1>1. \A d \in Device : dp'[d] \in {dp[d], 0}
  BY DEF EmptyPoint
<1>2. \A d \in Device : taken'.sub = d => taken' = taken
  BY DEF NoMessage
<1>3. Typed
  BY TypedFacts
<1>4. ASSUME NEW d \in Device PROVE ReportedIsOlder(d)'
  BY <1>1, <1>2 DEF IInv, PipelineOrder, ReportedIsOlder, Older
<1>5. ASSUME NEW d \in Device PROVE PointIsOlder(d)'
  <2>1. CASE dp' = EmptyPoint
    <3>1. dp'[d] = 0
      BY <2>1 DEF EmptyPoint
    <3>2. d \in Sources => 0 <= next[d]
      BY DEF TypeOK
    <3>3. QED
      BY <3>1, <3>2 DEF PointIsOlder, Older
  <2>2. CASE dp' = dp /\ (tpc = "clear" => tpc' = "clear" /\ ti' = ti)
    BY <2>2, <1>2 DEF IInv, PipelineOrder, PointIsOlder
  <2>3. QED
    BY <2>1, <2>2
<1>6. ASSUME NEW d \in Device PROVE SlotIsOlder(d)'
  BY <1>2 DEF IInv, PipelineOrder, SlotIsOlder
<1>7. BusIsOrdered'
  BY DEF IInv, PipelineOrder, BusIsOrdered
<1>8. ReadingsReportedInOrder'
  BY DEF IInv, ReadingsReportedInOrder
<1>9. QED
  BY <1>4, <1>5, <1>6, <1>7, <1>8 DEF IInv, PipelineOrder, Device

\* The timer reads a slot: the value is in the data point and in the slot.
LEMMA GetSlotKeepsOrder ==
  ASSUME TypeOK, IInv, GetSlot
  PROVE  IInv'
<1>1. /\ tpc = "get" /\ ti \in Device /\ dp \in [Device -> Nat]
      /\ dp' = [dp EXCEPT ![ti] = slot[ti]]
      /\ slot[ti] # 0 => tpc' = "clear" /\ ti' = ti
      /\ next' = next /\ bus' = bus /\ taken' = taken /\ slot' = slot
      /\ log' = log
  BY DEF GetSlot, TypeOK, busVars, outVars
<1>2. dp'[ti] = slot[ti] /\ \A d \in Device : d # ti => dp'[d] = dp[d]
  BY <1>1
<1>3. Typed
  BY TypedFacts
<1>4. ASSUME NEW d \in Device PROVE ReportedIsOlder(d)'
  BY <1>1, <1>2 DEF IInv, PipelineOrder, ReportedIsOlder
<1>5. ASSUME NEW d \in Device PROVE PointIsOlder(d)'
  <2>1. CASE d = ti
    BY <2>1, <1>1, <1>2, <1>3
    DEF IInv, PipelineOrder, PointIsOlder, SlotIsOlder, Older, Typed
  <2>2. CASE d # ti
    BY <2>2, <1>1, <1>2 DEF IInv, PipelineOrder, PointIsOlder
  <2>3. QED
    BY <2>1, <2>2
<1>6. ASSUME NEW d \in Device PROVE SlotIsOlder(d)'
  BY <1>1 DEF IInv, PipelineOrder, SlotIsOlder
<1>7. BusIsOrdered'
  BY <1>1 DEF IInv, PipelineOrder, BusIsOrdered
<1>8. ReadingsReportedInOrder'
  BY <1>1 DEF IInv, ReadingsReportedInOrder
<1>9. QED
  BY <1>4, <1>5, <1>6, <1>7, <1>8 DEF IInv, PipelineOrder, Device

\* The timer empties the slot it read.
LEMMA ClearSlotKeepsOrder ==
  ASSUME TypeOK, IInv, ClearSlot
  PROVE  IInv'
<1>1. /\ tpc = "clear" /\ ti \in Device /\ slot \in [Device -> Nat]
      /\ slot' = [slot EXCEPT ![ti] = 0]
      /\ next' = next /\ bus' = bus /\ taken' = taken /\ dp' = dp
      /\ log' = log
  BY DEF ClearSlot, TypeOK, busVars, outVars
<1>2. slot'[ti] = 0 /\ \A d \in Device : d # ti => slot'[d] = slot[d]
  BY <1>1
<1>3. \A d \in Device : d \in Sources => 0 <= next[d]
  BY DEF TypeOK
<1>4. ASSUME NEW d \in Device PROVE ReportedIsOlder(d)'
  BY <1>1, <1>2 DEF IInv, PipelineOrder, ReportedIsOlder, Older
<1>5. ASSUME NEW d \in Device PROVE PointIsOlder(d)'
  BY <1>1, <1>2 DEF IInv, PipelineOrder, PointIsOlder, Older
<1>6. ASSUME NEW d \in Device PROVE SlotIsOlder(d)'
  BY <1>1, <1>2, <1>3 DEF IInv, PipelineOrder, SlotIsOlder, Older
<1>7. BusIsOrdered'
  BY <1>1 DEF IInv, PipelineOrder, BusIsOrdered
<1>8. ReadingsReportedInOrder'
  BY <1>1 DEF IInv, ReadingsReportedInOrder
<1>9. QED
  BY <1>4, <1>5, <1>6, <1>7, <1>8 DEF IInv, PipelineOrder, Device

\* The data point becomes the last one reported.
LEMMA PushPointKeepsOrder ==
  ASSUME TypeOK, IInv, PushPoint
  PROVE  IInv'
<1>1. /\ tpc = "push" /\ dp \in [Device -> Nat]
      /\ log \in Seq([Device -> Nat]) /\ log' = Append(log, dp)
      /\ dp' = EmptyPoint
      /\ next' = next /\ bus' = bus /\ taken' = taken /\ slot' = slot
  BY DEF PushPoint, TypeOK, busVars
<1>2. \A i \in DOMAIN log' :
        \/ i \in DOMAIN log /\ log'[i] = log[i] /\ i < Len(log) + 1
        \/ i = Len(log) + 1 /\ log'[i] = dp
  BY <1>1, AppendFacts
<1>3. \A d \in Device : dp'[d] = 0
  BY <1>1 DEF EmptyPoint
<1>4. \A d \in Device : d \in Sources => 0 <= next[d]
  BY DEF TypeOK
<1>5. \A i \in DOMAIN log : i \in Nat /\ Len(log) \in Nat
  BY <1>1
<1>6. ASSUME NEW d \in Device PROVE ReportedIsOlder(d)'
  <2> SUFFICES ASSUME NEW i \in DOMAIN log'
               PROVE  /\ Older(log'[i][d], dp'[d])
                      /\ Older(log'[i][d], slot'[d])
                      /\ taken'.sub = d => Older(log'[i][d], taken'.n)
                      /\ \A k \in DOMAIN bus' :
                           bus'[k].sub = d => Older(log'[i][d], bus'[k].n)
                      /\ d \in Sources => log'[i][d] <= next'[d]
                      /\ d \notin Sources => log'[i][d] = 0
    BY DEF ReportedIsOlder
  <2>1. CASE i \in DOMAIN log /\ log'[i] = log[i]
    BY <2>1, <1>1, <1>3 DEF IInv, PipelineOrder, ReportedIsOlder, Older
  <2>2. CASE log'[i] = dp
    BY <2>2, <1>1, <1>3 DEF IInv, PipelineOrder, PointIsOlder, Older
  <2>3. QED
    BY <2>1, <2>2, <1>2
<1>7. ASSUME NEW d \in Device PROVE PointIsOlder(d)'
  BY <1>1, <1>3, <1>4 DEF PointIsOlder, Older
<1>8. ASSUME NEW d \in Device PROVE SlotIsOlder(d)'
  BY <1>1 DEF IInv, PipelineOrder, SlotIsOlder
<1>9. BusIsOrdered'
  BY <1>1 DEF IInv, PipelineOrder, BusIsOrdered
<1>10. ReadingsReportedInOrder'
  BY <1>1, <1>2, <1>5
  DEF IInv, PipelineOrder, ReportedIsOlder, ReadingsReportedInOrder, Older, Device
<1>11. QED
  BY <1>6, <1>7, <1>8, <1>9, <1>10 DEF IInv, PipelineOrder, Device

(***************************************************************************)
(* No reading overtakes another between the sensor and M2C_DATA_MQTT.      *)
(***************************************************************************)
THEOREM PipelineOrdered == Spec => [](PipelineOrder /\ ReadingsReportedInOrder)
<1>1. Init => IInv
  <2> SUFFICES ASSUME Init PROVE IInv
    OBVIOUS
  <2>1. /\ \A d \in Device : dp[d] = 0 /\ slot[d] = 0 /\ taken.sub # d
        /\ \A s \in Sources : next[s] = 0
        /\ taken = NoMessage
        /\ DOMAIN bus = {} /\ DOMAIN log = {}
    BY DEF Init, EmptyPoint, NoMessage
  <2>2. ASSUME NEW d \in Device PROVE PointIsOlder(d) /\ SlotIsOlder(d)
    <3>1. dp[d] = 0 /\ slot[d] = 0 /\ taken.sub # d /\ DOMAIN bus = {}
      BY <2>1
    <3>2. d \in Sources => next[d] = 0
      BY <2>1
    <3>3. PointIsOlder(d)
      BY <3>1, <3>2 DEF PointIsOlder, Older
    <3>4. SlotIsOlder(d)
      BY <3>1, <3>2 DEF SlotIsOlder, Older
    <3>5. QED
      BY <3>3, <3>4
  <2>3. ASSUME NEW d \in Device PROVE ReportedIsOlder(d)
    BY <2>1 DEF ReportedIsOlder
  <2>4. BusIsOrdered /\ ReadingsReportedInOrder
    BY <2>1 DEF BusIsOrdered, ReadingsReportedInOrder
  <2>5. QED
    BY <2>2, <2>3, <2>4 DEF IInv, PipelineOrder
<1>2. TypeOK /\ IInv /\ [Next]_vars => IInv'
  <2> SUFFICES ASSUME TypeOK, IInv, [Next]_vars PROVE IInv'
    OBVIOUS
  <2> USE DEF busVars, timerVars, outVars
  <2>1. ASSUME NEW s \in Sources, StartCollecting(s) PROVE IInv'
    BY <2>1, StartCollectingKeepsOrder
  <2>2. CASE ListenerRPop
    BY <2>2, ListenerRPopKeepsOrder
  <2>3. CASE BridgeRestart
    BY <2>3, DropKeepsOrder DEF BridgeRestart
  <2>4. CASE CollectKnown
    BY <2>4, CollectKnownKeepsOrder
  <2>5. CASE CollectIgnored
    BY <2>5, DropKeepsOrder DEF CollectIgnored
  <2>6. CASE CollectNullReference
    BY <2>6, <2>3 DEF CollectNullReference
  <2>7. CASE TimerTick
    BY <2>7, DropKeepsOrder DEF TimerTick
  <2>8. CASE GetSlot
    BY <2>8, GetSlotKeepsOrder
  <2>9. CASE ClearSlot
    BY <2>9, ClearSlotKeepsOrder
  <2>10. CASE DropPoint
    BY <2>10, DropKeepsOrder DEF DropPoint
  <2>11. CASE PushPoint
    BY <2>11, PushPointKeepsOrder
  <2>12. CASE SetLive
    BY <2>12, DropKeepsOrder DEF SetLive
  <2>13. CASE UNCHANGED vars
    BY <2>13, DropKeepsOrder DEF vars
  <2>14. QED
    BY <2>1, <2>2, <2>3, <2>4, <2>5, <2>6, <2>7, <2>8, <2>9, <2>10, <2>11,
       <2>12, <2>13 DEF Next, ProcessCollectData, DataPointProcessor
<1>3. QED
  BY <1>1, <1>2, TypeCorrect, PTL DEF Spec, IInv

(***************************************************************************)
(* live_data only moves forward, and only to a data point that was pushed. *)
(***************************************************************************)
THEOREM LiveMonotone == Spec => [](live <= Len(log)) /\ LiveNeverGoesBack
<1>1. Init => live <= Len(log)
  BY DEF Init
<1>2. TypeOK /\ live <= Len(log) /\ [Next]_vars =>
        (live <= Len(log))' /\ [live' >= live /\ live' <= Len(log)]_live
  <2> SUFFICES ASSUME TypeOK, live <= Len(log), [Next]_vars
               PROVE  /\ (live <= Len(log))'
                      /\ [live' >= live /\ live' <= Len(log)]_live
    OBVIOUS
  <2>0. live \in Nat /\ Len(log) \in Nat
    BY DEF TypeOK
  <2>1. CASE SetLive
    BY <2>0, <2>1 DEF SetLive
  <2>2. CASE PushPoint
    <3>1. Len(log') = Len(log) + 1
      BY <2>2 DEF PushPoint, TypeOK
    <3>2. QED
      BY <2>0, <2>2, <3>1 DEF PushPoint
  <2>3. CASE UNCHANGED <<log, live>>
    BY <2>3
  <2>4. QED
    BY <2>1, <2>2, <2>3 DEF Next, vars, outVars, StartCollecting, ListenerRPop,
       ProcessCollectData, CollectKnown, CollectIgnored, CollectNullReference,
       BridgeRestart, DataPointProcessor, TimerTick, GetSlot, ClearSlot, DropPoint
<1>3. QED
  BY <1>1, <1>2, TypeCorrect, PTL DEF Spec, LiveNeverGoesBack
=============================================================================
