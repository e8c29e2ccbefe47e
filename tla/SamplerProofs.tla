---------------------------- MODULE SamplerProofs ----------------------------
(***************************************************************************)
(* What Sampler reports of the thermometers is true, at every temperature  *)
(* they can have, for every list of tags and every address.                *)
(***************************************************************************)
EXTENDS Sampler, TLAPS

\* What is read is a natural number, or one of the two errors.
Value == Nat \cup {NotOpened, NotRead}

\* The width and the conversion do nothing to a temperature between 0 and 100
\* degrees, and make no error of any other.
LEMMA ConvertFacts ==
  ASSUME NEW t \in Temps
  PROVE  /\ Convert(t) \in Nat
         /\ ~IsError(Convert(t))
         /\ t >= 0 /\ t < 100000 => Convert(t) = t
         /\ Convert(t) % Wrap \in Nat
<1>1. t \in Int /\ -55000 <= t /\ t <= 125000 /\ Wrap \in Nat /\ Wrap > 1000000
  BY SamplerAssumption
<1>2. FirstFive(t) \in Int
  BY <1>1 DEF FirstFive
<1>3. Convert(t) \in Nat
  BY <1>1, <1>2 DEF Convert
<1>4. ~IsError(Convert(t))
  BY <1>3 DEF IsError, NotOpened, NotRead
<1>5. ASSUME t >= 0, t < 100000
      PROVE  Convert(t) = t
  <2>1. FirstFive(t) = t
    BY <1>1, <1>5 DEF FirstFive
  <2>2. t % Wrap = t
    BY <1>1, <1>5
  <2> QED
    BY <2>1, <2>2 DEF Convert
<1>6. Convert(t) % Wrap \in Nat
  BY <1>1, <1>3
<1> QED
  BY <1>3, <1>4, <1>5, <1>6

(***************************************************************************)
(* How a reading and the file it was made of belong together.              *)
(***************************************************************************)
Faithful(s) ==
  /\ read[s].addr = dev[s]
  /\ read[s].file.kind = "good" => temp[s] = Convert(read[s].file.t)
  /\ read[s].file.kind = "none" => temp[s] = NotOpened
  /\ read[s].file.kind = "badcrc" => temp[s] = NotRead

\* The thermometers were made with the addresses that the loop chose.
Made == \A s \in Sensors : dev[s] \in Chosen(group, s)

IInv ==
  /\ TypeOK
  /\ \A s \in Sensors : temp[s] \in Value
  /\ pc \notin {"off", "devices"} => Made
  /\ pc = "off" => good = {} /\ error = {}
  /\ pc = "outdoor" => Faithful("RoomTemperature")
  /\ pc = "push" => \A s \in Sensors : Faithful(s)
  /\ TagsAreTrue

\* The address chosen for a prefix is that of every tag which keeps its own.
LEMMA ChosenFacts ==
  ASSUME TypeOK, NEW i \in DOMAIN group, Keeps(i),
         NEW a \in Chosen(group, group[i].prefix)
  PROVE  a = group[i].addr
<1> DEFINE N == Named(group, group[i].prefix)
<1>1. PICK j \in DOMAIN group :
        /\ group[j] = group[i]
        /\ \A k \in DOMAIN group : group[k].prefix = group[i].prefix => k <= j
  BY DEF Keeps
<1>2. j \in N /\ \A k \in N : k <= j
  BY <1>1 DEF Named
<1>3. PICK k \in N : a = group[k].addr /\ \A m \in N : m <= k
  BY <1>2 DEF Chosen
<1>4. j \in Nat /\ k \in Nat
  BY <1>2, <1>3 DEF Named, TypeOK
<1>5. j = k
  BY <1>2, <1>3, <1>4
<1> QED
  BY <1>1, <1>3, <1>5

\* What is chosen is an address.
LEMMA ChosenTyped ==
  ASSUME TypeOK, NEW s \in Sensors
  PROVE  Chosen(group, s) \subseteq Addrs
<1>1. ASSUME NEW i \in DOMAIN group PROVE group[i].addr \in Addrs
  <2>1. group \in Seq(Tag)
    BY DEF TypeOK
  <2>2. group[i] \in Tag
    BY <2>1
  <2> QED
    BY <2>2 DEF Tag
<1> QED
  BY <1>1 DEF Chosen, Named

\* A reading is of its file, and leaves the other one alone.
LEMMA GetTempFacts ==
  ASSUME IInv, NEW s \in Sensors, NEW f \in Files, NEW from, NEW to,
         to \in {"outdoor", "push"}, GetTemp(s, f, from, to)
  PROVE  /\ TypeOK'
         /\ \A r \in Sensors : temp'[r] \in Value
         /\ Faithful(s)'
         /\ \A r \in Sensors : r # s => temp'[r] = temp[r] /\ read'[r] = read[r]
         /\ pc' = to /\ UNCHANGED <<group, dev>>
<1>1. /\ temp \in [Sensors -> Int] /\ dev \in [Sensors -> Addrs]
      /\ read \in [Sensors -> [addr : Addrs, file : Files]]
      /\ left \in [t : Nat, yes : BOOLEAN]
      /\ \A r \in Sensors : temp[r] \in Value
  BY DEF IInv, TypeOK
<1>2. PICK v \in Results(f) : temp' = [temp EXCEPT ![s] = v]
  BY DEF GetTemp
<1>3. f.kind \in {"none", "empty", "badcrc", "good"}
      /\ (f.kind = "good" => f.t \in Temps)
  BY DEF Files
<1>4. v \in Value
  <2>1. left.t \in Nat
    BY <1>1
  <2>2. f.kind = "good" => Convert(f.t) \in Nat
    BY <1>3, ConvertFacts
  <2>3. CASE f.kind = "good"
    BY <2>2, <2>3 DEF Results, Value
  <2>4. CASE f.kind = "none"
    BY <2>4 DEF Results, Value
  <2>5. CASE f.kind = "badcrc"
    BY <2>5 DEF Results, Value
  <2>6. CASE f.kind = "empty"
    BY <2>1, <2>6 DEF Results, Value
  <2> QED
    BY <1>3, <2>3, <2>4, <2>5, <2>6
<1>5. /\ f.kind = "good" => v = Convert(f.t)
      /\ f.kind = "none" => v = NotOpened
      /\ f.kind = "badcrc" => v = NotRead
  BY DEF Results
<1>6. v \in Int
  BY <1>4 DEF Value, NotOpened, NotRead
<1>7. temp' \in [Sensors -> Int] /\ temp'[s] = v
      /\ \A r \in Sensors : r # s => temp'[r] = temp[r]
  BY <1>1, <1>2, <1>6
<1>8. /\ read' \in [Sensors -> [addr : Addrs, file : Files]]
      /\ read'[s] = [addr |-> dev[s], file |-> f]
      /\ \A r \in Sensors : r # s => read'[r] = read[r]
  BY <1>1 DEF GetTemp
<1>9. left' \in [t : Nat, yes : BOOLEAN]
  <2>1. f.kind = "good" => Convert(f.t) % Wrap \in Nat
    BY <1>3, ConvertFacts
  <2>2. CASE f.kind = "good"
    <3>1. left' = [t |-> Convert(f.t) % Wrap, yes |-> TRUE]
      BY <2>2 DEF GetTemp
    <3> QED
      BY <2>1, <2>2, <3>1
  <2>3. CASE f.kind = "badcrc"
    <3>1. left' = [left EXCEPT !.yes = FALSE]
      BY <2>3 DEF GetTemp
    <3> QED
      BY <1>1, <3>1
  <2>4. CASE f.kind \in {"none", "empty"}
    <3>1. left' = left
      BY <2>4 DEF GetTemp
    <3> QED
      BY <1>1, <3>1
  <2> QED
    BY <1>3, <2>2, <2>3, <2>4
<1>10. pc' = to /\ UNCHANGED <<group, dev, interval, good, error>>
  BY DEF GetTemp
<1>11. TypeOK'
  BY <1>7, <1>8, <1>9, <1>10 DEF IInv, TypeOK
<1> QED
  BY <1>1, <1>4, <1>5, <1>7, <1>8, <1>10, <1>11 DEF Faithful

LEMMA RoomStep ==
  ASSUME IInv, GetRoom
  PROVE  IInv'
<1>1. PICK f \in Files : GetTemp("RoomTemperature", f, "room", "outdoor")
  BY DEF GetRoom
<1>2. pc = "room" /\ pc' = "outdoor"
  BY <1>1 DEF GetTemp
<1>3. TypeOK' /\ (\A r \in Sensors : temp'[r] \in Value)
      /\ Faithful("RoomTemperature")' /\ UNCHANGED <<group, dev>>
  BY <1>1, GetTempFacts DEF Sensors
<1>4. Made'
  BY <1>2, <1>3 DEF IInv, Made
<1> QED
  BY <1>2, <1>3, <1>4 DEF IInv, TagsAreTrue, Sent

LEMMA OutdoorStep ==
  ASSUME IInv, GetOutdoor
  PROVE  IInv'
<1>1. PICK f \in Files : GetTemp("OutdoorTemperature", f, "outdoor", "push")
  BY DEF GetOutdoor
<1>2. pc = "outdoor" /\ pc' = "push"
  BY <1>1 DEF GetTemp
<1>3. /\ TypeOK' /\ (\A r \in Sensors : temp'[r] \in Value)
      /\ Faithful("OutdoorTemperature")'
      /\ \A r \in Sensors : r # "OutdoorTemperature"
                              => temp'[r] = temp[r] /\ read'[r] = read[r]
      /\ UNCHANGED <<group, dev>>
  BY <1>1, GetTempFacts DEF Sensors
<1>4. Faithful("RoomTemperature")'
  BY <1>2, <1>3 DEF IInv, Faithful, Sensors
<1>5. \A s \in Sensors : Faithful(s)'
  BY <1>3, <1>4 DEF Sensors
<1>6. Made'
  BY <1>2, <1>3 DEF IInv, Made
<1> QED
  BY <1>2, <1>3, <1>5, <1>6 DEF IInv, TagsAreTrue, Sent

\* The tags that are pushed are those of the readings.
LEMMA PushStep ==
  ASSUME IInv, Push
  PROVE  IInv'
<1> DEFINE Known == {i \in DOMAIN group : group[i].prefix \in Sensors}
<1>1. /\ pc = "push" /\ pc' = "sleep"
      /\ error' = {i \in Known : IsError(temp[group[i].prefix])}
      /\ good' = {<<i, temp[group[i].prefix]>> :
                    i \in {j \in Known : ~IsError(temp[group[j].prefix])}}
      /\ UNCHANGED <<group, dev, interval, temp, left, read>>
  BY DEF Push
<1>2. \A s \in Sensors : /\ Faithful(s) /\ temp[s] \in Value
                         /\ (~IsError(temp[s]) => temp[s] \in Nat)
  BY <1>1 DEF IInv, Value, IsError
<1>3. good' \subseteq (DOMAIN group) \X Nat
  BY <1>1, <1>2
<1>4. error' \subseteq DOMAIN group
  BY <1>1
<1>5. TypeOK'
  BY <1>1, <1>3, <1>4 DEF IInv, TypeOK
<1>6. Made'
  BY <1>1 DEF IInv, Made
<1>7. TagsAreTrue'
  <2> SUFFICES ASSUME NEW i \in DOMAIN group, Keeps(i)
               PROVE  LET r == read[group[i].prefix]
                          f == r.file
                      IN  /\ r.addr = group[i].addr
                          /\ f.kind = "good" => i \notin error'
                          /\ f.kind \in {"none", "badcrc"} => i \in error'
                          /\ f.kind = "good" /\ f.t >= 0 /\ f.t < 100000
                               => <<i, f.t>> \in good'
    BY <1>1 DEF TagsAreTrue, Keeps
  <2> DEFINE s == group[i].prefix
             f == read[s].file
  <2>1. s \in Sensors /\ f \in Files /\ i \in Known
    BY DEF Keeps, IInv, TypeOK
  <2>2. read[s].addr = group[i].addr
    <3>1. dev[s] \in Chosen(group, s)
      BY <1>1, <2>1 DEF IInv, Made
    <3>2. TypeOK
      BY DEF IInv
    <3>3. dev[s] = group[i].addr
      BY <3>1, <3>2, ChosenFacts
    <3> QED
      BY <1>2, <2>1, <3>3 DEF Faithful
  <2>3. f.kind = "good" => f.t \in Temps /\ temp[s] = Convert(f.t)
    BY <1>2, <2>1 DEF Files, Faithful
  <2>4. f.kind = "good" => ~IsError(temp[s])
    BY <2>3, ConvertFacts
  <2>5. f.kind \in {"none", "badcrc"} => IsError(temp[s])
    BY <1>2, <2>1 DEF Faithful, IsError
  <2>6. f.kind = "good" /\ f.t >= 0 /\ f.t < 100000 => temp[s] = f.t
    BY <2>3, ConvertFacts
  <2>7. ~IsError(temp[s]) => <<i, temp[s]>> \in good'
    BY <1>1, <2>1
  <2>8. i \in error' <=> IsError(temp[s])
    BY <1>1, <2>1
  <2> QED
    BY <2>2, <2>4, <2>5, <2>6, <2>7, <2>8
<1> QED
  BY <1>1, <1>2, <1>5, <1>6, <1>7 DEF IInv

\* The devices are made of what was chosen.
LEMMA MakeStep ==
  ASSUME IInv, MakeDevices
  PROVE  IInv'
<1>1. PICK room  \in Chosen(group, "RoomTemperature"),
           outer \in Chosen(group, "OutdoorTemperature") :
        dev' = [s \in Sensors |-> IF s = "RoomTemperature" THEN room ELSE outer]
  BY DEF MakeDevices
<1>2. pc' = "interval" /\ UNCHANGED <<group, interval, temp, left, read, good, error>>
  BY DEF MakeDevices
<1>3. room \in Addrs /\ outer \in Addrs
  BY ChosenTyped DEF IInv, Sensors
<1>4. dev' \in [Sensors -> Addrs]
  BY <1>1, <1>3
<1>5. TypeOK'
  BY <1>2, <1>4 DEF IInv, TypeOK
<1>6. Made'
  BY <1>1, <1>2 DEF Made, Sensors
<1> QED
  BY <1>2, <1>5, <1>6 DEF IInv, TagsAreTrue, Sent

LEMMA IInvStep ==
  ASSUME IInv, [Next]_vars
  PROVE  IInv'
<1>1. CASE LoadGroup
  <2>1. group' \in Seq(Tag)
    BY <1>1, SamplerAssumption DEF LoadGroup
  <2>2. good = {} /\ error = {} => TypeOK'
    BY <1>1, <2>1 DEF LoadGroup, IInv, TypeOK
  <2>3. good = {} /\ error = {}
    BY <1>1 DEF LoadGroup, IInv
  <2> QED
    BY <1>1, <2>2, <2>3 DEF LoadGroup, IInv, TagsAreTrue, Sent
<1>2. CASE GetInterval
  <2>1. TypeOK'
    BY <1>2 DEF GetInterval, IInv, TypeOK
  <2>2. Made'
    BY <1>2 DEF GetInterval, IInv, Made
  <2> QED
    BY <1>2, <2>1, <2>2 DEF GetInterval, IInv, TagsAreTrue, Sent
<1>3. CASE Sleep
  <2>1. pc' \in {"sleeping", "room"}
    BY <1>3 DEF Sleep
  <2>2. TypeOK'
    BY <1>3, <2>1 DEF Sleep, IInv, TypeOK
  <2>3. Made'
    BY <1>3 DEF Sleep, IInv, Made
  <2> QED
    BY <1>3, <2>1, <2>2, <2>3 DEF Sleep, IInv, TagsAreTrue, Sent
<1>4. CASE Respawn
  <2>1. left' \in [t : Nat, yes : BOOLEAN] /\ group' \in Seq(Tag)
    BY <1>4 DEF Respawn
  <2>2. TypeOK'
    BY <1>4, <2>1 DEF Respawn, IInv, TypeOK
  <2> QED
    BY <1>4, <2>2 DEF Respawn, IInv, TagsAreTrue, Sent
<1>5. CASE UNCHANGED vars
  BY <1>5 DEF vars, IInv, TypeOK, Made, Faithful, TagsAreTrue, Sent, Keeps
<1> QED
  BY <1>1, <1>2, <1>3, <1>4, <1>5, MakeStep, RoomStep, OutdoorStep, PushStep
     DEF Next, StartCollecting, Loop

LEMMA IInvInit == Init => IInv
<1> SUFFICES ASSUME Init PROVE IInv
  OBVIOUS
<1>1. left \in [t : Nat, yes : BOOLEAN] /\ group \in Seq(Tag)
  BY DEF Init
<1>2. temp \in [Sensors -> Int] /\ \A s \in Sensors : temp[s] \in Value
  BY DEF Init, Value, NotRead
<1>3. [kind |-> "none", t |-> 0] \in Files
  BY DEF Files
<1>4. dev \in [Sensors -> Addrs] /\ read \in [Sensors -> [addr : Addrs, file : Files]]
  BY <1>3 DEF Init
<1>5. TypeOK
  BY <1>1, <1>2, <1>4 DEF Init, TypeOK
<1> QED
  BY <1>2, <1>5 DEF Init, IInv, TagsAreTrue, Sent

LEMMA IInvInvariance == Spec => []IInv
  BY IInvInit, IInvStep, PTL DEF Spec

\* Every variable of the collecting loop has its type; a good tag carries a
\* natural number.
THEOREM SamplerTypeCorrect == Spec => []TypeOK
<1>1. IInv => TypeOK
  BY DEF IInv
<1> QED
  BY IInvInvariance, <1>1, PTL

\* Whatever list SENSOR_GROUP gives, and at every temperature a DS18B20 can
\* have: a tag whose address no later tag of its prefix replaced is reported
\* from the file of that address, a thermometer that was read is not taken for
\* one that was not, nor the other way round, and between 0 and 100 degrees the
\* tag has its temperature (SensorDevice.cpp:86-96, 117-167, DS18B20.cpp:14-38).
THEOREM TagsStayTrue == Spec => []TagsAreTrue
<1>1. IInv => TagsAreTrue
  BY DEF IInv
<1> QED
  BY IInvInvariance, <1>1, PTL
=============================================================================
