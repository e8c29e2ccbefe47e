------------------------ MODULE GatewayConfigProofs ------------------------
(***************************************************************************)
(* The processes of the gateway agree about the configuration, a restart   *)
(* yields it again and nothing that was installed is lost, for every       *)
(* installation, every identity the interfaces may yield and every content *)
(* of an uninitialized variable.                                           *)
(***************************************************************************)
EXTENDS GatewayConfig, FiniteSetTheorems, WellFoundedInduction, TLAPS

-----------------------------------------------------------------------------
(***************************************************************************)
(* Induction.  What a loop over an array computes is shown by induction    *)
(* over its passes, which rests on the order of the numbers being well-    *)
(* founded.                                                                *)
(***************************************************************************)

\* The order of the numbers is well-founded.
LEMMA Descent == \E R : /\ IsWellFoundedOn(R, Nat)
                        /\ \A x, y \in Nat : y < x => <<y, x>> \in R
<1>1. IsWellFoundedOn(OpToRel(<, Nat), Nat)
  BY NatLessThanWellFounded, Zenon
<1>2. \A x, y \in Nat : y < x => <<y, x>> \in OpToRel(<, Nat)
  BY DEF OpToRel
<1>3. QED
  BY <1>1, <1>2, Zenon

\* A set of numbers has a least one.
LEMMA Least ==
  ASSUME NEW T \in SUBSET Nat, T # {}
  PROVE \E x \in T : \A y \in T : x <= y
<1>1. PICK R : /\ IsWellFoundedOn(R, Nat)
               /\ \A x, y \in Nat : y < x => <<y, x>> \in R
  BY Descent
<1>2. PICK x \in T : \A y \in T : ~ (<<y, x>> \in R)
  BY <1>1, WFMin
<1>3. ASSUME NEW y \in T PROVE x <= y
  <2>1. x \in Nat /\ y \in Nat
    OBVIOUS
  <2>2. ~(y < x)
    BY <1>1, <1>2, <2>1, Zenon
  <2>3. QED
    BY <2>1, <2>2
<1>4. QED
  BY <1>3

\* A set with 0 and with every successor has all numbers.
LEMMA Induct ==
  ASSUME NEW S \in SUBSET Nat, 0 \in S, \A n \in S : n + 1 \in S
  PROVE S = Nat
<1> SUFFICES ASSUME S # Nat PROVE FALSE
  OBVIOUS
<1>1. PICK x \in Nat \ S : \A y \in Nat \ S : x <= y
  BY Least
<1>2. x # 0 /\ x - 1 \in Nat
  BY <1>1
<1>3. x - 1 \in S
  BY <1>1, <1>2
<1>4. (x - 1) + 1 \in S
  BY <1>3
<1>5. QED
  BY <1>1, <1>2, <1>4

-----------------------------------------------------------------------------
(***************************************************************************)
(* The loops of Load(): g[i] is the variable after i elements of arr.      *)
(***************************************************************************)
Steps(v, arr, g, n) ==
  g = [i \in 0 .. n |-> IF i = 0 THEN v ELSE LoadObject(g[i - 1], arr[i])]

\* The loop has its passes ...
LEMMA StepsExist ==
  ASSUME NEW v, NEW arr, NEW n \in Nat
  PROVE  \E g : Steps(v, arr, g, n)
<1> DEFINE S == {m \in Nat : \E g : Steps(v, arr, g, m)}
<1>1. 0 \in S
  <2> DEFINE g == [i \in 0 .. 0 |-> v]
  <2>1. Steps(v, arr, g, 0)
    BY DEF Steps
  <2> QED
    BY <2>1
<1>2. ASSUME NEW m \in S PROVE m + 1 \in S
  <2>1. PICK g : Steps(v, arr, g, m)
    OBVIOUS
  <2> DEFINE h == [i \in 0 .. (m + 1) |->
                     IF i <= m THEN g[i] ELSE LoadObject(g[m], arr[m + 1])]
  <2>2. Steps(v, arr, h, m + 1)
    BY <2>1 DEF Steps
  <2> QED
    BY <2>2
<1> QED
  <2> HIDE DEF S
  <2>1. S = Nat
    <3>1. S \in SUBSET Nat
      BY DEF S
    <3> QED
      BY <1>1, <1>2, <3>1, Induct
  <2> QED
    BY <2>1 DEF S

\* ... and LoadArray yields the variable after each of them.
LEMMA LoadArrayStep ==
  ASSUME NEW v, NEW arr, Len(arr) \in Nat, DOMAIN arr = 1 .. Len(arr)
  PROVE  \E g : /\ Steps(v, arr, g, Len(arr))
                /\ LoadArray(v, arr) = [i \in 1 .. Len(arr) |-> g[i]]
<1> DEFINE g == CHOOSE g : Steps(v, arr, g, Len(arr))
<1>1. Steps(v, arr, g, Len(arr))
  BY StepsExist
<1>2. LoadArray(v, arr) = [i \in 1 .. Len(arr) |-> g[i]]
  BY DEF LoadArray, Steps
<1> QED
  BY <1>1, <1>2

\* An array of JSON has its elements at 1, 2, and so on.
LEMMA ArrayFacts ==
  ASSUME NEW a, IsArray(a)
  PROVE  Len(a) \in Nat /\ DOMAIN a = 1 .. Len(a)
  BY DEF IsArray

\* All fields of v, none of them null.
Full(v, e) == e = [k \in DOMAIN v |-> e[k]] /\ NoNull(e)

\* A list of such elements.
Rows(v, list) ==
  /\ Len(list) \in Nat
  /\ list = [i \in 1 .. Len(list) |-> list[i]]
  /\ \A i \in 1 .. Len(list) : Full(v, list[i])

\* Reading an object leaves no field without a value.
LEMMA LoadObjectFull ==
  ASSUME NEW v, NEW e, NEW jc, DOMAIN e = DOMAIN v, NoNull(e)
  PROVE  Full(v, LoadObject(e, jc))
  BY DEF Full, LoadObject, JGET, Gives, NoNull

\* Nor does any pass of the loop.
LEMMA StepsFull ==
  ASSUME NEW v, NoNull(v), NEW arr, NEW n \in Nat, NEW g, Steps(v, arr, g, n)
  PROVE  /\ \A i \in 0 .. n : DOMAIN g[i] = DOMAIN v /\ NoNull(g[i])
         /\ \A i \in 1 .. n : g[i] = LoadObject(g[i - 1], arr[i]) /\ Full(v, g[i])
<1> DEFINE S == {m \in Nat : m <= n => DOMAIN g[m] = DOMAIN v /\ NoNull(g[m])}
<1>a. /\ g[0] = v
      /\ \A i \in 1 .. n : g[i] = LoadObject(g[i - 1], arr[i])
  BY DEF Steps
<1>1. 0 \in S
  BY <1>a
<1>2. ASSUME NEW m \in S PROVE m + 1 \in S
  <2> SUFFICES ASSUME m + 1 <= n PROVE DOMAIN g[m + 1] = DOMAIN v /\ NoNull(g[m + 1])
    OBVIOUS
  <2>1. m \in Nat /\ m <= n /\ m + 1 \in 1 .. n /\ (m + 1) - 1 = m
    OBVIOUS
  <2>2. DOMAIN g[m] = DOMAIN v /\ NoNull(g[m])
    BY <2>1
  <2>3. g[m + 1] = LoadObject(g[m], arr[m + 1])
    BY <2>1, <1>a
  <2>4. Full(v, g[m + 1])
    BY <2>2, <2>3, LoadObjectFull
  <2> QED
    BY <2>4 DEF Full
<1> HIDE DEF S
<1>3. S = Nat
  <2>1. S \in SUBSET Nat
    BY DEF S
  <2> QED
    BY <1>1, <1>2, <2>1, Induct
<1>4. \A i \in 0 .. n : DOMAIN g[i] = DOMAIN v /\ NoNull(g[i])
  BY <1>3 DEF S
<1>5. ASSUME NEW i \in 1 .. n PROVE Full(v, g[i])
  <2>1. i - 1 \in 0 .. n
    OBVIOUS
  <2> QED
    BY <1>a, <1>4, <2>1, LoadObjectFull
<1> QED
  BY <1>a, <1>4, <1>5

\* What the loop yields has one element for each of the array.
LEMMA LoadedRows ==
  ASSUME NEW v, NoNull(v), NEW arr, Len(arr) \in Nat, DOMAIN arr = 1 .. Len(arr)
  PROVE  /\ Rows(v, LoadArray(v, arr))
         /\ Len(LoadArray(v, arr)) = Len(arr)
         /\ DOMAIN LoadArray(v, arr) = 1 .. Len(arr)
<1>1. PICK g : /\ Steps(v, arr, g, Len(arr))
               /\ LoadArray(v, arr) = [i \in 1 .. Len(arr) |-> g[i]]
  BY LoadArrayStep
<1>2. \A i \in 1 .. Len(arr) : Full(v, g[i])
  BY <1>1, StepsFull
<1> DEFINE l == [i \in 1 .. Len(arr) |-> g[i]]
<1>3. l \in Seq({g[i] : i \in 1 .. Len(arr)})
  OBVIOUS
<1>4. Len(l) = Len(arr)
  BY <1>3
<1> QED
  BY <1>1, <1>2, <1>4 DEF Rows

\* A list without gaps is loaded as it is: no field is taken from the element
\* before.
LEMMA RowsReload ==
  ASSUME NEW v, NoNull(v), NEW list, Rows(v, list)
  PROVE  LoadArray(v, list) = list /\ DOMAIN list = 1 .. Len(list)
<1>0. Len(list) \in Nat /\ DOMAIN list = 1 .. Len(list)
  BY DEF Rows
<1>1. PICK g : /\ Steps(v, list, g, Len(list))
               /\ LoadArray(v, list) = [i \in 1 .. Len(list) |-> g[i]]
  BY <1>0, LoadArrayStep
<1>2. ASSUME NEW i \in 1 .. Len(list) PROVE g[i] = list[i]
  <2>1. i - 1 \in 0 .. Len(list)
    BY <1>0
  <2>2. g[i] = LoadObject(g[i - 1], list[i]) /\ DOMAIN g[i - 1] = DOMAIN v
    BY <1>0, <1>1, <2>1, StepsFull
  <2>3. Full(v, list[i])
    BY DEF Rows
  <2> QED
    BY <2>2, <2>3 DEF Full, LoadObject, JGET, Gives, NoNull
<1> QED
  BY <1>0, <1>1, <1>2 DEF Rows

\* The loop takes every value that an element gives.
LEMMA LoadedFollows ==
  ASSUME NEW v, NoNull(v), NEW arr, Len(arr) \in Nat, DOMAIN arr = 1 .. Len(arr)
  PROVE  /\ \A i \in DOMAIN arr : Follows(v, LoadArray(v, arr)[i], arr[i])
         /\ AllFollow(v, LoadArray(v, arr), arr)
<1>1. PICK g : /\ Steps(v, arr, g, Len(arr))
               /\ LoadArray(v, arr) = [j \in 1 .. Len(arr) |-> g[j]]
  BY LoadArrayStep
<1>2. ASSUME NEW i \in 1 .. Len(arr) PROVE Follows(v, LoadArray(v, arr)[i], arr[i])
  <2>1. i - 1 \in 0 .. Len(arr)
    OBVIOUS
  <2>2. g[i] = LoadObject(g[i - 1], arr[i]) /\ DOMAIN g[i - 1] = DOMAIN v
    BY <1>1, <2>1, StepsFull
  <2>3. LoadArray(v, arr)[i] = g[i]
    BY <1>1
  <2> QED
    BY <2>2, <2>3 DEF LoadObject, JGET, Follows
<1>3. Len(LoadArray(v, arr)) = Len(arr)
  BY LoadedRows
<1> QED
  BY <1>2, <1>3 DEF AllFollow

-----------------------------------------------------------------------------
\* The sections that the Manager loads.
MgrSections == {"Manager", "Collector", "RegInfo", "MQTT", "DFRelayState"}

\* What the lists Entries say.
LEMMA EntriesFacts ==
  /\ Range(Entries["MANAGER"]) = MgrSections
  /\ \A p \in Proc : Range(Entries[p]) \subseteq Section
  /\ \A p \in Child : "DFRelayState" \in Range(Entries[p]) => p = "SENSOR"
  BY DEF Entries, Range, MgrSections, Section, Proc, Child

\* But for the spoilt strings, what is loaded depends on Redis alone.
LEMMA SureLoad ==
  ASSUME NEW s \in Section, NEW jc, NEW c, NEW d
  PROVE  Sure(Load(s, jc, c)) = Sure(Load(s, jc, d))
<1>1. CASE s = "RegInfo"
  BY <1>1 DEF Load, RegInfoLoad, Sure
<1>2. CASE s = "MQTT"
  BY <1>2 DEF Load, MqttLoad, Sure
<1>3. CASE s \in Section \ {"RegInfo", "MQTT"}
  <2>1. Load(s, jc, c) = Load(s, jc, d)
    BY <1>3 DEF Load, Section
  <2> QED
    BY <2>1
<1> QED
  BY <1>1, <1>2, <1>3

\* Fields that were saved are loaded again.
LEMMA FieldsReload ==
  ASSUME NEW v, NEW e, Full(v, e), NEW jc,
         \A k \in DOMAIN v : k \in DOMAIN jc /\ jc[k] = e[k]
  PROVE  LoadObject(v, jc) = e
  BY DEF Full, LoadObject, JGET, Gives, NoNull

\* A list that was saved is loaded again.
LEMMA ListReload ==
  ASSUME NEW v, NoNull(v), NEW list, Rows(v, list), list # Null, NEW jc, NEW k,
         k \in DOMAIN jc, NEW old, old = Null => list = <<>>,
         jc[k] = IF old = Null THEN Null ELSE list
  PROVE  Elements(v, jc, k) = list
<1>1. CASE old = Null
  BY <1>1, RowsReload DEF Elements, Array, JGET_ARR
<1>2. CASE old # Null
  BY <1>2, RowsReload DEF Elements, Array, JGET_ARR
<1> QED
  BY <1>1, <1>2

\* What JSave() makes of the section Manager is loaded as it was saved, and
\* keeps the keys that are no fields.
LEMMA ManagerReload ==
  ASSUME NEW v, NEW jc, Full(ManagerClear, v.fields), Rows(ProcessConfig, v.list),
         v = [fields |-> v.fields, list |-> v.list], v.list # Null,
         JGET_ARR(jc, "Children") = Null => v.list = <<>>
  PROVE  /\ ManagerLoad(ManagerJSave(v, jc)) = v
         /\ DOMAIN ManagerJSave(v, jc) = DOMAIN ManagerClear \cup DOMAIN jc \cup {"Children"}
         /\ \A k \in DOMAIN jc \ (DOMAIN ManagerClear \cup {"Children"}) :
              ManagerJSave(v, jc)[k] = jc[k]
<1> DEFINE mid == Override(v.fields, jc)
           out == SetArray(mid, "Children", v.list)
<1>0. ManagerJSave(v, jc) = out
  BY DEF ManagerJSave
<1>1. DOMAIN v.fields = DOMAIN ManagerClear /\ "Children" \notin DOMAIN ManagerClear
  BY DEF Full, ManagerClear
<1>2. /\ DOMAIN mid = DOMAIN ManagerClear \cup DOMAIN jc
      /\ \A k \in DOMAIN ManagerClear : mid[k] = v.fields[k]
      /\ \A k \in DOMAIN jc \ DOMAIN ManagerClear : mid[k] = jc[k]
  BY <1>1 DEF Override
<1>3. JGET_ARR(mid, "Children") = JGET_ARR(jc, "Children")
  BY <1>1, <1>2 DEF JGET_ARR
<1> HIDE DEF mid
<1>4. /\ DOMAIN out = DOMAIN mid \cup {"Children"}
      /\ out["Children"] = IF JGET_ARR(jc, "Children") = Null THEN Null ELSE v.list
      /\ \A x \in DOMAIN mid \ {"Children"} : out[x] = mid[x]
  BY <1>3 DEF SetArray, Override
<1> HIDE DEF out
<1>5. LoadObject(ManagerClear, out) = v.fields
  BY <1>1, <1>2, <1>4, FieldsReload
<1>6. Elements(ProcessConfig, out, "Children") = v.list
  BY <1>4, ListReload, NullAssumption
<1> QED
  BY <1>0, <1>1, <1>2, <1>4, <1>5, <1>6 DEF ManagerLoad

\* The same of the relays ...
LEMMA RelayReload ==
  ASSUME NEW v, NEW jc, v = [fields |-> <<>>, list |-> v.list],
         Rows(RelayState, v.list), v.list # Null,
         JGET_ARR(jc, "Relays") = Null => v.list = <<>>
  PROVE  /\ DFRelayStateLoad(DFRelayStateJSave(v, jc)) = v
         /\ DOMAIN DFRelayStateJSave(v, jc) = DOMAIN jc \cup {"Relays"}
         /\ \A k \in DOMAIN jc \ {"Relays"} : DFRelayStateJSave(v, jc)[k] = jc[k]
<1> DEFINE out == SetArray(jc, "Relays", v.list)
<1>0. DFRelayStateJSave(v, jc) = out
  BY DEF DFRelayStateJSave
<1>4. /\ DOMAIN out = DOMAIN jc \cup {"Relays"}
      /\ out["Relays"] = IF JGET_ARR(jc, "Relays") = Null THEN Null ELSE v.list
      /\ \A x \in DOMAIN jc \ {"Relays"} : out[x] = jc[x]
  BY DEF SetArray, Override
<1> HIDE DEF out
<1>6. Elements(RelayState, out, "Relays") = v.list
  BY <1>4, ListReload, NullAssumption
<1> QED
  BY <1>0, <1>4, <1>6 DEF DFRelayStateLoad

\* The fields of RegInfo but RestAPI, none of them null.
RegFull(v) ==
  /\ DOMAIN v.fields = DOMAIN RegInfoClear
  /\ \A k \in DOMAIN RegInfoClear \ {"RestAPI"} : v.fields[k] # Null
  /\ v.list = <<>>

\* ... and of RegInfo, but for the string that StrRemove may spoil.
LEMMA RegInfoReload ==
  ASSUME NEW v, NEW jc, RegFull(v), NEW c
  PROVE  /\ Sure(RegInfoLoad(RegInfoJSave(v, jc), c)) = Sure(v)
         /\ DOMAIN RegInfoJSave(v, jc) = DOMAIN RegInfoClear \cup DOMAIN jc
         /\ RegInfoJSave(v, jc).DevID = v.fields.DevID
         /\ \A k \in DOMAIN jc \ DOMAIN RegInfoClear : RegInfoJSave(v, jc)[k] = jc[k]
<1> DEFINE out == Override(v.fields, jc)
<1>0. RegInfoJSave(v, jc) = out
  BY DEF RegInfoJSave
<1>1. /\ DOMAIN out = DOMAIN RegInfoClear \cup DOMAIN jc
      /\ \A k \in DOMAIN RegInfoClear : out[k] = v.fields[k]
      /\ \A k \in DOMAIN jc \ DOMAIN RegInfoClear : out[k] = jc[k]
  BY DEF RegFull, Override
<1>2. "DevID" \in DOMAIN RegInfoClear
  BY DEF RegInfoClear
<1> HIDE DEF out
<1>3. \A k \in DOMAIN RegInfoClear \ {"RestAPI"} : LoadObject(RegInfoClear, out)[k] = v.fields[k]
  BY <1>1 DEF LoadObject, JGET, Gives, RegFull
<1>4. DOMAIN LoadObject(RegInfoClear, out) = DOMAIN RegInfoClear
  BY DEF LoadObject
<1>5. Sure(RegInfoLoad(out, c)) = Sure(v)
  BY <1>3, <1>4 DEF RegInfoLoad, Sure, RegFull
<1> QED
  BY <1>0, <1>1, <1>2, <1>5

-----------------------------------------------------------------------------
(***************************************************************************)
(* The inductive invariant.  The processes are compared with Redis, not    *)
(* with each other: each section in a memory is what loading it now would  *)
(* yield, except where the Manager has just changed it or the sensor       *)
(* process is about to be respawned for the change.                        *)
(***************************************************************************)

\* The sections that the Manager writes.
Savable == {"Manager", "RegInfo", "DFRelayState"}

\* What a process that loads section s now gets, but for the spoilt strings.
Stored(s) == Sure(Load(s, redis[s], Null))

\* The identity in section jc.
DevOf(jc) == JGET(EmptyStr, jc, "DevID")

\* Where the Manager is tells which processes there are, and JConf is Redis.
Shape ==
  /\ installed \in Installed
  /\ DOMAIN redis = Section
  /\ pc \in {"down", "identify", "save_id", "spawn", "run", "save_relay",
             "respawn"}
  /\ spawned \in Nat
  /\ pc = "down" => DOMAIN mem = {} /\ DOMAIN jconf = {}
  /\ pc # "down" =>
       /\ "MANAGER" \in DOMAIN mem
       /\ DOMAIN mem["MANAGER"] = MgrSections
       /\ jconf = [s \in MgrSections |-> redis[s]]
  /\ pc \in {"identify", "save_id"} => DOMAIN mem = {"MANAGER"}
  /\ DOMAIN mem \subseteq Proc
  /\ \A p \in DOMAIN mem : DOMAIN mem[p] \subseteq Range(Entries[p])

\* What is in Redis still loads as what was installed, but for the relays,
\* which may have been switched, and the identity.
Docs ==
  /\ \A s \in Section \ Savable : redis[s] = installed[s]
  /\ ForeignKeysSurvive
  /\ Elements(ProcessConfig, redis["Manager"], "Children")
       = Elements(ProcessConfig, installed["Manager"], "Children")
  /\ Elements(RelayState, redis["DFRelayState"], "Relays") \in RelayLists(installed)

\* The sections that the Manager may save have all their fields, so that
\* loading them again takes nothing from a default or another element.
Held(m) ==
  /\ m["Manager"] = [fields |-> m["Manager"].fields, list |-> m["Manager"].list]
  /\ Full(ManagerClear, m["Manager"].fields)
  /\ m["Manager"].list = Elements(ProcessConfig, installed["Manager"], "Children")
  /\ m["RegInfo"] = [fields |-> m["RegInfo"].fields, list |-> m["RegInfo"].list]
  /\ RegFull(m["RegInfo"])
  /\ m["DFRelayState"] = [fields |-> <<>>, list |-> m["DFRelayState"].list]

\* What the processes hold.
Memory ==
  /\ pc # "down" => Held(mem["MANAGER"])
  /\ \A p \in DOMAIN mem : "DFRelayState" \in DOMAIN mem[p] =>
       mem[p]["DFRelayState"].list \in RelayLists(installed)

\* What a process holds and Redis does not have yet, or no longer.
Exempt(p, s) ==
  \/ s = "RegInfo" /\ pc = "save_id"
  \/ s = "DFRelayState" /\ p = "MANAGER" /\ pc = "save_relay"
  \/ s = "DFRelayState" /\ p = "SENSOR" /\ pc = "respawn"

Agree ==
  \A p \in DOMAIN mem : \A s \in DOMAIN mem[p] :
    Exempt(p, s) \/ Sure(mem[p][s]) = Stored(s)

\* An identity is made only if there is none, and from then on there is one.
Identity ==
  /\ pc \in {"identify", "save_id"} => DevOf(redis["RegInfo"]) = EmptyStr
  /\ pc = "save_id" => DevID(mem["MANAGER"]) \in Identities
  /\ pc \notin {"down", "identify", "save_id"} =>
       /\ DevOf(redis["RegInfo"]) # EmptyStr
       /\ queueId = DevOf(redis["RegInfo"])

IInv == Shape /\ Docs /\ Memory /\ Agree /\ Identity

-----------------------------------------------------------------------------
\* An empty array yields an empty list.
LEMMA EmptyLoad ==
  ASSUME NEW v
  PROVE  LoadArray(v, <<>>) = <<>>
<1>1. Len(<<>>) = 0 /\ DOMAIN <<>> = 1 .. Len(<<>>)
  OBVIOUS
<1>2. PICK g : LoadArray(v, <<>>) = [i \in 1 .. Len(<<>>) |-> g[i]]
  BY <1>1, LoadArrayStep
<1> QED
  BY <1>1, <1>2

\* The installed children are programs of the gateway, with all fields.
LEMMA ChildrenFacts ==
  ASSUME NEW db \in Installed
  PROVE  LET list == Elements(ProcessConfig, db["Manager"], "Children")
         IN  /\ Rows(ProcessConfig, list) /\ list # Null
             /\ DOMAIN list = 1 .. Len(list)
             /\ \A i \in 1 .. Len(list) : list[i].Protocol \in Child
<1> DEFINE arr == Array(db["Manager"], "Children")
           list == Elements(ProcessConfig, db["Manager"], "Children")
<1>1. IsArray(arr) /\ list # Null /\ \A i \in DOMAIN list : list[i].Protocol \in Child
  BY ConfigAssumption
<1>2. Len(arr) \in Nat /\ DOMAIN arr = 1 .. Len(arr)
  BY <1>1, ArrayFacts
<1>3. list = LoadArray(ProcessConfig, arr)
  BY DEF Elements
<1> HIDE DEF arr, list
<1>4. Rows(ProcessConfig, list) /\ DOMAIN list = 1 .. Len(list)
  BY <1>2, <1>3, LoadedRows, NullAssumption
<1> QED
  BY <1>1, <1>4 DEF list

\* The relays have all fields, and a relay that is switched is off or on.
LEMMA RelayFacts ==
  ASSUME NEW db \in Installed, NEW l \in RelayLists(db)
  PROVE  /\ Rows(RelayState, l) /\ l # Null
         /\ DOMAIN l = 1 .. Len(l)
         /\ \A i \in 1 .. Len(l) : l[i].state \in {0, 1}
         /\ \A i \in 1 .. Len(l) :
              [l EXCEPT ![i].state = 1 - @] \in RelayLists(db)
         /\ \A m \in RelayLists(db) : m = <<>> => l = <<>>
<1> DEFINE arr == Array(db["DFRelayState"], "Relays")
           list == Elements(RelayState, db["DFRelayState"], "Relays")
           Set(on) == [i \in DOMAIN list |-> [list[i] EXCEPT !.state = on[i]]]
<1>1. IsArray(arr) /\ Null \notin RelayLists(db)
  BY ConfigAssumption
<1>2. Len(arr) \in Nat /\ DOMAIN arr = 1 .. Len(arr)
  BY <1>1, ArrayFacts
<1>3. list = LoadArray(RelayState, arr)
  BY DEF Elements
<1>4. RelayLists(db) = {Set(on) : on \in [DOMAIN list -> {0, 1}]}
  BY DEF RelayLists
<1> HIDE DEF arr, list
<1>5. Rows(RelayState, list) /\ DOMAIN list = 1 .. Len(list) /\ Len(list) \in Nat
  BY <1>2, <1>3, LoadedRows, NullAssumption
<1>6. PICK on \in [DOMAIN list -> {0, 1}] : l = Set(on)
  BY <1>4
<1>7. ASSUME NEW i \in DOMAIN list
      PROVE  /\ l[i] = [list[i] EXCEPT !.state = on[i]]
             /\ Full(RelayState, list[i])
  BY <1>5, <1>6 DEF Rows
<1>8. "state" \in DOMAIN RelayState /\ Null # 0 /\ Null # 1
  BY NullAssumption DEF RelayState, NoNull
<1>9. ASSUME NEW i \in DOMAIN list
      PROVE  Full(RelayState, l[i]) /\ l[i].state = on[i]
  <2>1. on[i] \in {0, 1}
    OBVIOUS
  <2> QED
    BY <1>7, <1>8, <2>1 DEF Full, NoNull
<1>10. l \in Seq({l[i] : i \in DOMAIN list}) /\ Len(l) = Len(list)
  BY <1>5, <1>6
<1>11. ASSUME NEW i \in DOMAIN list
       PROVE  [l EXCEPT ![i].state = 1 - @] \in RelayLists(db)
  <2> DEFINE new == [on EXCEPT ![i] = 1 - @]
  <2>1. new \in [DOMAIN list -> {0, 1}]
    OBVIOUS
  <2> DEFINE t == [l EXCEPT ![i].state = 1 - @]
  <2>2. new[i] = 1 - on[i] /\ \A j \in DOMAIN list \ {i} : new[j] = on[j]
    OBVIOUS
  <2>3. DOMAIN l = DOMAIN list /\ l[i].state = on[i]
    BY <1>6, <1>9
  <2> HIDE DEF new
  <2>4. t = [j \in DOMAIN list |->
               IF j = i THEN [l[i] EXCEPT !.state = 1 - on[i]] ELSE l[j]]
    BY <2>3
  <2>5. [l[i] EXCEPT !.state = 1 - on[i]] = [list[i] EXCEPT !.state = 1 - on[i]]
    BY <1>7
  <2>6. \A j \in DOMAIN list : t[j] = [list[j] EXCEPT !.state = new[j]]
    BY <1>7, <2>2, <2>4, <2>5
  <2>7. t = Set(new)
    <3> HIDE DEF t
    <3> QED
      BY <2>4, <2>6
  <2> HIDE DEF t, Set
  <2>8. t \in RelayLists(db)
    BY <1>4, <2>1, <2>7
  <2> QED
    BY <2>8 DEF t
<1>12. ASSUME NEW m \in RelayLists(db), m = <<>> PROVE l = <<>>
  <2>1. DOMAIN m = DOMAIN list
    BY <1>4
  <2>2. DOMAIN list = {}
    BY <1>12, <2>1
  <2> QED
    BY <1>6, <2>2
<1>13. l = [i \in DOMAIN list |-> l[i]]
  BY <1>6
<1>14. Rows(RelayState, l)
  BY <1>5, <1>9, <1>10, <1>13 DEF Rows
<1>15. \A i \in 1 .. Len(l) : l[i].state \in {0, 1}
  BY <1>5, <1>9, <1>10
<1> QED
  BY <1>1, <1>5, <1>10, <1>11, <1>12, <1>13, <1>14, <1>15

\* Where there is no array, nothing is loaded.
LEMMA NothingStored ==
  ASSUME NEW v, NEW jc, NEW k, JGET_ARR(jc, k) = Null
  PROVE  Elements(v, jc, k) = <<>>
  BY EmptyLoad DEF Elements, Array

\* Save() changes one section, in Redis and in JConf alike.
LEMMA SaveFacts ==
  ASSUME Shape, pc # "down", NEW s \in Savable, Save(s)
  PROVE  /\ DOMAIN redis' = Section
         /\ redis'[s] = JSave(s, mem["MANAGER"][s], redis[s])
         /\ \A x \in Section \ {s} : redis'[x] = redis[x]
         /\ jconf' = [x \in MgrSections |-> redis'[x]]
<1>1. s \in MgrSections /\ s \in Section /\ MgrSections \subseteq Section
  BY DEF Savable, MgrSections, Section
<1>2. DOMAIN redis = Section /\ jconf = [x \in MgrSections |-> redis[x]]
  BY DEF Shape
<1>3. /\ jconf' = [jconf EXCEPT ![s] = JSave(s, mem["MANAGER"][s], jconf[s])]
      /\ redis' = [redis EXCEPT ![s] = jconf'[s]]
  BY DEF Save
<1> QED
  BY <1>1, <1>2, <1>3

\* What the Manager saves is what it holds: its own section ...
LEMMA SaveManagerFacts ==
  ASSUME IInv, pc # "down"
  PROVE  LET v == mem["MANAGER"]["Manager"]
             jc == redis["Manager"]
             out == JSave("Manager", v, jc)
         IN  /\ \A c : Load("Manager", out, c) = v
             /\ Elements(ProcessConfig, out, "Children") = v.list
             /\ DOMAIN jc \subseteq DOMAIN out
             /\ \A k \in DOMAIN jc \cap {"config", "interval"} : out[k] = jc[k]
<1> DEFINE v == mem["MANAGER"]["Manager"]
           jc == redis["Manager"]
<1>1. Held(mem["MANAGER"]) /\ installed \in Installed
  BY DEF IInv, Memory, Shape
<1>2. /\ Full(ManagerClear, v.fields) /\ v = [fields |-> v.fields, list |-> v.list]
      /\ v.list = Elements(ProcessConfig, installed["Manager"], "Children")
  BY <1>1 DEF Held
<1>3. Rows(ProcessConfig, v.list) /\ v.list # Null
  BY <1>1, <1>2, ChildrenFacts
<1>4. v.list = Elements(ProcessConfig, jc, "Children")
  BY <1>2 DEF IInv, Docs
<1>5. JGET_ARR(jc, "Children") = Null => v.list = <<>>
  BY <1>4, NothingStored
<1> HIDE DEF v, jc
<1>6. /\ ManagerLoad(ManagerJSave(v, jc)) = v
      /\ DOMAIN ManagerJSave(v, jc) = DOMAIN ManagerClear \cup DOMAIN jc \cup {"Children"}
      /\ \A k \in DOMAIN jc \ (DOMAIN ManagerClear \cup {"Children"}) :
           ManagerJSave(v, jc)[k] = jc[k]
  BY <1>2, <1>3, <1>5, ManagerReload
<1>7. JSave("Manager", v, jc) = ManagerJSave(v, jc)
  BY DEF JSave
<1>8. \A x, c : Load("Manager", x, c) = ManagerLoad(x)
  BY DEF Load
<1>9. Elements(ProcessConfig, ManagerJSave(v, jc), "Children") = v.list
  BY <1>6 DEF ManagerLoad
<1>10. {"config", "interval"} \cap (DOMAIN ManagerClear \cup {"Children"}) = {}
  BY DEF ManagerClear
<1> QED
  BY <1>6, <1>7, <1>8, <1>9, <1>10 DEF v, jc

\* ... the relays ...
LEMMA SaveRelayFacts ==
  ASSUME IInv, pc # "down"
  PROVE  LET v == mem["MANAGER"]["DFRelayState"]
             jc == redis["DFRelayState"]
             out == JSave("DFRelayState", v, jc)
         IN  /\ \A c : Load("DFRelayState", out, c) = v
             /\ Elements(RelayState, out, "Relays") = v.list
             /\ v.list \in RelayLists(installed)
             /\ DOMAIN jc \subseteq DOMAIN out
             /\ \A k \in DOMAIN jc \cap {"config", "interval"} : out[k] = jc[k]
<1> DEFINE v == mem["MANAGER"]["DFRelayState"]
           jc == redis["DFRelayState"]
<1>1. /\ Held(mem["MANAGER"]) /\ installed \in Installed
      /\ "MANAGER" \in DOMAIN mem /\ "DFRelayState" \in DOMAIN mem["MANAGER"]
  BY DEF IInv, Memory, Shape, MgrSections
<1>2. v = [fields |-> <<>>, list |-> v.list]
  BY <1>1 DEF Held
<1>3. v.list \in RelayLists(installed)
  BY <1>1 DEF IInv, Memory
<1>4. Elements(RelayState, jc, "Relays") \in RelayLists(installed)
  BY DEF IInv, Docs
<1> HIDE DEF v, jc
<1>5. JGET_ARR(jc, "Relays") = Null => v.list = <<>>
  BY <1>1, <1>3, <1>4, NothingStored, RelayFacts
<1>6. Rows(RelayState, v.list) /\ v.list # Null
  BY <1>1, <1>3, RelayFacts
<1>7. /\ DFRelayStateLoad(DFRelayStateJSave(v, jc)) = v
      /\ DOMAIN DFRelayStateJSave(v, jc) = DOMAIN jc \cup {"Relays"}
      /\ \A k \in DOMAIN jc \ {"Relays"} : DFRelayStateJSave(v, jc)[k] = jc[k]
  BY <1>2, <1>5, <1>6, RelayReload
<1>8. JSave("DFRelayState", v, jc) = DFRelayStateJSave(v, jc)
  BY DEF JSave
<1>9. \A x, c : Load("DFRelayState", x, c) = DFRelayStateLoad(x)
  BY DEF Load
<1>10. Elements(RelayState, DFRelayStateJSave(v, jc), "Relays") = v.list
  BY <1>7 DEF DFRelayStateLoad
<1> QED
  BY <1>3, <1>7, <1>8, <1>9, <1>10 DEF v, jc

\* ... and RegInfo, with the identity.
LEMMA SaveRegInfoFacts ==
  ASSUME IInv, pc # "down"
  PROVE  LET v == mem["MANAGER"]["RegInfo"]
             jc == redis["RegInfo"]
             out == JSave("RegInfo", v, jc)
         IN  /\ \A c : Sure(Load("RegInfo", out, c)) = Sure(v)
             /\ "DevID" \in DOMAIN out /\ out.DevID = v.fields.DevID
             /\ DOMAIN jc \subseteq DOMAIN out
             /\ \A k \in DOMAIN jc \cap {"config", "interval"} : out[k] = jc[k]
<1> DEFINE v == mem["MANAGER"]["RegInfo"]
           jc == redis["RegInfo"]
<1>1. RegFull(v)
  BY DEF IInv, Memory, Held
<1> HIDE DEF v, jc
<1>2. ASSUME NEW c
      PROVE  /\ Sure(RegInfoLoad(RegInfoJSave(v, jc), c)) = Sure(v)
             /\ DOMAIN RegInfoJSave(v, jc) = DOMAIN RegInfoClear \cup DOMAIN jc
             /\ RegInfoJSave(v, jc).DevID = v.fields.DevID
             /\ \A k \in DOMAIN jc \ DOMAIN RegInfoClear : RegInfoJSave(v, jc)[k] = jc[k]
  BY <1>1, RegInfoReload, Zenon
<1>3. JSave("RegInfo", v, jc) = RegInfoJSave(v, jc)
  BY DEF JSave
<1>4. \A x, c : Load("RegInfo", x, c) = RegInfoLoad(x, c)
  BY DEF Load
<1>5. "DevID" \in DOMAIN RegInfoClear /\ {"config", "interval"} \cap DOMAIN RegInfoClear = {}
  BY DEF RegInfoClear
<1> QED
  BY <1>2, <1>3, <1>4, <1>5 DEF v, jc

\* What the Manager has loaded it may save.
LEMMA LoadHeld ==
  ASSUME Shape, Docs, NEW m, NEW c,
         m["Manager"] = ManagerLoad(redis["Manager"]),
         m["RegInfo"] = RegInfoLoad(redis["RegInfo"], c),
         m["DFRelayState"] = DFRelayStateLoad(redis["DFRelayState"])
  PROVE  /\ Held(m)
         /\ m["DFRelayState"].list \in RelayLists(installed)
         /\ DevID(m) = DevOf(redis["RegInfo"])
<1>1. /\ m["Manager"] = [fields |-> m["Manager"].fields, list |-> m["Manager"].list]
      /\ m["Manager"].list = Elements(ProcessConfig, installed["Manager"], "Children")
  BY DEF ManagerLoad, Docs
<1>2. Full(ManagerClear, m["Manager"].fields)
  BY LoadObjectFull, NullAssumption DEF ManagerLoad
<1>3. /\ m["DFRelayState"] = [fields |-> <<>>, list |-> m["DFRelayState"].list]
      /\ m["DFRelayState"].list \in RelayLists(installed)
  BY DEF DFRelayStateLoad, Docs
<1> DEFINE f == LoadObject(RegInfoClear, redis["RegInfo"])
<1>4. Full(RegInfoClear, f)
  BY LoadObjectFull, NullAssumption
<1>5. f.DevID = DevOf(redis["RegInfo"])
  BY DEF LoadObject, RegInfoClear, DevOf
<1>6. "DevID" \in DOMAIN RegInfoClear /\ "DevID" # "RestAPI"
  BY DEF RegInfoClear
<1>7. m["RegInfo"] = [fields |-> [f EXCEPT !.RestAPI = StrRemove(@, c)], list |-> <<>>]
  BY DEF RegInfoLoad
<1> HIDE DEF f
<1>8. RegFull(m["RegInfo"])
  BY <1>4, <1>7 DEF Full, NoNull, RegFull
<1>9. /\ m["RegInfo"] = [fields |-> m["RegInfo"].fields, list |-> m["RegInfo"].list]
      /\ m["RegInfo"].fields.DevID = f.DevID
  BY <1>4, <1>6, <1>7 DEF Full
<1> QED
  BY <1>1, <1>2, <1>3, <1>5, <1>8, <1>9 DEF Held, DevID

\* What agrees with Redis about RegInfo has the identity that is there.
LEMMA StoredDev ==
  ASSUME NEW v, Sure(v) = Stored("RegInfo")
  PROVE  v.fields.DevID = DevOf(redis["RegInfo"])
<1> DEFINE f == LoadObject(RegInfoClear, redis["RegInfo"])
           w == RegInfoLoad(redis["RegInfo"], Null)
<1>1. f.DevID = DevOf(redis["RegInfo"]) /\ DOMAIN f = DOMAIN RegInfoClear
  BY DEF LoadObject, RegInfoClear, DevOf
<1>2. "DevID" \in DOMAIN RegInfoClear /\ "DevID" \notin {"RestAPI", "host"}
  BY DEF RegInfoClear
<1>3. w = [fields |-> [f EXCEPT !.RestAPI = StrRemove(@, Null)], list |-> <<>>]
  BY DEF RegInfoLoad
<1> HIDE DEF f
<1>4. w.fields.DevID = f.DevID /\ DOMAIN w.fields = DOMAIN RegInfoClear
  BY <1>1, <1>2, <1>3
<1>5. Stored("RegInfo") = Sure(w)
  BY DEF Stored, Load
<1> HIDE DEF w
<1>6. Sure(v).fields = Sure(w).fields
  BY <1>5
<1>7. /\ DOMAIN Sure(w).fields = DOMAIN w.fields \ {"RestAPI", "host"}
      /\ DOMAIN Sure(v).fields = DOMAIN v.fields \ {"RestAPI", "host"}
      /\ \A k \in DOMAIN w.fields \ {"RestAPI", "host"} : Sure(w).fields[k] = w.fields[k]
      /\ \A k \in DOMAIN v.fields \ {"RestAPI", "host"} : Sure(v).fields[k] = v.fields[k]
  BY DEF Sure
<1> QED
  BY <1>1, <1>2, <1>4, <1>6, <1>7

\* Steps that leave Redis alone.
LEMMA DocsFrame ==
  ASSUME Docs, UNCHANGED <<installed, redis>>
  PROVE  Docs'
  BY DEF Docs, ForeignKeysSurvive

\* A section that is not saved stays what is loaded.
LEMMA StoredFrame ==
  ASSUME NEW s, redis'[s] = redis[s]
  PROVE  Stored(s)' = Stored(s)
  BY DEF Stored

-----------------------------------------------------------------------------
\* The invariant holds at first ...
LEMMA InitIInv == Init => IInv
<1> SUFFICES ASSUME Init PROVE IInv
  OBVIOUS
<1> USE DEF Init
<1>1. Shape
  BY ConfigAssumption DEF Shape
<1>2. Docs
  <2>1. ForeignKeysSurvive
    BY DEF ForeignKeysSurvive
  <2>2. Elements(RelayState, redis["DFRelayState"], "Relays") \in RelayLists(installed)
    BY ConfigAssumption
  <2> QED
    BY <2>1, <2>2 DEF Docs
<1>3. Memory /\ Agree /\ Identity
  BY DEF Memory, Agree, Identity
<1> QED
  BY <1>1, <1>2, <1>3 DEF IInv

\* ... and is kept by every step: the Manager loads its sections ...
LEMMA ManagerStartStep == IInv /\ ManagerStart => IInv'
<1> SUFFICES ASSUME IInv, ManagerStart PROVE IInv'
  OBVIOUS
<1>0. pc = "down" /\ UNCHANGED <<installed, redis>> /\ spawned' = 0
  BY DEF ManagerStart
<1>a. Range(Entries["MANAGER"]) = MgrSections /\ MgrSections \subseteq Section
      /\ "MANAGER" \in Proc
  BY EntriesFacts DEF MgrSections, Section, Proc
<1>1. PICK c \in [{"RegInfo", "MQTT"} -> Garbage] :
        mem' = [p \in {"MANAGER"} |-> [s \in MgrSections |->
                  Load(s, redis[s], IF s \in DOMAIN c THEN c[s] ELSE c["MQTT"])]]
  BY <1>a DEF ManagerStart
<1>2. /\ DOMAIN mem' = {"MANAGER"} /\ DOMAIN mem'["MANAGER"] = MgrSections
      /\ \A s \in MgrSections : mem'["MANAGER"][s] =
           Load(s, redis[s], IF s \in DOMAIN c THEN c[s] ELSE c["MQTT"])
  BY <1>1
<1> DEFINE M == mem'["MANAGER"]
<1>3. M["Manager"] = ManagerLoad(redis["Manager"])
  BY <1>2 DEF Load, MgrSections
<1>4. M["RegInfo"] = RegInfoLoad(redis["RegInfo"], c["RegInfo"])
  BY <1>2 DEF Load, MgrSections
<1>5. M["DFRelayState"] = DFRelayStateLoad(redis["DFRelayState"])
  BY <1>2 DEF Load, MgrSections
<1> HIDE DEF M
<1>6. /\ Held(M) /\ M["DFRelayState"].list \in RelayLists(installed)
      /\ DevID(M) = DevOf(redis["RegInfo"])
  BY <1>3, <1>4, <1>5, LoadHeld DEF IInv
<1>7. /\ queueId' = DevID(M)
      /\ pc' = IF DevID(M) = EmptyStr THEN "identify" ELSE "spawn"
      /\ jconf' = [s \in MgrSections |-> redis[s]]
  BY <1>a DEF ManagerStart, NeedsIdentity, M
<1>8. Shape'
  BY <1>0, <1>a, <1>2, <1>7 DEF IInv, Shape
<1>9. Docs'
  BY <1>0, DocsFrame DEF IInv
<1>10. Memory'
  <2>1. Held(mem["MANAGER"])'
    BY <1>0, <1>6 DEF Held, M
  <2> QED
    BY <1>0, <1>2, <1>6, <1>7, <2>1 DEF Memory, M
<1>11. Agree'
  <2> SUFFICES ASSUME NEW s \in MgrSections PROVE Sure(mem'["MANAGER"][s]) = Stored(s)'
    BY <1>2 DEF Agree
  <2>1. Stored(s)' = Stored(s)
    BY <1>0, StoredFrame
  <2> QED
    BY <1>a, <1>2, <2>1, SureLoad DEF Stored
<1>12. Identity'
  BY <1>0, <1>6, <1>7 DEF Identity
<1> QED
  BY <1>8, <1>9, <1>10, <1>11, <1>12 DEF IInv

\* ... makes an identity ...
LEMMA IdentifyStep == IInv /\ Identify => IInv'
<1> SUFFICES ASSUME IInv, Identify PROVE IInv'
  OBVIOUS
<1>0. /\ pc = "identify" /\ pc' = "save_id"
      /\ UNCHANGED <<installed, redis, spawned, jconf, queueId>>
  BY DEF Identify
<1>1. PICK id \in Identities :
        mem' = [mem EXCEPT !["MANAGER"]["RegInfo"].fields.DevID = id]
  BY DEF Identify
<1>2. /\ DOMAIN mem = {"MANAGER"} /\ DOMAIN mem["MANAGER"] = MgrSections
      /\ "RegInfo" \in MgrSections
  BY <1>0 DEF IInv, Shape, MgrSections
<1> DEFINE v == mem["MANAGER"]["RegInfo"]
           w == mem'["MANAGER"]["RegInfo"]
<1>3. Held(mem["MANAGER"])
  BY <1>0 DEF IInv, Memory
<1>4. /\ v = [fields |-> v.fields, list |-> v.list]
      /\ DOMAIN v.fields = DOMAIN RegInfoClear /\ v.list = <<>>
      /\ \A k \in DOMAIN RegInfoClear \ {"RestAPI"} : v.fields[k] # Null
  BY <1>3 DEF Held, RegFull
<1>5. "DevID" \in DOMAIN RegInfoClear
  BY DEF RegInfoClear
<1>6. /\ DOMAIN mem' = {"MANAGER"} /\ DOMAIN mem'["MANAGER"] = MgrSections
      /\ \A s \in MgrSections \ {"RegInfo"} : mem'["MANAGER"][s] = mem["MANAGER"][s]
  BY <1>1, <1>2
<1>7. w = [v EXCEPT !.fields.DevID = id]
  BY <1>1, <1>2
<1> HIDE DEF v, w
<1>8. /\ w = [fields |-> w.fields, list |-> w.list] /\ w.list = <<>>
      /\ w.fields = [v.fields EXCEPT !.DevID = id]
  BY <1>4, <1>7
<1>9. /\ DOMAIN w.fields = DOMAIN RegInfoClear /\ w.fields.DevID = id
      /\ \A k \in DOMAIN RegInfoClear \ {"RestAPI"} : w.fields[k] # Null
  BY <1>4, <1>5, <1>8, NullAssumption
<1>10. Shape'
  BY <1>0, <1>6 DEF IInv, Shape
<1>11. Docs'
  BY <1>0, DocsFrame DEF IInv
<1>12. Memory'
  <2>1. RegFull(w)
    BY <1>8, <1>9 DEF RegFull
  <2>2. /\ mem'["MANAGER"]["Manager"] = mem["MANAGER"]["Manager"]
        /\ mem'["MANAGER"]["DFRelayState"] = mem["MANAGER"]["DFRelayState"]
    BY <1>6 DEF MgrSections
  <2>3. Held(mem["MANAGER"])'
    BY <1>0, <1>3, <1>8, <2>1, <2>2 DEF Held, w
  <2> QED
    BY <1>0, <1>2, <1>6, <2>2, <2>3 DEF IInv, Memory
<1>13. Agree'
  <2> SUFFICES ASSUME NEW s \in MgrSections, s # "RegInfo"
               PROVE  Sure(mem'["MANAGER"][s]) = Stored(s)'
    BY <1>0, <1>6 DEF Agree, Exempt
  <2>1. Sure(mem["MANAGER"][s]) = Stored(s)
    BY <1>0, <1>2 DEF IInv, Agree, Exempt
  <2> QED
    BY <1>0, <1>6, <2>1, StoredFrame
<1>14. Identity'
  BY <1>0, <1>9 DEF IInv, Identity, DevID, w
<1> QED
  BY <1>10, <1>11, <1>12, <1>13, <1>14 DEF IInv

\* ... and saves it.
LEMMA SaveIdentityStep == IInv /\ SaveIdentity => IInv'
<1> SUFFICES ASSUME IInv, SaveIdentity PROVE IInv'
  OBVIOUS
<1>0. /\ pc = "save_id" /\ pc' = "spawn" /\ queueId' = DevID(mem["MANAGER"])
      /\ UNCHANGED <<installed, spawned, mem>> /\ Save("RegInfo")
  BY DEF SaveIdentity
<1> DEFINE v == mem["MANAGER"]["RegInfo"]
           out == JSave("RegInfo", v, redis["RegInfo"])
<1>1. /\ DOMAIN redis' = Section /\ redis'["RegInfo"] = out
      /\ \A x \in Section \ {"RegInfo"} : redis'[x] = redis[x]
      /\ jconf' = [x \in MgrSections |-> redis'[x]]
  BY <1>0, SaveFacts DEF IInv, Savable
<1>2. /\ \A c : Sure(Load("RegInfo", out, c)) = Sure(v)
      /\ "DevID" \in DOMAIN out /\ out.DevID = v.fields.DevID
      /\ DOMAIN redis["RegInfo"] \subseteq DOMAIN out
      /\ \A k \in DOMAIN redis["RegInfo"] \cap {"config", "interval"} :
           out[k] = redis["RegInfo"][k]
  BY <1>0, SaveRegInfoFacts
<1>3. /\ DOMAIN mem = {"MANAGER"} /\ DOMAIN mem["MANAGER"] = MgrSections
      /\ MgrSections \subseteq Section
  BY <1>0 DEF IInv, Shape, MgrSections, Section
<1> HIDE DEF out, v
<1>4. Shape'
  BY <1>0, <1>1, <1>3 DEF IInv, Shape
<1>5. Docs'
  <2>1. ForeignKeysSurvive'
    BY <1>0, <1>1, <1>2 DEF IInv, Docs, ForeignKeysSurvive, Section
  <2>2. /\ \A s \in Section \ Savable : redis'[s] = installed'[s]
        /\ redis'["Manager"] = redis["Manager"]
        /\ redis'["DFRelayState"] = redis["DFRelayState"]
    BY <1>0, <1>1 DEF IInv, Docs, Section, Savable
  <2> QED
    BY <1>0, <2>1, <2>2 DEF IInv, Docs
<1>6. Memory'
  BY <1>0 DEF IInv, Memory, Held
<1>7. Agree'
  <2> SUFFICES ASSUME NEW s \in MgrSections
               PROVE  Sure(mem["MANAGER"][s]) = Stored(s)'
    BY <1>0, <1>3 DEF Agree
  <2>1. CASE s = "RegInfo"
    BY <1>1, <1>2, <2>1 DEF Stored, v
  <2>2. CASE s # "RegInfo"
    <3>1. Sure(mem["MANAGER"][s]) = Stored(s)
      BY <1>0, <1>3, <2>2 DEF IInv, Agree, Exempt
    <3> QED
      BY <1>1, <1>3, <2>2, <3>1, StoredFrame
  <2> QED
    BY <2>1, <2>2
<1>8. Identity'
  <2>1. v.fields.DevID \in Identities
    BY <1>0 DEF IInv, Identity, DevID, v
  <2>2. v.fields.DevID # EmptyStr /\ v.fields.DevID # Null
    BY <2>1, NullAssumption
  <2>3. DevOf(redis'["RegInfo"]) = v.fields.DevID
    BY <1>1, <1>2, <2>2 DEF DevOf, JGET, Gives
  <2> QED
    BY <1>0, <2>2, <2>3 DEF Identity, DevID, v
<1> QED
  BY <1>4, <1>5, <1>6, <1>7, <1>8 DEF IInv

\* A child is started, for the first time or again.
LEMMA StartsStep ==
  ASSUME IInv, NEW p \in Child, mem' = Starts(mem, p), spawned' \in Nat,
         UNCHANGED <<installed, redis, jconf, queueId>>,
         pc \notin {"down", "identify", "save_id"},
         pc' = pc \/ (pc = "respawn" /\ pc' = "run" /\ p = "SENSOR")
  PROVE  IInv'
<1>1. /\ DOMAIN mem' = DOMAIN mem \cup {p} /\ mem'[p] = <<>>
      /\ \A q \in DOMAIN mem \ {p} : mem'[q] = mem[q]
  BY DEF Starts, Override
<1>2. p # "MANAGER" /\ p \in Proc
  BY DEF Child, Proc
<1>3. "MANAGER" \in DOMAIN mem /\ mem'["MANAGER"] = mem["MANAGER"]
  BY <1>1, <1>2 DEF IInv, Shape
<1>4. pc' \notin {"down", "identify", "save_id"}
  OBVIOUS
<1>5. DOMAIN mem'[p] = {}
  BY <1>1
<1>6. Shape'
  <2>1. \A q \in DOMAIN mem' : DOMAIN mem'[q] \subseteq Range(Entries[q])
    BY <1>1, <1>5 DEF IInv, Shape
  <2> QED
    BY <1>1, <1>2, <1>3, <1>4, <2>1 DEF IInv, Shape
<1>7. Docs'
  BY DocsFrame DEF IInv
<1>8. Memory'
  <2>1. Held(mem["MANAGER"])'
    BY <1>3 DEF IInv, Memory, Held
  <2>2. \A q \in DOMAIN mem' : "DFRelayState" \in DOMAIN mem'[q] =>
          mem'[q]["DFRelayState"].list \in RelayLists(installed)
    BY <1>1, <1>5 DEF IInv, Memory
  <2> QED
    BY <2>1, <2>2 DEF Memory
<1>9. Agree'
  <2> SUFFICES ASSUME NEW q \in DOMAIN mem', NEW s \in DOMAIN mem'[q]
               PROVE  Exempt(q, s)' \/ Sure(mem'[q][s]) = Stored(s)'
    BY DEF Agree
  <2>1. q # p /\ q \in DOMAIN mem /\ mem'[q] = mem[q] /\ s \in DOMAIN mem[q]
    BY <1>1, <1>5
  <2>2. Exempt(q, s) => Exempt(q, s)'
    BY <2>1 DEF Exempt
  <2> QED
    BY <2>1, <2>2, StoredFrame DEF IInv, Agree
<1>10. Identity'
  BY <1>4 DEF IInv, Identity
<1> QED
  BY <1>6, <1>7, <1>8, <1>9, <1>10 DEF IInv

\* A child is spawned, one of the configured.
LEMMA SpawnChildStep == IInv /\ SpawnChild => IInv'
<1> SUFFICES ASSUME IInv, SpawnChild PROVE IInv'
  OBVIOUS
<1> DEFINE list == mem["MANAGER"]["Manager"].list
<1>1. /\ pc = "spawn" /\ pc' = pc /\ spawned' = spawned + 1 /\ spawned < Len(list)
      /\ mem' = Starts(mem, list[spawned + 1].Protocol)
      /\ UNCHANGED <<installed, redis, jconf, queueId>>
  BY DEF SpawnChild
<1>2. spawned \in Nat /\ installed \in Installed
  BY DEF IInv, Shape
<1>3. list = Elements(ProcessConfig, installed["Manager"], "Children")
  BY <1>1 DEF IInv, Memory, Held
<1>4. Len(list) \in Nat /\ \A i \in 1 .. Len(list) : list[i].Protocol \in Child
  BY <1>2, <1>3, ChildrenFacts DEF Rows
<1> HIDE DEF list
<1>5. list[spawned + 1].Protocol \in Child /\ spawned' \in Nat
  BY <1>1, <1>2, <1>4
<1> QED
  BY <1>1, <1>5, StartsStep

\* The Manager saves its section, while the children are loading it.
LEMMA SaveManagerStep == IInv /\ SaveManager => IInv'
<1> SUFFICES ASSUME IInv, SaveManager PROVE IInv'
  OBVIOUS
<1>0. /\ pc = "spawn" /\ pc' = "run" /\ UNCHANGED <<installed, spawned, queueId, mem>>
      /\ Save("Manager")
  BY DEF SaveManager
<1> DEFINE v == mem["MANAGER"]["Manager"]
           out == JSave("Manager", v, redis["Manager"])
<1>1. /\ DOMAIN redis' = Section /\ redis'["Manager"] = out
      /\ \A x \in Section \ {"Manager"} : redis'[x] = redis[x]
      /\ jconf' = [x \in MgrSections |-> redis'[x]]
  BY <1>0, SaveFacts DEF IInv, Savable
<1>2. /\ \A c : Load("Manager", out, c) = v
      /\ Elements(ProcessConfig, out, "Children") = v.list
      /\ DOMAIN redis["Manager"] \subseteq DOMAIN out
      /\ \A k \in DOMAIN redis["Manager"] \cap {"config", "interval"} :
           out[k] = redis["Manager"][k]
  BY <1>0, SaveManagerFacts
<1>3. /\ "MANAGER" \in DOMAIN mem /\ "Manager" \in DOMAIN mem["MANAGER"]
      /\ v.list = Elements(ProcessConfig, installed["Manager"], "Children")
  BY <1>0 DEF IInv, Shape, Memory, Held, MgrSections
<1>4. Sure(v) = Stored("Manager")
  BY <1>0, <1>3 DEF IInv, Agree, Exempt
<1> HIDE DEF out, v
<1>5. Shape'
  BY <1>0, <1>1 DEF IInv, Shape
<1>6. Docs'
  <2>1. ForeignKeysSurvive'
    BY <1>0, <1>1, <1>2 DEF IInv, Docs, ForeignKeysSurvive, Section
  <2>2. /\ \A s \in Section \ Savable : redis'[s] = installed'[s]
        /\ redis'["DFRelayState"] = redis["DFRelayState"]
    BY <1>0, <1>1 DEF IInv, Docs, Section, Savable
  <2> QED
    BY <1>0, <1>1, <1>2, <1>3, <2>1, <2>2 DEF IInv, Docs
<1>7. Memory'
  BY <1>0 DEF IInv, Memory, Held
<1>8. Agree'
  <2> SUFFICES ASSUME NEW q \in DOMAIN mem, NEW s \in DOMAIN mem[q]
               PROVE  Sure(mem[q][s]) = Stored(s)'
    BY <1>0 DEF Agree
  <2>1. s \in Section /\ Sure(mem[q][s]) = Stored(s)
    BY <1>0, EntriesFacts DEF IInv, Agree, Exempt, Shape
  <2>2. CASE s = "Manager"
    BY <1>1, <1>2, <1>4, <2>1, <2>2 DEF Stored
  <2>3. CASE s # "Manager"
    BY <1>1, <2>1, <2>3, StoredFrame
  <2> QED
    BY <2>2, <2>3
<1>9. Identity'
  <2>1. redis'["RegInfo"] = redis["RegInfo"]
    BY <1>1 DEF Section
  <2> QED
    BY <1>0, <2>1 DEF IInv, Identity
<1> QED
  BY <1>5, <1>6, <1>7, <1>8, <1>9 DEF IInv

\* A relay is switched in memory ...
LEMMA SwitchRelayStep == IInv /\ SwitchRelay => IInv'
<1> SUFFICES ASSUME IInv, SwitchRelay PROVE IInv'
  OBVIOUS
<1> DEFINE v == mem["MANAGER"]["DFRelayState"]
           w == mem'["MANAGER"]["DFRelayState"]
<1>0. /\ pc = "run" /\ pc' = "save_relay"
      /\ UNCHANGED <<installed, redis, spawned, jconf, queueId>>
  BY DEF SwitchRelay
<1>1. PICK i \in DOMAIN v.list :
        mem' = [mem EXCEPT !["MANAGER"]["DFRelayState"].list[i].state = 1 - @]
  BY DEF SwitchRelay
<1>2. /\ "MANAGER" \in DOMAIN mem /\ DOMAIN mem["MANAGER"] = MgrSections
      /\ "DFRelayState" \in MgrSections /\ installed \in Installed
  BY <1>0 DEF IInv, Shape, MgrSections
<1>3. v = [fields |-> <<>>, list |-> v.list] /\ v.list \in RelayLists(installed)
  BY <1>0, <1>2 DEF IInv, Memory, Held
<1>4. /\ DOMAIN mem' = DOMAIN mem /\ DOMAIN mem'["MANAGER"] = MgrSections
      /\ \A q \in DOMAIN mem \ {"MANAGER"} : mem'[q] = mem[q]
      /\ \A s \in MgrSections \ {"DFRelayState"} : mem'["MANAGER"][s] = mem["MANAGER"][s]
  BY <1>1, <1>2
<1>5. w = [v EXCEPT !.list[i].state = 1 - @]
  BY <1>1, <1>2
<1> HIDE DEF v, w
<1>6. w = [fields |-> <<>>, list |-> w.list] /\ w.list = [v.list EXCEPT ![i].state = 1 - @]
  BY <1>3, <1>5
<1>7. w.list \in RelayLists(installed)
  BY <1>2, <1>3, <1>6, RelayFacts
<1>8. Shape'
  BY <1>0, <1>4 DEF IInv, Shape
<1>9. Docs'
  BY <1>0, DocsFrame DEF IInv
<1>10. Memory'
  <2>1. /\ mem'["MANAGER"]["Manager"] = mem["MANAGER"]["Manager"]
        /\ mem'["MANAGER"]["RegInfo"] = mem["MANAGER"]["RegInfo"]
    BY <1>4 DEF MgrSections
  <2>2. Held(mem["MANAGER"])'
    BY <1>0, <1>6, <2>1 DEF IInv, Memory, Held, w
  <2>3. ASSUME NEW q \in DOMAIN mem', "DFRelayState" \in DOMAIN mem'[q]
        PROVE  mem'[q]["DFRelayState"].list \in RelayLists(installed)
    BY <1>4, <1>7, <2>3 DEF IInv, Memory, w
  <2> QED
    BY <1>0, <2>2, <2>3 DEF Memory
<1>11. Agree'
  <2> SUFFICES ASSUME NEW q \in DOMAIN mem', NEW s \in DOMAIN mem'[q],
                      ~(q = "MANAGER" /\ s = "DFRelayState")
               PROVE  Sure(mem'[q][s]) = Stored(s)'
    BY <1>0 DEF Agree, Exempt
  <2>1. q \in DOMAIN mem /\ s \in DOMAIN mem[q] /\ mem'[q][s] = mem[q][s]
    BY <1>2, <1>4
  <2>2. Sure(mem[q][s]) = Stored(s)
    BY <1>0, <2>1 DEF IInv, Agree, Exempt
  <2> QED
    BY <1>0, <2>1, <2>2, StoredFrame
<1>12. Identity'
  BY <1>0 DEF IInv, Identity
<1> QED
  BY <1>8, <1>9, <1>10, <1>11, <1>12 DEF IInv

\* ... in Redis ...
LEMMA SaveRelayStep == IInv /\ SaveRelay => IInv'
<1> SUFFICES ASSUME IInv, SaveRelay PROVE IInv'
  OBVIOUS
<1>0. /\ pc = "save_relay" /\ pc' = "respawn"
      /\ UNCHANGED <<installed, spawned, queueId, mem>> /\ Save("DFRelayState")
  BY DEF SaveRelay
<1> DEFINE v == mem["MANAGER"]["DFRelayState"]
           out == JSave("DFRelayState", v, redis["DFRelayState"])
<1>1. /\ DOMAIN redis' = Section /\ redis'["DFRelayState"] = out
      /\ \A x \in Section \ {"DFRelayState"} : redis'[x] = redis[x]
      /\ jconf' = [x \in MgrSections |-> redis'[x]]
  BY <1>0, SaveFacts DEF IInv, Savable
<1>2. /\ \A c : Load("DFRelayState", out, c) = v
      /\ Elements(RelayState, out, "Relays") = v.list
      /\ v.list \in RelayLists(installed)
      /\ DOMAIN redis["DFRelayState"] \subseteq DOMAIN out
      /\ \A k \in DOMAIN redis["DFRelayState"] \cap {"config", "interval"} :
           out[k] = redis["DFRelayState"][k]
  BY <1>0, SaveRelayFacts
<1> HIDE DEF out, v
<1>3. Shape'
  BY <1>0, <1>1 DEF IInv, Shape
<1>4. Docs'
  <2>1. ForeignKeysSurvive'
    BY <1>0, <1>1, <1>2 DEF IInv, Docs, ForeignKeysSurvive, Section
  <2>2. /\ \A s \in Section \ Savable : redis'[s] = installed'[s]
        /\ redis'["Manager"] = redis["Manager"]
    BY <1>0, <1>1 DEF IInv, Docs, Section, Savable
  <2> QED
    BY <1>0, <1>1, <1>2, <2>1, <2>2 DEF IInv, Docs
<1>5. Memory'
  BY <1>0 DEF IInv, Memory, Held
<1>6. Agree'
  <2> SUFFICES ASSUME NEW q \in DOMAIN mem, NEW s \in DOMAIN mem[q],
                      ~(q = "SENSOR" /\ s = "DFRelayState")
               PROVE  Sure(mem[q][s]) = Stored(s)'
    BY <1>0 DEF Agree, Exempt
  <2>1. s \in Range(Entries[q]) /\ q \in Proc /\ s \in Section
    BY EntriesFacts DEF IInv, Shape
  <2>2. CASE s = "DFRelayState"
    <3>1. q = "MANAGER"
      BY <2>1, <2>2, EntriesFacts DEF Proc
    <3> QED
      BY <1>1, <1>2, <2>2, <3>1 DEF Stored, v
  <2>3. CASE s # "DFRelayState"
    <3>1. Sure(mem[q][s]) = Stored(s)
      BY <1>0, <2>3 DEF IInv, Agree, Exempt
    <3> QED
      BY <1>1, <2>1, <2>3, <3>1, StoredFrame
  <2> QED
    BY <2>2, <2>3
<1>7. Identity'
  <2>1. redis'["RegInfo"] = redis["RegInfo"]
    BY <1>1 DEF Section
  <2> QED
    BY <1>0, <2>1 DEF IInv, Identity
<1> QED
  BY <1>3, <1>4, <1>5, <1>6, <1>7 DEF IInv

\* ... and in the sensor process, which is started again.
LEMMA RespawnSensorStep == IInv /\ RespawnSensor => IInv'
<1> SUFFICES ASSUME IInv, RespawnSensor PROVE IInv'
  OBVIOUS
<1>0. /\ pc = "respawn" /\ pc' = "run"
      /\ UNCHANGED <<installed, redis, spawned, jconf, queueId>>
      /\ mem' = IF "SENSOR" \in DOMAIN mem THEN Starts(mem, "SENSOR") ELSE mem
  BY DEF RespawnSensor
<1>1. CASE "SENSOR" \in DOMAIN mem
  <2>1. "SENSOR" \in Child /\ spawned' \in Nat
    BY <1>0 DEF Child, IInv, Shape
  <2> QED
    BY <1>0, <1>1, <2>1, StartsStep
<1>2. CASE "SENSOR" \notin DOMAIN mem
  <2>0. UNCHANGED mem
    BY <1>0, <1>2
  <2>1. Shape'
    BY <1>0, <2>0 DEF IInv, Shape
  <2>2. Docs'
    BY <1>0, DocsFrame DEF IInv
  <2>3. Memory'
    BY <1>0, <2>0 DEF IInv, Memory, Held
  <2>4. Agree'
    BY <1>0, <1>2, <2>0, StoredFrame DEF IInv, Agree, Exempt
  <2>5. Identity'
    BY <1>0 DEF IInv, Identity
  <2> QED
    BY <2>1, <2>2, <2>3, <2>4, <2>5 DEF IInv
<1> QED
  BY <1>1, <1>2

\* A child loads its next section.
LEMMA ChildLoadsStep ==
  ASSUME IInv, NEW p \in Child, ChildLoads(p)
  PROVE  IInv'
<1>0. /\ p \in DOMAIN mem /\ p # "MANAGER" /\ p \in Proc
      /\ UNCHANGED <<installed, redis, pc, spawned, jconf, queueId>>
  BY DEF ChildLoads, Child, Proc
<1>1. PICK n \in DOMAIN Entries[p], c \in Garbage : mem' = Loads(p, Entries[p][n], c)
  BY DEF ChildLoads
<1> DEFINE e == Entries[p][n]
<1>2. e \in Range(Entries[p]) /\ e \in Section
  BY <1>0, EntriesFacts DEF Range
<1>3. /\ DOMAIN mem' = DOMAIN mem
      /\ \A q \in DOMAIN mem \ {p} : mem'[q] = mem[q]
      /\ DOMAIN mem'[p] = DOMAIN mem[p] \cup {e}
      /\ mem'[p][e] = Load(e, redis[e], c)
      /\ \A s \in DOMAIN mem[p] \ {e} : mem'[p][s] = mem[p][s]
  BY <1>0, <1>1 DEF Loads, Override
<1> HIDE DEF e
<1>4. mem'["MANAGER"] = mem["MANAGER"] /\ "MANAGER" \in DOMAIN mem
      /\ pc \notin {"down", "identify", "save_id"}
  BY <1>0, <1>3 DEF IInv, Shape
<1>5. Shape'
  <2>1. \A q \in DOMAIN mem' : DOMAIN mem'[q] \subseteq Range(Entries[q])
    BY <1>2, <1>3 DEF IInv, Shape
  <2> QED
    BY <1>0, <1>3, <1>4, <2>1 DEF IInv, Shape
<1>6. Docs'
  BY <1>0, DocsFrame DEF IInv
<1>7. Memory'
  <2>1. Held(mem["MANAGER"])'
    BY <1>0, <1>4 DEF IInv, Memory, Held
  <2>2. ASSUME NEW q \in DOMAIN mem', "DFRelayState" \in DOMAIN mem'[q]
        PROVE  mem'[q]["DFRelayState"].list \in RelayLists(installed)
    <3>1. CASE q = p /\ e = "DFRelayState"
      <4>1. mem'[q]["DFRelayState"] = DFRelayStateLoad(redis["DFRelayState"])
        BY <1>3, <3>1 DEF Load
      <4> QED
        BY <4>1 DEF DFRelayStateLoad, IInv, Docs
    <3>2. CASE ~(q = p /\ e = "DFRelayState")
      <4>1. /\ q \in DOMAIN mem /\ "DFRelayState" \in DOMAIN mem[q]
            /\ mem'[q]["DFRelayState"] = mem[q]["DFRelayState"]
        BY <1>3, <2>2, <3>2
      <4> QED
        BY <4>1 DEF IInv, Memory
    <3> QED
      BY <3>1, <3>2
  <2> QED
    BY <1>0, <2>1, <2>2 DEF Memory
<1>8. Agree'
  <2> SUFFICES ASSUME NEW q \in DOMAIN mem', NEW s \in DOMAIN mem'[q]
               PROVE  Exempt(q, s)' \/ Sure(mem'[q][s]) = Stored(s)'
    BY DEF Agree
  <2>1. Stored(s)' = Stored(s) /\ (Exempt(q, s) => Exempt(q, s)')
    BY <1>0, StoredFrame DEF Exempt
  <2>2. CASE q = p /\ s = e
    BY <1>2, <1>3, <2>1, <2>2, SureLoad DEF Stored
  <2>3. CASE ~(q = p /\ s = e)
    <3>1. q \in DOMAIN mem /\ s \in DOMAIN mem[q] /\ mem'[q][s] = mem[q][s]
      BY <1>3, <2>3
    <3> QED
      BY <2>1, <3>1 DEF IInv, Agree
  <2> QED
    BY <2>2, <2>3
<1>9. Identity'
  BY <1>0, <1>4 DEF IInv, Identity
<1> QED
  BY <1>5, <1>6, <1>7, <1>8, <1>9 DEF IInv

\* A child dies and starts over.
LEMMA ChildDiesStep ==
  ASSUME IInv, NEW p \in Child, ChildDies(p)
  PROVE  IInv'
<1>1. /\ p \in DOMAIN mem /\ mem' = Starts(mem, p) /\ p # "MANAGER"
      /\ UNCHANGED <<installed, redis, pc, spawned, jconf, queueId>>
  BY DEF ChildDies, Child
<1>2. pc \notin {"down", "identify", "save_id"} /\ spawned' \in Nat /\ pc' = pc
  BY <1>1 DEF IInv, Shape
<1> QED
  BY <1>1, <1>2, StartsStep

\* The Manager dies, and with it all processes; Redis stays.
LEMMA ManagerDiesStep == IInv /\ ManagerDies => IInv'
<1> SUFFICES ASSUME IInv, ManagerDies PROVE IInv'
  OBVIOUS
<1>1. /\ pc' = "down" /\ spawned' = 0 /\ jconf' = <<>> /\ mem' = <<>>
      /\ UNCHANGED <<installed, redis>>
  BY DEF ManagerDies
<1>2. DOMAIN mem' = {} /\ DOMAIN jconf' = {}
  BY <1>1
<1>3. Shape'
  BY <1>1, <1>2 DEF IInv, Shape
<1>4. Docs'
  BY <1>1, DocsFrame DEF IInv
<1>5. Memory' /\ Agree' /\ Identity'
  BY <1>1, <1>2 DEF Memory, Agree, Identity
<1> QED
  BY <1>3, <1>4, <1>5 DEF IInv

\* All steps together.
LEMMA NextIInv == IInv /\ [Next]_vars => IInv'
<1> SUFFICES ASSUME IInv, [Next]_vars PROVE IInv'
  OBVIOUS
<1>1. CASE ManagerInitialize
  BY <1>1, ManagerStartStep, IdentifyStep, SaveIdentityStep, SpawnChildStep,
     SaveManagerStep DEF ManagerInitialize
<1>2. CASE CloudSetAirCState
  BY <1>2, SwitchRelayStep, SaveRelayStep, RespawnSensorStep DEF CloudSetAirCState
<1>3. CASE ManagerDies
  BY <1>3, ManagerDiesStep
<1>4. ASSUME NEW p \in Child, ChildLoads(p) \/ ChildDies(p) PROVE IInv'
  BY <1>4, ChildLoadsStep, ChildDiesStep
<1>5. CASE UNCHANGED vars
  BY <1>5 DEF vars, IInv, Shape, Docs, ForeignKeysSurvive, Memory, Held, Agree,
              Exempt, Stored, Identity
<1> QED
  BY <1>1, <1>2, <1>3, <1>4, <1>5 DEF Next

\* The invariant holds always.
LEMMA Invariance == Spec => []IInv
  BY InitIInv, NextIInv, PTL DEF Spec

-----------------------------------------------------------------------------
\* The sections that a process holds are those of its list Entries, and its relays
\* are the installed ones, each off or on.
THEOREM ConfigTypeCorrect == Spec => []TypeOK
<1>1. IInv => TypeOK
  BY EntriesFacts DEF IInv, Shape, Memory, TypeOK
<1> QED
  BY <1>1, Invariance, PTL

\* Whichever process was started before the Manager rewrote a section and
\* whichever after, they agree about it; about the relays except while one is
\* being switched (Manager.cpp:71-75, ManagerDownlinkHandler.cpp:238-241).
THEOREM ProcessesAgree == Spec => []RunningAgree
<1>1. ASSUME IInv PROVE RunningAgree
  <2> SUFFICES ASSUME NEW p \in DOMAIN mem,
                      NEW s \in DOMAIN mem[p] \cap DOMAIN mem["MANAGER"],
                      ~(s = "DFRelayState" /\ pc \in {"save_relay", "respawn"})
               PROVE  Sure(mem[p][s]) = Sure(mem["MANAGER"][s])
    BY DEF RunningAgree
  <2>1. "MANAGER" \in DOMAIN mem
    BY <1>1 DEF IInv, Shape
  <2>2. CASE pc = "save_id"
    BY <1>1, <2>2 DEF IInv, Shape
  <2>3. CASE pc # "save_id"
    BY <1>1, <2>1, <2>3 DEF IInv, Agree, Exempt
  <2> QED
    BY <2>2, <2>3
<1> QED
  BY <1>1, Invariance, PTL

\* Once children run, all processes, the queue of the Manager and Redis have the
\* same identity, and it is not empty (Manager.cpp:27-51).
THEOREM IdentityIsOne == Spec => []OneIdentity
<1>1. ASSUME IInv PROVE OneIdentity
  <2> SUFFICES ASSUME NEW p \in DOMAIN mem, "RegInfo" \in DOMAIN mem[p],
                      pc \notin {"identify", "save_id"}
               PROVE  /\ DevID(mem[p]) # EmptyStr
                      /\ DevID(mem[p]) = queueId
                      /\ DevID(mem[p]) = redis["RegInfo"].DevID
    BY DEF OneIdentity
  <2>1. pc # "down"
    BY <1>1 DEF IInv, Shape
  <2>2. DevOf(redis["RegInfo"]) # EmptyStr /\ queueId = DevOf(redis["RegInfo"])
    BY <1>1, <2>1 DEF IInv, Identity
  <2>3. Sure(mem[p]["RegInfo"]) = Stored("RegInfo")
    BY <1>1 DEF IInv, Agree, Exempt
  <2>4. DevID(mem[p]) = DevOf(redis["RegInfo"])
    BY <2>3, StoredDev DEF DevID
  <2>5. DevOf(redis["RegInfo"]) = redis["RegInfo"].DevID
    BY <2>2 DEF DevOf, JGET
  <2> QED
    BY <2>2, <2>4, <2>5
<1> QED
  BY <1>1, Invariance, PTL

\* An identity that is in Redis is never replaced, whenever the Manager dies and
\* whatever interfaces it finds when it starts again (Manager.cpp:27-51).
THEOREM IdentityKept == Spec => IdentityIsForever
<1> DEFINE Kind == Gives(redis["RegInfo"], "DevID") /\ redis["RegInfo"].DevID # EmptyStr
                   => redis'["RegInfo"].DevID = redis["RegInfo"].DevID
<1>1. ASSUME IInv, [Next]_vars PROVE Kind
  <2>1. CASE UNCHANGED redis
    BY <2>1
  <2>2. CASE SaveIdentity
    BY <1>1, <2>2 DEF SaveIdentity, IInv, Identity, DevOf, JGET
  <2>3. CASE SaveManager \/ SaveRelay
    <3>1. \E s \in Savable \ {"RegInfo"} : Save(s) /\ pc # "down"
      BY <2>3 DEF SaveManager, SaveRelay, Savable
    <3>2. redis'["RegInfo"] = redis["RegInfo"]
      BY <1>1, <3>1, SaveFacts DEF IInv, Section
    <3> QED
      BY <3>2
  <2> QED
    BY <1>1, <2>1, <2>2, <2>3 DEF Next, vars, ManagerInitialize, CloudSetAirCState,
       ManagerStart, Identify, SpawnChild, SwitchRelay, RespawnSensor, ManagerDies,
       ChildLoads, ChildDies
<1> QED
  BY <1>1, Invariance, PTL DEF Spec, IdentityIsForever

\* If the Manager died now, it would load the sections it has, but for the one it is
\* about to save: JSave() writes all that Load() reads (ComConfig.cpp:31-102,
\* 231-284, 964-1019).
THEOREM ReloadStable == Spec => []ReloadIsStable
<1>1. ASSUME IInv PROVE ReloadIsStable
  <2> SUFFICES ASSUME pc # "down", NEW s \in Range(Entries["MANAGER"]) \ Unsaved,
                      NEW c \in Garbage
               PROVE  Sure(Load(s, redis[s], c)) = Sure(mem["MANAGER"][s])
    BY DEF ReloadIsStable
  <2>1. /\ s \in DOMAIN mem["MANAGER"] /\ "MANAGER" \in DOMAIN mem /\ s \in Section
    BY <1>1, EntriesFacts DEF IInv, Shape, MgrSections, Section
  <2>2. ~Exempt("MANAGER", s)
    BY DEF Exempt, Unsaved
  <2>3. Sure(mem["MANAGER"][s]) = Stored(s)
    BY <1>1, <2>1, <2>2 DEF IInv, Agree
  <2> QED
    BY <2>1, <2>3, SureLoad DEF Stored
<1> QED
  BY <1>1, Invariance, PTL

\* The devices that are kept are the first, the second, and so on.
LEMMA Ranks ==
  ASSUME NEW n \in Nat, NEW K \in SUBSET (1 .. n)
  PROVE  /\ IsFiniteSet(K) /\ Cardinality(K) \in Nat
         /\ \A i \in K : Rank(K, i) \in 1 .. Cardinality(K)
         /\ \A i, j \in K : Rank(K, i) = Rank(K, j) => i = j
<1> DEFINE Below(i) == {j \in K : j <= i}
<1>1. IsFiniteSet(1 .. n)
  BY FS_Interval
<1>2. IsFiniteSet(K) /\ Cardinality(K) \in Nat
  BY <1>1, FS_Subset, FS_CardinalityType
<1>3. ASSUME NEW i \in K
      PROVE  /\ IsFiniteSet(Below(i)) /\ Cardinality(Below(i)) \in Nat
             /\ Cardinality(Below(i)) <= Cardinality(K) /\ Cardinality(Below(i)) # 0
  <2>1. Below(i) \in SUBSET K /\ i \in Below(i)
    OBVIOUS
  <2> HIDE DEF Below
  <2>2. IsFiniteSet(Below(i)) /\ Cardinality(Below(i)) <= Cardinality(K)
    BY <1>2, <2>1, FS_Subset
  <2> QED
    BY <2>1, <2>2, FS_CardinalityType, FS_EmptySet
<1>4. ASSUME NEW i \in K, NEW j \in K, i < j
      PROVE  Cardinality(Below(i)) # Cardinality(Below(j))
  <2>0. \A x \in K : x \in Int
    OBVIOUS
  <2>1. j \in Below(j) /\ j \notin Below(i)
    BY <1>4, <2>0
  <2>3. ASSUME NEW x \in Below(i) PROVE x \in Below(j)
    <3>1. x \in K /\ x <= i /\ x \in Int /\ i \in Int /\ j \in Int
      BY <2>0
    <3>2. x <= j
      BY <1>4, <3>1
    <3> QED
      BY <3>1, <3>2
  <2>4. Below(i) \in SUBSET Below(j)
    BY <2>3
  <2>2. IsFiniteSet(Below(j))
    BY <1>3
  <2> HIDE DEF Below
  <2> QED
    BY <2>1, <2>2, <2>4, FS_Subset
<1>5. \A i \in K : Rank(K, i) = Cardinality(Below(i))
  BY DEF Rank
<1> HIDE DEF Below
<1>6. \A i \in K : Rank(K, i) \in 1 .. Cardinality(K)
  BY <1>2, <1>3, <1>5
<1>7. \A i, j \in K : Rank(K, i) = Rank(K, j) => i = j
  BY <1>4, <1>5
<1> QED
  BY <1>2, <1>6, <1>7

\* A device that is kept has what its element gives, whatever was skipped before it.
LEMMA CollectorFollows ==
  ASSUME NEW jc, IsArray(Array(jc, "devices"))
  PROVE  LET arr == Array(jc, "devices")
             devs == CollectorLoad(jc).list
         IN  /\ Len(devs) = Cardinality(Kept(arr))
             /\ \A i \in Kept(arr) :
                  Follows(DeviceConfig, devs[Rank(Kept(arr), i)].dev, arr[i])
<1> DEFINE arr == Array(jc, "devices")
           all == LoadArray(DeviceConfig, arr)
           K == Kept(arr)
           N == Cardinality(K)
           Nth(n) == CHOOSE i \in K : Rank(K, i) = n
           devs == [n \in 1 .. N |-> [dev |-> all[Nth(n)], alarms |-> Alarms(arr[Nth(n)])]]
<1>1. CollectorLoad(jc).list = devs
  BY DEF CollectorLoad
<1>2. Len(arr) \in Nat /\ DOMAIN arr = 1 .. Len(arr)
  BY ArrayFacts
<1>3. K \in SUBSET (1 .. Len(arr))
  BY <1>2 DEF Kept
<1> HIDE DEF arr, K, all
<1>4. /\ N \in Nat
      /\ \A i \in K : Rank(K, i) \in 1 .. N
      /\ \A i, j \in K : Rank(K, i) = Rank(K, j) => i = j
  BY <1>2, <1>3, Ranks
<1> HIDE DEF N
<1>5. \A i \in K : Nth(Rank(K, i)) = i
  BY <1>4
<1> HIDE DEF Nth
<1>6. \A i \in K : devs[Rank(K, i)].dev = all[i]
  BY <1>4, <1>5
<1>7. devs \in Seq({devs[n] : n \in 1 .. N}) /\ Len(devs) = N
  BY <1>4
<1>8. \A i \in K : Follows(DeviceConfig, all[i], arr[i])
  BY <1>2, <1>3, LoadedFollows, NullAssumption DEF all
<1> HIDE DEF devs
<1> QED
  BY <1>1, <1>6, <1>7, <1>8 DEF arr, K, N

\* A relay keeps what its element gives, however it was switched.
LEMMA RelaysFollow ==
  ASSUME NEW db \in Installed, NEW l \in RelayLists(db)
  PROVE  AllFollow(Unswitched(RelayState), l, Array(db["DFRelayState"], "Relays"))
<1> DEFINE arr == Array(db["DFRelayState"], "Relays")
           list == Elements(RelayState, db["DFRelayState"], "Relays")
<1>1. IsArray(arr)
  BY ConfigAssumption
<1>2. Len(arr) \in Nat /\ DOMAIN arr = 1 .. Len(arr)
  BY <1>1, ArrayFacts
<1>3. list = LoadArray(RelayState, arr)
  BY DEF Elements
<1>4. PICK on \in [DOMAIN list -> {0, 1}] :
        l = [i \in DOMAIN list |-> [list[i] EXCEPT !.state = on[i]]]
  BY DEF RelayLists
<1> HIDE DEF arr, list
<1>5. /\ DOMAIN list = 1 .. Len(arr) /\ AllFollow(RelayState, list, arr)
      /\ Len(list) = Len(arr) /\ Rows(RelayState, list)
  BY <1>2, <1>3, LoadedRows, LoadedFollows, NullAssumption
<1>6. l \in Seq({l[i] : i \in 1 .. Len(arr)}) /\ Len(l) = Len(arr)
  BY <1>2, <1>4, <1>5
<1>7. ASSUME NEW i \in DOMAIN arr PROVE Follows(Unswitched(RelayState), l[i], arr[i])
  <2>1. l[i] = [list[i] EXCEPT !.state = on[i]] /\ Follows(RelayState, list[i], arr[i])
    BY <1>2, <1>4, <1>5 DEF AllFollow
  <2>2. DOMAIN list[i] = DOMAIN RelayState
    BY <1>2, <1>5 DEF Rows, Full
  <2>3. \A k \in DOMAIN RelayState \ {"state"} : l[i][k] = list[i][k]
    BY <2>1, <2>2
  <2> QED
    BY <2>1, <2>3 DEF Follows, Unswitched
<1> QED
  BY <1>6, <1>7 DEF AllFollow, arr

\* Whatever the installation gives a child process, a sensor, a relay or a device,
\* every process that has loaded it runs with it, after any saves, switches and
\* deaths; a save can lose no value, and no element can overwrite another's
\* (ComConfig.cpp:52-102, 131-164, 915-926, 964-1019).
THEOREM GivenIsRun == Spec => []RunsWhatIsGiven
<1>1. ASSUME IInv PROVE RunsWhatIsGiven
  <2> SUFFICES ASSUME NEW p \in DOMAIN mem
               PROVE  /\ "Manager" \in DOMAIN mem[p] =>
                           AllFollow(ProcessConfig, mem[p]["Manager"].list,
                                     Array(installed["Manager"], "Children"))
                      /\ "SensorGroup" \in DOMAIN mem[p] =>
                           AllFollow(SensorAlarmConfig, mem[p]["SensorGroup"].list,
                                     Array(installed["SensorGroup"], "Sensors"))
                      /\ "DFRelayState" \in DOMAIN mem[p] =>
                           AllFollow(Unswitched(RelayState), mem[p]["DFRelayState"].list,
                                     Array(installed["DFRelayState"], "Relays"))
                      /\ "Collector" \in DOMAIN mem[p] /\ installed["Collector"] # Null =>
                           LET arr  == Array(installed["Collector"], "devices")
                               list == mem[p]["Collector"].list
                           IN  /\ Len(list) = Cardinality(Kept(arr))
                               /\ \A i \in Kept(arr) :
                                    Follows(DeviceConfig, list[Rank(Kept(arr), i)].dev, arr[i])
    BY DEF RunsWhatIsGiven
  <2>0. installed \in Installed
    BY <1>1 DEF IInv, Shape
  <2>1. ASSUME NEW s \in {"Manager", "SensorGroup", "Collector"}, s \in DOMAIN mem[p]
        PROVE  mem[p][s].list = Load(s, redis[s], Null).list
    <3>1. Sure(mem[p][s]) = Stored(s)
      BY <1>1, <2>1 DEF IInv, Agree, Exempt
    <3> QED
      BY <3>1 DEF Stored, Sure
  <2>2. ASSUME "Manager" \in DOMAIN mem[p]
        PROVE  AllFollow(ProcessConfig, mem[p]["Manager"].list,
                         Array(installed["Manager"], "Children"))
    <3> DEFINE arr == Array(installed["Manager"], "Children")
    <3>1. mem[p]["Manager"].list = ManagerLoad(redis["Manager"]).list
      BY <2>1, <2>2 DEF Load
    <3>2. mem[p]["Manager"].list = Elements(ProcessConfig, installed["Manager"], "Children")
      BY <1>1, <3>1 DEF IInv, Docs, ManagerLoad
    <3>3. mem[p]["Manager"].list = LoadArray(ProcessConfig, arr)
      BY <3>2 DEF Elements
    <3>4. IsArray(arr)
      BY <2>0, ConfigAssumption
    <3> HIDE DEF arr
    <3>5. AllFollow(ProcessConfig, LoadArray(ProcessConfig, arr), arr)
      BY <3>4, ArrayFacts, LoadedFollows, NullAssumption
    <3> QED
      BY <3>3, <3>5 DEF arr
  <2>3. ASSUME "SensorGroup" \in DOMAIN mem[p]
        PROVE  AllFollow(SensorAlarmConfig, mem[p]["SensorGroup"].list,
                         Array(installed["SensorGroup"], "Sensors"))
    <3> DEFINE arr == Array(installed["SensorGroup"], "Sensors")
    <3>1. redis["SensorGroup"] = installed["SensorGroup"]
      BY <1>1 DEF IInv, Docs, Savable, Section
    <3>2. mem[p]["SensorGroup"].list = SensorGroupLoad(installed["SensorGroup"]).list
      BY <2>1, <2>3, <3>1 DEF Load
    <3>3. mem[p]["SensorGroup"].list = LoadArray(SensorAlarmConfig, arr)
      BY <3>2 DEF SensorGroupLoad, Elements
    <3>4. IsArray(arr)
      BY <2>0, ElementsAssumption DEF FirstGives
    <3> HIDE DEF arr
    <3>5. AllFollow(SensorAlarmConfig, LoadArray(SensorAlarmConfig, arr), arr)
      BY <3>4, ArrayFacts, LoadedFollows, NullAssumption
    <3> QED
      BY <3>3, <3>5 DEF arr
  <2>4. ASSUME "DFRelayState" \in DOMAIN mem[p]
        PROVE  AllFollow(Unswitched(RelayState), mem[p]["DFRelayState"].list,
                         Array(installed["DFRelayState"], "Relays"))
    <3>1. mem[p]["DFRelayState"].list \in RelayLists(installed)
      BY <1>1, <2>4 DEF IInv, Memory
    <3> QED
      BY <2>0, <3>1, RelaysFollow
  <2>5. ASSUME "Collector" \in DOMAIN mem[p], installed["Collector"] # Null
        PROVE  LET arr  == Array(installed["Collector"], "devices")
                   list == mem[p]["Collector"].list
               IN  /\ Len(list) = Cardinality(Kept(arr))
                   /\ \A i \in Kept(arr) :
                        Follows(DeviceConfig, list[Rank(Kept(arr), i)].dev, arr[i])
    <3>1. redis["Collector"] = installed["Collector"]
      BY <1>1 DEF IInv, Docs, Savable, Section
    <3>2. mem[p]["Collector"].list = CollectorLoad(installed["Collector"]).list
      BY <2>1, <2>5, <3>1 DEF Load
    <3>3. IsArray(Array(installed["Collector"], "devices"))
      BY <2>0, <2>5, ConfigAssumption
    <3> QED
      BY <3>2, <3>3, CollectorFollows
  <2> QED
    BY <2>2, <2>3, <2>4, <2>5
<1> QED
  BY <1>1, Invariance, PTL

\* No save loses a key of an installed section, nor the value of one that is no
\* field (ComConfig.cpp:65-102, 256-284, 985-1019).
THEOREM ForeignKept == Spec => []ForeignKeysSurvive
<1>1. IInv => ForeignKeysSurvive
  BY DEF IInv, Docs
<1> QED
  BY <1>1, Invariance, PTL
=============================================================================
