# Verification of the IT5 gateway

TLA+ models, TLC runs and TLAPS proofs for the gateway under
`src/ics_gateway/01.CD/apps`. Paths below are relative to that directory.

## 1. The system

The gateway is four processes and a Redis server on one board. `it5-manager.service`
starts the Manager; the Manager spawns the others and spawns them again when
they die.

| Component | State it keeps | Operations | Talks to |
|---|---|---|---|
| **M2M_SENSOR** (`SensorDevice.cpp`, `DS18B20.cpp`) | relay states read at its start | read two temperatures, push a message, sleep | Redis list `local_data_bus` |
| **Bridge** (`Bridge.cpp`) | none of its own; Redis keys `collector_<type>` | `ProcessCollectData` (event loop), `DataPointProcessor` (timer thread) | takes from `local_data_bus`, pushes on `M2C_DATA_MQTT`, sets `live_data` |
| **M2C_MQTT** (`M2CMQTT.cpp`, `M2CMQTTDataSet.*`, `M2CMQTTDownlink.cpp`) | MQTT client, `mState`, `IsFirstConnect`, consumer queue | `initialize`/`Connect` (init thread), callbacks (receive thread), `Consume` (consume thread), listeners and `ProcessIPC` (event loop) | three Redis lists, the broker, IPC with the Manager |
| **Manager** (`Manager.cpp`, `ManagerDownlinkHandler.cpp`, `ManagerWatchDog.cpp`) | relay states in memory, pins, children | `Initialize`, `ProcessMGRDownlinkMsg`, `watchdog` | IPC, GPIO, Redis, process control |
| **Common** (`ComConfig`, `ComQueue`, `ComState`, `ComUtil`, `ComSysNetwork`, `ComSysInfo`) | configuration sections, the global state, in every process a logger with its queue, thread and files | load and save sections, push events and audits, `ComTimer::Run`, `MyLogger::print`/`doLog`/`checkMaxSize`, probe of the cloud | Redis, files, commands |
| **it5-main** (`Util/it5-main`) | none; reads `SystemState` | waits for the installation, starts the Manager | Redis, systemd |
| **Core library** (`ComRedis`, `ComProcess`, IPC, `CommandRunner`) | | | a binary under `3rd.party.raspi`; external |

*Uplink*: sensor -> `local_data_bus` -> Bridge -> `M2C_DATA_MQTT` -> M2C_MQTT ->
broker; events and audits join on `mqtt_events` and `mqtt_audits`.
*Downlink*: broker -> consume thread -> IPC -> Manager -> relay, Redis, respawn of
the sensor -> IPC -> event loop of M2C_MQTT -> broker.

What is hard here: the Bridge's timer thread and event loop share Redis keys with
the lock commented out; a listener pops a message and the process may die with it
in hand; a publish that timed out may still arrive; `mState` follows the
connection through callbacks of another thread without a lock; a relay's state
lives in four places that are written one after the other; every process may die
between any two of these steps; log files are shifted by one rename after the
other; the timer computes with a clock of whole seconds that may be set, in 32 bits;
a thermometer's file is scanned into variables without a first value. `PROJECT.json` lists these hazards line by line.

What makes each component correct:

- Bridge: a reading is reported at most once and in order; no message blocks the bus.
- Uplink of M2C_MQTT: each list arrives in order; only a death loses a message,
  and at most one; everything else arrives.
- Connection: the init thread ends only when the gateway serves; the consumer never
  waits on a session without its subscription; after the last fault it is subscribed;
  requests are handled in order and once, and it is known exactly when one is lost.
- Sensor: a good tag carries the true temperature of its own thermometer; no
  temperature is an error code and no error a temperature.
- Watchdog: called once per interval, neither early nor late by a second; reports of
  the system in time; it never stops.
- Logger: files in order, only the oldest dropped and only when all indices are used,
  bounded growth, every queued line taken.
- Configuration: the processes agree, they run with what the installation gives, a
  restart changes nothing, the gateway gets one identity.
- Downlink: memory, pin, Redis and sensor agree between requests; success means
  saved; each request is acknowledged before it is answered, and answered once.

## 2. Modules

| Module | Models | Composes |
|---|---|---|
| `SensorBridge` | sensor loop as producer, Bridge | |
| `OrderedChannel` | abstract: what the uplink promises | |
| `CloudForwarder` | listeners, callbacks, `Publish`, connection as the publisher sees it | `INSTANCE OrderedChannel` |
| `MqttDataSet` | `initialize`, `Connect`, callbacks, `StartConsume`, `Consume` | |
| `RequestQueue` | the requests in the consumer's queue, `ProcessIPC` publishing with the same `Client` | extends `MqttDataSet` |
| `Downlink` | `ProcessDownlinkConsume`, the Manager's handler, `ProcessIPC`, start and end of the processes | |
| `GatewayConfig` | loading and saving of the configuration by all processes, start of the Manager | |
| `Sampler` | the collecting loop with `DS18B20::getTemp` | |
| `WatchDog` | `ComTimer::Run`, `ManagerWatchDog::watchdog`, the global state, `it5-main` | |
| `Logger` | `MyLogger` | |
| `SensorBridgeProofs`, `CloudForwarderProofs`, `RequestQueueProofs` (with those of `MqttDataSet`), `DownlinkProofs`, `GatewayConfigProofs`, `LoggerProofs`, `SamplerProofs`, `WatchDogProofs` | theorems | extend the above |
| `MC*` | instances for TLC | extend the above |

Definitions whose comment begins "Mutation of" are not part of a specification:
each is a plausible slip in the code (a dropped reset, a swapped order) that a
property must notice.

### SensorBridge
`bus`, `slot`, `log` and `live` are the Redis objects; `taken` is the message in
the event loop's hands; `tpc`, `ti` and `dp` are the timer thread's place, loop
index and data point. Every Redis command is one step, so the threads interleave
between the `Get` (`GetSlot`, Bridge.cpp:52) and the `Set` (`ClearSlot`, line 59). A
reading is its number at its source, 0 is the empty string. `FindBySubId` of an
unknown device yields a null reference; both things a build can make of the test at
line 102 are possible (`CollectIgnored`, `CollectNullReference`). The data of a
message (tags, alarms, time stamps) is not modelled.

### CloudForwarder
The event loop runs one callback at a time: `pc` is its place in it, `cur` the
message `ComRedis` popped. A callback that returns false has its message put back
in front (`RPushBack`). `Publish` is split where another thread or the network can
act: test of the state, `publish`, wait, outcome. `wire` holds what was written to
the socket; a new session ends the old one. `link` is the connection, `conn` what
`mState` says. `PublishExit` is the `exit(1)` after 300 seconds; it pushes an audit
first. `PushAudit` and `PushEvent` ignore their message on a gateway without a
DevID or with another protocol: the producers then do not push, and the two audits
of M2C_MQTT itself assume the DevID without which it does not connect.

### MqttDataSet
One life of the process, one program counter per thread: `ipc`, `rpc`, `kpc`. The
receive thread makes one callback at a time, and `delete Client` waits for it. A
`connected()` can come after `Connect()` timed out and before the delete. After
`connection_lost()` the client puts a null message into the consumer's queue, if
there is one. A clean session forgets its subscription. `pthread_create` is taken
to succeed; `ConnectSimple` and `Disconnect` have no caller at run time.

### RequestQueue
Superposed on `MqttDataSet`: every step is a step of `MqttDataSet` with its effect on
`queue`, or leaves its variables alone, so whatever holds of `MqttDataSet` holds here.
`queue` has the requests and, as 0, the nulls; `start_consuming` makes a new one and
`stop_consuming` gives it up with what is in it (`Discard`, history `cut`). `upc` is
the event loop in `Publish`, split between the test of `Client`, the test of the state
and the call. A response of the Manager may come at any time: it may answer a request
of an earlier life of the process. What happens in a call whose client is deleted is
undefined; a crash ends the life that the module models, so only the return is a step.

### Downlink
A delivery is its number; its request is a record of what the code tells apart.
`cpc` and `mpc` are the consume thread and the Manager's event loop. The relay is
switched in four steps (`SwitchRelay`, `SaveRelays`, `RespawnSensor`,
`SendCloudResp`), and the processes may end between any two. The death of the
Manager ends every process (the service's control group); a reboot also resets the
pins. Relay indices are taken to be distinct. `mqtt` says whether `Protocol` of RegInfo
is MQTT, which the Manager asks before it sends an answer: if not, the answer is only
logged (ManagerDownlinkHandler.cpp:109-114), and the cloud hears of the request the
acknowledgement alone, which `EventuallyAnswered` lists among its exceptions. M2C_MQTT
itself does not ask and takes requests all the same. `lost` records the deliveries that a
death or a failed publish cut off; it appears only in `EventuallyAnswered`.

### GatewayConfig
`redis` holds the sections, `mem` what each running process has loaded, `jconf` the
JSON objects in which the Manager saves. A JSON object is a function from its keys.
`LoadArray` is the loop with its element variable declared outside; `StrRemove` takes
the character its uninitialized variable happens to hold as a parameter, which every
load chooses (`Garbage`). A child loads one section per step, so the Manager's saves
fall between them. `LOGS`, `NTP` and `NETWORK` are loaded and never read, and are left
out, as are `COMCFG::Refresh`, `Reset`, `Save` and the drafts, which nothing calls. The
fields without an initializer (`IsRespawn`, `MaxSpawnTimes`, and the numbers of sensors
and relays) are given by the first element of each array, as in `Config-1.0.1`:
`ElementsAssumption` says so. The relay's three steps are those of `Downlink`, which takes `Load` after `Save` to be
the identity on the relay states; `ReloadIsStable` is what justifies that. What an
installation may be is `ConfigAssumption`: every section but perhaps the Collector,
arrays where the loops look for arrays, children that are programs of the gateway,
relays that are off or on; otherwise a section has any keys and values, null included.
`RunsWhatIsGiven` is about the values that an element gives. What a value that is left
out becomes is a flaw of the code, and the run `config_defaults` shows it.

### Sampler
`group` is the list of tags in SENSOR_GROUP: of each the prefix of its name and its
address. `Chosen` is the loop that looks for the addresses: the last tag of a prefix
wins, and without one the pointer was never set, so the address is any (or the process
dies, `Respawn`). `dev` are the addresses of the two thermometers; a tag whose address
another one replaced reports a thermometer that is not its own, so `TagsAreTrue` is
about the tags whose address was kept (`Keeps`), and says that these are not disturbed
by the rest. `temp` are the two readings, `left` what the last call of `getTemp` left
where the next one has its variables. `FirstFive` is the width of `%5d`, `Convert` the
conversion to unsigned; the division by 1000 is left out and the error codes are scaled
instead. A file without text leaves `crcConf` and `tempInt` unset: the code finds either
something else than "YES" or what the reading before left (`Results`). A negative
interval, also the -1 of a missing one, is a sleep of 68 years or more (`sleeping`); what
a gateway without an interval should do is said nowhere, so no property is about it.
A tag is its place in the list; relay tags are in `Downlink`.

### WatchDog
Time is relative, in units of which `Sec` make a second: `secs` and `age` are what
passed since `t1` by the clock and truly, `repSecs` and `repAge` since
`sysreport_time`. `Rest` has the subtraction of `Run` modulo `Wrap`; a negative double
converted to unsigned is undefined, so `AsUnsigned` has the two results builds give.
The callback takes any time up to `MaxWork` (the probe's timeout does not limit
`connect()`), and the clock may be set once between two reports. The static `t1` is
shared by all timers of a process; the Manager has one. The watchdog also audits
`InstallSuccess` and `InstallFail` at every call and never changes the state. Each call
also pops the list `SystemInfor` empty and logs what was in it
(ManagerWatchDog.cpp:51-54); nothing in the source pushes on that list and nothing else
reads it, so it is left out.

### Logger
A line is its number, a file its first and last line and its length; a line is the unit
of size. `PrintEnter` and `PrintPush` are the two halves of `print()` around the lock;
`doLog()` is one step per file operation, `Shift` one rename. The process ends at any
point and starts again with the files as they are; `torn` records an end inside a
shift, which leaves a gap that the next search for a free index fills with a newer
file. An open for appending may fail and lose the line. Opening an existing file in
the search for a free index is taken to succeed.

## 3. Runs

| Run | Bounds | Shows |
|---|---|---|
| `bridge` | 2 devices, messages of the sensor, of an unknown device and garbled ones, 2 readings each, 2 data points, 1 death | `ReadingsReportedInOrder`, `LiveNeverGoesBack`, `BusIsDrained`, `SlotIsSwept`, with both outcomes of the null reference |
| `bridge_lost` | 1 device, no death | violation: a reading stored between Get and Set is erased (finding) |
| `forward` | 2 data points, 1 event and the process's audits, 2 faults | `ImplementsChannel`, `NothingVanishes`, `ConfirmedIsFinal`, `EventuallyForwarded` |
| `requests` | 2 requests, 4 faults | `InitDoneMeansServing`, `NeverDeaf` of `MqttDataSet`; `HandledInOrder`, `RequestsAccounted`, `OnlyAStaleNullDiscards`, `OnlyALateConnectDangles`, `RequestsAreServed`, `FinallyLossless` |
| `downlink` | 2 relays, one installed on and the other off, 2 requests of every kind, 2 faults, Protocol MQTT or not | `RelaysAgree`, `SensorSeesRelays`, `SuccessIsSaved`, `ReportsInOrder`, `EventuallyAnswered` |
| `config_safety` | 5 installed databases, 2 possible identities, 2 possible characters; no other bound | `RunningAgree`, `OneIdentity`, `IdentityIsForever`, `ReloadIsStable`, `RunsWhatIsGiven`, `ForeignKeysSurvive` |
| `config_defaults` | the shipped database with a delay at its first child | violation: the children behind it get that delay and not the default (finding) |
| `config_host` | the shipped database with a blank in the host | violation: the blank stays, or another character goes (finding) |
| `logger` | 2 writers, 3 indices, 6 lines, 2 ends | `FilesInOrder`, `NoFileIsLost`, `DropsOnlyWhenFull`, `GrowthIsBounded`, `QueueIsServed` |
| `watchdog_timing` | 2 units in a second, intervals of 3 seconds, callbacks of up to 8 units, clock set by -2 or 3 seconds | `NeverEarly`, `NeverLate`, `ReportsApart`, `ReportsInTime`, `WatchesForever` |
| `watchdog_failed` | intervals of 2 seconds, clock not set | violation: the Manager is started on `InstallFail` (finding) |
| `sampler_tags` | 7 temperatures at the edges, 3 addresses, 4 lists of tags, intervals -5, 0, 10 and none | `TagsAreTrue` |

Why these bounds: two readings and two data points let a reading be swept while the
next one is stored, and both be swept again across a death; two data points and two
faults let a message time out, be resent after a reconnection and meet the next one; two
requests and two faults let a death fall into the handling of the second request
after one that followed the first. Four faults let a null become stale, the round it
ends be cut off by another loss, and the same happen again. The temperatures are on
both sides of 0, of the width of five characters and of the error codes; the lists of
tags are the shipped one, one with two rooms at two addresses, one with one thermometer
for both prefixes and one without an outdoor tag. The requests are about the second
relay, installed off or on; the first has the other state, so that switching the wrong
one shows. A second of
two units and callbacks longer than the interval give every case of the remainder, the
wrap-around included. The lines fill all indices, shift and leave an end room in
every step of a shift. The databases are the shipped one and those with a
key missing, null or given at the first or a later element. The order properties are
also proved without bounds. Runs that set `CHECK_DEADLOCK FALSE` do so because
readings, requests, lines and faults are bounded, and a gateway that has handled them
all has nothing left to do.

Fairness (each run of a liveness property; the others need none): the threads of a process that runs keep running (weak fairness of each
thread's steps). The event loop gives a listener whose list is not empty its turn
although it is busy in between (strong fairness of `RPop`): libevent dispatches
the three timers in turn. Processes are started again (`Restart=always`, Respawn),
the client reconnects (`set_automatic_reconnect(true)`) and the broker answers.
The timer thread and the logging thread are never waited for
by others and run as long as their process does; `usleep` returns.
`SlotIsSwept` lets a sweep wait for a log that is at the bound of the run; in a registered
gateway each sweep adds to the log and reaches it, so the property binds in one that is
not registered, whose sweep is the same code without the push.
Nothing obliges a sensor to read, a cloud to send, or a fault to happen or not.

## 4. Theorems

Each is proved for every value of the constants, from the assumptions the modules
name: bounds are natural numbers; the installed relays are off or on; the garbled id is not a device; temperatures are
within the range of a DS18B20 (`SamplerAssumption`); the watchdog's interval and its
callback together stay below the range of the counter (`WatchDogAssumption`), and a
report is due before the seconds since the last one do (`ReportAssumption`, 136 years);
null is no default and no identity (`NullAssumption`), the installation is one
(`ConfigAssumption`), and its first elements give what the code leaves uninitialized
(`ElementsAssumption`). Each module's type invariant is proved; that of `GatewayConfig`,
which says more than types, is also run. Every safety property of a passing run is the
statement of a theorem.

- `SensorBridgeProofs`: `TypeCorrect`; `PipelineOrdered`; `LiveMonotone`.
  `ReadingsReportedInOrder` is not inductive: nothing in it says that the slot is
  newer than what was reported. The strengthening is `PipelineOrder`: reported,
  data point, slot, message in hand and bus are ordered, with the one exception of
  a slot read and not yet cleared. One lemma per action.
- `CloudForwarderProofs`: `TypeCorrect`; `FlowIsOrdered`; `Refinement`;
  `ConfirmedStaysFinal`; `NoMessageVanishes`. Every step is first shown to be one of
  six moves of messages (`NextMoves`), and each move to keep `ChannelOrder`. The refinement follows: the only step that changes `rcvd`
  takes the head of the wire, which is not older than anything received. The last two
  rest on `Acks`: on a link, the last publish on the wire is the one that is waited
  for, so an acknowledgement is of no other message and leaves the wire empty.
- `RequestQueueProofs`, about `MqttDataSet`: `TypeCorrect`; `InitServes`;
  `ConsumerNeverDeaf`; `RequestsHaveAQueue`. The strengthening says at which steps of the
  init thread there is no client (so no callback can have set `mState`), and that a
  subscription exists only under a link, at three steps of the consumer.
- `RequestQueueProofs`, about `RequestQueue`: `Superposed` (every step is one of `MqttDataSet`, so the
  theorems above carry over); `RequestQueueTypeCorrect`; `HandledOnceInOrder`;
  `NoOtherLoss`; `OnlyLateDangles`; `OnlyStaleDiscards`. Every step is first shown to be
  one of a few moves of requests (`NextMoves`). The strengthening for the losses says
  what is in the queue of a round that no stale null opened: nulls only until it is
  subscribed, then no null while the subscription lasts, and none before a request.
- `DownlinkProofs`: `DownlinkTypeCorrect`; `RelaysTogether`; `SensorUpToDate`;
  `SuccessMeansSaved`; `HeardInOrder`. `Relays` says how far memory, pin, Redis and
  sensor may be apart at each step of the Manager, `Progress` that what is in a queue was
  delivered and a success on its way has its relay saved, `Once` that a delivery is in
  one place at a time and what the cloud can have heard of it there.
- `GatewayConfigProofs`: `ConfigTypeCorrect`; `ProcessesAgree`; `IdentityIsOne`;
  `IdentityKept`; `ReloadStable`; `GivenIsRun`; `ForeignKept`. None of the properties
  is inductive: two processes agree because both agree with Redis. `IInv` says so
  (`Agree`: what is in a memory is what loading the section now would yield, with the
  exceptions of `Exempt` while the Manager is about to save or to respawn), that what
  is in Redis loads as what was installed (`Docs`), that the sections the Manager may
  save have all their fields (`Memory`), and that an identity is made only if there is
  none (`Identity`). Three lemmas carry it: `RowsReload` (a list whose elements have all
  fields is loaded as it is, so that the variable outside the loop does no harm),
  `LoadedFollows` (the loop takes every value that an element gives) and the `...Reload`
  lemmas (`Load` after `JSave`, section by section). One lemma per action.
- `LoggerProofs`: `LoggerTypeCorrect`; `GrowthBounded`; `FilesStayInOrder`;
  `DropsNothingElse`; `NothingIsLost`. The growth needs the count of entries since the last look; the
  order needs that the lines still to be written are newer than every file, and that
  a shift moves one gap and leaves none elsewhere. The account of lines needs what a
  rename does to the sum over all indices (`TotalChange`).
- `SamplerProofs`: `SamplerTypeCorrect`; `TagsStayTrue`. `Made` says that the thermometer
  of a prefix has the address of its last tag, for a list of any length (`ChosenFacts`);
  `Faithful` says, for each thermometer, whose file was read and what it allows the
  reading to be, from the scan to the message.
- `WatchDogProofs`: `WatchDogTypeCorrect`; `WatchdogNeverEarly`; `WatchdogNeverLate`;
  `ReportsNeverEarly`; `ReportsNeverLate`. `Marked` bounds the difference of the clock and the true time by
  a second while the clock is not set; `RestIs` shows that the modular subtraction then
  yields the rest of the interval or 0. `WaitInv` follows the wait for a report from a
  decision over the rest of the callback, the sleep and the next probe. The sleep is at
  most one interval whatever the clock says (`RestShort`), so a clock that was set just
  before the last report does not matter.

What a loop or a recursive function computes (`LoadArray`, `TotalSize`) is proved by
induction. The library's induction theorems take an operator and cannot be used by the
provers here; the lemma `Induct` speaks of a set of numbers instead and is proved from
the well-foundedness of their order (`Descent`, `Least`, `Induct`, in `LoggerProofs` and
`GatewayConfigProofs`).

Only model-checked: the liveness properties `BusIsDrained`, `SlotIsSwept`,
`EventuallyForwarded`, `RequestsAreServed`, `FinallyLossless`, `EventuallyAnswered`,
`QueueIsServed` and `WatchesForever`, because the prover has no fairness and no ENABLED.

## 5. Findings

- `bridge_lost` (Bridge.cpp:52-59): the timer's `Set` of the empty string erases a
  reading stored after its `Get`; the next sweep logs the device as "not set yet".
- `config_host` (ComUtil.cpp:271-274): `StrRemove(str, ch)` compares with a local
  variable that is never set; `ch` is not used.
- `config_defaults` (ComConfig.cpp:53): the element variable of the loop is declared
  before it, so a child without `RespawnDelay` gets that of the child before it and not
  the "30 seconds" of ComConfig.h:43; the save makes it permanent. The devices have the
  same loop and the "10 seconds" of ComConfig.h:95.
- `watchdog_failed` (it5-main): it waits at the word `InstallFailed`; the state is
  called `InstallFail`, on which the Manager is started.

Seen while reading, without a run of their own:

- ComUtil.h:440: a comma is missing behind "Configuration" in the table of group
  names; the two groups behind it carry the next group's name, and `LOG_G_GENERAL`
  reads behind the end of the table.
- M2CMQTTDownlink.cpp:24-25: the code reads `ban_tin_id` and `che_do_phat`; the comment
  at ManagerDownlinkHandler.cpp:57-69 documents `uuid` and `command`, and such a request
  is one without the keys, answered with an error (`SendError` in `Downlink`).
- ManagerWatchDog.cpp:46-59: the comment says that the watchdog sets the state;
  `InstallSuccess` is audited at every call and never left (`Report` in `WatchDog`).
- DS18B20.cpp:26: the result of `fscanf` is not looked at; a file without text may
  yield the reading before as a good tag (`Results` in `Sampler`).
- SensorDevice.cpp:86-96: two tags of one prefix report one thermometer, and without a
  tag of a prefix a pointer that was never set is used (`Chosen` in `Sampler`).
- SensorDevice.cpp:187: without an interval, or with a negative one, the loop sleeps for
  good after its first message (`Sleep` in `Sampler`).
- M2CMQTT.cpp:33: `initialize` tests a copy of the configuration that is read once per
  process, so a broker configured after the start is not dialled (`LoopHead`).
- ManagerWatchDog.cpp:32: the interval in microseconds has 32 bits and wraps around
  from 4295 seconds on; `WatchDogAssumption` excludes it.
- ComConfig.cpp:77: `SoftVer` is saved with the section and outlives a new binary.

## 6. Not modelled, and the plan

Most of the lines of the repository are vendored (Poco, OpenSSL, net-snmp, libevent and
Paho headers, exprtk, json.hpp, spdlog, fmt under `3rd` and `3rd.party.raspi`); the
gateway's own code is about 7500 lines under `apps`, of which the modules map what
runs. External, modelled from their use: Redis and `ComRedis`, `ComProcess`, systemd,
the Paho client, the broker.

Not modelled, and why:

- `ComSysInfo` computes the numbers of the system report from `/proc`; no state
  depends on them.
- `ComSysNetwork::Load` runs once, before `main()`, and nothing reads its result;
  changes of `ComNetHost`, `NetConfig::Commit`, `ComPinger`, `ComUrl`, `COMCFG::Refresh`
  and the drafts have no caller.
- The string helpers of `ComUtil` (apart from `StrRemove`) are pure and have one or no
  caller each.
- The installation scripts and `it5-cfg` are run by hand; what they leave in Redis is
  the initial state of `GatewayConfig`.
- `ManagerBridgeHandler` forwards a status text and changes no state.
- The limit on respawns (`MaxSpawnTimes`) is a counter in `ComProcess`, outside the source.

Left, in this order:

1. Proofs: the safety part of the liveness arguments, such as that the steps towards
   an answer or an empty bus decrease a measure.
2. The lazy creation of the data set in `PUB()` by two threads.
3. `it5-cfg` against the gateway's own saves, if it is ever called by a program.
