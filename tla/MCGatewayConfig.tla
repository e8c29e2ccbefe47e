-------------------------- MODULE MCGatewayConfig --------------------------
(***************************************************************************)
(* The sections as Config/Config-1.0.1 installs them, and with keys left   *)
(* out, null or added, as an operator may write them with redis-cli.       *)
(***************************************************************************)
EXTENDS GatewayConfig

ChildDoc(proto) == [Command |-> proto, IsRespawn |-> 1, MaxSpawnTimes |-> 50,
                    Priority |-> 100, Protocol |-> proto]

With(jc, k, v) == [x \in DOMAIN jc \cup {k} |-> IF x = k THEN v ELSE jc[x]]
Without(jc, k) == [x \in DOMAIN jc \ {k} |-> jc[x]]

Shipped == <<ChildDoc("BRIDGE"), ChildDoc("MQTT"), ChildDoc("SENSOR")>>

Children == {Shipped,
             [Shipped EXCEPT ![1] = With(@, "RespawnDelay", 5)],
             [Shipped EXCEPT ![1] = With(@, "RespawnDelay", 5),
                             ![2] = With(Without(@, "Priority"),
                                         "RespawnDelay", Null)],
             [Shipped EXCEPT ![2] = With(@, "RespawnDelay", 5)]}

ManagerDoc(ch) == [Children |-> ch, Host |-> "127.0.0.1", Port |-> 6789,
                   WatchdogInterval |-> 60, config |-> "MANAGER_INFO"]

Device(k) == [device_type |-> k, sub_id |-> k]

Devices ==
  [config |-> "COLLECTOR_CONFIG",
   devices |-> <<With(With(Device("d1"), "interval", 7), "alarms", Null),
                 Device("d2"),
                 With(Device("d3"), "alarms", <<Null, "a">>)>>]

NewGateway == [DevID |-> "", Model |-> "UBUNTU-HOST", RestAPIVer |-> "",
               config |-> "REGISTRATION_INFO"]
OldGateway == [DevID |-> "id0", Model |-> "UBUNTU-HOST",
               RestAPI |-> <<"a", "b">>, config |-> "REGISTRATION_INFO"]

MqttDoc == [config |-> "MQTT_BROKER", host |-> <<"b", " ", "r">>,
            port |-> 1883, state |-> 1]

SensorDoc == [interval |-> 10, config |-> "SENSOR_GROUP",
              Sensors |-> <<[tag |-> "RoomTemperature", state |-> 1,
                             high |-> 35, low |-> 0, mac_addr |-> "28-1"],
                            [tag |-> "OutdoorTemperature",
                             mac_addr |-> "28-2"]>>]

RelayDoc == [interval |-> 10, config |-> "DEFAULT_RELAY",
             Relays |-> <<[tag |-> "AirCondition1State", state |-> 0,
                           gpio |-> 23, index |-> 1],
                          [tag |-> "AirCondition2State", state |-> 0,
                           gpio |-> 24, index |-> 2]>>]

Database(ch, coll, reg) ==
  [Manager |-> ManagerDoc(ch), Collector |-> coll, RegInfo |-> reg,
   MQTT |-> MqttDoc, SensorGroup |-> SensorDoc, DFRelayState |-> RelayDoc]

OneDelay == {Database([Shipped EXCEPT ![1] = With(@, "RespawnDelay", 5)],
                      Null, NewGateway)}

ShippedOnly == {Database(Shipped, Null, NewGateway)}

MCInstalled == {Database(Shipped, Null, OldGateway)}
               \cup {Database(ch, Devices, NewGateway) : ch \in Children}
=============================================================================
