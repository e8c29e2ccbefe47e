----------------------------- MODULE MqttDataSet -----------------------------
(***************************************************************************)
(* One life of the MQTT connection of M2C_MQTT, and the three threads that *)
(* share it: the init thread, which dials until the first success and then *)
(* starts the consume thread and the listeners; the receive thread of the  *)
(* MQTT client, which calls connected() and connection_lost() and ends the *)
(* consumer's wait with a null message; and the consume thread, which      *)
(* subscribes, consumes, and starts over when its wait ends.               *)
(*                                                                         *)
(* Between Client, mState, the consumer's queue and the subscription at    *)
(* the broker there is no lock: only the order in which the threads write  *)
(* them keeps them together.                                               *)
(***************************************************************************)
EXTENDS Naturals

CONSTANT MaxFaults    \* bound: failed dials and lost links

ASSUME MaxFaultsAssumption == MaxFaults \in Nat

VARIABLES
  known,       \* MQTTConfig has the broker's host and the DevID
  ipc,         \* the init thread: where it is in initialize() and Connect()
  client,      \* Client # NULL
  token,       \* the token of Client->connect: none, pending or ok
  first,       \* IsFirstConnect
  status,      \* the last WDCLIENT_CHANGE of MQTT_PUB
  listening,   \* the three Redis listeners are registered
  state,       \* mState
  link,        \* the client is connected with the broker
  rpc,         \* the callback the receive thread is about to make
  kpc,         \* the consume thread: where it is in ExecConsume and Consume()
  hasQueue,    \* the consumer's queue exists
  nulls,       \* null messages in it
  suback,      \* the token of Client->subscribe: none, sent or acked
  subscribed,  \* the broker's session has the subscription
  faults       \* faults so far

vars == <<known, ipc, client, token, first, status, listening, state, link, rpc,
          kpc, hasQueue, nulls, suback, subscribed, faults>>

initVars == <<ipc, client, token, first, status, listening>>
queueVars == <<hasQueue, nulls>>
brokerVars == <<suback, subscribed>>

TypeOK ==
  /\ known \in BOOLEAN
  /\ ipc \in {"loop", "dial", "wait", "delete", "reset", "settle", "consume",
              "listen", "done"}
  /\ client \in BOOLEAN
  /\ token \in {"none", "pending", "ok"}
  /\ first \in BOOLEAN
  /\ status \in {"none", "undefined", "failed", "connected"}
  /\ listening \in BOOLEAN
  /\ state \in {"Init", "Connected"}
  /\ link \in BOOLEAN
  /\ rpc \in {"idle", "connected", "lost", "null"}
  /\ kpc \in {"off", "poll", "start", "subscribe", "subwait", "loop", "unsub",
              "stop"}
  /\ hasQueue \in BOOLEAN
  /\ nulls \in Nat
  /\ suback \in {"none", "sent", "acked"}
  /\ subscribed \in BOOLEAN
  /\ faults \in Nat

Init ==
  /\ known \in BOOLEAN
  /\ ipc = "loop"
  /\ client = FALSE
  /\ token = "none"
  /\ first = TRUE
  /\ status = "none"
  /\ listening = FALSE
  /\ state = "Init"
  /\ link = FALSE
  /\ rpc = "idle"
  /\ kpc = "off"
  /\ hasQueue = FALSE
  /\ nulls = 0
  /\ suback = "none"
  /\ subscribed = FALSE
  /\ faults = 0

-----------------------------------------------------------------------------
(***************************************************************************)
(* The init thread: M2C_MQTT::initialize and M2CMQTTDataSet::Connect.      *)
(***************************************************************************)

\* The init thread moves on, and what it never writes on the way.
InitMoves(from, to) ==
  /\ ipc = from
  /\ ipc' = to
  /\ UNCHANGED <<known, state, link, rpc, queueVars, brokerVars>>

\* The test at the head of the loop.
MustConnect == state = "Init" /\ first

\* The head of the loop.  MQTTConfig is not read again, so a process that
\* starts without a host or DevID stays here.
LoopHead ==
  /\ InitMoves("loop", IF ~MustConnect THEN "done"
                       ELSE IF known THEN "dial" ELSE "loop")
  /\ status' = IF MustConnect /\ ~known THEN "undefined" ELSE status
  /\ UNCHANGED <<client, token, first, listening, kpc, faults>>

\* new async_client, set_callback, connect.
Dial ==
  /\ client' = TRUE
  /\ token' = "pending"
  /\ InitMoves("dial", "wait")
  /\ UNCHANGED <<first, status, listening, kpc, faults>>

WaitOk ==
  /\ token = "ok"
  /\ InitMoves("wait", "settle")
  /\ UNCHANGED <<client, token, first, status, listening, kpc, faults>>

\* wait_for(10000) returns false, or it or connect throws.
WaitFails ==
  /\ token = "pending"
  /\ faults < MaxFaults
  /\ faults' = faults + 1
  /\ InitMoves("wait", "delete")
  /\ UNCHANGED <<client, token, first, status, listening, kpc>>

\* delete Client: it waits for a callback that runs, and none comes after it.
DeleteClient ==
  /\ ipc = "delete"
  /\ rpc = "idle"
  /\ client' = FALSE
  /\ token' = "none"
  /\ link' = FALSE
  /\ ipc' = "reset"
  /\ UNCHANGED <<known, first, status, listening, state, rpc, kpc, queueVars,
                 brokerVars, faults>>

\* Mutation of ResetState: mState is left as the callbacks set it.
ResetMissing ==
  /\ status' = "failed"
  /\ InitMoves("reset", "loop")
  /\ UNCHANGED <<client, token, first, listening, kpc, faults>>

\* mState = DataSetInit, which a late connected() may have changed.
ResetState ==
  /\ ipc = "reset"
  /\ state' = "Init"
  /\ status' = "failed"
  /\ ipc' = "loop"
  /\ UNCHANGED <<known, client, token, first, listening, link, rpc, kpc,
                 queueVars, brokerVars, faults>>

\* "Wait for client event update state", whether or not it came.
Settle ==
  /\ first' = FALSE
  /\ status' = "connected"
  /\ InitMoves("settle", "consume")
  /\ UNCHANGED <<client, token, listening, kpc, faults>>

StartConsume ==
  /\ kpc' = IF kpc = "off" THEN "poll" ELSE kpc
  /\ InitMoves("consume", "listen")
  /\ UNCHANGED <<client, token, first, status, listening, faults>>

StartListeners ==
  /\ listening' = TRUE
  /\ InitMoves("listen", "done")
  /\ UNCHANGED <<client, token, first, status, kpc, faults>>

initialize ==
  \/ LoopHead \/ Dial \/ WaitOk \/ WaitFails \/ DeleteClient \/ ResetState
  \/ Settle \/ StartConsume \/ StartListeners

-----------------------------------------------------------------------------
(***************************************************************************)
(* The MQTT client and the broker.  The receive thread makes one callback  *)
(* after the other.  The client reconnects by itself after a first success.*)
(***************************************************************************)

LinkUp ==
  /\ client
  /\ ~link
  /\ token # "none"
  /\ rpc = "idle"
  /\ link' = TRUE
  /\ token' = "ok"
  /\ rpc' = "connected"
  /\ UNCHANGED <<known, ipc, client, first, status, listening, state, kpc,
                 queueVars, brokerVars, faults>>

\* The session was a clean one: the subscription goes with it, and so does a
\* subscribe that is not acknowledged.
LinkDown ==
  /\ link
  /\ rpc = "idle"
  /\ faults < MaxFaults
  /\ faults' = faults + 1
  /\ link' = FALSE
  /\ rpc' = "lost"
  /\ subscribed' = FALSE
  /\ suback' = IF suback = "sent" THEN "none" ELSE suback
  /\ UNCHANGED <<known, initVars, state, kpc, queueVars>>

connected ==
  /\ rpc = "connected"
  /\ state' = "Connected"
  /\ rpc' = "idle"
  /\ UNCHANGED <<known, initVars, link, kpc, queueVars, brokerVars, faults>>

connection_lost ==
  /\ rpc = "lost"
  /\ state' = "Init"
  /\ rpc' = "null"
  /\ UNCHANGED <<known, initVars, link, kpc, queueVars, brokerVars, faults>>

\* After connection_lost() the client ends the wait of consume_message.
PutNull ==
  /\ rpc = "null"
  /\ nulls' = IF hasQueue THEN nulls + 1 ELSE nulls
  /\ rpc' = "idle"
  /\ UNCHANGED <<known, initVars, state, link, kpc, hasQueue, brokerVars, faults>>

BrokerSubscribes ==
  /\ link
  /\ suback = "sent"
  /\ suback' = "acked"
  /\ subscribed' = TRUE
  /\ UNCHANGED <<known, initVars, state, link, rpc, kpc, queueVars, faults>>

-----------------------------------------------------------------------------
(***************************************************************************)
(* The consume thread: ExecConsume and M2CMQTTDataSet::Consume.            *)
(***************************************************************************)

\* What the consume thread leaves alone.
Elsewhere == <<known, initVars, state, link, rpc, faults>>

ConsumeEnter ==
  /\ kpc = "poll"
  /\ client
  /\ state = "Connected"
  /\ known
  /\ kpc' = "start"
  /\ UNCHANGED <<Elsewhere, queueVars, brokerVars>>

\* start_consuming makes a new queue.
StartConsuming ==
  /\ kpc = "start"
  /\ hasQueue' = TRUE
  /\ nulls' = 0
  /\ kpc' = "subscribe"
  /\ UNCHANGED <<Elsewhere, brokerVars>>

SubscribeSend ==
  /\ kpc = "subscribe"
  /\ link
  /\ suback' = "sent"
  /\ kpc' = "subwait"
  /\ UNCHANGED <<Elsewhere, queueVars, subscribed>>

\* Mutation of SubscribeThrows: the mutex is unlocked in the try block only,
\* so the next Consume() waits for it for ever.
SubscribeThrowsLocked ==
  /\ kpc = "subscribe"
  /\ ~link
  /\ kpc' = "locked"
  /\ UNCHANGED <<Elsewhere, queueVars, brokerVars>>

\* subscribe throws on a client that is not connected; the queue stays.
SubscribeThrows ==
  /\ kpc = "subscribe"
  /\ ~link
  /\ kpc' = "poll"
  /\ UNCHANGED <<Elsewhere, queueVars, brokerVars>>

\* Mutation of SubscribeDone: start_consuming comes after the subscribe.
SubscribeThenStart ==
  /\ kpc = "subwait"
  /\ suback = "acked"
  /\ suback' = "none"
  /\ nulls' = 0
  /\ kpc' = "loop"
  /\ UNCHANGED <<Elsewhere, hasQueue, subscribed>>

SubscribeDone ==
  /\ kpc = "subwait"
  /\ suback = "acked"
  /\ suback' = "none"
  /\ kpc' = "loop"
  /\ UNCHANGED <<Elsewhere, queueVars, subscribed>>

\* wait() throws: the link was lost before the acknowledgement.
SubscribeFails ==
  /\ kpc = "subwait"
  /\ suback = "none"
  /\ kpc' = "poll"
  /\ UNCHANGED <<Elsewhere, queueVars, brokerVars>>

\* consume_message returns null: the loop ends.
ConsumeNull ==
  /\ kpc = "loop"
  /\ nulls > 0
  /\ nulls' = nulls - 1
  /\ kpc' = "unsub"
  /\ UNCHANGED <<Elsewhere, hasQueue, brokerVars>>

Unsubscribe ==
  /\ kpc = "unsub"
  /\ link
  /\ subscribed' = FALSE
  /\ kpc' = "stop"
  /\ UNCHANGED <<Elsewhere, queueVars, suback>>

\* Mutation of UnsubscribeThrows: the mutex is unlocked in the try block only.
UnsubscribeThrowsLocked ==
  /\ kpc = "unsub"
  /\ ~link
  /\ kpc' = "locked"
  /\ UNCHANGED <<Elsewhere, queueVars, brokerVars>>

UnsubscribeThrows ==
  /\ kpc = "unsub"
  /\ ~link
  /\ kpc' = "poll"
  /\ UNCHANGED <<Elsewhere, queueVars, brokerVars>>

StopConsuming ==
  /\ kpc = "stop"
  /\ hasQueue' = FALSE
  /\ nulls' = 0
  /\ kpc' = "poll"
  /\ UNCHANGED <<Elsewhere, brokerVars>>

Consume ==
  \/ ConsumeEnter \/ StartConsuming \/ SubscribeSend \/ SubscribeThrows
  \/ SubscribeDone \/ SubscribeFails \/ ConsumeNull \/ Unsubscribe
  \/ UnsubscribeThrows \/ StopConsuming

Callback == connected \/ connection_lost \/ PutNull

Next ==
  \/ initialize
  \/ Consume
  \/ Callback
  \/ LinkUp
  \/ LinkDown
  \/ BrokerSubscribes

Spec == Init /\ [][Next]_vars

-----------------------------------------------------------------------------
(***************************************************************************)
(* The init thread does not end before its work is done: when it has left  *)
(* its loop there is a client, and the consume thread and the listeners    *)
(* run, though a connected() that comes after the timeout of Connect() may *)
(* have set mState behind its back (M2CMQTT.cpp:32, 62-64,                 *)
(* M2CMQTTDataSet.cpp:63-71).                                              *)
(***************************************************************************)
InitDoneMeansServing == ipc = "done" => client /\ listening /\ kpc # "off"

(***************************************************************************)
(* The consume thread never waits for requests that cannot come: while it  *)
(* is in consume_message the broker's session has its subscription, or the *)
(* null that ends the wait is in the queue or about to be put there        *)
(* (M2CMQTTDataSet.cpp:148-156).                                           *)
(***************************************************************************)
NeverDeaf == kpc = "loop" => subscribed \/ nulls > 0 \/ rpc \in {"lost", "null"}

(***************************************************************************)
(* While the broker has the subscription there is a queue for the requests *)
(* it sends (M2CMQTTDataSet.cpp:148-149, 164-165).                         *)
(***************************************************************************)
QueueBehindSubscription == subscribed => hasQueue
=============================================================================
