--------------------------- MODULE CloudForwarder ---------------------------
(***************************************************************************)
(* The forwarding half of the uplink: the event loop of M2C_MQTT takes     *)
(* messages from three Redis lists (data points, events, audits), one at   *)
(* a time, and publishes each with QoS 1 over one MQTT connection.  A      *)
(* callback that fails puts its message back in front of its list.         *)
(*                                                                         *)
(* A message is the number of its LPush on its list.  The connection has   *)
(* two views: link, the TCP connection as it is, and conn, what mState     *)
(* says of it, which follows link through the callbacks of the MQTT        *)
(* client.                                                                 *)
(***************************************************************************)
EXTENDS Naturals, Sequences, FiniteSets

CONSTANTS
  MaxMessages,  \* bound: messages other processes push on each list
  MaxFaults     \* bound: lost links, slow acknowledgements, process deaths

\* M2C_DATA_MQTT, mqtt_events and mqtt_audits.
List == {"data", "events", "audits"}

ASSUME BoundsAssumption == MaxMessages \in [List -> Nat] /\ MaxFaults \in Nat

VARIABLES
  pushed,     \* [List -> Nat]: messages pushed on each list so far
  queue,      \* the Redis lists, oldest message first
  cur,        \* the message the running callback was given
  pc,         \* where the event loop is: idle, or in a callback
  acked,      \* the broker has acknowledged the publish that is waited for
  wire,       \* publishes on their way to the broker, oldest first
  link,       \* the TCP connection is up
  conn,       \* mState = DataSetConnected
  longDown,   \* StateSecs() > 300 (only meaningful without conn)
  listening,  \* the three listeners are registered
  ready,      \* MQTTConfig::MQTT().IsReady(), read once per process
  rcvd,       \* [List -> Seq(Nat)]: what the broker got
  confirmed,  \* history: messages whose Publish returned true
  dropped,    \* history: messages a dying process had in hand
  deaths,     \* history: deaths of the process
  faults      \* faults so far

vars == <<pushed, queue, cur, pc, acked, wire, link, conn, longDown,
          listening, ready, rcvd, confirmed, dropped, deaths, faults>>

netVars == <<link, conn, longDown>>
procVars == <<listening, ready>>
histVars == <<confirmed, dropped, deaths>>

Item == [q : List, n : Nat \ {0}]
NoItem == [q |-> "data", n |-> 0]

TypeOK ==
  /\ pushed \in [List -> Nat]
  /\ queue \in [List -> Seq(Nat \ {0})]
  /\ cur \in Item \cup {NoItem}
  /\ pc \in {"idle", "check", "send", "wait"}
  /\ pc = "idle" <=> cur = NoItem
  /\ wire \in Seq(Item)
  /\ acked \in BOOLEAN /\ link \in BOOLEAN /\ conn \in BOOLEAN
  /\ longDown \in BOOLEAN /\ listening \in BOOLEAN /\ ready \in BOOLEAN
  /\ rcvd \in [List -> Seq(Nat \ {0})]
  /\ confirmed \subseteq Item
  /\ dropped \subseteq Item
  /\ deaths \in Nat
  /\ faults \in Nat

Init ==
  /\ pushed = [l \in List |-> 0]
  /\ queue = [l \in List |-> <<>>]
  /\ cur = NoItem
  /\ pc = "idle"
  /\ acked = FALSE
  /\ wire = <<>>
  /\ link = FALSE
  /\ conn = FALSE
  /\ longDown = FALSE
  /\ listening = FALSE
  /\ ready \in BOOLEAN
  /\ rcvd = [l \in List |-> <<>>]
  /\ confirmed = {}
  /\ dropped = {}
  /\ deaths = 0
  /\ faults = 0

-----------------------------------------------------------------------------
\* LPush of the next message on list l: the Bridge's data point, or
\* COM_Queue::PushEvent and PushAudit of any process.
LPush(l) ==
  /\ pushed' = [pushed EXCEPT ![l] = @ + 1]
  /\ queue' = [queue EXCEPT ![l] = Append(@, pushed[l] + 1)]

Produce(l) ==
  /\ pushed[l] < MaxMessages[l]
  /\ LPush(l)
  /\ UNCHANGED <<cur, pc, acked, wire, netVars, procVars, rcvd, histVars, faults>>

\* A listener's turn: it pops the oldest message and calls the callback.
RPop(l) ==
  /\ listening
  /\ pc = "idle"
  /\ queue[l] # <<>>
  /\ cur' = [q |-> l, n |-> Head(queue[l])]
  /\ queue' = [queue EXCEPT ![l] = Tail(@)]
  /\ pc' = "check"
  /\ UNCHANGED <<pushed, acked, wire, netVars, procVars, rcvd, histVars, faults>>

\* Mutation of RPushBack: the message goes to the end new messages go to.
LPushBack ==
  /\ queue' = [queue EXCEPT ![cur.q] = Append(@, cur.n)]
  /\ cur' = NoItem
  /\ pc' = "idle"
  /\ acked' = FALSE
  /\ UNCHANGED <<pushed, wire, netVars, procVars, rcvd, histVars>>

\* The callback returns false: the listener puts the message back (RPush).
RPushBack ==
  /\ queue' = [queue EXCEPT ![cur.q] = <<cur.n>> \o @]
  /\ cur' = NoItem
  /\ pc' = "idle"
  /\ acked' = FALSE
  /\ UNCHANGED <<pushed, wire, netVars, procVars, rcvd, histVars>>

\* ProcessEventQueue and ProcessAuditQueue test IsReady() before they
\* publish; ProcessDev2Cloud_DATA does not.
MayPublish(l) == l = "data" \/ ready

\* Mutation of CallbackNotReady: the callback returns true.
CallbackSwallows ==
  /\ pc = "check"
  /\ ~MayPublish(cur.q)
  /\ cur' = NoItem
  /\ pc' = "idle"
  /\ UNCHANGED <<pushed, queue, acked, wire, netVars, procVars, rcvd, histVars,
                 faults>>

CallbackNotReady ==
  /\ pc = "check"
  /\ ~MayPublish(cur.q)
  /\ RPushBack
  /\ UNCHANGED faults

\* Publish of a client that is not connected, for less than 300 seconds.
PublishDisconnected ==
  /\ pc = "check"
  /\ MayPublish(cur.q)
  /\ ~conn
  /\ ~longDown
  /\ RPushBack
  /\ UNCHANGED faults

\* The process ends: the message in hand is gone, the lists are in Redis.
\* What it wrote to its socket may still arrive.
ProcessEnds ==
  /\ cur' = NoItem
  /\ pc' = "idle"
  /\ acked' = FALSE
  /\ link' = FALSE
  /\ conn' = FALSE
  /\ longDown' = FALSE
  /\ listening' = FALSE
  /\ ready' \in BOOLEAN
  /\ dropped' = IF cur = NoItem THEN dropped ELSE dropped \cup {cur}
  /\ deaths' = deaths + 1
  /\ UNCHANGED <<wire, rcvd, confirmed>>

\* Publish gives up on a connection that is gone for more than 300 seconds:
\* it pushes an audit and calls exit(1).
PublishExit ==
  /\ pc = "check"
  /\ MayPublish(cur.q)
  /\ ~conn
  /\ longDown
  /\ faults < MaxFaults
  /\ faults' = faults + 1
  /\ LPush("audits")
  /\ ProcessEnds

PublishConnected ==
  /\ pc = "check"
  /\ MayPublish(cur.q)
  /\ conn
  /\ pc' = "send"
  /\ UNCHANGED <<pushed, queue, cur, acked, wire, netVars, procVars, rcvd,
                 histVars, faults>>

\* Client->publish on a link that is up.
PublishSend ==
  /\ pc = "send"
  /\ link
  /\ wire' = Append(wire, cur)
  /\ acked' = FALSE
  /\ pc' = "wait"
  /\ UNCHANGED <<pushed, queue, cur, netVars, procVars, rcvd, histVars, faults>>

\* Client->publish when the client does not know yet that the link is down.
PublishHalfOpen ==
  /\ pc = "send"
  /\ ~link
  /\ conn
  /\ acked' = FALSE
  /\ pc' = "wait"
  /\ UNCHANGED <<pushed, queue, cur, wire, netVars, procVars, rcvd, histVars,
                 faults>>

\* Client->publish throws: the client knows that it is not connected.
PublishThrows ==
  /\ pc = "send"
  /\ ~link
  /\ ~conn
  /\ RPushBack
  /\ UNCHANGED faults

\* wait_for saw the acknowledgement: the callback returns true.
PublishDone ==
  /\ pc = "wait"
  /\ acked
  /\ cur' = NoItem
  /\ pc' = "idle"
  /\ acked' = FALSE
  /\ confirmed' = confirmed \cup {cur}
  /\ UNCHANGED <<pushed, queue, wire, netVars, procVars, rcvd, dropped, deaths,
                 faults>>

\* Mutation of PublishTimeout: the result of wait_for is not looked at.
PublishUnchecked ==
  /\ pc = "wait"
  /\ cur' = NoItem
  /\ pc' = "idle"
  /\ acked' = FALSE
  /\ confirmed' = confirmed \cup {cur}
  /\ UNCHANGED <<pushed, queue, wire, netVars, procVars, rcvd, dropped, deaths,
                 faults>>

\* wait_for(10000) returns false or throws.  It counts as a fault when the
\* acknowledgement is there or still to come.
PublishTimeout ==
  /\ pc = "wait"
  /\ LET slow == acked \/ (link /\ wire # <<>>) IN
       /\ slow => faults < MaxFaults
       /\ faults' = IF slow THEN faults + 1 ELSE faults
  /\ RPushBack

Publish ==
  \/ PublishDisconnected \/ PublishExit \/ PublishConnected \/ PublishSend
  \/ PublishHalfOpen \/ PublishThrows \/ PublishDone \/ PublishTimeout

-----------------------------------------------------------------------------
(***************************************************************************)
(* The MQTT client, the broker and the network.                            *)
(***************************************************************************)

\* The broker takes a publish and acknowledges it; the acknowledgement of
\* the publish that is waited for is the one of the last on the wire.
BrokerReceives ==
  /\ wire # <<>>
  /\ rcvd' = [rcvd EXCEPT ![Head(wire).q] = Append(@, Head(wire).n)]
  /\ wire' = Tail(wire)
  /\ acked' = (acked \/ (pc = "wait" /\ link /\ Len(wire) = 1))
  /\ UNCHANGED <<pushed, queue, cur, pc, netVars, procVars, histVars, faults>>

\* The first Connect of the process succeeds and the listeners start; the
\* callback connected() may still be on its way.  The process audits the
\* connection before.  A new session of the same client id ends the old one.
Connect ==
  /\ ~listening
  /\ LPush("audits")
  /\ link' = TRUE
  /\ conn' \in BOOLEAN
  /\ longDown' = (longDown /\ ~conn')
  /\ listening' = TRUE
  /\ wire' = <<>>
  /\ UNCHANGED <<cur, pc, acked, ready, rcvd, histVars, faults>>

LinkLost ==
  /\ link
  /\ faults < MaxFaults
  /\ faults' = faults + 1
  /\ link' = FALSE
  /\ UNCHANGED <<pushed, queue, cur, pc, acked, wire, conn, longDown, procVars,
                 rcvd, histVars>>

\* Automatic reconnection, once the client knows of the loss.
Reconnect ==
  /\ listening
  /\ ~link
  /\ ~conn
  /\ link' = TRUE
  /\ wire' = <<>>
  /\ UNCHANGED <<pushed, queue, cur, pc, acked, conn, longDown, procVars, rcvd,
                 histVars, faults>>

connected ==
  /\ listening
  /\ link
  /\ ~conn
  /\ conn' = TRUE
  /\ longDown' = FALSE
  /\ UNCHANGED <<pushed, queue, cur, pc, acked, wire, link, procVars, rcvd,
                 histVars, faults>>

\* Mutation of connection_lost: mState stays DataSetConnected.
ConnectionLostUnseen ==
  /\ ~link
  /\ conn
  /\ longDown' = FALSE
  /\ UNCHANGED <<pushed, queue, cur, pc, acked, wire, link, conn, procVars, rcvd,
                 histVars, faults>>

connection_lost ==
  /\ ~link
  /\ conn
  /\ conn' = FALSE
  /\ longDown' = FALSE
  /\ UNCHANGED <<pushed, queue, cur, pc, acked, wire, link, procVars, rcvd,
                 histVars, faults>>

\* 300 seconds pass in the state Init.
TimePasses ==
  /\ ~conn
  /\ ~longDown
  /\ longDown' = TRUE
  /\ UNCHANGED <<pushed, queue, cur, pc, acked, wire, link, conn, procVars,
                 rcvd, histVars, faults>>

Crash ==
  /\ faults < MaxFaults
  /\ faults' = faults + 1
  /\ ProcessEnds
  /\ UNCHANGED <<pushed, queue>>

Next ==
  \/ \E l \in List : Produce(l) \/ RPop(l)
  \/ CallbackNotReady
  \/ Publish
  \/ BrokerReceives
  \/ Connect \/ LinkLost \/ Reconnect \/ connected \/ connection_lost
  \/ TimePasses
  \/ Crash

Spec == Init /\ [][Next]_vars

(***************************************************************************)
(* The event loop dispatches its timers in turn, so a listener whose list  *)
(* is not empty gets its turn (strong fairness: the loop is not idle all   *)
(* the time); a callback that runs goes on; the network recovers and the   *)
(* client notices what happens to the link.                                *)
(***************************************************************************)
Fairness ==
  /\ \A l \in List : SF_vars(RPop(l))
  /\ WF_vars(CallbackNotReady)
  /\ WF_vars(Publish)
  /\ WF_vars(BrokerReceives)
  /\ WF_vars(Connect)
  /\ WF_vars(Reconnect)
  /\ WF_vars(connected)
  /\ WF_vars(connection_lost)

FairSpec == Spec /\ Fairness

-----------------------------------------------------------------------------
(***************************************************************************)
(* The forwarder is an ordered channel for each list: redelivery after a   *)
(* timeout, reconnection and restart never lets a message arrive after a   *)
(* later one of its list (ComRedis puts a refused message back in front,   *)
(* M2CMQTTDataSet.cpp:193-239).                                            *)
(***************************************************************************)
Channel == INSTANCE OrderedChannel WITH sent <- pushed, got <- rcvd

ImplementsChannel == Channel!Spec

(***************************************************************************)
(* Why it is one: on each list, what the broker has is not newer than what *)
(* is on the wire, that is not newer than the message in hand, and that is *)
(* older than what is still on the list, where the messages stand in the   *)
(* order of their LPush.                                                   *)
(***************************************************************************)
ReceivedFirst(l) == \A i \in DOMAIN rcvd[l] :
  /\ rcvd[l][i] <= pushed[l]
  /\ \A j \in DOMAIN rcvd[l] : i < j => rcvd[l][i] <= rcvd[l][j]
  /\ \A k \in DOMAIN wire : wire[k].q = l => rcvd[l][i] <= wire[k].n
  /\ cur # NoItem /\ cur.q = l => rcvd[l][i] <= cur.n
  /\ \A k \in DOMAIN queue[l] : rcvd[l][i] <= queue[l][k]

WireNext(l) == \A k \in DOMAIN wire : wire[k].q = l =>
  /\ wire[k].n <= pushed[l]
  /\ \A m \in DOMAIN wire : k < m /\ wire[m].q = l => wire[k].n <= wire[m].n
  /\ cur # NoItem /\ cur.q = l => wire[k].n <= cur.n
  /\ \A m \in DOMAIN queue[l] : wire[k].n <= queue[l][m]

QueueLast(l) ==
  /\ cur # NoItem /\ cur.q = l =>
       /\ cur.n <= pushed[l]
       /\ \A k \in DOMAIN queue[l] : cur.n < queue[l][k]
  /\ \A k \in DOMAIN queue[l] :
       /\ queue[l][k] <= pushed[l]
       /\ \A m \in DOMAIN queue[l] : k < m => queue[l][k] < queue[l][m]

\* The order of every message between its LPush and the broker
\* (Bridge.cpp:76, ComQueue.cpp:84-148, M2CMQTTDataSet.cpp:193-239).
ChannelOrder == \A l \in List : ReceivedFirst(l) /\ WireNext(l) /\ QueueLast(l)

(***************************************************************************)
(* Nothing vanishes: a message that was pushed is on its list, in the      *)
(* hands of a callback, with the broker, or was in hand when the process   *)
(* died, and a death takes at most one message with it.                    *)
(***************************************************************************)
Accounted(l, n) ==
  \/ \E i \in DOMAIN queue[l] : queue[l][i] = n
  \/ cur = [q |-> l, n |-> n]
  \/ \E i \in DOMAIN rcvd[l] : rcvd[l][i] = n
  \/ [q |-> l, n |-> n] \in dropped

NothingVanishes ==
  /\ \A l \in List : \A n \in 1 .. pushed[l] : Accounted(l, n)
  /\ Cardinality(dropped) <= deaths

(***************************************************************************)
(* A Publish that returned true is final: the broker had the message, it   *)
(* is not put back on its list and the broker never gets it again          *)
(* (M2CMQTTDataSet.cpp:228-238).                                           *)
(***************************************************************************)
ConfirmedIsFinal ==
  /\ \A it \in confirmed :
       /\ \E i \in DOMAIN rcvd[it.q] : rcvd[it.q][i] = it.n
       /\ \A i \in DOMAIN queue[it.q] : queue[it.q][i] # it.n
       /\ \A i \in DOMAIN wire : wire[i] # it
       /\ cur # it

(***************************************************************************)
(* A data point is not left behind: once on its list it reaches the broker *)
(* or is the one message a dying process had in hand.  Events and audits   *)
(* too, unless the broker configuration is not ready.                      *)
(***************************************************************************)
EventuallyForwarded ==
  \A l \in List : \A n \in 1 .. MaxMessages[l] :
    (n <= pushed[l]) ~>
      \/ \E i \in DOMAIN rcvd[l] : rcvd[l][i] = n
      \/ [q |-> l, n |-> n] \in dropped
      \/ ~MayPublish(l)
=============================================================================
