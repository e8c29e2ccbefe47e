---------------------------- MODULE RequestQueue ----------------------------
(***************************************************************************)
(* MqttDataSet with what its threads carry: the requests of the cloud in   *)
(* the consumer's queue, among the nulls that end the consumer's wait, and *)
(* the event loop of M2C_MQTT, which publishes the Manager's answers with  *)
(* the same Client that Connect() makes and deletes.                       *)
(*                                                                         *)
(* Every step is a step of MqttDataSet with its effect on the queue, or    *)
(* leaves the variables of MqttDataSet alone.  A request is its number.    *)
(***************************************************************************)
EXTENDS MqttDataSet, Sequences, SequencesExt

CONSTANT MaxRequests    \* bound: requests that the broker passes on

ASSUME MaxRequestsAssumption == MaxRequests \in Nat

VARIABLES
  queue,    \* the consumer's queue: requests, and 0 for a null
  sent,     \* requests the broker passed on so far
  handled,  \* requests the callback was called with
  cut,      \* history: requests that went with the queue they were in
  stale,    \* history: this round subscribed with a null in the queue
  late,     \* history: a dial came through after its ten seconds
  upc       \* the event loop: where it is in Publish()

requestVars == <<queue, sent, handled, cut, stale>>
allVars == <<vars, requestVars, late, upc>>

Null == 0
Requests(q) == {n \in ToSet(q) : n # Null}

RequestQueueTypeOK ==
  /\ TypeOK
  /\ queue \in Seq(0 .. MaxRequests)
  /\ sent \in 0 .. MaxRequests
  /\ handled \in Seq(1 .. MaxRequests)
  /\ cut \subseteq 1 .. MaxRequests
  /\ stale \in BOOLEAN
  /\ late \in BOOLEAN
  /\ upc \in {"idle", "client", "state", "publish"}

RequestQueueInit ==
  /\ Init
  /\ queue = <<>>
  /\ sent = 0
  /\ handled = <<>>
  /\ cut = {}
  /\ stale = FALSE
  /\ late = FALSE
  /\ upc = "idle"

-----------------------------------------------------------------------------
(***************************************************************************)
(* The steps of MqttDataSet with their effect on the queue.                *)
(***************************************************************************)

\* The steps that have none.
Untouched ==
  /\ \/ initialize
     \/ ConsumeEnter \/ SubscribeThrows \/ SubscribeDone \/ SubscribeFails
     \/ Unsubscribe \/ UnsubscribeThrows
     \/ connected \/ connection_lost
     \/ LinkDown \/ BrokerSubscribes
  /\ UNCHANGED <<requestVars, late, upc>>

LinkUpLate ==
  /\ LinkUp
  /\ late' = (late \/ ipc = "delete")
  /\ UNCHANGED <<requestVars, upc>>

PutNullLast ==
  /\ PutNull
  /\ queue' = IF hasQueue THEN Append(queue, Null) ELSE queue
  /\ UNCHANGED <<sent, handled, cut, stale, late, upc>>

\* The broker passes a request on, and the receive thread puts it into the
\* queue if there is one.
Deliver ==
  /\ link
  /\ subscribed
  /\ rpc = "idle"
  /\ sent < MaxRequests
  /\ sent' = sent + 1
  /\ queue' = IF hasQueue THEN Append(queue, sent + 1) ELSE queue
  /\ cut' = IF hasQueue THEN cut ELSE cut \cup {sent + 1}
  /\ UNCHANGED <<vars, handled, stale, late, upc>>

\* The queue goes, with what is in it.
Discard ==
  /\ queue' = <<>>
  /\ cut' = cut \cup Requests(queue)
  /\ UNCHANGED <<sent, handled, late, upc>>

StartWithNewQueue ==
  /\ StartConsuming
  /\ Discard
  /\ stale' = FALSE

SubscribeSendWith ==
  /\ SubscribeSend
  /\ stale' = (nulls > 0)
  /\ UNCHANGED <<queue, sent, handled, cut, late, upc>>

StopWithQueue ==
  /\ StopConsuming
  /\ Discard
  /\ UNCHANGED stale

\* Mutation of ConsumeRequest: a callback that fails ends the loop too.
ConsumeRequestOnce ==
  /\ kpc = "loop"
  /\ queue # <<>>
  /\ Head(queue) # Null
  /\ handled' = Append(handled, Head(queue))
  /\ queue' = Tail(queue)
  /\ kpc' = "unsub"
  /\ UNCHANGED <<Elsewhere, queueVars, brokerVars, sent, cut, stale, late, upc>>

\* Mutation of ConsumeRequest: the newest request is taken.
ConsumeLast ==
  /\ kpc = "loop"
  /\ queue # <<>>
  /\ Last(queue) # Null
  /\ handled' = Append(handled, Last(queue))
  /\ queue' = Front(queue)
  /\ UNCHANGED <<vars, sent, cut, stale, late, upc>>

\* Mutation of ConsumeRequest: consume_message is called once more, for the
\* test, and what it returns is forgotten.
ConsumeEverySecond ==
  /\ kpc = "loop"
  /\ Len(queue) > 1
  /\ queue[1] # Null
  /\ queue[2] # Null
  /\ handled' = Append(handled, queue[2])
  /\ queue' = Tail(Tail(queue))
  /\ UNCHANGED <<vars, sent, cut, stale, late, upc>>

\* consume_message returns a request: the callback is called with it.
ConsumeRequest ==
  /\ kpc = "loop"
  /\ queue # <<>>
  /\ Head(queue) # Null
  /\ handled' = Append(handled, Head(queue))
  /\ queue' = Tail(queue)
  /\ UNCHANGED <<vars, sent, cut, stale, late, upc>>

ConsumeNullFirst ==
  /\ ConsumeNull
  /\ queue # <<>>
  /\ Head(queue) = Null
  /\ queue' = Tail(queue)
  /\ UNCHANGED <<sent, handled, cut, stale, late, upc>>

-----------------------------------------------------------------------------
(***************************************************************************)
(* ProcessIPC and Publish on the event loop: an answer of the Manager may  *)
(* come at any time, to a process that is still dialling too.              *)
(***************************************************************************)

\* Client is not NULL.
PublishTestClient ==
  /\ upc = "idle"
  /\ client
  /\ upc' = "client"
  /\ UNCHANGED <<vars, requestVars, late>>

\* Mutation of PublishTestState: the state is not looked at.
PublishTestNothing ==
  /\ upc = "client"
  /\ upc' = "state"
  /\ UNCHANGED <<vars, requestVars, late>>

\* State() is DataSetConnected, else Publish returns.
PublishTestState ==
  /\ upc = "client"
  /\ upc' = IF state = "Connected" THEN "state" ELSE "idle"
  /\ UNCHANGED <<vars, requestVars, late>>

\* Client->publish is called ...
PublishCall ==
  /\ upc = "state"
  /\ upc' = "publish"
  /\ UNCHANGED <<vars, requestVars, late>>

\* ... and returns.  When its client is deleted meanwhile that is undefined;
\* a crash would end this life of the process, so only the return is a step.
PublishReturn ==
  /\ upc = "publish"
  /\ upc' = "idle"
  /\ UNCHANGED <<vars, requestVars, late>>

Publish ==
  PublishTestClient \/ PublishTestState \/ PublishCall \/ PublishReturn

-----------------------------------------------------------------------------
ConsumeQueue ==
  \/ ConsumeRequest \/ ConsumeNullFirst \/ StartWithNewQueue
  \/ SubscribeSendWith \/ StopWithQueue

RequestQueueNext ==
  \/ Untouched
  \/ ConsumeQueue
  \/ LinkUpLate
  \/ PutNullLast
  \/ Deliver
  \/ Publish

RequestQueueSpec == RequestQueueInit /\ [][RequestQueueNext]_allVars

\* The three threads run, and the network and the broker answer; the broker
\* need not have a request.
RequestQueueFairness ==
  /\ WF_allVars(Untouched /\ initialize)
  /\ WF_allVars((Untouched /\ Consume) \/ ConsumeQueue)
  /\ WF_allVars((Untouched /\ Callback) \/ PutNullLast)
  /\ WF_allVars(LinkUpLate)
  /\ WF_allVars(Untouched /\ BrokerSubscribes)

FairRequestQueueSpec == RequestQueueSpec /\ RequestQueueFairness

-----------------------------------------------------------------------------
(***************************************************************************)
(* Properties.                                                             *)
(***************************************************************************)

\* The callback is called with the requests in the order in which the broker
\* passed them on, and what waits is newer than what was handled: over all
\* the lost links and new queues no request is handled twice.
HandledInOrder ==
  /\ \A a, b \in DOMAIN handled : a < b => handled[a] < handled[b]
  /\ \A a, b \in DOMAIN queue :
       a < b /\ queue[a] # Null /\ queue[b] # Null => queue[a] < queue[b]
  /\ \A a \in DOMAIN handled, b \in DOMAIN queue :
       queue[b] # Null => handled[a] < queue[b]

\* Every request that the broker passed on, and so has forgotten, was handed
\* to the callback, waits in the queue, or went with one.
RequestsAccounted ==
  1 .. sent = ToSet(handled) \cup Requests(queue) \cup cut

\* A queue with requests in it is given up only in a round whose subscription
\* found a null of a connection before it in the queue, which then ended the
\* round ahead of the requests (M2CMQTTDataSet.cpp:148-156).  In every other
\* round Consume() empties the queue first.
OnlyAStaleNullDiscards == [][cut' # cut => stale]_allVars

\* The deletion of Client in Connect() finds the event loop inside Publish
\* only if the connection came up after its ten seconds and before the
\* deletion (M2CMQTTDataSet.cpp:63-68, 195-227).
OnlyALateConnectDangles == upc = "publish" /\ ~client => late

\* No request stays in the queue: it is handled, or goes with the queue.
RequestsAreServed ==
  \A n \in 1 .. MaxRequests : n \in ToSet(queue) ~> n \in ToSet(handled) \cup cut

\* Once links are no longer lost, a gateway whose broker was configured when
\* the process started stays subscribed, whatever was left in the queue, and
\* Publish finds it connected; from then on it loses no request
\* (M2CMQTTDataSet.h:183-186, M2CMQTTDataSet.cpp:140-173).
FinallyLossless ==
  <>[](known => /\ subscribed
                /\ kpc = "loop"
                /\ state = "Connected"
                /\ \A k \in DOMAIN queue : queue[k] # Null)
=============================================================================
