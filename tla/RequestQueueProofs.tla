------------------------- MODULE RequestQueueProofs -------------------------
(***************************************************************************)
(* MqttDataSet keeps its threads together, for every number of failed      *)
(* dials and lost links; and RequestQueue, which extends it, keeps the     *)
(* requests of the cloud in order and accounted for, for every number of   *)
(* requests and of faults.                                                 *)
(***************************************************************************)
EXTENDS RequestQueue, TLAPS


-----------------------------------------------------------------------------
(***************************************************************************)
(* The threads of MqttDataSet and their inductive invariant.  First what   *)
(* the init thread may rely on at each of its steps: at the head of the    *)
(* loop there is no client, so no callback can have changed mState since   *)
(* ResetState.                                                             *)
(***************************************************************************)
InitThread ==
  /\ ipc \in {"loop", "dial"} =>
       ~client /\ first /\ state = "Init" /\ ~link /\ rpc = "idle"
  /\ ipc = "reset" => ~client /\ first /\ ~link /\ rpc = "idle"
  /\ ipc \in {"wait", "delete"} => client /\ first
  /\ ipc \in {"settle", "consume", "listen", "done"} => client
  /\ kpc = "off" <=> ipc \notin {"listen", "done"}
  /\ ipc = "done" => listening

\* Then how far the consume thread, its queue and the broker are apart.
Consumer ==
  /\ kpc \in {"subscribe", "subwait", "loop", "unsub"} => hasQueue
  /\ suback # "none" => kpc = "subwait"
  /\ subscribed => link /\ kpc \in {"subwait", "loop", "unsub"}
  /\ subscribed /\ kpc = "subwait" => suback = "acked"
  /\ suback = "acked" => subscribed \/ nulls > 0 \/ rpc \in {"lost", "null"}

Inv == TypeOK /\ InitThread /\ Consumer /\ NeverDeaf

-----------------------------------------------------------------------------
\* Every step keeps the types.
LEMMA TypeStep ==
  ASSUME TypeOK, [Next]_vars
  PROVE  TypeOK'
<1>1. CASE LoopHead
  BY <1>1
     DEF LoopHead, TypeOK, InitMoves, MustConnect, initVars, queueVars,
         brokerVars
<1>2. CASE Dial
  BY <1>2 DEF Dial, TypeOK, InitMoves, initVars, queueVars, brokerVars
<1>3. CASE WaitOk
  BY <1>3 DEF WaitOk, TypeOK, InitMoves, initVars, queueVars, brokerVars
<1>4. CASE WaitFails
  BY <1>4 DEF WaitFails, TypeOK, InitMoves, initVars, queueVars, brokerVars
<1>5. CASE DeleteClient
  <2>1. client' \in BOOLEAN /\ link' \in BOOLEAN
    BY <1>5 DEF DeleteClient
  <2> QED
    BY <2>1, <1>5 DEF DeleteClient, TypeOK, initVars, queueVars, brokerVars
<1>6. CASE ResetState
  BY <1>6 DEF ResetState, TypeOK, initVars, queueVars, brokerVars
<1>7. CASE Settle
  <2>1. first' \in BOOLEAN
    BY <1>7 DEF Settle
  <2> QED
    BY <2>1, <1>7
       DEF Settle, TypeOK, InitMoves, initVars, queueVars, brokerVars
<1>8. CASE StartConsume
  BY <1>8 DEF StartConsume, TypeOK, InitMoves, initVars, queueVars, brokerVars
<1>9. CASE StartListeners
  BY <1>9
     DEF StartListeners, TypeOK, InitMoves, initVars, queueVars,
         brokerVars
<1>10. CASE ConsumeEnter
  BY <1>10 DEF ConsumeEnter, TypeOK, Elsewhere, initVars, queueVars, brokerVars
<1>11. CASE StartConsuming
  BY <1>11
     DEF StartConsuming, TypeOK, Elsewhere, initVars, queueVars,
         brokerVars
<1>12. CASE SubscribeSend
  BY <1>12
     DEF SubscribeSend, TypeOK, Elsewhere, initVars, queueVars,
         brokerVars
<1>13. CASE SubscribeThrows
  BY <1>13
     DEF SubscribeThrows, TypeOK, Elsewhere, initVars, queueVars,
         brokerVars
<1>14. CASE SubscribeDone
  BY <1>14
     DEF SubscribeDone, TypeOK, Elsewhere, initVars, queueVars,
         brokerVars
<1>15. CASE SubscribeFails
  BY <1>15
     DEF SubscribeFails, TypeOK, Elsewhere, initVars, queueVars,
         brokerVars
<1>16. CASE ConsumeNull
  BY <1>16 DEF ConsumeNull, TypeOK, Elsewhere, initVars, queueVars, brokerVars
<1>17. CASE Unsubscribe
  <2>1. subscribed' \in BOOLEAN
    BY <1>17 DEF Unsubscribe
  <2> QED
    BY <2>1, <1>17
       DEF Unsubscribe, TypeOK, Elsewhere, initVars, queueVars,
           brokerVars
<1>18. CASE UnsubscribeThrows
  BY <1>18
     DEF UnsubscribeThrows, TypeOK, Elsewhere, initVars, queueVars,
         brokerVars
<1>19. CASE StopConsuming
  <2>1. hasQueue' \in BOOLEAN
    BY <1>19 DEF StopConsuming
  <2> QED
    BY <2>1, <1>19
       DEF StopConsuming, TypeOK, Elsewhere, initVars, queueVars,
           brokerVars
<1>20. CASE connected
  BY <1>20 DEF connected, TypeOK, initVars, queueVars, brokerVars
<1>21. CASE connection_lost
  BY <1>21 DEF connection_lost, TypeOK, initVars, queueVars, brokerVars
<1>22. CASE PutNull
  BY <1>22 DEF PutNull, TypeOK, initVars, queueVars, brokerVars
<1>23. CASE LinkUp
  BY <1>23 DEF LinkUp, TypeOK, initVars, queueVars, brokerVars
<1>24. CASE LinkDown
  <2>1. link' \in BOOLEAN /\ subscribed' \in BOOLEAN
    BY <1>24 DEF LinkDown
  <2> QED
    BY <2>1, <1>24 DEF LinkDown, TypeOK, initVars, queueVars, brokerVars
<1>25. CASE BrokerSubscribes
  BY <1>25 DEF BrokerSubscribes, TypeOK, initVars, queueVars, brokerVars
<1>26. CASE UNCHANGED vars
  BY <1>26 DEF vars, TypeOK
<1> QED
  BY <1>1, <1>2, <1>3, <1>4, <1>5, <1>6, <1>7, <1>8, <1>9, <1>10, <1>11,
     <1>12, <1>13, <1>14, <1>15, <1>16, <1>17, <1>18, <1>19, <1>20, <1>21,
     <1>22, <1>23, <1>24, <1>25, <1>26
     DEF Next, initialize, Consume, Callback

\* No step takes away what the init thread relies on.
LEMMA InitThreadStep ==
  ASSUME TypeOK, InitThread, [Next]_vars
  PROVE  InitThread'
<1>1. CASE LoopHead
  BY <1>1
     DEF LoopHead, InitThread, TypeOK, InitMoves, MustConnect, initVars,
         queueVars, brokerVars
<1>2. CASE Dial
  BY <1>2
     DEF Dial, InitThread, TypeOK, InitMoves, initVars, queueVars,
         brokerVars
<1>3. CASE WaitOk
  BY <1>3
     DEF WaitOk, InitThread, TypeOK, InitMoves, initVars, queueVars,
         brokerVars
<1>4. CASE WaitFails
  BY <1>4
     DEF WaitFails, InitThread, TypeOK, InitMoves, initVars, queueVars,
         brokerVars
<1>5. CASE DeleteClient
  BY <1>5 DEF DeleteClient, InitThread, TypeOK, initVars, queueVars, brokerVars
<1>6. CASE ResetState
  BY <1>6 DEF ResetState, InitThread, TypeOK, initVars, queueVars, brokerVars
<1>7. CASE Settle
  BY <1>7
     DEF Settle, InitThread, TypeOK, InitMoves, initVars, queueVars,
         brokerVars
<1>8. CASE StartConsume
  BY <1>8
     DEF StartConsume, InitThread, TypeOK, InitMoves, initVars,
         queueVars, brokerVars
<1>9. CASE StartListeners
  BY <1>9
     DEF StartListeners, InitThread, TypeOK, InitMoves, initVars,
         queueVars, brokerVars
<1>10. CASE ConsumeEnter
  BY <1>10
     DEF ConsumeEnter, InitThread, TypeOK, Elsewhere, initVars,
         queueVars, brokerVars
<1>11. CASE StartConsuming
  BY <1>11
     DEF StartConsuming, InitThread, TypeOK, Elsewhere, initVars,
         queueVars, brokerVars
<1>12. CASE SubscribeSend
  BY <1>12
     DEF SubscribeSend, InitThread, TypeOK, Elsewhere, initVars,
         queueVars, brokerVars
<1>13. CASE SubscribeThrows
  BY <1>13
     DEF SubscribeThrows, InitThread, TypeOK, Elsewhere, initVars,
         queueVars, brokerVars
<1>14. CASE SubscribeDone
  BY <1>14
     DEF SubscribeDone, InitThread, TypeOK, Elsewhere, initVars,
         queueVars, brokerVars
<1>15. CASE SubscribeFails
  BY <1>15
     DEF SubscribeFails, InitThread, TypeOK, Elsewhere, initVars,
         queueVars, brokerVars
<1>16. CASE ConsumeNull
  BY <1>16
     DEF ConsumeNull, InitThread, TypeOK, Elsewhere, initVars, queueVars,
         brokerVars
<1>17. CASE Unsubscribe
  BY <1>17
     DEF Unsubscribe, InitThread, TypeOK, Elsewhere, initVars, queueVars,
         brokerVars
<1>18. CASE UnsubscribeThrows
  BY <1>18
     DEF UnsubscribeThrows, InitThread, TypeOK, Elsewhere, initVars,
         queueVars, brokerVars
<1>19. CASE StopConsuming
  BY <1>19
     DEF StopConsuming, InitThread, TypeOK, Elsewhere, initVars,
         queueVars, brokerVars
<1>20. CASE connected
  BY <1>20 DEF connected, InitThread, TypeOK, initVars, queueVars, brokerVars
<1>21. CASE connection_lost
  BY <1>21
     DEF connection_lost, InitThread, TypeOK, initVars, queueVars,
         brokerVars
<1>22. CASE PutNull
  BY <1>22 DEF PutNull, InitThread, TypeOK, initVars, queueVars, brokerVars
<1>23. CASE LinkUp
  BY <1>23 DEF LinkUp, InitThread, TypeOK, initVars, queueVars, brokerVars
<1>24. CASE LinkDown
  BY <1>24 DEF LinkDown, InitThread, TypeOK, initVars, queueVars, brokerVars
<1>25. CASE BrokerSubscribes
  BY <1>25
     DEF BrokerSubscribes, InitThread, TypeOK, initVars, queueVars,
         brokerVars
<1>26. CASE UNCHANGED vars
  BY <1>26 DEF vars, InitThread, TypeOK
<1> QED
  BY <1>1, <1>2, <1>3, <1>4, <1>5, <1>6, <1>7, <1>8, <1>9, <1>10, <1>11,
     <1>12, <1>13, <1>14, <1>15, <1>16, <1>17, <1>18, <1>19, <1>20, <1>21,
     <1>22, <1>23, <1>24, <1>25, <1>26
     DEF Next, initialize, Consume, Callback

\* No step parts the consume thread from its queue and subscription.
LEMMA ConsumerStep ==
  ASSUME TypeOK, InitThread, Consumer, NeverDeaf, [Next]_vars
  PROVE  Consumer'
<1>1. CASE LoopHead
  BY <1>1
     DEF LoopHead, Consumer, InitThread, TypeOK, NeverDeaf, InitMoves,
         MustConnect, initVars, queueVars, brokerVars
<1>2. CASE Dial
  BY <1>2
     DEF Dial, Consumer, InitThread, TypeOK, NeverDeaf, InitMoves,
         initVars, queueVars, brokerVars
<1>3. CASE WaitOk
  BY <1>3
     DEF WaitOk, Consumer, InitThread, TypeOK, NeverDeaf, InitMoves,
         initVars, queueVars, brokerVars
<1>4. CASE WaitFails
  BY <1>4
     DEF WaitFails, Consumer, InitThread, TypeOK, NeverDeaf, InitMoves,
         initVars, queueVars, brokerVars
<1>5. CASE DeleteClient
  BY <1>5
     DEF DeleteClient, Consumer, InitThread, TypeOK, NeverDeaf, initVars,
         queueVars, brokerVars
<1>6. CASE ResetState
  BY <1>6
     DEF ResetState, Consumer, InitThread, TypeOK, NeverDeaf, initVars,
         queueVars, brokerVars
<1>7. CASE Settle
  BY <1>7
     DEF Settle, Consumer, InitThread, TypeOK, NeverDeaf, InitMoves,
         initVars, queueVars, brokerVars
<1>8. CASE StartConsume
  BY <1>8
     DEF StartConsume, Consumer, InitThread, TypeOK, NeverDeaf,
         InitMoves, initVars, queueVars, brokerVars
<1>9. CASE StartListeners
  BY <1>9
     DEF StartListeners, Consumer, InitThread, TypeOK, NeverDeaf,
         InitMoves, initVars, queueVars, brokerVars
<1>10. CASE ConsumeEnter
  BY <1>10
     DEF ConsumeEnter, Consumer, InitThread, TypeOK, NeverDeaf,
         Elsewhere, initVars, queueVars, brokerVars
<1>11. CASE StartConsuming
  BY <1>11
     DEF StartConsuming, Consumer, InitThread, TypeOK, NeverDeaf,
         Elsewhere, initVars, queueVars, brokerVars
<1>12. CASE SubscribeSend
  BY <1>12
     DEF SubscribeSend, Consumer, InitThread, TypeOK, NeverDeaf,
         Elsewhere, initVars, queueVars, brokerVars
<1>13. CASE SubscribeThrows
  BY <1>13
     DEF SubscribeThrows, Consumer, InitThread, TypeOK, NeverDeaf,
         Elsewhere, initVars, queueVars, brokerVars
<1>14. CASE SubscribeDone
  BY <1>14
     DEF SubscribeDone, Consumer, InitThread, TypeOK, NeverDeaf,
         Elsewhere, initVars, queueVars, brokerVars
<1>15. CASE SubscribeFails
  BY <1>15
     DEF SubscribeFails, Consumer, InitThread, TypeOK, NeverDeaf,
         Elsewhere, initVars, queueVars, brokerVars
<1>16. CASE ConsumeNull
  BY <1>16
     DEF ConsumeNull, Consumer, InitThread, TypeOK, NeverDeaf, Elsewhere,
         initVars, queueVars, brokerVars
<1>17. CASE Unsubscribe
  BY <1>17
     DEF Unsubscribe, Consumer, InitThread, TypeOK, NeverDeaf, Elsewhere,
         initVars, queueVars, brokerVars
<1>18. CASE UnsubscribeThrows
  BY <1>18
     DEF UnsubscribeThrows, Consumer, InitThread, TypeOK, NeverDeaf,
         Elsewhere, initVars, queueVars, brokerVars
<1>19. CASE StopConsuming
  BY <1>19
     DEF StopConsuming, Consumer, InitThread, TypeOK, NeverDeaf,
         Elsewhere, initVars, queueVars, brokerVars
<1>20. CASE connected
  BY <1>20
     DEF connected, Consumer, InitThread, TypeOK, NeverDeaf, initVars,
         queueVars, brokerVars
<1>21. CASE connection_lost
  BY <1>21
     DEF connection_lost, Consumer, InitThread, TypeOK, NeverDeaf,
         initVars, queueVars, brokerVars
<1>22. CASE PutNull
  BY <1>22
     DEF PutNull, Consumer, InitThread, TypeOK, NeverDeaf, initVars,
         queueVars, brokerVars
<1>23. CASE LinkUp
  BY <1>23
     DEF LinkUp, Consumer, InitThread, TypeOK, NeverDeaf, initVars,
         queueVars, brokerVars
<1>24. CASE LinkDown
  BY <1>24
     DEF LinkDown, Consumer, InitThread, TypeOK, NeverDeaf, initVars,
         queueVars, brokerVars
<1>25. CASE BrokerSubscribes
  BY <1>25
     DEF BrokerSubscribes, Consumer, InitThread, TypeOK, NeverDeaf,
         initVars, queueVars, brokerVars
<1>26. CASE UNCHANGED vars
  BY <1>26 DEF vars, Consumer, InitThread, TypeOK, NeverDeaf
<1> QED
  BY <1>1, <1>2, <1>3, <1>4, <1>5, <1>6, <1>7, <1>8, <1>9, <1>10, <1>11,
     <1>12, <1>13, <1>14, <1>15, <1>16, <1>17, <1>18, <1>19, <1>20, <1>21,
     <1>22, <1>23, <1>24, <1>25, <1>26
     DEF Next, initialize, Consume, Callback

\* No step leaves the consume thread waiting for nothing.
LEMMA DeafStep ==
  ASSUME TypeOK, InitThread, Consumer, NeverDeaf, [Next]_vars
  PROVE  NeverDeaf'
<1>1. CASE LoopHead
  BY <1>1
     DEF LoopHead, NeverDeaf, InitThread, Consumer, TypeOK, InitMoves,
         MustConnect, initVars, queueVars, brokerVars
<1>2. CASE Dial
  BY <1>2
     DEF Dial, NeverDeaf, InitThread, Consumer, TypeOK, InitMoves,
         initVars, queueVars, brokerVars
<1>3. CASE WaitOk
  BY <1>3
     DEF WaitOk, NeverDeaf, InitThread, Consumer, TypeOK, InitMoves,
         initVars, queueVars, brokerVars
<1>4. CASE WaitFails
  BY <1>4
     DEF WaitFails, NeverDeaf, InitThread, Consumer, TypeOK, InitMoves,
         initVars, queueVars, brokerVars
<1>5. CASE DeleteClient
  BY <1>5
     DEF DeleteClient, NeverDeaf, InitThread, Consumer, TypeOK, initVars,
         queueVars, brokerVars
<1>6. CASE ResetState
  BY <1>6
     DEF ResetState, NeverDeaf, InitThread, Consumer, TypeOK, initVars,
         queueVars, brokerVars
<1>7. CASE Settle
  BY <1>7
     DEF Settle, NeverDeaf, InitThread, Consumer, TypeOK, InitMoves,
         initVars, queueVars, brokerVars
<1>8. CASE StartConsume
  BY <1>8
     DEF StartConsume, NeverDeaf, InitThread, Consumer, TypeOK,
         InitMoves, initVars, queueVars, brokerVars
<1>9. CASE StartListeners
  BY <1>9
     DEF StartListeners, NeverDeaf, InitThread, Consumer, TypeOK,
         InitMoves, initVars, queueVars, brokerVars
<1>10. CASE ConsumeEnter
  BY <1>10
     DEF ConsumeEnter, NeverDeaf, InitThread, Consumer, TypeOK,
         Elsewhere, initVars, queueVars, brokerVars
<1>11. CASE StartConsuming
  BY <1>11
     DEF StartConsuming, NeverDeaf, InitThread, Consumer, TypeOK,
         Elsewhere, initVars, queueVars, brokerVars
<1>12. CASE SubscribeSend
  BY <1>12
     DEF SubscribeSend, NeverDeaf, InitThread, Consumer, TypeOK,
         Elsewhere, initVars, queueVars, brokerVars
<1>13. CASE SubscribeThrows
  BY <1>13
     DEF SubscribeThrows, NeverDeaf, InitThread, Consumer, TypeOK,
         Elsewhere, initVars, queueVars, brokerVars
<1>14. CASE SubscribeDone
  BY <1>14
     DEF SubscribeDone, NeverDeaf, InitThread, Consumer, TypeOK,
         Elsewhere, initVars, queueVars, brokerVars
<1>15. CASE SubscribeFails
  BY <1>15
     DEF SubscribeFails, NeverDeaf, InitThread, Consumer, TypeOK,
         Elsewhere, initVars, queueVars, brokerVars
<1>16. CASE ConsumeNull
  BY <1>16
     DEF ConsumeNull, NeverDeaf, InitThread, Consumer, TypeOK, Elsewhere,
         initVars, queueVars, brokerVars
<1>17. CASE Unsubscribe
  BY <1>17
     DEF Unsubscribe, NeverDeaf, InitThread, Consumer, TypeOK, Elsewhere,
         initVars, queueVars, brokerVars
<1>18. CASE UnsubscribeThrows
  BY <1>18
     DEF UnsubscribeThrows, NeverDeaf, InitThread, Consumer, TypeOK,
         Elsewhere, initVars, queueVars, brokerVars
<1>19. CASE StopConsuming
  BY <1>19
     DEF StopConsuming, NeverDeaf, InitThread, Consumer, TypeOK,
         Elsewhere, initVars, queueVars, brokerVars
<1>20. CASE connected
  BY <1>20
     DEF connected, NeverDeaf, InitThread, Consumer, TypeOK, initVars,
         queueVars, brokerVars
<1>21. CASE connection_lost
  BY <1>21
     DEF connection_lost, NeverDeaf, InitThread, Consumer, TypeOK,
         initVars, queueVars, brokerVars
<1>22. CASE PutNull
  BY <1>22
     DEF PutNull, NeverDeaf, InitThread, Consumer, TypeOK, initVars,
         queueVars, brokerVars
<1>23. CASE LinkUp
  BY <1>23
     DEF LinkUp, NeverDeaf, InitThread, Consumer, TypeOK, initVars,
         queueVars, brokerVars
<1>24. CASE LinkDown
  BY <1>24
     DEF LinkDown, NeverDeaf, InitThread, Consumer, TypeOK, initVars,
         queueVars, brokerVars
<1>25. CASE BrokerSubscribes
  BY <1>25
     DEF BrokerSubscribes, NeverDeaf, InitThread, Consumer, TypeOK,
         initVars, queueVars, brokerVars
<1>26. CASE UNCHANGED vars
  BY <1>26 DEF vars, NeverDeaf, InitThread, Consumer, TypeOK
<1> QED
  BY <1>1, <1>2, <1>3, <1>4, <1>5, <1>6, <1>7, <1>8, <1>9, <1>10, <1>11,
     <1>12, <1>13, <1>14, <1>15, <1>16, <1>17, <1>18, <1>19, <1>20, <1>21,
     <1>22, <1>23, <1>24, <1>25, <1>26
     DEF Next, initialize, Consume, Callback

\* The invariant holds at the start and after every step.
LEMMA Invariance == Spec => []Inv
<1>1. Init => Inv
  <2>1. Init => TypeOK
    <3>1. Init => /\ {client, first, listening, link} \subseteq BOOLEAN
                  /\ {hasQueue, subscribed} \subseteq BOOLEAN
      BY DEF Init
    <3> QED
      BY <3>1 DEF Init, TypeOK
  <2>2. Init => InitThread /\ Consumer /\ NeverDeaf
    BY DEF Init, InitThread, Consumer, NeverDeaf
  <2> QED
    BY <2>1, <2>2 DEF Inv
<1>2. Inv /\ [Next]_vars => Inv'
  BY TypeStep, InitThreadStep, ConsumerStep, DeafStep DEF Inv
<1> QED
  BY <1>1, <1>2, PTL DEF Spec

-----------------------------------------------------------------------------
(***************************************************************************)
(* Every variable keeps its type (M2CMQTTDataSet.h, M2CMQTTDataSet.cpp).   *)
(***************************************************************************)
THEOREM TypeCorrect == Spec => []TypeOK
<1>1. Inv => TypeOK
  BY DEF Inv
<1> QED
  BY Invariance, <1>1, PTL

(***************************************************************************)
(* The init thread that has left its loop left a client, a consume thread  *)
(* and the listeners behind it, however often a dial failed before and     *)
(* wherever a late connected() came (M2CMQTT.cpp:25-67,                    *)
(* M2CMQTTDataSet.cpp:60-91).                                              *)
(***************************************************************************)
THEOREM InitServes == Spec => []InitDoneMeansServing
<1>1. Inv => InitDoneMeansServing
  BY DEF Inv, InitThread, InitDoneMeansServing
<1> QED
  BY Invariance, <1>1, PTL

(***************************************************************************)
(* The consume thread never waits in consume_message without a             *)
(* subscription, unless the null that ends the wait is there or on its way *)
(* (M2CMQTTDataSet.cpp:140-173).                                           *)
(***************************************************************************)
THEOREM ConsumerNeverDeaf == Spec => []NeverDeaf
<1>1. Inv => NeverDeaf
  BY DEF Inv
<1> QED
  BY Invariance, <1>1, PTL

(***************************************************************************)
(* Requests of a subscribed session have a queue to go to                  *)
(* (M2CMQTTDataSet.cpp:148-149, 164-165).                                  *)
(***************************************************************************)
THEOREM RequestsHaveAQueue == Spec => []QueueBehindSubscription
<1>1. Inv => QueueBehindSubscription
  BY DEF Inv, Consumer, QueueBehindSubscription
<1> QED
  BY Invariance, <1>1, PTL


-----------------------------------------------------------------------------
(***************************************************************************)
(* What a step may do with the requests.                                   *)
(***************************************************************************)

\* Nothing.
Keeps == UNCHANGED <<queue, sent, handled, cut>>

\* A null behind the others.
AddsNull ==
  /\ queue' = Append(queue, Null)
  /\ UNCHANGED <<sent, handled, cut>>

\* The next request behind the others ...
AddsRequest ==
  /\ sent < MaxRequests
  /\ sent' = sent + 1
  /\ queue' = Append(queue, sent + 1)
  /\ UNCHANGED <<handled, cut>>

\* ... or nowhere.
MissesRequest ==
  /\ sent < MaxRequests
  /\ sent' = sent + 1
  /\ cut' = cut \cup {sent + 1}
  /\ UNCHANGED <<queue, handled>>

\* The queue is given up.
GivesUp ==
  /\ queue' = <<>>
  /\ cut' = cut \cup Requests(queue)
  /\ UNCHANGED <<sent, handled>>

\* The first of the queue is taken, a request ...
TakesRequest ==
  /\ queue # <<>>
  /\ Head(queue) # Null
  /\ handled' = Append(handled, Head(queue))
  /\ queue' = Tail(queue)
  /\ UNCHANGED <<sent, cut>>

\* ... or a null.
TakesNull ==
  /\ queue # <<>>
  /\ Head(queue) = Null
  /\ queue' = Tail(queue)
  /\ UNCHANGED <<sent, handled, cut>>

Move ==
  \/ Keeps \/ AddsNull \/ AddsRequest \/ MissesRequest \/ GivesUp
  \/ TakesRequest \/ TakesNull

\* Every step makes one of these moves.
LEMMA NextMoves == ASSUME [RequestQueueNext]_allVars PROVE Move
<1>1. CASE Untouched
  BY <1>1 DEF Untouched, requestVars, Move, Keeps
<1>2. CASE LinkUpLate
  BY <1>2 DEF LinkUpLate, requestVars, Move, Keeps
<1>3. CASE PutNullLast
  BY <1>3 DEF PutNullLast, Move, Keeps, AddsNull
<1>4. CASE Deliver
  BY <1>4 DEF Deliver, Move, AddsRequest, MissesRequest
<1>5. CASE ConsumeRequest
  BY <1>5 DEF ConsumeRequest, Move, TakesRequest
<1>6. CASE ConsumeNullFirst
  BY <1>6 DEF ConsumeNullFirst, Move, TakesNull
<1>7. CASE StartWithNewQueue \/ StopWithQueue
  BY <1>7 DEF StartWithNewQueue, StopWithQueue, Discard, Move, GivesUp
<1>8. CASE SubscribeSendWith
  BY <1>8 DEF SubscribeSendWith, Move, Keeps
<1>9. CASE Publish
  BY <1>9 DEF Publish, PublishTestClient, PublishTestState, PublishCall,
              PublishReturn, requestVars, Move, Keeps
<1>10. CASE UNCHANGED allVars
  BY <1>10 DEF allVars, requestVars, Move, Keeps
<1> QED
  BY <1>1, <1>2, <1>3, <1>4, <1>5, <1>6, <1>7, <1>8, <1>9, <1>10
     DEF RequestQueueNext, ConsumeQueue

\* Every step is a step of MqttDataSet or leaves its variables alone.
LEMMA StepMaps == ASSUME [RequestQueueNext]_allVars PROVE [Next]_vars
<1>1. CASE Untouched
  BY <1>1 DEF Untouched, Next, Consume, Callback
<1>2. CASE LinkUpLate
  BY <1>2 DEF LinkUpLate, Next
<1>3. CASE PutNullLast
  BY <1>3 DEF PutNullLast, Next, Callback
<1>4. CASE Deliver
  BY <1>4 DEF Deliver
<1>5. CASE ConsumeRequest
  BY <1>5 DEF ConsumeRequest
<1>6. CASE ConsumeNullFirst \/ StartWithNewQueue \/ StopWithQueue
           \/ SubscribeSendWith
  BY <1>6 DEF ConsumeNullFirst, StartWithNewQueue, StopWithQueue,
              SubscribeSendWith, Next, Consume
<1>7. CASE Publish
  BY <1>7 DEF Publish, PublishTestClient, PublishTestState, PublishCall,
              PublishReturn
<1>8. CASE UNCHANGED allVars
  BY <1>8 DEF allVars
<1> QED
  BY <1>1, <1>2, <1>3, <1>4, <1>5, <1>6, <1>7, <1>8
     DEF RequestQueueNext, ConsumeQueue

-----------------------------------------------------------------------------
(***************************************************************************)
(* Order and accounting.                                                   *)
(***************************************************************************)
RequestTypes ==
  /\ queue \in Seq(0 .. MaxRequests)
  /\ sent \in 0 .. MaxRequests
  /\ handled \in Seq(1 .. MaxRequests)
  /\ cut \subseteq 1 .. MaxRequests

\* No request is known before the broker passed it on.
Known ==
  /\ \A a \in DOMAIN handled : handled[a] <= sent
  /\ \A a \in DOMAIN queue : queue[a] <= sent

Order == Known /\ HandledInOrder

\* RequestsAccounted, request by request.
Accounted ==
  \A n \in Nat :
    n \in 1 .. sent <=> \/ \E k \in DOMAIN handled : handled[k] = n
                        \/ \E k \in DOMAIN queue : queue[k] = n /\ n # Null
                        \/ n \in cut

\* One entry more: the others stay where they are.
LEMMA Appended ==
  ASSUME NEW S, NEW s \in Seq(S), NEW x \in S
  PROVE  /\ Append(s, x) \in Seq(S)
         /\ DOMAIN Append(s, x) = 1 .. Len(s) + 1
         /\ Append(s, x)[Len(s) + 1] = x
         /\ \A k \in DOMAIN s : Append(s, x)[k] = s[k]
         /\ DOMAIN s = 1 .. Len(s)
         /\ Len(s) \in Nat
  OBVIOUS

\* One entry less: the others move up.
LEMMA Taken ==
  ASSUME NEW S, NEW s \in Seq(S), s # <<>>
  PROVE  /\ Tail(s) \in Seq(S)
         /\ DOMAIN Tail(s) = 1 .. Len(s) - 1
         /\ \A k \in DOMAIN Tail(s) :
              k + 1 \in DOMAIN s /\ Tail(s)[k] = s[k + 1]
         /\ Head(s) = s[1]
         /\ Head(s) \in S
         /\ 1 \in DOMAIN s
         /\ DOMAIN s = 1 .. Len(s)
         /\ Len(s) \in Nat
  OBVIOUS

\* Every move keeps the types.
LEMMA RequestTypesStep ==
  ASSUME RequestTypes, Move
  PROVE  RequestTypes'
<1> USE MaxRequestsAssumption
<1>1. CASE Keeps
  BY <1>1 DEF Keeps, RequestTypes
<1>2. CASE AddsNull
  BY <1>2, Appended DEF AddsNull, RequestTypes, Null
<1>3. CASE AddsRequest
  <2>1. sent + 1 \in 0 .. MaxRequests
    BY <1>3 DEF AddsRequest, RequestTypes
  <2> QED
    BY <1>3, <2>1, Appended DEF AddsRequest, RequestTypes
<1>4. CASE MissesRequest
  BY <1>4 DEF MissesRequest, RequestTypes
<1>5. CASE GivesUp
  <2>1. Requests(queue) \subseteq 1 .. MaxRequests
    BY DEF Requests, ToSet, RequestTypes, Null
  <2>2. queue' \in Seq(0 .. MaxRequests)
    BY <1>5 DEF GivesUp
  <2>3. cut' \subseteq 1 .. MaxRequests
    BY <1>5, <2>1 DEF GivesUp, RequestTypes
  <2> QED
    BY <1>5, <2>2, <2>3 DEF GivesUp, RequestTypes
<1>6. CASE TakesRequest
  <2>1. Head(queue) \in 1 .. MaxRequests
    BY <1>6, Taken DEF TakesRequest, RequestTypes, Null
  <2> QED
    BY <1>6, <2>1, Taken, Appended DEF TakesRequest, RequestTypes
<1>7. CASE TakesNull
  BY <1>7, Taken DEF TakesNull, RequestTypes
<1> QED
  BY <1>1, <1>2, <1>3, <1>4, <1>5, <1>6, <1>7 DEF Move

\* Every move keeps the order.
LEMMA OrderStep ==
  ASSUME RequestTypes, Order, Move
  PROVE  Order'
<1>a. /\ sent \in Nat
      /\ \A k \in DOMAIN queue : queue[k] \in Nat
      /\ \A k \in DOMAIN handled : handled[k] \in Nat
  BY MaxRequestsAssumption DEF RequestTypes
<1>b. /\ \A k \in DOMAIN handled : handled[k] <= sent
      /\ \A k \in DOMAIN queue : queue[k] <= sent
  BY DEF Order, Known
<1> USE MaxRequestsAssumption
<1>1. CASE Keeps
  BY <1>1 DEF Keeps, Order, Known, HandledInOrder
<1>2. CASE AddsNull
  <2>1. /\ DOMAIN queue' = 1 .. Len(queue) + 1
        /\ queue'[Len(queue) + 1] = Null
        /\ \A k \in DOMAIN queue : queue'[k] = queue[k]
        /\ DOMAIN queue = 1 .. Len(queue)
        /\ Len(queue) \in Nat
        /\ handled' = handled /\ sent' = sent
    BY <1>2, Appended DEF AddsNull, RequestTypes, Null
  <2>2. \A k \in DOMAIN queue' : k \in DOMAIN queue \/ queue'[k] = Null
    BY <2>1
  <2>3. Known'
    BY <1>a, <1>b, <2>1, <2>2 DEF Known, Null
  <2>4. HandledInOrder'
    BY <2>1, <2>2 DEF Order, HandledInOrder, RequestTypes
  <2> QED
    BY <2>3, <2>4 DEF Order
<1>3. CASE AddsRequest
  <2>1. /\ DOMAIN queue' = 1 .. Len(queue) + 1
        /\ queue'[Len(queue) + 1] = sent + 1
        /\ \A k \in DOMAIN queue : queue'[k] = queue[k]
        /\ DOMAIN queue = 1 .. Len(queue)
        /\ Len(queue) \in Nat
        /\ handled' = handled /\ sent' = sent + 1
    BY <1>3, Appended DEF AddsRequest, RequestTypes
  <2>2. /\ \A k \in DOMAIN queue : queue[k] \in Nat /\ queue[k] < sent + 1
        /\ \A k \in DOMAIN handled :
             handled[k] \in Nat /\ handled[k] < sent + 1
        /\ sent \in Nat
    BY <1>a, <1>b
  <2>3. \A k \in DOMAIN queue' : k \in DOMAIN queue \/ k = Len(queue) + 1
    BY <2>1
  <2>4. Known'
    BY <2>1, <2>2, <2>3 DEF Known
  <2>5. HandledInOrder'
    <3>1. \A a, b \in DOMAIN handled' : a < b => handled'[a] < handled'[b]
      BY <2>1 DEF Order, HandledInOrder
    <3>2. ASSUME NEW a \in DOMAIN queue', NEW b \in DOMAIN queue',
                 a < b, queue'[a] # Null, queue'[b] # Null
          PROVE  queue'[a] < queue'[b]
      <4>1. a \in DOMAIN queue
        BY <3>2, <2>1
      <4>2. CASE b \in DOMAIN queue
        BY <4>1, <4>2, <3>2, <2>1 DEF Order, HandledInOrder
      <4>3. CASE b = Len(queue) + 1
        BY <4>1, <4>3, <2>1, <2>2
      <4> QED
        BY <4>2, <4>3, <2>3
    <3>3. ASSUME NEW a \in DOMAIN handled', NEW b \in DOMAIN queue',
                 queue'[b] # Null
          PROVE  handled'[a] < queue'[b]
      BY <3>3, <2>1, <2>2, <2>3 DEF Order, HandledInOrder
    <3> QED
      BY <3>1, <3>2, <3>3 DEF HandledInOrder
  <2> QED
    BY <2>4, <2>5 DEF Order
<1>4. CASE MissesRequest
  <2>1. sent' = sent + 1 /\ UNCHANGED <<queue, handled>>
    BY <1>4 DEF MissesRequest
  <2>2. Known'
    BY <1>a, <1>b, <2>1 DEF Known
  <2> QED
    BY <2>1, <2>2 DEF Order, HandledInOrder
<1>5. CASE GivesUp
  BY <1>5 DEF GivesUp, Order, Known, HandledInOrder
<1>6. CASE TakesRequest
  <2>1. /\ DOMAIN queue' \subseteq Nat
        /\ \A k \in DOMAIN queue' :
             k + 1 \in DOMAIN queue /\ 1 < k + 1 /\ queue'[k] = queue[k + 1]
        /\ 1 \in DOMAIN queue
        /\ queue[1] # Null
        /\ sent' = sent
    BY <1>6, Taken DEF TakesRequest, RequestTypes
  <2>2. /\ DOMAIN handled' = 1 .. Len(handled) + 1
        /\ handled'[Len(handled) + 1] = queue[1]
        /\ \A k \in DOMAIN handled : handled'[k] = handled[k]
        /\ DOMAIN handled = 1 .. Len(handled)
        /\ Len(handled) \in Nat
    <3>1. Head(queue) = queue[1] /\ queue[1] \in 1 .. MaxRequests
      BY <1>6, Taken DEF TakesRequest, RequestTypes, Null
    <3> QED
      BY <1>6, <3>1, Appended DEF TakesRequest, RequestTypes
  <2>3. \A k \in DOMAIN handled' : k \in DOMAIN handled \/ k = Len(handled) + 1
    BY <2>2
  <2>4. Known'
    BY <2>1, <2>2, <2>3 DEF Order, Known
  <2>5. HandledInOrder'
    <3>1. ASSUME NEW a \in DOMAIN handled', NEW b \in DOMAIN handled', a < b
          PROVE  handled'[a] < handled'[b]
      <4>1. a \in DOMAIN handled
        BY <3>1, <2>2
      <4>2. CASE b \in DOMAIN handled
        BY <4>1, <4>2, <3>1, <2>2 DEF Order, HandledInOrder
      <4>3. CASE b = Len(handled) + 1
        BY <4>1, <4>3, <2>1, <2>2 DEF Order, HandledInOrder
      <4> QED
        BY <4>2, <4>3, <2>3
    <3>2. ASSUME NEW a \in DOMAIN queue', NEW b \in DOMAIN queue',
                 a < b, queue'[a] # Null, queue'[b] # Null
          PROVE  queue'[a] < queue'[b]
      <4>1. a + 1 < b + 1
        BY <3>2, <2>1
      <4> QED
        BY <4>1, <3>2, <2>1 DEF Order, HandledInOrder
    <3>3. ASSUME NEW a \in DOMAIN handled', NEW b \in DOMAIN queue',
                 queue'[b] # Null
          PROVE  handled'[a] < queue'[b]
      BY <3>3, <2>1, <2>2, <2>3 DEF Order, HandledInOrder
    <3> QED
      BY <3>1, <3>2, <3>3 DEF HandledInOrder
  <2> QED
    BY <2>4, <2>5 DEF Order
<1>7. CASE TakesNull
  <2>1. /\ DOMAIN queue' \subseteq Nat
        /\ \A k \in DOMAIN queue' :
             k + 1 \in DOMAIN queue /\ queue'[k] = queue[k + 1]
        /\ handled' = handled /\ sent' = sent
    BY <1>7, Taken DEF TakesNull, RequestTypes
  <2>2. Known'
    BY <2>1 DEF Order, Known
  <2>3. HandledInOrder'
    <3>1. \A a, b \in DOMAIN queue' : a < b => a + 1 < b + 1
      BY <2>1
    <3> QED
      BY <3>1, <2>1 DEF Order, HandledInOrder
  <2> QED
    BY <2>2, <2>3 DEF Order
<1> QED
  BY <1>1, <1>2, <1>3, <1>4, <1>5, <1>6, <1>7 DEF Move

\* Every move keeps account of every request.
LEMMA AccountedStep ==
  ASSUME RequestTypes, Accounted, Move
  PROVE  Accounted'
<1> USE MaxRequestsAssumption
<1>1. CASE Keeps
  BY <1>1 DEF Keeps, Accounted
<1>2. CASE AddsNull
  <2>1. /\ DOMAIN queue' = 1 .. Len(queue) + 1
        /\ queue'[Len(queue) + 1] = Null
        /\ \A k \in DOMAIN queue : queue'[k] = queue[k]
        /\ DOMAIN queue = 1 .. Len(queue)
        /\ Len(queue) \in Nat
    BY <1>2, Appended DEF AddsNull, RequestTypes, Null
  <2>2. ASSUME NEW n \in Nat, n # Null
        PROVE  (\E k \in DOMAIN queue' : queue'[k] = n)
                 <=> \E k \in DOMAIN queue : queue[k] = n
    BY <2>1, <2>2
  <2> QED
    BY <2>2, <1>2 DEF AddsNull, Accounted
<1>3. CASE AddsRequest
  <2>1. /\ DOMAIN queue' = 1 .. Len(queue) + 1
        /\ queue'[Len(queue) + 1] = sent + 1
        /\ \A k \in DOMAIN queue : queue'[k] = queue[k]
        /\ DOMAIN queue = 1 .. Len(queue)
        /\ Len(queue) \in Nat
    BY <1>3, Appended DEF AddsRequest, RequestTypes
  <2>2. ASSUME NEW n \in Nat
        PROVE  (\E k \in DOMAIN queue' : queue'[k] = n)
                 <=> n = sent + 1 \/ \E k \in DOMAIN queue : queue[k] = n
    BY <2>1
  <2>3. ASSUME NEW n \in Nat
        PROVE  /\ n \in 1 .. sent' <=> n \in 1 .. sent \/ n = sent + 1
               /\ n = sent + 1 => n # Null
    BY <1>3 DEF AddsRequest, RequestTypes, Null
  <2> QED
    BY <2>2, <2>3, <1>3 DEF AddsRequest, Accounted
<1>4. CASE MissesRequest
  <2>1. ASSUME NEW n \in Nat
        PROVE  n \in 1 .. sent' <=> n \in 1 .. sent \/ n = sent + 1
    BY <1>4 DEF MissesRequest, RequestTypes
  <2> QED
    BY <2>1, <1>4 DEF MissesRequest, Accounted
<1>5. CASE GivesUp
  <2>1. ASSUME NEW n \in Nat
        PROVE  n \in cut'
                 <=> \/ n \in cut
                     \/ \E k \in DOMAIN queue : queue[k] = n /\ n # Null
    BY <1>5 DEF GivesUp, Requests, ToSet
  <2>2. DOMAIN queue' = {}
    BY <1>5 DEF GivesUp
  <2> QED
    BY <2>1, <2>2, <1>5 DEF GivesUp, Accounted
<1>6. CASE TakesRequest
  <2>1. /\ DOMAIN queue' = 1 .. Len(queue) - 1
        /\ \A k \in DOMAIN queue' : queue'[k] = queue[k + 1]
        /\ DOMAIN queue = 1 .. Len(queue)
        /\ 1 \in DOMAIN queue
        /\ Len(queue) \in Nat
        /\ queue[1] # Null
    BY <1>6, Taken DEF TakesRequest, RequestTypes
  <2>2. /\ DOMAIN handled' = 1 .. Len(handled) + 1
        /\ handled'[Len(handled) + 1] = queue[1]
        /\ \A k \in DOMAIN handled : handled'[k] = handled[k]
        /\ DOMAIN handled = 1 .. Len(handled)
        /\ Len(handled) \in Nat
    <3>1. Head(queue) = queue[1] /\ queue[1] \in 1 .. MaxRequests
      BY <1>6, Taken DEF TakesRequest, RequestTypes, Null
    <3> QED
      BY <1>6, <3>1, Appended DEF TakesRequest, RequestTypes
  <2>3. ASSUME NEW n \in Nat
        PROVE  (\E k \in DOMAIN queue : queue[k] = n)
                 <=> n = queue[1] \/ \E k \in DOMAIN queue' : queue'[k] = n
    <3>1. ASSUME NEW k \in DOMAIN queue, queue[k] = n, n # queue[1]
          PROVE  k - 1 \in DOMAIN queue' /\ queue'[k - 1] = n
      BY <3>1, <2>1
    <3>2. ASSUME NEW k \in DOMAIN queue', queue'[k] = n
          PROVE  k + 1 \in DOMAIN queue /\ queue[k + 1] = n
      BY <3>2, <2>1
    <3> QED
      BY <3>1, <3>2, <2>1
  <2>4. ASSUME NEW n \in Nat
        PROVE  (\E k \in DOMAIN handled' : handled'[k] = n)
                 <=> n = queue[1] \/ \E k \in DOMAIN handled : handled[k] = n
    BY <2>2
  <2> QED
    BY <2>1, <2>3, <2>4, <1>6 DEF TakesRequest, Accounted
<1>7. CASE TakesNull
  <2>1. /\ DOMAIN queue' = 1 .. Len(queue) - 1
        /\ \A k \in DOMAIN queue' : queue'[k] = queue[k + 1]
        /\ DOMAIN queue = 1 .. Len(queue)
        /\ Len(queue) \in Nat
        /\ queue[1] = Null
    BY <1>7, Taken DEF TakesNull, RequestTypes
  <2>2. ASSUME NEW n \in Nat, n # Null
        PROVE  (\E k \in DOMAIN queue : queue[k] = n)
                 <=> \E k \in DOMAIN queue' : queue'[k] = n
    <3>1. ASSUME NEW k \in DOMAIN queue, queue[k] = n
          PROVE  k - 1 \in DOMAIN queue' /\ queue'[k - 1] = n
      BY <3>1, <2>1, <2>2
    <3>2. ASSUME NEW k \in DOMAIN queue', queue'[k] = n
          PROVE  k + 1 \in DOMAIN queue /\ queue[k + 1] = n
      BY <3>2, <2>1
    <3> QED
      BY <3>1, <3>2
  <2> QED
    BY <2>2, <1>7 DEF TakesNull, Accounted
<1> QED
  BY <1>1, <1>2, <1>3, <1>4, <1>5, <1>6, <1>7 DEF Move

\* The three hold at the start.
LEMMA RequestsInit ==
  ASSUME RequestQueueInit
  PROVE  RequestTypes /\ Order /\ Accounted
<1> USE MaxRequestsAssumption
<1>1. queue = <<>> /\ handled = <<>> /\ sent = 0 /\ cut = {}
  BY DEF RequestQueueInit
<1>2. queue \in Seq(0 .. MaxRequests) /\ handled \in Seq(1 .. MaxRequests)
  BY <1>1
<1>3. DOMAIN queue = {} /\ DOMAIN handled = {}
  BY <1>1
<1>4. RequestTypes
  BY <1>1, <1>2 DEF RequestTypes
<1>5. Order
  BY <1>3 DEF Order, Known, HandledInOrder
<1>6. Accounted
  BY <1>1, <1>3 DEF Accounted
<1> QED
  BY <1>4, <1>5, <1>6

\* The three hold always.
LEMMA RequestsInvariance ==
  RequestQueueSpec => [](RequestTypes /\ Order /\ Accounted)
<1>1. /\ RequestTypes /\ Order /\ Accounted
      /\ [RequestQueueNext]_allVars
      => (RequestTypes /\ Order /\ Accounted)'
  BY NextMoves, RequestTypesStep, OrderStep, AccountedStep
<1> QED
  BY RequestsInit, <1>1, PTL DEF RequestQueueSpec

-----------------------------------------------------------------------------
(***************************************************************************)
(* The callback gets the requests in the order of the broker and none      *)
(* twice, over any number of lost links, stale nulls and new queues        *)
(* (M2CMQTTDataSet.cpp:140-173).                                           *)
(***************************************************************************)
THEOREM HandledOnceInOrder == RequestQueueSpec => []HandledInOrder
<1>1. RequestTypes /\ Order /\ Accounted => HandledInOrder
  BY DEF Order
<1> QED
  BY RequestsInvariance, <1>1, PTL

(***************************************************************************)
(* A request that the broker passed on was handled, waits, or went with    *)
(* its queue: Consume() has no other way to lose one                       *)
(* (M2CMQTTDataSet.cpp:148-166).                                           *)
(***************************************************************************)
THEOREM NoOtherLoss == RequestQueueSpec => []RequestsAccounted
<1>1. RequestTypes /\ Order /\ Accounted => RequestsAccounted
  <2> SUFFICES ASSUME RequestTypes, Accounted
               PROVE  RequestsAccounted
    OBVIOUS
  <2> USE MaxRequestsAssumption
  <2>1. ToSet(handled) \cup Requests(queue) \cup cut \subseteq Nat
    <3>1. ToSet(handled) \subseteq Nat
      BY DEF RequestTypes, ToSet
    <3>2. Requests(queue) \subseteq Nat
      BY DEF RequestTypes, Requests, ToSet
    <3>3. cut \subseteq Nat
      BY DEF RequestTypes
    <3> QED
      BY <3>1, <3>2, <3>3
  <2>2. 1 .. sent \subseteq Nat
    BY DEF RequestTypes
  <2>3. ASSUME NEW n \in Nat
        PROVE  n \in 1 .. sent
                 <=> n \in ToSet(handled) \cup Requests(queue) \cup cut
    BY DEF Accounted, Requests, ToSet
  <2> QED
    BY <2>1, <2>2, <2>3 DEF RequestsAccounted
<1> QED
  BY RequestsInvariance, <1>1, PTL

(***************************************************************************)
(* RequestQueue adds to MqttDataSet and changes nothing of it.             *)
(***************************************************************************)
THEOREM Superposed == RequestQueueSpec => Spec
<1>1. RequestQueueInit => Init
  BY DEF RequestQueueInit
<1> QED
  BY <1>1, StepMaps, PTL DEF RequestQueueSpec, Spec

-----------------------------------------------------------------------------
(***************************************************************************)
(* The client that Publish uses.                                           *)
(***************************************************************************)

\* The event loop is past its tests only with a client that was connected,
\* unless a dial came through late; until then nothing but the dial itself
\* can have happened to a client.
ClientInUse ==
  /\ client <=> token # "none"
  /\ token = "pending" => state = "Init" /\ rpc = "idle" /\ ~link
  /\ ipc = "delete" /\ token = "ok" => late
  /\ ipc = "reset" /\ state = "Connected" => late
  /\ upc \in {"state", "publish"} => late \/ (client /\ token = "ok")

ClientTypes ==
  late \in BOOLEAN /\ upc \in {"idle", "client", "state", "publish"}

\* No step of any thread takes that away.
LEMMA ClientStep ==
  ASSUME Inv, ClientTypes, ClientInUse, [RequestQueueNext]_allVars
  PROVE  ClientInUse' /\ ClientTypes'
<1>1. CASE Untouched
  <2>0. late' = late /\ upc' = upc
    BY <1>1 DEF Untouched
  <2>1. CASE LoopHead
    BY <2>0, <2>1
       DEF LoopHead, InitMoves, MustConnect, ClientInUse, ClientTypes, Inv,
           InitThread, TypeOK, initVars, queueVars, brokerVars
  <2>2. CASE Dial
    BY <2>0, <2>2
       DEF Dial, InitMoves, ClientInUse, ClientTypes, Inv, InitThread, TypeOK,
           initVars, queueVars, brokerVars
  <2>3. CASE WaitOk
    BY <2>0, <2>3
       DEF WaitOk, InitMoves, ClientInUse, ClientTypes, Inv, InitThread,
           TypeOK, initVars, queueVars, brokerVars
  <2>4. CASE WaitFails
    BY <2>0, <2>4
       DEF WaitFails, InitMoves, ClientInUse, ClientTypes, Inv, InitThread,
           TypeOK, initVars, queueVars, brokerVars
  <2>5. CASE DeleteClient
    BY <2>0, <2>5
       DEF DeleteClient, ClientInUse, ClientTypes, Inv, InitThread, TypeOK,
           initVars, queueVars, brokerVars
  <2>6. CASE ResetState
    BY <2>0, <2>6
       DEF ResetState, ClientInUse, ClientTypes, Inv, InitThread, TypeOK,
           initVars, queueVars, brokerVars
  <2>7. CASE Settle
    BY <2>0, <2>7
       DEF Settle, InitMoves, ClientInUse, ClientTypes, Inv, InitThread,
           TypeOK, initVars, queueVars, brokerVars
  <2>8. CASE StartConsume
    BY <2>0, <2>8
       DEF StartConsume, InitMoves, ClientInUse, ClientTypes, Inv, InitThread,
           TypeOK, initVars, queueVars, brokerVars
  <2>9. CASE StartListeners
    BY <2>0, <2>9
       DEF StartListeners, InitMoves, ClientInUse, ClientTypes, Inv,
           InitThread, TypeOK, initVars, queueVars, brokerVars
  <2>10. CASE \/ ConsumeEnter \/ SubscribeThrows \/ SubscribeDone
             \/ SubscribeFails \/ Unsubscribe \/ UnsubscribeThrows
    <3>1. UNCHANGED Elsewhere
      BY <2>10
         DEF ConsumeEnter, SubscribeThrows, SubscribeDone, SubscribeFails,
             Unsubscribe, UnsubscribeThrows
    <3> QED
      BY <2>0, <3>1
         DEF Elsewhere, ClientInUse, ClientTypes, Inv, InitThread, TypeOK,
             initVars
  <2>11. CASE connected
    BY <2>0, <2>11
       DEF connected, ClientInUse, ClientTypes, Inv, InitThread, TypeOK,
           initVars, queueVars, brokerVars
  <2>12. CASE connection_lost
    BY <2>0, <2>12
       DEF connection_lost, ClientInUse, ClientTypes, Inv, InitThread, TypeOK,
           initVars, queueVars, brokerVars
  <2>13. CASE LinkDown
    BY <2>0, <2>13
       DEF LinkDown, ClientInUse, ClientTypes, Inv, InitThread, TypeOK,
           initVars, queueVars, brokerVars
  <2>14. CASE BrokerSubscribes
    BY <2>0, <2>14
       DEF BrokerSubscribes, ClientInUse, ClientTypes, Inv, InitThread,
           TypeOK, initVars, queueVars, brokerVars
  <2> QED
    BY <1>1, <2>1, <2>2, <2>3, <2>4, <2>5, <2>6, <2>7,
       <2>8, <2>9, <2>10, <2>11, <2>12, <2>13, <2>14
       DEF Untouched, initialize
<1>2. CASE LinkUpLate
  BY <1>2
     DEF LinkUpLate, LinkUp, ClientInUse, ClientTypes, Inv, InitThread,
         TypeOK, initVars, queueVars, brokerVars
<1>3. CASE PutNullLast
  BY <1>3
     DEF PutNullLast, PutNull, ClientInUse, ClientTypes, Inv, InitThread,
         TypeOK, initVars, queueVars, brokerVars
<1>4. CASE Deliver \/ ConsumeRequest
  BY <1>4 DEF Deliver, ConsumeRequest, ClientInUse, ClientTypes, vars
<1>5. CASE \/ ConsumeNullFirst \/ StartWithNewQueue \/ StopWithQueue
           \/ SubscribeSendWith
  <2>1. late' = late /\ upc' = upc /\ UNCHANGED Elsewhere
    BY <1>5
       DEF ConsumeNullFirst, StartWithNewQueue, StopWithQueue,
           SubscribeSendWith, Discard, ConsumeNull, StartConsuming,
           StopConsuming, SubscribeSend
  <2> QED
    BY <2>1
       DEF Elsewhere, ClientInUse, ClientTypes, Inv, InitThread, TypeOK,
           initVars
<1>6. CASE PublishTestClient
  BY <1>6
     DEF PublishTestClient, ClientInUse, ClientTypes, Inv, InitThread, TypeOK,
         vars
<1>7. CASE PublishTestState
  BY <1>7
     DEF PublishTestState, ClientInUse, ClientTypes, Inv, InitThread, TypeOK,
         vars
<1>8. CASE PublishCall
  BY <1>8
     DEF PublishCall, ClientInUse, ClientTypes, Inv, InitThread, TypeOK, vars
<1>9. CASE PublishReturn
  BY <1>9
     DEF PublishReturn, ClientInUse, ClientTypes, Inv, InitThread, TypeOK,
         vars
<1>10. CASE UNCHANGED allVars
  BY <1>10 DEF allVars, ClientInUse, ClientTypes, vars
<1> QED
  BY <1>1, <1>2, <1>3, <1>4, <1>5, <1>6, <1>7, <1>8, <1>9, <1>10
     DEF RequestQueueNext, ConsumeQueue, Publish

\* The types of what RequestQueue adds hold from the start.
LEMMA ClientInit ==
  ASSUME RequestQueueInit
  PROVE  ClientInUse /\ ClientTypes
<1>1. late \in BOOLEAN
  BY DEF RequestQueueInit
<1> QED
  BY <1>1 DEF RequestQueueInit, Init, ClientInUse, ClientTypes

-----------------------------------------------------------------------------
(***************************************************************************)
(* Nulls and requests in the queue.                                        *)
(***************************************************************************)
AllNull == \A k \in DOMAIN queue : queue[k] = Null
NoNull  == \A k \in DOMAIN queue : queue[k] # Null

\* A callback of a lost link is over before the next link, and a subscribe
\* that is under way has the link it was sent on.
Links ==
  /\ suback = "sent" => link
  /\ link => rpc \notin {"lost", "null"}

\* In a round that began with an empty queue no null is ahead of a request:
\* there is none while the broker has the subscription, and no request comes
\* when it has none.
FreshRound ==
  /\ kpc \notin {"subwait", "loop"} => AllNull
  /\ kpc = "subwait" /\ suback # "acked" => AllNull
  /\ suback = "sent" => queue = <<>>
  /\ subscribed => kpc # "unsub" /\ NoNull
  /\ \A a, b \in DOMAIN queue : a < b /\ queue[a] = Null => queue[b] = Null

Round ==
  /\ stale \in BOOLEAN
  /\ Links
  /\ kpc = "subscribe" /\ nulls = 0 => queue = <<>>
  /\ ~stale => FreshRound

\* A step that leaves the queue alone keeps the round a fresh one.
LEMMA RoundUntouched ==
  ASSUME Inv, Round, Untouched
  PROVE  Round'
<1>0. queue' = queue /\ stale' = stale /\ (AllNull' <=> AllNull)
      /\ (NoNull' <=> NoNull)
  BY DEF Untouched, requestVars, AllNull, NoNull
<1>1. CASE LoopHead
  BY <1>0, <1>1
     DEF LoopHead, InitMoves, Round, FreshRound, Links, Inv, InitThread,
         Consumer, TypeOK, initVars, queueVars, brokerVars
<1>2. CASE Dial
  BY <1>0, <1>2
     DEF Dial, InitMoves, Round, FreshRound, Links, Inv, InitThread, Consumer,
         TypeOK, initVars, queueVars, brokerVars
<1>3. CASE WaitOk
  BY <1>0, <1>3
     DEF WaitOk, InitMoves, Round, FreshRound, Links, Inv, InitThread,
         Consumer, TypeOK, initVars, queueVars, brokerVars
<1>4. CASE WaitFails
  BY <1>0, <1>4
     DEF WaitFails, InitMoves, Round, FreshRound, Links, Inv, InitThread,
         Consumer, TypeOK, initVars, queueVars, brokerVars
<1>5. CASE DeleteClient
  BY <1>0, <1>5
     DEF DeleteClient, Round, FreshRound, Links, Inv, InitThread, Consumer,
         TypeOK, initVars, queueVars, brokerVars
<1>6. CASE ResetState
  BY <1>0, <1>6
     DEF ResetState, Round, FreshRound, Links, Inv, InitThread, Consumer,
         TypeOK, initVars, queueVars, brokerVars
<1>7. CASE Settle
  BY <1>0, <1>7
     DEF Settle, InitMoves, Round, FreshRound, Links, Inv, InitThread,
         Consumer, TypeOK, initVars, queueVars, brokerVars
<1>8. CASE StartConsume
  BY <1>0, <1>8
     DEF StartConsume, InitMoves, Round, FreshRound, Links, Inv, InitThread,
         Consumer, TypeOK, initVars, queueVars, brokerVars
<1>9. CASE StartListeners
  BY <1>0, <1>9
     DEF StartListeners, InitMoves, Round, FreshRound, Links, Inv, InitThread,
         Consumer, TypeOK, initVars, queueVars, brokerVars
<1>10. CASE ConsumeEnter
  BY <1>0, <1>10
     DEF ConsumeEnter, Elsewhere, Round, FreshRound, Links, Inv, InitThread,
         Consumer, TypeOK, initVars, queueVars, brokerVars
<1>11. CASE SubscribeThrows
  BY <1>0, <1>11
     DEF SubscribeThrows, Elsewhere, Round, FreshRound, Links, Inv,
         InitThread, Consumer, TypeOK, initVars, queueVars, brokerVars
<1>12. CASE SubscribeDone
  BY <1>0, <1>12
     DEF SubscribeDone, Elsewhere, Round, FreshRound, Links, Inv, InitThread,
         Consumer, TypeOK, initVars, queueVars, brokerVars
<1>13. CASE SubscribeFails
  BY <1>0, <1>13
     DEF SubscribeFails, Elsewhere, Round, FreshRound, Links, Inv, InitThread,
         Consumer, TypeOK, initVars, queueVars, brokerVars
<1>14. CASE Unsubscribe
  BY <1>0, <1>14
     DEF Unsubscribe, Elsewhere, Round, FreshRound, Links, Inv, InitThread,
         Consumer, TypeOK, initVars, queueVars, brokerVars
<1>15. CASE UnsubscribeThrows
  BY <1>0, <1>15
     DEF UnsubscribeThrows, Elsewhere, Round, FreshRound, Links, Inv,
         InitThread, Consumer, TypeOK, initVars, queueVars, brokerVars
<1>16. CASE connected
  BY <1>0, <1>16
     DEF connected, Round, FreshRound, Links, Inv, InitThread, Consumer,
         TypeOK, initVars, queueVars, brokerVars
<1>17. CASE connection_lost
  BY <1>0, <1>17
     DEF connection_lost, Round, FreshRound, Links, Inv, InitThread, Consumer,
         TypeOK, initVars, queueVars, brokerVars
<1>18. CASE LinkDown
  BY <1>0, <1>18
     DEF LinkDown, Round, FreshRound, Links, Inv, InitThread, Consumer,
         TypeOK, initVars, queueVars, brokerVars
<1>19. CASE BrokerSubscribes
  <2>1. ~stale => NoNull
    BY <1>19 DEF BrokerSubscribes, Round, FreshRound, NoNull
  <2> QED
    BY <1>0, <1>19, <2>1
       DEF BrokerSubscribes, Round, FreshRound, Links, Inv, InitThread,
           Consumer, TypeOK, initVars, queueVars, brokerVars
<1> QED
  BY <1>1, <1>2, <1>3, <1>4, <1>5, <1>6, <1>7, <1>8, <1>9, <1>10,
     <1>11, <1>12, <1>13, <1>14, <1>15, <1>16, <1>17, <1>18, <1>19
     DEF Untouched, initialize

\* The steps that change the queue keep it too.
LEMMA RoundStep ==
  ASSUME Inv, RequestTypes, Round, [RequestQueueNext]_allVars
  PROVE  Round'
<1> USE MaxRequestsAssumption
<1>1. CASE Untouched
  BY <1>1, RoundUntouched
<1>2. CASE LinkUpLate
  BY <1>2 DEF LinkUpLate, LinkUp, requestVars, Round, FreshRound, Links,
              AllNull, NoNull, queueVars, brokerVars
<1>3. CASE PutNullLast
  <2>1. CASE ~hasQueue
    BY <1>3, <2>1 DEF PutNullLast, PutNull, Round, FreshRound, Links, AllNull,
                      NoNull, initVars, brokerVars
  <2>2. CASE hasQueue
    <3>1. /\ DOMAIN queue' = 1 .. Len(queue) + 1
          /\ queue'[Len(queue) + 1] = Null
          /\ \A k \in DOMAIN queue : queue'[k] = queue[k]
          /\ DOMAIN queue = 1 .. Len(queue)
          /\ Len(queue) \in Nat
      BY <1>3, <2>2, Appended DEF PutNullLast, RequestTypes, Null
    <3>2. \A k \in DOMAIN queue' : k \in DOMAIN queue \/ queue'[k] = Null
      BY <3>1
    <3>3. nulls' # 0 /\ ~link' /\ stale' = stale /\ ~subscribed' /\ ~link
          /\ kpc' = kpc /\ suback' = suback /\ suback # "sent"
          /\ rpc' = "idle"
      BY <1>3, <2>2 DEF PutNullLast, PutNull, Round, Links, Inv, TypeOK,
                        Consumer, brokerVars
    <3>4. AllNull => AllNull'
      BY <3>1, <3>2 DEF AllNull
    <3>5. ~stale => \A a, b \in DOMAIN queue' :
                      a < b /\ queue'[a] = Null => queue'[b] = Null
      BY <3>1, <3>2 DEF Round, FreshRound
    <3> QED
      BY <3>3, <3>4, <3>5 DEF Round, FreshRound, Links
  <2> QED
    BY <2>1, <2>2 DEF Inv, TypeOK
<1>4. CASE Deliver
  <2>1. hasQueue /\ kpc \in {"subwait", "loop", "unsub"} /\ suback # "sent"
        /\ (kpc = "subwait" => suback = "acked")
    BY <1>4 DEF Deliver, Inv, Consumer
  <2>2. /\ DOMAIN queue' = 1 .. Len(queue) + 1
        /\ queue'[Len(queue) + 1] = sent + 1
        /\ \A k \in DOMAIN queue : queue'[k] = queue[k]
        /\ DOMAIN queue = 1 .. Len(queue)
        /\ Len(queue) \in Nat
    <3>1. sent + 1 \in 0 .. MaxRequests
      BY <1>4 DEF Deliver, RequestTypes
    <3> QED
      BY <1>4, <2>1, <3>1, Appended DEF Deliver, RequestTypes
  <2>3. sent + 1 # Null
    BY DEF RequestTypes, Null
  <2>4. NoNull => NoNull'
    BY <2>2, <2>3 DEF NoNull
  <2>5. ~stale => NoNull /\ kpc # "unsub"
    BY <1>4 DEF Deliver, Round, FreshRound
  <2> QED
    BY <1>4, <2>1, <2>4, <2>5 DEF Deliver, Round, FreshRound, NoNull, Links,
                                  vars
<1>5. CASE ConsumeRequest
  <2>1. /\ DOMAIN queue' \subseteq Nat
        /\ \A k \in DOMAIN queue' :
             k + 1 \in DOMAIN queue /\ queue'[k] = queue[k + 1]
    BY <1>5, Taken DEF ConsumeRequest, RequestTypes
  <2>2. NoNull => NoNull'
    BY <2>1 DEF NoNull
  <2>3. ~stale => \A a, b \in DOMAIN queue' :
                    a < b /\ queue'[a] = Null => queue'[b] = Null
    <3>1. \A a, b \in DOMAIN queue' : a < b => a + 1 < b + 1
      BY <2>1
    <3> QED
      BY <2>1, <3>1 DEF Round, FreshRound
  <2> QED
    BY <1>5, <2>2, <2>3 DEF ConsumeRequest, Round, FreshRound, Links, vars,
                            Inv, Consumer
<1>6. CASE ConsumeNullFirst
  <2>1. /\ \A k \in DOMAIN queue' :
             k + 1 \in DOMAIN queue /\ 1 < k + 1 /\ queue'[k] = queue[k + 1]
        /\ 1 \in DOMAIN queue
        /\ queue[1] = Null
    BY <1>6, Taken DEF ConsumeNullFirst, RequestTypes
  <2>2. ~stale => AllNull' /\ ~subscribed
    BY <2>1 DEF Round, FreshRound, AllNull, NoNull
  <2>3. ~stale => FreshRound'
    BY <1>6, <2>2 DEF ConsumeNullFirst, ConsumeNull, FreshRound, AllNull, Inv,
                      Consumer, brokerVars
  <2> QED
    BY <1>6, <2>3 DEF ConsumeNullFirst, ConsumeNull, Elsewhere, brokerVars,
                      Round, Links
<1>7. CASE StartWithNewQueue \/ StopWithQueue
  <2>1. queue' = <<>> /\ DOMAIN queue' = {}
    BY <1>7 DEF StartWithNewQueue, StopWithQueue, Discard
  <2>2. stale' \in BOOLEAN
    BY <1>7 DEF StartWithNewQueue, StopWithQueue, Round
  <2>3. FreshRound'
    BY <1>7, <2>1 DEF StartWithNewQueue, StopWithQueue, StartConsuming,
                      StopConsuming, FreshRound, AllNull, NoNull
  <2> QED
    BY <1>7, <2>1, <2>2, <2>3
       DEF StartWithNewQueue, StopWithQueue, StartConsuming, StopConsuming,
           Elsewhere, brokerVars, Round, Links
<1>8. CASE SubscribeSendWith
  <2>1. stale' \in BOOLEAN /\ (~stale' => nulls = 0)
    <3>1. stale' = (nulls > 0) /\ nulls \in Nat
      BY <1>8 DEF SubscribeSendWith, Inv, TypeOK
    <3>2. CASE nulls > 0
      BY <3>1, <3>2
    <3>3. CASE ~(nulls > 0)
      <4>1. (nulls > 0) = FALSE
        BY <3>3
      <4>2. stale' = FALSE
        BY <3>1, <4>1
      <4>3. nulls = 0
        BY <3>1, <3>3
      <4> QED
        BY <4>2, <4>3
    <3> QED
      BY <3>2, <3>3
  <2>2. nulls = 0 => queue = <<>>
    BY <1>8 DEF SubscribeSendWith, SubscribeSend, Round
  <2>3. queue = <<>> => FreshRound'
    <3>1. ~subscribed' /\ queue' = queue
      BY <1>8 DEF SubscribeSendWith, SubscribeSend, Inv, Consumer
    <3> QED
      BY <3>1 DEF FreshRound, AllNull
  <2> QED
    BY <1>8, <2>1, <2>2, <2>3
       DEF SubscribeSendWith, SubscribeSend, Elsewhere, Round, Links
<1>9. CASE Publish
  BY <1>9 DEF Publish, PublishTestClient, PublishTestState, PublishCall,
              PublishReturn, requestVars, vars, Round, FreshRound, Links,
              AllNull, NoNull
<1>10. CASE UNCHANGED allVars
  BY <1>10 DEF allVars, requestVars, vars, Round, FreshRound, Links, AllNull,
               NoNull
<1> QED
  BY <1>1, <1>2, <1>3, <1>4, <1>5, <1>6, <1>7, <1>8, <1>9, <1>10
     DEF RequestQueueNext, ConsumeQueue

\* The first round has not begun.
LEMMA RoundInit ==
  ASSUME RequestQueueInit
  PROVE  Round
<1>1. queue = <<>> /\ DOMAIN queue = {}
  BY DEF RequestQueueInit
<1>2. stale \in BOOLEAN
  BY DEF RequestQueueInit
<1> QED
  BY <1>1, <1>2 DEF RequestQueueInit, Init, Round, FreshRound, Links, AllNull,
                    NoNull

(***************************************************************************)
(* The inductive invariant of the whole module.                            *)
(***************************************************************************)
RequestQueueInv == Inv /\ RequestTypes /\ ClientTypes /\ ClientInUse /\ Round

LEMMA RequestQueueInvariance == RequestQueueSpec => []RequestQueueInv
<1>1. RequestQueueInit => RequestTypes /\ ClientTypes /\ ClientInUse /\ Round
  BY RequestsInit, ClientInit, RoundInit
<1>2. /\ Inv /\ RequestTypes /\ ClientTypes /\ ClientInUse /\ Round
      /\ [RequestQueueNext]_allVars
      => (RequestTypes /\ ClientTypes /\ ClientInUse /\ Round)'
  BY NextMoves, RequestTypesStep, ClientStep, RoundStep
<1> QED
  BY <1>1, <1>2, Superposed, Invariance, PTL
     DEF RequestQueueSpec, RequestQueueInv

(***************************************************************************)
(* Every variable of the connection, its queue and its publisher keeps its *)
(* type (M2CMQTTDataSet.h, M2CMQTTDataSet.cpp).                            *)
(***************************************************************************)
THEOREM RequestQueueTypeCorrect == RequestQueueSpec => []RequestQueueTypeOK
<1>1. RequestQueueInv => RequestQueueTypeOK
  BY DEF RequestQueueInv, Inv, RequestTypes, ClientTypes, Round,
         RequestQueueTypeOK
<1> QED
  BY RequestQueueInvariance, <1>1, PTL

(***************************************************************************)
(* Publish is inside a client that Connect() deletes only when the dial    *)
(* came through after its ten seconds, whatever the three threads and the  *)
(* event loop do (M2CMQTTDataSet.cpp:63-68, 195-227).                      *)
(***************************************************************************)
THEOREM OnlyLateDangles == RequestQueueSpec => []OnlyALateConnectDangles
<1>1. RequestQueueInv => OnlyALateConnectDangles
  BY DEF RequestQueueInv, ClientInUse, OnlyALateConnectDangles
<1> QED
  BY RequestQueueInvariance, <1>1, PTL

(***************************************************************************)
(* Requests are lost only in a round that began with the null of an older  *)
(* connection in its queue (M2CMQTTDataSet.cpp:148-166).                   *)
(***************************************************************************)
THEOREM OnlyStaleDiscards == RequestQueueSpec => OnlyAStaleNullDiscards
<1>1. ASSUME RequestQueueInv, [RequestQueueNext]_allVars, ~stale
      PROVE  cut' = cut
  <2>1. CASE Untouched \/ LinkUpLate
    BY <2>1 DEF Untouched, LinkUpLate, requestVars
  <2>2. CASE PutNullLast \/ ConsumeRequest \/ ConsumeNullFirst
             \/ SubscribeSendWith
    BY <2>2 DEF PutNullLast, ConsumeRequest, ConsumeNullFirst,
                SubscribeSendWith
  <2>3. CASE Deliver
    BY <1>1, <2>3 DEF Deliver, RequestQueueInv, Inv, Consumer
  <2>4. CASE StartWithNewQueue \/ StopWithQueue
    <3>1. AllNull
      BY <1>1, <2>4 DEF StartWithNewQueue, StopWithQueue, StartConsuming,
                        StopConsuming, RequestQueueInv, Round, FreshRound
    <3>2. Requests(queue) = {}
      BY <3>1 DEF AllNull, Requests, ToSet
    <3> QED
      BY <2>4, <3>2 DEF StartWithNewQueue, StopWithQueue, Discard
  <2>5. CASE Publish
    BY <2>5 DEF Publish, PublishTestClient, PublishTestState, PublishCall,
                PublishReturn, requestVars
  <2>6. CASE UNCHANGED allVars
    BY <2>6 DEF allVars, requestVars
  <2> QED
    BY <1>1, <2>1, <2>2, <2>3, <2>4, <2>5, <2>6
       DEF RequestQueueNext, ConsumeQueue
<1>2. RequestQueueInv /\ [RequestQueueNext]_allVars
        => [cut' # cut => stale]_allVars
  BY <1>1 DEF RequestQueueInv, Round
<1> QED
  BY RequestQueueInvariance, <1>2, PTL
     DEF RequestQueueSpec, OnlyAStaleNullDiscards
=============================================================================
