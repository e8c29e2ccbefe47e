------------------------ MODULE CloudForwarderProofs ------------------------
(***************************************************************************)
(* For every bound: the forwarding half of the uplink is well typed, keeps *)
(* the messages of each list in order between LPush and the broker, and so *)
(* implements OrderedChannel; what it confirmed is final, and no message   *)
(* vanishes.                                                               *)
(***************************************************************************)
EXTENDS CloudForwarder, FiniteSetTheorems, TLAPS

USE BoundsAssumption

\* The head and the tail of a list, element by element.
LEMMA PopFacts ==
  ASSUME NEW S, NEW q \in Seq(S), q # <<>>
  PROVE  /\ Head(q) \in S
         /\ Head(q) = q[1]
         /\ 1 \in DOMAIN q
         /\ Tail(q) \in Seq(S)
         /\ \A k \in DOMAIN Tail(q) :
              k \in Nat /\ k + 1 \in DOMAIN q /\ Tail(q)[k] = q[k + 1] /\ 1 < k + 1
  OBVIOUS

\* Appending to a list, element by element.
LEMMA PushFacts ==
  ASSUME NEW S, NEW q \in Seq(S), NEW e \in S
  PROVE  /\ Append(q, e) \in Seq(S)
         /\ \A k \in DOMAIN Append(q, e) :
              \/ k \in DOMAIN q /\ Append(q, e)[k] = q[k] /\ k < Len(q) + 1
              \/ k = Len(q) + 1 /\ Append(q, e)[k] = e
  OBVIOUS

\* Putting a message back in front of a list, element by element.
LEMMA PushBackFacts ==
  ASSUME NEW S, NEW q \in Seq(S), NEW e \in S
  PROVE  /\ <<e>> \o q \in Seq(S)
         /\ \A k \in DOMAIN (<<e>> \o q) :
              \/ k = 1 /\ (<<e>> \o q)[k] = e
              \/ k - 1 \in DOMAIN q /\ (<<e>> \o q)[k] = q[k - 1] /\ k > 1
  OBVIOUS

\* The state of the event loop and of the lists, as far as order goes.
TypeFlow ==
  /\ pushed \in [List -> Nat]
  /\ queue \in [List -> Seq(Nat \ {0})]
  /\ cur \in Item \cup {NoItem}
  /\ pc \in {"idle", "check", "send", "wait"}
  /\ pc = "idle" <=> cur = NoItem
  /\ wire \in Seq(Item)
  /\ rcvd \in [List -> Seq(Nat \ {0})]

TypeRest ==
  /\ acked \in BOOLEAN /\ link \in BOOLEAN /\ conn \in BOOLEAN
  /\ longDown \in BOOLEAN /\ listening \in BOOLEAN /\ ready \in BOOLEAN
  /\ confirmed \subseteq Item
  /\ dropped \subseteq Item
  /\ deaths \in Nat
  /\ faults \in Nat

LEMMA TypeParts == TypeOK <=> TypeFlow /\ TypeRest
  BY DEF TypeOK, TypeFlow, TypeRest

LEMMA EmptyWire == <<>> \in Seq(Item)
  OBVIOUS

LEMMA ItemFacts ==
  /\ \A it \in Item : it.q \in List /\ it.n \in Nat \ {0} /\ it # NoItem
  /\ NoItem \notin Item
  /\ \A l \in List, n \in Nat \ {0} : [q |-> l, n |-> n] \in Item
  BY DEF Item, NoItem

\* The steps of the flow, whatever they do to the rest of the state.
LPushMove(l) ==
  /\ LPush(l)
  /\ \/ cur' = cur /\ pc' = pc
     \/ cur' = NoItem /\ pc' = "idle"
  /\ wire' = wire \/ wire' = <<>>
  /\ rcvd' = rcvd

RPopMove(l) ==
  /\ pc = "idle"
  /\ queue[l] # <<>>
  /\ cur' = [q |-> l, n |-> Head(queue[l])]
  /\ queue' = [queue EXCEPT ![l] = Tail(@)]
  /\ pc' = "check"
  /\ UNCHANGED <<pushed, wire, rcvd>>

RPushBackMove ==
  /\ pc # "idle"
  /\ queue' = [queue EXCEPT ![cur.q] = <<cur.n>> \o @]
  /\ cur' = NoItem
  /\ pc' = "idle"
  /\ UNCHANGED <<pushed, wire, rcvd>>

SendMove ==
  /\ pc = "send"
  /\ wire' = Append(wire, cur)
  /\ pc' = "wait"
  /\ UNCHANGED <<pushed, queue, cur, rcvd>>

ReceiveMove ==
  /\ wire # <<>>
  /\ rcvd' = [rcvd EXCEPT ![Head(wire).q] = Append(@, Head(wire).n)]
  /\ wire' = Tail(wire)
  /\ UNCHANGED <<pushed, queue, cur, pc>>

DropMove ==
  /\ \/ cur' = cur /\ pc' = pc
     \/ cur' = cur /\ pc # "idle" /\ pc' \in {"send", "wait"}
     \/ cur' = NoItem /\ pc' = "idle"
  /\ wire' = wire \/ wire' = <<>>
  /\ UNCHANGED <<pushed, queue, rcvd>>

Move ==
  \/ \E l \in List : LPushMove(l) \/ RPopMove(l)
  \/ RPushBackMove
  \/ SendMove
  \/ ReceiveMove
  \/ DropMove

\* Every step of the forwarder is one of these.
LEMMA NextMoves == [Next]_vars => Move
<1> SUFFICES ASSUME [Next]_vars PROVE Move
  OBVIOUS
<1> USE DEF netVars, procVars, histVars
<1>1. ASSUME NEW l \in List, Produce(l) PROVE Move
  BY <1>1 DEF Produce, Move, LPushMove
<1>2. ASSUME NEW l \in List, RPop(l) PROVE Move
  BY <1>2 DEF RPop, Move, RPopMove
<1>3. CASE CallbackNotReady
  BY <1>3 DEF CallbackNotReady, RPushBack, Move, RPushBackMove
<1>4. CASE PublishDisconnected
  BY <1>4 DEF PublishDisconnected, RPushBack, Move, RPushBackMove
<1>5. CASE PublishExit
  <2>1. LPushMove("audits")
    BY <1>5 DEF PublishExit, ProcessEnds, LPushMove
  <2>2. QED
    BY <2>1 DEF Move, List
<1>6. CASE PublishConnected
  BY <1>6 DEF PublishConnected, Move, DropMove
<1>7. CASE PublishSend
  BY <1>7 DEF PublishSend, Move, SendMove
<1>8. CASE PublishHalfOpen
  BY <1>8 DEF PublishHalfOpen, Move, DropMove
<1>9. CASE PublishThrows
  BY <1>9 DEF PublishThrows, RPushBack, Move, RPushBackMove
<1>10. CASE PublishDone
  BY <1>10 DEF PublishDone, Move, DropMove
<1>11. CASE PublishTimeout
  BY <1>11 DEF PublishTimeout, RPushBack, Move, RPushBackMove
<1>12. CASE BrokerReceives
  BY <1>12 DEF BrokerReceives, Move, ReceiveMove
<1>13. CASE Connect
  <2>1. LPushMove("audits")
    BY <1>13 DEF Connect, LPushMove
  <2>2. QED
    BY <2>1 DEF Move, List
<1>14. CASE LinkLost
  BY <1>14 DEF LinkLost, Move, DropMove
<1>15. CASE Reconnect
  BY <1>15 DEF Reconnect, Move, DropMove
<1>16. CASE connected
  BY <1>16 DEF connected, Move, DropMove
<1>17. CASE connection_lost
  BY <1>17 DEF connection_lost, Move, DropMove
<1>18. CASE TimePasses
  BY <1>18 DEF TimePasses, Move, DropMove
<1>19. CASE Crash
  BY <1>19 DEF Crash, ProcessEnds, Move, DropMove
<1>20. CASE UNCHANGED vars
  BY <1>20 DEF vars, Move, DropMove
<1>21. QED
  BY <1>1, <1>2, <1>3, <1>4, <1>5, <1>6, <1>7, <1>8, <1>9, <1>10, <1>11,
     <1>12, <1>13, <1>14, <1>15, <1>16, <1>17, <1>18, <1>19, <1>20
  DEF Next, Publish

-----------------------------------------------------------------------------
\* What TypeFlow says of each single value.
Values ==
  /\ \A l \in List : pushed[l] \in Nat
  /\ \A l \in List : \A k \in DOMAIN queue[l] : k \in Nat /\ queue[l][k] \in Nat \ {0}
  /\ \A l \in List : \A k \in DOMAIN rcvd[l] : k \in Nat /\ rcvd[l][k] \in Nat \ {0}
  /\ \A k \in DOMAIN wire :
       k \in Nat /\ wire[k] \in Item /\ wire[k].q \in List /\ wire[k].n \in Nat \ {0}
  /\ cur # NoItem => cur \in Item /\ cur.q \in List /\ cur.n \in Nat \ {0}
  /\ Len(wire) \in Nat
  /\ \A l \in List : Len(queue[l]) \in Nat /\ Len(rcvd[l]) \in Nat

LEMMA ValuesFacts == TypeFlow => Values
<1> SUFFICES ASSUME TypeFlow PROVE Values
  OBVIOUS
<1>1. \A l \in List : /\ pushed[l] \in Nat
                     /\ queue[l] \in Seq(Nat \ {0})
                     /\ rcvd[l] \in Seq(Nat \ {0})
  BY DEF TypeFlow
<1>2. \A k \in DOMAIN wire : k \in Nat /\ wire[k] \in Item
  BY DEF TypeFlow
<1>3. cur # NoItem => cur \in Item
  BY DEF TypeFlow
<1>4. Len(wire) \in Nat
  BY DEF TypeFlow
<1>5. \A k \in DOMAIN wire : wire[k].q \in List /\ wire[k].n \in Nat \ {0}
  BY <1>2, ItemFacts
<1>6. cur # NoItem => cur.q \in List /\ cur.n \in Nat \ {0}
  BY <1>3, ItemFacts
<1>7. \A l \in List : \A k \in DOMAIN queue[l] : k \in Nat /\ queue[l][k] \in Nat \ {0}
  BY <1>1
<1>8. \A l \in List : \A k \in DOMAIN rcvd[l] : k \in Nat /\ rcvd[l][k] \in Nat \ {0}
  BY <1>1
<1>9. \A l \in List : Len(queue[l]) \in Nat /\ Len(rcvd[l]) \in Nat
  BY <1>1
<1>10. QED
  BY <1>1, <1>2, <1>3, <1>4, <1>5, <1>6, <1>7, <1>8, <1>9 DEF Values

\* The moves keep the flow well typed.
LEMMA MoveKeepsType ==
  ASSUME TypeFlow, Move
  PROVE  TypeFlow'
<1> USE DEF TypeFlow
<1>1. ASSUME NEW l \in List, LPushMove(l) PROVE TypeFlow'
  <2>1. /\ queue[l] \in Seq(Nat \ {0})
        /\ pushed[l] + 1 \in Nat \ {0}
    OBVIOUS
  <2>2. Append(queue[l], pushed[l] + 1) \in Seq(Nat \ {0})
    BY <2>1, PushFacts
  <2>3. wire' \in Seq(Item)
    BY <1>1, EmptyWire DEF LPushMove
  <2>4. /\ cur' \in Item \cup {NoItem}
        /\ pc' \in {"idle", "check", "send", "wait"}
        /\ pc' = "idle" <=> cur' = NoItem
    BY <1>1 DEF LPushMove
  <2>5. pushed' \in [List -> Nat] /\ queue' \in [List -> Seq(Nat \ {0})]
    BY <1>1, <2>1, <2>2 DEF LPushMove, LPush
  <2>6. QED
    BY <1>1, <2>3, <2>4, <2>5 DEF LPushMove
<1>2. ASSUME NEW l \in List, RPopMove(l) PROVE TypeFlow'
  <2>1. queue[l] \in Seq(Nat \ {0}) /\ queue[l] # <<>>
    BY <1>2 DEF RPopMove
  <2>2. Head(queue[l]) \in Nat \ {0} /\ Tail(queue[l]) \in Seq(Nat \ {0})
    BY <2>1, PopFacts
  <2>3. cur' \in Item /\ cur' # NoItem
    BY <2>2, <1>2, ItemFacts DEF RPopMove
  <2>4. QED
    BY <1>2, <2>2, <2>3 DEF RPopMove
<1>3. CASE RPushBackMove
  <2>1. cur.q \in List /\ cur.n \in Nat \ {0}
    BY <1>3, ItemFacts DEF RPushBackMove
  <2>2. <<cur.n>> \o queue[cur.q] \in Seq(Nat \ {0})
    BY <2>1, PushBackFacts
  <2>3. QED
    BY <1>3, <2>1, <2>2 DEF RPushBackMove
<1>4. CASE SendMove
  <2>1. cur \in Item
    BY <1>4 DEF SendMove
  <2>2. Append(wire, cur) \in Seq(Item)
    BY <2>1, PushFacts
  <2>3. QED
    BY <1>4, <2>2 DEF SendMove
<1>5. CASE ReceiveMove
  <2>1. Head(wire) \in Item /\ Tail(wire) \in Seq(Item)
    BY <1>5, PopFacts DEF ReceiveMove
  <2>2. Head(wire).q \in List /\ Head(wire).n \in Nat \ {0}
    BY <2>1, ItemFacts
  <2>3. Append(rcvd[Head(wire).q], Head(wire).n) \in Seq(Nat \ {0})
    BY <2>2, PushFacts
  <2>4. QED
    BY <1>5, <2>1, <2>2, <2>3 DEF ReceiveMove
<1>6. CASE DropMove
  <2>1. wire' \in Seq(Item)
    BY <1>6, EmptyWire DEF DropMove
  <2>2. /\ cur' \in Item \cup {NoItem}
        /\ pc' \in {"idle", "check", "send", "wait"}
        /\ pc' = "idle" <=> cur' = NoItem
    BY <1>6 DEF DropMove
  <2>3. QED
    BY <1>6, <2>1, <2>2 DEF DropMove
<1>7. QED
  BY <1>1, <1>2, <1>3, <1>4, <1>5, <1>6 DEF Move

\* Type correctness of the forwarding half of the uplink.
THEOREM TypeCorrect == Spec => []TypeOK
<1>1. Init => TypeOK
  <2> SUFFICES ASSUME Init PROVE TypeOK
    OBVIOUS
  <2>1. TypeFlow
    BY DEF Init, TypeFlow
  <2>2. TypeRest
    BY DEF Init, TypeRest
  <2>3. QED
    BY <2>1, <2>2, TypeParts
<1>2. TypeOK /\ [Next]_vars => TypeOK'
  <2> SUFFICES ASSUME TypeOK, [Next]_vars PROVE TypeOK'
    OBVIOUS
  <2>1. TypeFlow'
    BY NextMoves, MoveKeepsType, TypeParts
  <2>2. TypeRest'
    <3> USE DEF TypeRest, netVars, procVars, histVars
    <3>0. TypeRest /\ (cur # NoItem => cur \in Item) /\ (pc # "idle" => cur # NoItem)
      BY TypeParts DEF TypeFlow
    <3>1. ASSUME NEW l \in List, Produce(l) \/ RPop(l) PROVE TypeRest'
      BY <3>0, <3>1 DEF Produce, RPop
    <3>a. RPushBack /\ faults' \in Nat => TypeRest'
      BY <3>0 DEF RPushBack
    <3>b. ProcessEnds /\ faults' \in Nat => TypeRest'
      <4> SUFFICES ASSUME ProcessEnds, faults' \in Nat PROVE TypeRest'
        OBVIOUS
      <4>1. dropped' \subseteq Item /\ confirmed' \subseteq Item
        BY <3>0 DEF ProcessEnds
      <4>2. deaths' \in Nat
        BY <3>0 DEF ProcessEnds
      <4>3. /\ acked' \in BOOLEAN /\ link' \in BOOLEAN /\ conn' \in BOOLEAN
            /\ longDown' \in BOOLEAN /\ listening' \in BOOLEAN /\ ready' \in BOOLEAN
        BY Zenon DEF ProcessEnds
      <4>4. QED
        BY <4>1, <4>2, <4>3
    <3>2. CASE CallbackNotReady \/ PublishDisconnected \/ PublishThrows
      BY <3>0, <3>2, <3>a
         DEF CallbackNotReady, PublishDisconnected, PublishThrows
    <3>c. CASE PublishTimeout
      <4>1. faults' \in Nat
        BY <3>0, <3>c DEF PublishTimeout
      <4>2. QED
        BY <4>1, <3>c, <3>a DEF PublishTimeout
    <3>3. CASE PublishExit \/ Crash
      <4>1. faults' \in Nat
        BY <3>0, <3>3 DEF PublishExit, Crash
      <4>2. QED
        BY <4>1, <3>3, <3>b DEF PublishExit, Crash
    <3>4. CASE PublishConnected \/ PublishSend \/ PublishHalfOpen
      BY <3>0, <3>4 DEF PublishConnected, PublishSend, PublishHalfOpen
    <3>5. CASE PublishDone
      BY <3>0, <3>5 DEF PublishDone
    <3>6. CASE BrokerReceives
      BY <3>0, <3>6 DEF BrokerReceives
    <3>7. CASE LinkLost \/ Reconnect
      <4>1. faults' \in Nat
        BY <3>0, <3>7 DEF LinkLost, Reconnect
      <4>2. QED
        BY <3>0, <3>7, <4>1, Zenon DEF LinkLost, Reconnect
    <3>d. CASE Connect
      <4>1. longDown' \in BOOLEAN
        BY <3>0, <3>d DEF Connect
      <4>2. QED
        BY <3>0, <3>d, <4>1 DEF Connect
    <3>8. CASE connected \/ connection_lost \/ TimePasses
      BY <3>0, <3>8 DEF connected, connection_lost, TimePasses
    <3>9. CASE UNCHANGED vars
      BY <3>0, <3>9 DEF vars
    <3>10. QED
      BY <3>1, <3>2, <3>c, <3>3, <3>4, <3>5, <3>6, <3>7, <3>d, <3>8, <3>9
      DEF Next, Publish
  <2>3. QED
    BY <2>1, <2>2 DEF TypeOK, TypeFlow, TypeRest
<1>3. QED
  BY <1>1, <1>2, PTL DEF Spec

-----------------------------------------------------------------------------
\* The newest message of a list comes last.
LEMMA LPushKeepsOrder ==
  ASSUME TypeFlow, ChannelOrder, NEW p \in List, LPushMove(p)
  PROVE  ChannelOrder'
<1>1. Values
  BY ValuesFacts
<1>2. /\ \A l \in List : pushed'[l] \in Nat /\ pushed[l] <= pushed'[l]
      /\ pushed'[p] = pushed[p] + 1
      /\ \A l \in List : l # p => queue'[l] = queue[l]
      /\ queue'[p] = Append(queue[p], pushed[p] + 1)
  BY DEF LPushMove, LPush, TypeFlow
<1>3. \A k \in DOMAIN queue'[p] :
        \/ k \in DOMAIN queue[p] /\ queue'[p][k] = queue[p][k] /\ k < Len(queue[p]) + 1
        \/ k = Len(queue[p]) + 1 /\ queue'[p][k] = pushed[p] + 1
  BY <1>2, PushFacts DEF TypeFlow
<1>4. /\ cur' # NoItem => cur' = cur
      /\ \A k \in DOMAIN wire' : k \in DOMAIN wire /\ wire'[k] = wire[k]
      /\ \A l \in List : rcvd'[l] = rcvd[l]
  BY DEF LPushMove
<1> SUFFICES ASSUME NEW l \in List
             PROVE  ReceivedFirst(l)' /\ WireNext(l)' /\ QueueLast(l)'
  BY DEF ChannelOrder
<1>a. /\ pushed[l] \in Nat /\ pushed'[l] \in Nat /\ pushed[l] <= pushed'[l]
      /\ \A k \in DOMAIN queue'[l] :
           \/ k \in DOMAIN queue[l] /\ queue'[l][k] = queue[l][k] /\ k < Len(queue[l]) + 1
           \/ k = Len(queue[l]) + 1 /\ queue'[l][k] = pushed[l] + 1 /\ pushed'[l] = pushed[l] + 1
  <2>1. CASE l = p
    BY <2>1, <1>1, <1>2, <1>3 DEF Values
  <2>2. CASE l # p
    <3>1. queue[l] \in Seq(Nat \ {0})
      BY DEF TypeFlow
    <3>2. \A k \in DOMAIN queue[l] : k < Len(queue[l]) + 1
      BY <3>1
    <3>3. pushed[l] \in Nat /\ pushed'[l] \in Nat /\ pushed[l] <= pushed'[l]
      BY <1>1, <1>2 DEF Values
    <3>4. queue'[l] = queue[l]
      BY <2>2, <1>2
    <3>5. QED
      BY <3>2, <3>3, <3>4
  <2>3. QED
    BY <2>1, <2>2
<1>b. /\ \A k \in DOMAIN queue[l] : k \in Nat /\ queue[l][k] \in Nat
      /\ \A i \in DOMAIN rcvd[l] : rcvd[l][i] \in Nat
      /\ \A k \in DOMAIN wire : wire[k].n \in Nat
      /\ cur # NoItem => cur.n \in Nat
      /\ Len(queue[l]) \in Nat
  BY <1>1 DEF Values
<1>c. ReceivedFirst(l) /\ WireNext(l) /\ QueueLast(l)
  BY DEF ChannelOrder
<1>5. ReceivedFirst(l)'
  BY <1>a, <1>b, <1>c, <1>4 DEF ReceivedFirst
<1>6. WireNext(l)'
  <2>1. ASSUME NEW k \in DOMAIN wire', wire'[k].q = l
        PROVE  /\ wire'[k] = wire[k] /\ k \in DOMAIN wire
               /\ wire[k].n \in Nat /\ wire[k].n <= pushed[l]
               /\ \A m \in DOMAIN queue[l] : wire[k].n <= queue[l][m]
    BY <2>1, <1>b, <1>c, <1>4 DEF WireNext
  <2>2. ASSUME NEW k \in DOMAIN wire', wire'[k].q = l
        PROVE  \A m \in DOMAIN queue'[l] : wire'[k].n <= queue'[l][m]
    BY <2>1, <2>2, <1>a, <1>b
  <2>3. ASSUME NEW k \in DOMAIN wire', wire'[k].q = l
        PROVE  wire'[k].n <= pushed'[l]
    BY <2>1, <2>3, <1>a
  <2>4. QED
    BY <2>2, <2>3, <1>4, <1>c DEF WireNext
<1>7. QueueLast(l)'
  <2>1. ASSUME cur' # NoItem, cur'.q = l
        PROVE  /\ cur'.n <= pushed'[l]
               /\ \A k \in DOMAIN queue'[l] : cur'.n < queue'[l][k]
    <3>1. /\ cur' = cur /\ cur.n \in Nat /\ cur.n <= pushed[l]
          /\ \A k \in DOMAIN queue[l] : cur.n < queue[l][k]
      BY <2>1, <1>4, <1>b, <1>c DEF QueueLast
    <3>2. QED
      BY <3>1, <1>a
  <2>2. \A k \in DOMAIN queue[l] : /\ queue[l][k] <= pushed[l]
                                   /\ queue[l][k] \in Nat
    BY <1>b, <1>c DEF QueueLast
  <2>3. \A k \in DOMAIN queue'[l] : queue'[l][k] <= pushed'[l]
    BY <2>2, <1>a
  <2>4. \A k, m \in DOMAIN queue[l] : k < m => queue[l][k] < queue[l][m]
    BY <1>c DEF QueueLast
  <2>5. \A k, m \in DOMAIN queue'[l] : k < m => queue'[l][k] < queue'[l][m]
    <3> SUFFICES ASSUME NEW k \in DOMAIN queue'[l], NEW m \in DOMAIN queue'[l], k < m
                 PROVE  queue'[l][k] < queue'[l][m]
      OBVIOUS
    <3>1. k \in DOMAIN queue[l] /\ queue'[l][k] = queue[l][k]
      BY <1>a, <1>b
    <3>2. CASE m \in DOMAIN queue[l] /\ queue'[l][m] = queue[l][m]
      BY <3>1, <3>2, <2>4
    <3>3. CASE queue'[l][m] = pushed[l] + 1
      BY <3>1, <3>3, <2>2, <1>a
    <3>4. QED
      BY <3>2, <3>3, <1>a
  <2>6. QED
    BY <2>1, <2>3, <2>5 DEF QueueLast
<1>8. QED
  BY <1>5, <1>6, <1>7

\* The oldest message of a list goes into the hands of the callback.
LEMMA RPopKeepsOrder ==
  ASSUME TypeFlow, ChannelOrder, NEW p \in List, RPopMove(p)
  PROVE  ChannelOrder'
<1>1. Values
  BY ValuesFacts
<1>2. /\ queue[p] \in Seq(Nat \ {0}) /\ queue[p] # <<>>
      /\ \A l \in List : l # p => queue'[l] = queue[l]
      /\ queue'[p] = Tail(queue[p])
      /\ cur'.q = p /\ cur'.n = Head(queue[p])
      /\ pushed' = pushed /\ wire' = wire /\ rcvd' = rcvd
  BY DEF RPopMove, TypeFlow
<1>3. /\ cur'.n = queue[p][1] /\ 1 \in DOMAIN queue[p]
      /\ \A k \in DOMAIN queue'[p] :
           /\ k \in Nat /\ k + 1 \in DOMAIN queue[p] /\ 1 < k + 1
           /\ queue'[p][k] = queue[p][k + 1]
  BY <1>2, PopFacts
<1>4. \A k, m \in DOMAIN queue'[p] : k < m => k + 1 < m + 1
  BY <1>3
<1>b. /\ cur'.q = p /\ pushed' = pushed /\ wire' = wire /\ rcvd' = rcvd
      /\ \A l \in List : l # p => queue'[l] = queue[l]
  BY <1>2
<1> SUFFICES ASSUME NEW l \in List
             PROVE  ReceivedFirst(l)' /\ WireNext(l)' /\ QueueLast(l)'
  BY DEF ChannelOrder
<1>a. ReceivedFirst(l) /\ WireNext(l) /\ QueueLast(l)
  BY DEF ChannelOrder
<1>5. ReceivedFirst(l)'
  <2>1. CASE l = p
    BY <2>1, <1>a, <1>b, <1>3 DEF ReceivedFirst
  <2>2. CASE l # p
    BY <2>2, <1>a, <1>b DEF ReceivedFirst
  <2>3. QED
    BY <2>1, <2>2
<1>6. WireNext(l)'
  <2>1. CASE l = p
    BY <2>1, <1>a, <1>b, <1>3 DEF WireNext
  <2>2. CASE l # p
    BY <2>2, <1>a, <1>b DEF WireNext
  <2>3. QED
    BY <2>1, <2>2
<1>7. QueueLast(l)'
  <2>1. CASE l = p
    <3>1. /\ \A k \in DOMAIN queue[p] : queue[p][k] <= pushed[p]
          /\ \A k, m \in DOMAIN queue[p] : k < m => queue[p][k] < queue[p][m]
      BY <2>1, <1>a DEF QueueLast
    <3>2. /\ cur'.n <= pushed[p]
          /\ \A k \in DOMAIN queue'[p] : /\ cur'.n < queue'[p][k]
                                          /\ queue'[p][k] <= pushed[p]
      BY <3>1, <1>3
    <3>3. \A k, m \in DOMAIN queue'[p] : k < m => queue'[p][k] < queue'[p][m]
      BY <3>1, <1>3, <1>4
    <3>4. QED
      BY <2>1, <1>b, <3>2, <3>3 DEF QueueLast
  <2>2. CASE l # p
    BY <2>2, <1>a, <1>b DEF QueueLast
  <2>3. QED
    BY <2>1, <2>2
<1>8. QED
  BY <1>5, <1>6, <1>7

\* A refused message goes back in front of the later ones.
LEMMA RPushBackKeepsOrder ==
  ASSUME TypeFlow, ChannelOrder, RPushBackMove
  PROVE  ChannelOrder'
<1> DEFINE p == cur.q
<1>1. Values
  BY ValuesFacts
<1>2. cur # NoItem
  BY DEF RPushBackMove, TypeFlow
<1>3. /\ p \in List /\ cur.n \in Nat \ {0} /\ queue[p] \in Seq(Nat \ {0})
      /\ \A l \in List : l # p => queue'[l] = queue[l]
      /\ queue'[p] = <<cur.n>> \o queue[p]
      /\ cur' = NoItem /\ pushed' = pushed /\ wire' = wire /\ rcvd' = rcvd
  BY <1>1, <1>2 DEF RPushBackMove, TypeFlow, Values
<1>4. \A k \in DOMAIN queue'[p] :
        \/ k = 1 /\ queue'[p][k] = cur.n
        \/ k - 1 \in DOMAIN queue[p] /\ queue'[p][k] = queue[p][k - 1] /\ k > 1
  BY <1>3, PushBackFacts
<1>5. \A k \in DOMAIN queue'[p] : k \in Nat
  BY <1>3, PushBackFacts
<1>6. \A k, m \in DOMAIN queue'[p] : k < m => k - 1 < m - 1 /\ m # 1
  BY <1>4, <1>5
<1>t. /\ cur.q = p /\ p \in List
      /\ cur' = NoItem /\ pushed' = pushed /\ wire' = wire /\ rcvd' = rcvd
      /\ \A l \in List : l # p => queue'[l] = queue[l]
  BY <1>3
<1> HIDE DEF p
<1> SUFFICES ASSUME NEW l \in List
             PROVE  ReceivedFirst(l)' /\ WireNext(l)' /\ QueueLast(l)'
  BY DEF ChannelOrder
<1>a. ReceivedFirst(l) /\ WireNext(l) /\ QueueLast(l)
  BY DEF ChannelOrder
<1>7. ReceivedFirst(l)'
  <2>1. CASE l = p
    BY <2>1, <1>a, <1>2, <1>4, <1>t DEF ReceivedFirst
  <2>2. CASE l # p
    BY <2>2, <1>a, <1>t DEF ReceivedFirst
  <2>3. QED
    BY <2>1, <2>2
<1>8. WireNext(l)'
  <2>1. CASE l = p
    BY <2>1, <1>a, <1>2, <1>4, <1>t DEF WireNext
  <2>2. CASE l # p
    BY <2>2, <1>a, <1>t DEF WireNext
  <2>3. QED
    BY <2>1, <2>2
<1>9. QueueLast(l)'
  <2>1. CASE l = p
    <3>1. QueueLast(p)
      BY <1>3 DEF ChannelOrder
    <3>2. \A k \in DOMAIN queue'[p] : queue'[p][k] <= pushed[p]
      BY <3>1, <1>2, <1>4, <1>t DEF QueueLast
    <3>3. \A k, m \in DOMAIN queue'[p] : k < m => queue'[p][k] < queue'[p][m]
      BY <3>1, <1>2, <1>4, <1>6, <1>t DEF QueueLast
    <3>4. QED
      BY <2>1, <3>2, <3>3, <1>t DEF QueueLast
  <2>2. CASE l # p
    BY <2>2, <1>a, <1>t DEF QueueLast
  <2>3. QED
    BY <2>1, <2>2
<1>10. QED
  BY <1>7, <1>8, <1>9

\* A publish is the last on the wire.
LEMMA SendKeepsOrder ==
  ASSUME TypeFlow, ChannelOrder, SendMove
  PROVE  ChannelOrder'
<1>1. Values
  BY ValuesFacts
<1>2. cur # NoItem /\ cur \in Item /\ wire \in Seq(Item)
  BY DEF SendMove, TypeFlow
<1>3. \A k \in DOMAIN wire' :
        \/ k \in DOMAIN wire /\ wire'[k] = wire[k] /\ k < Len(wire) + 1
        \/ k = Len(wire) + 1 /\ wire'[k] = cur
  BY <1>2, PushFacts DEF SendMove
<1>4. queue' = queue /\ cur' = cur /\ pushed' = pushed /\ rcvd' = rcvd
  BY DEF SendMove
<1> SUFFICES ASSUME NEW l \in List
             PROVE  ReceivedFirst(l)' /\ WireNext(l)' /\ QueueLast(l)'
  BY DEF ChannelOrder
<1>5. ReceivedFirst(l)'
  BY <1>2, <1>3, <1>4 DEF ChannelOrder, ReceivedFirst
<1>6. WireNext(l)'
  <2>1. /\ WireNext(l) /\ QueueLast(l) /\ Len(wire) \in Nat
        /\ \A k \in DOMAIN wire : k \in Nat /\ wire[k].n \in Nat
        /\ cur.n \in Nat
        /\ \A k \in DOMAIN queue[l] : queue[l][k] \in Nat
    BY <1>1, <1>2 DEF ChannelOrder, Values
  <2>2. QED
    BY <2>1, <1>2, <1>3, <1>4 DEF WireNext, QueueLast
<1>7. QueueLast(l)'
  BY <1>4 DEF ChannelOrder, QueueLast
<1>8. QED
  BY <1>5, <1>6, <1>7

\* The broker gets the first publish on the wire.
LEMMA ReceiveKeepsOrder ==
  ASSUME TypeFlow, ChannelOrder, ReceiveMove
  PROVE  ChannelOrder'
<1> DEFINE h == Head(wire)
<1>1. Values
  BY ValuesFacts
<1>2. wire \in Seq(Item) /\ wire # <<>> /\ wire' = Tail(wire)
  BY DEF ReceiveMove, TypeFlow
<1>3. /\ h \in Item /\ h = wire[1] /\ 1 \in DOMAIN wire
      /\ \A k \in DOMAIN wire' :
           /\ k \in Nat /\ k + 1 \in DOMAIN wire /\ 1 < k + 1
           /\ wire'[k] = wire[k + 1]
  BY <1>2, PopFacts
<1>4. \A k, m \in DOMAIN wire' : k < m => k + 1 < m + 1
  BY <1>3
<1>5. /\ h.q \in List /\ h.n \in Nat \ {0}
      /\ queue' = queue /\ cur' = cur /\ pushed' = pushed
      /\ \A l \in List : l # h.q => rcvd'[l] = rcvd[l]
      /\ rcvd'[h.q] = Append(rcvd[h.q], h.n)
      /\ rcvd[h.q] \in Seq(Nat \ {0})
  BY <1>3, ItemFacts DEF ReceiveMove, TypeFlow
<1>6. \A i \in DOMAIN rcvd'[h.q] :
        \/ i \in DOMAIN rcvd[h.q] /\ rcvd'[h.q][i] = rcvd[h.q][i] /\ i < Len(rcvd[h.q]) + 1
        \/ i = Len(rcvd[h.q]) + 1 /\ rcvd'[h.q][i] = h.n
  BY <1>5, PushFacts
<1> HIDE DEF h
<1> SUFFICES ASSUME NEW l \in List
             PROVE  ReceivedFirst(l)' /\ WireNext(l)' /\ QueueLast(l)'
  BY DEF ChannelOrder
<1>7. ReceivedFirst(l)'
  <2>1. CASE l = h.q
    <3>1. /\ ReceivedFirst(l) /\ WireNext(l) /\ Len(rcvd[l]) \in Nat
          /\ \A i \in DOMAIN rcvd[l] : i \in Nat /\ rcvd[l][i] \in Nat
      BY <1>1 DEF ChannelOrder, Values
    <3>2. h.n <= pushed[l]
      BY <2>1, <3>1, <1>3 DEF WireNext
    <3>3. /\ \A k \in DOMAIN wire' : wire'[k].q = l => h.n <= wire'[k].n
          /\ cur # NoItem /\ cur.q = l => h.n <= cur.n
          /\ \A k \in DOMAIN queue[l] : h.n <= queue[l][k]
      BY <2>1, <3>1, <1>3 DEF WireNext
    <3>4. /\ h.n <= h.n
          /\ \A i \in DOMAIN rcvd[l] : rcvd[l][i] <= h.n
      BY <2>1, <3>1, <1>3, <1>5 DEF ReceivedFirst
    <3>5. \A i \in DOMAIN rcvd'[l] :
            \/ i \in DOMAIN rcvd[l] /\ rcvd'[l][i] = rcvd[l][i] /\ i < Len(rcvd[l]) + 1
            \/ i = Len(rcvd[l]) + 1 /\ rcvd'[l][i] = h.n
      BY <2>1, <1>6
    <3>6. \A i, j \in DOMAIN rcvd'[l] : i < j => rcvd'[l][i] <= rcvd'[l][j]
      BY <3>1, <3>4, <3>5 DEF ReceivedFirst
    <3>7. ASSUME NEW i \in DOMAIN rcvd'[l]
          PROVE  /\ rcvd'[l][i] <= pushed[l]
                 /\ \A k \in DOMAIN wire' : wire'[k].q = l => rcvd'[l][i] <= wire'[k].n
                 /\ cur # NoItem /\ cur.q = l => rcvd'[l][i] <= cur.n
                 /\ \A k \in DOMAIN queue[l] : rcvd'[l][i] <= queue[l][k]
      BY <3>1, <3>2, <3>3, <3>5, <1>3 DEF ReceivedFirst
    <3>8. QED
      BY <3>6, <3>7, <1>5 DEF ReceivedFirst
  <2>2. CASE l # h.q
    BY <2>2, <1>3, <1>5 DEF ChannelOrder, ReceivedFirst
  <2>3. QED
    BY <2>1, <2>2
<1>8. WireNext(l)'
  BY <1>3, <1>4, <1>5 DEF ChannelOrder, WireNext
<1>9. QueueLast(l)'
  BY <1>5 DEF ChannelOrder, QueueLast
<1>10. QED
  BY <1>7, <1>8, <1>9

\* Losing the message in hand, or what is on the wire, disturbs no order.
LEMMA DropKeepsOrder ==
  ASSUME TypeFlow, ChannelOrder, DropMove
  PROVE  ChannelOrder'
<1>1. /\ cur' # NoItem => cur' = cur
      /\ \A k \in DOMAIN wire' : k \in DOMAIN wire /\ wire'[k] = wire[k]
      /\ pushed' = pushed /\ queue' = queue /\ rcvd' = rcvd
  BY DEF DropMove
<1>2. QED
  BY <1>1 DEF ChannelOrder, ReceivedFirst, WireNext, QueueLast

(***************************************************************************)
(* On each list the messages keep the order of their LPush all the way to  *)
(* the broker, through refusals, timeouts, reconnections and deaths.       *)
(***************************************************************************)
THEOREM FlowIsOrdered == Spec => []ChannelOrder
<1>1. Init => ChannelOrder
  <2> SUFFICES ASSUME Init, NEW l \in List
               PROVE  ReceivedFirst(l) /\ WireNext(l) /\ QueueLast(l)
    BY DEF ChannelOrder
  <2>1. /\ DOMAIN wire = {} /\ DOMAIN queue[l] = {} /\ DOMAIN rcvd[l] = {}
        /\ cur = NoItem
    BY DEF Init
  <2>2. QED
    BY <2>1 DEF ReceivedFirst, WireNext, QueueLast
<1>2. TypeOK /\ ChannelOrder /\ [Next]_vars => ChannelOrder'
  <2> SUFFICES ASSUME TypeOK, ChannelOrder, [Next]_vars PROVE ChannelOrder'
    OBVIOUS
  <2>1. TypeFlow /\ Move
    BY NextMoves, TypeParts
  <2>2. QED
    BY <2>1, LPushKeepsOrder, RPopKeepsOrder, RPushBackKeepsOrder,
       SendKeepsOrder, ReceiveKeepsOrder, DropKeepsOrder DEF Move
<1>3. QED
  BY <1>1, <1>2, TypeCorrect, PTL DEF Spec

(***************************************************************************)
(* The forwarder implements the ordered channel: a publish that the broker *)
(* takes is an arrival, an LPush is a send, every other step is invisible. *)
(***************************************************************************)
THEOREM Refinement == Spec => ImplementsChannel
<1>1. Init => Channel!Init
  BY DEF Init, Channel!Init
<1>2. TypeOK /\ ChannelOrder /\ [Next]_vars => [Channel!Next]_(Channel!vars)
  <2> SUFFICES ASSUME TypeOK, ChannelOrder, [Next]_vars
               PROVE  Channel!Next \/ UNCHANGED <<pushed, rcvd>>
    BY DEF Channel!vars
  <2>0. TypeFlow /\ Move
    BY NextMoves, TypeParts
  <2>1. ASSUME NEW l \in List, LPushMove(l) PROVE Channel!Next
    <3>1. Channel!Send(l)
      BY <2>1 DEF LPushMove, LPush, Channel!Send
    <3>2. QED
      BY <3>1 DEF Channel!Next
  <2>2. CASE ReceiveMove
    <3> DEFINE h == Head(wire)
    <3>1. h \in Item /\ h = wire[1] /\ 1 \in DOMAIN wire
      BY <2>0, <2>2, PopFacts DEF ReceiveMove, TypeFlow
    <3>2. h.q \in List /\ h.n \in Nat \ {0}
      BY <3>1, ItemFacts
    <3>3. /\ h.n <= pushed[h.q] /\ pushed[h.q] \in Nat
          /\ \A i \in DOMAIN rcvd[h.q] : rcvd[h.q][i] <= h.n
      BY <2>0, <3>1, <3>2 DEF ChannelOrder, ReceivedFirst, WireNext, TypeFlow
    <3>4. h.n \in 1 .. pushed[h.q]
      BY <3>2, <3>3
    <3>5. Channel!Arrive(h.q, h.n)
      BY <2>2, <3>3, <3>4 DEF ReceiveMove, Channel!Arrive
    <3>6. QED
      BY <3>2, <3>4, <3>5 DEF Channel!Next
  <2>3. CASE RPushBackMove \/ SendMove \/ DropMove \/ \E l \in List : RPopMove(l)
    BY <2>3 DEF RPushBackMove, SendMove, DropMove, RPopMove
  <2>4. QED
    BY <2>0, <2>1, <2>2, <2>3 DEF Move
<1>3. QED
  BY <1>1, <1>2, TypeCorrect, FlowIsOrdered, PTL
  DEF Spec, ImplementsChannel, Channel!Spec

-----------------------------------------------------------------------------
\* The broker has message n of list l.
HasGot(l, n) == \E i \in DOMAIN rcvd[l] : rcvd[l][i] = n

\* A longer sequence has all that was there.
LEMMA AppendKeeps ==
  ASSUME NEW S, NEW q \in Seq(S), NEW e \in S
  PROVE  \A k \in DOMAIN q : k \in DOMAIN Append(q, e) /\ Append(q, e)[k] = q[k]
<1>1. /\ Len(q) \in Nat /\ DOMAIN q = 1 .. Len(q)
      /\ DOMAIN Append(q, e) = 1 .. (Len(q) + 1)
  OBVIOUS
<1>2. QED
  BY <1>1

\* All but the first are there one place earlier.
LEMMA TailKeeps ==
  ASSUME NEW S, NEW q \in Seq(S), q # <<>>
  PROVE  \A k \in DOMAIN q : k # 1 =>
           k - 1 \in DOMAIN Tail(q) /\ Tail(q)[k - 1] = q[k]
<1>1. /\ Len(q) \in Nat \ {0} /\ DOMAIN q = 1 .. Len(q)
      /\ DOMAIN Tail(q) = 1 .. (Len(q) - 1)
      /\ \A j \in 1 .. (Len(q) - 1) : Tail(q)[j] = q[j + 1]
  OBVIOUS
<1>2. QED
  BY <1>1

\* Behind a new first one, all are there one place later.
LEMMA FrontKeeps ==
  ASSUME NEW S, NEW q \in Seq(S), NEW e \in S
  PROVE  \A k \in DOMAIN q :
           k + 1 \in DOMAIN (<<e>> \o q) /\ (<<e>> \o q)[k + 1] = q[k]
<1>1. /\ Len(q) \in Nat /\ DOMAIN q = 1 .. Len(q)
      /\ DOMAIN (<<e>> \o q) = 1 .. (Len(q) + 1)
      /\ \A j \in 1 .. (Len(q) + 1) : j # 1 => (<<e>> \o q)[j] = q[j - 1]
  OBVIOUS
<1>2. ASSUME NEW k \in DOMAIN q PROVE k + 1 \in 1 .. (Len(q) + 1) /\ k + 1 # 1
  BY <1>1
<1>3. QED
  BY <1>1, <1>2

\* The broker keeps what it got.
LEMMA KeepsGot ==
  ASSUME TypeFlow, Move, NEW l \in List, NEW n, HasGot(l, n)
  PROVE  HasGot(l, n)'
<1>1. CASE ReceiveMove
  <2> DEFINE h == Head(wire)
  <2>1. h.q \in List /\ h.n \in Nat \ {0}
    BY <1>1, PopFacts, ItemFacts DEF ReceiveMove, TypeFlow
  <2>a. rcvd[h.q] \in Seq(Nat \ {0})
    BY <2>1 DEF TypeFlow
  <2>2. \A k \in DOMAIN rcvd[h.q] :
          /\ k \in DOMAIN Append(rcvd[h.q], h.n)
          /\ Append(rcvd[h.q], h.n)[k] = rcvd[h.q][k]
    BY <2>1, <2>a, AppendKeeps
  <2>3. PICK i \in DOMAIN rcvd[l] : rcvd[l][i] = n
    BY DEF HasGot
  <2>4. CASE l = h.q
    <3>1. rcvd'[l] = Append(rcvd[h.q], h.n)
      BY <1>1, <2>4 DEF ReceiveMove, TypeFlow
    <3>2. i \in DOMAIN rcvd'[l] /\ rcvd'[l][i] = n
      BY <2>2, <2>3, <2>4, <3>1
    <3>3. QED
      BY <3>2 DEF HasGot
  <2>5. CASE l # h.q
    <3>1. rcvd'[l] = rcvd[l]
      BY <1>1, <2>5 DEF ReceiveMove, TypeFlow
    <3>2. QED
      BY <2>3, <3>1 DEF HasGot
  <2>6. QED
    BY <2>4, <2>5
<1>2. CASE rcvd' = rcvd
  BY <1>2 DEF HasGot
<1>3. QED
  BY <1>1, <1>2 DEF Move, LPushMove, RPopMove, RPushBackMove, SendMove, DropMove

(***************************************************************************)
(* What an acknowledgement means: on a link, the last publish on the wire  *)
(* is the one that is waited for (a new link starts with an empty wire),   *)
(* so once it is acknowledged the broker has the message and nothing of it *)
(* is on its way any more.                                                 *)
(***************************************************************************)
Acks ==
  /\ pc = "wait" /\ link /\ wire # <<>> => wire[Len(wire)] = cur
  /\ pc = "wait" /\ acked => wire = <<>> /\ HasGot(cur.q, cur.n)

\* The broker takes the publish at the head of the wire.
LEMMA ReceiveKeepsAcks ==
  ASSUME TypeOK, Acks, BrokerReceives
  PROVE  Acks'
<1>0. TypeFlow /\ Move
  BY TypeParts DEF BrokerReceives, Move, ReceiveMove
<1>1. /\ wire \in Seq(Item) /\ wire # <<>>
      /\ pc' = pc /\ link' = link /\ cur' = cur /\ wire' = Tail(wire)
      /\ acked' = (acked \/ (pc = "wait" /\ link /\ Len(wire) = 1))
      /\ rcvd' = [rcvd EXCEPT ![Head(wire).q] = Append(@, Head(wire).n)]
  BY <1>0 DEF BrokerReceives, TypeFlow, netVars
<1>2. /\ Len(wire) \in Nat \ {0} /\ Head(wire) = wire[1]
      /\ Len(wire) = 1 => Tail(wire) = <<>>
      /\ Tail(wire) # <<>> =>
           /\ Len(Tail(wire)) \in DOMAIN Tail(wire)
           /\ Tail(wire)[Len(Tail(wire))] = wire[Len(wire)]
  BY <1>1
<1>3. pc = "wait" /\ link /\ wire' # <<>> => wire'[Len(wire')] = cur
  BY <1>1, <1>2 DEF Acks
<1>4. ASSUME pc = "wait", acked' PROVE wire' = <<>> /\ HasGot(cur.q, cur.n)'
  <2>1. ~acked
    BY <1>1, <1>4 DEF Acks
  <2>2. link /\ Len(wire) = 1
    BY <2>1, <1>1, <1>4 DEF TypeOK
  <2>3. Head(wire) = cur /\ wire' = <<>>
    BY <2>2, <1>1, <1>2, <1>4 DEF Acks
  <2>4. cur \in Item /\ cur.q \in List /\ cur.n \in Nat \ {0}
    BY <1>0, <1>4, ItemFacts DEF TypeFlow
  <2>5. rcvd'[cur.q] = Append(rcvd[cur.q], cur.n) /\ rcvd[cur.q] \in Seq(Nat \ {0})
    BY <2>3, <2>4, <1>0, <1>1 DEF TypeFlow
  <2>6. /\ Len(rcvd[cur.q]) + 1 \in DOMAIN rcvd'[cur.q]
        /\ rcvd'[cur.q][Len(rcvd[cur.q]) + 1] = cur.n
    BY <2>4, <2>5
  <2>7. QED
    BY <2>3, <2>6, <1>1 DEF HasGot
<1>5. QED
  BY <1>1, <1>3, <1>4 DEF Acks

\* Every step keeps the meaning of an acknowledgement.
LEMMA StepKeepsAcks ==
  ASSUME TypeOK, Acks, [Next]_vars
  PROVE  Acks'
<1> USE DEF netVars, procVars, histVars
<1>a. pc' # "wait" => Acks'
  BY DEF Acks
<1>b. /\ UNCHANGED <<pc, cur, acked, rcvd>>
      /\ wire' = <<>> \/ (wire' = wire /\ (link' => link))
      => Acks'
  BY DEF Acks, HasGot
<1>1. ASSUME NEW l \in List, Produce(l) PROVE Acks'
  BY <1>1, <1>b DEF Produce
<1>2. ASSUME NEW l \in List, RPop(l) PROVE Acks'
  BY <1>2, <1>a DEF RPop
<1>3. CASE CallbackNotReady \/ PublishDisconnected \/ PublishThrows \/ PublishTimeout
  BY <1>3, <1>a
  DEF CallbackNotReady, PublishDisconnected, PublishThrows, PublishTimeout, RPushBack
<1>4. CASE PublishExit \/ Crash \/ PublishConnected \/ PublishDone
  BY <1>4, <1>a DEF PublishExit, Crash, ProcessEnds, PublishConnected, PublishDone
<1>5. CASE PublishSend
  <2>1. wire \in Seq(Item) /\ cur \in Item
    BY <1>5 DEF PublishSend, TypeOK
  <2>2. wire' = Append(wire, cur) /\ cur' = cur /\ ~acked'
    BY <1>5 DEF PublishSend
  <2>3. wire'[Len(wire')] = cur'
    BY <2>1, <2>2
  <2>4. QED
    BY <2>2, <2>3 DEF Acks
<1>6. CASE PublishHalfOpen
  BY <1>6 DEF PublishHalfOpen, Acks
<1>7. CASE BrokerReceives
  BY <1>7, ReceiveKeepsAcks
<1>8. CASE Connect \/ Reconnect
  BY <1>8, <1>b DEF Connect, Reconnect
<1>9. CASE LinkLost \/ connected \/ connection_lost \/ TimePasses
  BY <1>9, <1>b DEF LinkLost, connected, connection_lost, TimePasses
<1>10. CASE UNCHANGED vars
  BY <1>10, <1>b DEF vars
<1>11. QED
  BY <1>1, <1>2, <1>3, <1>4, <1>5, <1>6, <1>7, <1>8, <1>9, <1>10 DEF Next, Publish

LEMMA AckedIsGot == Spec => []Acks
<1>1. Init => Acks
  BY DEF Init, Acks
<1>2. TypeOK /\ Acks /\ [Next]_vars => Acks'
  BY StepKeepsAcks
<1>3. QED
  BY <1>1, <1>2, TypeCorrect, PTL DEF Spec

-----------------------------------------------------------------------------
\* Only PublishDone confirms a message, the one in hand.
LEMMA NextConfirms ==
  ASSUME [Next]_vars, NEW it \in confirmed', it \notin confirmed
  PROVE  PublishDone /\ it = cur
<1> USE DEF netVars, procVars, histVars
<1>a. confirmed' # confirmed
  OBVIOUS
<1>1. ~UNCHANGED vars
  BY <1>a DEF vars
<1>2. \A l \in List : ~Produce(l) /\ ~RPop(l)
  BY <1>a DEF Produce, RPop
<1>3. ~CallbackNotReady /\ ~PublishDisconnected /\ ~PublishThrows /\ ~PublishTimeout
  BY <1>a
  DEF CallbackNotReady, PublishDisconnected, PublishThrows, PublishTimeout, RPushBack
<1>4. ~PublishExit /\ ~Crash /\ ~PublishConnected /\ ~PublishSend /\ ~PublishHalfOpen
  BY <1>a
  DEF PublishExit, Crash, ProcessEnds, PublishConnected, PublishSend, PublishHalfOpen
<1>5. ~BrokerReceives /\ ~Connect /\ ~LinkLost /\ ~Reconnect
  BY <1>a DEF BrokerReceives, Connect, LinkLost, Reconnect
<1>6. ~connected /\ ~connection_lost /\ ~TimePasses
  BY <1>a DEF connected, connection_lost, TimePasses
<1>7. PublishDone
  BY <1>1, <1>2, <1>3, <1>4, <1>5, <1>6 DEF Next, Publish
<1>8. QED
  BY <1>7 DEF PublishDone

\* A message that is neither on its list nor in hand, and not a new one,
\* comes back to neither.
LEMMA MoveKeepsAway ==
  ASSUME TypeFlow, Move, NEW it \in Item, it.q \in List, it.n \in Nat,
         it.n <= pushed[it.q], cur # it,
         \A i \in DOMAIN queue[it.q] : queue[it.q][i] # it.n
  PROVE  cur' # it /\ \A i \in DOMAIN queue'[it.q] : queue'[it.q][i] # it.n
<1>0. /\ pushed[it.q] \in Nat /\ it # NoItem
      /\ queue \in [List -> Seq(Nat \ {0})]
      /\ it = [q |-> it.q, n |-> it.n]
  BY ItemFacts DEF TypeFlow, Item
<1>1. ASSUME NEW l \in List, LPushMove(l)
      PROVE  cur' # it /\ \A i \in DOMAIN queue'[it.q] : queue'[it.q][i] # it.n
  <2>1. cur' # it
    BY <1>0, <1>1 DEF LPushMove
  <2>2. CASE l = it.q
    <3>1. queue'[it.q] = Append(queue[it.q], pushed[it.q] + 1)
      BY <1>0, <1>1, <2>2 DEF LPushMove, LPush
    <3>2. pushed[it.q] + 1 \in Nat \ {0} /\ pushed[it.q] + 1 # it.n
      BY <1>0
    <3>3. QED
      BY <1>0, <2>1, <3>1, <3>2, PushFacts
  <2>3. CASE l # it.q
    BY <1>0, <1>1, <2>1, <2>3 DEF LPushMove, LPush
  <2>4. QED
    BY <2>2, <2>3
<1>2. ASSUME NEW l \in List, RPopMove(l)
      PROVE  cur' # it /\ \A i \in DOMAIN queue'[it.q] : queue'[it.q][i] # it.n
  <2>1. /\ queue[l] \in Seq(Nat \ {0}) /\ queue[l] # <<>>
        /\ cur' = [q |-> l, n |-> Head(queue[l])]
    BY <1>0, <1>2 DEF RPopMove
  <2>2. CASE l = it.q
    <3>1. queue'[it.q] = Tail(queue[it.q])
      BY <1>0, <1>2, <2>2 DEF RPopMove
    <3>2. Head(queue[it.q]) # it.n
      BY <2>1, <2>2, PopFacts
    <3>3. \A i \in DOMAIN queue'[it.q] : queue'[it.q][i] # it.n
      BY <2>1, <2>2, <3>1, PopFacts
    <3>4. QED
      BY <1>0, <2>1, <2>2, <3>2, <3>3
  <2>3. CASE l # it.q
    BY <1>0, <1>2, <2>1, <2>3 DEF RPopMove
  <2>4. QED
    BY <2>2, <2>3
<1>3. CASE RPushBackMove
  <2>1. cur \in Item /\ cur.q \in List /\ cur.n \in Nat \ {0}
    BY <1>3, ItemFacts DEF RPushBackMove, TypeFlow
  <2>2. cur = [q |-> cur.q, n |-> cur.n]
    BY <2>1 DEF Item
  <2>3. cur' # it
    BY <1>0, <1>3 DEF RPushBackMove
  <2>4. CASE cur.q = it.q
    <3>1. queue'[it.q] = <<cur.n>> \o queue[it.q]
      BY <1>0, <1>3, <2>4 DEF RPushBackMove
    <3>2. cur.n # it.n
      BY <1>0, <2>2, <2>4
    <3>3. QED
      BY <1>0, <2>1, <2>3, <2>4, <3>1, <3>2, PushBackFacts
  <2>5. CASE cur.q # it.q
    BY <1>0, <1>3, <2>1, <2>3, <2>5 DEF RPushBackMove
  <2>6. QED
    BY <2>4, <2>5
<1>4. CASE SendMove \/ ReceiveMove \/ DropMove
  BY <1>0, <1>4 DEF SendMove, ReceiveMove, DropMove
<1>5. QED
  BY <1>1, <1>2, <1>3, <1>4 DEF Move

\* Only the message in hand gets on the wire.
LEMMA MoveKeepsWire ==
  ASSUME TypeFlow, Move, NEW it, cur # it, \A i \in DOMAIN wire : wire[i] # it
  PROVE  \A i \in DOMAIN wire' : wire'[i] # it
<1>1. CASE SendMove
  <2>1. cur \in Item /\ wire' = Append(wire, cur)
    BY <1>1 DEF SendMove, TypeFlow
  <2>2. QED
    BY <2>1, PushFacts DEF TypeFlow
<1>2. CASE ReceiveMove
  BY <1>2, PopFacts DEF ReceiveMove, TypeFlow
<1>3. CASE wire' = wire \/ wire' = <<>>
  BY <1>3
<1>4. QED
  BY <1>1, <1>2, <1>3 DEF Move, LPushMove, RPopMove, RPushBackMove, DropMove

(***************************************************************************)
(* A Publish that returned true is final: what the broker confirmed is     *)
(* with the broker, and neither on its list, nor in hand, nor on the wire, *)
(* for any number of messages, timeouts, reconnections and deaths          *)
(* (M2CMQTTDataSet.cpp:228-238).                                           *)
(***************************************************************************)
THEOREM ConfirmedStaysFinal == Spec => []ConfirmedIsFinal
<1>1. Init => ConfirmedIsFinal
  BY DEF Init, ConfirmedIsFinal
<1>2. TypeOK /\ ChannelOrder /\ Acks /\ ConfirmedIsFinal /\ [Next]_vars
        => ConfirmedIsFinal'
  <2> SUFFICES ASSUME TypeOK, ChannelOrder, Acks, ConfirmedIsFinal, [Next]_vars,
                      NEW it \in confirmed'
               PROVE  /\ HasGot(it.q, it.n)'
                      /\ \A i \in DOMAIN queue'[it.q] : queue'[it.q][i] # it.n
                      /\ \A i \in DOMAIN wire' : wire'[i] # it
                      /\ cur' # it
    BY DEF ConfirmedIsFinal, HasGot
  <2>0. TypeFlow /\ Move /\ Values
    BY NextMoves, TypeParts, ValuesFacts
  <2>1. CASE it \notin confirmed
    <3>1. PublishDone /\ it = cur
      BY <2>1, NextConfirms
    <3>2. /\ pc = "wait" /\ acked /\ cur' = NoItem
          /\ UNCHANGED <<queue, wire, rcvd>>
      BY <3>1 DEF PublishDone
    <3>3. cur \in Item /\ cur # NoItem /\ cur.q \in List
      BY <2>0, <3>2, ItemFacts DEF TypeFlow
    <3>4. wire = <<>> /\ HasGot(cur.q, cur.n)
      BY <3>2 DEF Acks
    <3>5. \A i \in DOMAIN queue[cur.q] : queue[cur.q][i] # cur.n
      BY <2>0, <3>3 DEF ChannelOrder, QueueLast, Values
    <3>6. QED
      BY <3>1, <3>2, <3>3, <3>4, <3>5 DEF HasGot
  <2>2. CASE it \in confirmed
    <3>1. /\ it \in Item /\ it.q \in List /\ it.n \in Nat \ {0} /\ it # NoItem
      BY <2>2, ItemFacts DEF TypeOK
    <3>2. /\ HasGot(it.q, it.n)
          /\ \A i \in DOMAIN queue[it.q] : queue[it.q][i] # it.n
          /\ \A i \in DOMAIN wire : wire[i] # it
          /\ cur # it
      BY <2>2 DEF ConfirmedIsFinal, HasGot
    <3>3. HasGot(it.q, it.n)'
      BY <2>0, <3>1, <3>2, KeepsGot
    <3>4. it.n <= pushed[it.q] /\ pushed[it.q] \in Nat
      BY <2>0, <3>1, <3>2 DEF HasGot, ChannelOrder, ReceivedFirst, Values
    <3>5. cur' # it /\ \A i \in DOMAIN queue'[it.q] : queue'[it.q][i] # it.n
      BY <2>0, <3>1, <3>2, <3>4, MoveKeepsAway
    <3>6. \A i \in DOMAIN wire' : wire'[i] # it
      BY <2>0, <3>2, MoveKeepsWire
    <3>7. QED
      BY <3>3, <3>5, <3>6
  <2>3. QED
    BY <2>1, <2>2
<1>3. QED
  BY <1>1, <1>2, TypeCorrect, FlowIsOrdered, AckedIsGot, PTL DEF Spec

-----------------------------------------------------------------------------
\* What becomes of the message in hand, and what a death takes with it.
Parting ==
  /\ cur # NoItem /\ cur' # cur =>
       RPushBackMove \/ PublishDone \/ cur \in dropped'
  /\ \/ dropped' = dropped /\ deaths' = deaths
     \/ dropped' \in {dropped, dropped \cup {cur}} /\ deaths' = deaths + 1

\* A message leaves the hand to its list, confirmed, or with the process.
LEMMA NextParts ==
  ASSUME TypeOK, [Next]_vars
  PROVE  Parting
<1> USE DEF netVars, procVars, histVars, Parting
<1>1. ASSUME NEW l \in List, Produce(l) PROVE Parting
  BY <1>1 DEF Produce
<1>2. ASSUME NEW l \in List, RPop(l) PROVE Parting
  BY <1>2 DEF RPop, TypeOK
<1>a. pc # "idle" /\ RPushBack => Parting
  BY DEF RPushBack, RPushBackMove
<1>3. CASE CallbackNotReady \/ PublishDisconnected \/ PublishThrows \/ PublishTimeout
  BY <1>3, <1>a
  DEF CallbackNotReady, PublishDisconnected, PublishThrows, PublishTimeout
<1>4. CASE PublishExit \/ Crash
  <2>1. ProcessEnds
    BY <1>4 DEF PublishExit, Crash
  <2>2. QED
    BY <2>1 DEF ProcessEnds
<1>5. CASE PublishDone
  BY <1>5 DEF PublishDone
<1>6. CASE PublishConnected \/ PublishSend \/ PublishHalfOpen \/ BrokerReceives
  BY <1>6 DEF PublishConnected, PublishSend, PublishHalfOpen, BrokerReceives
<1>7. CASE Connect \/ LinkLost \/ Reconnect
  BY <1>7 DEF Connect, LinkLost, Reconnect
<1>8. CASE connected \/ connection_lost \/ TimePasses
  BY <1>8 DEF connected, connection_lost, TimePasses
<1>9. CASE UNCHANGED vars
  BY <1>9 DEF vars
<1>10. QED
  BY <1>1, <1>2, <1>3, <1>4, <1>5, <1>6, <1>7, <1>8, <1>9 DEF Next, Publish

\* Message n is on list l.
Waits(l, n) == \E i \in DOMAIN queue[l] : queue[l][i] = n

\* A message stays on its list until it is taken in hand.
LEMMA WaitsOrTaken ==
  ASSUME TypeFlow, Move, NEW l \in List, NEW n, Waits(l, n)
  PROVE  Waits(l, n)' \/ cur' = [q |-> l, n |-> n]
<1>0. queue \in [List -> Seq(Nat \ {0})] /\ queue[l] \in Seq(Nat \ {0})
  BY DEF TypeFlow
<1>a. PICK i \in DOMAIN queue[l] : queue[l][i] = n
  BY DEF Waits
<1>1. ASSUME NEW x \in List, LPushMove(x) PROVE Waits(l, n)'
  <2>1. CASE x = l
    <3>1. pushed[l] + 1 \in Nat \ {0} /\ queue'[l] = Append(queue[l], pushed[l] + 1)
      BY <1>0, <1>1, <2>1 DEF LPushMove, LPush, TypeFlow
    <3>a. /\ i \in DOMAIN Append(queue[l], pushed[l] + 1)
          /\ Append(queue[l], pushed[l] + 1)[i] = queue[l][i]
      BY <1>0, <1>a, <3>1, AppendKeeps
    <3>2. i \in DOMAIN queue'[l] /\ queue'[l][i] = n
      BY <1>a, <3>1, <3>a
    <3>3. QED
      BY <3>2 DEF Waits
  <2>2. CASE x # l
    <3>1. queue'[l] = queue[l]
      BY <1>0, <1>1, <2>2 DEF LPushMove, LPush
    <3>2. QED
      BY <1>a, <3>1 DEF Waits
  <2>3. QED
    BY <2>1, <2>2
<1>2. ASSUME NEW x \in List, RPopMove(x)
      PROVE  Waits(l, n)' \/ cur' = [q |-> l, n |-> n]
  <2>1. CASE x = l
    <3>1. /\ queue'[l] = Tail(queue[l]) /\ queue[l] # <<>>
          /\ cur' = [q |-> l, n |-> Head(queue[l])]
      BY <1>0, <1>2, <2>1 DEF RPopMove
    <3>2. CASE i = 1
      BY <1>0, <1>a, <3>1, <3>2
    <3>3. CASE i # 1
      <4>1. i - 1 \in DOMAIN Tail(queue[l]) /\ Tail(queue[l])[i - 1] = queue[l][i]
        BY <1>0, <1>a, <3>1, <3>3, TailKeeps
      <4>2. QED
        BY <1>a, <3>1, <4>1 DEF Waits
    <3>4. QED
      BY <3>2, <3>3
  <2>2. CASE x # l
    <3>1. queue'[l] = queue[l]
      BY <1>0, <1>2, <2>2 DEF RPopMove
    <3>2. QED
      BY <1>a, <3>1 DEF Waits
  <2>3. QED
    BY <2>1, <2>2
<1>3. CASE RPushBackMove
  <2>0. cur.q \in List /\ cur.n \in Nat \ {0}
    BY <1>3, ItemFacts DEF RPushBackMove, TypeFlow
  <2>1. CASE cur.q = l
    <3>1. queue'[l] = <<cur.n>> \o queue[l]
      BY <1>0, <1>3, <2>1 DEF RPushBackMove
    <3>2. i + 1 \in DOMAIN queue'[l] /\ queue'[l][i + 1] = n
      BY <1>0, <1>a, <2>0, <3>1, FrontKeeps
    <3>3. QED
      BY <3>2 DEF Waits
  <2>2. CASE cur.q # l
    <3>1. queue'[l] = queue[l]
      BY <1>0, <1>3, <2>0, <2>2 DEF RPushBackMove
    <3>2. QED
      BY <1>a, <3>1 DEF Waits
  <2>3. QED
    BY <2>1, <2>2
<1>4. CASE SendMove \/ ReceiveMove \/ DropMove
  BY <1>4 DEF SendMove, ReceiveMove, DropMove, Waits
<1>5. QED
  BY <1>1, <1>2, <1>3, <1>4 DEF Move

\* A message put back in front is on its list.
LEMMA BackOnList ==
  ASSUME TypeFlow, RPushBackMove, NEW l \in List, NEW n \in Nat \ {0},
         cur = [q |-> l, n |-> n]
  PROVE  Waits(l, n)'
<1>1. queue[l] \in Seq(Nat \ {0}) /\ queue'[l] = <<n>> \o queue[l]
  BY DEF RPushBackMove, TypeFlow
<1>2. 1 \in DOMAIN queue'[l] /\ queue'[l][1] = n
  BY <1>1
<1>3. QED
  BY <1>2 DEF Waits

\* A message that is accounted for stays so.
LEMMA StaysAccounted ==
  ASSUME TypeOK, Acks, [Next]_vars, NEW l \in List, NEW n \in Nat \ {0},
         Accounted(l, n)
  PROVE  Accounted(l, n)'
<1>0. TypeFlow /\ Move /\ Parting
  BY NextMoves, TypeParts, NextParts
<1>1. Accounted(l, n)' <=> \/ Waits(l, n)' \/ cur' = [q |-> l, n |-> n]
                           \/ HasGot(l, n)' \/ [q |-> l, n |-> n] \in dropped'
  BY DEF Accounted, Waits, HasGot
<1>2. CASE Waits(l, n)
  BY <1>0, <1>1, <1>2, WaitsOrTaken
<1>3. CASE cur = [q |-> l, n |-> n]
  <2>1. cur # NoItem /\ cur.q = l /\ cur.n = n
    BY <1>3, ItemFacts
  <2>2. CASE RPushBackMove
    BY <1>0, <1>1, <1>3, <2>2, BackOnList
  <2>3. CASE PublishDone
    <3>1. HasGot(l, n)
      BY <2>1, <2>3 DEF PublishDone, Acks
    <3>2. QED
      BY <1>0, <1>1, <3>1, KeepsGot
  <2>4. CASE cur' = cur \/ cur \in dropped'
    BY <1>1, <1>3, <2>4
  <2>5. QED
    BY <1>0, <2>1, <2>2, <2>3, <2>4 DEF Parting
<1>4. CASE HasGot(l, n)
  BY <1>0, <1>1, <1>4, KeepsGot
<1>5. CASE [q |-> l, n |-> n] \in dropped
  BY <1>0, <1>1, <1>5 DEF Parting
<1>6. QED
  BY <1>2, <1>3, <1>4, <1>5 DEF Accounted, Waits, HasGot

\* A message that was just pushed is on its list.
LEMMA PushedIsThere ==
  ASSUME TypeFlow, Move, NEW l \in List, NEW n \in 1 .. pushed'[l],
         n \notin 1 .. pushed[l]
  PROVE  Waits(l, n)'
<1>0. pushed[l] \in Nat /\ queue[l] \in Seq(Nat \ {0})
  BY DEF TypeFlow
<1>1. pushed'[l] # pushed[l]
  OBVIOUS
<1>2. PICK x \in List : LPushMove(x)
  BY <1>1 DEF Move, RPopMove, RPushBackMove, SendMove, ReceiveMove, DropMove
<1>3. x = l
  BY <1>1, <1>2 DEF LPushMove, LPush, TypeFlow
<1>4. pushed'[l] = pushed[l] + 1 /\ queue'[l] = Append(queue[l], pushed[l] + 1)
  BY <1>2, <1>3 DEF LPushMove, LPush, TypeFlow
<1>5. n = pushed[l] + 1
  BY <1>0, <1>4
<1>6. Len(queue[l]) + 1 \in DOMAIN queue'[l] /\ queue'[l][Len(queue[l]) + 1] = n
  BY <1>0, <1>4, <1>5
<1>7. QED
  BY <1>6 DEF Waits

(***************************************************************************)
(* Nothing vanishes: for any number of messages and faults, a message that *)
(* was pushed is on its list, in hand, with the broker, or was in hand at  *)
(* a death, and there are not more of the last kind than deaths            *)
(* (M2CMQTT.cpp:95-143, M2CMQTTDataSet.cpp:193-239).                       *)
(***************************************************************************)
THEOREM NoMessageVanishes == Spec => []NothingVanishes
<1> DEFINE Inv == NothingVanishes /\ IsFiniteSet(dropped)
<1>1. Init => Inv
  <2> SUFFICES ASSUME Init PROVE Inv
    OBVIOUS
  <2>1. \A l \in List : 1 .. pushed[l] = {}
    BY DEF Init
  <2>2. IsFiniteSet(dropped) /\ Cardinality(dropped) <= deaths
    BY FS_EmptySet DEF Init
  <2>3. QED
    BY <2>1, <2>2 DEF NothingVanishes
<1>2. TypeOK /\ Acks /\ Inv /\ [Next]_vars => Inv'
  <2> SUFFICES ASSUME TypeOK, Acks, Inv, [Next]_vars PROVE Inv'
    OBVIOUS
  <2>0. TypeFlow /\ Move /\ Parting /\ TypeFlow'
    BY NextMoves, TypeParts, NextParts, MoveKeepsType
  <2>1. ASSUME NEW l \in List, NEW n \in 1 .. pushed'[l] PROVE Accounted(l, n)'
    <3>0. pushed'[l] \in Nat /\ n \in Nat \ {0}
      BY <2>0 DEF TypeFlow
    <3>1. CASE n \in 1 .. pushed[l]
      <4>1. Accounted(l, n)
        BY <3>1 DEF NothingVanishes
      <4>2. QED
        BY <3>0, <4>1, StaysAccounted
    <3>2. CASE n \notin 1 .. pushed[l]
      <4>1. Waits(l, n)'
        BY <2>0, <3>2, PushedIsThere
      <4>2. QED
        BY <4>1 DEF Waits, Accounted
    <3>3. QED
      BY <3>1, <3>2
  <2>2. IsFiniteSet(dropped') /\ Cardinality(dropped') <= deaths'
    <3>1. /\ IsFiniteSet(dropped) /\ Cardinality(dropped) \in Nat /\ deaths \in Nat
          /\ Cardinality(dropped) <= deaths
      BY FS_CardinalityType DEF NothingVanishes, TypeOK
    <3>2. /\ IsFiniteSet(dropped \cup {cur})
          /\ \/ Cardinality(dropped \cup {cur}) = Cardinality(dropped)
             \/ Cardinality(dropped \cup {cur}) = Cardinality(dropped) + 1
      BY <3>1, FS_AddElement
    <3>3. CASE dropped' = dropped
      BY <2>0, <3>1, <3>3 DEF Parting
    <3>4. CASE dropped' = dropped \cup {cur} /\ deaths' = deaths + 1
      BY <3>1, <3>2, <3>4
    <3>5. QED
      BY <2>0, <3>3, <3>4 DEF Parting
  <2>3. QED
    BY <2>1, <2>2 DEF NothingVanishes
<1>3. QED
  BY <1>1, <1>2, TypeCorrect, AckedIsGot, PTL DEF Spec
=============================================================================
