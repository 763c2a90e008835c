-------------------------- MODULE Companion_proof --------------------------
(***************************************************************************)
(* Proofs of the safety properties of EventDelivery, for every number of   *)
(* events, every channel capacity and every timeout; and, at the end, of   *)
(* those of Companion, of which EventDelivery is the larger part.          *)
(***************************************************************************)
EXTENDS Companion, SequenceTheorems, FiniteSetTheorems, TLAPS

(* Every press but the one a detection has just overtaken is served next:   *)
(* why PressOvertakenOnce is inductive.                                     *)
Overtaking ==
  /\ overtakes <= 1
  /\ overtakes = 1 /\ pc \notin {"drain", "flush", "stopped"}
       => queue["press"] # <<>> /\ pc # "select"

(* Why DrainInTime is inductive: no flush waits past the deadline. *)
DrainClock == drainLeft >= 0 /\ (pc = "flush" => timer <= drainLeft)

IInv ==
  TypeOK /\ Accounting /\ HeldBounded /\ Overtaking /\ NoLostWakeup /\ DrainClock
-----------------------------------------------------------------------------
(* Which steps change the queues, the ages, what was sent and the counters. *)
LEMMA Frame == [Next]_vars =>
  /\ \/ UNCHANGED queue
     \/ \E k \in Kind : Enqueue(k) \/ Take(k)
     \/ DrainLate \/ DrainStale \/ DrainSend
  /\ UNCHANGED age \/ (\E k \in Kind : Enqueue(k)) \/ Tick
  /\ UNCHANGED sent \/ SendFresh \/ DrainSend
  /\ \/ UNCHANGED counters
     \/ (\E k \in Kind : Enqueue(k)) \/ PublishFailed \/ (AwaitingToken /\ CountPublished)
     \/ GiveUpStale \/ SendStale \/ DrainLate \/ DrainStale
  BY DEF vars, loopVars, ctxVars, brokerVars, counters, Next, LoopStep, Environment,
     PollPress, PollNone, SelectEvent, StartDrain, CheckOpen, Abandon, GiveUpStale, KeepHolding,
     WaitForBroker, Wake, SendStale, SendFresh, SendCur, AckTimeout, DrainNext, Acked, TokenFails,
     PublishFailed, CountPublished, ConnectionUp, OnConnect, ConnectionLost, BrokerReceives,
     Cancel, ListenerStops, Tick, DrainLate, DrainStale, DropFront, DrainSend, Take, Enqueue, Kind

(* Which steps move the loop, and which touch the connection. *)
LEMMA FrameLoop == [Next]_vars =>
  \/ UNCHANGED loopVars
  \/ PollPress \/ (\E k \in Kind : SelectEvent(k))
  \/ NextEvent
  \/ PollNone \/ StartDrain \/ CheckOpen \/ KeepHolding \/ Wake \/ SendFresh
  \/ DrainSend \/ DrainNext \/ Tick
  BY DEF vars, loopVars, Next, LoopStep, Environment,
     Abandon, GiveUpStale, SendStale, AckTimeout, Acked, TokenFails,
     PublishFailed, CountPublished, ConnectionUp, OnConnect, ConnectionLost, BrokerReceives,
     Cancel, ListenerStops, DrainLate, DrainStale, DropFront, Enqueue, Kind

LEMMA FrameQueueLoop == [Next]_vars =>
  \/ UNCHANGED <<queue, loopVars>>
  \/ \E k \in Kind : Enqueue(k) \/ SelectEvent(k)
  \/ PollPress \/ PollNone \/ StartDrain
  \/ NextEvent /\ UNCHANGED queue /\ pc \in {"closed", "hold", "send", "ack", "flush"}
  \/ CheckOpen \/ KeepHolding \/ Wake \/ SendFresh \/ Tick
  \/ DrainLate \/ DrainStale \/ DrainSend \/ DrainNext
  BY DEF vars, loopVars, Next, LoopStep, Environment,
     Abandon, GiveUpStale, SendStale, AckTimeout, Acked, TokenFails, AwaitingToken,
     PublishFailed, CountPublished, ConnectionUp, OnConnect, ConnectionLost, BrokerReceives,
     Cancel, ListenerStops, Kind

LEMMA FrameCount == TypeOK /\ [Next]_vars =>
  \/ UNCHANGED <<queue, cur, counters>>
  \/ \E k \in Kind : Enqueue(k)
  \/ PollPress \/ (\E k \in Kind : SelectEvent(k))
  \/ Abandon
  \/ (GiveUpStale \/ SendStale \/ PublishFailed) /\ cur # NoEvent
  \/ CountPublished /\ cur # NoEvent
  \/ DrainLate \/ DrainStale \/ DrainSend
<1>1. pc \in {"closed", "send", "ack", "flush"} /\ TypeOK => cur # NoEvent
  BY DEF TypeOK, LoopType, Holding
<1> QED BY <1>1 DEF vars, loopVars, counters, Next, LoopStep, Environment,
     PollNone, StartDrain, CheckOpen, KeepHolding, WaitForBroker, Wake, GiveUpStale, SendStale,
     SendFresh, SendCur, AckTimeout, Acked, TokenFails, AwaitingToken, ConnectionUp, OnConnect,
     ConnectionLost, BrokerReceives, Cancel, ListenerStops, DrainNext, Tick, Kind

LEMMA FrameBroker == [Next]_vars =>
  \/ UNCHANGED <<brokerVars, ctxVars>>
  \/ SendFresh \/ DrainSend \/ Wake \/ ConnectionUp \/ OnConnect \/ ConnectionLost
  \/ (\E e \in Event : BrokerReceives(e)) \/ Cancel \/ ListenerStops
  BY DEF vars, ctxVars, brokerVars, Next, LoopStep, Environment,
     PollPress, PollNone, SelectEvent, StartDrain, CheckOpen, Abandon, GiveUpStale, KeepHolding,
     WaitForBroker, SendStale, AckTimeout, DrainNext, Acked, TokenFails, PublishFailed,
     CountPublished, Tick, DrainLate, DrainStale, DropFront, Take, Enqueue, Kind
-----------------------------------------------------------------------------
LEMMA InitType == Init => TypeOK
<1> SUFFICES ASSUME Init PROVE TypeOK
  OBVIOUS
<1> USE DeliveryAssumption DEF Init
<1>1. QueueType
  BY DEF QueueType
<1>2. LoopType
  BY DEF LoopType, PC, Kind, Holding
<1>3. AgeType
  BY DEF AgeType, AgeCap, EventNo
<1>4. BrokerType
  <2>1. announcing \in 0..MaxCallbacks
    OBVIOUS
  <2>2. inflight \subseteq Event /\ arrived \subseteq Event
    OBVIOUS
  <2> QED BY <2>1, <2>2 DEF BrokerType
<1>5. SentType
  BY DEF SentType
<1>6. CountType
  BY DEF CountType
<1> QED BY <1>1, <1>2, <1>3, <1>4, <1>5, <1>6 DEF TypeOK

(* What the steps need of the type invariant. *)
LEMMA TypeFacts == TypeOK =>
  /\ line \in Kind /\ cur.kind \in Kind
  /\ cur # NoEvent => cur \in Event /\ cur.n \in EventNo
  /\ Draining => Front \in Event
  /\ \A k \in Kind : queue[k] \in Seq(EventNo) /\ Len(queue[k]) \in Nat
  /\ \A k \in Kind : queue[k] # <<>> => Head(queue[k]) \in EventNo /\ Tail(queue[k]) \in Seq(EventNo)
                                          /\ Len(Tail(queue[k])) = Len(queue[k]) - 1
<1> SUFFICES ASSUME TypeOK PROVE
    /\ line \in Kind /\ cur.kind \in Kind
    /\ cur # NoEvent => cur \in Event /\ cur.n \in EventNo
    /\ Draining => Front \in Event
    /\ \A k \in Kind : queue[k] \in Seq(EventNo) /\ Len(queue[k]) \in Nat
    /\ \A k \in Kind : queue[k] # <<>> => Head(queue[k]) \in EventNo /\ Tail(queue[k]) \in Seq(EventNo)
                                          /\ Len(Tail(queue[k])) = Len(queue[k]) - 1
  OBVIOUS
<1>1. line \in Kind /\ cur \in Event \cup {NoEvent}
  BY DEF TypeOK, LoopType
<1>2. cur.kind \in Kind
  BY <1>1 DEF Event, NoEvent, Kind
<1>3. cur # NoEvent => cur \in Event /\ cur.n \in EventNo
  BY <1>1 DEF Event, EventNo
<1>4. \A k \in Kind : queue[k] \in Seq(EventNo)
  BY DEF TypeOK, QueueType
<1>5. \A k \in Kind : Len(queue[k]) \in Nat
  BY <1>4
<1>6. \A k \in Kind : queue[k] # <<>> => Head(queue[k]) \in EventNo /\ Tail(queue[k]) \in Seq(EventNo)
                                          /\ Len(Tail(queue[k])) = Len(queue[k]) - 1
  BY <1>4
<1>7. Draining => Front \in Event
  BY <1>1, <1>6 DEF Draining, Front, Event, EventNo
<1> QED BY <1>1, <1>2, <1>3, <1>4, <1>5, <1>6, <1>7

LEMMA QueueTypeStep == TypeOK /\ [Next]_vars => QueueType'
<1> SUFFICES ASSUME TypeOK, [Next]_vars PROVE QueueType'
  OBVIOUS
<1> USE DeliveryAssumption, TypeFacts DEF QueueType
<1>1. QueueType
  BY DEF TypeOK
<1>2. ASSUME NEW k \in Kind, Enqueue(k) PROVE QueueType'
  <2>1. offered[k] + 1 \in EventNo
    BY <1>2 DEF TypeOK, CountType, Enqueue, EventNo, Kind
  <2>2. CASE Queued(k)
    <3>1. Append(queue[k], offered[k] + 1) \in Seq(EventNo)
      BY <2>1
    <3>2. Len(Append(queue[k], offered[k] + 1)) <= QueueCap
      BY <2>1, <2>2 DEF Queued, HasRoom
    <3> QED BY <1>1, <2>2, <3>1, <3>2 DEF Queued
  <2>3. CASE QueueFull(k)
    BY <1>1, <2>3 DEF QueueFull
  <2> QED BY <1>2, <2>2, <2>3 DEF Enqueue
<1>3. ASSUME NEW k \in Kind, queue[k] # <<>>, queue' = [queue EXCEPT ![k] = Tail(@)]
      PROVE QueueType'
  BY <1>1, <1>3
<1>4. ASSUME NEW k \in Kind, Take(k) PROVE QueueType'
  BY <1>3, <1>4 DEF Take
<1>5. CASE DrainLate \/ DrainStale \/ DrainSend
  BY <1>3, <1>5 DEF DrainLate, DrainStale, DrainSend, DropFront, Draining
<1>6. CASE UNCHANGED queue
  BY <1>1, <1>6
<1> QED BY <1>2, <1>4, <1>5, <1>6, Frame

LEMMA AgeTypeStep == TypeOK /\ [Next]_vars => AgeType'
<1> SUFFICES ASSUME TypeOK, [Next]_vars PROVE AgeType'
  OBVIOUS
<1>1. AgeType /\ AgeCap \in Nat
  BY DeliveryAssumption DEF TypeOK, AgeCap
<1>2. ASSUME NEW k \in Kind, Enqueue(k) PROVE AgeType'
  <2>1. ASSUME NEW n, age' = [age EXCEPT ![k][n] = 0] PROVE AgeType'
    <3>1. 0 \in 0..AgeCap
      BY <1>1
    <3>2. [age[k] EXCEPT ![n] = 0] \in [EventNo -> 0..AgeCap]
      BY <1>1, <3>1 DEF AgeType
    <3> QED BY <1>1, <2>1, <3>2 DEF AgeType
  <2> QED BY <1>1, <1>2, <2>1 DEF AgeType, Enqueue, Queued, QueueFull
<1>3. CASE Tick
  <2>1. \A k \in Kind : \A n \in EventNo :
          (IF age[k][n] < AgeCap THEN age[k][n] + 1 ELSE AgeCap) \in 0..AgeCap
    BY <1>1 DEF AgeType
  <2> QED BY <1>3, <2>1 DEF AgeType, Tick, EventNo
<1>4. CASE UNCHANGED age
  BY <1>1, <1>4 DEF AgeType
<1> QED BY <1>2, <1>3, <1>4, Frame

LEMMA SentTypeStep == TypeOK /\ [Next]_vars => SentType'
<1> SUFFICES ASSUME TypeOK, [Next]_vars PROVE SentType'
  OBVIOUS
<1>1. SentType
  BY DEF TypeOK
<1>2. ASSUME NEW e \in Event, Publish(e) PROVE SentType'
  BY <1>1, <1>2 DEF Publish, SentType, Event, EventNo
<1>3. CASE SendFresh
  <2>1. cur # NoEvent
    BY <1>3 DEF SendFresh, TypeOK, LoopType, Holding
  <2> QED BY <1>2, <1>3, <2>1, TypeFacts DEF SendFresh, SendCur
<1>4. CASE DrainSend
  BY <1>2, <1>4, TypeFacts DEF DrainSend
<1>5. CASE UNCHANGED sent
  BY <1>1, <1>5 DEF SentType
<1> QED BY <1>3, <1>4, <1>5, Frame

LEMMA CountTypeStep == TypeOK /\ [Next]_vars => CountType'
<1> SUFFICES ASSUME TypeOK, [Next]_vars PROVE CountType'
  OBVIOUS
<1>1. CountType
  BY DEF TypeOK
<1>2. ASSUME NEW k \in Kind, NEW r \in Reason, Dropping(k, r), UNCHANGED published,
             offered' \in [Kind -> 0..MaxEvents]
      PROVE CountType'
  BY <1>1, <1>2 DEF CountType, Dropping
<1>3. ASSUME NEW k \in Kind, Enqueue(k) PROVE CountType'
  <2>1. offered' \in [Kind -> 0..MaxEvents]
    BY <1>1, <1>3, DeliveryAssumption DEF CountType, Enqueue, Kind
  <2>2. CASE Queued(k)
    BY <1>1, <1>3, <2>1, <2>2 DEF CountType, Enqueue, Queued
  <2>3. CASE QueueFull(k)
    BY <1>2, <1>3, <2>1, <2>3 DEF Enqueue, QueueFull, Reason
  <2> QED BY <1>3, <2>2, <2>3 DEF Enqueue
<1>4. CASE PublishFailed \/ GiveUpStale \/ SendStale
  BY <1>1, <1>2, <1>4, TypeFacts DEF CountType, PublishFailed, GiveUpStale, SendStale, Reason
<1>5. CASE AwaitingToken /\ CountPublished
  BY <1>1, <1>5, TypeFacts DEF CountType, CountPublished
<1>6. CASE DrainLate \/ DrainStale
  BY <1>1, <1>2, <1>6, TypeFacts DEF CountType, DrainLate, DrainStale, DropFront, Reason
<1>7. CASE UNCHANGED counters
  BY <1>1, <1>7 DEF CountType, counters
<1> QED BY <1>3, <1>4, <1>5, <1>6, <1>7, Frame

(* A step that moves the loop within its own places leaves an event in hand *)
(* where one was, and a timer only where the loop waits.                    *)
LEMMA LoopTypeStep == TypeOK /\ [Next]_vars => LoopType'
<1> SUFFICES ASSUME TypeOK, [Next]_vars PROVE LoopType'
  OBVIOUS
<1> USE DEF LoopType, PC, Holding
<1>1. LoopType
  BY DEF TypeOK
<1>2. CASE UNCHANGED loopVars
  BY <1>1, <1>2 DEF loopVars
<1>3. ASSUME NEW k \in Kind, Take(k), pc \in {"poll", "select"} PROVE LoopType'
  <2>1. [kind |-> k, n |-> Head(queue[k])] \in Event
    BY <1>3, TypeFacts DEF Take, Event, EventNo
  <2>2. cur' \in Event /\ cur' # NoEvent
    BY <1>3, <2>1 DEF Take, Event, NoEvent
  <2>3. pc' = "deliver" /\ timer' = 0 /\ UNCHANGED <<line, drainLeft>> /\ overtakes' \in Nat
    BY <1>1, <1>3 DEF Take, Goto
  <2> QED BY <1>1, <2>2, <2>3
<1>4. CASE NextEvent
  BY <1>1, <1>4 DEF NextEvent, Goto
<1>5. CASE PollNone \/ StartDrain \/ CheckOpen \/ Wake \/ DrainNext
  BY <1>1, <1>5, DeliveryAssumption DEF PollNone, StartDrain, CheckOpen, Wake, DrainNext, Goto, Kind
<1>6. CASE KeepHolding \/ SendFresh
  BY <1>1, <1>6, DeliveryAssumption DEF KeepHolding, WaitForBroker, SendFresh, SendCur, Goto
<1>7. CASE DrainSend
  BY <1>1, <1>7, TypeFacts DEF DrainSend, TooLate, Goto, Event, NoEvent
<1>8. CASE Tick
  BY <1>1, <1>8 DEF Tick
<1>9. CASE PollPress \/ \E k \in Kind : SelectEvent(k)
  BY <1>3, <1>9 DEF PollPress, SelectEvent, Kind
<1> QED BY <1>2, <1>4, <1>5, <1>6, <1>7, <1>8, <1>9, FrameLoop

LEMMA BrokerTypeStep == TypeOK /\ [Next]_vars => BrokerType'
<1> SUFFICES ASSUME TypeOK, [Next]_vars PROVE BrokerType'
  OBVIOUS
<1> USE DEF BrokerType
<1>1. BrokerType
  BY DEF TypeOK
<1>2. CASE UNCHANGED <<brokerVars, ctxVars>>
  BY <1>1, <1>2 DEF brokerVars, ctxVars
<1>3. ASSUME NEW e \in Event, Publish(e), UNCHANGED ctxVars PROVE BrokerType'
  BY <1>1, <1>3 DEF Publish, ctxVars
<1>4. CASE SendFresh
  BY <1>3, <1>4, TypeFacts DEF SendFresh, SendCur, TypeOK, LoopType, Holding
<1>5. CASE DrainSend
  BY <1>3, <1>5, TypeFacts DEF DrainSend
<1>6. CASE Wake
  BY <1>1, <1>6 DEF Wake, ctxVars
<1>7. CASE ConnectionUp \/ OnConnect
  <2>1. announcing' \in 0..MaxCallbacks
    BY <1>1, <1>7, DeliveryAssumption DEF ConnectionUp, OnConnect
  <2> QED BY <1>1, <1>7, <2>1 DEF ConnectionUp, OnConnect, ctxVars
<1>10. CASE ConnectionLost
  BY <1>1, <1>10 DEF ConnectionLost, ctxVars
<1>8. ASSUME NEW e \in Event, BrokerReceives(e) PROVE BrokerType'
  BY <1>1, <1>8 DEF BrokerReceives, ctxVars
<1>9. CASE Cancel \/ ListenerStops
  BY <1>1, <1>9 DEF Cancel, ListenerStops, brokerVars
<1> QED BY <1>2, <1>4, <1>5, <1>6, <1>7, <1>8, <1>9, <1>10, FrameBroker

(* The type invariant holds in every reachable state: no channel ever holds *)
(* more than its capacity.                                                  *)
THEOREM TypeCorrect == Spec => []TypeOK
<1>1. TypeOK /\ [Next]_vars => TypeOK'
  BY QueueTypeStep, LoopTypeStep, AgeTypeStep, BrokerTypeStep, SentTypeStep, CountTypeStep DEF TypeOK
<1> QED BY InitType, <1>1, PTL DEF Spec
-----------------------------------------------------------------------------
LEMMA OvertakingStep == TypeOK /\ Overtaking /\ [Next]_vars => Overtaking'
<1> SUFFICES ASSUME TypeOK, Overtaking, [Next]_vars PROVE Overtaking'
  OBVIOUS
<1> USE DEF Overtaking, Kind
<1>1. queue \in [Kind -> Seq(EventNo)] /\ overtakes \in Nat
  BY DEF TypeOK, QueueType, LoopType
<1>2. CASE UNCHANGED <<queue, loopVars>>
  BY <1>2 DEF loopVars
<1>3. ASSUME NEW k \in Kind, Enqueue(k) PROVE Overtaking'
  <2>1. queue["press"] # <<>> => queue'["press"] # <<>>
    BY <1>1, <1>3 DEF Enqueue, Queued, QueueFull
  <2> QED BY <1>3, <2>1 DEF Enqueue, loopVars
<1>4. CASE PollPress
  BY <1>4 DEF PollPress, Take
<1>5. ASSUME NEW k \in Kind, SelectEvent(k) PROVE Overtaking'
  <2>1. overtakes = 0
    BY <1>1, <1>5 DEF SelectEvent
  <2>2. queue'["press"] = queue["press"] \/ k = "press"
    BY <1>1, <1>5 DEF SelectEvent, Take
  <2> QED BY <1>5, <2>1, <2>2 DEF SelectEvent, Take, Goto
<1>6. CASE PollNone \/ StartDrain
  BY <1>6 DEF PollNone, StartDrain, Goto
<1>7. CASE NextEvent /\ UNCHANGED queue /\ pc \in {"closed", "hold", "send", "ack", "flush"}
  BY <1>7 DEF NextEvent, Goto
<1>8. CASE CheckOpen \/ KeepHolding \/ Wake \/ SendFresh \/ Tick
  BY <1>8 DEF CheckOpen, KeepHolding, WaitForBroker, Wake, SendFresh, SendCur, Tick, Goto
<1>9. CASE DrainLate \/ DrainStale
  BY <1>9 DEF DrainLate, DrainStale, DropFront, Draining, loopVars
<1>10. CASE DrainSend \/ DrainNext
  BY <1>10 DEF DrainSend, DrainNext, Draining, Goto
<1> QED BY <1>2, <1>3, <1>4, <1>5, <1>6, <1>7, <1>8, <1>9, <1>10, FrameQueueLoop

LEMMA DrainClockStep == TypeOK /\ DrainClock /\ [Next]_vars => DrainClock'
<1> SUFFICES ASSUME TypeOK, DrainClock, [Next]_vars PROVE DrainClock'
  OBVIOUS
<1> USE DEF DrainClock
<1>1. timer \in Nat /\ drainLeft \in Int /\ DrainTimeout \in Nat
  BY DeliveryAssumption DEF TypeOK, LoopType
<1>2. CASE UNCHANGED loopVars
  BY <1>2 DEF loopVars
<1>3. CASE PollPress \/ \E k \in Kind : SelectEvent(k)
  BY <1>3 DEF PollPress, SelectEvent, Take, Goto
<1>4. CASE NextEvent
  BY <1>4 DEF NextEvent, Goto
<1>5. CASE PollNone \/ StartDrain \/ CheckOpen \/ KeepHolding \/ Wake \/ SendFresh \/ DrainNext
  BY <1>1, <1>5 DEF PollNone, StartDrain, CheckOpen, KeepHolding, WaitForBroker, Wake, SendFresh,
     SendCur, DrainNext, Goto
<1>6. CASE DrainSend
  BY <1>1, <1>6 DEF DrainSend, TooLate, Goto
<1>7. CASE Tick
  BY <1>1, <1>7 DEF Tick
<1> QED BY <1>2, <1>3, <1>4, <1>5, <1>6, <1>7, FrameLoop

LEMMA NoLostWakeupStep == TypeOK /\ NoLostWakeup /\ [Next]_vars => NoLostWakeup'
<1> SUFFICES ASSUME TypeOK, NoLostWakeup, [Next]_vars PROVE NoLostWakeup'
  OBVIOUS
<1> USE DEF NoLostWakeup
<1>1. announcing \in Nat
  BY DeliveryAssumption DEF TypeOK, BrokerType
<1>2. CASE UNCHANGED <<brokerVars, ctxVars>>
  <2>1. UNCHANGED <<open, announcing, reconnected>>
    BY <1>2 DEF brokerVars
  <2>2. CASE UNCHANGED pc \/ pc' \notin {"closed", "hold"}
    BY <2>1, <2>2
  <2>3. CASE CheckOpen
    BY <2>1, <2>3 DEF CheckOpen, Goto
  <2>4. CASE KeepHolding
    BY <2>1, <2>4 DEF KeepHolding, WaitForBroker, Goto
  <2> QED BY <2>2, <2>3, <2>4, FrameLoop DEF loopVars, PollPress, SelectEvent, Take, NextEvent,
     PollNone, StartDrain, Wake, SendFresh, SendCur, DrainSend, DrainNext, Tick, Goto
<1>3. CASE SendFresh \/ DrainSend \/ Wake
  BY <1>3 DEF SendFresh, SendCur, DrainSend, Wake, Goto
<1>4. CASE ConnectionUp \/ OnConnect \/ ConnectionLost
  <2>1. CASE ConnectionUp
    <3>1. announcing' > 0
      BY <1>1, <2>1 DEF ConnectionUp
    <3> QED BY <3>1
  <2>2. CASE OnConnect
    BY <2>2 DEF OnConnect
  <2>3. CASE ConnectionLost
    BY <2>3 DEF ConnectionLost
  <2> QED BY <1>4, <2>1, <2>2, <2>3
<1>5. CASE (\E e \in Event : BrokerReceives(e)) \/ Cancel \/ ListenerStops
  BY <1>5 DEF BrokerReceives, Cancel, ListenerStops, loopVars, brokerVars
<1> QED BY <1>2, <1>3, <1>4, <1>5, FrameBroker

LEMMA HeldBoundedStep == TypeOK /\ HeldBounded /\ [Next]_vars => HeldBounded'
<1> SUFFICES ASSUME TypeOK, HeldBounded, [Next]_vars, pc' = "hold"
             PROVE age'[cur'.kind][cur'.n] + timer' <= MaxEventAge + ReconnectPoll
  BY DEF HeldBounded
<1> USE DeliveryAssumption
<1>1. age \in [Kind -> [EventNo -> 0..AgeCap]] /\ AgeCap \in Nat /\ timer \in Nat
  BY DEF TypeOK, AgeType, LoopType, AgeCap
<1>2. pc \in Holding => cur.kind \in Kind /\ cur.n \in EventNo
  BY TypeFacts DEF TypeOK, LoopType
<1>3. pc = "hold" => age[cur.kind][cur.n] + timer <= MaxEventAge + ReconnectPoll
  BY DEF HeldBounded
<1>4. CASE UNCHANGED <<loopVars, age>>
  BY <1>3, <1>4 DEF loopVars
<1>5. ASSUME NEW k \in Kind, Enqueue(k)
      PROVE age'[cur'.kind][cur'.n] + timer' <= MaxEventAge + ReconnectPoll
  <2>1. cur' = cur /\ timer' = timer /\ pc' = pc
    BY <1>5 DEF Enqueue, loopVars
  <2>2. cur.kind \in Kind /\ cur.n \in EventNo
    BY <1>2, <2>1 DEF Holding
  <2>3. age'[cur.kind][cur.n] <= age[cur.kind][cur.n] /\ age'[cur.kind][cur.n] \in Int
    <3>1. age[cur.kind] \in [EventNo -> 0..AgeCap] /\ age[cur.kind][cur.n] \in 0..AgeCap
      BY <1>1, <2>2
    <3>2. CASE Queued(k)
      <4>1. age'[cur.kind][cur.n] \in {0, age[cur.kind][cur.n]}
        BY <1>1, <2>2, <3>1, <3>2 DEF Queued
      <4> QED BY <1>1, <3>1, <4>1
    <3>3. CASE QueueFull(k)
      BY <1>1, <3>1, <3>3 DEF QueueFull
    <3> QED BY <1>5, <3>2, <3>3 DEF Enqueue
  <2> QED BY <1>1, <1>3, <2>1, <2>2, <2>3
<1>6. CASE KeepHolding
  <2>1. cur' = cur /\ timer' = ReconnectPoll /\ age' = age
    BY <1>6 DEF KeepHolding, WaitForBroker
  <2>2. age[cur.kind][cur.n] \in Int /\ age[cur.kind][cur.n] <= MaxEventAge
    BY <1>1, <1>2, <1>6 DEF KeepHolding, Stale, Holding
  <2> QED BY <2>1, <2>2
<1>7. CASE Tick
  <2>1. cur' = cur /\ timer' = timer - 1 /\ pc' = pc
    BY <1>7 DEF Tick
  <2>2. cur.kind \in Kind /\ cur.n \in EventNo
    BY <1>2, <2>1 DEF Holding
  <2>3. age'[cur.kind][cur.n] =
          IF age[cur.kind][cur.n] < AgeCap THEN age[cur.kind][cur.n] + 1 ELSE AgeCap
    BY <1>7, <2>2 DEF Tick, EventNo
  <2> QED BY <1>1, <1>3, <2>1, <2>2, <2>3
<1>8. CASE UNCHANGED age /\ ~ UNCHANGED loopVars
  BY <1>6, <1>7, <1>8, FrameLoop DEF PollPress, SelectEvent, Take, NextEvent, PollNone,
     StartDrain, CheckOpen, Wake, SendFresh, SendCur, DrainSend, DrainNext, Goto
<1> QED BY <1>4, <1>5, <1>7, <1>8, Frame
-----------------------------------------------------------------------------
Same(j, k) == IF j = k THEN 1 ELSE 0

LEMMA SameType == \A j, k : Same(j, k) \in Int
  BY DEF Same

(* A drop is counted once, and under the kind of the event dropped. *)
LEMMA CountedDrop ==
  ASSUME TypeOK, NEW k \in Kind, NEW r \in Reason, Dropping(k, r), UNCHANGED published,
         NEW j \in Kind
  PROVE  Counted(j)' = Counted(j) + Same(j, k)
<1>1. published[j] \in Nat /\ published'[j] = published[j]
  BY DEF TypeOK, CountType
<1>2. dropped \in [Kind -> [Reason -> Nat]]
  BY DEF TypeOK, CountType
<1>3. \A q \in Reason : dropped[j][q] \in Nat
  BY <1>2
<1>4. \A q \in Reason : dropped'[j][q] = IF j = k /\ q = r THEN dropped[j][q] + 1 ELSE dropped[j][q]
  BY <1>2 DEF Dropping
<1>5. dropped[j]["queue_full"] \in Nat /\ dropped[j]["stale"] \in Nat
      /\ dropped[j]["publish_failed"] \in Nat /\ dropped[j]["shutdown"] \in Nat
  BY <1>3 DEF Reason
<1>6. CASE j # k
  BY <1>1, <1>4, <1>5, <1>6 DEF Counted, Reason, Same
<1>7. CASE j = k
  BY <1>1, <1>4, <1>5, <1>7 DEF Counted, Reason, Same
<1> QED BY <1>6, <1>7

LEMMA CountedTypes ==
  ASSUME TypeOK, NEW j \in Kind
  PROVE  Counted(j) \in Nat /\ Pending(j) \in Nat /\ offered[j] \in Nat /\ InHand(j) \in 0..1
<1>1. published[j] \in Nat /\ offered[j] \in Nat /\ dropped \in [Kind -> [Reason -> Nat]]
  BY DeliveryAssumption DEF TypeOK, CountType
<1>2. \A q \in Reason : dropped[j][q] \in Nat
  BY <1>1
<1>3. Counted(j) \in Nat
  BY <1>1, <1>2 DEF Counted, Reason
<1>4. InHand(j) \in 0..1
  BY DEF InHand
<1>5. Len(queue[j]) \in Nat
  BY TypeFacts
<1> QED BY <1>1, <1>3, <1>4, <1>5 DEF Pending

(* Events that are neither pending nor counted. *)
Lost(j) == offered[j] - Counted(j) - Pending(j)

LEMMA AccountingIsLost ==
  TypeOK => (Accounting <=> \A j \in Kind : Lost(j) >= 0 /\ (~ cancelled => Lost(j) = 0))
  BY CountedTypes DEF Accounting, Lost

LEMMA LostType == TypeOK => \A j \in Kind : Lost(j) \in Int
  BY CountedTypes DEF Lost

LEMMA LostNext ==
  TypeOK' =>
    /\ Accounting' <=> \A j \in Kind : Lost(j)' >= 0 /\ (~ cancelled' => Lost(j)' = 0)
    /\ \A j \in Kind : Lost(j)' \in Int
<1>1. (TypeOK => (Accounting <=> \A j \in Kind : Lost(j) >= 0 /\ (~ cancelled => Lost(j) = 0)))'
  BY AccountingIsLost, PTL
<1>2. (TypeOK => \A j \in Kind : Lost(j) \in Int)'
  BY LostType, PTL
<1> QED BY <1>1, <1>2

(* The only step that loses an event is Abandon, and only after Cancel. *)
LEMMA LostStep ==
  ASSUME TypeOK, TypeOK', [Next]_vars, NEW j \in Kind
  PROVE  \/ Lost(j)' = Lost(j)
         \/ cancelled /\ Lost(j)' >= Lost(j)
<1> USE SameType DEF Lost
<1>1. Counted(j) \in Int /\ Pending(j) \in Int /\ offered[j] \in Int /\ Len(queue[j]) \in Int
      /\ InHand(j) \in Int
  BY TypeFacts, CountedTypes
<1>2. queue \in [Kind -> Seq(EventNo)] /\ offered \in [Kind -> 0..MaxEvents]
  BY DEF TypeOK, QueueType, CountType
<1>15. Pending(j) = Len(queue[j]) + InHand(j) /\ Pending(j)' = Len(queue'[j]) + InHand(j)'
  BY DEF Pending
<1>3. CASE UNCHANGED <<queue, cur, counters>>
  <2>1. Counted(j)' = Counted(j) /\ Pending(j)' = Pending(j) /\ offered' = offered
    BY <1>3 DEF Counted, Pending, InHand, counters
  <2> QED BY <2>1
<1>4. ASSUME NEW k \in Kind, Enqueue(k) PROVE Lost(j)' = Lost(j)
  <2>1. offered'[j] = offered[j] + Same(j, k) /\ cur' = cur /\ published' = published
    BY <1>2, <1>4 DEF Enqueue, loopVars, Same
  <2>2. InHand(j)' = InHand(j)
    BY <2>1 DEF InHand
  <2>3. CASE Queued(k)
    <3>1. Len(queue'[j]) = Len(queue[j]) + Same(j, k)
      <4>1. offered[k] + 1 \in EventNo
        BY <1>2, <1>4, DeliveryAssumption DEF Enqueue, EventNo, Kind
      <4> QED BY <1>2, <2>3, <4>1 DEF Queued, Same
    <3>2. Counted(j)' = Counted(j)
      BY <2>1, <2>3 DEF Queued, Counted
    <3> QED BY <1>1, <1>15, <2>1, <2>2, <3>1, <3>2
  <2>4. CASE QueueFull(k)
    <3>1. Counted(j)' = Counted(j) + Same(j, k)
      BY <2>1, <2>4, CountedDrop DEF QueueFull, Reason
    <3>2. Pending(j)' = Pending(j)
      BY <2>2, <2>4 DEF QueueFull, Pending
    <3> QED BY <1>1, <2>1, <3>1, <3>2
  <2> QED BY <1>4, <2>3, <2>4 DEF Enqueue
<1>5. ASSUME NEW k \in Kind, queue[k] # <<>>, queue' = [queue EXCEPT ![k] = Tail(@)]
      PROVE Len(queue'[j]) = Len(queue[j]) - Same(j, k)
  BY <1>2, <1>5, TypeFacts DEF Same
<1>6. ASSUME NEW k \in Kind, NEW n \in EventNo, cur = NoEvent, cur' = [kind |-> k, n |-> n]
      PROVE InHand(j)' = InHand(j) + Same(j, k)
  BY <1>6 DEF InHand, NoEvent, EventNo, Same
<1>7. ASSUME NEW k \in Kind, Take(k), cur = NoEvent PROVE Lost(j)' = Lost(j)
  <2>1. Len(queue'[j]) = Len(queue[j]) - Same(j, k)
    BY <1>5, <1>7 DEF Take
  <2>2. InHand(j)' = InHand(j) + Same(j, k)
    BY <1>6, <1>7, TypeFacts DEF Take
  <2>3. Counted(j)' = Counted(j) /\ offered' = offered
    BY <1>7 DEF Take, counters, Counted
  <2> QED BY <1>1, <1>15, <2>1, <2>2, <2>3
<1>8. CASE PollPress \/ \E k \in Kind : SelectEvent(k)
  BY <1>7, <1>8 DEF PollPress, SelectEvent, TypeOK, LoopType, Holding, Kind
<1>9. ASSUME NextEvent, UNCHANGED queue, cur # NoEvent
      PROVE Pending(j)' = Pending(j) - Same(j, cur.kind)
  <2>1. InHand(j)' = InHand(j) - Same(j, cur.kind)
    BY <1>9 DEF NextEvent, InHand, Same
  <2> QED BY <1>1, <1>9, <1>15, <2>1
<1>10. CASE Abandon
  <2>1. cur # NoEvent
    BY <1>10 DEF Abandon, TypeOK, LoopType, Holding
  <2>2. Pending(j)' = Pending(j) - Same(j, cur.kind)
    BY <1>9, <1>10, <2>1 DEF Abandon
  <2>3. Counted(j)' = Counted(j) /\ offered' = offered /\ cancelled
    BY <1>10 DEF Abandon, counters, Counted
  <2>4. Same(j, cur.kind) \in 0..1
    BY DEF Same
  <2> QED BY <1>1, <2>2, <2>3, <2>4
<1>11. CASE (GiveUpStale \/ SendStale \/ PublishFailed) /\ cur # NoEvent
  <2>1. Pending(j)' = Pending(j) - Same(j, cur.kind)
    BY <1>9, <1>11 DEF GiveUpStale, SendStale, PublishFailed
  <2>2. Counted(j)' = Counted(j) + Same(j, cur.kind)
    BY <1>11, CountedDrop, TypeFacts DEF GiveUpStale, SendStale, PublishFailed, Reason
  <2> QED BY <1>1, <1>11, <2>1, <2>2 DEF GiveUpStale, SendStale, PublishFailed
<1>12. CASE CountPublished /\ cur # NoEvent
  <2>1. Pending(j)' = Pending(j) - Same(j, cur.kind)
    BY <1>9, <1>12 DEF CountPublished
  <2>2. published'[j] = published[j] + Same(j, cur.kind)
    BY <1>12 DEF CountPublished, TypeOK, CountType, Same
  <2>3. Counted(j)' = Counted(j) + Same(j, cur.kind)
    <3>1. published[j] \in Nat /\ \A q \in Reason : dropped[j][q] \in Nat
      BY DEF TypeOK, CountType
    <3> QED BY <1>12, <2>2, <3>1 DEF CountPublished, Counted, Reason, Same
  <2> QED BY <1>1, <1>12, <2>1, <2>3 DEF CountPublished
<1>13. CASE DrainLate \/ DrainStale
  <2>1. Len(queue'[j]) = Len(queue[j]) - Same(j, line)
    BY <1>5, <1>13, TypeFacts DEF DrainLate, DrainStale, Draining, DropFront
  <2>2. Counted(j)' = Counted(j) + Same(j, line)
    BY <1>13, CountedDrop, TypeFacts DEF DrainLate, DrainStale, DropFront, Reason
  <2>3. InHand(j)' = InHand(j) /\ offered' = offered
    BY <1>13 DEF DrainLate, DrainStale, DropFront, loopVars, InHand
  <2> QED BY <1>1, <1>15, <2>1, <2>2, <2>3
<1>14. CASE DrainSend
  <2>1. cur = NoEvent /\ Front \in Event
    BY <1>14, TypeFacts DEF DrainSend, Draining, TypeOK, LoopType, Holding
  <2>2. Len(queue'[j]) = Len(queue[j]) - Same(j, line)
    BY <1>5, <1>14, TypeFacts DEF DrainSend, Draining
  <2>3. InHand(j)' = InHand(j) + Same(j, line)
    BY <1>6, <1>14, <2>1, TypeFacts DEF DrainSend, Draining, Front
  <2>4. Counted(j)' = Counted(j) /\ offered' = offered
    BY <1>14 DEF DrainSend, counters, Counted
  <2> QED BY <1>1, <1>15, <2>2, <2>3, <2>4
<1> QED BY <1>3, <1>4, <1>8, <1>10, <1>11, <1>12, <1>13, <1>14, FrameCount

LEMMA AccountingStep == TypeOK /\ TypeOK' /\ Accounting /\ [Next]_vars => Accounting'
<1> SUFFICES ASSUME TypeOK, TypeOK', Accounting, [Next]_vars PROVE Accounting'
  OBVIOUS
<1>1. cancelled => cancelled'
  BY FrameBroker DEF ctxVars, SendFresh, SendCur, DrainSend, Wake, ConnectionUp, OnConnect,
     ConnectionLost, BrokerReceives, Cancel, ListenerStops
<1>2. ASSUME NEW j \in Kind PROVE Lost(j)' >= 0 /\ (~ cancelled' => Lost(j)' = 0)
  <2>1. Lost(j) \in Int /\ Lost(j)' \in Int
    BY LostType, LostNext
  <2>2. Lost(j) >= 0 /\ (~ cancelled => Lost(j) = 0)
    BY AccountingIsLost
  <2>3. Lost(j)' = Lost(j) \/ (cancelled /\ Lost(j)' >= Lost(j))
    BY LostStep
  <2> QED BY <1>1, <2>1, <2>2, <2>3
<1> QED BY <1>2, LostNext
-----------------------------------------------------------------------------
LEMMA InitInv == Init => IInv
<1> SUFFICES ASSUME Init PROVE IInv
  OBVIOUS
<1>1. TypeOK
  BY InitType
<1>2. Accounting
  <2>1. \A k \in Kind : Len(queue[k]) = 0 /\ InHand(k) = 0
    BY DEF Init, InHand
  <2> QED BY <2>1 DEF Init, Accounting, Counted, Pending, Reason
<1>3. HeldBounded /\ Overtaking /\ NoLostWakeup /\ DrainClock
  BY DEF Init, HeldBounded, Overtaking, NoLostWakeup, DrainClock
<1> QED BY <1>1, <1>2, <1>3 DEF IInv

LEMMA InvStep == IInv /\ [Next]_vars => IInv'
<1>1. TypeOK /\ [Next]_vars => TypeOK'
  BY QueueTypeStep, LoopTypeStep, AgeTypeStep, BrokerTypeStep, SentTypeStep, CountTypeStep DEF TypeOK
<1> QED BY <1>1, AccountingStep, HeldBoundedStep, OvertakingStep, NoLostWakeupStep, DrainClockStep
        DEF IInv

(* IInv is an invariant of the delivery: what its safety theorems follow from. *)
THEOREM Invariance == Spec => []IInv
  BY InitInv, InvStep, PTL DEF Spec

(* Until shutdown every reported event is queued, in hand or counted once:  *)
(* Enqueue, the settling of deliver and drain keep the metrics in balance.  *)
THEOREM AccountingHolds == Spec => []Accounting
  BY Invariance, PTL DEF IInv

(* A hold ends within maxEventAge and one reconnectPoll of the event's arrival. *)
THEOREM HeldBoundedHolds == Spec => []HeldBounded
  BY Invariance, PTL DEF IInv

(* ProcessQueue's two selects let one detection pass a waiting press, never two. *)
THEOREM PressOvertakenOnceHolds == Spec => []PressOvertakenOnce
<1>1. IInv => PressOvertakenOnce
  BY DEF IInv, Overtaking, PressOvertakenOnce
<1> QED BY <1>1, Invariance, PTL

(* OnConnect's one-slot channel never loses the signal a holding deliver needs. *)
THEOREM NoLostWakeupHolds == Spec => []NoLostWakeup
  BY Invariance, PTL DEF IInv

(* drain passes what is left until its deadline to every wait, so it meets it. *)
THEOREM DrainInTimeHolds == Spec => []DrainInTime
<1>1. IInv => DrainInTime
  BY DEF IInv, DrainClock, DrainInTime
<1> QED BY <1>1, Invariance, PTL

LEMMA NewlySentOne ==
  ASSUME TypeOK, NEW e \in Event, sent' = [sent EXCEPT ![e.kind] = Append(@, e.n)],
         NEW k \in Kind, NEW n \in NewlySent(k)
  PROVE  k = e.kind /\ n = e.n
<1>1. sent \in [Kind -> Seq(EventNo)] /\ e.n \in EventNo /\ e.kind \in Kind
  BY DEF TypeOK, SentType, Event, EventNo
<1>2. PICK i \in (Len(sent[k]) + 1)..Len(sent'[k]) : n = sent'[k][i]
  BY DEF NewlySent
<1>3. sent[k] \in Seq(EventNo) /\ Len(sent[k]) \in Nat
  BY <1>1
<1>4. k = e.kind
  <2>1. SUFFICES ASSUME k # e.kind PROVE FALSE
    OBVIOUS
  <2>2. sent'[k] = sent[k]
    BY <1>1, <2>1
  <2>3. Len(sent'[k]) = Len(sent[k])
    BY <2>2
  <2>4. i \in Int /\ Len(sent[k]) + 1 <= i /\ i <= Len(sent[k])
    BY <1>2, <1>3, <2>3
  <2> QED BY <1>3, <2>4
<1>5. sent'[k] = Append(sent[k], e.n)
  BY <1>1, <1>4
<1>6. Len(sent'[k]) = Len(sent[k]) + 1 /\ sent'[k][Len(sent[k]) + 1] = e.n
  BY <1>1, <1>3, <1>5
<1> QED BY <1>2, <1>3, <1>4, <1>6

(* No event older than maxEventAge is handed to the client: deliver looks at *)
(* the age again after the hold, drain before it flushes.                    *)
THEOREM NoLateSendHolds == Spec => NoLateSend
<1> DEFINE Timely == \A k \in Kind : \A n \in NewlySent(k) : age[k][n] <= MaxEventAge
<1>1. TypeOK /\ [Next]_vars => [Timely]_vars
  <2> SUFFICES ASSUME TypeOK, [Next]_vars, NEW k \in Kind, NEW n \in NewlySent(k)
               PROVE age[k][n] <= MaxEventAge
    OBVIOUS
  <2>1. age \in [Kind -> [EventNo -> 0..AgeCap]] /\ MaxEventAge \in Nat /\ AgeCap \in Nat
    BY DeliveryAssumption DEF TypeOK, AgeType, AgeCap
  <2>2. CASE UNCHANGED sent
    <3>1. Len(sent[k]) \in Nat
      BY DEF TypeOK, SentType
    <3> QED BY <2>2, <3>1 DEF NewlySent
  <2>3. ASSUME NEW e \in Event, Publish(e), ~ Stale(e) PROVE age[k][n] <= MaxEventAge
    <3>1. k = e.kind /\ n = e.n
      BY <2>3, NewlySentOne DEF Publish
    <3>2. e.kind \in Kind /\ e.n \in EventNo
      BY <2>3 DEF Event, EventNo
    <3>3. age[e.kind] \in [EventNo -> 0..AgeCap]
      BY <2>1, <3>2
    <3>4. age[e.kind][e.n] \in 0..AgeCap
      BY <3>2, <3>3
    <3> QED BY <2>1, <2>3, <3>1, <3>4 DEF Stale
  <2>4. CASE SendFresh
    <3>1. cur \in Event
      BY <2>4, TypeFacts DEF SendFresh, TypeOK, LoopType, Holding
    <3> QED BY <2>3, <2>4, <3>1 DEF SendFresh, SendCur
  <2>5. CASE DrainSend
    BY <2>3, <2>5, TypeFacts DEF DrainSend
  <2> QED BY <2>2, <2>4, <2>5, Frame
<1> QED BY <1>1, TypeCorrect, PTL DEF Spec, NoLateSend
-----------------------------------------------------------------------------
(* The line LossyFifo sees: the event in hand, until it is sent, and then   *)
(* the channel.                                                             *)
LEMMA InFront ==
  ASSUME NEW S, NEW x \in S, NEW q \in Seq(S)
  PROVE  /\ <<x>> \o q \in Seq(S) /\ <<x>> \o q # <<>>
         /\ Head(<<x>> \o q) = x /\ Tail(<<x>> \o q) = q
<1>1. <<x>> \in Seq(S) /\ Len(<<x>>) = 1 /\ <<x>>[1] = x
  OBVIOUS
<1>2. /\ <<x>> \o q \in Seq(S)
      /\ Len(<<x>> \o q) = 1 + Len(q)
      /\ \A i \in 1..(1 + Len(q)) : (<<x>> \o q)[i] = IF i <= 1 THEN <<x>>[i] ELSE q[i - 1]
  BY <1>1, ConcatProperties
<1>3. Len(q) \in Nat
  OBVIOUS
<1>4. <<x>> \o q # <<>>
  BY <1>2, <1>3
<1>5. Head(<<x>> \o q) = x
  BY <1>1, <1>2, <1>3, <1>4
<1>6. Tail(<<x>> \o q) = q
  <2>1. /\ Tail(<<x>> \o q) \in Seq(S)
        /\ Len(Tail(<<x>> \o q)) = Len(<<x>> \o q) - 1
        /\ \A i \in 1..Len(Tail(<<x>> \o q)) : Tail(<<x>> \o q)[i] = (<<x>> \o q)[i + 1]
    BY <1>2, <1>4, HeadTailProperties
  <2>2. Len(Tail(<<x>> \o q)) = Len(q)
    BY <1>2, <1>3, <2>1
  <2>3. \A i \in 1..Len(q) : Tail(<<x>> \o q)[i] = q[i]
    BY <1>2, <1>3, <2>1, <2>2
  <2> QED BY <2>1, <2>2, <2>3, SeqEqual
<1> QED BY <1>2, <1>4, <1>5, <1>6

LEMMA HeadAgain ==
  ASSUME NEW S, NEW q \in Seq(S), q # <<>>
  PROVE  <<Head(q)>> \o Tail(q) = q
<1>1. Len(q) \in Nat \ {0} /\ q[1] \in S /\ Head(q) = q[1]
  OBVIOUS
<1>2. SubSeq(q, 1, Len(q)) = <<q[1]>> \o SubSeq(q, 1 + 1, Len(q))
  BY <1>1, SubSeqRecursiveFirst
<1> QED BY <1>1, <1>2, SubSeqFull, TailIsSubSeq

LEMMA AppendBehind ==
  ASSUME NEW S, NEW p \in Seq(S), NEW q \in Seq(S), NEW e \in S
  PROVE  p \o Append(q, e) = Append(p \o q, e)
<1>1. Append(q, e) = q \o <<e>> /\ <<e>> \in Seq(S) /\ p \o q \in Seq(S)
  OBVIOUS
<1>2. Append(p \o q, e) = (p \o q) \o <<e>>
  BY <1>1
<1> QED BY <1>1, <1>2, ConcatAssociative

LEMMA WaitingType == TypeOK => Waiting \in [Kind -> Seq(EventNo)]
<1> SUFFICES ASSUME TypeOK, NEW k \in Kind
             PROVE  (IF pc \in BeforeSend /\ cur.kind = k THEN <<cur.n>> ELSE <<>>) \o queue[k]
                      \in Seq(EventNo)
  BY DEF Waiting
<1>1. pc \in BeforeSend => cur.n \in EventNo
  BY TypeFacts DEF TypeOK, LoopType, BeforeSend, Holding
<1>2. queue[k] \in Seq(EventNo)
  BY TypeFacts
<1>3. CASE pc \in BeforeSend /\ cur.kind = k
  <2>1. <<cur.n>> \o queue[k] \in Seq(EventNo)
    BY <1>1, <1>2, <1>3, InFront
  <2> QED BY <1>3, <2>1
<1>4. CASE ~ (pc \in BeforeSend /\ cur.kind = k)
  <2>1. <<>> \o queue[k] = queue[k]
    BY <1>2, ConcatEmptySeq
  <2> QED BY <1>2, <1>4, <2>1
<1> QED BY <1>3, <1>4

(* What Waiting is, for each kind, before and after a step. *)
LEMMA WaitingIs ==
  TypeOK => \A k \in Kind :
    /\ pc \in BeforeSend /\ cur.kind = k =>
         /\ Waiting[k] = <<cur.n>> \o queue[k]
         /\ Waiting[k] # <<>> /\ Head(Waiting[k]) = cur.n /\ Tail(Waiting[k]) = queue[k]
    /\ ~ (pc \in BeforeSend /\ cur.kind = k) => Waiting[k] = queue[k]
<1> SUFFICES ASSUME TypeOK, NEW k \in Kind
    PROVE
    /\ pc \in BeforeSend /\ cur.kind = k =>
         /\ Waiting[k] = <<cur.n>> \o queue[k]
         /\ Waiting[k] # <<>> /\ Head(Waiting[k]) = cur.n /\ Tail(Waiting[k]) = queue[k]
    /\ ~ (pc \in BeforeSend /\ cur.kind = k) => Waiting[k] = queue[k]
  OBVIOUS
<1>1. queue[k] \in Seq(EventNo)
  BY TypeFacts
<1>2. pc \in BeforeSend => cur.n \in EventNo
  BY TypeFacts DEF TypeOK, LoopType, BeforeSend, Holding
<1>3. ASSUME pc \in BeforeSend, cur.kind = k
      PROVE  /\ Waiting[k] = <<cur.n>> \o queue[k]
             /\ Waiting[k] # <<>> /\ Head(Waiting[k]) = cur.n /\ Tail(Waiting[k]) = queue[k]
  <2>1. Waiting[k] = <<cur.n>> \o queue[k]
    BY <1>3 DEF Waiting
  <2> QED BY <1>1, <1>2, <1>3, <2>1, InFront
<1>4. ASSUME ~ (pc \in BeforeSend /\ cur.kind = k) PROVE Waiting[k] = queue[k]
  <2>1. Waiting[k] = <<>> \o queue[k]
    BY <1>4 DEF Waiting
  <2> QED BY <1>1, <2>1, ConcatEmptySeq
<1> QED BY <1>3, <1>4

LEMMA WaitingNext ==
  TypeOK' => \A k \in Kind :
    /\ pc' \in BeforeSend /\ cur'.kind = k => Waiting'[k] = <<cur'.n>> \o queue'[k]
    /\ ~ (pc' \in BeforeSend /\ cur'.kind = k) => Waiting'[k] = queue'[k]
<1>1. (TypeOK => \A k \in Kind :
    /\ pc \in BeforeSend /\ cur.kind = k =>
         /\ Waiting[k] = <<cur.n>> \o queue[k]
         /\ Waiting[k] # <<>> /\ Head(Waiting[k]) = cur.n /\ Tail(Waiting[k]) = queue[k]
    /\ ~ (pc \in BeforeSend /\ cur.kind = k) => Waiting[k] = queue[k])'
  BY WaitingIs, PTL
<1> QED BY <1>1

LEMMA SameLine ==
  ASSUME TypeOK, TypeOK', UNCHANGED <<offered, sent>>, \A j \in Kind : Waiting'[j] = Waiting[j]
  PROVE  UNCHANGED Line!vars
<1>1. Waiting \in [Kind -> Seq(EventNo)]
  BY WaitingType
<1>2. (TypeOK => Waiting \in [Kind -> Seq(EventNo)])'
  BY WaitingType, PTL
<1>3. Waiting' = Waiting
  BY <1>1, <1>2
<1> QED BY <1>3 DEF Line!vars

LEMMA OneLine ==
  ASSUME TypeOK, TypeOK', NEW k \in Kind, \A j \in Kind : j # k => Waiting'[j] = Waiting[j]
  PROVE  Waiting' = [Waiting EXCEPT ![k] = Waiting'[k]]
<1>1. Waiting \in [Kind -> Seq(EventNo)]
  BY WaitingType
<1>2. (TypeOK => Waiting \in [Kind -> Seq(EventNo)])'
  BY WaitingType, PTL
<1> QED BY <1>1, <1>2

LEMMA FrameLine == [Next]_vars =>
  \/ UNCHANGED <<queue, pc, cur, offered, sent>>
  \/ \E k \in Kind : Enqueue(k) \/ SelectEvent(k)
  \/ PollPress
  \/ pc \in {"poll", "select", "drain"} /\ pc' \in {"select", "drain", "stopped"}
       /\ UNCHANGED <<queue, cur, offered, sent>>
  \/ pc \in BeforeSend /\ pc' \in BeforeSend /\ UNCHANGED <<queue, cur, offered, sent>>
  \/ pc \in BeforeSend /\ pc' = "poll" /\ cur' = NoEvent /\ UNCHANGED <<queue, offered, sent>>
  \/ AwaitingToken /\ pc' \in {"poll", "drain"} /\ cur' = NoEvent /\ UNCHANGED <<queue, offered, sent>>
  \/ SendFresh \/ DrainLate \/ DrainStale \/ DrainSend
  BY DEF vars, loopVars, counters, Next, LoopStep, Environment, BeforeSend,
     PollNone, StartDrain, CheckOpen, Abandon, GiveUpStale, KeepHolding, WaitForBroker, Wake,
     SendStale, AckTimeout, DrainNext, Acked, TokenFails, AwaitingToken, PublishFailed,
     CountPublished, NextEvent, Goto, ConnectionUp, OnConnect, ConnectionLost, BrokerReceives,
     Cancel, ListenerStops, Tick

LEMMA RefinementStep ==
  ASSUME TypeOK, TypeOK', [Next]_vars
  PROVE  [Line!Next]_(Line!vars)
<1> USE WaitingIs, WaitingNext
<1>1. \A k \in Kind : queue[k] \in Seq(EventNo)
  BY TypeFacts
<1>2. CASE UNCHANGED <<queue, pc, cur, offered, sent>>
  BY <1>2, SameLine
<1>3. ASSUME NEW k \in Kind, Enqueue(k) PROVE Line!Next
  <2>1. pc' = pc /\ cur' = cur /\ sent' = sent
    BY <1>3 DEF Enqueue, loopVars
  <2>2. Line!Give(k)
    BY <1>3 DEF Enqueue, Line!Give
  <2>3. CASE Queued(k)
    <3>1. offered[k] + 1 \in EventNo
      BY <1>3, DeliveryAssumption DEF TypeOK, CountType, Enqueue, EventNo, Kind
    <3>2. queue' = [queue EXCEPT ![k] = Append(queue[k], offered[k] + 1)]
      BY <2>3 DEF Queued
    <3>3. queue'[k] = Append(queue[k], offered[k] + 1) /\ \A j \in Kind : j # k => queue'[j] = queue[j]
      BY <3>2 DEF TypeOK, QueueType
    <3>4. \A j \in Kind : j # k => Waiting'[j] = Waiting[j]
      BY <2>1, <3>3
    <3>5. Waiting'[k] = Append(Waiting[k], offered[k] + 1)
      <4>1. CASE pc \in BeforeSend /\ cur.kind = k
        <5>1. <<cur.n>> \in Seq(EventNo)
          BY <4>1, TypeFacts DEF TypeOK, LoopType, BeforeSend, Holding
        <5>2. <<cur.n>> \o Append(queue[k], offered[k] + 1) = Append(<<cur.n>> \o queue[k], offered[k] + 1)
          BY <1>1, <3>1, <5>1, AppendBehind
        <5>3. Waiting'[k] = <<cur.n>> \o queue'[k] /\ Waiting[k] = <<cur.n>> \o queue[k]
          BY <2>1, <4>1
        <5> QED BY <3>3, <5>2, <5>3
      <4>2. CASE ~ (pc \in BeforeSend /\ cur.kind = k)
        BY <2>1, <3>3, <4>2
      <4> QED BY <4>1, <4>2
    <3>6. Waiting' = [Waiting EXCEPT ![k] = Append(Waiting[k], offered[k] + 1)]
      BY <3>4, <3>5, OneLine
    <3> QED BY <2>1, <2>2, <3>6 DEF Line!Next, Line!Accept
  <2>4. CASE QueueFull(k)
    <3>1. Waiting' = Waiting
      BY <2>1, <2>4 DEF QueueFull, Waiting
    <3> QED BY <2>1, <2>2, <3>1 DEF Line!Next, Line!Refuse
  <2> QED BY <1>3, <2>3, <2>4 DEF Enqueue
<1>4. ASSUME NEW k \in Kind, Take(k), pc \in {"poll", "select"} PROVE UNCHANGED Line!vars
  <2>1. /\ queue[k] # <<>> /\ queue'[k] = Tail(queue[k])
        /\ \A j \in Kind : j # k => queue'[j] = queue[j]
        /\ cur'.kind = k /\ cur'.n = Head(queue[k]) /\ pc' = "deliver"
    BY <1>4 DEF Take, Goto, TypeOK, QueueType
  <2>2. Waiting'[k] = Waiting[k]
    <3>1. Waiting'[k] = <<Head(queue[k])>> \o Tail(queue[k])
      BY <2>1 DEF BeforeSend
    <3>2. Waiting[k] = queue[k]
      BY <1>4 DEF BeforeSend
    <3>3. <<Head(queue[k])>> \o Tail(queue[k]) = queue[k]
      BY <1>1, <2>1, HeadAgain
    <3> QED BY <3>1, <3>2, <3>3
  <2>3. \A j \in Kind : j # k => Waiting'[j] = Waiting[j]
    BY <1>4, <2>1 DEF BeforeSend
  <2>4. UNCHANGED <<offered, sent>>
    BY <1>4 DEF Take, counters
  <2> QED BY <2>2, <2>3, <2>4, SameLine
<1>5. CASE PollPress \/ \E k \in Kind : SelectEvent(k)
  BY <1>4, <1>5 DEF PollPress, SelectEvent, Kind
<1>6. CASE /\ pc \in {"poll", "select", "drain"} /\ pc' \in {"select", "drain", "stopped"}
           /\ UNCHANGED <<queue, cur, offered, sent>>
  BY <1>6, SameLine DEF BeforeSend
<1>7. CASE pc \in BeforeSend /\ pc' \in BeforeSend /\ UNCHANGED <<queue, cur, offered, sent>>
  BY <1>7, SameLine
<1>8. ASSUME NEW k \in Kind, Waiting[k] # <<>>, Waiting'[k] = Tail(Waiting[k]),
             \A j \in Kind : j # k => Waiting'[j] = Waiting[j], offered' = offered
      PROVE  /\ sent' = sent => Line!Next
             /\ sent' = [sent EXCEPT ![k] = Append(@, Head(Waiting[k]))] => Line!Next
  <2>1. Waiting' = [Waiting EXCEPT ![k] = Tail(Waiting[k])]
    BY <1>8, OneLine
  <2> QED BY <1>8, <2>1 DEF Line!Next, Line!Send, Line!Lose
<1>9. CASE pc \in BeforeSend /\ pc' = "poll" /\ cur' = NoEvent /\ UNCHANGED <<queue, offered, sent>>
  <2>1. cur.kind \in Kind
    BY TypeFacts
  <2>2. Waiting'[cur.kind] = Tail(Waiting[cur.kind]) /\ Waiting[cur.kind] # <<>>
    BY <1>9, <2>1 DEF BeforeSend
  <2>3. \A j \in Kind : j # cur.kind => Waiting'[j] = Waiting[j]
    BY <1>9 DEF BeforeSend
  <2> QED BY <1>8, <1>9, <2>1, <2>2, <2>3
<1>10. CASE AwaitingToken /\ pc' \in {"poll", "drain"} /\ cur' = NoEvent /\ UNCHANGED <<queue, offered, sent>>
  BY <1>10, SameLine DEF AwaitingToken, BeforeSend
<1>11. CASE SendFresh
  <2>1. /\ pc \in BeforeSend /\ pc' = "ack" /\ UNCHANGED <<queue, cur, offered>>
        /\ sent' = [sent EXCEPT ![cur.kind] = Append(@, cur.n)]
    BY <1>11 DEF SendFresh, SendCur, Publish, Goto, BeforeSend, counters
  <2>2. cur.kind \in Kind
    BY TypeFacts
  <2>3. Waiting'[cur.kind] = Tail(Waiting[cur.kind]) /\ Waiting[cur.kind] # <<>>
        /\ Head(Waiting[cur.kind]) = cur.n
    BY <2>1, <2>2 DEF BeforeSend
  <2>4. \A j \in Kind : j # cur.kind => Waiting'[j] = Waiting[j]
    BY <2>1 DEF BeforeSend
  <2> QED BY <1>8, <2>1, <2>2, <2>3, <2>4
<1>12. ASSUME Draining, queue' = [queue EXCEPT ![line] = Tail(@)], pc' \in {"drain", "flush"}
       PROVE  /\ Waiting[line] # <<>> /\ Waiting'[line] = Tail(Waiting[line])
              /\ \A j \in Kind : j # line => Waiting'[j] = Waiting[j]
              /\ Head(Waiting[line]) = Front.n /\ line = Front.kind
  <2>1. line \in Kind
    BY TypeFacts
  <2>2. queue'[line] = Tail(queue[line]) /\ \A j \in Kind : j # line => queue'[j] = queue[j]
    BY <1>12, <2>1 DEF TypeOK, QueueType
  <2> QED BY <1>12, <2>1, <2>2 DEF Draining, Front, BeforeSend
<1>13. CASE DrainLate \/ DrainStale
  <2>1. /\ Draining /\ queue' = [queue EXCEPT ![line] = Tail(@)] /\ pc' = "drain"
        /\ UNCHANGED <<offered, sent>>
    BY <1>13 DEF DrainLate, DrainStale, DropFront, Draining, loopVars
  <2> QED BY <1>8, <1>12, <2>1, TypeFacts
<1>14. CASE DrainSend
  <2>1. /\ Draining /\ queue' = [queue EXCEPT ![line] = Tail(@)] /\ pc' = "flush" /\ offered' = offered
        /\ sent' = [sent EXCEPT ![Front.kind] = Append(@, Front.n)]
    BY <1>14 DEF DrainSend, Publish, Goto, counters
  <2> QED BY <1>8, <1>12, <2>1, TypeFacts
<1> QED BY <1>2, <1>3, <1>5, <1>6, <1>7, <1>9, <1>10, <1>11, <1>13, <1>14, FrameLine

LEMMA RefinementInit == Init => Line!Init
<1> SUFFICES ASSUME Init PROVE Line!Init
  OBVIOUS
<1>1. Waiting = [k \in Kind |-> <<>>]
  <2>1. pc \notin BeforeSend /\ queue = [k \in Kind |-> <<>>]
    BY DEF Init, BeforeSend
  <2>2. \A k \in Kind : <<>> \o queue[k] = <<>>
    BY <2>1, ConcatEmptySeq, EmptySeq
  <2> QED BY <2>1, <2>2 DEF Waiting
<1> QED BY <1>1 DEF Line!Init, Init

(* The event queues are two lossy lines: the refinement mapping puts the      *)
(* event in hand, until it is sent, in front of its channel.                  *)
THEOREM Refinement == Spec => ImplementsLossyFifo
<1>1. TypeOK /\ TypeOK' /\ [Next]_vars => [Line!Next]_(Line!vars)
  BY RefinementStep
<1> QED BY <1>1, RefinementInit, TypeCorrect, PTL DEF Spec, Line!Spec, ImplementsLossyFifo

-----------------------------------------------------------------------------
(* What a lossy line guarantees: its lines are in order, and stay so.       *)
LineInv == Line!TypeOK /\ Line!LineInOrder

LEMMA LineInit == Line!Init => LineInv
  BY DEF Line!Init, LineInv, Line!TypeOK, Line!LineInOrder, Line!Increasing

LEMMA TailIncreasing ==
  ASSUME NEW s \in Seq(Nat), s # <<>>, Line!Increasing(s)
  PROVE  /\ Tail(s) \in Seq(Nat) /\ Line!Increasing(Tail(s))
         /\ Head(s) \in Nat /\ Head(s) = s[1] /\ Len(s) \in Nat \ {0} /\ Len(Tail(s)) = Len(s) - 1
         /\ \A j \in 1..Len(Tail(s)) : Tail(s)[j] = s[j + 1] /\ j + 1 \in 1..Len(s)
                                       /\ Head(s) < Tail(s)[j]
<1>1. Len(s) \in Nat \ {0} /\ Len(Tail(s)) = Len(s) - 1 /\ Tail(s) \in Seq(Nat)
      /\ Head(s) \in Nat /\ Head(s) = s[1]
  OBVIOUS
<1>2. \A j \in 1..Len(Tail(s)) : Tail(s)[j] = s[j + 1] /\ j + 1 \in 1..Len(s)
  BY <1>1
<1>3. \A j \in 1..Len(Tail(s)) : Head(s) < Tail(s)[j]
  BY <1>1, <1>2 DEF Line!Increasing
<1>4. Line!Increasing(Tail(s))
  <2> SUFFICES ASSUME NEW i \in 1..Len(Tail(s)), NEW j \in 1..Len(Tail(s)), i < j
               PROVE Tail(s)[i] < Tail(s)[j]
    BY DEF Line!Increasing
  <2>1. i + 1 < j + 1
    BY <1>1
  <2> QED BY <1>2, <2>1 DEF Line!Increasing
<1> QED BY <1>1, <1>2, <1>3, <1>4

LEMMA AppendIncreasing ==
  ASSUME NEW s \in Seq(Nat), Line!Increasing(s), NEW e \in Nat, \A i \in 1..Len(s) : s[i] < e
  PROVE  /\ Append(s, e) \in Seq(Nat) /\ Line!Increasing(Append(s, e))
         /\ \A i \in 1..Len(Append(s, e)) : IF i \in 1..Len(s) THEN Append(s, e)[i] = s[i]
                                                                ELSE Append(s, e)[i] = e
<1>1. Append(s, e) \in Seq(Nat) /\ Len(Append(s, e)) = Len(s) + 1 /\ Len(s) \in Nat
  OBVIOUS
<1>2. \A i \in 1..Len(Append(s, e)) : IF i \in 1..Len(s) THEN Append(s, e)[i] = s[i]
                                                        ELSE Append(s, e)[i] = e
  BY <1>1
<1>3. Line!Increasing(Append(s, e))
  <2> SUFFICES ASSUME NEW i \in 1..Len(Append(s, e)), NEW j \in 1..Len(Append(s, e)), i < j
               PROVE Append(s, e)[i] < Append(s, e)[j]
    BY DEF Line!Increasing
  <2>1. i \in 1..Len(s) /\ (j \in 1..Len(s) \/ j = Len(s) + 1)
    BY <1>1
  <2> QED BY <1>1, <1>2, <2>1 DEF Line!Increasing
<1> QED BY <1>1, <1>2, <1>3

LEMMA LineStep == LineInv /\ [Line!Next]_(Line!vars) => LineInv'
<1> SUFFICES ASSUME LineInv, [Line!Next]_(Line!vars) PROVE LineInv'
  OBVIOUS
<1> DEFINE Ordered(g, s, w) ==
      /\ Line!Increasing(s) /\ Line!Increasing(w)
      /\ \A i \in 1..Len(s), j \in 1..Len(w) : s[i] < w[j]
      /\ \A i \in 1..Len(s) : s[i] <= g
      /\ \A j \in 1..Len(w) : w[j] <= g
<1>1. /\ offered \in [Kind -> Nat] /\ Waiting \in [Kind -> Seq(Nat)] /\ sent \in [Kind -> Seq(Nat)]
      /\ \A k \in Kind : Ordered(offered[k], sent[k], Waiting[k])
  BY DEF LineInv, Line!TypeOK, Line!LineInOrder
<1>2. ASSUME NEW k \in Kind, NEW g \in Nat, NEW s \in Seq(Nat), NEW w \in Seq(Nat), Ordered(g, s, w),
             offered' = [offered EXCEPT ![k] = g], sent' = [sent EXCEPT ![k] = s],
             Waiting' = [Waiting EXCEPT ![k] = w]
      PROVE LineInv'
  <2>1. Line!TypeOK'
    BY <1>1, <1>2 DEF Line!TypeOK
  <2>2. ASSUME NEW j \in Kind PROVE Ordered(offered'[j], sent'[j], Waiting'[j])
    <3>1. CASE j = k
      <4>1. offered'[j] = g /\ sent'[j] = s /\ Waiting'[j] = w
        BY <1>1, <1>2, <3>1
      <4> QED BY <1>2, <4>1
    <3>2. CASE j # k
      <4>1. offered'[j] = offered[j] /\ sent'[j] = sent[j] /\ Waiting'[j] = Waiting[j]
        BY <1>1, <1>2, <3>2
      <4> QED BY <1>1, <4>1
    <3> QED BY <3>1, <3>2
  <2> QED BY <2>1, <2>2 DEF LineInv, Line!LineInOrder
<1>3. ASSUME NEW k \in Kind
      PROVE  /\ offered[k] \in Nat /\ Waiting[k] \in Seq(Nat) /\ sent[k] \in Seq(Nat)
             /\ Line!Increasing(sent[k]) /\ Line!Increasing(Waiting[k])
             /\ \A i \in 1..Len(sent[k]), j \in 1..Len(Waiting[k]) : sent[k][i] < Waiting[k][j]
             /\ \A i \in 1..Len(sent[k]) : sent[k][i] <= offered[k] /\ sent[k][i] \in Nat
             /\ \A j \in 1..Len(Waiting[k]) : Waiting[k][j] <= offered[k] /\ Waiting[k][j] \in Nat
             /\ offered = [offered EXCEPT ![k] = offered[k]]
             /\ Waiting = [Waiting EXCEPT ![k] = Waiting[k]]
             /\ sent = [sent EXCEPT ![k] = sent[k]]
  BY <1>1
<1>4. ASSUME NEW k \in Kind, Line!Accept(k) PROVE LineInv'
  <2> DEFINE w == Append(Waiting[k], offered[k] + 1)
  <2>1. \A j \in 1..Len(Waiting[k]) : Waiting[k][j] < offered[k] + 1
    BY <1>3
  <2>2. w \in Seq(Nat) /\ Line!Increasing(w)
        /\ \A j \in 1..Len(w) : IF j \in 1..Len(Waiting[k]) THEN w[j] = Waiting[k][j]
                                                             ELSE w[j] = offered[k] + 1
    BY <1>3, <2>1, AppendIncreasing
  <2> HIDE DEF w
  <2> DEFINE g == offered[k] + 1
  <2>3. g \in Nat /\ g = offered[k] + 1
    BY <1>3
  <2>4. Waiting' = [Waiting EXCEPT ![k] = w] /\ offered' = [offered EXCEPT ![k] = g]
        /\ sent' = [sent EXCEPT ![k] = sent[k]]
    BY <1>3, <1>4 DEF Line!Accept, Line!Give, w
  <2> HIDE DEF g
  <2>5. Ordered(g, sent[k], w)
    <3>1. \A i \in 1..Len(sent[k]) : sent[k][i] < g
      BY <1>3, <2>3
    <3>2. \A j \in 1..Len(w) : w[j] <= g
      BY <1>3, <2>2, <2>3
    <3>3. \A i \in 1..Len(sent[k]), j \in 1..Len(w) : sent[k][i] < w[j]
      BY <1>3, <2>2, <2>3, <3>1
    <3>4. \A i \in 1..Len(sent[k]) : sent[k][i] <= g
      BY <1>3, <2>3
    <3> QED BY <1>3, <2>2, <3>2, <3>3, <3>4
  <2> HIDE DEF Ordered
  <2> QED BY <1>2, <1>3, <2>2, <2>3, <2>4, <2>5
<1>5. ASSUME NEW k \in Kind, Line!Refuse(k) PROVE LineInv'
  <2> DEFINE g == offered[k] + 1
  <2>1. Ordered(g, sent[k], Waiting[k]) /\ g \in Nat
    BY <1>3
  <2>2. Waiting' = [Waiting EXCEPT ![k] = Waiting[k]] /\ offered' = [offered EXCEPT ![k] = g]
        /\ sent' = [sent EXCEPT ![k] = sent[k]]
    BY <1>3, <1>5 DEF Line!Refuse, Line!Give
  <2> HIDE DEF Ordered, g
  <2> QED BY <1>2, <1>3, <2>1, <2>2
<1>6. ASSUME NEW k \in Kind, Line!Lose(k) PROVE LineInv'
  <2> DEFINE w == Tail(Waiting[k])
  <2>1. w \in Seq(Nat) /\ Line!Increasing(w)
        /\ \A j \in 1..Len(w) : w[j] = Waiting[k][j + 1] /\ j + 1 \in 1..Len(Waiting[k])
    BY <1>3, <1>6, TailIncreasing DEF Line!Lose
  <2> HIDE DEF w
  <2>2. Ordered(offered[k], sent[k], w)
    BY <1>3, <2>1
  <2>3. Waiting' = [Waiting EXCEPT ![k] = w] /\ offered' = [offered EXCEPT ![k] = offered[k]]
        /\ sent' = [sent EXCEPT ![k] = sent[k]]
    BY <1>3, <1>6 DEF Line!Lose, w
  <2> HIDE DEF Ordered
  <2> QED BY <1>2, <1>3, <2>1, <2>2, <2>3
<1>7. ASSUME NEW k \in Kind, Line!Send(k) PROVE LineInv'
  <2> DEFINE w == Tail(Waiting[k])
  <2> DEFINE h == Head(Waiting[k])
  <2> DEFINE s == Append(sent[k], h)
  <2>1. w \in Seq(Nat) /\ Line!Increasing(w) /\ h \in Nat /\ h = Waiting[k][1] /\ 1 \in 1..Len(Waiting[k])
        /\ \A j \in 1..Len(w) : w[j] = Waiting[k][j + 1] /\ j + 1 \in 1..Len(Waiting[k]) /\ h < w[j]
    BY <1>3, <1>7, TailIncreasing DEF Line!Send
  <2> HIDE DEF w, h
  <2>2. \A i \in 1..Len(sent[k]) : sent[k][i] < h
    BY <1>3, <2>1
  <2>3. s \in Seq(Nat) /\ Line!Increasing(s)
        /\ \A i \in 1..Len(s) : IF i \in 1..Len(sent[k]) THEN s[i] = sent[k][i] ELSE s[i] = h
    <3>1. sent[k] \in Seq(Nat) /\ Line!Increasing(sent[k])
      BY <1>3
    <3> DEFINE q == sent[k]
    <3>2. q \in Seq(Nat) /\ Line!Increasing(q) /\ h \in Nat /\ \A i \in 1..Len(q) : q[i] < h
      BY <2>1, <2>2, <3>1
    <3> HIDE DEF q
    <3>3. Append(q, h) \in Seq(Nat) /\ Line!Increasing(Append(q, h))
          /\ \A i \in 1..Len(Append(q, h)) :
               IF i \in 1..Len(q) THEN Append(q, h)[i] = q[i] ELSE Append(q, h)[i] = h
      BY <3>2, AppendIncreasing
    <3> QED BY <3>3 DEF q
  <2> HIDE DEF s
  <2>4. Ordered(offered[k], s, w)
    <3>1. h <= offered[k]
      BY <1>3, <2>1
    <3>2. \A i \in 1..Len(s) : s[i] <= h /\ s[i] \in Nat
      <4> TAKE i \in 1..Len(s)
      <4>1. CASE i \in 1..Len(sent[k])
        <5>1. s[i] = sent[k][i] /\ sent[k][i] \in Nat /\ sent[k][i] < h
          BY <1>3, <2>2, <2>3, <4>1
        <5> QED BY <2>1, <5>1
      <4>2. CASE i \notin 1..Len(sent[k])
        <5>1. s[i] = h
          BY <2>3, <4>2
        <5> QED BY <2>1, <5>1
      <4> QED BY <4>1, <4>2
    <3>3. \A i \in 1..Len(s) : s[i] <= offered[k]
      BY <1>3, <2>1, <3>1, <3>2
    <3>4. \A j \in 1..Len(w) : w[j] <= offered[k] /\ w[j] \in Nat
      BY <1>3, <2>1
    <3>5. \A i \in 1..Len(s), j \in 1..Len(w) : s[i] < w[j]
      BY <2>1, <3>2, <3>4
    <3> QED BY <2>1, <2>3, <3>3, <3>4, <3>5
  <2>5. Waiting' = [Waiting EXCEPT ![k] = w] /\ offered' = [offered EXCEPT ![k] = offered[k]]
        /\ sent' = [sent EXCEPT ![k] = s]
    BY <1>3, <1>7 DEF Line!Send, w, s, h
  <2> HIDE DEF Ordered
  <2> QED BY <1>2, <1>3, <2>1, <2>3, <2>4, <2>5
<1>8. CASE UNCHANGED Line!vars
  BY <1>8 DEF LineInv, Line!TypeOK, Line!LineInOrder, Line!vars
<1> QED BY <1>4, <1>5, <1>6, <1>7, <1>8 DEF Line!Next

(* No event is handed to the client twice, and none before an earlier one of *)
(* its kind: what LossyFifo guarantees holds of the queues.                  *)
THEOREM SentInOrder == Spec => []Line!SentInOrder
<1>1. LineInv => Line!SentInOrder
  BY DEF LineInv, Line!LineInOrder, Line!SentInOrder
<1> QED BY LineInit, LineStep, <1>1, Refinement, PTL DEF ImplementsLossyFifo, Line!Spec
-----------------------------------------------------------------------------
(* Why PublishedReachedBroker holds: what the broker has was sent, so what is *)
(* sent next is new to it, and an acknowledgement is of the event in hand.    *)
OfKind(k, S) == {e \in S : e.kind = k}

Acknowledgeable(k) == IF AwaitingToken /\ cur.kind = k /\ cur \in arrived THEN 1 ELSE 0

WasSent(e) == \E i \in 1..Len(sent[e.kind]) : sent[e.kind][i] = e.n

Reached ==
  /\ IsFiniteSet(arrived)
  /\ \A e \in inflight \cup arrived : WasSent(e)
  /\ \A k \in Kind : published[k] + Acknowledgeable(k) <= Cardinality(OfKind(k, arrived))

LEMMA OneMore ==
  ASSUME NEW S, IsFiniteSet(S), NEW e, NEW k
  PROVE  /\ IsFiniteSet(OfKind(k, S)) /\ Cardinality(OfKind(k, S)) \in Nat
         /\ Cardinality(OfKind(k, S \cup {e})) =
              IF e.kind = k /\ e \notin S THEN Cardinality(OfKind(k, S)) + 1
                                          ELSE Cardinality(OfKind(k, S))
<1>1. IsFiniteSet(OfKind(k, S))
  BY FS_Subset DEF OfKind
<1>2. Cardinality(OfKind(k, S)) \in Nat
  BY <1>1, FS_CardinalityType
<1>3. CASE e.kind = k
  <2>1. OfKind(k, S \cup {e}) = OfKind(k, S) \cup {e}
    BY <1>3 DEF OfKind
  <2>2. e \in OfKind(k, S) <=> e \in S
    BY <1>3 DEF OfKind
  <2> QED BY <1>1, <1>2, <1>3, <2>1, <2>2, FS_AddElement
<1>4. CASE e.kind # k
  <2>1. OfKind(k, S \cup {e}) = OfKind(k, S)
    BY <1>4 DEF OfKind
  <2> QED BY <1>1, <1>2, <1>4, <2>1
<1> QED BY <1>3, <1>4

(* Which steps change what was sent, has arrived or was published. *)
LEMMA ReachedFrame == [Next]_vars =>
  \/ \E e \in Event : BrokerReceives(e)
  \/ SendFresh \/ DrainSend \/ Acked
  \/ /\ UNCHANGED <<arrived, sent, published>> /\ inflight' \subseteq inflight
     /\ pc' \notin {"ack", "flush"} \/ UNCHANGED <<pc, cur>>
<1> SUFFICES ASSUME [Next]_vars PROVE
      \/ \E e \in Event : BrokerReceives(e)
      \/ SendFresh \/ DrainSend \/ Acked
      \/ /\ UNCHANGED <<arrived, sent, published>> /\ inflight' \subseteq inflight
         /\ pc' \notin {"ack", "flush"} \/ UNCHANGED <<pc, cur>>
  OBVIOUS
<1> USE DEF loopVars, counters, brokerVars, Goto, NextEvent
<1>1. CASE UNCHANGED vars \/ ConnectionUp \/ OnConnect \/ ConnectionLost \/ Cancel \/ ListenerStops
           \/ Tick \/ \E k \in Kind : Enqueue(k)
  BY <1>1 DEF vars, ConnectionUp, OnConnect, ConnectionLost, Cancel, ListenerStops, Tick, Enqueue
<1>2. CASE PollPress \/ PollNone \/ (\E k \in Kind : SelectEvent(k)) \/ StartDrain \/ CheckOpen
  BY <1>2 DEF PollPress, PollNone, SelectEvent, StartDrain, Take, CheckOpen
<1>3. CASE Abandon \/ GiveUpStale \/ SendStale
  BY <1>3 DEF Abandon, GiveUpStale, SendStale
<1>4. CASE KeepHolding \/ Wake
  BY <1>4 DEF KeepHolding, WaitForBroker, Wake
<1>5. CASE AckTimeout \/ TokenFails
  BY <1>5 DEF AckTimeout, TokenFails, PublishFailed
<1>6. CASE DrainLate \/ DrainStale \/ DrainNext
  BY <1>6 DEF DrainLate, DrainStale, DropFront, DrainNext
<1> HIDE DEF loopVars, counters, brokerVars, Goto, NextEvent
<1> QED BY <1>1, <1>2, <1>3, <1>4, <1>5, <1>6 DEF Next, LoopStep, Environment

(* An event handed to the client is appended to what was sent, and is greater *)
(* than every number before it.                                               *)
LEMMA NewlySentEvent ==
  ASSUME TypeOK, TypeOK', LineInv, SendFresh \/ DrainSend
  PROVE  \E e \in Event :
           /\ cur' = e /\ inflight' = inflight \cup {e} /\ ~ WasSent(e)
           /\ \E j \in 1..Len(sent'[e.kind]) : sent'[e.kind][j] = e.n
           /\ \A x \in Event : WasSent(x) =>
                \E j \in 1..Len(sent'[x.kind]) : sent'[x.kind][j] = x.n
           /\ UNCHANGED <<arrived, published>>
<1> DEFINE e == IF pc = "send" THEN cur ELSE Front
<1>1. e \in Event /\ e.kind \in Kind /\ e.n \in EventNo
  BY TypeFacts DEF SendFresh, DrainSend, Holding, TypeOK, LoopType, Event, EventNo, Draining
<1>2. /\ cur' = e /\ inflight' = inflight \cup {e}
      /\ sent' = [sent EXCEPT ![e.kind] = Append(@, e.n)]
      /\ UNCHANGED <<arrived, published>>
  BY DEF SendFresh, SendCur, DrainSend, Draining, Publish, counters
<1>3. Waiting[e.kind] # <<>> /\ Waiting[e.kind][1] = e.n /\ Waiting[e.kind] \in Seq(EventNo)
  <2>2. Waiting \in [Kind -> Seq(EventNo)]
    BY WaitingType
  <2>3. Waiting[e.kind] # <<>> /\ Head(Waiting[e.kind]) = e.n
    <3>1. CASE SendFresh
      <4>1. pc = "send" /\ e = cur
        BY <3>1 DEF SendFresh
      <4>2. pc \in BeforeSend /\ cur.kind = e.kind
        BY <4>1 DEF BeforeSend
      <4>3. Waiting[e.kind] # <<>> /\ Head(Waiting[e.kind]) = cur.n
        BY <1>1, <4>2, WaitingIs
      <4> QED BY <4>1, <4>3
    <3>2. CASE DrainSend
      <4>1. pc = "drain" /\ e = Front /\ queue[line] # <<>>
        BY <3>2 DEF DrainSend, Draining
      <4>2. pc \notin BeforeSend
        BY <4>1 DEF BeforeSend
      <4>3. Waiting[e.kind] = queue[e.kind]
        BY <1>1, <4>2, WaitingIs
      <4>4. e.kind = line /\ e.n = Head(queue[line])
        BY <4>1 DEF Front
      <4> QED BY <4>1, <4>3, <4>4
    <3> QED BY <3>1, <3>2
  <2>4. Waiting[e.kind] \in Seq(EventNo)
    BY <1>1, <2>2
  <2> HIDE DEF e
  <2> QED BY <2>3, <2>4
<1> HIDE DEF e
<1>4. \A i \in 1..Len(sent[e.kind]) : sent[e.kind][i] < e.n
  <2>1. 1 \in 1..Len(Waiting[e.kind])
    BY <1>3
  <2> QED BY <1>1, <1>3, <2>1 DEF LineInv, Line!LineInOrder
<1>5. ~ WasSent(e)
  BY <1>1, <1>4 DEF WasSent, EventNo
<1>6. \A k \in Kind : sent[k] \in Seq(EventNo)
  BY DEF TypeOK, SentType
<1>7. /\ Len(sent'[e.kind]) = Len(sent[e.kind]) + 1 /\ Len(sent[e.kind]) \in Nat
      /\ sent'[e.kind][Len(sent[e.kind]) + 1] = e.n
      /\ \A i \in 1..Len(sent[e.kind]) : sent'[e.kind][i] = sent[e.kind][i]
      /\ \A k \in Kind : k # e.kind => sent'[k] = sent[k]
  BY <1>1, <1>2, <1>6 DEF TypeOK, SentType
<1>8. \A x \in Event : WasSent(x) =>
        \E j \in 1..Len(sent'[x.kind]) : sent'[x.kind][j] = x.n
  <2> SUFFICES ASSUME NEW x \in Event, NEW i \in 1..Len(sent[x.kind]), sent[x.kind][i] = x.n
               PROVE  \E j \in 1..Len(sent'[x.kind]) : sent'[x.kind][j] = x.n
    BY DEF WasSent
  <2>1. x.kind \in Kind
    BY DEF Event
  <2>2. CASE x.kind = e.kind
    <3>1. i \in 1..Len(sent'[x.kind]) /\ sent'[x.kind][i] = x.n
      BY <1>7, <2>2
    <3> QED BY <3>1
  <2>3. CASE x.kind # e.kind
    BY <1>7, <2>1, <2>3
  <2> QED BY <2>2, <2>3
<1>9. \E j \in 1..Len(sent'[e.kind]) : sent'[e.kind][j] = e.n
  BY <1>7
<1> QED BY <1>1, <1>2, <1>5, <1>8, <1>9

(* Nothing acknowledged is forgotten, and only Acked publishes. *)
LEMMA ReachedStep ==
  ASSUME TypeOK, TypeOK', LineInv, Reached, [Next]_vars
  PROVE  Reached'
<1>1. CASE \E e \in Event : BrokerReceives(e)
  <2> PICK e \in Event : BrokerReceives(e)
    BY <1>1
  <2>1. /\ inflight' = inflight \ {e} /\ arrived' = arrived \cup {e} /\ e \in inflight
        /\ UNCHANGED <<pc, cur, sent, published>>
    BY DEF BrokerReceives, loopVars, counters
  <2>2. IsFiniteSet(arrived')
    BY <2>1, FS_AddElement DEF Reached
  <2>3. (\A x \in inflight \cup arrived : WasSent(x))'
    BY <2>1 DEF Reached, WasSent
  <2>4. ASSUME NEW k \in Kind
        PROVE  published'[k] + Acknowledgeable(k)' <= Cardinality(OfKind(k, arrived'))
    <3>1. /\ Cardinality(OfKind(k, arrived)) \in Nat
          /\ Cardinality(OfKind(k, arrived \cup {e})) =
               IF e.kind = k /\ e \notin arrived THEN Cardinality(OfKind(k, arrived)) + 1
                                                 ELSE Cardinality(OfKind(k, arrived))
      BY OneMore DEF Reached
    <3>2. \/ Acknowledgeable(k)' = Acknowledgeable(k)
          \/ e.kind = k /\ e \notin arrived /\ Acknowledgeable(k)' = 1 /\ Acknowledgeable(k) = 0
      <4>1. Acknowledgeable(k)' = IF AwaitingToken /\ cur.kind = k /\ cur \in arrived \cup {e}
                                  THEN 1 ELSE 0
        BY <2>1 DEF Acknowledgeable, AwaitingToken
      <4>2. CASE cur \in arrived \/ cur # e
        <5>1. cur \in arrived \cup {e} <=> cur \in arrived
          BY <4>2
        <5> QED BY <4>1, <5>1 DEF Acknowledgeable
      <4>3. CASE cur \notin arrived /\ cur = e
        BY <4>1, <4>3 DEF Acknowledgeable
      <4> QED BY <4>2, <4>3
    <3>3. published[k] \in Nat /\ published'[k] = published[k]
      BY <2>1 DEF TypeOK, CountType
    <3>4. published[k] + Acknowledgeable(k) <= Cardinality(OfKind(k, arrived))
      BY DEF Reached
    <3>5. Cardinality(OfKind(k, arrived')) = Cardinality(OfKind(k, arrived \cup {e}))
      BY <2>1
    <3>6. Acknowledgeable(k) \in {0, 1}
      BY DEF Acknowledgeable
    <3>7. CASE Acknowledgeable(k)' = Acknowledgeable(k)
      BY <3>1, <3>3, <3>4, <3>5, <3>6, <3>7
    <3>8. CASE e.kind = k /\ e \notin arrived /\ Acknowledgeable(k)' = 1 /\ Acknowledgeable(k) = 0
      BY <3>1, <3>3, <3>4, <3>5, <3>8
    <3> QED BY <3>2, <3>7, <3>8
  <2> QED BY <2>2, <2>3, <2>4 DEF Reached
<1>2. CASE SendFresh \/ DrainSend
  <2> PICK e \in Event :
         /\ cur' = e /\ inflight' = inflight \cup {e} /\ ~ WasSent(e)
         /\ \E j \in 1..Len(sent'[e.kind]) : sent'[e.kind][j] = e.n
         /\ \A x \in Event : WasSent(x) =>
              \E j \in 1..Len(sent'[x.kind]) : sent'[x.kind][j] = x.n
         /\ UNCHANGED <<arrived, published>>
    BY <1>2, NewlySentEvent
  <2>1. IsFiniteSet(arrived')
    BY DEF Reached
  <2>2. (\A x \in inflight \cup arrived : WasSent(x))'
    <3>1. inflight \subseteq Event /\ arrived \subseteq Event
      BY DEF TypeOK, BrokerType
    <3>2. \A x \in inflight' \cup arrived' : \E j \in 1..Len(sent'[x.kind]) : sent'[x.kind][j] = x.n
      BY <3>1 DEF Reached
    <3> QED BY <3>2 DEF WasSent
  <2>3. e \notin arrived
    BY DEF Reached
  <2>4. ASSUME NEW k \in Kind
        PROVE  published'[k] + Acknowledgeable(k)' <= Cardinality(OfKind(k, arrived'))
    <3>1. Acknowledgeable(k)' = 0
      BY <2>3 DEF Acknowledgeable
    <3>2. published[k] \in Nat /\ published'[k] = published[k] /\ arrived' = arrived
      BY DEF TypeOK, CountType
    <3>3. published[k] + Acknowledgeable(k) <= Cardinality(OfKind(k, arrived))
      BY DEF Reached
    <3>4. Acknowledgeable(k) \in {0, 1}
      BY DEF Acknowledgeable
    <3>5. Cardinality(OfKind(k, arrived)) \in Nat
      BY OneMore DEF Reached
    <3> QED BY <3>1, <3>2, <3>3, <3>4, <3>5
  <2> QED BY <2>1, <2>2, <2>4 DEF Reached
<1>3. CASE Acked
  <2>1. /\ AwaitingToken /\ cur \in arrived /\ pc' \notin {"ack", "flush"}
        /\ published' = [published EXCEPT ![cur.kind] = @ + 1]
        /\ UNCHANGED <<arrived, inflight, sent>>
    BY <1>3 DEF Acked, CountPublished, NextEvent, Goto, brokerVars
  <2>2. IsFiniteSet(arrived') /\ (\A x \in inflight \cup arrived : WasSent(x))'
    BY <2>1 DEF Reached, WasSent
  <2>3. ASSUME NEW k \in Kind
        PROVE  published'[k] + Acknowledgeable(k)' <= Cardinality(OfKind(k, arrived'))
    <3>1. Acknowledgeable(k)' = 0
      BY <2>1 DEF Acknowledgeable, AwaitingToken
    <3>2. published[k] \in Nat /\ published'[k] = IF cur.kind = k THEN published[k] + 1 ELSE published[k]
      BY <2>1 DEF TypeOK, CountType
    <3>3. Acknowledgeable(k) = IF cur.kind = k THEN 1 ELSE 0
      BY <2>1 DEF Acknowledgeable
    <3>4. published[k] + Acknowledgeable(k) <= Cardinality(OfKind(k, arrived))
      BY DEF Reached
    <3> QED BY <2>1, <3>1, <3>2, <3>3, <3>4
  <2> QED BY <2>2, <2>3 DEF Reached
<1>4. CASE /\ UNCHANGED <<arrived, sent, published>> /\ inflight' \subseteq inflight
           /\ pc' \notin {"ack", "flush"} \/ UNCHANGED <<pc, cur>>
  <2>1. IsFiniteSet(arrived') /\ (\A x \in inflight \cup arrived : WasSent(x))'
    BY <1>4 DEF Reached, WasSent
  <2>2. ASSUME NEW k \in Kind
        PROVE  published'[k] + Acknowledgeable(k)' <= Cardinality(OfKind(k, arrived'))
    <3>1. Acknowledgeable(k)' = 0 \/ Acknowledgeable(k)' = Acknowledgeable(k)
      BY <1>4 DEF Acknowledgeable, AwaitingToken
    <3>2. published[k] \in Nat /\ Acknowledgeable(k) \in {0, 1}
      BY DEF TypeOK, CountType, Acknowledgeable
    <3>3. Cardinality(OfKind(k, arrived)) \in Nat
      BY OneMore DEF Reached
    <3>4. published[k] + Acknowledgeable(k) <= Cardinality(OfKind(k, arrived))
      BY DEF Reached
    <3> QED BY <1>4, <3>1, <3>2, <3>3, <3>4
  <2> QED BY <2>1, <2>2 DEF Reached
<1> QED BY <1>1, <1>2, <1>3, <1>4, ReachedFrame

LEMMA ReachedInit == Init => Reached
<1> SUFFICES ASSUME Init PROVE Reached
  OBVIOUS
<1>1. arrived = {} /\ inflight = {} /\ \A k \in Kind : published[k] = 0
  BY DEF Init
<1>2. IsFiniteSet(arrived)
  BY <1>1, FS_EmptySet
<1>3. \A k \in Kind : OfKind(k, arrived) = {} /\ Acknowledgeable(k) = 0
  BY <1>1 DEF OfKind, Acknowledgeable
<1>4. \A k \in Kind : published[k] + Acknowledgeable(k) <= Cardinality(OfKind(k, arrived))
  BY <1>1, <1>3, FS_EmptySet
<1> QED BY <1>1, <1>2, <1>4 DEF Reached

LEMMA ReachedSuffices == TypeOK /\ Reached => PublishedReachedBroker
<1> SUFFICES ASSUME TypeOK, Reached, NEW k \in Kind
             PROVE  published[k] <= Cardinality({e \in arrived : e.kind = k})
  BY DEF PublishedReachedBroker
<1>1. published[k] \in Nat /\ Acknowledgeable(k) \in {0, 1}
  BY DEF TypeOK, CountType, Acknowledgeable
<1>2. Cardinality(OfKind(k, arrived)) \in Nat
  BY OneMore DEF Reached
<1>3. published[k] + Acknowledgeable(k) <= Cardinality(OfKind(k, arrived))
  BY DEF Reached
<1>4. published[k] <= Cardinality(OfKind(k, arrived))
  BY <1>1, <1>2, <1>3
<1> QED BY <1>4 DEF OfKind

(* A published event is one the broker has: none is counted published on     *)
(* another one's acknowledgement (Acked, mqtt.go).                           *)
THEOREM PublishedReachedBrokerHolds == Spec => []PublishedReachedBroker
<1>1. Spec => []TypeOK
  BY TypeCorrect
<1>2. Spec => []LineInv
  BY Refinement, LineInit, LineStep, PTL DEF ImplementsLossyFifo, Line!Spec
<1>3. Init => Reached
  BY ReachedInit
<1>4. TypeOK /\ TypeOK' /\ LineInv /\ Reached /\ [Next]_vars => Reached'
  BY ReachedStep
<1>5. TypeOK /\ Reached => PublishedReachedBroker
  BY ReachedSuffices
<1> QED BY <1>1, <1>2, <1>3, <1>4, <1>5, PTL DEF Spec
-----------------------------------------------------------------------------
(* Why ShutdownInTime is inductive: every wait is as long as it was begun at *)
(* most, and drain's own no longer than drainTimeout.                        *)
WaitClock ==
  /\ pc \in {"hold", "ack"} => timer <= LongestWait
  /\ drainLeft <= DrainTimeout

LEMMA LongestIs ==
  LongestWait \in Nat /\ PublishTimeout <= LongestWait /\ ReconnectPoll <= LongestWait
  BY DeliveryAssumption DEF LongestWait

LEMMA WaitClockStep == TypeOK /\ WaitClock /\ [Next]_vars => WaitClock'
<1> SUFFICES ASSUME TypeOK, WaitClock, [Next]_vars PROVE WaitClock'
  OBVIOUS
<1> USE DeliveryAssumption, LongestIs DEF WaitClock
<1>1. timer \in Nat /\ drainLeft \in Int
  BY DEF TypeOK, LoopType
<1>2. CASE UNCHANGED loopVars
  BY <1>2 DEF loopVars
<1>3. CASE PollPress \/ (\E k \in Kind : SelectEvent(k)) \/ PollNone
  BY <1>3 DEF PollPress, SelectEvent, Take, PollNone, Goto
<1>4. CASE NextEvent
  BY <1>4 DEF NextEvent, Goto
<1>5. CASE CheckOpen \/ Wake \/ DrainNext \/ StartDrain
  BY <1>5 DEF CheckOpen, Wake, DrainNext, StartDrain, Goto
<1>6. CASE KeepHolding \/ SendFresh
  BY <1>6 DEF KeepHolding, WaitForBroker, SendFresh, SendCur, Goto
<1>7. CASE DrainSend
  BY <1>7 DEF DrainSend, Goto
<1>8. CASE Tick
  BY <1>1, <1>8 DEF Tick
<1> QED BY <1>2, <1>3, <1>4, <1>5, <1>6, <1>7, <1>8, FrameLoop

LEMMA WithinMore == ASSUME TypeOK', NEW t \in Nat, t > 0, Within(t - 1)' PROVE Within(t)'
<1>1. CASE pc' \in {"drain", "flush", "stopped"}
  <2>1. pc' = "stopped" \/ drainLeft' <= t - 1
    BY <1>1 DEF Within
  <2>2. CASE drainLeft' <= t - 1
    BY <1>1, <2>2 DEF Within, TypeOK, LoopType
  <2> QED BY <1>1, <2>1, <2>2 DEF Within
<1>2. CASE pc' \notin {"drain", "flush", "stopped"}
  <2>1. PICK ticks \in 0..(t - 1) :
          /\ StaleIn(ticks)'
          /\ (IF ticks = 0 THEN timer' ELSE ticks + LongestWait) + DrainTimeout <= t - 1
    BY <1>2 DEF Within
  <2> DEFINE wait == (IF ticks = 0 THEN timer' ELSE ticks + LongestWait) + DrainTimeout
  <2>2. wait \in Int
    BY <2>1, LongestIs, DeliveryAssumption DEF TypeOK, LoopType
  <2>3. ticks \in 0..t /\ wait <= t
    BY <2>1, <2>2
  <2> QED BY <1>2, <2>1, <2>3 DEF Within
<1> QED BY <1>1, <1>2

(* A tick brings every event a tick nearer to its end. *)
LEMMA TickStale ==
  ASSUME TypeOK, Tick, NEW a \in Nat, NEW b \in Nat, a <= b + 1, StaleIn(a)
  PROVE  StaleIn(b)'
<1>1. ASSUME NEW k \in Kind, NEW n \in EventNo, age[k][n] + a > MaxEventAge
      PROVE  age'[k][n] + b > MaxEventAge
  <2>1. age[k][n] \in Nat /\ AgeCap \in Nat /\ AgeCap > MaxEventAge /\ MaxEventAge \in Nat
    BY DeliveryAssumption DEF TypeOK, AgeType, AgeCap
  <2>2. age'[k][n] = IF age[k][n] < AgeCap THEN age[k][n] + 1 ELSE AgeCap
    BY DEF Tick, EventNo
  <2> QED BY <1>1, <2>1, <2>2
<1>2. UNCHANGED <<queue, pc, cur>>
  BY DEF Tick
<1>3. ASSUME NEW k \in Kind, NEW i \in 1..Len(queue[k])
      PROVE  queue[k][i] \in EventNo
  BY DEF TypeOK, QueueType
<1>4. pc \in BeforeSend => cur.kind \in Kind /\ cur.n \in EventNo
  BY TypeFacts DEF TypeOK, LoopType, BeforeSend, Holding
<1> QED BY <1>1, <1>2, <1>3, <1>4 DEF StaleIn

LEMMA TickWithin ==
  ASSUME TypeOK, DrainClock, WaitClock, Tick, NEW t \in Nat, Within(t)
  PROVE  t > 0 /\ Within(t - 1)'
<1>1. /\ timer \in Nat /\ timer > 0 /\ timer' = timer - 1 /\ pc' = pc
      /\ pc \in {"hold", "ack", "flush"} /\ drainLeft \in Int
  BY DEF Tick, TypeOK, LoopType
<1>2. LongestWait \in Nat /\ DrainTimeout \in Nat
  BY LongestIs, DeliveryAssumption
<1>3. CASE pc = "flush"
  <2>1. drainLeft <= t /\ timer <= drainLeft /\ drainLeft' = drainLeft - 1
    BY <1>3 DEF Within, DrainClock, Tick
  <2> QED BY <1>1, <1>3, <2>1 DEF Within
<1>4. CASE pc \in {"hold", "ack"}
  <2>1. PICK ticks \in 0..t :
          StaleIn(ticks) /\ (IF ticks = 0 THEN timer ELSE ticks + LongestWait) + DrainTimeout <= t
    BY <1>4 DEF Within
  <2>2. t > 0
    BY <1>1, <1>2, <2>1
  <2>3. CASE ticks = 0
    <3>1. StaleIn(0)'
      BY <2>1, <2>3, TickStale
    <3>2. 0 \in 0..(t - 1) /\ timer' + DrainTimeout <= t - 1
      BY <1>1, <1>2, <2>1, <2>2, <2>3
    <3> QED BY <1>1, <1>4, <2>2, <3>1, <3>2 DEF Within
  <2>4. CASE ticks > 0
    <3> DEFINE soon == ticks - 1
    <3>1. soon \in Nat /\ soon \in 0..(t - 1) /\ ticks <= soon + 1
      BY <2>1, <2>4
    <3>2. StaleIn(soon)'
      BY <2>1, <3>1, TickStale
    <3>3. (IF soon = 0 THEN timer' ELSE soon + LongestWait) + DrainTimeout <= t - 1
      <4>1. timer <= LongestWait
        BY <1>4 DEF WaitClock
      <4> QED BY <1>1, <1>2, <2>1, <2>4, <4>1
    <3> HIDE DEF soon
    <3> QED BY <1>1, <1>4, <2>2, <3>1, <3>2, <3>3 DEF Within
  <2> QED BY <2>1, <2>3, <2>4
<1> QED BY <1>1, <1>3, <1>4

(* A step that takes no event but from the front of a queue, and lets no time *)
(* pass, leaves the rest as near to their end.                               *)
LEMMA StaleKept ==
  ASSUME TypeOK, NEW t \in Nat, StaleIn(t), UNCHANGED <<queue, age>>,
         pc' \in BeforeSend => pc \in BeforeSend /\ cur' = cur
  PROVE  StaleIn(t)'
  BY DEF StaleIn

LEMMA StaleTaken ==
  ASSUME TypeOK, NEW t \in Nat, StaleIn(t), NEW k \in Kind, Take(k)
  PROVE  StaleIn(t)'
<1>1. /\ queue[k] # <<>> /\ queue' = [queue EXCEPT ![k] = Tail(@)]
      /\ cur'.kind = k /\ cur'.n = Head(queue[k]) /\ UNCHANGED age
  BY DEF Take
<1>2. queue[k] \in Seq(EventNo) /\ Len(queue[k]) \in Nat /\ Len(queue[k]) > 0
  BY <1>1, TypeFacts
<1>3. Head(queue[k]) = queue[k][1]
  BY <1>1, <1>2
<1>4. ASSUME NEW j \in Kind, NEW i \in 1..Len(queue'[j])
      PROVE  \E h \in 1..Len(queue[j]) : queue'[j][i] = queue[j][h]
  <2>1. CASE j = k
    <3>1. queue'[j] = Tail(queue[k])
      BY <1>1, <2>1 DEF TypeOK, QueueType
    <3>2. i \in 1..Len(Tail(queue[k])) /\ Len(Tail(queue[k])) = Len(queue[k]) - 1
      BY <1>1, <1>2, <1>4, <3>1, HeadTailProperties
    <3>3. i + 1 \in 1..Len(queue[k]) /\ Tail(queue[k])[i] = queue[k][i + 1]
      BY <1>1, <1>2, <3>2, HeadTailProperties
    <3> QED BY <2>1, <3>1, <3>3
  <2>2. CASE j # k
    BY <1>1, <1>4, <2>2 DEF TypeOK, QueueType
  <2> QED BY <2>1, <2>2
<1>5. age[k][Head(queue[k])] + t > MaxEventAge
  BY <1>2, <1>3 DEF StaleIn
<1> QED BY <1>1, <1>4, <1>5 DEF StaleIn

(* Once ProcessQueue has returned it takes no step, nor does a token move it. *)
LEMMA LoopIsOver ==
  ASSUME pc = "stopped"
  PROVE  ~ LoopStep /\ ~ Acked /\ ~ TokenFails
  BY DEF LoopStep, PollPress, PollNone, SelectEvent, StartDrain, CheckOpen, Abandon, GiveUpStale,
     KeepHolding, Wake, SendStale, SendFresh, AckTimeout, DrainLate, DrainStale, DrainSend,
     DrainNext, Acked, TokenFails, AwaitingToken, Draining

LEMMA StaysStopped ==
  ASSUME TypeOK, pc = "stopped", [Next]_vars
  PROVE  UNCHANGED loopVars
<1>1. ~ Tick
  BY DEF Tick, TypeOK, LoopType
<1> QED BY <1>1, LoopIsOver DEF Next, Environment, vars, Enqueue, ConnectionUp, OnConnect,
     ConnectionLost, BrokerReceives, Cancel, ListenerStops

LEMMA NoLater ==
  ASSUME NEW a \in Nat, NEW b \in Nat, NEW d \in Nat, NEW t \in Nat, b <= a, a + d <= t
  PROVE  b + d <= t
  OBVIOUS

LEMMA WithinStep ==
  ASSUME TypeOK, TypeOK', DrainClock, WaitClock, Stopping, [Next]_vars,
         NEW t \in Nat, Within(t)
  PROVE  Within(t)'
<1>1. cancelled /\ ~ listening
  BY DEF Stopping
<1>2. /\ timer \in Nat /\ drainLeft \in Int /\ timer' \in Nat
      /\ DrainTimeout \in Nat /\ LongestWait \in Nat
  BY LongestIs, DeliveryAssumption DEF TypeOK, LoopType
<1>3. ASSUME NEW k \in Kind PROVE ~ Enqueue(k)
  BY <1>1 DEF Enqueue
<1>4. CASE Tick
  BY <1>4, TickWithin, WithinMore
<1>5. CASE pc = "stopped"
  BY <1>5, StaysStopped DEF Within, loopVars
<1>6. CASE ~ Tick /\ pc \in {"drain", "flush"}
  <2>1. drainLeft <= t
    BY <1>6 DEF Within
  <2>2. UNCHANGED drainLeft /\ pc' \in {"drain", "flush", "stopped"}
    <3>1. CASE UNCHANGED loopVars
      BY <1>6, <3>1 DEF loopVars
    <3>2. CASE NextEvent /\ pc = "flush"
      BY <3>2 DEF NextEvent, Goto
    <3>3. CASE DrainLate \/ DrainStale \/ DrainSend \/ DrainNext
      BY <1>6, <3>3 DEF DrainLate, DrainStale, DropFront, DrainSend, DrainNext, loopVars, Goto
    <3> QED BY <1>3, <1>6, <3>1, <3>2, <3>3, FrameQueueLoop
         DEF SelectEvent, PollPress, PollNone, StartDrain, CheckOpen, KeepHolding, Wake, SendFresh
  <2> QED BY <2>1, <2>2 DEF Within
<1>7. CASE ~ Tick /\ pc \notin {"drain", "flush", "stopped"}
  <2>1. PICK ticks \in 0..t :
          StaleIn(ticks) /\ (IF ticks = 0 THEN timer ELSE ticks + LongestWait) + DrainTimeout <= t
    BY <1>7 DEF Within
  <2>2. ticks \in Nat
    BY <2>1
  <2>3. ASSUME pc' \notin {"drain", "flush", "stopped"}, StaleIn(ticks)', timer' <= timer \/ ticks > 0
        PROVE  Within(t)'
    <3>1. (IF ticks = 0 THEN timer' ELSE ticks + LongestWait) + DrainTimeout <= t
      <4>1. CASE ticks = 0
        <5>1. timer + DrainTimeout <= t /\ timer' <= timer
          BY <2>1, <2>3, <4>1
        <5>2. timer' + DrainTimeout <= t
          BY <1>2, <5>1, NoLater
        <5> QED BY <4>1, <5>2
      <4>2. CASE ticks > 0
        <5>1. ticks + LongestWait + DrainTimeout <= t
          BY <2>1, <2>2, <4>2
        <5> QED BY <2>2, <4>2, <5>1
      <4> QED BY <2>2, <4>1, <4>2
    <3> QED BY <2>1, <2>3, <3>1 DEF Within
  <2>4. CASE \E k \in Kind : Take(k)
    <3>1. PICK k \in Kind : Take(k)
      BY <2>4
    <3>2. StaleIn(ticks)'
      BY <2>1, <2>2, <3>1, StaleTaken
    <3>3. pc' = "deliver" /\ timer' <= timer
      BY <1>2, <3>1 DEF Take, Goto
    <3> QED BY <2>3, <3>2, <3>3
  <2>5. CASE StartDrain
    <3>1. DrainTimeout <= t
      BY <1>2, <2>1, <2>2
    <3> QED BY <2>5, <3>1 DEF StartDrain, Within
  <2>6. UNCHANGED age
    BY <1>3, <1>7, Frame
  <2>7. CASE UNCHANGED <<queue, loopVars>>
    <3>1. StaleIn(ticks)'
      BY <2>1, <2>2, <2>6, <2>7, StaleKept DEF loopVars
    <3> QED BY <1>2, <1>7, <2>3, <2>7, <3>1 DEF loopVars
  <2>8. CASE NextEvent /\ UNCHANGED queue
    <3>1. pc' = "poll" /\ timer' = 0
      BY <1>7, <2>8 DEF NextEvent, Goto
    <3>2. StaleIn(ticks)'
      BY <2>1, <2>2, <2>6, <2>8, <3>1, StaleKept DEF BeforeSend
    <3> QED BY <1>2, <2>3, <3>1, <3>2
  <2>9. CASE CheckOpen \/ Wake
    <3>1. /\ pc \in BeforeSend /\ pc' \in BeforeSend /\ UNCHANGED <<queue, cur>>
          /\ timer' <= timer
      BY <1>2, <2>9 DEF CheckOpen, Wake, Goto, BeforeSend
    <3>2. StaleIn(ticks)'
      BY <2>1, <2>2, <2>6, <3>1, StaleKept
    <3> QED BY <2>3, <3>1, <3>2 DEF BeforeSend
  <2>10. CASE SendFresh
    <3>1. pc = "send" /\ pc' = "ack" /\ UNCHANGED queue /\ ~ Stale(cur)
      BY <2>10 DEF SendFresh, SendCur, Goto
    <3>2. ticks > 0
      <4>1. age[cur.kind][cur.n] + ticks > MaxEventAge /\ ~ age[cur.kind][cur.n] > MaxEventAge
        BY <2>1, <3>1 DEF StaleIn, BeforeSend, Stale
      <4>2. age[cur.kind][cur.n] \in Nat
        BY <3>1, TypeFacts DEF TypeOK, LoopType, AgeType, Holding, AgeCap
      <4> QED BY <2>2, <4>1, <4>2
    <3>3. StaleIn(ticks)'
      BY <2>1, <2>2, <2>6, <3>1, StaleKept DEF BeforeSend
    <3> QED BY <2>3, <3>1, <3>2, <3>3
  <2> QED BY <1>1, <1>3, <1>7, <2>4, <2>5, <2>7, <2>8, <2>9, <2>10, FrameQueueLoop
       DEF SelectEvent, PollPress, PollNone, KeepHolding, Kind, DrainLate, DrainStale, DrainSend,
           DrainNext, Draining
<1> QED BY <1>4, <1>5, <1>6, <1>7

(* The whole bound holds of every state there is. *)
LEMMA WithinBound == ASSUME TypeOK, DrainClock, WaitClock PROVE Within(LongestShutdown)
<1>1. /\ LongestWait \in Nat /\ DrainTimeout \in Nat /\ MaxEventAge \in Nat
      /\ LongestShutdown = MaxEventAge + 1 + LongestWait + DrainTimeout
  BY LongestIs, DeliveryAssumption DEF LongestShutdown
<1>2. CASE pc \in {"drain", "flush"}
  BY <1>1, <1>2 DEF Within, WaitClock, TypeOK, LoopType
<1>3. CASE pc \notin {"drain", "flush", "stopped"}
  <2> DEFINE ticks == MaxEventAge + 1
  <2>1. ticks \in 0..LongestShutdown /\ ticks # 0 /\ ticks + LongestWait + DrainTimeout <= LongestShutdown
    BY <1>1
  <2>2. StaleIn(ticks)
    <3>1. ASSUME NEW k \in Kind, NEW n \in EventNo PROVE age[k][n] + ticks > MaxEventAge
      <4>1. age[k][n] \in Nat
        BY DEF TypeOK, AgeType, AgeCap
      <4> QED BY <1>1, <4>1
    <3>2. \A k \in Kind : \A i \in 1..Len(queue[k]) : queue[k][i] \in EventNo
      BY DEF TypeOK, QueueType
    <3>3. pc \in BeforeSend => cur.kind \in Kind /\ cur.n \in EventNo
      BY TypeFacts DEF TypeOK, LoopType, BeforeSend, Holding
    <3> HIDE DEF ticks
    <3> QED BY <3>1, <3>2, <3>3 DEF StaleIn
  <2> HIDE DEF ticks
  <2> QED BY <1>3, <2>1, <2>2 DEF Within
<1> QED BY <1>2, <1>3 DEF Within

(* Once the event stream has ended, ProcessQueue returns within maxEventAge, *)
(* one wait and drainTimeout: deliver's and drain's waits are all bounded,   *)
(* and what select still takes after ctx is done is soon too old to be sent.  *)
THEOREM ShutdownInTimeHolds == Spec => ShutdownInTime
<1>1. Init => WaitClock
  BY DeliveryAssumption DEF Init, WaitClock
<1>2. Spec => [](IInv /\ WaitClock)
  <2>1. IInv /\ WaitClock /\ [Next]_vars => (IInv /\ WaitClock)'
    BY InvStep, WaitClockStep DEF IInv
  <2> QED BY <1>1, <2>1, InitInv, PTL DEF Spec
<1> DEFINE Timely ==
      Stopping =>
        /\ Within(LongestShutdown)
        /\ \A t \in 0..LongestShutdown :
             Within(t) => Within(t)' /\ (Tick => t > 0 /\ Within(t - 1)')
<1>3. IInv /\ WaitClock /\ [Next]_vars => [Timely]_vars
  <2> SUFFICES ASSUME IInv, WaitClock, [Next]_vars, Stopping PROVE Timely
    OBVIOUS
  <2>1. TypeOK /\ TypeOK' /\ DrainClock
    BY InvStep DEF IInv
  <2>2. Within(LongestShutdown)
    BY <2>1, WithinBound
  <2>3. ASSUME NEW t \in 0..LongestShutdown, Within(t)
        PROVE  Within(t)' /\ (Tick => t > 0 /\ Within(t - 1)')
    BY <2>1, <2>3, WithinStep, TickWithin
  <2> QED BY <2>2, <2>3
<1> QED BY <1>2, <1>3, PTL DEF Spec, ShutdownInTime

(* The steps ProcessQueue still takes, at most: those of every queued event  *)
(* and, by where it is, those of the event in hand and the end of drain.     *)
Rank(place, which) ==
  CASE place = "hold" -> 7
    [] place = "deliver" -> 6
    [] place \in {"closed", "send"} -> 5
    [] place \in {"ack", "select"} -> 4
    [] place \in {"poll", "flush"} -> 3
    [] place = "drain" -> IF which = "press" THEN 2 ELSE 1
    [] place = "stopped" -> 0

StepsLeft == 8 * (Len(queue["press"]) + Len(queue["human"])) + Rank(pc, line)

LoopMoves == LoopStep \/ Acked \/ TokenFails

LEMMA RankType == ASSUME NEW p \in PC, NEW k \in Kind PROVE Rank(p, k) \in 0..7
  BY DEF Rank, PC, Kind

LEMMA FewerQueued ==
  ASSUME NEW a \in Nat, NEW b \in Nat, NEW c \in Nat, NEW d \in Nat, NEW r \in 0..7, NEW s \in 0..7,
         \/ c = a - 1 /\ d = b
         \/ c = a /\ d = b - 1
  PROVE  8 * (c + d) + s < 8 * (a + b) + r
  OBVIOUS

LEMMA LowerRank ==
  ASSUME NEW a \in Nat, NEW b \in Nat, NEW r \in 0..7, NEW s \in 0..7, s < r
  PROVE  8 * (a + b) + s < 8 * (a + b) + r
  OBVIOUS

LEMMA AtMostQueued ==
  ASSUME NEW q \in Nat, NEW a \in 0..q, NEW b \in 0..q, NEW r \in 0..7
  PROVE  8 * (a + b) + r <= 16 * q + 7
  OBVIOUS

LEMMA StepsLeftFalls ==
  ASSUME TypeOK, TypeOK', Stopping, LoopMoves
  PROVE  StepsLeft' < StepsLeft
<1>1. cancelled /\ ~ listening
  BY DEF Stopping
<1>2. /\ \A k \in Kind : Len(queue[k]) \in Nat /\ Len(queue'[k]) \in Nat
      /\ "press" \in Kind /\ "human" \in Kind
  BY DEF TypeOK, QueueType, Kind
<1>3. /\ Rank(pc, line) \in 0..7 /\ Rank(pc', line') \in 0..7
      /\ pc \in PC /\ pc' \in PC /\ line \in Kind /\ line' \in Kind
  BY RankType DEF TypeOK, LoopType
<1>4. ASSUME NEW k \in Kind, queue[k] # <<>>, queue' = [queue EXCEPT ![k] = Tail(@)]
      PROVE  StepsLeft' < StepsLeft
  <2>1. /\ Len(queue'[k]) = Len(queue[k]) - 1
        /\ \A j \in Kind : j # k => Len(queue'[j]) = Len(queue[j])
    BY <1>4, TypeFacts DEF TypeOK, QueueType
  <2>2. k = "press" \/ k = "human"
    BY DEF Kind
  <2> QED BY <1>2, <1>3, <2>1, <2>2, FewerQueued DEF StepsLeft
<1>5. ASSUME UNCHANGED queue, Rank(pc', line') < Rank(pc, line)
      PROVE  StepsLeft' < StepsLeft
  BY <1>2, <1>3, <1>5, LowerRank DEF StepsLeft
<1>6. CASE PollPress \/ \E k \in Kind : SelectEvent(k)
  BY <1>2, <1>4, <1>6 DEF PollPress, SelectEvent, Take
<1>7. CASE DrainLate \/ DrainStale \/ DrainSend
  BY <1>3, <1>4, <1>7 DEF DrainLate, DrainStale, DrainSend, DropFront, Draining
<1>8. CASE Abandon \/ SendStale \/ AckTimeout \/ Acked \/ TokenFails
  <2>1. UNCHANGED queue /\ NextEvent /\ pc \in {"closed", "hold", "send", "ack", "flush"}
    BY <1>8 DEF Abandon, SendStale, AckTimeout, Acked, TokenFails, PublishFailed, CountPublished,
       AwaitingToken
  <2>2. Rank(pc', line') < Rank(pc, line)
    BY <2>1 DEF NextEvent, Goto, Rank
  <2> QED BY <1>5, <2>1, <2>2
<1>9. CASE StartDrain \/ CheckOpen \/ Wake \/ SendFresh \/ DrainNext
  <2>1. UNCHANGED queue
    BY <1>9 DEF StartDrain, CheckOpen, Wake, SendFresh, SendCur, DrainNext
  <2>2. Rank(pc', line') < Rank(pc, line)
    BY <1>9 DEF StartDrain, CheckOpen, Wake, SendFresh, SendCur, DrainNext, Goto, Rank
  <2> QED BY <1>5, <2>1, <2>2
<1> QED BY <1>1, <1>6, <1>7, <1>8, <1>9 DEF LoopMoves, LoopStep, PollNone, GiveUpStale, KeepHolding

LEMMA StepsLeftKept ==
  ASSUME Stopping, [Next]_vars, ~ LoopMoves
  PROVE  StepsLeft' = StepsLeft
<1>1. UNCHANGED <<queue, pc, line>>
  BY DEF Stopping, Next, LoopMoves, Environment, Enqueue, ConnectionUp, OnConnect, ConnectionLost,
     BrokerReceives, Cancel, ListenerStops, Tick, loopVars, vars
<1> QED BY <1>1 DEF StepsLeft

(* And in a bounded number of steps, whatever the broker does meanwhile: once  *)
(* the event stream has ended every step of ProcessQueue brings it nearer its  *)
(* return, and no other step takes it away again.                              *)
THEOREM ShutdownStepsBounded ==
  Spec => [][Stopping => /\ StepsLeft <= 16 * QueueCap + 7
                         /\ LoopMoves => StepsLeft' < StepsLeft
                         /\ ~ LoopMoves => StepsLeft' = StepsLeft]_vars
<1> DEFINE Nearer ==
      Stopping => /\ StepsLeft <= 16 * QueueCap + 7
                  /\ LoopMoves => StepsLeft' < StepsLeft
                  /\ ~ LoopMoves => StepsLeft' = StepsLeft
<1>1. TypeOK => StepsLeft <= 16 * QueueCap + 7
  <2> SUFFICES ASSUME TypeOK PROVE StepsLeft <= 16 * QueueCap + 7
    OBVIOUS
  <2>1. \A k \in Kind : Len(queue[k]) \in 0..QueueCap
    BY TypeFacts, DeliveryAssumption DEF TypeOK, QueueType
  <2>2. Rank(pc, line) \in 0..7
    BY RankType DEF TypeOK, LoopType
  <2>3. QueueCap \in Nat
    BY DeliveryAssumption
  <2> QED BY <2>1, <2>2, <2>3, AtMostQueued DEF StepsLeft, Kind
<1>2. TypeOK /\ TypeOK' /\ [Next]_vars => [Nearer]_vars
  BY <1>1, StepsLeftFalls, StepsLeftKept
<1>3. Spec => []TypeOK
  BY TypeCorrect
<1> QED BY <1>2, <1>3, PTL DEF Spec
-----------------------------------------------------------------------------
(* Companion: beside the snapshotter, EventDelivery does nothing it does not *)
(* do alone.                                                                 *)
LEMMA DeliverySteps == [CompanionNext]_all => [Next]_vars
<1> SUFFICES ASSUME [CompanionNext]_all PROVE [Next]_vars
  OBVIOUS
<1>1. ASSUME NEW k \in Kind, CallbackQueues(k) PROVE Next
  BY <1>1 DEF CallbackQueues, Next, Environment
<1>2. CASE CallbackAsks
  BY <1>2 DEF CallbackAsks
<1>3. CASE CallbackEnds
  BY <1>3 DEF CallbackEnds, Next, Environment
<1>4. ASSUME NEW g \in Shots!Gen, StillStep(g) PROVE UNCHANGED vars
  BY <1>4 DEF StillStep
<1>5. CASE Stop
  BY <1>5 DEF Stop, Next, Environment
<1>6. CASE MainStep
  BY <1>6 DEF MainStep, PartsEnd, SnapshotsEnd, Disconnect, Next, Environment
<1>7. CASE DeliveryStep
  BY <1>7 DEF DeliveryStep, BrokerStep, Next, Environment
<1>8. CASE TimePasses
  BY <1>8 DEF TimePasses, Next, Environment
<1>9. CASE IdleTimePasses
  BY <1>9 DEF IdleTimePasses
<1>10. CASE UNCHANGED all
  BY <1>10 DEF all
<1> QED BY <1>1, <1>2, <1>3, <1>4, <1>5, <1>6, <1>7, <1>8, <1>9, <1>10 DEF CompanionNext

(* The event queues keep their promises in the whole service: what is proved *)
(* above of Spec holds of CompanionSpec (main.go starts both on one context). *)
THEOREM DeliveryInCompanion == CompanionSpec => Spec
<1>1. CompanionInit => Init
  BY DEF CompanionInit
<1> QED BY <1>1, DeliverySteps, PTL DEF CompanionSpec, Spec

(* Whatever the loop, the broker and time do, the snapshotter keeps its state. *)
LEMMA ShotsKept ==
  ASSUME UNCHANGED shotVars, UNCHANGED listening, UNCHANGED cancelled
  PROVE  UNCHANGED Shots!vars
  BY DEF shotVars, Shots!vars, Shots!slot

LEMMA ContextKept ==
  ASSUME \/ UNCHANGED vars \/ (\E k \in Kind : Enqueue(k)) \/ LoopStep \/ BrokerStep \/ Tick
  PROVE  UNCHANGED listening /\ UNCHANGED cancelled
  BY DEF vars, ctxVars, Enqueue, LoopStep, BrokerStep, Tick,
     PollPress, PollNone, SelectEvent, StartDrain, CheckOpen, Abandon, GiveUpStale, KeepHolding,
     WaitForBroker, Wake, SendStale, SendFresh, SendCur, AckTimeout, DrainNext, Acked, TokenFails,
     PublishFailed, CountPublished, ConnectionUp, OnConnect, ConnectionLost, BrokerReceives,
     DrainLate, DrainStale, DropFront, DrainSend, Take

LEMMA ShotsSteps == [CompanionNext]_all => [Shots!Next]_(Shots!vars)
<1> SUFFICES ASSUME [CompanionNext]_all PROVE [Shots!Next]_(Shots!vars)
  OBVIOUS
<1>1. ASSUME NEW k \in Kind, CallbackQueues(k) PROVE UNCHANGED Shots!vars
  BY <1>1, ShotsKept, ContextKept DEF CallbackQueues
<1>2. CASE CallbackAsks
  BY <1>2 DEF CallbackAsks, Requested, Shots!Next, Shots!Request
<1>3. CASE CallbackEnds
  <2>1. Shots!ListenerStops
    BY <1>3 DEF CallbackEnds, ListenerStops, shotVars, Shots!ListenerStops, Shots!slot
  <2> QED BY <2>1 DEF Shots!Next
<1>4. ASSUME NEW g \in Shots!Gen, StillStep(g) PROVE [Shots!Next]_(Shots!vars)
  <2>1. CASE ImageHanded(g)
    BY <2>1, ShotsKept DEF ImageHanded
  <2>2. CASE Shots!FetchStep(g) \/ Shots!Expire(g)
    BY <2>2 DEF Shots!Next
  <2> QED BY <1>4, <2>1, <2>2 DEF StillStep, FetchEnds, AfterFetch, ImageDropped, ImageSettled,
        Shots!FetchStep, Shots!GoroutineStep
<1>5. CASE Stop
  BY <1>5 DEF Stop, Shots!Next
<1>6. CASE MainStep
  <2>1. CASE PartsEnd
    BY <2>1, ShotsKept, ContextKept DEF PartsEnd
  <2>2. CASE SnapshotsEnd
    BY <2>2 DEF SnapshotsEnd, Waited, Shots!Next
  <2>3. CASE Disconnect
    BY <2>3, ShotsKept, ContextKept DEF Disconnect, BrokerStep
  <2> QED BY <1>6, <2>1, <2>2, <2>3 DEF MainStep
<1>7. CASE DeliveryStep \/ TimePasses \/ IdleTimePasses
  BY <1>7, ShotsKept, ContextKept DEF DeliveryStep, TimePasses, IdleTimePasses
<1>8. CASE UNCHANGED all
  BY <1>8, ShotsKept, ContextKept DEF all
<1> QED BY <1>1, <1>2, <1>3, <1>4, <1>5, <1>6, <1>7, <1>8 DEF CompanionNext

(* The snapshotter keeps its promises too, with the callback that asks for a *)
(* still after every queued event as its only caller.                        *)
THEOREM SnapshotterInCompanion == CompanionSpec => Shots!Spec
<1>1. CompanionInit => Shots!Init
  BY DEF CompanionInit
<1> QED BY <1>1, ShotsSteps, PTL DEF CompanionSpec, Shots!Spec
-----------------------------------------------------------------------------
(* The order of main's waits: why NothingLeftBehind is inductive. *)
Ordered ==
  /\ asking # NoKind => listening
  /\ main # "serving" => cancelled /\ ~ listening /\ pc = "stopped"
  /\ main \in {"leaving", "gone"} => \A g \in Shots!Gen : ~ Shots!Active(g)

(* What NothingLeftBehind is about, and what is left of it to do. *)
work == <<queue, loopVars, sent, counters, shotVars, asking, handed>>

LEMMA OrderedInit == CompanionInit => Ordered
  BY DEF CompanionInit, Ordered

(* A generation that is not active takes no step. *)
LEMMA FetchIsOver ==
  ASSUME NEW g \in Shots!Gen, ~ Shots!Active(g)
  PROVE  ~ Shots!FetchStep(g) /\ ~ Shots!Expire(g) /\ ~ Publishing(g)
  BY DEF Shots!Active, Shots!FetchStep, Shots!GoroutineStep, Shots!Fetched, Shots!FetchFails,
     Shots!LookAtContext, Shots!Published, Shots!Finish, Shots!Expire, Shots!Moves, Publishing

LEMMA StillStepIs ==
  ASSUME NEW g \in Shots!Gen, StillStep(g)
  PROVE  /\ Shots!FetchStep(g) \/ Shots!Expire(g) \/ Publishing(g)
         /\ UNCHANGED <<gen, press, asked, priority>>
<1>1. Shots!FetchStep(g) \/ Shots!Expire(g) \/ ImageHanded(g)
  BY DEF StillStep, FetchEnds, AfterFetch, ImageDropped, ImageSettled,
     Shots!FetchStep, Shots!GoroutineStep
<1>2. Shots!FetchStep(g) \/ Shots!Expire(g) => UNCHANGED <<gen, press, asked, priority>>
  BY DEF Shots!FetchStep, Shots!GoroutineStep, Shots!Fetched, Shots!FetchFails, Shots!slot,
     Shots!LookAtContext, Shots!Published, Shots!Finish, Shots!Expire
<1>3. ImageHanded(g) => Publishing(g) /\ UNCHANGED <<gen, press, asked, priority>>
  BY DEF ImageHanded, shotVars
<1> QED BY <1>1, <1>2, <1>3

(* With the parts over, the connection is all that still changes. *)
LEMMA DeliveryIsOver ==
  ASSUME TypeOK, pc = "stopped", ~ listening, cancelled, asking = NoKind, [CompanionNext]_all
  PROVE  /\ UNCHANGED <<queue, loopVars, sent, counters, ctxVars, asking>>
         /\ UNCHANGED <<shotVars, handed, main>> \/ MainStep \/ \E g \in Shots!Gen : StillStep(g)
<1>1. ASSUME NEW k \in Kind PROVE ~ CallbackQueues(k)
  BY DEF CallbackQueues, Enqueue
<1>2. ~ CallbackAsks /\ ~ CallbackEnds /\ ~ Stop
  BY DEF CallbackAsks, CallbackEnds, ListenerStops, Stop, Cancel
<1>3. ASSUME NEW g \in Shots!Gen, StillStep(g)
      PROVE  UNCHANGED <<vars, asking>>
  BY <1>3 DEF StillStep
<1>4. ASSUME MainStep
      PROVE  UNCHANGED <<queue, loopVars, sent, counters, ctxVars, asking>>
  BY <1>4 DEF MainStep, PartsEnd, SnapshotsEnd, Disconnect, ConnectionLost, links, vars, counters
<1>5. ASSUME DeliveryStep
      PROVE  /\ UNCHANGED <<queue, loopVars, sent, counters, ctxVars, asking>>
             /\ UNCHANGED <<shotVars, handed, main>>
  BY <1>5, LoopIsOver DEF DeliveryStep, BrokerStep, OnConnect, ConnectionLost, ConnectionUp,
     BrokerReceives, links
<1>6. ASSUME TimePasses \/ IdleTimePasses
      PROVE  UNCHANGED vars /\ UNCHANGED <<shotVars, asking, handed, main>>
  <2>1. ~ Tick
    BY DEF Tick, TypeOK, LoopType
  <2> QED BY <1>6, <2>1 DEF TimePasses, IdleTimePasses
<1>7. ASSUME UNCHANGED all
      PROVE  UNCHANGED <<vars, shotVars, asking, handed, main>>
  BY <1>7 DEF all, links
<1>8. UNCHANGED vars => UNCHANGED <<queue, loopVars, sent, counters, ctxVars>>
  BY DEF vars
<1> QED BY <1>1, <1>2, <1>3, <1>4, <1>5, <1>6, <1>7, <1>8 DEF CompanionNext

LEMMA OrderedStep == TypeOK /\ Ordered /\ [CompanionNext]_all => Ordered'
<1> SUFFICES ASSUME TypeOK, Ordered, [CompanionNext]_all PROVE Ordered'
  OBVIOUS
<1>1. CASE main = "serving" /\ ~ MainStep
  <2> DEFINE Stays == main' = "serving" /\ (asking' # NoKind => listening')
  <2>1. Stays
    <3>1. ASSUME NEW k \in Kind, CallbackQueues(k) PROVE Stays
      BY <1>1, <3>1 DEF CallbackQueues, Enqueue, ctxVars
    <3>2. CASE CallbackAsks \/ CallbackEnds
      BY <1>1, <3>2 DEF CallbackAsks, CallbackEnds, links
    <3>3. ASSUME NEW g \in Shots!Gen, StillStep(g) PROVE Stays
      BY <1>1, <3>3, ContextKept DEF StillStep, Ordered
    <3>4. CASE Stop
      BY <1>1, <3>4 DEF Stop, Cancel, links, Ordered
    <3>5. CASE DeliveryStep \/ TimePasses \/ IdleTimePasses
      BY <1>1, <3>5, ContextKept DEF DeliveryStep, TimePasses, IdleTimePasses, links, Ordered
    <3>6. CASE UNCHANGED all
      BY <1>1, <3>6, ContextKept DEF all, links, Ordered
    <3> QED BY <1>1, <3>1, <3>2, <3>3, <3>4, <3>5, <3>6 DEF CompanionNext
  <2> QED BY <2>1 DEF Ordered
<1>2. CASE main = "serving" /\ MainStep
  BY <1>2 DEF MainStep, PartsEnd, PartsEnded, SnapshotsEnd, Disconnect, Ordered, vars, links,
     ctxVars, loopVars
<1>3. CASE main # "serving"
  <2>1. pc = "stopped" /\ ~ listening /\ cancelled /\ asking = NoKind
    BY <1>3 DEF Ordered
  <2>2. UNCHANGED <<loopVars, ctxVars, asking>>
    BY <2>1, DeliveryIsOver
  <2>3. cancelled' /\ ~ listening' /\ pc' = "stopped" /\ asking' = NoKind
    BY <2>1, <2>2 DEF loopVars, ctxVars
  <2>4. ASSUME main' \in {"leaving", "gone"}
        PROVE  \A g \in Shots!Gen : ~ Shots!Active(g)'
    <3>1. CASE main \in {"leaving", "gone"}
      <4>1. \A g \in Shots!Gen : ~ StillStep(g)
        BY <3>1, FetchIsOver, StillStepIs DEF Ordered
      <4>2. ~ SnapshotsEnd /\ ~ PartsEnd
        BY <3>1 DEF SnapshotsEnd, PartsEnd
      <4>3. UNCHANGED phase
        BY <2>1, <4>1, <4>2, DeliveryIsOver DEF MainStep, Disconnect, shotVars
      <4> QED BY <3>1, <4>3 DEF Ordered, Shots!Active
    <3>2. CASE main \notin {"leaving", "gone"}
      <4>1. SnapshotsEnd
        BY <2>1, <2>4, <3>2, DeliveryIsOver, StillStepIs DEF MainStep, PartsEnd, Disconnect, StillStep
      <4> QED BY <4>1 DEF SnapshotsEnd, Waited, Shots!WaitReturns, Shots!Active
    <3> QED BY <3>1, <3>2
  <2> QED BY <2>3, <2>4 DEF Ordered
<1> QED BY <1>1, <1>2, <1>3

(* main, the callback and the fetches keep to the order of the shutdown. *)
THEOREM OrderedHolds == CompanionSpec => [](TypeOK /\ Ordered)
<1>1. CompanionSpec => []TypeOK
  BY DeliveryInCompanion, TypeCorrect, PTL
<1> QED BY <1>1, OrderedInit, OrderedStep, PTL DEF CompanionSpec

(* When main disconnects, what it waited for is over: no event is queued or   *)
(* held, no still is fetched or published (wg.Wait, snapshots.Wait, main.go). *)
THEOREM NothingLeftBehindHolds == CompanionSpec => []NothingLeftBehind
<1>1. Ordered => NothingLeftBehind
  BY DEF Ordered, NothingLeftBehind
<1> QED BY <1>1, OrderedHolds, PTL

(* And nothing begins again: from then on no event is queued, sent, dropped  *)
(* or counted, and no still asked for, whatever the broker still does.       *)
THEOREM QuietAfterWait ==
  CompanionSpec => [][(main \in {"leaving", "gone"}) => UNCHANGED work]_all
<1>1. TypeOK /\ Ordered /\ [CompanionNext]_all
        => [(main \in {"leaving", "gone"}) => UNCHANGED work]_all
  <2> SUFFICES ASSUME TypeOK, Ordered, [CompanionNext]_all, main \in {"leaving", "gone"}
               PROVE  UNCHANGED work
    OBVIOUS
  <2>1. pc = "stopped" /\ ~ listening /\ cancelled /\ asking = NoKind
    BY DEF Ordered
  <2>2. \A g \in Shots!Gen : ~ StillStep(g)
    BY FetchIsOver, StillStepIs DEF Ordered
  <2>3. UNCHANGED <<shotVars, handed, main>> \/ Disconnect
    BY <2>1, <2>2, DeliveryIsOver DEF MainStep, SnapshotsEnd, PartsEnd
  <2>4. UNCHANGED <<shotVars, handed>>
    BY <2>3 DEF Disconnect, links
  <2> QED BY <2>1, <2>4, DeliveryIsOver DEF work
<1> QED BY <1>1, OrderedHolds, PTL DEF CompanionSpec
-----------------------------------------------------------------------------
(* Every still was asked for one event of its own: of a kind that is to have *)
(* one, already reported, and later than the event of any earlier still of   *)
(* the kind; and it is fetched as a press's exactly if its event is one.     *)
Started == 1..gen
ReportedBefore(k) == IF asking = k THEN offered[k] - 1 ELSE offered[k]
StillsOfEvents ==
  \A g \in Started :
    /\ of[g].kind \in SnapshotKinds /\ of[g].n \in 1..ReportedBefore(of[g].kind)
    /\ press[g] <=> of[g].kind = "press"
    /\ \A h \in Started : h < g /\ of[h].kind = of[g].kind => of[h].n < of[g].n

StillsType ==
  /\ gen \in Nat /\ asked \in Nat /\ gen <= asked /\ asked <= MaxRequests
  /\ of \in [Shots!Gen -> Event \cup {NoEvent}] /\ press \in [Shots!Gen -> BOOLEAN]
  /\ asking # NoKind => asking \in SnapshotKinds /\ offered[asking] > 0

StillsInv == StillsType /\ StillsOfEvents

LEMMA StillsInit == CompanionInit => StillsInv
<1> SUFFICES ASSUME CompanionInit PROVE StillsInv
  OBVIOUS
<1>1. gen = 0 /\ asked = 0 /\ asking = NoKind
  BY DEF CompanionInit, Shots!Init
<1>2. StillsType
  BY <1>1, CompanionAssumption DEF CompanionInit, Shots!Init, StillsType
<1>3. Started = {}
  BY <1>1 DEF Started
<1> QED BY <1>2, <1>3 DEF StillsInv, StillsOfEvents

(* No step but the callback's queueing changes what was reported. *)
LEMMA OfferedKept ==
  ASSUME \/ UNCHANGED vars \/ ListenerStops \/ Cancel \/ LoopStep \/ BrokerStep \/ Tick
  PROVE  UNCHANGED offered
  BY DEF vars, counters, ListenerStops, Cancel, LoopStep, BrokerStep, Tick,
     PollPress, PollNone, SelectEvent, StartDrain, CheckOpen, Abandon, GiveUpStale, KeepHolding,
     WaitForBroker, Wake, SendStale, SendFresh, SendCur, AckTimeout, DrainNext, Acked, TokenFails,
     PublishFailed, CountPublished, ConnectionUp, OnConnect, ConnectionLost, BrokerReceives,
     DrainLate, DrainStale, DropFront, DrainSend, Take

(* A step that asks for no still, and reports no event, leaves them as they are. *)
LEMMA StillsKept ==
  ASSUME StillsInv, UNCHANGED <<gen, asked, press, of, asking, offered>>
  PROVE  StillsInv'
  BY DEF StillsInv, StillsType, StillsOfEvents, Started, ReportedBefore

LEMMA StillsQueued ==
  ASSUME TypeOK, StillsInv, NEW k \in Kind, CallbackQueues(k)
  PROVE  StillsInv'
<1>1. /\ UNCHANGED <<gen, asked, press, of>> /\ asking = NoKind
      /\ asking' = IF k \in SnapshotKinds THEN k ELSE NoKind
      /\ offered' = [offered EXCEPT ![k] = @ + 1]
  BY DEF CallbackQueues, Enqueue, shotVars
<1>2. \A j \in Kind : offered[j] \in Nat /\ offered'[j] = IF j = k THEN offered[j] + 1 ELSE offered[j]
  BY <1>1, DeliveryAssumption DEF TypeOK, CountType
<1>3. NoKind \notin Kind
  BY DEF Kind, NoKind
<1> DEFINE After(j) == IF asking' = j THEN offered'[j] - 1 ELSE offered'[j]
<1>4. ASSUME NEW j \in Kind PROVE offered[j] <= After(j) /\ ReportedBefore(j) = offered[j]
  BY <1>1, <1>2, <1>3 DEF ReportedBefore
<1>5. StillsType'
  BY <1>1, <1>2 DEF StillsInv, StillsType
<1>6. StillsOfEvents'
  <2> SUFFICES \A g \in Started : of[g].n \in 1..After(of[g].kind)
    BY <1>1 DEF StillsInv, StillsOfEvents, Started, ReportedBefore
  <2> TAKE g \in Started
  <2>1. of[g].kind \in Kind /\ of[g].n \in 1..offered[of[g].kind]
    BY <1>4, CompanionAssumption DEF StillsInv, StillsOfEvents
  <2>2. After(of[g].kind) \in Int /\ offered[of[g].kind] <= After(of[g].kind)
    BY <1>2, <1>4, <2>1
  <2> QED BY <1>2, <2>1, <2>2
<1> QED BY <1>5, <1>6 DEF StillsInv

LEMMA StillsAsked ==
  ASSUME TypeOK, StillsInv, CallbackAsks
  PROVE  StillsInv'
<1>1. /\ asking # NoKind /\ asking' = NoKind /\ UNCHANGED offered
  BY OfferedKept DEF CallbackAsks
<1>2. asking \in SnapshotKinds /\ asking \in Kind
  BY <1>1, CompanionAssumption DEF StillsInv, StillsType
<1>3. \A j \in Kind : offered[j] \in Nat
  BY DeliveryAssumption DEF TypeOK, CountType
<1>4. /\ offered[asking] > 0
      /\ \A j \in Kind : ReportedBefore(j) = IF j = asking THEN offered[j] - 1 ELSE offered[j]
  BY <1>1, <1>2 DEF StillsInv, StillsType, ReportedBefore, Kind, NoKind
<1>5. asked \in Nat /\ asked' = asked + 1 /\ asked < MaxRequests /\ gen \in Nat /\ gen <= asked
  BY DEF CallbackAsks, Requested, Shots!Refused, Shots!Skip, Shots!Start, Shots!Asking, StillsInv, StillsType
<1>6. MaxRequests \in Nat
  BY CompanionAssumption
<1>7. CASE UNCHANGED <<gen, press, of>>
  <2>1. StillsType'
    BY <1>1, <1>5, <1>6, <1>7 DEF StillsInv, StillsType
  <2>2. StillsOfEvents'
    <3>1. ASSUME NEW g \in Started PROVE of[g].kind \in Kind /\ of[g].n \in 1..offered[of[g].kind]
      BY <1>3, <1>4, CompanionAssumption DEF StillsInv, StillsOfEvents
    <3> QED BY <1>1, <1>7, <3>1, CompanionAssumption
         DEF StillsInv, StillsOfEvents, Started, ReportedBefore, Kind, NoKind
  <2> QED BY <2>1, <2>2 DEF StillsInv
<1>8. CASE Shots!Start(asking = "press")
           /\ of' = [of EXCEPT ![gen + 1] = [kind |-> asking, n |-> offered[asking]]]
  <2>1. /\ gen' = gen + 1 /\ gen + 1 \in Shots!Gen
        /\ press' = [press EXCEPT ![gen + 1] = (asking = "press")]
    BY <1>5, <1>6, <1>8 DEF Shots!Start, Shots!NextGeneration, Shots!Gen
  <2>2. StillsType'
    <3>1. [kind |-> asking, n |-> offered[asking]] \in Event
      BY <1>2, <1>3, <1>4, DeliveryAssumption DEF TypeOK, CountType, Event
    <3>2. of' \in [Shots!Gen -> Event \cup {NoEvent}]
      BY <1>8, <3>1 DEF StillsInv, StillsType
    <3>3. press' \in [Shots!Gen -> BOOLEAN]
      BY <2>1 DEF StillsInv, StillsType
    <3> QED BY <1>1, <1>5, <1>6, <2>1, <3>2, <3>3 DEF StillsInv, StillsType
  <2>3. /\ of'[gen + 1].kind = asking /\ of'[gen + 1].n = offered[asking]
        /\ press'[gen + 1] <=> asking = "press"
    BY <1>8, <2>1 DEF StillsInv, StillsType
  <2>4. ASSUME NEW g \in Started
        PROVE  of'[g] = of[g] /\ press'[g] = press[g] /\ g < gen + 1 /\ g \in Shots!Gen
    BY <1>5, <1>6, <1>8, <2>1 DEF StillsInv, StillsType, Started, Shots!Gen
  <2>5. Started' = Started \cup {gen + 1}
    BY <1>5, <2>1 DEF Started
  <2>6. ASSUME NEW g \in Started
        PROVE  /\ of[g].kind \in Kind /\ of[g].n \in 1..offered[of[g].kind]
               /\ of[g].kind = asking => of[g].n < offered[asking]
    BY <1>2, <1>3, <1>4, CompanionAssumption DEF StillsInv, StillsOfEvents
  <2>7. ASSUME NEW g \in Started'
        PROVE  /\ of'[g].kind \in SnapshotKinds /\ of'[g].n \in 1..offered[of'[g].kind]
               /\ press'[g] <=> of'[g].kind = "press"
    <3>1. CASE g \in Started
      BY <1>4, <2>4, <2>6, <3>1 DEF StillsInv, StillsOfEvents
    <3>2. CASE g = gen + 1
      BY <1>2, <1>3, <1>4, <2>3, <3>2
    <3> QED BY <2>5, <3>1, <3>2
  <2>8. ASSUME NEW g \in Started', NEW h \in Started', h < g, of'[h].kind = of'[g].kind
        PROVE  of'[h].n < of'[g].n
    <3>1. h \in Started
      BY <1>5, <2>1, <2>8 DEF Started
    <3>2. CASE g \in Started
      BY <2>4, <2>8, <3>1, <3>2 DEF StillsInv, StillsOfEvents
    <3>3. CASE g = gen + 1
      BY <2>3, <2>4, <2>6, <2>8, <3>1, <3>3
    <3> QED BY <2>5, <3>2, <3>3
  <2>9. StillsOfEvents'
    BY <1>1, <2>7, <2>8, CompanionAssumption DEF StillsOfEvents, ReportedBefore, Kind, NoKind
  <2> QED BY <2>2, <2>9 DEF StillsInv
<1> QED BY <1>7, <1>8 DEF CallbackAsks, Requested, Shots!Refused, Shots!Skip, Shots!slot

LEMMA StillsStep == TypeOK /\ StillsInv /\ [CompanionNext]_all => StillsInv'
<1> SUFFICES ASSUME TypeOK, StillsInv, [CompanionNext]_all PROVE StillsInv'
  OBVIOUS
<1>1. ASSUME NEW k \in Kind, CallbackQueues(k) PROVE StillsInv'
  BY <1>1, StillsQueued
<1>2. CASE CallbackAsks
  BY <1>2, StillsAsked
<1>3. CASE CallbackEnds
  BY <1>3, StillsKept, OfferedKept DEF CallbackEnds, shotVars, links
<1>4. ASSUME NEW g \in Shots!Gen, StillStep(g) PROVE StillsInv'
  BY <1>4, StillsKept, OfferedKept, StillStepIs DEF StillStep
<1>5. CASE Stop
  BY <1>5, StillsKept, OfferedKept DEF Stop, Shots!Stop, Shots!slot, links
<1>6. CASE MainStep
  <2>1. UNCHANGED <<gen, asked, press, of, asking>>
    BY <1>6 DEF MainStep, PartsEnd, SnapshotsEnd, Disconnect, Waited, Shots!WaitReturns, Shots!slot,
       shotVars, links
  <2>2. UNCHANGED offered
    BY <1>6, OfferedKept DEF MainStep, PartsEnd, SnapshotsEnd, Disconnect, BrokerStep
  <2> QED BY <2>1, <2>2, StillsKept
<1>7. CASE DeliveryStep \/ TimePasses \/ IdleTimePasses
  BY <1>7, StillsKept, OfferedKept DEF DeliveryStep, TimePasses, IdleTimePasses, shotVars, links
<1>8. CASE UNCHANGED all
  BY <1>8, StillsKept, OfferedKept DEF all, shotVars, links
<1> QED BY <1>1, <1>2, <1>3, <1>4, <1>5, <1>6, <1>7, <1>8 DEF CompanionNext

(* An image goes out with the event it was asked for, and no event has two   *)
(* (publishAndSnapshot, main.go: the callback queues and asks in one call).   *)
THEOREM StillsOfEventsHolds == CompanionSpec => []StillsOfEvents
<1>1. CompanionSpec => []TypeOK
  BY DeliveryInCompanion, TypeCorrect, PTL
<1>2. StillsInv => StillsOfEvents
  BY DEF StillsInv
<1> QED BY <1>1, <1>2, StillsInit, StillsStep, PTL DEF CompanionSpec
=============================================================================
