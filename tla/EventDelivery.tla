--------------------------- MODULE EventDelivery ---------------------------
(***************************************************************************)
(* The event queues of pkg/mqtt and the goroutine that empties them:       *)
(* PublishPress and PublishHuman queue events without ever blocking, and   *)
(* ProcessQueue hands them to the broker client, presses first, holding    *)
(* the current event while the broker is unreachable, dropping what is     *)
(* older than maxEventAge, and flushing what is queued at shutdown.        *)
(*                                                                         *)
(* Time is counted in ticks and passes only while ProcessQueue is blocked  *)
(* (its own steps take no time); no tick passes the end of a wait.         *)
(***************************************************************************)
EXTENDS Integers, Sequences, FiniteSets

CONSTANTS
  MaxEvents,        \* bound: events the camera reports, presses and detections
  QueueCap,         \* capacity of each channel (100 in the code)
  MaxEventAge,      \* maxEventAge, in ticks
  ReconnectPoll,    \* reconnectPoll
  PublishTimeout,   \* publishTimeout
  DrainTimeout,     \* drainTimeout
  MaxCallbacks      \* bound: OnConnect callbacks started and not yet signalling

ASSUME DeliveryAssumption ==
  /\ MaxEvents \in Nat
  /\ QueueCap \in Nat \ {0}
  /\ MaxEventAge \in Nat
  /\ ReconnectPoll \in Nat \ {0}
  /\ PublishTimeout \in Nat \ {0}
  /\ DrainTimeout \in Nat \ {0}
  /\ MaxCallbacks \in Nat \ {0}

Kind == {"press", "human"}
Reason == {"queue_full", "stale", "publish_failed", "shutdown"}

(* Event n of kind k is the n-th one PublishPress or PublishHuman was given. *)
Event == [kind: Kind, n: 1..MaxEvents]
NoEvent == [kind |-> "press", n |-> 0]

(* An age beyond every limit the code compares it with. *)
AgeCap == MaxEventAge + ReconnectPoll + 1

VARIABLES
  queue,        \* the two channels: events waiting, by kind
  pc,           \* where ProcessQueue is
  cur,          \* the event it has taken from a queue and not yet settled
  line,         \* the queue drain is flushing
  timer,        \* ticks left of the wait it is in
  drainLeft,    \* ticks left until drain's deadline
  age,          \* time.Since(ev.received), by kind and number
  listening,    \* the event stream goroutine may still report events
  cancelled,    \* ctx is done
  open,         \* IsConnectionOpen
  announcing,   \* OnConnect callbacks started and not yet signalling
  reconnected,  \* the one-slot reconnected channel holds a signal
  sent,         \* events handed to client.Publish, in order, by kind
  inflight,     \* of those, the ones that may still reach the broker
  arrived,      \* and the ones the broker has received
  offered,      \* events given to PublishPress / PublishHuman, by kind
  published,    \* metrics.EventsPublished, by kind
  dropped,      \* metrics.EventsDropped, by kind and reason
  overtakes     \* detections taken while a press was waiting (history)

loopVars   == <<pc, cur, line, timer, drainLeft, overtakes>>
brokerVars == <<open, announcing, reconnected, inflight, arrived>>
ctxVars    == <<listening, cancelled>>
counters   == <<offered, published, dropped>>
vars == <<queue, loopVars, age, ctxVars, brokerVars, sent, counters>>

Init ==
  /\ queue = [k \in Kind |-> <<>>]
  /\ pc = "poll" /\ cur = NoEvent /\ line = "press"
  /\ timer = 0 /\ drainLeft = 0 /\ overtakes = 0
  /\ age = [k \in Kind |-> [n \in 1..MaxEvents |-> AgeCap]]
  /\ listening = TRUE /\ cancelled = FALSE
  /\ open = FALSE /\ announcing = 0 /\ reconnected = FALSE
  /\ sent = [k \in Kind |-> <<>>] /\ inflight = {} /\ arrived = {}
  /\ offered = [k \in Kind |-> 0]
  /\ published = [k \in Kind |-> 0]
  /\ dropped = [k \in Kind |-> [r \in Reason |-> 0]]
-----------------------------------------------------------------------------
(* Queueing: PublishPress and PublishHuman, called by the event stream.    *)

HasRoom(k) == Len(queue[k]) < QueueCap

Dropping(k, why) == dropped' = [dropped EXCEPT ![k][why] = @ + 1]

Queued(k) ==
  /\ HasRoom(k)
  /\ queue' = [queue EXCEPT ![k] = Append(@, offered[k] + 1)]
  /\ age' = [age EXCEPT ![k][offered[k] + 1] = 0]
  /\ UNCHANGED dropped

QueueFull(k) ==
  /\ ~ HasRoom(k)
  /\ Dropping(k, "queue_full")
  /\ UNCHANGED <<queue, age>>

Enqueue(k) ==
  /\ listening /\ offered["press"] + offered["human"] < MaxEvents
  /\ offered' = [offered EXCEPT ![k] = @ + 1]
  /\ Queued(k) \/ QueueFull(k)
  /\ UNCHANGED <<loopVars, ctxVars, brokerVars, sent, published>>

-----------------------------------------------------------------------------
(* ProcessQueue: take the next event, a press if one is waiting.           *)

Goto(place) == pc' = place /\ UNCHANGED <<line, drainLeft>>

Take(k) ==
  /\ queue[k] # <<>>
  /\ queue' = [queue EXCEPT ![k] = Tail(@)]
  /\ cur' = [kind |-> k, n |-> Head(queue[k])]
  /\ overtakes' = IF k = "human" /\ queue["press"] # <<>> THEN overtakes + 1 ELSE 0
  /\ Goto("deliver")
  /\ UNCHANGED <<timer, age, ctxVars, brokerVars, sent, counters>>

PollPress == pc = "poll" /\ Take("press")

(* A mutant: the second select without the first one before it. *)
PollNothing ==
  /\ pc = "poll" /\ ~ cancelled
  /\ Goto("select")
  /\ UNCHANGED <<queue, cur, timer, overtakes, age, ctxVars, brokerVars, sent, counters>>

PollNone ==
  /\ pc = "poll" /\ ~ cancelled /\ queue["press"] = <<>>
  /\ Goto("select")
  /\ UNCHANGED <<queue, cur, timer, overtakes, age, ctxVars, brokerVars, sent, counters>>

SelectEvent(k) == pc = "select" /\ Take(k)

StartDrain ==
  /\ pc \in {"poll", "select"} /\ cancelled
  /\ pc' = "drain" /\ line' = "press" /\ drainLeft' = DrainTimeout
  /\ UNCHANGED <<queue, cur, timer, overtakes, age, ctxVars, brokerVars, sent, counters>>

-----------------------------------------------------------------------------
(* deliver: wait for the broker, give up on a stale event, publish once.   *)

Stale(e) == age[e.kind][e.n] > MaxEventAge

(* The event in hand is settled: back to the loop it was taken in. *)
NextEvent ==
  /\ Goto(IF pc = "flush" THEN "drain" ELSE "poll")
  /\ cur' = NoEvent /\ timer' = 0 /\ UNCHANGED overtakes

CheckOpen ==
  /\ pc = "deliver"
  /\ Goto(IF open THEN "send" ELSE "closed")
  /\ UNCHANGED <<queue, cur, timer, overtakes, age, ctxVars, brokerVars, sent, counters>>

(* Shutdown while the broker is unreachable: deliver returns, and the event *)
(* it holds goes with it.                                                  *)
Abandon ==
  /\ pc \in {"closed", "hold"} /\ cancelled
  /\ NextEvent
  /\ UNCHANGED <<queue, age, ctxVars, brokerVars, sent, counters>>

(* A mutant: the stale event in hand is dropped and not counted. *)
GiveUpUncounted ==
  /\ pc = "closed" /\ ~ cancelled /\ Stale(cur) /\ NextEvent
  /\ UNCHANGED <<queue, age, ctxVars, brokerVars, sent, counters>>

GiveUpStale ==
  /\ pc = "closed" /\ ~ cancelled /\ Stale(cur)
  /\ Dropping(cur.kind, "stale") /\ NextEvent
  /\ UNCHANGED <<queue, age, ctxVars, brokerVars, sent, offered, published>>

WaitForBroker ==
  /\ timer' = ReconnectPoll /\ Goto("hold")
  /\ UNCHANGED <<queue, cur, overtakes, age, ctxVars, brokerVars, sent, counters>>

(* A mutant: the hold does not look at the age of what it holds. *)
KeepHoldingForever == pc = "closed" /\ ~ cancelled /\ WaitForBroker

KeepHolding == pc = "closed" /\ ~ cancelled /\ ~ Stale(cur) /\ WaitForBroker

Wake ==
  /\ pc = "hold"
  /\ \/ reconnected /\ reconnected' = FALSE
     \/ timer = 0 /\ UNCHANGED reconnected
  /\ timer' = 0 /\ Goto("deliver")
  /\ UNCHANGED <<queue, cur, overtakes, age, ctxVars, open, announcing, inflight, arrived,
                 sent, counters>>

SendStale ==
  /\ pc = "send" /\ Stale(cur)
  /\ Dropping(cur.kind, "stale") /\ NextEvent
  /\ UNCHANGED <<queue, age, ctxVars, brokerVars, sent, offered, published>>

(* client.Publish at QoS 1: the client library now owns the message.       *)
Publish(e) ==
  /\ sent' = [sent EXCEPT ![e.kind] = Append(@, e.n)]
  /\ inflight' = inflight \cup {e}
  /\ UNCHANGED <<open, announcing, reconnected, arrived>>

SendCur ==
  /\ Publish(cur)
  /\ timer' = PublishTimeout /\ Goto("ack")
  /\ UNCHANGED <<queue, cur, overtakes, age, ctxVars, counters>>

(* A mutant: the age is not looked at again after the hold. *)
SendUnchecked == pc = "send" /\ SendCur

SendFresh == pc = "send" /\ ~ Stale(cur) /\ SendCur

(* What both waits for a publish token end in; Acked and TokenFails are the *)
(* client library's doing, AckTimeout is WaitTimeout giving up.             *)
AwaitingToken == pc \in {"ack", "flush"}

PublishFailed ==
  /\ Dropping(cur.kind, "publish_failed") /\ NextEvent
  /\ UNCHANGED <<queue, age, ctxVars, brokerVars, sent, offered, published>>

CountPublished ==
  /\ published' = [published EXCEPT ![cur.kind] = @ + 1] /\ NextEvent
  /\ UNCHANGED <<queue, age, ctxVars, brokerVars, sent, offered, dropped>>

(* A mutant: the token completes without an acknowledgement (QoS 0). *)
CompletedAtOnce == AwaitingToken /\ CountPublished

Acked == AwaitingToken /\ cur \in arrived /\ CountPublished

(* A mutant: the loop tries again what the broker did not acknowledge. *)
RetryUnacked ==
  /\ AwaitingToken /\ timer = 0 /\ Goto("deliver")
  /\ UNCHANGED <<queue, cur, timer, overtakes, age, ctxVars, brokerVars, sent, counters>>

AckTimeout == AwaitingToken /\ timer = 0 /\ PublishFailed

TokenFails == AwaitingToken /\ PublishFailed
-----------------------------------------------------------------------------
(* drain: at shutdown, flush one queue and then the other until a deadline. *)

Draining == pc = "drain" /\ queue[line] # <<>>

Front == [kind |-> line, n |-> Head(queue[line])]

DropFront(why) ==
  /\ queue' = [queue EXCEPT ![line] = Tail(@)]
  /\ Dropping(line, why)
  /\ UNCHANGED <<loopVars, age, ctxVars, brokerVars, sent, offered, published>>

TooLate == drainLeft <= 0 \/ ~ open

(* A mutant: drain waits for the broker to come back. *)
DrainWaits == Draining /\ drainLeft <= 0 /\ DropFront("shutdown")

DrainLate == Draining /\ TooLate /\ DropFront("shutdown")

DrainStale == Draining /\ ~ TooLate /\ Stale(Front) /\ DropFront("stale")

(* A mutant: every flushed event has the whole drainTimeout to itself. *)
DrainSendFull ==
  /\ Draining /\ ~ TooLate /\ ~ Stale(Front)
  /\ queue' = [queue EXCEPT ![line] = Tail(@)]
  /\ cur' = Front /\ Publish(Front)
  /\ timer' = DrainTimeout /\ Goto("flush")
  /\ UNCHANGED <<overtakes, age, ctxVars, counters>>

DrainSend ==
  /\ Draining /\ ~ TooLate /\ ~ Stale(Front)
  /\ queue' = [queue EXCEPT ![line] = Tail(@)]
  /\ cur' = Front /\ Publish(Front)
  /\ timer' = drainLeft /\ Goto("flush")
  /\ UNCHANGED <<overtakes, age, ctxVars, counters>>

(* A mutant: only the presses are flushed. *)
PressesOnly ==
  /\ pc = "drain" /\ queue[line] = <<>> /\ pc' = "stopped"
  /\ UNCHANGED <<queue, cur, line, timer, drainLeft, overtakes, age, ctxVars, brokerVars, sent,
                 counters>>

(* The queue is empty: on to the detections, and then ProcessQueue returns. *)
DrainNext ==
  /\ pc = "drain" /\ queue[line] = <<>>
  /\ \/ line = "press" /\ line' = "human" /\ UNCHANGED pc
     \/ line = "human" /\ pc' = "stopped" /\ UNCHANGED line
  /\ UNCHANGED <<queue, cur, timer, drainLeft, overtakes, age, ctxVars, brokerVars, sent,
                 counters>>
-----------------------------------------------------------------------------
(* The client library, the broker, the shutdown signal and time.           *)

ConnectionUp ==
  /\ ~ open /\ announcing < MaxCallbacks
  /\ open' = TRUE /\ announcing' = announcing + 1
  /\ UNCHANGED <<queue, loopVars, age, ctxVars, reconnected, inflight, arrived, sent, counters>>

(* A mutant: the reconnected channel has no slot, so a loop that is not yet *)
(* waiting misses the signal.                                                *)
OnConnectUnbuffered ==
  /\ announcing > 0
  /\ announcing' = announcing - 1 /\ reconnected' = (pc = "hold")
  /\ UNCHANGED <<queue, loopVars, age, ctxVars, open, inflight, arrived, sent, counters>>

(* opts.OnConnect, on a goroutine of the library: a signal, unless one waits. *)
OnConnect ==
  /\ announcing > 0
  /\ announcing' = announcing - 1 /\ reconnected' = TRUE
  /\ UNCHANGED <<queue, loopVars, age, ctxVars, open, inflight, arrived, sent, counters>>

(* What was in flight is lost, or is sent again on the next connection. *)
ConnectionLost ==
  /\ open /\ open' = FALSE
  /\ \E kept \in SUBSET inflight : inflight' = kept
  /\ UNCHANGED <<queue, loopVars, age, ctxVars, announcing, reconnected, arrived, sent, counters>>

BrokerReceives(e) ==
  /\ open /\ e \in inflight
  /\ inflight' = inflight \ {e} /\ arrived' = arrived \cup {e}
  /\ UNCHANGED <<queue, loopVars, age, ctxVars, open, announcing, reconnected, sent, counters>>

Cancel ==
  /\ ~ cancelled /\ cancelled' = TRUE
  /\ UNCHANGED <<queue, loopVars, age, listening, brokerVars, sent, counters>>

(* The event stream stops on the same context, some time after it is done. *)
ListenerStops ==
  /\ cancelled /\ listening /\ listening' = FALSE
  /\ UNCHANGED <<queue, loopVars, age, cancelled, brokerVars, sent, counters>>

Tick ==
  /\ timer > 0
  /\ timer' = timer - 1
  /\ drainLeft' = IF pc = "flush" THEN drainLeft - 1 ELSE drainLeft
  /\ age' = [k \in Kind |-> [n \in 1..MaxEvents |->
                IF age[k][n] < AgeCap THEN age[k][n] + 1 ELSE AgeCap]]
  /\ UNCHANGED <<queue, pc, cur, line, overtakes, ctxVars, brokerVars, sent, counters>>
-----------------------------------------------------------------------------
(* What ProcessQueue does by itself, on its own goroutine. *)
LoopStep ==
  \/ PollPress \/ PollNone \/ (\E k \in Kind : SelectEvent(k)) \/ StartDrain
  \/ CheckOpen \/ Abandon \/ GiveUpStale \/ KeepHolding \/ Wake
  \/ SendStale \/ SendFresh \/ AckTimeout
  \/ DrainLate \/ DrainStale \/ DrainSend \/ DrainNext

Environment ==
  \/ \E k \in Kind : Enqueue(k)
  \/ Acked \/ TokenFails
  \/ ConnectionUp \/ OnConnect \/ ConnectionLost
  \/ \E e \in Event : BrokerReceives(e)
  \/ Cancel \/ ListenerStops \/ Tick

Next == LoopStep \/ Environment

Spec == Init /\ [][Next]_vars
-----------------------------------------------------------------------------
PC == {"poll", "select", "deliver", "closed", "hold", "send", "ack", "drain", "flush", "stopped"}
Holding == {"deliver", "closed", "hold", "send", "ack", "flush"}
EventNo == 1..MaxEvents

QueueType == queue \in [Kind -> Seq(EventNo)] /\ \A k \in Kind : Len(queue[k]) <= QueueCap

LoopType ==
  /\ pc \in PC /\ line \in Kind
  /\ cur \in Event \cup {NoEvent} /\ (cur = NoEvent <=> pc \notin Holding)
  /\ timer \in Nat /\ (timer > 0 => pc \in {"hold", "ack", "flush"})
  /\ drainLeft \in Int /\ overtakes \in Nat

AgeType == age \in [Kind -> [EventNo -> 0..AgeCap]]

BrokerType ==
  /\ listening \in BOOLEAN /\ cancelled \in BOOLEAN
  /\ open \in BOOLEAN /\ announcing \in 0..MaxCallbacks /\ reconnected \in BOOLEAN
  /\ inflight \subseteq Event /\ arrived \subseteq Event

SentType == sent \in [Kind -> Seq(EventNo)]

CountType ==
  /\ offered \in [Kind -> 0..MaxEvents]
  /\ published \in [Kind -> Nat]
  /\ dropped \in [Kind -> [Reason -> Nat]]

(* Every variable has its type, the channels hold at most their capacity,  *)
(* and an event is in hand exactly while it is being delivered.            *)
TypeOK == QueueType /\ LoopType /\ AgeType /\ BrokerType /\ SentType /\ CountType

InHand(k) == IF cur # NoEvent /\ cur.kind = k THEN 1 ELSE 0

Counted(k) ==
  published[k] + dropped[k]["queue_full"] + dropped[k]["stale"]
    + dropped[k]["publish_failed"] + dropped[k]["shutdown"]

Pending(k) == Len(queue[k]) + InHand(k)

(* The metrics balance: until shutdown every event the camera reported is   *)
(* queued, in hand, or counted exactly once as published or dropped; after  *)
(* it events may go uncounted, but none is counted twice.                   *)
Accounting ==
  \A k \in Kind :
    /\ Counted(k) + Pending(k) <= offered[k]
    /\ ~ cancelled => Counted(k) + Pending(k) = offered[k]

(* An event older than maxEventAge is never handed to the client, however   *)
(* long it was queued or held for the broker, at shutdown either.           *)
NewlySent(k) == {sent'[k][i] : i \in (Len(sent[k]) + 1)..Len(sent'[k])}
NoLateSend == [][\A k \in Kind : \A n \in NewlySent(k) : age[k][n] <= MaxEventAge]_vars

(* A broker that stays away holds the loop on one event no longer than      *)
(* maxEventAge and one reconnectPoll, whatever connects and drops meanwhile. *)
HeldBounded == pc = "hold" => age[cur.kind][cur.n] + timer <= MaxEventAge + ReconnectPoll

(* At most one detection is taken from the queues while a press is waiting:  *)
(* the one ProcessQueue's second select may pick when a press comes in just  *)
(* after the first select found none.                                        *)
PressOvertakenOnce == overtakes <= 1

(* A broker that is back wakes the loop: while it waits on a connection it   *)
(* found closed and that is open again, a signal is there or on its way,     *)
(* never taken by an earlier hold or discarded because the slot was full.    *)
NoLostWakeup ==
  pc \in {"closed", "hold"} /\ open => reconnected \/ announcing > 0

(* A published event is one the broker has: no event is counted published on  *)
(* another one's acknowledgement, nor twice.                                  *)
PublishedReachedBroker ==
  \A k \in Kind : published[k] <= Cardinality({e \in arrived : e.kind = k})

(* The flush at shutdown takes no longer than drainTimeout, although every    *)
(* event in it waits for an acknowledgement of its own.                       *)
DrainInTime == drainLeft >= 0

(* Once the event stream has ended ProcessQueue returns within maxEventAge,    *)
(* one wait and drainTimeout, however many events are queued and whatever the  *)
(* broker does: what select still takes instead of ctx.Done is soon too old to *)
(* be sent.  Within(t): no more than t ticks are left until then.              *)
Stopping == cancelled /\ ~ listening
LongestWait == IF PublishTimeout > ReconnectPoll THEN PublishTimeout ELSE ReconnectPoll
BeforeSend == {"deliver", "closed", "hold", "send"}

StaleIn(t) ==
  /\ \A k \in Kind : \A i \in 1..Len(queue[k]) : age[k][queue[k][i]] + t > MaxEventAge
  /\ pc \in BeforeSend => age[cur.kind][cur.n] + t > MaxEventAge

Within(t) ==
  \/ pc = "stopped"
  \/ pc \in {"drain", "flush"} /\ drainLeft <= t
  \/ /\ pc \notin {"drain", "flush", "stopped"}
     /\ \E ticks \in 0..t :
          /\ StaleIn(ticks)
          /\ (IF ticks = 0 THEN timer ELSE ticks + LongestWait) + DrainTimeout <= t

LongestShutdown == MaxEventAge + 1 + LongestWait + DrainTimeout

ShutdownInTime ==
  [][Stopping =>
       /\ Within(LongestShutdown)
       /\ \A t \in 0..LongestShutdown :
            Within(t) => Within(t)' /\ (Tick => t > 0 /\ Within(t - 1)')]_vars

(* The queues are two lossy lines: in the order the camera reported them, each *)
(* event is handed to the client at most once, with no retry.                  *)
Waiting ==
  [k \in Kind |->
     (IF pc \in BeforeSend /\ cur.kind = k THEN <<cur.n>> ELSE <<>>) \o queue[k]]
Line == INSTANCE LossyFifo WITH given <- offered, waiting <- Waiting, sent <- sent
ImplementsLossyFifo == Line!Spec

(* Nothing that is queued is forgotten, behind a broker that is away or never  *)
(* acknowledges either: an event that was queued before the signal is settled, *)
(* in the flush at the latest.  (One that comes after the flush has emptied    *)
(* its queue stays there.)                                                     *)
Owed(e) == cur = e \/ \E i \in 1..Len(queue[e.kind]) : queue[e.kind][i] = e.n
EventsSettle == \A e \in Event : (Owed(e) /\ ~ cancelled) ~> ~ Owed(e)
-----------------------------------------------------------------------------
(* A statement of the repository's comments that the code breaks.  *)

(* "EventsDropped: Events not delivered, by reason (queue_full, stale,         *)
(* publish_failed, shutdown)": once ProcessQueue has returned, every event it  *)
(* took from the queues was published or counted under one of the reasons.     *)
EveryLossCounted ==
  pc = "stopped" => \A k \in Kind : Counted(k) + Len(queue[k]) = offered[k]
=============================================================================
