----------------------------- MODULE Companion ------------------------------
(***************************************************************************)
(* main.go: the event queues (EventDelivery) and the snapshotter           *)
(* (Snapshotter) side by side.  They share the context, the event stream   *)
(* whose callback queues an event and then asks for its still, and the     *)
(* broker connection both publish on.  At shutdown main waits for the      *)
(* event stream and ProcessQueue, then for the fetches, and disconnects.   *)
(*                                                                         *)
(* Time is that of EventDelivery, and passes too while ProcessQueue has    *)
(* nothing to do; a still takes a tick at least to arrive.                 *)
(***************************************************************************)
EXTENDS EventDelivery

CONSTANTS
  SnapshotKinds,  \* cfg.Mqtt.Snapshot, with SNAPSHOT_SOURCE=request
  MaxRequests     \* bound: stills asked for; no event comes after the last

ASSUME CompanionAssumption == SnapshotKinds \subseteq Kind /\ MaxRequests \in Nat

VARIABLES
  inFlight, priority, gen, phase, ctx, press, returned, asked, outcomes,
  asking,   \* the kind the callback has queued and will ask a still for
  of,       \* the event a generation's still was asked for
  fresh,    \* the fetches asked for in this tick
  handed,   \* the fetches whose image client.Publish has been given
  main      \* what main is waiting for

Shots == INSTANCE Snapshotter WITH stopped <- cancelled

shotVars == <<inFlight, priority, gen, phase, ctx, press, returned, asked, outcomes>>
links    == <<asking, of, fresh, handed>>
all == <<vars, shotVars, links, main>>

NoKind == "none"

CompanionInit ==
  /\ Init /\ Shots!Init
  /\ asking = NoKind /\ of = [g \in Shots!Gen |-> NoEvent]
  /\ fresh = {} /\ handed = {} /\ main = "serving"
-----------------------------------------------------------------------------
(* The callback of Listen: PublishPress or PublishHuman, and then Request. *)

CallbackQueues(k) ==
  /\ asking = NoKind /\ asked < MaxRequests /\ Enqueue(k)
  /\ asking' = IF k \in SnapshotKinds THEN k ELSE NoKind
  /\ UNCHANGED <<shotVars, of, fresh, handed, main>>

Requested(isPress) ==
  \/ (Shots!Refused \/ Shots!Skip(isPress)) /\ UNCHANGED <<of, fresh>>
  \/ /\ Shots!Start(isPress)
     /\ of' = [of EXCEPT ![gen + 1] = [kind |-> asking, n |-> offered[asking]]]
     /\ fresh' = fresh \cup {gen + 1}

CallbackAsks ==
  /\ asking # NoKind /\ Requested(asking = "press")
  /\ asking' = NoKind
  /\ UNCHANGED <<vars, handed, main>>

CallbackEnds == asking = NoKind /\ ListenerStops /\ UNCHANGED <<shotVars, links, main>>
-----------------------------------------------------------------------------
(* A fetch's goroutine, with PublishSnapshot in full. *)

Arriving(g) == g \notin fresh

FetchEnds(g) ==
  \/ Arriving(g) /\ (Shots!Fetched(g) \/ Shots!Expire(g))
  \/ (Arriving(g) \/ ctx[g] # "live") /\ Shots!FetchFails(g)

Publishing(g) == phase[g] = "publishing"

ImageDropped(g) ==
  /\ Publishing(g) /\ g \notin handed /\ ~ open
  /\ Shots!Published(g) /\ outcomes'["dropped"] > outcomes["dropped"]
  /\ UNCHANGED handed

ImageHanded(g) ==
  /\ Publishing(g) /\ g \notin handed /\ open
  /\ handed' = handed \cup {g}
  /\ UNCHANGED <<shotVars, listening, cancelled>>

(* The broker's acknowledgement, an error, or publishTimeout. *)
ImageSettled(g) == g \in handed /\ Shots!Published(g) /\ handed' = handed \ {g}

AfterFetch(g) ==
  \/ (Shots!LookAtContext(g) \/ Shots!Finish(g)) /\ UNCHANGED handed
  \/ ImageDropped(g) \/ ImageHanded(g) \/ ImageSettled(g)

StillStep(g) ==
  /\ (FetchEnds(g) /\ UNCHANGED handed) \/ AfterFetch(g)
  /\ UNCHANGED <<vars, asking, of, fresh, main>>
-----------------------------------------------------------------------------
(* main: <-ctx.Done(), wg.Wait(), snapshots.Wait(), Disconnect(). *)

Stop == Cancel /\ Shots!Stop /\ UNCHANGED <<links, main>>

(* A mutant: the wait group has the listener only. *)
ListenerEnded == ~ listening

PartsEnded == ~ listening /\ pc = "stopped"

PartsEnd ==
  /\ main = "serving" /\ cancelled /\ PartsEnded
  /\ main' = "snapshots"
  /\ UNCHANGED <<vars, shotVars, links>>

Waited == Shots!WaitReturns

SnapshotsEnd ==
  /\ main = "snapshots" /\ Waited
  /\ main' = "leaving"
  /\ UNCHANGED <<vars, links>>

Disconnect ==
  /\ main = "leaving" /\ main' = "gone"
  /\ ConnectionLost \/ (~ open /\ UNCHANGED vars)
  /\ UNCHANGED <<shotVars, links>>

MainStep == PartsEnd \/ SnapshotsEnd \/ Disconnect
-----------------------------------------------------------------------------
BrokerStep ==
  \/ Acked \/ TokenFails \/ OnConnect \/ ConnectionLost
  \/ main # "gone" /\ ConnectionUp
  \/ \E e \in Event : BrokerReceives(e)

DeliveryStep == (LoopStep \/ BrokerStep) /\ UNCHANGED <<shotVars, links, main>>

TimePasses == Tick /\ fresh' = {} /\ UNCHANGED <<shotVars, asking, of, handed, main>>

Idle == pc = "stopped" \/ (pc = "select" /\ \A k \in Kind : queue[k] = <<>>)

IdleTimePasses ==
  /\ Idle /\ fresh # {} /\ fresh' = {}
  /\ UNCHANGED <<vars, shotVars, asking, of, handed, main>>

CompanionNext ==
  \/ \E k \in Kind : CallbackQueues(k)
  \/ CallbackAsks \/ CallbackEnds
  \/ \E g \in Shots!Gen : StillStep(g)
  \/ Stop \/ MainStep \/ DeliveryStep \/ TimePasses \/ IdleTimePasses

CompanionSpec == CompanionInit /\ [][CompanionNext]_all

(* The goroutines are scheduled, the camera client gives a fetch up once its *)
(* context is done, contexts have deadlines, and time passes.                *)
SureStep(g) ==
  /\ \/ Arriving(g) /\ Shots!Expire(g) /\ UNCHANGED handed
     \/ ctx[g] # "live" /\ Shots!FetchFails(g) /\ UNCHANGED handed
     \/ AfterFetch(g)
  /\ UNCHANGED <<vars, asking, of, fresh, main>>

FairCompanionSpec ==
  /\ CompanionSpec
  /\ WF_all(LoopStep /\ UNCHANGED <<shotVars, links, main>>)
  /\ WF_all(CallbackAsks \/ CallbackEnds) /\ WF_all(MainStep)
  /\ \A g \in Shots!Gen : WF_all(SureStep(g))
  /\ SF_all(TimePasses \/ IdleTimePasses)
-----------------------------------------------------------------------------
(* What main waits for is over when it disconnects: no event is queued or    *)
(* handed to the client any more, and no still is fetched or published.      *)
NothingLeftBehind ==
  main \in {"leaving", "gone"} =>
    /\ ~ listening /\ asking = NoKind /\ pc = "stopped"
    /\ \A g \in Shots!Gen : ~ Shots!Active(g)

(* The signal stops the service, whatever the broker and the camera do. *)
ServiceStops == cancelled ~> main = "gone"
-----------------------------------------------------------------------------
(* A statement of the repository's comments that the code breaks.  *)

(* "fetching takes far longer than delivering, so the image lands after the *)
(* event it belongs to": no image is given to the broker client while its   *)
(* event is still in its queue, behind another event in hand.               *)
ImageAfterEvent ==
  \A g \in handed :
    LET q == queue[of[g].kind] IN \A i \in 1..Len(q) : q[i] # of[g].n
=============================================================================
