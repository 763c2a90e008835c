---------------------------- MODULE Snapshotter ----------------------------
(***************************************************************************)
(* pkg/snapshot: after an event, fetch one still from the camera and       *)
(* publish it.  Request starts a goroutine per fetch, under a lock; a      *)
(* request made while a fetch is in flight is skipped, except that a press *)
(* cancels a detection's fetch and takes its place, and one made once the  *)
(* context is done is refused.  Fetches are told apart by their            *)
(* generation, the value of gen when they were started.                    *)
(***************************************************************************)
EXTENDS Integers

CONSTANT MaxRequests   \* bound: snapshots requested

ASSUME RequestAssumption == MaxRequests \in Nat

Gen == 1..MaxRequests

(* What a fetch's goroutine is doing.                                      *)
Phase == {"none", "fetching", "fetched", "publishing", "finishing", "done"}

(* What ctx.Err() says: the deadline and a cancellation each stick.        *)
Ctx == {"live", "expired", "cancelled"}

VARIABLES
  inFlight,    \* a fetch is in flight
  priority,    \* it is a press's
  gen,         \* its generation; s.cancel is its cancel function
  phase,       \* what the goroutine of each generation is doing
  ctx,         \* and its context
  press,       \* whether a generation was started for a press
  stopped,     \* the context given to New is done
  listening,   \* the event stream may still call Request
  returned,    \* Wait has returned
  asked,       \* requests made
  outcomes     \* metrics.Snapshots, by result

(* "late" is no result of the metric: it counts (history) the stills that    *)
(* came just as their deadline passed, which appear under no result.         *)
Result == {"skipped", "superseded", "failed", "published", "dropped", "late"}

slot == <<inFlight, priority, gen>>
vars == <<slot, phase, ctx, press, stopped, listening, returned, asked, outcomes>>

Init ==
  /\ inFlight = FALSE /\ priority = FALSE /\ gen = 0
  /\ phase = [g \in Gen |-> "none"]
  /\ ctx = [g \in Gen |-> "cancelled"]
  /\ press = [g \in Gen |-> FALSE]
  /\ stopped = FALSE /\ listening = TRUE /\ returned = FALSE
  /\ asked = 0 /\ outcomes = [r \in Result |-> 0]
-----------------------------------------------------------------------------
(* Request, under mu. *)

Count(r) == outcomes' = [outcomes EXCEPT ![r] = @ + 1]

Active(g) == phase[g] \notin {"none", "done"}

(* The event stream may still ask for a snapshot after the context is done, *)
(* until it has stopped itself.                                             *)
Asking == listening /\ asked < MaxRequests /\ asked' = asked + 1

(* A mutant: the context is not looked at. *)
AcceptsAlways == TRUE

Accepts == ~ stopped

Refused ==
  /\ Asking /\ ~ Accepts
  /\ UNCHANGED <<slot, phase, ctx, press, stopped, listening, returned, outcomes>>

(* A mutant: a press gives way to a press. *)
GivesWayToAny(isPress) == inFlight /\ ~ isPress

GivesWay(isPress) == inFlight /\ (~ isPress \/ priority)

Skip(isPress) ==
  /\ Asking /\ Accepts /\ GivesWay(isPress)
  /\ Count("skipped")
  /\ UNCHANGED <<slot, phase, ctx, press, stopped, listening, returned>>

NextGeneration == gen + 1

(* The fetch in flight, if there is one, is a detection's: it is cancelled. *)
StartedAndCancelled ==
  [g \in Gen |-> IF g = gen + 1 THEN "live"
                 ELSE IF inFlight /\ g = gen /\ ctx[g] = "live" THEN "cancelled"
                 ELSE ctx[g]]

Start(isPress) ==
  /\ Asking /\ Accepts /\ ~ GivesWay(isPress)
  /\ inFlight' = TRUE /\ priority' = isPress /\ gen' = NextGeneration
  /\ phase' = [phase EXCEPT ![gen + 1] = "fetching"]
  /\ press' = [press EXCEPT ![gen + 1] = isPress]
  /\ ctx' = StartedAndCancelled
  /\ IF inFlight THEN Count("superseded") ELSE UNCHANGED outcomes
  /\ UNCHANGED <<stopped, listening, returned>>
-----------------------------------------------------------------------------
(* The goroutine of generation g: fetch, look at the context, publish, finish. *)

Moves(g, from, to) ==
  /\ phase[g] = from
  /\ phase' = [phase EXCEPT ![g] = to]

Fetched(g) ==
  /\ Moves(g, "fetching", "fetched")
  /\ UNCHANGED <<slot, ctx, press, stopped, listening, returned, asked, outcomes>>

(* A mutant: a fetch that timed out counts as one that was cancelled. *)
FailsUncounted(g) ==
  /\ Moves(g, "fetching", "finishing")
  /\ IF ctx[g] = "live" THEN Count("failed") ELSE UNCHANGED outcomes
  /\ UNCHANGED <<slot, ctx, press, stopped, listening, returned, asked>>

FetchFails(g) ==
  /\ Moves(g, "fetching", "finishing")
  /\ IF ctx[g] = "cancelled" THEN UNCHANGED outcomes ELSE Count("failed")
  /\ UNCHANGED <<slot, ctx, press, stopped, listening, returned, asked>>

LookAtContext(g) ==
  /\ Moves(g, "fetched", IF ctx[g] = "live" THEN "publishing" ELSE "finishing")
  /\ IF ctx[g] = "expired" THEN Count("late") ELSE UNCHANGED outcomes
  /\ UNCHANGED <<slot, ctx, press, stopped, listening, returned, asked>>

(* PublishSnapshot: the broker has it, or it is dropped. *)
Published(g) ==
  /\ Moves(g, "publishing", "finishing")
  /\ Count("published") \/ Count("dropped")
  /\ UNCHANGED <<slot, ctx, press, stopped, listening, returned, asked>>

(* A mutant: whichever fetch finishes clears the flag. *)
FinishAny(g) ==
  /\ Moves(g, "finishing", "done")
  /\ ctx' = [ctx EXCEPT ![g] = IF @ = "live" THEN "cancelled" ELSE @]
  /\ inFlight' = FALSE
  /\ UNCHANGED <<priority, gen, press, stopped, listening, returned, asked, outcomes>>

Finish(g) ==
  /\ Moves(g, "finishing", "done")
  /\ ctx' = [ctx EXCEPT ![g] = IF @ = "live" THEN "cancelled" ELSE @]
  /\ inFlight' = (inFlight /\ gen # g)
  /\ UNCHANGED <<priority, gen, press, stopped, listening, returned, asked, outcomes>>
-----------------------------------------------------------------------------
(* A mutant: the deadline is forgotten, and a hung camera hangs the fetch. *)
NoDeadline(g) == Active(g) /\ ctx[g] = "done" /\ UNCHANGED vars

(* fetchTimeout passes. *)
Expire(g) ==
  /\ Active(g) /\ ctx[g] = "live"
  /\ ctx' = [ctx EXCEPT ![g] = "expired"]
  /\ UNCHANGED <<slot, phase, press, stopped, listening, returned, asked, outcomes>>

Stop ==
  /\ ~ stopped /\ stopped' = TRUE
  /\ ctx' = [g \in Gen |-> IF ctx[g] = "live" THEN "cancelled" ELSE ctx[g]]
  /\ UNCHANGED <<slot, phase, press, listening, returned, asked, outcomes>>

ListenerStops ==
  /\ stopped /\ listening /\ listening' = FALSE
  /\ UNCHANGED <<slot, phase, ctx, press, stopped, returned, asked, outcomes>>

(* Wait, called once the event stream has stopped. *)
WaitReturns ==
  /\ ~ listening /\ ~ returned /\ \A g \in Gen : ~ Active(g)
  /\ returned' = TRUE
  /\ UNCHANGED <<slot, phase, ctx, press, stopped, listening, asked, outcomes>>
-----------------------------------------------------------------------------
Request == Refused \/ \E isPress \in BOOLEAN : Skip(isPress) \/ Start(isPress)

(* The steps a goroutine is sure to take: the camera client gives a fetch up *)
(* once its context is done, and PublishSnapshot bounds its own wait.        *)
GoroutineStep(g) ==
  \/ ctx[g] # "live" /\ FetchFails(g)
  \/ LookAtContext(g) \/ Published(g) \/ Finish(g)

FetchStep(g) == GoroutineStep(g) \/ Fetched(g) \/ FetchFails(g)

Next ==
  \/ Request
  \/ \E g \in Gen : FetchStep(g) \/ Expire(g)
  \/ Stop \/ ListenerStops \/ WaitReturns

Spec == Init /\ [][Next]_vars

FairSpec ==
  /\ Spec
  /\ \A g \in Gen : WF_vars(GoroutineStep(g)) /\ WF_vars(Expire(g))
-----------------------------------------------------------------------------
(* Every variable has its type, and generations are started in order. *)
TypeOK ==
  /\ inFlight \in BOOLEAN /\ priority \in BOOLEAN /\ gen \in 0..MaxRequests
  /\ phase \in [Gen -> Phase] /\ ctx \in [Gen -> Ctx] /\ press \in [Gen -> BOOLEAN]
  /\ stopped \in BOOLEAN /\ listening \in BOOLEAN /\ returned \in BOOLEAN
  /\ asked \in 0..MaxRequests /\ outcomes \in [Result -> Nat]
  /\ gen <= asked /\ \A g \in Gen : phase[g] = "none" <=> g > gen

(* The flag is the truth: inFlight says whether the goroutine started last is *)
(* still running, so no request is skipped for a fetch that is over, and no   *)
(* finish of a superseded fetch clears its successor's state.                 *)
InFlightIsLatest == inFlight <=> gen > 0 /\ Active(gen)

(* Whatever else still runs has been told to stop: of the fetches under way,  *)
(* only the one in flight can have a live context, and priority describes it. *)
OnlyLatestLive ==
  \A g \in Gen : Active(g) /\ ctx[g] = "live" => g = gen /\ inFlight /\ (priority <=> press[g])

(* The ring is the snapshot that matters: a press's fetch that is under way   *)
(* is cancelled by shutdown and by nothing else.                              *)
PressNotReplaced ==
  \A g \in Gen : press[g] /\ phase[g] \in {"fetching", "fetched", "publishing"}
                  /\ ctx[g] = "cancelled" => stopped

(* The fetches are one slot: the fetch started last has it until its goroutine  *)
(* has ended, a press takes it from a detection and from nobody else, a request *)
(* is skipped only while a fetch that it must not replace runs, and after       *)
(* shutdown nobody takes it and nothing is counted as skipped.                  *)
Running == {g \in Gen : Active(g)}
Slot == INSTANCE StillSlot WITH
          Fetch <- Gen, refused <- outcomes["skipped"], closed <- stopped,
          running <- Running, told <- {g \in Running : ctx[g] # "live"},
          urgent <- {g \in Gen : press[g]},
          holder <- IF gen \in Running THEN gen ELSE 0
ImplementsStillSlot == Slot!Spec

(* A camera that never answers does not end the snapshots: the slot is freed. *)
SlotFreed == inFlight ~> ~ inFlight

(* No fetch ends silently before shutdown, but for one: of the fetches that    *)
(* were started, each is still working, has an outcome counted, or delivered  *)
(* its still just as its deadline passed.                                      *)
Working == gen > 0 /\ phase[gen] \in {"fetching", "fetched", "publishing"}
OutcomesExplained ==
  ~ stopped =>
    gen <= outcomes["superseded"] + outcomes["failed"] + outcomes["published"]
             + outcomes["dropped"] + outcomes["late"] + (IF Working THEN 1 ELSE 0)
=============================================================================
