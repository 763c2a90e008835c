------------------------- MODULE Snapshotter_proof -------------------------
(***************************************************************************)
(* The safety properties of Snapshotter, for every number of requests.     *)
(***************************************************************************)
EXTENDS Snapshotter, TLAPS

(* Only a fetch that was replaced, or shutdown, has a cancelled context while *)
(* it works: the latest one is not cancelled before shutdown.                 *)
LatestNotCancelled == ~ stopped /\ Working => ctx[gen] # "cancelled"

IInv ==
  /\ TypeOK /\ InFlightIsLatest /\ OnlyLatestLive /\ PressNotReplaced
  /\ LatestNotCancelled /\ OutcomesExplained

Settled ==
  outcomes["superseded"] + outcomes["failed"] + outcomes["published"]
    + outcomes["dropped"] + outcomes["late"]

LEMMA Carried ==
  ASSUME NEW g \in Nat, NEW h \in Nat, NEW s \in Nat, NEW t \in Nat, NEW v \in Nat, NEW w \in Nat,
         g <= s + v, h + v + s <= t + g + w
  PROVE  h <= t + w
  OBVIOUS

(* The part of the invariant that counts, from the rest of it: what a step     *)
(* may do to the outcomes, the generation and the fetch that works.            *)
LEMMA Explained ==
  ASSUME TypeOK, TypeOK', OutcomesExplained, stopped' \/ ~ stopped,
         ~ stopped' => gen' + (IF Working THEN 1 ELSE 0) + Settled
                         <= Settled' + gen + (IF Working' THEN 1 ELSE 0)
  PROVE  OutcomesExplained'
<1> SUFFICES ASSUME ~ stopped'
             PROVE  gen' <= Settled' + (IF Working' THEN 1 ELSE 0)
  BY DEF OutcomesExplained, Settled
<1>1. /\ gen \in Nat /\ gen' \in Nat
      /\ \A r \in Result : outcomes[r] \in Nat /\ outcomes'[r] \in Nat
  BY RequestAssumption DEF TypeOK
<1>2. Settled \in Nat /\ Settled' \in Nat
  BY <1>1 DEF Settled, Result
<1>3. gen <= Settled + (IF Working THEN 1 ELSE 0)
  BY DEF OutcomesExplained, Settled
<1> DEFINE v == IF Working THEN 1 ELSE 0
           w == IF Working' THEN 1 ELSE 0
<1>4. v \in Nat /\ w \in Nat
  OBVIOUS
<1>5. gen' + v + Settled <= Settled' + gen + w
  OBVIOUS
<1> HIDE DEF v, w
<1>6. gen <= Settled + v
  BY <1>3 DEF v
<1>7. gen' <= Settled' + w
  BY <1>1, <1>2, <1>4, <1>5, <1>6, Carried
<1> QED BY <1>7 DEF w

(* Counting one outcome adds one to what is settled; a skip adds nothing. *)
LEMMA CountSettles ==
  ASSUME TypeOK, NEW r \in Result, Count(r)
  PROVE  Settled' = Settled + (IF r = "skipped" THEN 0 ELSE 1) /\ Settled \in Nat
<1>1. \A q \in Result : outcomes[q] \in Nat /\ outcomes'[q] = IF q = r THEN outcomes[q] + 1 ELSE outcomes[q]
  BY DEF TypeOK, Count
<1>2. r \in {"skipped", "superseded", "failed", "published", "dropped", "late"}
  BY DEF Result
<1> QED BY <1>1, <1>2 DEF Settled, Result

LEMMA InitInv == Init => IInv
<1> SUFFICES ASSUME Init PROVE IInv
  OBVIOUS
<1> USE RequestAssumption DEF Init
<1>1. TypeOK
  <2>1. \A g \in Gen : phase[g] = "none" /\ g > gen
    BY DEF Gen
  <2>2. phase \in [Gen -> Phase] /\ ctx \in [Gen -> Ctx] /\ press \in [Gen -> BOOLEAN]
    BY DEF Phase, Ctx
  <2>3. outcomes \in [Result -> Nat] /\ gen \in 0..MaxRequests /\ asked \in 0..MaxRequests
    OBVIOUS
  <2>4. inFlight \in BOOLEAN /\ priority \in BOOLEAN
    BY Zenon
  <2>5. stopped \in BOOLEAN /\ listening \in BOOLEAN /\ returned \in BOOLEAN
    BY Zenon
  <2>6. gen <= asked
    <3>1. gen = 0 /\ asked = 0
      BY Zenon
    <3> HIDE DEF Init
    <3> QED BY <3>1
  <2> HIDE DEF Init
  <2> QED BY <2>1, <2>2, <2>3, <2>4, <2>5, <2>6 DEF TypeOK
<1>2. InFlightIsLatest /\ OnlyLatestLive /\ PressNotReplaced
  BY DEF InFlightIsLatest, OnlyLatestLive, PressNotReplaced, Active
<1>3. LatestNotCancelled /\ OutcomesExplained
  <2>1. gen = 0 /\ \A r \in Result : outcomes[r] = 0
    OBVIOUS
  <2> HIDE DEF Init
  <2> QED BY <2>1 DEF LatestNotCancelled, OutcomesExplained, Working, Result
<1> QED BY <1>1, <1>2, <1>3 DEF IInv

(* What the steps of one goroutine do to the shared state. *)
LEMMA MovesType ==
  ASSUME TypeOK, NEW g \in Gen, NEW to \in Phase, NEW from \in Phase,
         Moves(g, from, to), from # "none", to # "none"
  PROVE  /\ phase' \in [Gen -> Phase]
         /\ \A h \in Gen : phase'[h] = IF h = g THEN to ELSE phase[h]
         /\ \A h \in Gen : phase'[h] = "none" <=> h > gen
  BY DEF TypeOK, Moves

LEMMA StartStep ==
  ASSUME IInv, NEW isPress \in BOOLEAN, Start(isPress)
  PROVE  IInv'
<1> USE RequestAssumption
<1>1. /\ gen \in Nat /\ gen + 1 \in Gen /\ gen' = gen + 1 /\ inFlight' = TRUE /\ priority' = isPress
      /\ asked' \in 0..MaxRequests /\ gen' <= asked' /\ gen' \in 0..MaxRequests
  BY DEF IInv, TypeOK, Start, Asking, NextGeneration, Gen
<1>2. /\ phase' \in [Gen -> Phase] /\ press' \in [Gen -> BOOLEAN] /\ ctx' \in [Gen -> Ctx]
  BY <1>1 DEF IInv, TypeOK, Start, StartedAndCancelled, Phase, Ctx
<1>3. \A h \in Gen :
        /\ phase'[h] = IF h = gen + 1 THEN "fetching" ELSE phase[h]
        /\ press'[h] = IF h = gen + 1 THEN isPress ELSE press[h]
        /\ ctx'[h] = IF h = gen + 1 THEN "live"
                     ELSE IF inFlight /\ h = gen /\ ctx[h] = "live" THEN "cancelled" ELSE ctx[h]
  BY DEF IInv, TypeOK, Start, StartedAndCancelled
<1>4. TypeOK'
  <2>1. outcomes' \in [Result -> Nat]
    BY DEF IInv, TypeOK, Start, Count, Result
  <2>2. \A h \in Gen : phase'[h] = "none" <=> h > gen'
    BY <1>1, <1>3 DEF IInv, TypeOK, Gen
  <2> QED BY <1>1, <1>2, <2>1, <2>2 DEF IInv, TypeOK, Start
<1>5. InFlightIsLatest'
  BY <1>1, <1>3 DEF InFlightIsLatest, Active
<1>6. OnlyLatestLive'
  <2> SUFFICES ASSUME NEW h \in Gen, Active(h)', ctx'[h] = "live" PROVE h = gen + 1 /\ press'[h] = isPress
    BY <1>1 DEF OnlyLatestLive
  <2>1. CASE h = gen + 1
    BY <1>3, <2>1
  <2>2. CASE h # gen + 1
    BY <1>3, <2>2 DEF IInv, OnlyLatestLive, Active
  <2> QED BY <2>1, <2>2
<1>7. PressNotReplaced'
  <2> SUFFICES ASSUME NEW h \in Gen, press'[h], phase'[h] \in {"fetching", "fetched", "publishing"},
                      ctx'[h] = "cancelled"
               PROVE  stopped'
    BY DEF PressNotReplaced
  <2>0. CASE h = gen + 1
    BY <1>3, <2>0
  <2> SUFFICES ASSUME h # gen + 1 PROVE stopped'
    BY <2>0
  <2>1. press[h] /\ phase[h] = phase'[h]
    BY <1>3
  <2>2. CASE ctx[h] = "cancelled"
    BY <2>1, <2>2 DEF IInv, PressNotReplaced, Start
  <2>3. CASE inFlight /\ h = gen /\ ctx[h] = "live"
    <3>1. ~ priority
      BY <2>3 DEF Start, GivesWay
    <3>2. Active(h)
      BY <2>1 DEF Active
    <3> QED BY <2>1, <2>3, <3>1, <3>2 DEF IInv, OnlyLatestLive
  <2> QED BY <1>3, <2>1, <2>2, <2>3
<1>8. LatestNotCancelled'
  BY <1>1, <1>3 DEF LatestNotCancelled
<1>9. OutcomesExplained'
  <2>1. Working'
    BY <1>1, <1>3 DEF Working
  <2>2. CASE inFlight
    <3>1. Settled' = Settled + 1 /\ Settled \in Nat
      BY <2>2, CountSettles DEF IInv, Start, Result
    <3> QED BY <1>1, <1>4, <2>1, <3>1, Explained DEF IInv, Start
  <2>3. CASE ~ inFlight
    <3>1. ~ Working
      BY <2>3, <1>1 DEF IInv, InFlightIsLatest, Working, Active
    <3>2. Settled' = Settled /\ Settled \in Nat
      BY <2>3 DEF IInv, TypeOK, Start, Settled, Result
    <3> QED BY <1>1, <1>4, <2>1, <3>1, <3>2, Explained DEF IInv, Start
  <2> QED BY <2>2, <2>3
<1> QED BY <1>4, <1>5, <1>6, <1>7, <1>8, <1>9 DEF IInv

LEMMA FetchStepInv ==
  ASSUME IInv, NEW g \in Gen, FetchStep(g)
  PROVE  IInv'
<1> USE DEF Phase, Active
<1>1. CASE Fetched(g) \/ FetchFails(g) \/ LookAtContext(g) \/ Published(g)
  <2>1. PICK from \in {"fetching", "fetched", "publishing"}, to \in {"fetched", "publishing", "finishing"} :
          Moves(g, from, to) /\ (from = "publishing" => to = "finishing")
                             /\ (from = "fetched" => to # "fetched")
    BY <1>1 DEF Fetched, FetchFails, LookAtContext, Published
  <2>2. /\ phase' \in [Gen -> Phase] /\ phase[g] = from
        /\ \A h \in Gen : phase'[h] = IF h = g THEN to ELSE phase[h]
        /\ \A h \in Gen : phase'[h] = "none" <=> h > gen
    BY <2>1, MovesType DEF IInv, Moves
  <2>3. UNCHANGED <<slot, ctx, press, stopped, listening, returned, asked>>
    BY <1>1 DEF Fetched, FetchFails, LookAtContext, Published
  <2>4. outcomes' \in [Result -> Nat]
    BY <1>1 DEF Fetched, FetchFails, LookAtContext, Published, Count, IInv, TypeOK, Result
  <2>5. TypeOK'
    BY <2>2, <2>3, <2>4 DEF IInv, TypeOK, slot
  <2>6. \A h \in Gen : Active(h)' <=> Active(h)
    BY <2>2
  <2>7. InFlightIsLatest'
    BY <2>3, <2>6 DEF IInv, InFlightIsLatest, slot, TypeOK, Gen
  <2>8. OnlyLatestLive'
    BY <2>3, <2>6 DEF IInv, OnlyLatestLive, slot
  <2>9. PressNotReplaced'
    BY <2>2, <2>3 DEF IInv, PressNotReplaced
  <2>10. gen > 0 => gen \in Gen
    BY DEF IInv, TypeOK, Gen
  <2>11. LatestNotCancelled'
    <3>1. Working' => Working
      BY <2>1, <2>2, <2>3, <2>10 DEF Working, slot
    <3> QED BY <2>3, <3>1 DEF IInv, LatestNotCancelled, slot
  <2>12. OutcomesExplained'
    <3>1. (gen' = gen /\ gen \in Nat) /\ stopped' = stopped
      BY <2>3, RequestAssumption DEF IInv, TypeOK, slot
    <3>2. Settled \in Nat /\ (Settled' = Settled \/ Settled' = Settled + 1)
      BY <1>1, CountSettles DEF Fetched, FetchFails, LookAtContext, Published, IInv, Result, TypeOK, Settled
    <3>3. ASSUME ~ stopped, Working, ~ Working' PROVE Settled' = Settled + 1
      <4>1. g = gen /\ to = "finishing"
        BY <2>1, <2>2, <3>1, <3>3, <2>10 DEF Working
      <4>2. ctx[g] # "cancelled"
        BY <3>3, <4>1 DEF IInv, LatestNotCancelled
      <4>3. ~ Fetched(g)
        BY <2>2, <4>1 DEF Fetched, Moves, IInv, TypeOK
      <4>4. LookAtContext(g) => ctx[g] = "expired"
        BY <2>2, <4>1, <4>2 DEF LookAtContext, Moves, IInv, TypeOK, Ctx
      <4>5. \E r \in Result \ {"skipped"} : Count(r)
        BY <1>1, <4>2, <4>3, <4>4 DEF FetchFails, LookAtContext, Published, Result
      <4> QED BY <4>5, CountSettles DEF IInv
    <3> QED BY <2>5, <3>1, <3>2, <3>3, Explained DEF IInv
  <2> QED BY <2>5, <2>7, <2>8, <2>9, <2>11, <2>12 DEF IInv
<1>2. CASE Finish(g)
  <2>1. /\ phase' \in [Gen -> Phase] /\ phase[g] = "finishing"
        /\ \A h \in Gen : phase'[h] = IF h = g THEN "done" ELSE phase[h]
        /\ \A h \in Gen : phase'[h] = "none" <=> h > gen
    BY <1>2, MovesType DEF IInv, Moves, Finish
  <2>2. /\ ctx' \in [Gen -> Ctx] /\ ctx'[g] # "live"
        /\ \A h \in Gen : h # g => ctx'[h] = ctx[h]
    BY <1>2 DEF IInv, TypeOK, Finish, Ctx
  <2>3. inFlight' = (inFlight /\ gen # g) /\ UNCHANGED <<priority, gen, press, stopped, listening, returned, asked, outcomes>>
    BY <1>2 DEF Finish
  <2>4. TypeOK'
    BY <2>1, <2>2, <2>3 DEF IInv, TypeOK
  <2>5. InFlightIsLatest'
    <3>1. gen > 0 => gen \in Gen
      BY DEF IInv, TypeOK, Gen
    <3>2. inFlight \in BOOLEAN /\ (inFlight <=> gen > 0 /\ Active(gen))
      BY DEF IInv, TypeOK, InFlightIsLatest
    <3>3. CASE gen = g
      BY <2>1, <2>3, <3>3 DEF InFlightIsLatest
    <3>4. CASE gen # g
      BY <2>1, <2>3, <3>1, <3>2, <3>4 DEF InFlightIsLatest
    <3> QED BY <3>3, <3>4
  <2>6. OnlyLatestLive'
    BY <2>1, <2>2, <2>3 DEF IInv, OnlyLatestLive
  <2>7. PressNotReplaced'
    BY <2>1, <2>2, <2>3 DEF IInv, PressNotReplaced
  <2>8. (Working' <=> Working) /\ (Working => gen # g)
    BY <2>1, <2>3 DEF IInv, TypeOK, Gen, Working
  <2>9. LatestNotCancelled' /\ OutcomesExplained'
    BY <2>2, <2>3, <2>8 DEF IInv, TypeOK, Gen, Working, LatestNotCancelled, OutcomesExplained
  <2> QED BY <2>4, <2>5, <2>6, <2>7, <2>9 DEF IInv
<1> QED BY <1>1, <1>2 DEF FetchStep, GoroutineStep

LEMMA InvStep == IInv /\ [Next]_vars => IInv'
<1> SUFFICES ASSUME IInv, [Next]_vars PROVE IInv'
  OBVIOUS
<1>1. ASSUME NEW isPress \in BOOLEAN, Skip(isPress) PROVE IInv'
  <2>1. /\ UNCHANGED <<slot, phase, ctx, press, stopped, listening, returned>>
        /\ Count("skipped") /\ asked' = asked + 1 /\ asked < MaxRequests
    BY <1>1 DEF Skip, Asking
  <2>2. TypeOK'
    BY <2>1, RequestAssumption DEF IInv, TypeOK, Count, slot, Result
  <2>3. InFlightIsLatest' /\ OnlyLatestLive' /\ PressNotReplaced' /\ LatestNotCancelled'
    BY <2>1 DEF IInv, slot, InFlightIsLatest, OnlyLatestLive, PressNotReplaced, LatestNotCancelled, Active, Working
  <2>4. \A r \in Result \ {"skipped"} : outcomes'[r] = outcomes[r]
    BY <2>1 DEF IInv, TypeOK, Count
  <2>5. OutcomesExplained'
    BY <2>1, <2>4 DEF IInv, OutcomesExplained, Working, slot, Result
  <2> QED BY <2>2, <2>3, <2>5 DEF IInv
<1>2. ASSUME NEW g \in Gen, Expire(g) PROVE IInv'
  <2>1. /\ ctx' \in [Gen -> Ctx] /\ ctx'[g] = "expired"
        /\ \A h \in Gen : h # g => ctx'[h] = ctx[h]
    BY <1>2 DEF IInv, TypeOK, Expire, Ctx
  <2>2. UNCHANGED <<slot, phase, press, stopped, listening, returned, asked, outcomes>>
    BY <1>2 DEF Expire
  <2>3. TypeOK' /\ InFlightIsLatest' /\ OnlyLatestLive' /\ PressNotReplaced' /\ LatestNotCancelled'
    BY <2>1, <2>2 DEF IInv, TypeOK, slot, InFlightIsLatest, OnlyLatestLive, PressNotReplaced,
       LatestNotCancelled, Active, Working, Gen
  <2>4. OutcomesExplained'
    BY <2>2 DEF IInv, OutcomesExplained, Working, slot
  <2> QED BY <2>3, <2>4 DEF IInv
<1>3. CASE Stop
  <2>1. /\ ctx' \in [Gen -> Ctx] /\ \A h \in Gen : ctx'[h] # "live"
    BY <1>3 DEF IInv, TypeOK, Stop, Ctx
  <2>2. stopped' = TRUE /\ UNCHANGED <<slot, phase, press, listening, returned, asked, outcomes>>
    BY <1>3 DEF Stop
  <2>3. LatestNotCancelled' /\ OutcomesExplained'
    BY <2>2 DEF LatestNotCancelled, OutcomesExplained
  <2> QED BY <2>1, <2>2, <2>3 DEF IInv, TypeOK, slot, InFlightIsLatest, OnlyLatestLive, PressNotReplaced, Active
<1>4. CASE Refused \/ ListenerStops \/ WaitReturns \/ UNCHANGED vars
  <2>1. /\ listening' \in BOOLEAN /\ returned' \in BOOLEAN
        /\ UNCHANGED <<slot, phase, ctx, press, stopped, outcomes>>
    BY <1>4 DEF Refused, ListenerStops, WaitReturns, vars, IInv, TypeOK
  <2>5. asked' \in 0..MaxRequests /\ asked <= asked'
    BY <1>4, RequestAssumption DEF Refused, Asking, ListenerStops, WaitReturns, vars, IInv, TypeOK
  <2>2. TypeOK'
    BY <2>1, <2>5, RequestAssumption DEF IInv, TypeOK, slot
  <2>3. InFlightIsLatest' /\ OnlyLatestLive' /\ PressNotReplaced'
    BY <2>1 DEF IInv, slot, InFlightIsLatest, OnlyLatestLive, PressNotReplaced, Active
  <2>4. LatestNotCancelled' /\ OutcomesExplained'
    BY <2>1 DEF IInv, slot, LatestNotCancelled, OutcomesExplained, Working
  <2> QED BY <2>2, <2>3, <2>4 DEF IInv
<1> QED BY <1>1, <1>2, <1>3, <1>4, StartStep, FetchStepInv DEF Next, Request

(* The inductive invariant: the flag, the contexts and the priority of what   *)
(* runs are preserved together by every step of Request and of the goroutines. *)
THEOREM Invariance == Spec => []IInv
  BY InitInv, InvStep, PTL DEF Spec

(* Every variable keeps its type; generations are started in order. *)
THEOREM TypeCorrect == Spec => []TypeOK
  BY Invariance, PTL DEF IInv

(* No request is skipped for a fetch that is over: finish's comparison of     *)
(* generations keeps inFlight true to the goroutine started last.             *)
THEOREM InFlightIsLatestHolds == Spec => []InFlightIsLatest
  BY Invariance, PTL DEF IInv

(* At most one fetch under way has not been told to stop. *)
THEOREM OnlyLatestLiveHolds == Spec => []OnlyLatestLive
  BY Invariance, PTL DEF IInv

(* No press's snapshot is ever replaced. *)
THEOREM PressNotReplacedHolds == Spec => []PressNotReplaced
  BY Invariance, PTL DEF IInv

(* Every fetch started before shutdown is working, counted, or came too late. *)
THEOREM OutcomesExplainedHolds == Spec => []OutcomesExplained
  BY Invariance, PTL DEF IInv
-----------------------------------------------------------------------------
(* The fetches are one slot: what the flag and the priority say is what the   *)
(* fetch started last says, and no generation is a press's before its start.  *)

PriorityOfHolder == inFlight => (priority <=> press[gen])
PressStarted == \A g \in Gen : press[g] => g <= gen

SlotInv == IInv /\ PriorityOfHolder /\ PressStarted

Holder == IF gen \in Running THEN gen ELSE 0
Told == {g \in Running : ctx[g] # "live"}
Urgent == {g \in Gen : press[g]}

(* inFlight is whether the slot is held, and priority whether by a press. *)
LEMMA HeldIsInFlight ==
  ASSUME SlotInv
  PROVE  /\ inFlight <=> gen \in Running
         /\ Holder # 0 <=> inFlight
         /\ inFlight => Holder = gen /\ (Holder \in Urgent <=> priority)
<1>1. gen \in 0..MaxRequests /\ (gen > 0 => gen \in Gen) /\ (gen \in Gen => gen > 0)
  BY RequestAssumption DEF SlotInv, IInv, TypeOK, Gen
<1>2. inFlight <=> gen \in Running
  BY <1>1 DEF SlotInv, IInv, InFlightIsLatest, Running
<1>3. inFlight => (priority <=> press[gen])
  BY DEF SlotInv, PriorityOfHolder
<1> QED BY <1>1, <1>2, <1>3 DEF Holder, Urgent, Running

(* A request gives way exactly when somebody it must not replace has the slot. *)
LEMMA GivesWayIsHeld ==
  ASSUME SlotInv, NEW isPress \in BOOLEAN
  PROVE  GivesWay(isPress) <=> Holder # 0 /\ (~ isPress \/ Holder \in Urgent)
BY HeldIsInFlight DEF GivesWay

LEMMA SlotInvInit == Init => SlotInv
<1> SUFFICES ASSUME Init PROVE SlotInv
  OBVIOUS
<1>1. IInv
  BY InitInv
<1>2. PriorityOfHolder /\ PressStarted
  BY DEF Init, PriorityOfHolder, PressStarted
<1> QED BY <1>1, <1>2 DEF SlotInv

LEMMA SlotInvStep == SlotInv /\ [Next]_vars => SlotInv'
<1> SUFFICES ASSUME SlotInv, [Next]_vars PROVE PriorityOfHolder' /\ PressStarted'
  BY InvStep DEF SlotInv
<1>1. ASSUME NEW isPress \in BOOLEAN, Start(isPress) PROVE PriorityOfHolder' /\ PressStarted'
  <2>1. /\ gen \in Nat /\ gen + 1 \in Gen /\ gen' = gen + 1 /\ priority' = isPress
        /\ \A h \in Gen : press'[h] = IF h = gen + 1 THEN isPress ELSE press[h]
    BY <1>1, RequestAssumption DEF SlotInv, IInv, TypeOK, Start, Asking, NextGeneration, Gen
  <2>2. PriorityOfHolder'
    BY <2>1 DEF PriorityOfHolder
  <2>3. PressStarted'
    BY <2>1 DEF SlotInv, PressStarted, Gen
  <2> QED BY <2>2, <2>3
<1>2. ASSUME NEW isPress \in BOOLEAN, Skip(isPress) PROVE PriorityOfHolder' /\ PressStarted'
  BY <1>2 DEF Skip, slot, SlotInv, PriorityOfHolder, PressStarted
<1>3. ASSUME NEW g \in Gen, FetchStep(g) \/ Expire(g) PROVE PriorityOfHolder' /\ PressStarted'
  <2>1. UNCHANGED <<priority, gen, press>> /\ (inFlight' => inFlight)
    <3>1. CASE Finish(g)
      BY <3>1 DEF Finish
    <3>2. CASE Fetched(g) \/ FetchFails(g) \/ LookAtContext(g) \/ Published(g) \/ Expire(g)
      BY <3>2 DEF Fetched, FetchFails, LookAtContext, Published, Expire, slot
    <3> QED BY <1>3, <3>1, <3>2 DEF FetchStep, GoroutineStep
  <2> QED BY <2>1 DEF SlotInv, PriorityOfHolder, PressStarted
<1>4. CASE Refused \/ Stop \/ ListenerStops \/ WaitReturns \/ UNCHANGED vars
  BY <1>4 DEF Refused, Stop, ListenerStops, WaitReturns, vars, slot, SlotInv, PriorityOfHolder, PressStarted
<1> QED BY <1>1, <1>2, <1>3, <1>4 DEF Next, Request

(* A request that gets a fetch takes the slot, and whoever had it is told.    *)
LEMMA StartTakes ==
  ASSUME SlotInv, SlotInv', NEW isPress \in BOOLEAN, Start(isPress)
  PROVE  Slot!Next
<1> DEFINE f == gen + 1
<1>1. /\ gen \in Nat /\ f \in Gen /\ gen' = f /\ gen # f /\ stopped' = stopped /\ inFlight'
  BY RequestAssumption DEF SlotInv, IInv, TypeOK, Start, Asking, NextGeneration, Gen
<1>2. \A h \in Gen :
        /\ phase'[h] = IF h = f THEN "fetching" ELSE phase[h]
        /\ press'[h] = IF h = f THEN isPress ELSE press[h]
        /\ ctx'[h] = IF h = f THEN "live"
                     ELSE IF inFlight /\ h = gen /\ ctx[h] = "live" THEN "cancelled" ELSE ctx[h]
  BY <1>1 DEF SlotInv, IInv, TypeOK, Start, StartedAndCancelled
<1>3. f \notin Running /\ Running' = Running \cup {f}
  <2>1. phase[f] = "none"
    BY <1>1 DEF SlotInv, IInv, TypeOK
  <2>2. \A h \in Gen : Active(h)' <=> (h = f \/ Active(h))
    BY <1>2 DEF Active
  <2> QED BY <1>1, <2>1, <2>2 DEF Running, Active
<1>4. Holder' = f
  BY <1>1, <1>3 DEF Holder
<1>5. Told' = Told \cup ({Holder} \ {0})
  <2>1. inFlight => gen \in Running /\ Holder = gen /\ gen # 0
    BY <1>1, HeldIsInFlight DEF Running, Gen
  <2>2. ~ inFlight => Holder = 0
    BY HeldIsInFlight
  <2>3. \A h \in Running : h # f => (ctx'[h] # "live" <=> ctx[h] # "live" \/ (inFlight /\ h = gen))
    BY <1>2 DEF Running
  <2>4. ctx'[f] = "live"
    BY <1>1, <1>2
  <2>5. Running \subseteq Gen
    BY DEF Running
  <2>6. CASE inFlight
    BY <1>1, <1>3, <2>1, <2>3, <2>4, <2>6 DEF Told
  <2>7. CASE ~ inFlight
    BY <1>1, <1>3, <2>2, <2>3, <2>4, <2>7 DEF Told
  <2> QED BY <2>6, <2>7
<1>6. Urgent' = IF isPress THEN Urgent \cup {f} ELSE Urgent
  <2>1. ~ press[f]
    BY <1>1 DEF SlotInv, PressStarted
  <2> QED BY <1>1, <1>2, <2>1 DEF Urgent
<1>7. ~ stopped /\ ~ (Holder # 0 /\ (~ isPress \/ Holder \in Urgent))
  BY GivesWayIsHeld DEF Start, Accepts
<1>8. outcomes'["skipped"] = outcomes["skipped"]
  BY DEF Start, Count, SlotInv, IInv, TypeOK, Result
<1> HIDE DEF f
<1>9. Slot!Take(f, isPress)
  BY <1>1, <1>3, <1>4, <1>5, <1>6, <1>7, <1>8 DEF Slot!Take, Slot!Held, Slot!Nobody, Holder, Told, Urgent
<1> QED BY <1>1, <1>9 DEF Slot!Next

(* A skipped request is refused the slot. *)
LEMMA SkipRefuses ==
  ASSUME SlotInv, NEW isPress \in BOOLEAN, Skip(isPress)
  PROVE  Slot!Next
<1>1. UNCHANGED <<slot, phase, ctx, press, stopped>> /\ outcomes'["skipped"] = outcomes["skipped"] + 1
  BY DEF Skip, Count, SlotInv, IInv, TypeOK, Result
<1>2. UNCHANGED <<Holder, Running, Told, Urgent, stopped>>
  BY <1>1 DEF Holder, Running, Told, Urgent, Active, slot
<1>3. ~ stopped /\ Holder # 0 /\ (~ isPress \/ Holder \in Urgent)
  BY GivesWayIsHeld DEF Skip, Accepts
<1>4. Slot!Refuse(isPress)
  BY <1>1, <1>2, <1>3 DEF Slot!Refuse, Slot!Held, Slot!Nobody, Holder, Told, Urgent
<1> QED BY <1>4 DEF Slot!Next

(* The end of a goroutine frees the slot if the fetch still had it. *)
LEMMA FinishEnds ==
  ASSUME SlotInv, NEW g \in Gen, Finish(g)
  PROVE  Slot!Next
<1>1. /\ phase[g] = "finishing"
      /\ \A h \in Gen : phase'[h] = IF h = g THEN "done" ELSE phase[h]
      /\ \A h \in Gen : h # g => ctx'[h] = ctx[h]
      /\ UNCHANGED <<gen, press, stopped, outcomes>>
  BY DEF Finish, Moves, SlotInv, IInv, TypeOK
<1>2. g \in Running /\ Running' = Running \ {g}
  BY <1>1 DEF Running, Active
<1>3. Told' = Told \ {g}
  <2>1. Running \subseteq Gen
    BY DEF Running
  <2> QED BY <1>1, <1>2, <2>1 DEF Told
<1>4. Holder' = IF Holder = g THEN 0 ELSE Holder
  <2>1. g # 0
    BY RequestAssumption DEF Gen
  <2> QED BY <1>1, <1>2, <2>1 DEF Holder
<1>5. Urgent' = Urgent
  BY <1>1 DEF Urgent
<1>6. Slot!End(g)
  BY <1>1, <1>2, <1>3, <1>4, <1>5 DEF Slot!End, Slot!Nobody, Holder, Told, Urgent
<1> QED BY <1>6 DEF Slot!Next

(* Every step of the snapshotter is a step of the slot, or none. *)
LEMMA SlotStep ==
  ASSUME SlotInv, SlotInv', [Next]_vars
  PROVE  [Slot!Next]_Slot!vars
<1> DEFINE Still == UNCHANGED <<Holder, Running, Told, Urgent, outcomes["skipped"], stopped>>
<1>0. ASSUME Still PROVE UNCHANGED Slot!vars
  BY <1>0 DEF Slot!vars, Holder, Told, Urgent
<1>1. ASSUME NEW isPress \in BOOLEAN, Skip(isPress) \/ Start(isPress) PROVE Slot!Next
  BY <1>1, SkipRefuses, StartTakes
<1>2. ASSUME NEW g \in Gen, Fetched(g) \/ FetchFails(g) \/ LookAtContext(g) \/ Published(g) PROVE Still
  <2>1. PICK from \in {"fetching", "fetched", "publishing"}, to \in {"fetched", "publishing", "finishing"} :
          Moves(g, from, to)
    BY <1>2 DEF Fetched, FetchFails, LookAtContext, Published
  <2>2. \A h \in Gen : Active(h)' <=> Active(h)
    BY <2>1 DEF Moves, Active, SlotInv, IInv, TypeOK
  <2>3. UNCHANGED <<slot, ctx, press, stopped>>
    BY <1>2 DEF Fetched, FetchFails, LookAtContext, Published
  <2>4. Running' = Running
    BY <2>2 DEF Running
  <2>5. outcomes'["skipped"] = outcomes["skipped"]
    BY <1>2 DEF Fetched, FetchFails, LookAtContext, Published, Count, SlotInv, IInv, TypeOK, Result
  <2> QED BY <2>3, <2>4, <2>5 DEF Holder, Told, Urgent, slot
<1>3. ASSUME NEW g \in Gen, Finish(g) PROVE Slot!Next
  BY <1>3, FinishEnds
<1>4. ASSUME NEW g \in Gen, Expire(g) PROVE Slot!Next
  <2>1. /\ Active(g) /\ ctx[g] = "live" /\ ctx'[g] = "expired"
        /\ \A h \in Gen : h # g => ctx'[h] = ctx[h]
        /\ UNCHANGED <<slot, phase, press, stopped, outcomes>>
    BY <1>4 DEF Expire, SlotInv, IInv, TypeOK
  <2>2. UNCHANGED <<Holder, Running, Urgent>> /\ g \in Running
    BY <2>1 DEF Holder, Running, Urgent, Active, slot
  <2>3. g \notin Told /\ Told' = Told \cup {g}
    <3>1. Running \subseteq Gen
      BY DEF Running
    <3> QED BY <2>1, <2>2, <3>1 DEF Told
  <2>4. Slot!TimesOut(g)
    BY <2>1, <2>2, <2>3 DEF Slot!TimesOut, Holder, Told, Urgent
  <2> QED BY <2>4 DEF Slot!Next
<1>5. CASE Stop
  <2>1. /\ ~ stopped /\ stopped' = TRUE /\ \A h \in Gen : ctx'[h] # "live"
        /\ UNCHANGED <<slot, phase, press, outcomes>>
    BY <1>5 DEF Stop
  <2>2. UNCHANGED <<Holder, Running, Urgent>> /\ Running \subseteq Gen
    BY <2>1 DEF Holder, Running, Urgent, Active, slot
  <2>3. Told' = Running
    BY <2>1, <2>2 DEF Told
  <2>4. Slot!Close
    BY <2>1, <2>2, <2>3 DEF Slot!Close, Holder, Told, Urgent
  <2> QED BY <2>4 DEF Slot!Next
<1>6. CASE Refused \/ ListenerStops \/ WaitReturns \/ UNCHANGED vars
  <2>1. UNCHANGED <<slot, phase, ctx, press, stopped, outcomes>>
    BY <1>6 DEF Refused, ListenerStops, WaitReturns, vars
  <2>2. Still
    BY <2>1 DEF slot, Holder, Running, Told, Urgent, Active
  <2> QED BY <2>2, <1>0
<1> QED
  BY <1>0, <1>1, <1>2, <1>3, <1>4, <1>5, <1>6 DEF Next, Request, FetchStep, GoroutineStep

LEMMA SlotInit == Init => Slot!Init
<1> SUFFICES ASSUME Init PROVE Slot!Init
  OBVIOUS
<1>1. Running = {} /\ Urgent = {} /\ outcomes["skipped"] = 0 /\ stopped = FALSE
  BY DEF Init, Running, Urgent, Active, Result
<1>2. Told = {} /\ Holder = 0
  BY <1>1 DEF Told, Holder
<1> QED BY <1>1, <1>2 DEF Slot!Init, Slot!Nobody, Holder, Told, Urgent

(* The snapshotter is one slot: whatever its lock, flag and generations do, a *)
(* press takes the slot from a detection and from nobody else, a request is   *)
(* skipped only while the slot is held, nobody gets it once the context is    *)
(* done, and it is freed by the end of the fetch that has it.                 *)
THEOREM OneSlot == Spec => ImplementsStillSlot
<1>1. SlotInv /\ SlotInv' /\ [Next]_vars => [Slot!Next]_Slot!vars
  BY SlotStep
<1> QED BY <1>1, SlotInvInit, SlotInvStep, SlotInit, PTL DEF Spec, ImplementsStillSlot, Slot!Spec

(* What the slot promises of its holder: of the fetches that run, only the one *)
(* that has the slot has not been told to stop.                                *)
THEOREM OneWantedHolds == Spec => []Slot!OneWanted
<1>1. SlotInv => Slot!OneWanted
  <2> SUFFICES ASSUME SlotInv, NEW f \in Running \ Told PROVE f = Holder
    BY DEF Slot!OneWanted, Told, Holder
  <2>1. f \in Gen /\ Active(f) /\ ctx[f] = "live"
    BY DEF Running, Told
  <2>2. f = gen /\ inFlight
    BY <2>1 DEF SlotInv, IInv, OnlyLatestLive
  <2> QED BY <2>2, HeldIsInFlight
<1> QED BY <1>1, SlotInvInit, SlotInvStep, PTL DEF Spec
-----------------------------------------------------------------------------
(* How the slot is freed: what its fetch has yet to do, and more while a press *)
(* may still take the slot of a detection's.                                   *)

ToDo(at) ==
  CASE at = "fetching" -> 4 [] at = "fetched" -> 3 [] at = "publishing" -> 2
    [] at = "finishing" -> 1 [] OTHER -> 0

SlotWork == IF ~ inFlight THEN 0 ELSE (IF priority THEN 0 ELSE 5) + ToDo(phase[gen])

SlotMoves == gen' # gen \/ phase'[gen] # phase[gen]

WorkIsLeft == SlotWork \in 0..9 /\ (inFlight => ToDo(phase[gen]) \in 1..4)

LEMMA SlotWorkLeft == SlotInv => WorkIsLeft
<1> SUFFICES ASSUME SlotInv PROVE WorkIsLeft
  OBVIOUS
<1>1. inFlight => phase[gen] \in {"fetching", "fetched", "publishing", "finishing"}
  <2>1. inFlight => gen \in Gen /\ Active(gen)
    BY HeldIsInFlight DEF Running
  <2> QED BY <2>1 DEF SlotInv, IInv, TypeOK, Active, Phase
<1>2. inFlight => ToDo(phase[gen]) \in 1..4
  BY <1>1 DEF ToDo
<1> HIDE DEF ToDo
<1> QED BY <1>2 DEF SlotWork, WorkIsLeft

(* Only a press takes a held slot, and only from a detection. *)
LEMMA StartLessWork ==
  ASSUME SlotInv, SlotInv', NEW isPress \in BOOLEAN, Start(isPress), inFlight
  PROVE  SlotWork' < SlotWork
<1>1. ~ priority /\ priority' /\ inFlight'
  BY DEF Start, GivesWay
<1>2. SlotWork' = 0 + ToDo(phase'[gen'])
  BY <1>1 DEF SlotWork
<1>3. SlotWork = 5 + ToDo(phase[gen])
  BY <1>1 DEF SlotWork
<1>4. WorkIsLeft /\ WorkIsLeft'
  <2>1. WorkIsLeft'
    BY SlotWorkLeft, PTL
  <2> QED BY <2>1, SlotWorkLeft
<1>5. ToDo(phase'[gen']) \in 1..4 /\ ToDo(phase[gen]) \in 1..4
  BY <1>1, <1>4 DEF WorkIsLeft
<1> HIDE DEF ToDo
<1> QED BY <1>2, <1>3, <1>5

(* A step of a goroutine is a step of the slot's only if it is the holder's.  *)
LEMMA GoroutineLessWork ==
  ASSUME SlotInv, SlotInv', NEW g \in Gen, FetchStep(g), inFlight
  PROVE  SlotWork' <= SlotWork /\ (SlotMoves => SlotWork' < SlotWork)
<1>1. gen \in Gen /\ UNCHANGED <<gen, priority>> /\ inFlight \in BOOLEAN
  <2>1. UNCHANGED <<gen, priority>>
    <3>1. CASE Finish(g)
      BY <3>1 DEF Finish
    <3>2. CASE Fetched(g) \/ FetchFails(g) \/ LookAtContext(g) \/ Published(g)
      BY <3>2 DEF Fetched, FetchFails, LookAtContext, Published, slot
    <3> QED BY <3>1, <3>2 DEF FetchStep, GoroutineStep
  <2> QED BY <2>1, HeldIsInFlight DEF Running, SlotInv, IInv, TypeOK
<1>2. SlotWork \in Nat /\ SlotWork = (IF priority THEN 0 ELSE 5) + ToDo(phase[gen]) /\ ToDo(phase[gen]) \in 1..4
  BY SlotWorkLeft DEF SlotWork, WorkIsLeft
<1>3. CASE Finish(g)
  <2>1. /\ phase[g] = "finishing" /\ phase' = [phase EXCEPT ![g] = "done"]
        /\ inFlight' = (inFlight /\ gen # g)
    BY <1>3 DEF Finish, Moves
  <2>2. CASE gen = g
    <3>1. SlotWork' = 0
      BY <2>1, <2>2 DEF SlotWork
    <3> HIDE DEF ToDo
    <3> QED BY <1>2, <3>1
  <2>3. CASE gen # g
    <3>1. phase'[gen] = phase[gen] /\ inFlight'
      BY <1>1, <2>1, <2>3 DEF SlotInv, IInv, TypeOK
    <3>2. SlotWork' = SlotWork /\ ~ SlotMoves
      BY <1>1, <3>1 DEF SlotWork, SlotMoves
    <3> HIDE DEF ToDo
    <3> QED BY <1>2, <3>2
  <2> QED BY <2>2, <2>3
<1>4. CASE Fetched(g) \/ FetchFails(g) \/ LookAtContext(g) \/ Published(g)
  <2>1. PICK from \in {"fetching", "fetched", "publishing"}, to \in {"fetched", "publishing", "finishing"} :
          Moves(g, from, to) /\ ToDo(to) < ToDo(from)
    BY <1>4 DEF Fetched, FetchFails, LookAtContext, Published, ToDo
  <2>2. inFlight' = inFlight
    BY <1>4 DEF Fetched, FetchFails, LookAtContext, Published, slot
  <2>3. CASE gen = g
    <3>1. phase[gen] = from /\ phase'[gen] = to
      BY <1>1, <2>1, <2>3 DEF Moves, SlotInv, IInv, TypeOK
    <3>2. SlotWork' = (IF priority THEN 0 ELSE 5) + ToDo(to)
      BY <1>1, <2>2, <3>1 DEF SlotWork
    <3>3. ToDo(to) \in Nat /\ ToDo(from) \in Nat
      BY DEF ToDo
    <3> HIDE DEF ToDo
    <3> QED BY <1>2, <2>1, <3>1, <3>2, <3>3
  <2>4. CASE gen # g
    <3>1. phase'[gen] = phase[gen]
      BY <1>1, <2>1, <2>4 DEF Moves, SlotInv, IInv, TypeOK
    <3>2. SlotWork' = SlotWork /\ ~ SlotMoves
      BY <1>1, <2>2, <3>1 DEF SlotWork, SlotMoves
    <3> HIDE DEF ToDo
    <3> QED BY <1>2, <3>2
  <2> QED BY <2>3, <2>4
<1> QED BY <1>3, <1>4 DEF FetchStep, GoroutineStep

(* A held slot is freed after nine steps at most of the fetches that have it, *)
(* however many requests come: each of those steps leaves less to do, and     *)
(* nothing else, no skipped request, no superseded fetch that ends late, no   *)
(* deadline and no shutdown, ever leaves more.                                *)
THEOREM SlotFreedInSteps ==
  Spec => [][inFlight => /\ SlotWork <= 9 /\ SlotWork' <= SlotWork
                         /\ (SlotMoves => SlotWork' < SlotWork)]_vars
<1>1. ASSUME SlotInv, SlotInv', [Next]_vars, inFlight
      PROVE  SlotWork <= 9 /\ SlotWork' <= SlotWork /\ (SlotMoves => SlotWork' < SlotWork)
  <2>1. SlotWork \in 0..9
    BY <1>1, SlotWorkLeft DEF WorkIsLeft
  <2>2. ASSUME UNCHANGED <<slot, phase>> PROVE SlotWork' = SlotWork /\ ~ SlotMoves
    BY <2>2 DEF slot, SlotWork, SlotMoves
  <2>3. ASSUME NEW isPress \in BOOLEAN, Start(isPress) PROVE SlotWork' < SlotWork
    BY <1>1, <2>3, StartLessWork
  <2>6. SlotWork' \in 0..9
    <3>1. WorkIsLeft'
      BY <1>1, SlotWorkLeft, PTL
    <3> QED BY <3>1 DEF WorkIsLeft
  <2>4. ASSUME NEW g \in Gen, FetchStep(g)
        PROVE  SlotWork' <= SlotWork /\ (SlotMoves => SlotWork' < SlotWork)
    BY <1>1, <2>4, GoroutineLessWork
  <2>5. (\E isPress \in BOOLEAN : Start(isPress)) \/ (\E g \in Gen : FetchStep(g))
          \/ UNCHANGED <<slot, phase>>
    BY <1>1 DEF Next, Request, Refused, Skip, Expire, Stop, ListenerStops, WaitReturns, vars
  <2> HIDE DEF SlotWork, SlotMoves
  <2> QED BY <2>1, <2>2, <2>3, <2>6, <2>4, <2>5
<1> QED BY <1>1, SlotInvInit, SlotInvStep, PTL DEF Spec
=============================================================================
