-------------------------- MODULE HealthProbe_proof -------------------------
(***************************************************************************)
(* Proofs about HealthProbe, for any number of requests and any times.     *)
(***************************************************************************)
EXTENDS HealthProbe, TLAPS

Types ==
  /\ pc \in [Request -> PC] /\ left \in [Request -> 0..ProbeTimeout]
  /\ trusted \in 0..ProbeTTL /\ since \in 0..ProbeTTL
  /\ camera \in {"up", "refuses", "hung"}
  /\ wasUp \in [Request -> BOOLEAN]

Exclusion == \A r, q \in Request : r \in Holding /\ q \in Holding => r = q

(* The result is trusted for ProbeTTL after the camera answered; a request that *)
(* asks found it too old, and nobody else can have renewed it since.            *)
Age ==
  /\ trusted + since = ProbeTTL
  /\ \A r \in Request : pc[r] = "probing" => since = ProbeTTL

UpSince == \A r \in Request : wasUp[r] => camera = "up"

Inv == Types /\ Exclusion /\ Age /\ UpSince

(* A result that is trusted is younger than ProbeTTL. *)
LEMMA Trusted ==
  ASSUME NEW t \in Nat, NEW s \in Nat, t + s = ProbeTTL, t > 0 PROVE s < ProbeTTL
  BY HealthAssumption
-----------------------------------------------------------------------------
(* Every step keeps the types. *)
LEMMA TypesStep == Types /\ [Next]_vars => Types'
<1> SUFFICES ASSUME Types, [Next]_vars PROVE Types'
  OBVIOUS
<1> USE HealthAssumption DEF Types, PC, request, history
<1>1. ASSUME NEW r \in Request, Arrives(r) PROVE Types'
  BY <1>1 DEF Arrives
<1>2. ASSUME NEW r \in Request, Locks(r) PROVE Types'
  BY <1>2 DEF Locks
<1>3. ASSUME NEW r \in Request, Cached(r) PROVE Types'
  BY <1>3 DEF Cached, AfterUse
<1>4. ASSUME NEW r \in Request, Asks(r) PROVE Types'
  BY <1>4 DEF Asks, Waiting
<1>5. ASSUME NEW r \in Request, ProbeSucceeds(r) PROVE Types'
  BY <1>5 DEF ProbeSucceeds
<1>6. ASSUME NEW r \in Request, ProbeFails(r) PROVE Types'
  BY <1>6 DEF ProbeFails, AfterFailure
<1>7. ASSUME NEW r \in Request, ClientLeaves(r) PROVE Types'
  BY <1>7 DEF ClientLeaves
<1>8. CASE CameraChanges
  BY <1>8 DEF CameraChanges
<1>9. CASE Tick
  BY <1>9 DEF Tick
<1>10. CASE UNCHANGED vars
  BY <1>10 DEF vars
<1> QED
  BY <1>1, <1>2, <1>3, <1>4, <1>5, <1>6, <1>7, <1>8, <1>9, <1>10 DEF Next, HandlerStep

(* Only Locks lets a request hold the mutex, and only when it is free. *)
LEMMA ExclusionStep == Types /\ Exclusion /\ [Next]_vars => Exclusion'
<1> SUFFICES ASSUME Types, Exclusion, [Next]_vars PROVE Exclusion'
  OBVIOUS
<1> USE DEF Types, Exclusion, Holding, request, history
<1>1. ASSUME NEW r \in Request, Locks(r) PROVE Exclusion'
  BY <1>1 DEF Locks, Unlocked
<1>2. ASSUME NEW r \in Request, Arrives(r) \/ HandlerStep(r) \/ ClientLeaves(r) PROVE Exclusion'
  BY <1>2 DEF Arrives, HandlerStep, Cached, Asks, ProbeSucceeds, ProbeFails, ClientLeaves
<1>3. CASE CameraChanges \/ Tick \/ UNCHANGED vars
  BY <1>3 DEF CameraChanges, Tick, vars
<1> QED
  BY <1>1, <1>2, <1>3 DEF Next

(* The cached result ages with the camera's last answer. *)
LEMMA AgeStep == Types /\ Exclusion /\ Age /\ [Next]_vars => Age'
<1> SUFFICES ASSUME Types, Exclusion, Age, [Next]_vars PROVE Age'
  OBVIOUS
<1> USE HealthAssumption DEF Types, Age, request, history
<1>1. ASSUME NEW r \in Request, Arrives(r) \/ Locks(r) \/ ClientLeaves(r) PROVE Age'
  BY <1>1 DEF Arrives, Locks, ClientLeaves
<1>2. ASSUME NEW r \in Request, Cached(r) \/ Asks(r) PROVE Age'
  BY <1>2 DEF Cached, Asks, AfterUse
<1>3. ASSUME NEW r \in Request, ProbeSucceeds(r) PROVE Age'
  <2>1. \A q \in Request : pc'[q] # "probing"
    BY <1>3 DEF ProbeSucceeds, Exclusion, Holding
  <2> QED
    BY <1>3, <2>1 DEF ProbeSucceeds
<1>4. ASSUME NEW r \in Request, ProbeFails(r) PROVE Age'
  BY <1>4 DEF ProbeFails, AfterFailure
<1>5. CASE CameraChanges \/ UNCHANGED vars
  BY <1>5 DEF CameraChanges, vars
<1>6. CASE Tick
  BY <1>6 DEF Tick
<1> QED
  BY <1>1, <1>2, <1>3, <1>4, <1>5, <1>6 DEF Next, HandlerStep

LEMMA UpSinceStep == Types /\ UpSince /\ [Next]_vars => UpSince'
<1> SUFFICES ASSUME Types, UpSince, [Next]_vars PROVE UpSince'
  OBVIOUS
<1> USE DEF Types, UpSince, request, history
<1>1. ASSUME NEW r \in Request, Arrives(r) PROVE UpSince'
  BY <1>1 DEF Arrives
<1>2. CASE CameraChanges
  BY <1>2 DEF CameraChanges
<1>3. CASE UNCHANGED <<wasUp, camera>>
  BY <1>3
<1> QED
  BY <1>1, <1>2, <1>3 DEF Next, HandlerStep, Locks, Cached, Asks, ProbeSucceeds, ProbeFails,
    ClientLeaves, Tick, vars

LEMMA Invariance == Spec => []Inv
<1>1. Init => Inv
  <2> SUFFICES ASSUME Init PROVE Inv
    OBVIOUS
  <2>1. Types
    BY HealthAssumption DEF Init, Types, PC
  <2>2. Exclusion /\ UpSince
    BY DEF Init, Exclusion, Holding, UpSince
  <2>3. Age
    BY HealthAssumption DEF Init, Age
  <2> QED
    BY <2>1, <2>2, <2>3 DEF Inv
<1>2. Inv /\ [Next]_vars => Inv'
  BY TypesStep, ExclusionStep, AgeStep, UpSinceStep DEF Inv
<1> QED
  BY <1>1, <1>2, PTL DEF Spec
-----------------------------------------------------------------------------
(* probeMu admits one handler at a time, and every variable keeps its type. *)
THEOREM TypeCorrect == Spec => []TypeOK
<1>1. Inv => TypeOK
  BY DEF Inv, Types, Exclusion, TypeOK, Holding
<1> QED
  BY <1>1, Invariance, PTL

(* probeCamera answers nil only if the camera answered less than probeTTL ago. *)
THEOREM OkayIsFreshHolds == Spec => OkayIsFresh
<1>1. Inv /\ Inv' /\ [Next]_vars =>
        [\A r \in Request : pc[r] # "okay" /\ pc'[r] = "okay" => since' < ProbeTTL]_vars
  <2> SUFFICES ASSUME Inv, Inv', Next, NEW r \in Request, pc[r] # "okay", pc'[r] = "okay"
               PROVE since' < ProbeTTL
    OBVIOUS
  <2>1. \E q \in Request : Cached(q) \/ ProbeSucceeds(q)
    BY DEF Inv, Types, Next, HandlerStep, Arrives, Locks, Asks, ProbeFails, ClientLeaves,
      CameraChanges, Tick, request
  <2>2. trusted' > 0
    BY <2>1, HealthAssumption DEF Cached, AfterUse, ProbeSucceeds, Inv, Types
  <2>3. trusted' + since' = ProbeTTL
    BY DEF Inv, Age
  <2>4. trusted' \in Nat /\ since' \in Nat
    BY HealthAssumption DEF Inv, Types
  <2> QED
    BY <2>2, <2>3, <2>4, Trusted, Zenon
<1> QED
  BY <1>1, Invariance, PTL DEF Spec, OkayIsFresh

(* probeCamera asks the camera only when its last answer is probeTTL old. *)
THEOREM CameraSparedHolds == Spec => CameraSpared
<1>1. Inv => \A r \in Request : Asks(r) => since = ProbeTTL
  BY HealthAssumption DEF Inv, Types, Age, Asks
<1> QED
  BY <1>1, Invariance, PTL DEF Spec, CameraSpared

(* A camera that is up when a request comes, and stays up, is not reported *)
(* unreachable to it, unless the request's own context ends.               *)
THEOREM RecoveryShowsHolds == Spec => RecoveryShows
<1>1. Inv /\ [Next]_vars =>
        [\A r \in Request : pc[r] # "unreachable" /\ pc'[r] = "unreachable"
                              => ~ wasUp[r] \/ left[r] = 0]_vars
  <2> SUFFICES ASSUME Inv, Next, NEW r \in Request, pc[r] # "unreachable", pc'[r] = "unreachable"
               PROVE ~ wasUp[r] \/ left[r] = 0
    OBVIOUS
  <2>1. ProbeFails(r)
    BY DEF Inv, Types, Next, HandlerStep, Arrives, Locks, Asks, Cached, ProbeSucceeds, ProbeFails,
      ClientLeaves, CameraChanges, Tick, request
  <2> QED
    BY <2>1 DEF ProbeFails, Expired, Inv, UpSince
<1> QED
  BY <1>1, Invariance, PTL DEF Spec, RecoveryShows
-----------------------------------------------------------------------------
UnderWay == Waiting \cup Holding

(* The contexts of the requests under way end within n ticks. *)
Within(n) == \A r \in UnderWay : left[r] <= n

(* A context is made before probeMu is waited for, so the contexts of all that *)
(* wait run down together while one of them asks a camera that hangs: however  *)
(* many requests are queued, time passes for probeTimeout at most until all of *)
(* them, but for those that come later, have been answered.                    *)
THEOREM AnsweredTogether ==
  Spec => /\ []Within(ProbeTimeout)
          /\ [][(\A r \in Request : ~ Arrives(r)) =>
                  \A n \in 0..ProbeTimeout : Within(n) =>
                     /\ Within(n)'
                     /\ (Tick /\ UnderWay # {} => n > 0 /\ Within(n - 1)')]_vars
<1>1. Inv => Within(ProbeTimeout)
  BY HealthAssumption DEF Inv, Types, Within, UnderWay, Waiting, Holding
<1>2. ASSUME Inv, [Next]_vars, \A r \in Request : ~ Arrives(r)
      PROVE  \A n \in 0..ProbeTimeout : Within(n) =>
               /\ Within(n)'
               /\ (Tick /\ UnderWay # {} => n > 0 /\ Within(n - 1)')
  <2> SUFFICES ASSUME NEW n \in 0..ProbeTimeout, Within(n)
               PROVE  Within(n)' /\ (Tick /\ UnderWay # {} => n > 0 /\ Within(n - 1)')
    OBVIOUS
  <2>1. /\ n \in Nat /\ left \in [Request -> Nat] /\ pc \in [Request -> PC]
        /\ UnderWay = {r \in Request : pc[r] \in {"waiting", "locked", "probing"}}
    BY <1>2, HealthAssumption DEF Inv, Types, UnderWay, Waiting, Holding
  <2>2. CASE Tick
    <3>1. /\ pc' = pc /\ left' = [r \in Request |-> IF left[r] > 0 THEN left[r] - 1 ELSE 0]
          /\ UnderWay' = UnderWay
      BY <2>2 DEF Tick, UnderWay, Waiting, Holding
    <3>2. UnderWay # {} => n > 0
      <4> SUFFICES ASSUME UnderWay # {} PROVE n > 0
        OBVIOUS
      <4>1. PICK r \in Holding : left[r] > 0
        BY <2>2 DEF Tick, UnderWay
      <4>2. left[r] <= n /\ left[r] \in Nat
        BY <2>1, <4>1 DEF Within, UnderWay, Holding
      <4> QED BY <2>1, <4>1, <4>2
    <3>3. n > 0 => Within(n - 1)'
      <4> SUFFICES ASSUME n > 0, NEW r \in UnderWay PROVE left'[r] <= n - 1
        BY <3>1 DEF Within
      <4>1. left[r] \in Nat /\ left[r] <= n
        BY <2>1 DEF Within
      <4>2. left'[r] = IF left[r] > 0 THEN left[r] - 1 ELSE 0
        BY <2>1, <3>1
      <4> QED BY <2>1, <4>1, <4>2
    <3>4. Within(n)'
      <4> SUFFICES ASSUME NEW r \in UnderWay PROVE left'[r] <= n
        BY <3>1 DEF Within
      <4>1. left[r] \in Nat /\ left[r] <= n
        BY <2>1 DEF Within
      <4>2. left'[r] = IF left[r] > 0 THEN left[r] - 1 ELSE 0
        BY <2>1, <3>1
      <4> QED BY <2>1, <4>1, <4>2
    <3> QED BY <3>2, <3>3, <3>4
  <2>3. CASE ~ Tick
    <3>1. UnderWay' \subseteq UnderWay /\ \A r \in Request : left'[r] = left[r] \/ left'[r] = 0
      <4>1. ASSUME NEW r \in Request, Locks(r) \/ HandlerStep(r)
            PROVE  UnderWay' \subseteq UnderWay /\ left' = left
        BY <2>1, <4>1 DEF Locks, HandlerStep, Cached, Asks, ProbeSucceeds, ProbeFails, UnderWay, Waiting, Holding
      <4>2. ASSUME NEW r \in Request, ClientLeaves(r)
            PROVE  UnderWay' = UnderWay /\ \A q \in Request : left'[q] = left[q] \/ left'[q] = 0
        BY <2>1, <4>2 DEF ClientLeaves, UnderWay, Waiting, Holding
      <4>3. CASE UNCHANGED <<pc, left>>
        BY <4>3 DEF UnderWay, Waiting, Holding
      <4> QED BY <1>2, <2>3, <4>1, <4>2, <4>3 DEF Next, CameraChanges, vars, request
    <3>2. Within(n)'
      BY <2>1, <3>1 DEF Within
    <3> QED BY <2>3, <3>2
  <2> QED BY <2>2, <2>3
<1> QED BY <1>1, <1>2, Invariance, PTL DEF Spec
=============================================================================
