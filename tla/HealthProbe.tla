---------------------------- MODULE HealthProbe -----------------------------
(***************************************************************************)
(* The camera check of the health endpoint (pkg/health/health.go): every   *)
(* request for /health runs healthCheckHandler in a goroutine of its own,  *)
(* and probeCamera asks the camera under a mutex, unless a probe succeeded *)
(* within probeTTL.  The request's context, which bounds the probe, is     *)
(* made before the mutex is waited for.                                    *)
(***************************************************************************)
EXTENDS Integers, FiniteSets

CONSTANTS
  Request,        \* requests that can be under way at the same time
  ProbeTimeout,   \* probeTimeout, in ticks
  ProbeTTL        \* probeCacheTTL

ASSUME HealthAssumption ==
  /\ IsFiniteSet(Request) /\ ProbeTimeout \in Nat \ {0} /\ ProbeTTL \in Nat \ {0}

VARIABLES
  pc,        \* where the handler of every request is
  left,      \* ticks left of its context, 0 when that is done
  trusted,   \* probeTTL less the age of lastProbeOK, 0 when it is not to be trusted
  camera,    \* "up", "refuses" (answers with an error) or "hung"
  wasUp,     \* the camera has been up since the request came (history)
  since      \* ticks since the camera answered a probe, to ProbeTTL (history)

request == <<pc, left>>
history == <<wasUp, since>>
vars == <<request, trusted, camera, history>>

(* The mutex is held by a request that is "locked" or "probing". *)
Holding == {r \in Request : pc[r] \in {"locked", "probing"}}
Waiting == {r \in Request : pc[r] = "waiting"}

Init ==
  /\ pc = [r \in Request |-> "none"] /\ left = [r \in Request |-> 0]
  /\ trusted = 0 /\ camera \in {"up", "refuses", "hung"}
  /\ wasUp = [r \in Request |-> FALSE] /\ since = ProbeTTL
-----------------------------------------------------------------------------
(* healthCheckHandler and probeCamera. *)

Arrives(r) ==
  /\ pc[r] \in {"none", "okay", "unreachable"}
  /\ pc' = [pc EXCEPT ![r] = "waiting"] /\ left' = [left EXCEPT ![r] = ProbeTimeout]
  /\ wasUp' = [wasUp EXCEPT ![r] = camera = "up"]
  /\ UNCHANGED <<trusted, camera, since>>

(* A mutant: the mutex is not taken. *)
NotLocked == TRUE

Unlocked == Holding = {}

Locks(r) ==
  /\ pc[r] = "waiting" /\ Unlocked
  /\ pc' = [pc EXCEPT ![r] = "locked"]
  /\ UNCHANGED <<left, trusted, camera, history>>

(* A mutant: using the result makes it last longer. *)
Renewed == ProbeTTL

AfterUse == trusted

Cached(r) ==
  /\ pc[r] = "locked" /\ trusted > 0
  /\ pc' = [pc EXCEPT ![r] = "okay"] /\ trusted' = AfterUse
  /\ UNCHANGED <<left, camera, history>>

(* A request whose context is done does not reach the camera. *)
Asks(r) ==
  /\ pc[r] = "locked" /\ trusted = 0
  /\ pc' = [pc EXCEPT ![r] = "probing"]
  /\ UNCHANGED <<left, trusted, camera, history>>

ProbeSucceeds(r) ==
  /\ pc[r] = "probing" /\ camera = "up" /\ left[r] > 0
  /\ pc' = [pc EXCEPT ![r] = "okay"] /\ trusted' = ProbeTTL /\ since' = 0
  /\ UNCHANGED <<left, camera, wasUp>>

AfterFailure == 0

(* A mutant: the probe has no deadline of its own. *)
NeverExpired(r) == FALSE

Expired(r) == left[r] = 0

(* A mutant: those who wait share the failure. *)
FailsForAll(r) ==
  /\ pc[r] = "probing" /\ (Expired(r) \/ camera = "refuses")
  /\ pc' = [q \in Request |-> IF q \in Waiting \cup {r} THEN "unreachable" ELSE pc[q]]
  /\ trusted' = AfterFailure
  /\ UNCHANGED <<left, camera, history>>

ProbeFails(r) ==
  /\ pc[r] = "probing" /\ (Expired(r) \/ camera = "refuses")
  /\ pc' = [pc EXCEPT ![r] = "unreachable"] /\ trusted' = AfterFailure
  /\ UNCHANGED <<left, camera, history>>

(* The client hangs up. *)
ClientLeaves(r) ==
  /\ pc[r] \in {"waiting", "locked", "probing"} /\ left[r] > 0
  /\ left' = [left EXCEPT ![r] = 0]
  /\ UNCHANGED <<pc, trusted, camera, history>>
-----------------------------------------------------------------------------
CameraChanges ==
  /\ camera' \in {"up", "refuses", "hung"} \ {camera}
  /\ wasUp' = [r \in Request |-> FALSE]
  /\ UNCHANGED <<request, trusted, since>>

(* Time passes while every request waits: for another one, or for the camera. *)
Tick ==
  /\ Waiting = {} \/ Holding # {}
  /\ \A r \in Holding : pc[r] = "probing" /\ left[r] > 0
  /\ left' = [r \in Request |-> IF left[r] > 0 THEN left[r] - 1 ELSE 0]
  /\ trusted' = IF trusted > 0 THEN trusted - 1 ELSE 0
  /\ since' = IF since < ProbeTTL THEN since + 1 ELSE since
  /\ UNCHANGED <<pc, camera, wasUp>>

HandlerStep(r) == Cached(r) \/ Asks(r) \/ ProbeSucceeds(r) \/ ProbeFails(r)

Next ==
  \/ \E r \in Request : Arrives(r) \/ Locks(r) \/ HandlerStep(r) \/ ClientLeaves(r)
  \/ CameraChanges \/ Tick

Spec == Init /\ [][Next]_vars

(* The handlers run, the mutex is fair, and time passes. *)
FairSpec ==
  /\ Spec /\ SF_vars(Tick)
  /\ \A r \in Request : SF_vars(Locks(r)) /\ WF_vars(HandlerStep(r))
-----------------------------------------------------------------------------
PC == {"none", "waiting", "locked", "probing", "okay", "unreachable"}

(* Every variable has its type, and one handler at a time holds the mutex. *)
TypeOK ==
  /\ pc \in [Request -> PC] /\ left \in [Request -> 0..ProbeTimeout]
  /\ trusted \in 0..ProbeTTL /\ since \in 0..ProbeTTL
  /\ camera \in {"up", "refuses", "hung"}
  /\ wasUp \in [Request -> BOOLEAN]
  /\ \A r, q \in Holding : r = q

(* "okay" is never older than probeCacheTTL: it is answered only if the camera *)
(* answered a probe less than that ago.                                        *)
OkayIsFresh ==
  [][\A r \in Request : pc[r] # "okay" /\ pc'[r] = "okay" => since' < ProbeTTL]_vars

(* And the camera is not asked again for as long: requests that wait for a   *)
(* probe that succeeds, or come after it, do without one of their own.       *)
CameraSpared == [][\A r \in Request : Asks(r) => since = ProbeTTL]_vars

(* "Failures are never cached, so recovery shows up on the next request": one *)
(* that comes when the camera is up, and whose context lasts, is not told it  *)
(* is unreachable, whatever requests before it found.                         *)
RecoveryShows ==
  [][\A r \in Request :
       pc[r] # "unreachable" /\ pc'[r] = "unreachable" => ~ wasUp[r] \/ left[r] = 0]_vars

(* A camera that never answers, or a client that leaves, does not keep a health *)
(* request waiting for ever.                                                    *)
EveryRequestAnswered ==
  \A r \in Request : pc[r] = "waiting" ~> pc[r] \in {"okay", "unreachable"}
=============================================================================
