----------------------------- MODULE KeepOnline -----------------------------
(***************************************************************************)
(* KeepOnline of pkg/dahua/online.go: a goroutine tells the camera that    *)
(* its cloud connection is up, now and at every tick of a ticker, because  *)
(* the camera forgets it.  A time.Ticker keeps its own pace and holds one  *)
(* tick at most; an attempt is cut off after forceOnlineTimeout and by     *)
(* shutdown.                                                               *)
(*                                                                         *)
(* Time is counted in ticks and passes only while the goroutine waits for  *)
(* the camera or the ticker, never past the end of that wait.              *)
(***************************************************************************)
EXTENDS Integers

CONSTANTS
  Interval,   \* cfg.Dahua.ForceOnlineInterval
  Timeout     \* forceOnlineTimeout

(* finishDahua refuses an interval below minForceOnlineInterval, which is as *)
(* long as forceOnlineTimeout.                                               *)
Accepted == Timeout <= Interval

ASSUME KeepOnlineAssumption ==
  Interval \in Nat \ {0} /\ Timeout \in Nat \ {0} /\ Accepted

VARIABLES
  pc,          \* where KeepOnline is
  left,        \* ticks left of the attempt's context
  failed,      \* ForceOnline returned an error
  failing,     \* the last attempt counted failed
  ticker,      \* ticks until the ticker's next
  ticked,      \* its channel holds one
  cancelled,   \* ctx is done
  camera,      \* whether the camera answers, refuses the setting or hangs
  since,       \* ticks since an attempt began (history)
  owed,        \* attempts begun less those counted (history)
  warnings,    \* warnings logged less recoveries logged (history)
  lastFailed   \* the last result counted was "failed" (history)

attempt == <<pc, left, failed>>
timing  == <<ticker, ticked, since>>
results == <<failing, owed, warnings, lastFailed>>
vars == <<attempt, timing, results, cancelled, camera>>

Init ==
  /\ pc = "sending" /\ left = Timeout /\ failed = FALSE /\ failing = FALSE
  /\ ticker = Interval /\ ticked = FALSE
  /\ cancelled = FALSE /\ camera \in {"up", "refuses", "hung"}
  /\ since = 0 /\ owed = 1 /\ warnings = 0 /\ lastFailed = FALSE
-----------------------------------------------------------------------------
(* ForceOnline, under a context that ends after Timeout or with ctx.       *)

(* A mutant: the attempt has no deadline of its own. *)
OnlyCancelled == cancelled

AttemptOver == left = 0 \/ cancelled

Answered ==
  /\ pc = "sending" /\ camera = "up"
  /\ pc' = "sent" /\ failed' = FALSE
  /\ UNCHANGED <<left, timing, results, cancelled, camera>>

Fails ==
  /\ pc = "sending" /\ (camera = "refuses" \/ AttemptOver)
  /\ pc' = "sent" /\ failed' = TRUE
  /\ UNCHANGED <<left, timing, results, cancelled, camera>>
-----------------------------------------------------------------------------
(* The switch on its result.                                               *)

(* A mutant: the error of an attempt that shutdown ended is a failure. *)
NeverInterrupted == FALSE

Interrupted == cancelled

StopAfterAttempt ==
  /\ pc = "sent" /\ Interrupted /\ pc' = "returned"
  /\ UNCHANGED <<left, failed, timing, results, cancelled, camera>>

(* The ticker runs on whatever the attempt took. *)
TickerRunsOn == ticker

(* A mutant: a success does not end the outage. *)
StaysFailing == failing \/ failed

NowFailing == failed

CountResult ==
  /\ pc = "sent" /\ ~ Interrupted /\ pc' = "waiting"
  /\ owed' = owed - 1 /\ lastFailed' = failed
  /\ failing' = NowFailing
  /\ warnings' = CASE failed /\ ~ failing -> warnings + 1
                   [] ~ failed /\ failing -> warnings - 1
                   [] OTHER -> warnings
  /\ ticker' = TickerRunsOn
  /\ UNCHANGED <<left, failed, ticked, since, cancelled, camera>>
-----------------------------------------------------------------------------
(* The select: with both ready, either. *)

Done == cancelled

StopWaiting ==
  /\ pc = "waiting" /\ Done /\ pc' = "returned"
  /\ UNCHANGED <<left, failed, timing, results, cancelled, camera>>

NextAttempt ==
  /\ pc = "waiting" /\ ticked
  /\ pc' = "sending" /\ left' = Timeout
  /\ ticked' = FALSE /\ since' = 0 /\ owed' = owed + 1
  /\ UNCHANGED <<failed, ticker, failing, warnings, lastFailed, cancelled, camera>>
-----------------------------------------------------------------------------
Cancel ==
  /\ ~ cancelled /\ cancelled' = TRUE
  /\ UNCHANGED <<attempt, timing, results, camera>>

CameraChanges ==
  /\ camera' \in {"up", "refuses", "hung"} \ {camera}
  /\ UNCHANGED <<attempt, timing, results, cancelled>>

Blocked ==
  \/ pc = "sending" /\ ~ AttemptOver
  \/ pc = "waiting" /\ ~ ticked /\ ~ Done

(* A tick that finds the ticker's channel full is dropped. *)
Tick ==
  /\ Blocked
  /\ ticker' = IF ticker = 1 THEN Interval ELSE ticker - 1
  /\ ticked' = (ticked \/ ticker = 1)
  /\ left' = IF left > 0 THEN left - 1 ELSE 0
  /\ since' = since + 1
  /\ UNCHANGED <<pc, failed, results, cancelled, camera>>
-----------------------------------------------------------------------------
KeeperStep == Fails \/ StopAfterAttempt \/ CountResult \/ StopWaiting \/ NextAttempt

Next == KeeperStep \/ Answered \/ Cancel \/ CameraChanges \/ Tick

Spec == Init /\ [][Next]_vars
-----------------------------------------------------------------------------
PC == {"sending", "sent", "waiting", "returned"}

(* Every variable has its type. *)
TypeOK ==
  /\ pc \in PC /\ left \in 0..Timeout /\ failed \in BOOLEAN /\ failing \in BOOLEAN
  /\ ticker \in 1..Interval /\ ticked \in BOOLEAN
  /\ cancelled \in BOOLEAN /\ camera \in {"up", "refuses", "hung"}
  /\ since \in Nat /\ owed \in Int /\ warnings \in Int /\ lastFailed \in BOOLEAN

(* The setting is sent at every interval, no earlier and no later, however   *)
(* long an attempt takes: the ticker's pace is kept over slow and hung       *)
(* cameras, and no tick that came during an attempt is made up for twice.    *)
SentEveryInterval ==
  [][/\ pc = "waiting" /\ pc' = "sending" => since = Interval
     /\ ~ cancelled => since' <= Interval]_vars

UnderWay(place) == IF place \in {"sending", "sent"} THEN 1 ELSE 0

(* "Attempts to mark the camera's cloud connection up, by result": every     *)
(* attempt is counted once when it is over, and one that shutdown ended, or  *)
(* that began after it, is not counted at all.                               *)
AttemptsCounted ==
  [][/\ ~ cancelled => owed' = UnderWay(pc')
     /\ cancelled => owed' >= owed]_vars

(* "the first one is logged as a warning [...] and a recovery is logged      *)
(* once": one warning for every outage, and every outage's end is logged.    *)
OneWarningPerOutage == warnings = IF lastFailed THEN 1 ELSE 0
=============================================================================
