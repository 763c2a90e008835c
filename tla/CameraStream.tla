---------------------------- MODULE CameraStream ----------------------------
(***************************************************************************)
(* A long-poll connection to the camera (pkg/dahua/stream.go): the event   *)
(* stream or the snapshot stream.  retryStream attempts it again and again *)
(* with a growing delay; stream runs one attempt under the idle watchdog,  *)
(* a timer that aborts the request unless reads keep setting it back.      *)
(*                                                                         *)
(* Time is counted in ticks and passes only while the stream's goroutine   *)
(* waits: for an answer, for data, in a callback or between attempts.      *)
(***************************************************************************)
EXTENDS Integers

CONSTANTS
  IdleTimeout,   \* streamIdleTimeout
  Heartbeat,     \* heartbeatSeconds: how often a healthy camera speaks
  HandleTime,    \* the longest the callbacks, for one read or the answer, can block
  MaxInterval    \* the longest delay between attempts

ASSUME StreamAssumption ==
  /\ IdleTimeout \in Nat \ {0} /\ Heartbeat \in Nat \ {0}
  /\ HandleTime \in Nat /\ HandleTime < IdleTimeout
  /\ MaxInterval \in Nat \ {0}

VARIABLES
  pc,         \* where the goroutine is
  timer,      \* ticks left of the delay, or of the callbacks
  interval,   \* the backoff's next delay, at most
  watchdog,   \* ticks left until the watchdog fires
  aborted,    \* it has: streamCtx is cancelled
  connected,  \* Client.connected, or snapshotConnected
  unread,     \* data the camera has sent and the goroutine has not read
  heard,      \* data was read on this connection
  silent,     \* ticks since the camera spoke, or since it was asked to
  closed,     \* the camera has closed this connection
  camera,     \* "up", "hung" (says nothing) or "off" (refuses connections)
  cancelled,  \* the context given to Listen is done
  owed,       \* attempts begun less failures counted in the metrics
  inARow      \* attempts failed since the stream was last up, to MaxInterval (history)

backoff == <<timer, interval>>
watch   == <<watchdog, aborted>>
data    == <<unread, heard, silent>>
history == <<owed, inARow>>
outside == <<camera, cancelled>>
vars == <<pc, backoff, watch, connected, data, closed, history, outside>>

Init ==
  /\ pc = "waiting" /\ timer = 0 /\ interval = 1
  /\ watchdog = 0 /\ aborted = FALSE /\ connected = FALSE
  /\ unread = FALSE /\ heard = FALSE /\ silent = 0 /\ closed = FALSE
  /\ camera \in {"up", "hung", "off"} /\ cancelled = FALSE
  /\ owed = 0 /\ inARow = 0
-----------------------------------------------------------------------------
(* retryStream and the backoff library. *)

(* The watchdog is armed before the request is sent. *)
Attempt ==
  /\ pc = "waiting" /\ timer = 0 /\ ~ cancelled
  /\ pc' = "dialing" /\ owed' = owed + 1
  /\ watchdog' = IdleTimeout /\ aborted' = FALSE
  /\ unread' = FALSE /\ heard' = FALSE /\ silent' = 0 /\ closed' = FALSE
  /\ UNCHANGED <<backoff, connected, inARow, outside>>

UpToMax(n) == IF n < MaxInterval THEN n ELSE MaxInterval

(* A mutant: the error of an attempt that shutdown ended is a failure too. *)
CountsAlways == owed - 1

CountsFailure == IF cancelled THEN owed ELSE owed - 1

(* The delay is drawn at random; the next one may be longer. *)
Fails ==
  /\ pc = "failed" /\ owed' = CountsFailure /\ inARow' = UpToMax(inARow + 1)
  /\ pc' = "waiting" /\ timer' \in 0..interval /\ interval' = UpToMax(interval + 1)
  /\ UNCHANGED <<watch, connected, data, closed, outside>>

(* Mutants: a shutdown is noticed when an attempt has just failed; the retries *)
(* end after a while, as they do by the library's default.                     *)
ReturnsFailed == cancelled /\ pc = "failed"
GivesUp == pc = "waiting" /\ (cancelled \/ inARow = MaxInterval)

Returns == cancelled /\ pc = "waiting"

ListenReturns ==
  /\ Returns /\ pc' = "returned"
  /\ UNCHANGED <<backoff, watch, connected, data, closed, history, outside>>
-----------------------------------------------------------------------------
(* stream: one attempt. *)

Ended == aborted \/ cancelled

Watched == pc \in {"dialing", "reading", "handling"}

(* A mutant: the watchdog is armed once the stream is connected. *)
ArmedConnected == connected

Armed == Watched

(* Timers fire on time: what the camera says in the instant the watchdog is *)
(* due comes after it.                                                      *)
Due == Armed /\ ~ aborted /\ watchdog = 0

(* The request fails, or is answered with another status than 200. *)
DialFails ==
  /\ pc = "dialing" /\ (Ended \/ camera # "hung")
  /\ pc' = "failed"
  /\ UNCHANGED <<backoff, watch, connected, data, closed, history, outside>>

(* A mutant: the next delay is not set back. *)
NotSetBack == interval

SetBack == 1

(* The camera answers 200: setConnected(true), whose callback may block, and *)
(* the backoff starts over.  The watchdog is left as it is.                  *)
Answered ==
  /\ pc = "dialing" /\ camera = "up" /\ ~ Due
  /\ pc' = "handling" /\ timer' \in 0..HandleTime
  /\ connected' = TRUE /\ silent' = 0
  /\ interval' = SetBack /\ inARow' = 0
  /\ UNCHANGED <<watch, unread, heard, closed, owed, outside>>

(* A mutant: reading does not set the watchdog back. *)
NotReset == watchdog

Reset == IdleTimeout

(* watchdogReader.Read returns data, and the callbacks for what is in it run. *)
Read ==
  /\ pc = "reading" /\ unread
  /\ unread' = FALSE /\ heard' = TRUE /\ watchdog' = Reset
  /\ pc' = "handling" /\ timer' \in 0..HandleTime
  /\ UNCHANGED <<interval, aborted, connected, silent, closed, history, outside>>

Handled ==
  /\ pc = "handling" /\ timer = 0 /\ pc' = "reading"
  /\ UNCHANGED <<backoff, watch, connected, data, closed, history, outside>>

(* Read returns an error, or the end; the deferred setConnected(false). *)
StreamEnds ==
  /\ pc = "reading" /\ (Ended \/ closed)
  /\ pc' = "failed" /\ connected' = FALSE
  /\ UNCHANGED <<backoff, watch, data, closed, history, outside>>

WatchdogFires ==
  /\ Due /\ aborted' = TRUE
  /\ UNCHANGED <<pc, backoff, watchdog, connected, data, closed, history, outside>>
-----------------------------------------------------------------------------
(* The camera, shutdown and time. *)

Open == pc \in {"reading", "handling"}

(* Cancelling a request closes its connection: nothing arrives after that. *)
Talking == Open /\ camera = "up" /\ ~ closed /\ ~ Ended

CameraSpeaks ==
  /\ Talking /\ ~ Due
  /\ unread' = TRUE /\ silent' = 0
  /\ UNCHANGED <<pc, backoff, watch, connected, heard, closed, history, outside>>

CameraStops ==
  /\ camera = "up" /\ camera' \in {"hung", "off"}
  /\ closed' = (closed \/ camera' = "off")
  /\ UNCHANGED <<pc, backoff, watch, connected, data, history, cancelled>>

CameraCloses ==
  /\ Open /\ ~ closed /\ closed' = TRUE
  /\ UNCHANGED <<pc, backoff, watch, connected, data, history, outside>>

CameraIsBack ==
  /\ camera # "up" /\ camera' = "up"
  /\ UNCHANGED <<pc, backoff, watch, connected, data, closed, history, cancelled>>

Cancel ==
  /\ ~ cancelled /\ cancelled' = TRUE
  /\ UNCHANGED <<pc, backoff, watch, connected, data, closed, history, camera>>

Waits ==
  \/ pc = "dialing" /\ ~ Ended
  \/ pc = "reading" /\ ~ unread /\ ~ Ended /\ ~ closed
  \/ pc = "handling" /\ timer > 0
  \/ pc = "waiting" /\ timer > 0 /\ ~ cancelled

(* A healthy camera speaks at least every Heartbeat; timers fire on time. *)
Tick ==
  /\ Waits /\ ~ Due
  /\ Talking => silent < Heartbeat
  /\ timer' = IF timer > 0 THEN timer - 1 ELSE 0
  /\ watchdog' = IF Watched /\ watchdog > 0 THEN watchdog - 1 ELSE watchdog
  /\ silent' = IF Watched THEN silent + 1 ELSE silent
  /\ UNCHANGED <<pc, interval, aborted, connected, unread, heard, closed, history, outside>>
-----------------------------------------------------------------------------
(* What the stream's goroutine and its watchdog do by themselves. *)
StreamStep ==
  \/ Attempt \/ Fails \/ ListenReturns
  \/ Ended /\ DialFails
  \/ Read \/ Handled \/ StreamEnds \/ WatchdogFires

Next ==
  \/ StreamStep \/ DialFails \/ Answered
  \/ CameraSpeaks \/ CameraStops \/ CameraCloses \/ CameraIsBack \/ Cancel \/ Tick

Spec == Init /\ [][Next]_vars

(* The goroutine runs, time passes, and a camera that is up speaks and, asked *)
(* again and again, answers.                                                  *)
FairSpec ==
  /\ Spec /\ WF_vars(StreamStep) /\ SF_vars(Tick)
  /\ WF_vars(CameraSpeaks) /\ SF_vars(Answered)
-----------------------------------------------------------------------------
PC == {"waiting", "dialing", "reading", "handling", "failed", "returned"}

FlagType ==
  /\ aborted \in BOOLEAN /\ connected \in BOOLEAN /\ unread \in BOOLEAN /\ heard \in BOOLEAN
  /\ closed \in BOOLEAN /\ cancelled \in BOOLEAN

TimeType ==
  /\ pc \in PC /\ camera \in {"up", "hung", "off"}
  /\ timer \in Nat /\ interval \in 1..MaxInterval /\ watchdog \in 0..IdleTimeout
  /\ silent \in Nat /\ owed \in Int /\ inARow \in 0..MaxInterval

(* Every variable has its type, and the connected flag is up exactly while a *)
(* stream is being read.                                                     *)
TypeOK == FlagType /\ TimeType /\ (connected <=> Open)

(* A camera that has fallen silent is noticed: no attempt, and no established *)
(* stream, outlasts the watchdog and the callbacks that delay it.             *)
NoticedInTime == Watched => silent <= IdleTimeout + HandleTime

(* A camera that keeps talking is never cut off: on a stream that has been    *)
(* heard, the watchdog fires after a whole IdleTimeout of silence, however    *)
(* long the callbacks kept the reader from reading.                           *)
TalkingNotCut == [][aborted' /\ ~ aborted /\ heard => silent >= IdleTimeout]_vars

(* "only consecutive failures should grow the retry delay". *)
OnlyConsecutiveFailuresGrow == interval <= 1 + inARow

UnderWay == IF Watched \/ pc = "failed" THEN 1 ELSE 0

(* CameraFailures counts every attempt once when it is over, whether it was   *)
(* refused, aborted by the watchdog or lost after it had connected; what ends *)
(* because of the shutdown, or is found over after it, is never counted.      *)
FailuresCounted ==
  [][/\ ~ cancelled => owed' = UnderWay'
     /\ cancelled => owed' >= owed]_vars

(* The retries never end: a camera that stays up is connected to in the end, *)
(* however long it was away.                                                 *)
Reconnects == <>[](camera = "up" /\ ~ cancelled) => []<>connected

(* Listen returns when told to, wherever it is. *)
ReturnsOnCancel == cancelled ~> pc = "returned"
=============================================================================
