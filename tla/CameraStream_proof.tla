------------------------- MODULE CameraStream_proof -------------------------
(***************************************************************************)
(* Proofs about CameraStream.  What ties the watchdog to the camera's      *)
(* silence is one inequality in each direction, and the fact that a        *)
(* callback ends before the watchdog it was entered with is due.           *)
(***************************************************************************)
EXTENDS CameraStream, TLAPS

(* Nothing was read before the answer, and the watchdog runs from the request. *)
DialingClock ==
  pc = "dialing" => heard = FALSE /\ unread = FALSE /\ silent + watchdog = IdleTimeout

(* Once something was read, the watchdog outlasts the callbacks. *)
HandlingClock ==
  pc = "handling" =>
    /\ timer <= HandleTime
    /\ heard = TRUE => timer < watchdog
    /\ unread = TRUE \/ heard = FALSE => silent + timer <= HandleTime

(* Data that waits to be read arrived before the watchdog was due. *)
ReadingClock ==
  pc = "reading" /\ unread = TRUE =>
    /\ silent <= HandleTime
    /\ heard = FALSE \/ aborted = TRUE \/ watchdog > 0

(* The watchdog was last set back no earlier than the camera spoke. *)
SilenceAtLeast ==
  Open /\ heard = TRUE /\ unread = FALSE => silent + watchdog >= IdleTimeout

(* And at most the callbacks' time later. *)
SilenceAtMost == Watched => silent + watchdog <= IdleTimeout + HandleTime

Clocks ==
  DialingClock /\ HandlingClock /\ ReadingClock /\ SilenceAtLeast /\ SilenceAtMost

Inv == FlagType /\ TimeType /\ Clocks

-----------------------------------------------------------------------------
(* The flags keep their types. *)
LEMMA FlagStep == FlagType /\ [Next]_vars => FlagType'
  BY DEF FlagType, Next, vars, backoff, watch, data, history, outside, StreamStep,
    Attempt, Fails, ListenReturns, DialFails, Ended, Read, Handled, StreamEnds, WatchdogFires,
    Answered, CameraSpeaks, CameraStops, CameraCloses, CameraIsBack, Cancel, Tick

(* The clocks and counters keep their types. *)
LEMMA TimeStep == TimeType /\ [Next]_vars => TimeType'
<1> SUFFICES ASSUME TimeType, [Next]_vars PROVE TimeType'
  OBVIOUS
<1> USE StreamAssumption DEF TimeType, PC, backoff, watch, data, history, outside
<1>1. CASE Attempt
  BY <1>1 DEF Attempt
<1>2. CASE Fails
  BY <1>2 DEF Fails, CountsFailure, UpToMax
<1>3. CASE ListenReturns \/ DialFails \/ Handled \/ StreamEnds \/ WatchdogFires
  BY <1>3 DEF ListenReturns, DialFails, Handled, StreamEnds, WatchdogFires
<1>4. CASE Answered
  BY <1>4 DEF Answered, SetBack
<1>5. CASE Read
  BY <1>5 DEF Read, Reset
<1>6. CASE CameraSpeaks \/ CameraStops \/ CameraCloses \/ CameraIsBack \/ Cancel
  BY <1>6 DEF CameraSpeaks, CameraStops, CameraCloses, CameraIsBack, Cancel
<1>7. CASE Tick
  BY <1>7 DEF Tick
<1>8. CASE UNCHANGED vars
  BY <1>8 DEF vars
<1> QED
  BY <1>1, <1>2, <1>3, <1>4, <1>5, <1>6, <1>7, <1>8 DEF Next, StreamStep

(* The flag follows the stream. *)
LEMMA ConnectedStep == (connected <=> Open) /\ [Next]_vars => (connected <=> Open)'
<1> SUFFICES ASSUME connected <=> Open, [Next]_vars PROVE connected' <=> Open'
  OBVIOUS
<1> USE DEF Open
<1>1. CASE Attempt \/ Fails \/ ListenReturns \/ DialFails
  BY <1>1 DEF Attempt, Fails, ListenReturns, Returns, DialFails
<1>2. CASE Answered \/ Read \/ Handled \/ StreamEnds
  BY <1>2 DEF Answered, Read, Handled, StreamEnds
<1>3. CASE UNCHANGED <<pc, connected>>
  BY <1>3
<1> QED
  BY <1>1, <1>2, <1>3 DEF Next, vars, StreamStep, WatchdogFires, CameraSpeaks, CameraStops,
    CameraCloses, CameraIsBack, Cancel, Tick

(* A camera that has just spoken has been silent for no time. *)
LEMMA JustSpoken ==
  ASSUME NEW s, NEW t \in 0..HandleTime, s = 0 PROVE s + t <= HandleTime
<1>1. \A n \in Nat : 0 + n = n
  OBVIOUS
<1> QED
  BY <1>1, StreamAssumption

(* Every step keeps the clocks in their relation. *)
LEMMA ClocksStep == Inv /\ [Next]_vars => Clocks'
<1> SUFFICES ASSUME Inv, [Next]_vars PROVE Clocks'
  OBVIOUS
<1> USE StreamAssumption DEF Inv, FlagType, TimeType, PC, Clocks, DialingClock, HandlingClock,
      ReadingClock, SilenceAtLeast, SilenceAtMost, Open, Watched,
      backoff, watch, data, history, outside
<1>1. CASE Attempt
  BY <1>1 DEF Attempt
<1>2. CASE Fails \/ ListenReturns \/ DialFails \/ StreamEnds
  BY <1>2 DEF Fails, ListenReturns, DialFails, StreamEnds
<1>3. CASE Answered
  <2>1. heard = FALSE /\ unread = FALSE
    BY <1>3 DEF Answered
  <2>2. pc' = "handling" /\ unread' = FALSE /\ heard' = FALSE
    BY <1>3, <2>1 DEF Answered
  <2>3. silent' = 0 /\ watchdog' = watchdog /\ watchdog \in 0..IdleTimeout
    BY <1>3 DEF Answered
  <2>4. timer' \in 0..HandleTime
    BY <1>3 DEF Answered
  <2> HIDE DEF Inv, FlagType, TimeType, Clocks
  <2>5. silent' + timer' <= HandleTime
    BY <2>3, <2>4, JustSpoken, Zenon
  <2>6. silent' + watchdog' <= IdleTimeout + HandleTime /\ timer' <= HandleTime
    BY <2>3, <2>4
  <2> USE DEF Clocks
  <2> QED
    BY <2>2, <2>5, <2>6
<1>4. CASE Read
  <2>1. unread = TRUE
    BY <1>4 DEF Read
  <2>2. pc = "reading" /\ pc' = "handling" /\ unread' = FALSE /\ heard' = TRUE /\ silent' = silent
        /\ watchdog' = IdleTimeout /\ timer' \in 0..HandleTime
    BY <1>4 DEF Read, Reset
  <2>3. silent <= HandleTime
    BY <2>1, <2>2
  <2>4. silent' + watchdog' >= IdleTimeout /\ silent' + watchdog' <= IdleTimeout + HandleTime
    BY <2>2, <2>3
  <2>5. timer' < watchdog' /\ timer' <= HandleTime
    BY <2>2
  <2> HIDE DEF Inv, FlagType, TimeType
  <2> QED
    BY <2>2, <2>4, <2>5
<1>5. CASE Handled
  BY <1>5 DEF Handled
<1>6. CASE WatchdogFires
  BY <1>6 DEF WatchdogFires
<1>7. CASE CameraSpeaks
  BY <1>7 DEF CameraSpeaks, Talking, Ended, Due, Armed
<1>8. CASE CameraStops \/ CameraCloses \/ CameraIsBack \/ Cancel
  BY <1>8 DEF CameraStops, CameraCloses, CameraIsBack, Cancel
<1>9. CASE Tick
  BY <1>9 DEF Tick, Waits, Ended, Due, Armed
<1>10. CASE UNCHANGED vars
  BY <1>10 DEF vars
<1> QED
  BY <1>1, <1>2, <1>3, <1>4, <1>5, <1>6, <1>7, <1>8, <1>9, <1>10 DEF Next, StreamStep

(* The inductive invariant. *)
LEMMA InvStep == Inv /\ [Next]_vars => Inv'
  BY FlagStep, TimeStep, ClocksStep DEF Inv

LEMMA Invariance == Spec => []Inv
<1>1. Init => Inv
  <2> SUFFICES ASSUME Init PROVE Inv
    OBVIOUS
  <2>1. FlagType
    BY DEF Init, FlagType
  <2>2. TimeType
    BY StreamAssumption DEF Init, TimeType, PC
  <2>3. Clocks
    BY DEF Init, Clocks, DialingClock, HandlingClock, ReadingClock, SilenceAtLeast,
      SilenceAtMost, Open, Watched
  <2> QED
    BY <2>1, <2>2, <2>3 DEF Inv
<1> QED
  BY <1>1, InvStep, PTL DEF Spec
-----------------------------------------------------------------------------
(* Every variable of the stream keeps its type, and the connected flag of *)
(* Client is up exactly while a stream is being read.                     *)
THEOREM TypeCorrect == Spec => []TypeOK
<1>1. Init => (connected <=> Open)
  BY DEF Init, Open
<1>2. (connected <=> Open) /\ [Next]_vars => (connected <=> Open)'
  BY ConnectedStep
<1>3. Inv /\ (connected <=> Open) => TypeOK
  BY DEF Inv, TypeOK
<1> QED
  BY <1>1, <1>2, <1>3, Invariance, PTL DEF Spec

(* A silent camera is noticed: nothing outlasts the watchdog and the callbacks *)
(* that delay it.                                                              *)
THEOREM NoticedInTimeHolds == Spec => []NoticedInTime
<1>1. Inv => NoticedInTime
  BY StreamAssumption DEF Inv, TimeType, Clocks, SilenceAtMost, NoticedInTime
<1> QED
  BY <1>1, Invariance, PTL

(* The watchdog never cuts off a stream whose camera was heard less than the *)
(* timeout ago, however long the callbacks held up the reader.               *)
THEOREM TalkingNotCutHolds == Spec => TalkingNotCut
<1>1. Inv /\ [Next]_vars => [aborted' /\ ~ aborted /\ heard => silent >= IdleTimeout]_vars
  <2> SUFFICES ASSUME Inv, Next, aborted', ~ aborted, heard PROVE silent >= IdleTimeout
    OBVIOUS
  <2>1. WatchdogFires
    BY DEF Next, StreamStep, Attempt, Fails, ListenReturns, DialFails, Read, Handled,
      StreamEnds, Answered, CameraSpeaks, CameraStops, CameraCloses, CameraIsBack, Cancel,
      Tick, watch
  <2>2. aborted = FALSE /\ heard = TRUE
    BY DEF Inv, FlagType
  <2>3. Watched /\ watchdog = 0
    BY <2>1 DEF WatchdogFires, Due, Armed
  <2>4. pc # "dialing" /\ pc # "handling"
    BY <2>2, <2>3 DEF Inv, TimeType, Clocks, DialingClock, HandlingClock
  <2>5. pc = "reading" /\ unread = FALSE
    BY <2>2, <2>3, <2>4 DEF Inv, FlagType, Watched, Clocks, ReadingClock
  <2> QED
    BY <2>2, <2>3, <2>5, StreamAssumption DEF Inv, TimeType, Clocks, SilenceAtLeast, Open
<1> QED
  BY <1>1, Invariance, PTL DEF Spec, TalkingNotCut

(* After an attempt that connected, the delay grows only with the failures *)
(* that follow it.                                                         *)
THEOREM OnlyConsecutiveFailuresGrowHolds == Spec => []OnlyConsecutiveFailuresGrow
<1>1. Init => OnlyConsecutiveFailuresGrow
  BY DEF Init, OnlyConsecutiveFailuresGrow
<1>2. Inv /\ OnlyConsecutiveFailuresGrow /\ [Next]_vars => OnlyConsecutiveFailuresGrow'
  <2> SUFFICES ASSUME TimeType, OnlyConsecutiveFailuresGrow, [Next]_vars
               PROVE OnlyConsecutiveFailuresGrow'
    BY DEF Inv
  <2>1. CASE Fails
    BY <2>1, StreamAssumption DEF Fails, UpToMax, TimeType, OnlyConsecutiveFailuresGrow
  <2>2. CASE Answered
    BY <2>2 DEF Answered, SetBack, OnlyConsecutiveFailuresGrow
  <2>3. CASE UNCHANGED <<interval, inARow>>
    BY <2>3 DEF OnlyConsecutiveFailuresGrow
  <2> QED
    BY <2>1, <2>2, <2>3 DEF Next, vars, backoff, history, StreamStep, Attempt, ListenReturns,
      DialFails, Read, Handled, StreamEnds, WatchdogFires, CameraSpeaks, CameraStops,
      CameraCloses, CameraIsBack, Cancel, Tick
<1> QED
  BY <1>1, <1>2, Invariance, PTL DEF Spec

(* Until shutdown what is owed is the attempt under way. *)
Owed == ~ cancelled => owed = UnderWay

(* An attempt is owed while it is under way, and counted when it is over. *)
LEMMA OwedStep == FlagType /\ TimeType /\ Owed /\ [Next]_vars =>
  /\ Owed' /\ (~ cancelled => owed' = UnderWay') /\ (cancelled => owed' >= owed)
<1> SUFFICES ASSUME FlagType, TimeType, Owed, [Next]_vars
             PROVE /\ ~ cancelled => owed' = UnderWay'
                   /\ cancelled => owed' >= owed /\ cancelled'
  BY DEF Owed
<1> USE DEF FlagType, TimeType, Owed, UnderWay, Watched, history, outside
<1>1. CASE Attempt
  BY <1>1 DEF Attempt
<1>2. CASE Fails
  BY <1>2 DEF Fails, CountsFailure
<1>3. CASE ListenReturns
  BY <1>3 DEF ListenReturns, Returns
<1>4. CASE DialFails \/ Answered \/ Read \/ Handled \/ StreamEnds
  BY <1>4 DEF DialFails, Answered, Read, Handled, StreamEnds
<1>5. CASE Cancel
  BY <1>5 DEF Cancel
<1>6. CASE UNCHANGED <<pc, owed, cancelled>>
  BY <1>6
<1> QED
  BY <1>1, <1>2, <1>3, <1>4, <1>5, <1>6 DEF Next, vars, StreamStep, WatchdogFires,
    CameraSpeaks, CameraStops, CameraCloses, CameraIsBack, Tick

(* The metrics count one failure for every attempt that is over, however it *)
(* ended, until shutdown, and none after.                                   *)
THEOREM FailuresCountedHolds == Spec => FailuresCounted
<1>1. Init => Owed
  BY DEF Init, Owed, UnderWay, Watched
<1>2. Inv /\ Owed /\ [Next]_vars => Owed'
  BY OwedStep DEF Inv
<1>3. Inv /\ Owed /\ [Next]_vars =>
        [(~ cancelled => owed' = UnderWay') /\ (cancelled => owed' >= owed)]_vars
  BY OwedStep DEF Inv
<1> QED
  BY <1>1, <1>2, <1>3, Invariance, PTL DEF Spec, FailuresCounted
-----------------------------------------------------------------------------
(* What the stream has yet to do once its context is done, and how long it can *)
(* still be kept by callbacks: the one that runs, the one for the answer and   *)
(* the one for what has arrived and was not read.                              *)

StepsOf(at) ==
  CASE at = "dialing" -> 5 [] at = "handling" -> 4 [] at = "reading" -> 3
    [] at = "failed" -> 2 [] at = "waiting" -> 1 [] OTHER -> 0

ToReturn == StepsOf(pc) + (IF unread THEN 2 ELSE 0)

KeptFor ==
  (IF pc = "handling" THEN timer ELSE 0) + (IF pc = "dialing" THEN HandleTime ELSE 0)
    + (IF unread THEN HandleTime ELSE 0)

LEMMA Remaining == Inv => ToReturn \in 0..7 /\ KeptFor \in 0..2 * HandleTime
<1> SUFFICES ASSUME Inv PROVE ToReturn \in 0..7 /\ KeptFor \in 0..2 * HandleTime
  OBVIOUS
<1>1. HandleTime \in Nat /\ timer \in Nat /\ unread \in BOOLEAN
  BY StreamAssumption DEF Inv, TimeType, FlagType
<1>2. pc = "handling" => timer <= HandleTime
  BY DEF Inv, Clocks, HandlingClock
<1>3. pc = "dialing" => unread = FALSE
  BY DEF Inv, Clocks, DialingClock
<1>4. KeptFor \in 0..2 * HandleTime
  BY <1>1, <1>2, <1>3 DEF KeptFor
<1>5. StepsOf(pc) \in 0..5 /\ (pc = "dialing" \/ StepsOf(pc) <= 4)
  BY DEF StepsOf
<1>6. unread = TRUE => pc # "dialing"
  BY <1>3
<1> QED BY <1>4, <1>5, <1>6 DEF ToReturn

Moving == Attempt \/ Fails \/ ListenReturns \/ DialFails \/ Answered \/ Read \/ Handled \/ StreamEnds

(* Told to stop, the stream does not attempt again, and nothing arrives. *)
LEMMA StopsMoving ==
  ASSUME Inv, cancelled, Moving
  PROVE  ToReturn' < ToReturn /\ KeptFor' <= KeptFor
<1>1. HandleTime \in Nat /\ timer \in Nat /\ unread \in BOOLEAN /\ ~ Attempt
  BY StreamAssumption DEF Inv, TimeType, FlagType, Attempt
<1>2. CASE Fails \/ ListenReturns
  BY <1>1, <1>2 DEF Fails, ListenReturns, Returns, data, ToReturn, StepsOf, KeptFor
<1>3. CASE DialFails
  BY <1>1, <1>3 DEF DialFails, backoff, data, ToReturn, StepsOf, KeptFor
<1>4. CASE Answered
  <2>1. /\ pc = "dialing" /\ pc' = "handling" /\ timer' \in 0..HandleTime /\ unread' = unread
    BY <1>4 DEF Answered
  <2> QED BY <1>1, <2>1 DEF ToReturn, StepsOf, KeptFor
<1>5. CASE Read
  <2>1. /\ pc = "reading" /\ pc' = "handling" /\ timer' \in 0..HandleTime
        /\ unread /\ ~ unread'
    BY <1>5 DEF Read
  <2> QED BY <1>1, <2>1 DEF ToReturn, StepsOf, KeptFor
<1>6. CASE Handled \/ StreamEnds
  <2>1. /\ (pc = "handling" /\ pc' = "reading") \/ (pc = "reading" /\ pc' = "failed")
        /\ unread' = unread
    BY <1>6 DEF Handled, StreamEnds, data
  <2> QED BY <1>1, <2>1 DEF ToReturn, StepsOf, KeptFor
<1> QED BY <1>1, <1>2, <1>3, <1>4, <1>5, <1>6 DEF Moving

(* Listen returns when told to, wherever it is, after at most seven steps and, *)
(* since time then passes in callbacks only, within twice the longest of them: *)
(* every step and every tick brings the return closer, nothing puts it off.    *)
THEOREM ReturnsInTime ==
  Spec => [][cancelled => /\ ToReturn \in 0..7 /\ ToReturn' <= ToReturn
                          /\ (Moving => ToReturn' < ToReturn)
                          /\ KeptFor \in 0..2 * HandleTime /\ KeptFor' <= KeptFor
                          /\ (Tick => KeptFor' < KeptFor)]_vars
<1>1. ASSUME Inv, [Next]_vars, cancelled
      PROVE  /\ ToReturn \in 0..7 /\ ToReturn' <= ToReturn
             /\ (Moving => ToReturn' < ToReturn)
             /\ KeptFor \in 0..2 * HandleTime /\ KeptFor' <= KeptFor
             /\ (Tick => KeptFor' < KeptFor)
  <2>1. ToReturn \in 0..7 /\ KeptFor \in 0..2 * HandleTime /\ HandleTime \in Nat
    BY <1>1, Remaining, StreamAssumption
  <2>2. Tick => ToReturn' = ToReturn /\ ~ Moving /\ KeptFor' < KeptFor
    <3> SUFFICES ASSUME Tick PROVE ToReturn' = ToReturn /\ ~ Moving /\ KeptFor' < KeptFor
      OBVIOUS
    <3>1. pc = "handling" /\ timer > 0 /\ timer' = timer - 1 /\ UNCHANGED <<pc, unread>>
      BY <1>1 DEF Tick, Waits, Ended
    <3>2. timer \in Nat /\ HandleTime \in Nat
      BY <1>1, StreamAssumption DEF Inv, TimeType
    <3>3. KeptFor' < KeptFor
      BY <3>1, <3>2 DEF KeptFor
    <3>4. ToReturn' = ToReturn
      BY <3>1 DEF ToReturn, StepsOf
    <3>5. ~ Moving
      BY <3>1 DEF Moving, Attempt, Fails, ListenReturns, Returns, DialFails, Answered, Read, Handled, StreamEnds
    <3> QED BY <3>3, <3>4, <3>5
  <2>3. Moving => ToReturn' < ToReturn /\ KeptFor' <= KeptFor
    BY <1>1, StopsMoving
  <2>4. ToReturn' \in 0..7 /\ KeptFor' \in 0..2 * HandleTime
    <3>1. Inv'
      BY <1>1, InvStep
    <3>2. (ToReturn \in 0..7 /\ KeptFor \in 0..2 * HandleTime)'
      BY <3>1, Remaining, PTL
    <3> QED BY <3>2
  <2>5. ASSUME UNCHANGED <<pc, timer, unread>> PROVE ToReturn' = ToReturn /\ KeptFor' = KeptFor /\ ~ Moving
    <3>1. ToReturn' = ToReturn /\ KeptFor' = KeptFor
      BY <2>5 DEF ToReturn, KeptFor
    <3>2. ~ Moving
      BY <2>5 DEF Moving, Attempt, Fails, ListenReturns, Returns, DialFails, Answered, Read, Handled, StreamEnds
    <3> QED BY <3>1, <3>2
  <2>6. ~ CameraSpeaks
    BY <1>1 DEF CameraSpeaks, Talking, Ended
  <2>7. Moving \/ Tick \/ UNCHANGED <<pc, timer, unread>>
    BY <1>1, <2>6 DEF Moving, Next, StreamStep, WatchdogFires, CameraStops, CameraCloses, CameraIsBack, Cancel,
       vars, backoff, data
  <2> HIDE DEF ToReturn, KeptFor, Moving
  <2>8. CASE Tick
    BY <2>1, <2>2, <2>4, <2>8
  <2>9. CASE ~ Tick
    BY <2>1, <2>3, <2>4, <2>5, <2>7, <2>9
  <2> QED BY <2>8, <2>9
<1> QED BY <1>1, Invariance, PTL DEF Spec
=============================================================================
