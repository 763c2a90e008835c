-------------------------- MODULE KeepOnline_proof --------------------------
(***************************************************************************)
(* The safety properties of KeepOnline, for every accepted interval and    *)
(* every timeout.                                                          *)
(***************************************************************************)
EXTENDS KeepOnline, TLAPS

(* The ticker and the attempt are clocks that started together: what is left *)
(* of each is known from the time since the attempt began.                   *)
Clocks ==
  /\ IF ticked THEN since = Interval /\ ticker = Interval ELSE since + ticker = Interval
  /\ pc = "sending" => left + since = Timeout

(* Before shutdown exactly the attempt under way is not counted. *)
OwedWhatIsUnderWay == ~ cancelled => owed = UnderWay(pc) /\ pc # "returned"

OutageKnown == failing = lastFailed /\ OneWarningPerOutage

IInv == TypeOK /\ Clocks /\ OwedWhatIsUnderWay /\ OutageKnown

LEMMA InitInv == Init => IInv
<1> SUFFICES ASSUME Init PROVE IInv
  OBVIOUS
<1> USE KeepOnlineAssumption
<1>1. TypeOK
  <2>1. /\ pc \in PC /\ left \in 0..Timeout /\ ticker \in 1..Interval
        /\ since \in Nat /\ owed \in Int /\ warnings \in Int
    BY DEF Init, PC
  <2>2. failed \in BOOLEAN /\ failing \in BOOLEAN /\ ticked \in BOOLEAN
    BY Zenon DEF Init
  <2>3. cancelled \in BOOLEAN /\ camera \in {"up", "refuses", "hung"} /\ lastFailed \in BOOLEAN
    BY Zenon DEF Init
  <2> QED BY <2>1, <2>2, <2>3 DEF TypeOK
<1>2. Clocks
  BY DEF Init, Clocks
<1>3. OwedWhatIsUnderWay
  BY DEF Init, OwedWhatIsUnderWay, UnderWay
<1>4. OutageKnown
  BY DEF Init, OutageKnown, OneWarningPerOutage
<1> QED BY <1>1, <1>2, <1>3, <1>4 DEF IInv

(* A tick finds the attempt or the ticker still running. *)
LEMMA TickClocks == IInv /\ Tick => TypeOK' /\ Clocks'
<1> SUFFICES ASSUME IInv, Tick PROVE TypeOK' /\ Clocks'
  OBVIOUS
<1>1. /\ Interval \in Nat \ {0} /\ Timeout \in Nat \ {0} /\ Timeout <= Interval
      /\ ticker \in 1..Interval /\ left \in 0..Timeout /\ since \in Nat
  BY KeepOnlineAssumption DEF Accepted, IInv, TypeOK
<1>2. /\ since' = since + 1
      /\ ticker' = IF ticker = 1 THEN Interval ELSE ticker - 1
      /\ left' = IF left > 0 THEN left - 1 ELSE 0
      /\ ticked' = (ticked \/ ticker = 1)
      /\ pc = "sending" => left # 0
      /\ pc \in {"sending", "waiting"} /\ (pc = "waiting" => ~ ticked)
  BY DEF Tick, Blocked, AttemptOver
<1>3. UNCHANGED <<pc, failed, results, cancelled, camera>>
  BY DEF Tick
<1>4. ~ ticked /\ since + ticker = Interval
  <2>1. IF ticked THEN since = Interval /\ ticker = Interval ELSE since + ticker = Interval
    BY DEF IInv, Clocks
  <2>2. CASE pc = "sending"
    <3>1. left + since = Timeout /\ left > 0
      BY <1>1, <1>2, <2>2 DEF IInv, Clocks
    <3>2. since # Interval
      BY <1>1, <3>1
    <3> QED BY <2>1, <3>2
  <2> QED BY <1>2, <2>1, <2>2
<1>5. ticked' \in BOOLEAN /\ (ticked' <=> ticker = 1)
  BY <1>2, <1>4
<1>6. ticker' \in 1..Interval /\ left' \in 0..Timeout /\ since' \in Nat
  BY <1>1, <1>2
<1>7. TypeOK'
  BY <1>3, <1>5, <1>6 DEF IInv, TypeOK, results
<1>8. IF ticked' THEN since' = Interval /\ ticker' = Interval ELSE since' + ticker' = Interval
  <2>1. CASE ticker = 1
    <3>1. since' = Interval /\ ticker' = Interval
      BY <1>1, <1>2, <1>4, <2>1
    <3> QED BY <1>5, <2>1, <3>1
  <2>2. CASE ticker # 1
    <3>1. since' + ticker' = Interval
      BY <1>1, <1>2, <1>4, <2>2
    <3> QED BY <1>5, <2>2, <3>1
  <2> QED BY <2>1, <2>2
<1>9. pc' = "sending" => left' + since' = Timeout
  <2> SUFFICES ASSUME pc = "sending" PROVE left' + since' = Timeout
    BY <1>3
  <2>1. left + since = Timeout /\ left > 0
    BY <1>1, <1>2 DEF IInv, Clocks
  <2> QED BY <1>1, <1>2, <2>1
<1> QED BY <1>7, <1>8, <1>9 DEF Clocks

LEMMA InvStep == IInv /\ [Next]_vars => IInv'
<1> SUFFICES ASSUME IInv, [Next]_vars PROVE IInv'
  OBVIOUS
<1> USE KeepOnlineAssumption DEF PC
<1>1. CASE Answered \/ Fails
  <2>1. /\ pc = "sending" /\ pc' = "sent" /\ failed' \in BOOLEAN
        /\ UNCHANGED <<left, timing, results, cancelled, camera>>
    BY <1>1 DEF Answered, Fails
  <2>2. TypeOK'
    BY <2>1 DEF IInv, TypeOK, timing, results
  <2>3. Clocks' /\ OwedWhatIsUnderWay' /\ OutageKnown'
    BY <2>1 DEF IInv, Clocks, OwedWhatIsUnderWay, UnderWay, OutageKnown, OneWarningPerOutage, timing, results
  <2> QED BY <2>2, <2>3 DEF IInv
<1>2. CASE StopAfterAttempt \/ StopWaiting
  <2>1. cancelled /\ pc' = "returned" /\ UNCHANGED <<left, failed, timing, results, cancelled, camera>>
    BY <1>2 DEF StopAfterAttempt, StopWaiting, Interrupted, Done
  <2>2. TypeOK'
    BY <2>1 DEF IInv, TypeOK, timing, results
  <2>3. Clocks' /\ OwedWhatIsUnderWay' /\ OutageKnown'
    BY <2>1 DEF IInv, Clocks, OwedWhatIsUnderWay, OutageKnown, OneWarningPerOutage, timing, results
  <2> QED BY <2>2, <2>3 DEF IInv
<1>3. CASE CountResult
  <2>1. /\ pc = "sent" /\ pc' = "waiting" /\ ~ cancelled /\ ticker' = ticker
        /\ owed' = owed - 1 /\ lastFailed' = failed /\ failing' = failed
        /\ UNCHANGED <<left, failed, ticked, since, cancelled, camera>>
    BY <1>3 DEF CountResult, Interrupted, NowFailing, TickerRunsOn
  <2>2. warnings' = IF failed THEN 1 ELSE 0
    <3>1. warnings = IF failing THEN 1 ELSE 0
      BY DEF IInv, OutageKnown, OneWarningPerOutage
    <3>2. CASE failed /\ ~ failing
      BY <1>3, <3>1, <3>2 DEF CountResult
    <3>3. CASE ~ failed /\ failing
      BY <1>3, <3>1, <3>3 DEF CountResult
    <3>4. CASE failed <=> failing
      <4>1. warnings' = warnings
        BY <1>3, <3>4 DEF CountResult
      <4> QED BY <3>1, <3>4, <4>1
    <3> QED BY <3>2, <3>3, <3>4 DEF IInv, TypeOK
  <2>3. TypeOK'
    BY <2>1, <2>2 DEF IInv, TypeOK
  <2>4. Clocks'
    BY <2>1 DEF IInv, Clocks
  <2>5. OwedWhatIsUnderWay'
    BY <2>1 DEF IInv, OwedWhatIsUnderWay, UnderWay
  <2>6. OutageKnown'
    BY <2>1, <2>2 DEF OutageKnown, OneWarningPerOutage
  <2> QED BY <2>3, <2>4, <2>5, <2>6 DEF IInv
<1>4. CASE NextAttempt
  <2>1. /\ pc = "waiting" /\ pc' = "sending" /\ ticked /\ ~ ticked' /\ ticked' \in BOOLEAN
        /\ left' = Timeout /\ since' = 0 /\ owed' = owed + 1
        /\ UNCHANGED <<failed, ticker, failing, warnings, lastFailed, cancelled, camera>>
    BY <1>4 DEF NextAttempt
  <2>2. TypeOK'
    BY <2>1 DEF IInv, TypeOK
  <2>3. Clocks'
    <3>1. ticker = Interval
      BY <2>1 DEF IInv, Clocks
    <3> QED BY <2>1, <3>1 DEF Clocks
  <2>4. OwedWhatIsUnderWay'
    BY <2>1 DEF IInv, OwedWhatIsUnderWay, UnderWay
  <2>5. OutageKnown'
    BY <2>1 DEF IInv, OutageKnown, OneWarningPerOutage
  <2> QED BY <2>2, <2>3, <2>4, <2>5 DEF IInv
<1>5. CASE Tick
  <2>1. TypeOK' /\ Clocks' /\ UNCHANGED <<pc, results, cancelled>>
    BY <1>5, TickClocks DEF Tick
  <2>2. OwedWhatIsUnderWay' /\ OutageKnown'
    BY <2>1 DEF IInv, OwedWhatIsUnderWay, UnderWay, OutageKnown, OneWarningPerOutage, results
  <2> QED BY <2>1, <2>2 DEF IInv
<1>6. CASE Cancel \/ CameraChanges \/ UNCHANGED vars
  <2>1. /\ UNCHANGED <<attempt, timing, results>> /\ camera' \in {"up", "refuses", "hung"}
        /\ cancelled' \in BOOLEAN /\ (~ cancelled' => ~ cancelled)
    BY <1>6 DEF Cancel, CameraChanges, vars, IInv, TypeOK
  <2>2. TypeOK'
    BY <2>1 DEF IInv, TypeOK, attempt, timing, results
  <2>3. Clocks' /\ OwedWhatIsUnderWay' /\ OutageKnown'
    BY <2>1 DEF IInv, Clocks, OwedWhatIsUnderWay, UnderWay, OutageKnown, OneWarningPerOutage,
       attempt, timing, results
  <2> QED BY <2>2, <2>3 DEF IInv
<1> QED BY <1>1, <1>2, <1>3, <1>4, <1>5, <1>6 DEF Next, KeeperStep

LEMMA NotPast ==
  ASSUME NEW s \in Nat, NEW t \in Nat, NEW i \in Nat, s = i \/ s + t = i
  PROVE  s <= i
  OBVIOUS

(* Every variable keeps its type. *)
THEOREM TypeCorrect == Spec => []TypeOK
<1>1. IInv => TypeOK
  BY DEF IInv
<1> QED BY InitInv, InvStep, <1>1, PTL DEF Spec

(* An outage is announced once, and its end too, however long it is and      *)
(* whatever attempts shutdown or a timeout ends.                             *)
THEOREM OneWarningPerOutageHolds == Spec => []OneWarningPerOutage
<1>1. IInv => OneWarningPerOutage
  BY DEF IInv, OutageKnown
<1> QED BY InitInv, InvStep, <1>1, PTL DEF Spec

(* For every timeout and every interval that finishDahua accepts, attempts    *)
(* begin exactly an interval apart: none is late for a slow one before it.    *)
THEOREM SentEveryIntervalHolds == Spec => SentEveryInterval
<1>1. IInv /\ IInv' /\ [Next]_vars =>
        [/\ pc = "waiting" /\ pc' = "sending" => since = Interval
         /\ ~ cancelled => since' <= Interval]_vars
  <2> SUFFICES ASSUME IInv, IInv', [Next]_vars
               PROVE  /\ pc = "waiting" /\ pc' = "sending" => since = Interval
                      /\ since' <= Interval
    OBVIOUS
  <2>1. pc = "waiting" /\ pc' = "sending" => NextAttempt
    BY DEF Next, KeeperStep, Answered, Fails, StopAfterAttempt, CountResult, StopWaiting,
       Cancel, CameraChanges, Tick, vars, attempt
  <2>2. NextAttempt => since = Interval
    BY DEF NextAttempt, IInv, Clocks
  <2>3. since' <= Interval
    <3>1. since' \in Nat /\ ticker' \in Nat /\ Interval \in Nat
      BY KeepOnlineAssumption DEF IInv, TypeOK
    <3>2. since' = Interval \/ since' + ticker' = Interval
      BY DEF IInv, Clocks
    <3> QED BY <3>1, <3>2, NotPast
  <2> QED BY <2>1, <2>2, <2>3
<1> QED BY InitInv, InvStep, <1>1, PTL DEF Spec, SentEveryInterval

(* Every attempt that ends before shutdown is counted once, under one result, *)
(* and none after it.                                                         *)
THEOREM AttemptsCountedHolds == Spec => AttemptsCounted
<1>1. IInv /\ IInv' /\ [Next]_vars =>
        [/\ ~ cancelled => owed' = UnderWay(pc')
         /\ cancelled => owed' >= owed]_vars
  <2> SUFFICES ASSUME IInv, IInv', [Next]_vars, ~ UNCHANGED vars
               PROVE  /\ ~ cancelled => owed' = UnderWay(pc')
                      /\ cancelled => owed' >= owed
    OBVIOUS
  <2>1. owed \in Int /\ owed' \in Int
    BY DEF IInv, TypeOK
  <2>2. ~ cancelled => owed' = UnderWay(pc')
    <3>1. CASE Cancel
      BY <3>1 DEF Cancel, IInv, OwedWhatIsUnderWay, attempt, results
    <3>2. CASE ~ Cancel
      <4>1. cancelled' = cancelled
        BY <3>2 DEF Next, KeeperStep, Answered, Fails, StopAfterAttempt, CountResult, StopWaiting,
           NextAttempt, CameraChanges, Tick
      <4> QED BY <4>1 DEF IInv, OwedWhatIsUnderWay
    <3> QED BY <3>1, <3>2
  <2>3. cancelled => owed' = owed \/ owed' = owed + 1
    BY DEF Next, KeeperStep, Answered, Fails, StopAfterAttempt, CountResult, StopWaiting,
       NextAttempt, Cancel, CameraChanges, Tick, Interrupted, results
  <2> QED BY <2>1, <2>2, <2>3
<1> QED BY InitInv, InvStep, <1>1, PTL DEF Spec, AttemptsCounted

(* What KeepOnline has yet to do once its context is done. *)
ToReturn == CASE pc = "waiting" -> 3 [] pc = "sending" -> 2 [] pc = "sent" -> 1 [] OTHER -> 0

(* Once told to stop, KeepOnline waits for nothing any more and returns after *)
(* three steps at most, whatever the camera does: an attempt that the select  *)
(* still began, for a tick that was ready too, ends at once.                  *)
THEOREM StopsInSteps ==
  Spec => [][cancelled => /\ ~ Tick /\ ToReturn <= 3 /\ ToReturn' <= ToReturn
                          /\ (KeeperStep \/ Answered => ToReturn' < ToReturn)]_vars
<1>1. ASSUME TypeOK, [Next]_vars, cancelled
      PROVE  /\ ~ Tick /\ ToReturn <= 3 /\ ToReturn' <= ToReturn
             /\ (KeeperStep \/ Answered => ToReturn' < ToReturn)
  <2>1. ~ Tick
    BY <1>1 DEF Tick, Blocked, AttemptOver, Done
  <2>2. ToReturn <= 3
    BY DEF ToReturn
  <2>3. CASE Answered \/ Fails
    BY <2>1, <2>3 DEF Answered, Fails, ToReturn
  <2>4. CASE StopAfterAttempt \/ CountResult
    BY <1>1, <2>1, <2>4 DEF StopAfterAttempt, CountResult, Interrupted, ToReturn
  <2>5. CASE StopWaiting \/ NextAttempt
    BY <2>1, <2>5 DEF StopWaiting, NextAttempt, ToReturn
  <2>6. CASE UNCHANGED pc
    <3>1. ToReturn' = ToReturn /\ ~ (KeeperStep \/ Answered)
      BY <2>6 DEF ToReturn, KeeperStep, Answered, Fails, StopAfterAttempt, CountResult, StopWaiting, NextAttempt
    <3>2. ToReturn \in Nat
      BY DEF ToReturn
    <3> QED BY <2>1, <2>2, <3>1, <3>2
  <2> QED
    BY <1>1, <2>1, <2>3, <2>4, <2>5, <2>6 DEF Next, KeeperStep, Cancel, CameraChanges, Tick, vars, attempt
<1> QED BY <1>1, TypeCorrect, PTL DEF Spec
=============================================================================
