------------------------ MODULE SnapshotStream_proof ------------------------
(***************************************************************************)
(* Proofs about SnapshotStream, for any number of events.                  *)
(***************************************************************************)
EXTENDS SnapshotStream, TLAPS

Types ==
  /\ attached \in BOOLEAN /\ imageDue \in BOOLEAN /\ seen \in BOOLEAN
  /\ pending \in EventId /\ event \in EventId /\ shown \in EventId /\ pictured \in EventId
  /\ pendingKind \in Kind /\ kind \in Kind

ClockTypes == cooldown \in 0..HumanCooldown /\ since \in 0..HumanCooldown

(* What is pending is the event whose image is next, and what was read of it on *)
(* this connection is pending if it is published.                               *)
Pairing ==
  /\ attached = TRUE /\ pending # NoEvent => seen = TRUE /\ pending = event /\ pendingKind = kind
  /\ seen = TRUE => attached = TRUE
  /\ seen = TRUE /\ kind # "other" => pending = event
  /\ kind # "other" => event # NoEvent
  /\ attached = TRUE /\ kind = "other" => pending = NoEvent

(* No event has been shown that is later than the pending one, nor one whose *)
(* image is still to come.                                                   *)
Shown ==
  /\ shown <= event /\ (attached = TRUE /\ pending # NoEvent => shown < pending)
  /\ seen = TRUE => shown < event

Inv == Types /\ ClockTypes /\ CooldownFromStill /\ Pairing /\ Shown /\ StillOfItsEvent

Steps ==
  \/ Attach \/ StreamEnds \/ Heartbeat \/ NoImage \/ Tick
  \/ \E k \in Kind : Describe(k)
  \/ \E u \in BOOLEAN : ImageDiscarded(u)
  \/ \E u \in BOOLEAN : ImageSuppressed(u)
  \/ \E u \in BOOLEAN : ImageDelivered(u)

LEMMA Cases == [Next]_vars => Steps \/ UNCHANGED vars
  BY DEF Next, Arrives, Steps
-----------------------------------------------------------------------------
(* The types. *)
LEMMA TypesStep == Types /\ [Next]_vars => Types'
<1> SUFFICES ASSUME Types, [Next]_vars PROVE Types'
  OBVIOUS
<1> USE DEF Types, reader, camera, clock, history
<1>0. NoEvent \in EventId /\ "other" \in Kind
  BY SnapshotAssumption DEF NoEvent, EventId, Kind
<1>1. CASE Attach \/ StreamEnds \/ Heartbeat \/ NoImage \/ Tick
  BY <1>0, <1>1 DEF Attach, NewPending, StreamEnds, Heartbeat, AfterHeartbeat, NoImage, Tick
<1>2. ASSUME NEW k \in Kind, Describe(k) PROVE Types'
  <2>1. event + 1 \in EventId
    BY <1>2, SnapshotAssumption DEF Describe, EventId
  <2>2. pending' \in EventId /\ pendingKind' \in Kind
    BY <1>0, <1>2, <2>1 DEF Describe, Parsed
  <2>3. event' \in EventId /\ kind' \in Kind /\ imageDue' \in BOOLEAN
    BY <1>2, <2>1 DEF Describe
  <2>4. seen' \in BOOLEAN /\ attached' \in BOOLEAN /\ UNCHANGED history
    BY <1>2 DEF Describe
  <2> QED
    BY <2>2, <2>3, <2>4
<1>3. ASSUME NEW u \in BOOLEAN, ImageDiscarded(u) \/ ImageSuppressed(u) PROVE Types'
  BY <1>0, <1>3 DEF ImageDiscarded, ImageSuppressed, Image
<1>4. ASSUME NEW u \in BOOLEAN, ImageDelivered(u) PROVE Types'
  BY <1>0, <1>4 DEF ImageDelivered, Image
<1>5. CASE UNCHANGED vars
  BY <1>5 DEF vars
<1> QED
  BY <1>1, <1>2, <1>3, <1>4, <1>5, Cases DEF Steps

(* The cooldown is what is left of the window of the last still. *)
LEMMA ClockStep ==
  ClockTypes /\ CooldownFromStill /\ [Next]_vars => (ClockTypes /\ CooldownFromStill)'
<1> SUFFICES ASSUME ClockTypes, CooldownFromStill, [Next]_vars
             PROVE (ClockTypes /\ CooldownFromStill)'
  OBVIOUS
<1> USE SnapshotAssumption DEF ClockTypes, CooldownFromStill, clock
<1>1. CASE Tick
  BY <1>1 DEF Tick
<1>2. ASSUME NEW u \in BOOLEAN, ImageDelivered(u) PROVE (ClockTypes /\ CooldownFromStill)'
  BY <1>2 DEF ImageDelivered
<1>3. ASSUME NEW u \in BOOLEAN, ImageSuppressed(u) PROVE (ClockTypes /\ CooldownFromStill)'
  BY <1>3 DEF ImageSuppressed
<1>4. CASE UNCHANGED clock
  BY <1>4
<1> QED
  BY <1>1, <1>2, <1>3, <1>4, Cases DEF Steps, Attach, StreamEnds, Heartbeat, NoImage, Describe,
    ImageDiscarded, vars

(* The pending event and the camera's. *)
LEMMA PairingStep == Types /\ Pairing /\ [Next]_vars => Pairing'
<1> SUFFICES ASSUME Types, Pairing, [Next]_vars PROVE Pairing'
  OBVIOUS
<1> USE DEF Types, Pairing, reader, camera, clock, history
<1>1. CASE Attach
  BY <1>1 DEF Attach, NewPending
<1>2. CASE StreamEnds \/ Heartbeat \/ NoImage \/ Tick
  BY <1>2 DEF StreamEnds, Heartbeat, AfterHeartbeat, NoImage, Tick
<1>3. ASSUME NEW k \in Kind, Describe(k) PROVE Pairing'
  <2>1. event' = event + 1 /\ event + 1 # NoEvent
    BY <1>3 DEF Describe, EventId, NoEvent
  <2>2. CASE attached = TRUE
    BY <1>3, <2>1, <2>2 DEF Describe, Parsed
  <2>3. CASE attached = FALSE
    BY <1>3, <2>1, <2>3 DEF Describe
  <2> QED
    BY <2>2, <2>3
<1>4. ASSUME NEW u \in BOOLEAN, ImageDiscarded(u) \/ ImageSuppressed(u) \/ ImageDelivered(u)
      PROVE Pairing'
  BY <1>4 DEF ImageDiscarded, ImageSuppressed, ImageDelivered, Image
<1>5. CASE UNCHANGED vars
  BY <1>5 DEF vars
<1> QED
  BY <1>1, <1>2, <1>3, <1>4, <1>5, Cases DEF Steps

(* The stills shown. *)
LEMMA ShownStep ==
  Types /\ Pairing /\ Shown /\ StillOfItsEvent /\ [Next]_vars => (Shown /\ StillOfItsEvent)'
<1> SUFFICES ASSUME Types, Pairing, Shown, StillOfItsEvent, [Next]_vars
             PROVE (Shown /\ StillOfItsEvent)'
  OBVIOUS
<1> USE SnapshotAssumption DEF Types, Pairing, Shown, StillOfItsEvent, EventId, reader, camera,
      clock, history
<1>1. CASE Attach
  BY <1>1 DEF Attach, NewPending
<1>2. CASE StreamEnds \/ Heartbeat \/ NoImage \/ Tick
  BY <1>2 DEF StreamEnds, Heartbeat, AfterHeartbeat, NoImage, Tick
<1>3. ASSUME NEW k \in Kind, Describe(k) PROVE (Shown /\ StillOfItsEvent)'
  <2>1. event' = event + 1 /\ shown' = shown /\ pictured' = pictured /\ shown < event + 1
    BY <1>3 DEF Describe
  <2>2. attached' = TRUE /\ pending' # NoEvent => pending' = event + 1
    BY <1>3 DEF Describe, Parsed
  <2> QED
    BY <2>1, <2>2
<1>4. ASSUME NEW u \in BOOLEAN, ImageDiscarded(u) \/ ImageSuppressed(u)
      PROVE (Shown /\ StillOfItsEvent)'
  BY <1>4 DEF ImageDiscarded, ImageSuppressed, Image
<1>5. ASSUME NEW u \in BOOLEAN, ImageDelivered(u) PROVE (Shown /\ StillOfItsEvent)'
  <2>1. attached = TRUE /\ pending = event
    BY <1>5 DEF ImageDelivered, Image
  <2>2. shown' = event /\ pictured' = event /\ event' = event /\ pending' = NoEvent
        /\ seen' = FALSE
    BY <1>5, <2>1 DEF ImageDelivered, Image
  <2> QED
    BY <2>2
<1>6. CASE UNCHANGED vars
  BY <1>6 DEF vars
<1> QED
  BY <1>1, <1>2, <1>3, <1>4, <1>5, <1>6, Cases DEF Steps

LEMMA Invariance == Spec => []Inv
<1>1. Init => Inv
  <2> SUFFICES ASSUME Init PROVE Inv
    OBVIOUS
  <2>1. Types
    <3>1. NoEvent \in EventId /\ "other" \in Kind
      BY SnapshotAssumption DEF NoEvent, EventId, Kind
    <3> QED
      BY <3>1 DEF Init, Types
  <2>2. ClockTypes /\ CooldownFromStill
    BY SnapshotAssumption DEF Init, ClockTypes, CooldownFromStill
  <2>3. Pairing /\ StillOfItsEvent
    BY DEF Init, Pairing, StillOfItsEvent
  <2>4. Shown
    BY DEF Init, Shown, NoEvent
  <2> QED
    BY <2>1, <2>2, <2>3, <2>4 DEF Inv
<1>2. Inv /\ [Next]_vars => Inv'
  BY TypesStep, ClockStep, PairingStep, ShownStep DEF Inv
<1> QED
  BY <1>1, <1>2, PTL DEF Spec
-----------------------------------------------------------------------------
(* Every variable of the reader keeps its type, and an event is pending only if *)
(* it was described last on this connection.                                    *)
THEOREM TypeCorrect == Spec => []TypeOK
<1>1. Inv => TypeOK
  BY DEF Inv, Types, ClockTypes, Pairing, TypeOK
<1> QED
  BY <1>1, Invariance, PTL

(* readSnapshotParts delivers every still with the event it shows. *)
THEOREM StillOfItsEventHolds == Spec => []StillOfItsEvent
<1>1. Inv => StillOfItsEvent
  BY DEF Inv
<1> QED
  BY <1>1, Invariance, PTL

(* It delivers no event's still twice. *)
THEOREM OneStillPerEventHolds == Spec => OneStillPerEvent
<1>1. Inv => \A u \in BOOLEAN : ImageDelivered(u) => pending > shown
  <2> SUFFICES ASSUME Inv, NEW u \in BOOLEAN, ImageDelivered(u) PROVE pending > shown
    OBVIOUS
  <2>1. attached = TRUE /\ pending # NoEvent
    BY DEF Inv, Types, ImageDelivered, Image
  <2> QED
    BY <2>1, SnapshotAssumption DEF Inv, Types, EventId, Shown
<1> QED
  BY <1>1, Invariance, PTL DEF Spec, OneStillPerEvent

(* And it delivers every still it could that is wanted, and no other. *)
THEOREM StillDeliveredIfWantedHolds == Spec => StillDeliveredIfWanted
<1>1. ASSUME Inv, Arrives(TRUE), seen, Wanted PROVE shown' = event
  <2>1. seen = TRUE /\ attached = TRUE
    BY <1>1 DEF Inv, Types, Pairing
  <2>2. kind # "other" /\ pending = event /\ event # NoEvent /\ pendingKind = kind
    BY <1>1, <2>1 DEF Inv, Pairing, Wanted
  <2>3. ~ CoolingDown
    <3>1. kind = "human" => cooldown = 0
      BY <1>1, SnapshotAssumption DEF Inv, ClockTypes, CooldownFromStill, Wanted
    <3> QED
      BY <2>2, <3>1 DEF CoolingDown
  <2>4. ImageDelivered(TRUE)
    BY <1>1, <2>2, <2>3 DEF Arrives, ImageDiscarded, ImageSuppressed
  <2> QED
    BY <2>2, <2>4 DEF ImageDelivered
<1>2. ASSUME Inv, Arrives(TRUE), seen, ~ Wanted PROVE shown' # event
  <2>1. seen = TRUE /\ attached = TRUE
    BY <1>2 DEF Inv, Types, Pairing
  <2>2. pending = NoEvent \/ CoolingDown
    <3>1. CASE kind = "other"
      BY <1>2, <2>1, <3>1 DEF Inv, Pairing
    <3>2. CASE kind = "human" /\ pending # NoEvent
      <4>1. since # HumanCooldown
        BY <1>2, <3>2 DEF Wanted
      <4>2. cooldown > 0
        BY <4>1, SnapshotAssumption, <1>2 DEF Inv, ClockTypes, CooldownFromStill
      <4> QED
        BY <1>2, <2>1, <3>2, <4>2 DEF Inv, Pairing, CoolingDown
    <3> QED
      BY <1>2, <3>1, <3>2 DEF Inv, Types, Kind, Wanted
  <2>3. UNCHANGED shown
    BY <1>2, <2>2 DEF Arrives, ImageDiscarded, ImageSuppressed, ImageDelivered, history
  <2>4. shown < event
    BY <1>2, <2>1 DEF Inv, Shown
  <2> QED
    BY <1>2, <2>3, <2>4, SnapshotAssumption DEF Inv, Types, EventId
<1>3. Inv /\ [Next]_vars => [Arrives(TRUE) /\ seen => (shown' = event <=> Wanted)]_vars
  BY <1>1, <1>2
<1> QED
  BY <1>3, Invariance, PTL DEF Spec, StillDeliveredIfWanted

(* The stills' cooldown runs from the last one delivered, for every HumanCooldown. *)
THEOREM CooldownFromStillHolds == Spec => []CooldownFromStill
<1>1. Inv => CooldownFromStill
  BY DEF Inv
<1> QED
  BY <1>1, Invariance, PTL
=============================================================================
