--------------------------- MODULE SnapshotStream ---------------------------
(***************************************************************************)
(* The camera's event-snapshot stream (pkg/dahua/snapstream.go).  For each *)
(* event the camera sends a text part that describes it and then an image  *)
(* part, with heartbeats anywhere between; the image does not say which    *)
(* event it shows.  readSnapshotParts pairs them by keeping the event it   *)
(* read last, and the callback of ListenSnapshots applies a cooldown to    *)
(* the stills of humans.                                                   *)
(*                                                                         *)
(* The connection may end between any two parts.  The camera goes on with  *)
(* its events meanwhile, so a new connection can begin with an image whose *)
(* description was lost.                                                   *)
(***************************************************************************)
EXTENDS Integers

CONSTANTS
  MaxEvents,      \* bound: events the camera has
  HumanCooldown   \* ticks

ASSUME SnapshotAssumption == MaxEvents \in Nat /\ HumanCooldown \in Nat

(* "other" is an event that is not published: a Stop, a vehicle. *)
Kind == {"press", "human", "other"}

NoEvent == 0

VARIABLES
  attached,    \* readSnapshotParts runs on an established stream
  pending,     \* the event described just before, if it is one to publish
  pendingKind,
  cooldown,    \* HumanCooldown less the time since lastHuman
  event,       \* the camera's latest event, by number, and its kind
  kind,
  imageDue,    \* its image is still to be sent
  seen,        \* its description was read on this connection (history)
  shown,       \* the event onSnapshot was last called with (history)
  pictured,    \* and the one that the image shows (history)
  since        \* ticks since a human's still, to HumanCooldown (history)

reader  == <<attached, pending, pendingKind>>
camera  == <<event, kind, imageDue, seen>>
clock   == <<cooldown, since>>
history == <<shown, pictured>>
vars == <<reader, camera, clock, history>>

Init ==
  /\ attached = FALSE /\ pending = NoEvent /\ pendingKind = "other"
  /\ event = NoEvent /\ kind = "other" /\ imageDue = FALSE /\ seen = FALSE
  /\ cooldown = 0 /\ since = HumanCooldown
  /\ shown = NoEvent /\ pictured = NoEvent
-----------------------------------------------------------------------------
(* pending is local to readSnapshotParts, lastHuman to ListenSnapshots. *)
NewPending == NoEvent

Attach ==
  /\ ~ attached /\ attached' = TRUE /\ pending' = NewPending
  /\ UNCHANGED <<pendingKind, camera, clock, history>>

StreamEnds ==
  /\ attached /\ attached' = FALSE /\ seen' = FALSE
  /\ UNCHANGED <<pending, pendingKind, event, kind, imageDue, clock, history>>

(* A mutant: an event that is not published leaves pending alone. *)
KeepsPending(k) == IF k = "other" THEN pending ELSE event + 1

(* parseSnapshotEvent *)
Parsed(k) == IF k = "other" THEN NoEvent ELSE event + 1

Describe(k) ==
  /\ event < MaxEvents /\ ~ imageDue
  /\ event' = event + 1 /\ kind' = k /\ imageDue' = TRUE
  /\ seen' = attached
  /\ IF attached
     THEN pending' = Parsed(k) /\ pendingKind' = k
     ELSE UNCHANGED <<pending, pendingKind>>
  /\ UNCHANGED <<attached, clock, history>>

(* A mutant: a heartbeat is a text part like another. *)
Forgets == NoEvent

AfterHeartbeat == pending

Heartbeat ==
  /\ attached /\ pending' = AfterHeartbeat
  /\ UNCHANGED <<attached, pendingKind, camera, clock, history>>

(* The camera has no more images of the event, or none that arrives. *)
NoImage ==
  /\ imageDue /\ imageDue' = FALSE
  /\ UNCHANGED <<reader, event, kind, seen, clock, history>>

(* An image, one of a burst or the last. *)
Image ==
  /\ attached /\ imageDue /\ imageDue' \in BOOLEAN /\ seen' = FALSE
  /\ pending' = NoEvent
  /\ UNCHANGED <<event, kind, attached, pendingKind>>

CoolingDown == pendingKind = "human" /\ cooldown > 0

(* There is no event to go with, or the image is empty or larger than *)
(* maxSnapshotBytes.                                                  *)
ImageDiscarded(usable) ==
  /\ Image /\ (pending = NoEvent \/ ~ usable)
  /\ UNCHANGED <<clock, history>>

ImageSuppressed(usable) ==
  /\ Image /\ pending # NoEvent /\ usable /\ CoolingDown
  /\ UNCHANGED <<clock, history>>

ImageDelivered(usable) ==
  /\ Image /\ pending # NoEvent /\ usable /\ ~ CoolingDown
  /\ shown' = pending /\ pictured' = event
  /\ IF pendingKind = "human"
     THEN cooldown' = HumanCooldown /\ since' = 0
     ELSE UNCHANGED clock

Arrives(usable) == ImageDiscarded(usable) \/ ImageSuppressed(usable) \/ ImageDelivered(usable)

Tick ==
  /\ cooldown' = IF cooldown > 0 THEN cooldown - 1 ELSE 0
  /\ since' = IF since < HumanCooldown THEN since + 1 ELSE since
  /\ UNCHANGED <<reader, camera, history>>
-----------------------------------------------------------------------------
Next ==
  \/ Attach \/ StreamEnds \/ Heartbeat \/ NoImage \/ Tick
  \/ \E k \in Kind : Describe(k)
  \/ \E usable \in BOOLEAN : Arrives(usable)

Spec == Init /\ [][Next]_vars
-----------------------------------------------------------------------------
EventId == 0..MaxEvents

(* Every variable has its type, and an event that is pending was described last *)
(* on this connection.                                                          *)
TypeOK ==
  /\ attached \in BOOLEAN /\ imageDue \in BOOLEAN /\ seen \in BOOLEAN
  /\ pending \in EventId /\ event \in EventId /\ shown \in EventId /\ pictured \in EventId
  /\ pendingKind \in Kind /\ kind \in Kind
  /\ cooldown \in 0..HumanCooldown /\ since \in 0..HumanCooldown
  /\ attached /\ pending # NoEvent => seen /\ pending = event /\ pendingKind = kind

(* A still is delivered with the event it shows, whatever heartbeats, missing *)
(* images, unpublished events and lost connections came between.              *)
StillOfItsEvent == shown = pictured

(* An event has one still, even if the camera sends a burst. *)
OneStillPerEvent == [][\A u \in BOOLEAN : ImageDelivered(u) => pending > shown]_vars

Wanted == kind = "press" \/ (kind = "human" /\ since = HumanCooldown)

(* A usable image whose description was read on the same connection is        *)
(* delivered exactly when it is wanted: a press's always, a human's when the  *)
(* last still is a cooldown ago.  Neither heartbeats nor suppressed and       *)
(* unusable images take a wanted one away, and a lost connection, which ends  *)
(* the reader but not the window, gives none within it.                       *)
StillDeliveredIfWanted == [][Arrives(TRUE) /\ seen => (shown' = event <=> Wanted)]_vars

(* The stills' cooldown runs from the last one delivered: not from one that was *)
(* suppressed or of unusable size, and across lost connections.                 *)
CooldownFromStill == cooldown = HumanCooldown - since
=============================================================================
