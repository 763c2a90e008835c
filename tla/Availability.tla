---------------------------- MODULE Availability ----------------------------
(***************************************************************************)
(* The retained availability message of pkg/mqtt: "online" while the       *)
(* camera's event stream is connected.  It is written by the event stream  *)
(* (PublishAvailability), by OnConnect callbacks of the client library     *)
(* (republishAvailability), by the broker (the last will) and at shutdown  *)
(* (Disconnect); availabilityMu puts the first, the second and the last in *)
(* one order, in which the client library delivers them.                   *)
(***************************************************************************)
EXTENDS Integers, Sequences

CONSTANTS
  MaxConnects,   \* bound: times the event stream connects, per process
  MaxDrops,      \* bound: broker connections lost
  MaxStarts      \* bound: processes started one after the other

ASSUME AvailabilityAssumption ==
  MaxConnects \in Nat /\ MaxDrops \in Nat /\ MaxStarts \in Nat \ {0}

(* Who takes availabilityMu. *)
Caller == {"stream", "announcer", "shutdown"}

(* "goodbye" is the "offline" that Disconnect publishes. *)
Message == {"online", "offline", "goodbye"}
Text(m) == IF m = "online" THEN "online" ELSE "offline"
Says(up) == IF up THEN "online" ELSE "offline"

VARIABLES
  process,     \* where main is
  listening,   \* Listen has not returned
  connected,   \* Client.connected: the event stream is established
  reporting,   \* setConnected has stored connected and still calls OnConnectionChange
  available,   \* the last recorded state
  inside,      \* who holds availabilityMu
  payload,     \* and what it is about to publish
  announcing,  \* OnConnect callbacks started, without the lock yet
  link,        \* the broker connection; "dead" is lost without the client knowing
  wire,        \* publishes the client library has and the broker has not acknowledged
  got,         \* of those, how many the broker has received on this connection
  willDue,     \* the broker has yet to publish the last will
  retained,    \* the retained message
  farewell,    \* the "offline" of Disconnect
  gaveUp,      \* Disconnect stopped waiting for its acknowledgement (history)
  cutOff,      \* a clean disconnect came before the farewell was acknowledged (history)
  connects, drops, starts

main    == <<process, listening, farewell, gaveUp>>
stream  == <<connected, reporting, connects>>
lock    == <<available, inside, payload>>
broker  == <<link, wire, got, willDue, retained, cutOff, drops>>
vars == <<main, stream, lock, announcing, broker, starts>>

Init ==
  /\ process = "running" /\ listening = TRUE /\ farewell = "unsent" /\ gaveUp = FALSE
  /\ connected = FALSE /\ reporting = FALSE /\ connects = 0
  /\ available = FALSE /\ inside = {} /\ payload = [c \in Caller |-> "offline"]
  /\ announcing = 0
  /\ link = "down" /\ wire = <<>> /\ got = 0
  /\ willDue = FALSE /\ retained = "none" /\ cutOff = FALSE
  /\ drops = 0 /\ starts = 1
-----------------------------------------------------------------------------
(* The camera's event stream: setConnected, which calls PublishAvailability. *)

Alive == process # "gone"

StreamChanges ==
  /\ Alive /\ listening /\ ~ reporting
  /\ connected \/ connects < MaxConnects
  /\ connected' = ~ connected /\ reporting' = TRUE
  /\ connects' = IF connected THEN connects ELSE connects + 1
  /\ UNCHANGED <<main, lock, announcing, broker, starts>>

(* Listen returns with the stream disconnected, and reported so. *)
ListenReturns ==
  /\ Alive /\ listening /\ ~ connected /\ ~ reporting
  /\ listening' = FALSE
  /\ UNCHANGED <<process, farewell, gaveUp, stream, lock, announcing, broker, starts>>
-----------------------------------------------------------------------------
(* Under availabilityMu: record the state, then publish it. *)

(* A mutant: the mutex is not taken. *)
NotLocked == inside # Caller

Unlocked == inside = {}

Locks(c, message) ==
  /\ Alive /\ Unlocked /\ c \notin inside
  /\ inside' = inside \cup {c}
  /\ payload' = [payload EXCEPT ![c] = message]

StreamLocks ==
  /\ reporting /\ Locks("stream", Says(connected))
  /\ available' = connected
  /\ UNCHANGED <<main, stream, announcing, broker, starts>>

AnnouncerLocks ==
  /\ announcing > 0 /\ Locks("announcer", Says(available))
  /\ announcing' = announcing - 1
  /\ UNCHANGED <<main, stream, available, broker, starts>>

(* A mutant: main disconnects without waiting for the goroutines. *)
NoWait == TRUE

Waited == ~ listening

ShutdownLocks ==
  /\ process = "running" /\ Waited /\ Locks("shutdown", "goodbye")
  /\ available' = FALSE /\ process' = "disconnecting"
  /\ UNCHANGED <<listening, farewell, gaveUp, stream, announcing, broker, starts>>

(* client.Publish, whatever the state of the connection, and unlock. *)
Publishes(c) ==
  /\ Alive /\ c \in inside
  /\ wire' = Append(wire, payload[c]) /\ inside' = inside \ {c}
  /\ reporting' = (reporting /\ c # "stream")
  /\ farewell' = IF c = "shutdown" THEN "sent" ELSE farewell
  /\ UNCHANGED <<process, listening, gaveUp, connected, connects, available, payload, announcing,
                 link, got, willDue, retained, cutOff, drops, starts>>
-----------------------------------------------------------------------------
(* Disconnect, after its publish, and the end of the process. *)

CheckOpen ==
  /\ process = "disconnecting" /\ farewell # "unsent"
  /\ process' = IF link # "down" THEN "waiting" ELSE "leaving"
  /\ UNCHANGED <<listening, farewell, gaveUp, stream, lock, announcing, broker, starts>>

FarewellAcked ==
  /\ process = "waiting" /\ farewell = "acked" /\ process' = "leaving"
  /\ UNCHANGED <<listening, farewell, gaveUp, stream, lock, announcing, broker, starts>>

(* drainTimeout passes, or the token completes with an error. *)
GiveUp ==
  /\ process = "waiting" /\ farewell # "acked" /\ process' = "leaving" /\ gaveUp' = TRUE
  /\ UNCHANGED <<listening, farewell, stream, lock, announcing, broker, starts>>

(* The process ends: its goroutines and the messages it kept end with it. *)
Ends ==
  /\ process' = "gone" /\ link' = "down" /\ wire' = <<>> /\ got' = 0
  /\ listening' = FALSE /\ reporting' = FALSE /\ inside' = {} /\ announcing' = 0
  /\ UNCHANGED <<farewell, gaveUp, connected, connects, available, payload, retained, drops, starts>>

(* client.Disconnect: clean, if there is a connection, so without the will; *)
(* what the broker has not received by then is cut off.                     *)
ClientDisconnects ==
  /\ process = "leaving" /\ Ends
  /\ cutOff' = (cutOff \/ (link = "up" /\ farewell # "acked"))
  /\ UNCHANGED willDue

Crash ==
  /\ Alive /\ Ends
  /\ willDue' = (willDue \/ link = "up")
  /\ UNCHANGED cutOff

Restart ==
  /\ process = "gone" /\ starts < MaxStarts
  /\ starts' = starts + 1
  /\ process' = "running" /\ listening' = TRUE /\ farewell' = "unsent" /\ gaveUp' = FALSE
  /\ connected' = FALSE /\ connects' = 0 /\ available' = FALSE
  /\ UNCHANGED <<reporting, inside, payload, announcing>>
  /\ UNCHANGED broker
-----------------------------------------------------------------------------
(* The client library and the broker. *)

(* A mutant: OnConnect does not announce the state again. *)
ConnectsSilently ==
  /\ Alive /\ link = "down" /\ link' = "up" /\ got' = 0 /\ cutOff' = FALSE
  /\ wire' \in {wire, <<>>}
  /\ willDue' = FALSE /\ retained' = IF willDue THEN "offline" ELSE retained
  /\ UNCHANGED <<main, stream, lock, announcing, drops, starts>>

(* The broker ends the old session, whose will it publishes if it is due; the *)
(* unacknowledged messages are sent again, in order, or forgotten; OnConnect.  *)
ConnectionUp ==
  /\ Alive /\ link = "down" /\ link' = "up" /\ got' = 0 /\ cutOff' = FALSE
  /\ wire' \in {wire, <<>>}
  /\ willDue' = FALSE /\ retained' = IF willDue THEN "offline" ELSE retained
  /\ announcing' = announcing + 1
  /\ UNCHANGED <<main, stream, lock, drops, starts>>

(* The broker loses the client, at once or before the client knows. *)
ConnectionLost ==
  /\ Alive /\ link = "up" /\ drops < MaxDrops
  /\ link' \in {"dead", "down"} /\ got' = 0 /\ willDue' = TRUE /\ drops' = drops + 1
  /\ UNCHANGED <<main, stream, lock, announcing, wire, retained, cutOff, starts>>

(* A ping goes unanswered. *)
ConnectionNoticed ==
  /\ link = "dead" /\ link' = "down"
  /\ UNCHANGED <<main, stream, lock, announcing, wire, got, willDue, retained, cutOff, drops, starts>>

WillPublished ==
  /\ willDue /\ willDue' = FALSE /\ retained' = "offline"
  /\ UNCHANGED <<main, stream, lock, announcing, link, wire, got, cutOff, drops, starts>>

BrokerReceives ==
  /\ link = "up" /\ got < Len(wire)
  /\ got' = got + 1 /\ retained' = Text(wire[got + 1])
  /\ UNCHANGED <<main, stream, lock, announcing, link, wire, willDue, cutOff, drops, starts>>

AckArrives ==
  /\ link = "up" /\ got > 0
  /\ wire' = Tail(wire) /\ got' = got - 1
  /\ farewell' = IF Head(wire) = "goodbye" THEN "acked" ELSE farewell
  /\ UNCHANGED <<process, listening, gaveUp, stream, lock, announcing, link, willDue, retained,
                 cutOff, drops, starts>>
-----------------------------------------------------------------------------
Publishing == StreamLocks \/ AnnouncerLocks \/ \E c \in Caller : Publishes(c)

Disconnecting == ShutdownLocks \/ CheckOpen \/ FarewellAcked \/ GiveUp \/ ClientDisconnects

Delivering == BrokerReceives \/ AckArrives \/ WillPublished \/ ConnectionNoticed

Next ==
  \/ StreamChanges \/ ListenReturns \/ Publishing \/ Disconnecting
  \/ ConnectionUp \/ ConnectionLost \/ Delivering
  \/ Crash \/ Restart

Spec == Init /\ [][Next]_vars

(* The goroutines are scheduled and the broker handles what it is sent. *)
FairSpec == Spec /\ WF_vars(Publishing) /\ WF_vars(BrokerReceives)
-----------------------------------------------------------------------------
FlagType ==
  /\ listening \in BOOLEAN /\ gaveUp \in BOOLEAN /\ connected \in BOOLEAN /\ reporting \in BOOLEAN
  /\ available \in BOOLEAN /\ willDue \in BOOLEAN /\ cutOff \in BOOLEAN

StateType ==
  /\ process \in {"running", "disconnecting", "waiting", "leaving", "gone"}
  /\ farewell \in {"unsent", "sent", "acked"}
  /\ link \in {"up", "dead", "down"}
  /\ retained \in {"none", "online", "offline"}

LockType ==
  /\ payload \in [Caller -> Message]
  /\ inside \subseteq Caller /\ \A c, d \in inside : c = d

WireType ==
  /\ wire \in Seq(Message) /\ got \in 0..Len(wire)
  /\ announcing \in Nat /\ connects \in Nat /\ drops \in Nat /\ starts \in Nat

(* Every variable has its type and the lock has one holder. *)
TypeOK == FlagType /\ StateType /\ LockType /\ WireType

(* Nothing is under way: what the retained message says is final. *)
Settled ==
  /\ process = "running" /\ link = "up"
  /\ ~ reporting /\ inside = {} /\ announcing = 0 /\ got = Len(wire)

(* "the retained value on the broker always converges to the latest state":   *)
(* when nothing is under way it says whether the event stream is connected,   *)
(* whatever order publishes, reconnects and wills came in.                    *)
Converged == Settled => retained = Says(connected)

(* A process that has gone leaves "offline": by its farewell, acknowledged, or *)
(* by the will.  The exception is a clean disconnect that came before the      *)
(* broker's acknowledgement.                                                   *)
DeadIsOffline == process = "gone" /\ ~ willDue /\ ~ cutOff => retained # "online"

(* What is still to be done and to be received before the message is final.   *)
ToSay ==
  3 * announcing + (IF reporting /\ "stream" \notin inside THEN 3 ELSE 0)
    + (IF inside = {} THEN 0 ELSE 2) + (Len(wire) - got)

(* While the connection and the event stream stay as they are, every publish   *)
(* and everything the broker receives brings the retained message closer to    *)
(* its final value and nothing puts it off: callbacks of several reconnects,   *)
(* and a report among them, each get the lock once and publish once.           *)
Steady == process = "running" /\ link = "up" /\ UNCHANGED <<process, link, connected>>
SettlesInSteps ==
  [][Steady => /\ ToSay' <= ToSay
               /\ Publishing \/ BrokerReceives => ToSay' < ToSay
               /\ ToSay = 0 <=> Settled]_vars

(* And it does converge: if the connection and the event stream stay as they   *)
(* are, the retained message ends up saying so.                                *)
RetainedFollows ==
  \A up \in BOOLEAN :
    <>[](process = "running" /\ link = "up" /\ connected = up) => <>[](retained = Says(up))
-----------------------------------------------------------------------------
(* A statement of the comments in Disconnect that the code breaks: "A clean    *)
(* disconnect suppresses the will, so leave "offline" explicitly - and wait    *)
(* for the broker's ack".  Unless the wait timed out, a process that has gone  *)
(* leaves "offline".                                                           *)
LeavesOffline == process = "gone" /\ ~ willDue /\ ~ gaveUp => retained # "online"
=============================================================================
