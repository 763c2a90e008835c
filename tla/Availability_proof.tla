------------------------- MODULE Availability_proof -------------------------
(***************************************************************************)
(* The retained message of Availability is right whenever nothing is under *)
(* way, and a process that has gone leaves "offline", for every number of  *)
(* reconnects, lost connections, crashes and restarts.                     *)
(***************************************************************************)
EXTENDS Availability, SequenceTheorems, TLAPS

(* What the last publish in the wire, or failing that the broker, says. *)
LastWord == IF wire = <<>> THEN retained ELSE Text(wire[Len(wire)])

(* On an open connection with no announcement to come, the last word is the *)
(* state: every reconnect, which may have cost the last word, owes one.     *)
LastWordIsState ==
  link = "up" /\ announcing = 0 /\ inside = {} => LastWord = Says(available)

(* The broker retains what it received last. *)
RetainsReceived == link = "up" /\ got > 0 => retained = Text(wire[got])

(* What is about to be published under the lock is the state. *)
HolderSaysState == \A c \in inside : Text(payload[c]) = Says(available)

(* The recorded state is the stream's, except while the stream reports. *)
StateIsStream ==
  /\ process # "gone" /\ ~ reporting => available = connected
  /\ "stream" \in inside => reporting /\ available = connected

(* Once main disconnects, the stream is over and the state is "offline". *)
StreamOver ==
  /\ process \in {"disconnecting", "waiting", "leaving"} => ~ listening
  /\ process # "gone" /\ ~ listening => ~ connected /\ ~ reporting /\ ~ available
  /\ "shutdown" \in inside => process = "disconnecting" /\ farewell = "unsent"
  /\ process = "running" => farewell = "unsent"
  /\ process \in {"waiting", "leaving"} => farewell # "unsent"
  /\ process = "gone" => inside = {} /\ wire = <<>> /\ link = "down"

(* No "online" follows the farewell, and once that is acknowledged none is left. *)
NothingAfterFarewell ==
  /\ farewell = "unsent" => \A i \in 1..Len(wire) : wire[i] # "goodbye"
  /\ \A c \in inside : payload[c] = "goodbye" <=> c = "shutdown"
  /\ farewell # "unsent" /\ process # "gone" => ~ listening
  /\ \A i, j \in 1..Len(wire) : wire[i] = "goodbye" /\ i < j => wire[j] # "online"
  /\ farewell = "acked" /\ process # "gone" =>
       retained # "online" /\ \A i \in 1..Len(wire) : wire[i] # "online"

(* Without a connection, the will is due or has done its work. *)
WillDone ==
  /\ link = "up" => ~ willDue /\ ~ cutOff
  /\ link # "up" /\ ~ willDue /\ ~ cutOff => retained # "online"
  /\ link # "up" => got = 0

IInv ==
  /\ TypeOK /\ LastWordIsState /\ RetainsReceived /\ HolderSaysState
  /\ StateIsStream /\ StreamOver /\ NothingAfterFarewell /\ WillDone

LEMMA InitInv == Init => IInv
<1> SUFFICES ASSUME Init PROVE IInv
  OBVIOUS
<1>1. FlagType /\ StateType
  BY DEF Init, FlagType, StateType
<1>2. LockType
  BY DEF Init, LockType, Caller, Message
<1>3. WireType
  <2>1. <<>> \in Seq(Message) /\ Len(<<>>) = 0
    BY EmptySeq
  <2> QED BY <2>1 DEF Init, WireType
<1>4. LastWordIsState /\ RetainsReceived /\ HolderSaysState /\ StateIsStream
  BY DEF Init, LastWordIsState, RetainsReceived, HolderSaysState, StateIsStream
<1>5. StreamOver /\ NothingAfterFarewell /\ WillDone
  BY DEF Init, StreamOver, NothingAfterFarewell, WillDone
<1> QED BY <1>1, <1>2, <1>3, <1>4, <1>5 DEF IInv, TypeOK
-----------------------------------------------------------------------------
(* The steps that touch the wire, and what they do to it. *)
WireStep ==
  \/ \E c \in Caller : Publishes(c)
  \/ ConnectionUp \/ AckArrives \/ ClientDisconnects \/ Crash

LEMMA WireFrame == [Next]_vars => UNCHANGED wire \/ WireStep
  BY DEF Next, Publishing, Disconnecting, Delivering, WireStep, vars, main, stream, lock, broker,
     StreamChanges, ListenReturns, StreamLocks, AnnouncerLocks, ShutdownLocks, CheckOpen, FarewellAcked,
     GiveUp, ConnectionLost, ConnectionNoticed, WillPublished, BrokerReceives, Restart

LEMMA Appended ==
  ASSUME wire \in Seq(Message), NEW m \in Message, wire' = Append(wire, m)
  PROVE  /\ wire' \in Seq(Message) /\ Len(wire') = Len(wire) + 1 /\ wire' # <<>>
         /\ wire'[Len(wire')] = m
         /\ \A i \in 1..Len(wire) : wire'[i] = wire[i]
  BY AppendProperties

LEMMA Acked ==
  ASSUME wire \in Seq(Message), got \in 1..Len(wire), wire' = Tail(wire)
  PROVE  /\ wire' \in Seq(Message) /\ Len(wire') = Len(wire) - 1
         /\ \A i \in 1..Len(wire') : wire'[i] = wire[i + 1]
         /\ Head(wire) = wire[1] /\ wire[1] \in Message
         /\ wire' = <<>> => Len(wire) = 1
<1>1. wire # <<>> /\ Len(wire) \in Nat
  BY LenProperties
<1>2. wire' \in Seq(Message) /\ Len(wire') = Len(wire) - 1
  BY <1>1, HeadTailProperties
<1>3. \A i \in 1..Len(wire') : wire'[i] = wire[i + 1]
  BY <1>1, HeadTailProperties
<1>4. Head(wire) = wire[1] /\ wire[1] \in Message
  BY <1>1, ElementOfSeq, HeadTailProperties
<1>5. wire' = <<>> => Len(wire) = 1
  <2>1. wire' = <<>> => Len(wire') = 0
    BY EmptySeq
  <2> QED BY <1>1, <1>2, <2>1
<1> QED BY <1>2, <1>3, <1>4, <1>5
-----------------------------------------------------------------------------
LEMMA FlagStep == FlagType /\ [Next]_vars => FlagType'
<1> USE DEF FlagType, main, stream, lock, broker
<1>1. StreamChanges \/ ListenReturns \/ StreamLocks \/ AnnouncerLocks \/ ShutdownLocks => (FlagType => FlagType')
  BY Zenon DEF StreamChanges, ListenReturns, StreamLocks, AnnouncerLocks, ShutdownLocks
<1> QED BY <1>1 DEF Next, Publishing, Disconnecting, Delivering, vars, Publishes, CheckOpen, FarewellAcked,
     GiveUp, ClientDisconnects, Crash, Ends, Restart, ConnectionUp, ConnectionLost, ConnectionNoticed,
     WillPublished, BrokerReceives, AckArrives

LEMMA StateStep == StateType /\ [Next]_vars => StateType'
<1> USE DEF StateType, main, stream, lock, broker
<1> QED BY DEF Next, Publishing, Disconnecting, Delivering, vars, StreamChanges, ListenReturns, StreamLocks,
     AnnouncerLocks, ShutdownLocks, Publishes, CheckOpen, FarewellAcked, GiveUp, ClientDisconnects, Crash, Ends,
     Restart, ConnectionUp, ConnectionLost, ConnectionNoticed, WillPublished, BrokerReceives, AckArrives, Text

(* The lock is taken by one caller at a time. *)
LEMMA LockStep == FlagType /\ LockType /\ [Next]_vars => LockType'
<1> SUFFICES ASSUME LockType, [Next]_vars PROVE LockType'
  OBVIOUS
<1> USE DEF LockType, main, stream, lock, broker
<1>1. ASSUME NEW c \in Caller, NEW m \in Message, Locks(c, m) PROVE LockType'
  BY <1>1 DEF Locks, Unlocked
<1>2. Says(connected) \in Message /\ Says(available) \in Message /\ "goodbye" \in Message
  BY DEF Says, Message
<1>3. StreamLocks \/ AnnouncerLocks \/ ShutdownLocks => LockType'
  BY <1>1, <1>2 DEF StreamLocks, AnnouncerLocks, ShutdownLocks, Caller
<1>4. (\E c \in Caller : Publishes(c)) \/ ClientDisconnects \/ Crash => LockType'
  BY DEF Publishes, ClientDisconnects, Crash, Ends
<1>5. ~ (StreamLocks \/ AnnouncerLocks \/ ShutdownLocks)
       /\ ~ ((\E c \in Caller : Publishes(c)) \/ ClientDisconnects \/ Crash) => UNCHANGED <<payload, inside>>
  BY DEF Next, Publishing, Disconnecting, Delivering, vars, StreamChanges, ListenReturns, CheckOpen,
     FarewellAcked, GiveUp, Restart, ConnectionUp, ConnectionLost, ConnectionNoticed, WillPublished,
     BrokerReceives, AckArrives
<1> QED BY <1>3, <1>4, <1>5

LEMMA WireTypeStep == TypeOK /\ [Next]_vars => WireType'
<1> SUFFICES ASSUME WireType, LockType, [Next]_vars PROVE WireType'
  BY DEF TypeOK
<1> USE DEF WireType, main, stream, lock, broker
<1>1. /\ Len(wire) \in Nat /\ <<>> \in Seq(Message) /\ Len(<<>>) = 0
  BY LenProperties, EmptySeq
<1>2. ASSUME NEW c \in Caller, Publishes(c) PROVE WireType'
  <2>1. payload[c] \in Message /\ wire' = Append(wire, payload[c])
    BY <1>2 DEF Publishes, LockType
  <2>2. wire' \in Seq(Message) /\ Len(wire') = Len(wire) + 1
    BY <2>1, Appended
  <2>3. UNCHANGED <<got, announcing, connects, drops, starts>>
    BY <1>2 DEF Publishes
  <2> QED BY <1>1, <2>2, <2>3
<1>3. ASSUME ClientDisconnects \/ Crash PROVE WireType'
  <2>1. wire' = <<>> /\ got' = 0 /\ announcing' = 0 /\ UNCHANGED <<connects, drops, starts>>
    BY <1>3 DEF ClientDisconnects, Crash, Ends
  <2> QED BY <1>1, <2>1
<1>4. ASSUME ConnectionUp PROVE WireType'
  <2>1. wire' \in {wire, <<>>} /\ got' = 0 /\ announcing' = announcing + 1 /\ UNCHANGED <<connects, drops, starts>>
    BY <1>4 DEF ConnectionUp
  <2>2. wire' \in Seq(Message) /\ Len(wire') \in Nat
    BY <1>1, <2>1
  <2> QED BY <1>1, <2>1, <2>2
<1>5. ASSUME AckArrives PROVE WireType'
  <2>1. got \in 1..Len(wire) /\ wire' = Tail(wire) /\ got' = got - 1 /\ UNCHANGED <<announcing, connects, drops, starts>>
    BY <1>1, <1>5 DEF AckArrives
  <2>2. wire' \in Seq(Message) /\ Len(wire') = Len(wire) - 1
    BY <2>1, Acked
  <2> QED BY <1>1, <2>1, <2>2
<1>6. ASSUME ~ WireStep PROVE WireType'
  <2>1. UNCHANGED wire
    BY <1>6, WireFrame
  <2>2. got' \in 0..Len(wire)
    BY <1>1, <1>6 DEF Next, Publishing, Disconnecting, Delivering, WireStep, vars, StreamChanges, ListenReturns,
       StreamLocks, AnnouncerLocks, ShutdownLocks, CheckOpen, FarewellAcked, GiveUp, Restart,
       ConnectionLost, ConnectionNoticed, WillPublished, BrokerReceives
  <2>3. announcing' \in Nat /\ connects' \in Nat /\ drops' \in Nat /\ starts' \in Nat
    BY <1>6 DEF Next, Publishing, Disconnecting, Delivering, WireStep, vars, StreamChanges, ListenReturns,
       StreamLocks, AnnouncerLocks, ShutdownLocks, CheckOpen, FarewellAcked, GiveUp, Restart,
       ConnectionLost, ConnectionNoticed, WillPublished, BrokerReceives
  <2> QED BY <2>1, <2>2, <2>3
<1> QED BY <1>2, <1>3, <1>4, <1>5, <1>6 DEF WireStep

LEMMA TypeStep == TypeOK /\ [Next]_vars => TypeOK'
  BY FlagStep, StateStep, LockStep, WireTypeStep DEF TypeOK
-----------------------------------------------------------------------------
(* The steps that leave the lock, the wire and the broker alone. *)
Quiet == StreamChanges \/ ListenReturns \/ CheckOpen \/ FarewellAcked \/ GiveUp \/ UNCHANGED vars

LEMMA QuietFrame == Quiet => UNCHANGED <<lock, announcing, broker>>
  BY DEF Quiet, StreamChanges, ListenReturns, CheckOpen, FarewellAcked, GiveUp, vars

Locking == StreamLocks \/ AnnouncerLocks \/ ShutdownLocks
Ending == ClientDisconnects \/ Crash

LEMMA Steps ==
  [Next]_vars =>
    \/ Quiet \/ Locking \/ (\E c \in Caller : Publishes(c)) \/ Ending \/ Restart
    \/ ConnectionUp \/ ConnectionLost \/ ConnectionNoticed
    \/ WillPublished \/ BrokerReceives \/ AckArrives
  BY DEF Next, Publishing, Disconnecting, Delivering, Quiet, Locking, Ending

LEMMA LastWordStep == IInv /\ [Next]_vars => LastWordIsState'
<1> SUFFICES ASSUME IInv, [Next]_vars PROVE LastWordIsState'
  OBVIOUS
<1> USE DEF LastWordIsState, LastWord, lock, broker
<1>1. LastWordIsState /\ wire \in Seq(Message) /\ Len(wire) \in Nat /\ got \in 0..Len(wire) /\ announcing \in Nat
  BY LenProperties DEF IInv, TypeOK, WireType
<1>2. CASE Quiet
  BY <1>1, <1>2, QuietFrame
<1>3. CASE Locking
  BY <1>3 DEF Locking, StreamLocks, AnnouncerLocks, ShutdownLocks, Locks
<1>4. ASSUME NEW c \in Caller, Publishes(c) PROVE LastWordIsState'
  <2>1. wire' = Append(wire, payload[c]) /\ payload[c] \in Message /\ UNCHANGED available
    BY <1>4 DEF Publishes, IInv, TypeOK, LockType
  <2>2. Text(payload[c]) = Says(available)
    BY <1>4 DEF Publishes, IInv, HolderSaysState
  <2> QED BY <1>1, <2>1, <2>2, Appended
<1>5. CASE Ending \/ ConnectionLost \/ ConnectionNoticed
  BY <1>5 DEF Ending, ClientDisconnects, Crash, Ends, ConnectionLost, ConnectionNoticed
<1>6. CASE Restart
  BY <1>6 DEF Restart, IInv, StreamOver
<1>7. CASE ConnectionUp
  BY <1>1, <1>7 DEF ConnectionUp
<1>8. CASE WillPublished
  BY <1>8 DEF WillPublished, IInv, WillDone
<1>9. CASE BrokerReceives
  <2>1. wire # <<>>
    BY <1>1, <1>9, EmptySeq DEF BrokerReceives
  <2> QED BY <1>1, <1>9, <2>1 DEF BrokerReceives
<1>10. CASE AckArrives
  <2>1. got \in 1..Len(wire) /\ wire' = Tail(wire) /\ UNCHANGED <<link, announcing, inside, available, retained>>
    BY <1>1, <1>10 DEF AckArrives
  <2>2. wire # <<>> /\ retained = Text(wire[got])
    BY <1>1, <1>10, <2>1, EmptySeq DEF AckArrives, IInv, RetainsReceived
  <2>3. CASE wire' = <<>>
    BY <1>1, <2>1, <2>2, <2>3, Acked
  <2>4. CASE wire' # <<>>
    <3>1. Len(wire') \in 1..Len(wire) /\ Len(wire') = Len(wire) - 1 /\ wire'[Len(wire')] = wire[Len(wire)]
      BY <1>1, <2>1, <2>4, Acked, EmptySeq, LenProperties
    <3> QED BY <1>1, <2>1, <2>2, <2>4, <3>1
  <2> QED BY <2>3, <2>4
<1> QED BY <1>2, <1>3, <1>4, <1>5, <1>6, <1>7, <1>8, <1>9, <1>10, Steps

LEMMA RetainsStep == IInv /\ [Next]_vars => RetainsReceived'
<1> SUFFICES ASSUME IInv, [Next]_vars PROVE RetainsReceived'
  OBVIOUS
<1> USE DEF RetainsReceived, lock, broker
<1>1. RetainsReceived /\ wire \in Seq(Message) /\ Len(wire) \in Nat /\ got \in 0..Len(wire)
  BY LenProperties DEF IInv, TypeOK, WireType
<1>2. CASE Quiet
  BY <1>1, <1>2, QuietFrame
<1>3. CASE Locking \/ Restart
  BY <1>1, <1>3 DEF Locking, StreamLocks, AnnouncerLocks, ShutdownLocks, Restart
<1>4. ASSUME NEW c \in Caller, Publishes(c) PROVE RetainsReceived'
  <2>1. wire' = Append(wire, payload[c]) /\ payload[c] \in Message /\ UNCHANGED <<link, got, retained>>
    BY <1>4 DEF Publishes, IInv, TypeOK, LockType
  <2> QED BY <1>1, <2>1, Appended
<1>5. CASE Ending \/ ConnectionLost \/ ConnectionNoticed \/ ConnectionUp
  BY <1>5 DEF Ending, ClientDisconnects, Crash, Ends, ConnectionLost, ConnectionNoticed, ConnectionUp
<1>6. CASE WillPublished
  BY <1>6 DEF WillPublished, IInv, WillDone
<1>7. CASE BrokerReceives
  BY <1>1, <1>7 DEF BrokerReceives
<1>8. CASE AckArrives
  <2>1. got \in 1..Len(wire) /\ wire' = Tail(wire) /\ got' = got - 1 /\ UNCHANGED <<link, retained>>
    BY <1>1, <1>8 DEF AckArrives
  <2>2. CASE got' > 0
    <3>1. wire'[got'] = wire[got]
      BY <1>1, <2>1, <2>2, Acked
    <3> QED BY <1>1, <2>1, <3>1
  <2> QED BY <2>1, <2>2
<1> QED BY <1>2, <1>3, <1>4, <1>5, <1>6, <1>7, <1>8, Steps

LEMMA HolderStep == IInv /\ [Next]_vars => HolderSaysState'
<1> SUFFICES ASSUME IInv, [Next]_vars PROVE HolderSaysState'
  OBVIOUS
<1> USE DEF HolderSaysState, lock
<1>1. HolderSaysState /\ LockType /\ FlagType
  BY DEF IInv, TypeOK
<1>2. ASSUME NEW c \in Caller, NEW m, Locks(c, m), Text(m) = Says(available') PROVE HolderSaysState'
  BY <1>1, <1>2 DEF Locks, Unlocked, LockType
<1>3. CASE Locking
  <2>1. StreamLocks => HolderSaysState'
    <3>1. Text(Says(connected)) = Says(connected)
      BY DEF Text, Says
    <3> QED BY <1>2, <3>1 DEF StreamLocks, Caller
  <2>2. AnnouncerLocks => HolderSaysState'
    <3>1. Text(Says(available)) = Says(available)
      BY DEF Text, Says
    <3> QED BY <1>2, <3>1 DEF AnnouncerLocks, Caller
  <2>3. ShutdownLocks => HolderSaysState'
    <3>1. Text("goodbye") = Says(FALSE)
      BY DEF Text, Says
    <3> QED BY <1>2, <3>1 DEF ShutdownLocks, Caller
  <2> QED BY <1>3, <2>1, <2>2, <2>3 DEF Locking
<1>4. CASE (\E c \in Caller : Publishes(c)) \/ Ending
  BY <1>1, <1>4 DEF Publishes, Ending, ClientDisconnects, Crash, Ends
<1>5. CASE Restart
  BY <1>5 DEF Restart, IInv, StreamOver
<1>6. CASE \/ Quiet \/ ConnectionUp \/ ConnectionLost \/ ConnectionNoticed
           \/ WillPublished \/ BrokerReceives \/ AckArrives
  <2>1. UNCHANGED <<available, inside, payload>>
    BY <1>6, QuietFrame DEF ConnectionUp, ConnectionLost, ConnectionNoticed, WillPublished, BrokerReceives, AckArrives
  <2> QED BY <1>1, <2>1
<1> QED BY <1>3, <1>4, <1>5, <1>6, Steps

LEMMA StreamStateStep == IInv /\ [Next]_vars => StateIsStream'
<1> SUFFICES ASSUME IInv, [Next]_vars PROVE StateIsStream'
  OBVIOUS
<1> USE DEF StateIsStream, main, stream, lock, broker
<1>1. StateIsStream /\ StreamOver /\ LockType /\ FlagType
  BY DEF IInv, TypeOK
<1>2. CASE Quiet
  <2>1. StreamChanges => StateIsStream'
    BY <1>1 DEF StreamChanges
  <2>2. ListenReturns \/ CheckOpen \/ FarewellAcked \/ GiveUp \/ UNCHANGED vars => StateIsStream'
    BY <1>1 DEF ListenReturns, CheckOpen, FarewellAcked, GiveUp, vars
  <2> QED BY <1>2, <2>1, <2>2 DEF Quiet
<1>3. CASE StreamLocks
  BY <1>1, <1>3 DEF StreamLocks, Locks
<1>4. CASE AnnouncerLocks
  BY <1>1, <1>4 DEF AnnouncerLocks, Locks
<1>5. CASE ShutdownLocks
  <2>1. ~ reporting /\ ~ connected /\ "stream" \notin inside
    BY <1>1, <1>5 DEF ShutdownLocks, Waited, Locks, Alive, StreamOver
  <2>2. connected = FALSE
    BY <1>1, <2>1 DEF FlagType
  <2> QED BY <1>1, <1>5, <2>1, <2>2 DEF ShutdownLocks, Locks
<1>6. ASSUME NEW c \in Caller, Publishes(c) PROVE StateIsStream'
  <2>1. CASE c = "stream"
    BY <1>1, <1>6, <2>1 DEF Publishes, LockType
  <2>2. CASE c # "stream"
    BY <1>1, <1>6, <2>2 DEF Publishes, LockType
  <2> QED BY <2>1, <2>2
<1>7. CASE Ending
  BY <1>7 DEF Ending, ClientDisconnects, Crash, Ends
<1>8. CASE Restart
  BY <1>1, <1>8 DEF Restart, StreamOver
<1>9. CASE \/ ConnectionUp \/ ConnectionLost \/ ConnectionNoticed
           \/ WillPublished \/ BrokerReceives \/ AckArrives
  <2>1. UNCHANGED <<process, reporting, connected, available, inside>>
    BY <1>9 DEF ConnectionUp, ConnectionLost, ConnectionNoticed, WillPublished, BrokerReceives, AckArrives
  <2> QED BY <1>1, <2>1
<1> QED BY <1>2, <1>3, <1>4, <1>5, <1>6, <1>7, <1>8, <1>9, Steps DEF Locking

LEMMA StreamOverStep == IInv /\ [Next]_vars => StreamOver'
<1> SUFFICES ASSUME IInv, [Next]_vars PROVE StreamOver'
  OBVIOUS
<1> USE DEF StreamOver, main, stream, lock, broker
<1>1. StreamOver /\ LockType /\ FlagType /\ StateIsStream /\ StateType
  BY DEF IInv, TypeOK
<1>2. CASE Quiet
  BY <1>1, <1>2 DEF Quiet, StreamChanges, ListenReturns, CheckOpen, FarewellAcked, GiveUp, vars, Alive, StateIsStream
<1>3. CASE StreamLocks
  BY <1>1, <1>3 DEF StreamLocks, Locks, Alive
<1>4. CASE AnnouncerLocks
  BY <1>1, <1>4 DEF AnnouncerLocks, Locks, Alive
<1>5. CASE ShutdownLocks
  BY <1>1, <1>5 DEF ShutdownLocks, Locks, Alive, Waited
<1>6. ASSUME NEW c \in Caller, Publishes(c) PROVE StreamOver'
  BY <1>1, <1>6 DEF Publishes, LockType, Alive
<1>7. CASE Ending
  BY <1>7 DEF Ending, ClientDisconnects, Crash, Ends
<1>8. CASE Restart
  BY <1>1, <1>8 DEF Restart
<1>9. CASE ConnectionUp \/ ConnectionLost
  BY <1>1, <1>9 DEF ConnectionUp, ConnectionLost, Alive
<1>10. CASE ConnectionNoticed \/ WillPublished \/ BrokerReceives
  BY <1>1, <1>10 DEF ConnectionNoticed, WillPublished, BrokerReceives
<1>11. CASE AckArrives
  <2>1. got \in 1..Len(wire) /\ wire \in Seq(Message) /\ wire' = Tail(wire)
    BY <1>11, LenProperties DEF AckArrives, IInv, TypeOK, WireType
  <2>2. farewell = "unsent" => Head(wire) # "goodbye"
    BY <2>1, Acked DEF IInv, NothingAfterFarewell
  <2>3. farewell' = farewell \/ (farewell # "unsent" /\ farewell' = "acked")
    BY <1>11, <2>2 DEF AckArrives
  <2>4. UNCHANGED <<process, listening, connected, reporting, available, inside, link>> /\ process # "gone"
    BY <1>1, <1>11 DEF AckArrives
  <2> QED BY <1>1, <2>3, <2>4
<1> QED BY <1>2, <1>3, <1>4, <1>5, <1>6, <1>7, <1>8, <1>9, <1>10, <1>11, Steps DEF Locking

LEMMA FarewellStep == IInv /\ [Next]_vars => NothingAfterFarewell'
<1> SUFFICES ASSUME IInv, [Next]_vars PROVE NothingAfterFarewell'
  OBVIOUS
<1> USE DEF main, stream, lock, broker
<1>1. NothingAfterFarewell /\ StreamOver /\ LockType /\ StateType
  BY DEF IInv, TypeOK
<1>2. wire \in Seq(Message) /\ Len(wire) \in Nat /\ got \in 0..Len(wire)
  BY LenProperties DEF IInv, TypeOK, WireType
<1>3. CASE Quiet
  <2>1. UNCHANGED <<wire, farewell, inside, payload, retained>>
    BY <1>3, QuietFrame DEF Quiet, StreamChanges, ListenReturns, CheckOpen, FarewellAcked, GiveUp, vars
  <2>2. /\ process' # "gone" => process # "gone"
        /\ farewell # "unsent" /\ process' # "gone" => ~ listening'
    BY <1>1, <1>3 DEF Quiet, StreamChanges, ListenReturns, CheckOpen, FarewellAcked, GiveUp, vars, Alive,
       NothingAfterFarewell
  <2> QED BY <1>1, <2>1, <2>2 DEF NothingAfterFarewell
<1>4. CASE Locking
  <2>1. UNCHANGED <<wire, farewell, retained, listening>> /\ process # "gone"
    BY <1>4 DEF Locking, StreamLocks, AnnouncerLocks, ShutdownLocks, Locks, Alive
  <2>2. Says(connected) # "goodbye" /\ Says(available) # "goodbye"
    BY DEF Says
  <2>3. \A c \in inside' : payload'[c] = "goodbye" <=> c = "shutdown"
    BY <1>1, <1>4, <2>2 DEF Locking, StreamLocks, AnnouncerLocks, ShutdownLocks, Locks, Unlocked, LockType, Caller
  <2> QED BY <1>1, <2>1, <2>3 DEF NothingAfterFarewell
<1>5. ASSUME NEW c \in Caller, Publishes(c) PROVE NothingAfterFarewell'
  <2>1. /\ wire' = Append(wire, payload[c]) /\ payload[c] \in Message /\ process # "gone"
        /\ UNCHANGED <<process, listening, retained, payload>> /\ inside' = {}
    BY <1>1, <1>5 DEF Publishes, LockType, Alive
  <2>2. /\ Len(wire') = Len(wire) + 1 /\ wire'[Len(wire) + 1] = payload[c]
        /\ \A i \in 1..Len(wire) : wire'[i] = wire[i]
    BY <1>2, <2>1, Appended
  <2>3. farewell' = IF c = "shutdown" THEN "sent" ELSE farewell
    BY <1>5 DEF Publishes
  <2>4. payload[c] = "goodbye" <=> c = "shutdown"
    BY <1>1, <1>5 DEF Publishes, NothingAfterFarewell
  <2>5. farewell' # "unsent" => ~ listening
    BY <1>1, <1>5, <2>1, <2>3 DEF Publishes, NothingAfterFarewell, StreamOver
  <2>6. farewell # "unsent" => payload[c] # "online"
    <3>1. farewell # "unsent" => available = FALSE
      BY <1>1, <2>1 DEF NothingAfterFarewell, StreamOver, IInv, TypeOK, FlagType
    <3>2. Text(payload[c]) = Says(available)
      BY <1>5 DEF Publishes, IInv, HolderSaysState
    <3> QED BY <3>1, <3>2 DEF Says, Text
  <2>7. farewell = "unsent" => \A i \in 1..Len(wire) : wire[i] # "goodbye"
    BY <1>1 DEF NothingAfterFarewell
  <2>8. farewell' = "unsent" => \A i \in 1..Len(wire') : wire'[i] # "goodbye"
    BY <1>2, <2>2, <2>3, <2>4, <2>7
  <2>9. \A i, j \in 1..Len(wire') : wire'[i] = "goodbye" /\ i < j => wire'[j] # "online"
    <3>1. \A i, j \in 1..Len(wire) : wire'[i] = "goodbye" /\ i < j => wire'[j] # "online"
      BY <1>1, <2>2 DEF NothingAfterFarewell
    <3>2. \A i \in 1..Len(wire) : wire'[i] = "goodbye" => wire'[Len(wire) + 1] # "online"
      BY <2>2, <2>6, <2>7
    <3> QED BY <1>2, <2>2, <3>1, <3>2
  <2>10. farewell' = "acked" => retained' # "online" /\ \A i \in 1..Len(wire') : wire'[i] # "online"
    <3>1. farewell' = "acked" => farewell = "acked"
      BY <2>3
    <3>2. farewell = "acked" => retained # "online" /\ \A i \in 1..Len(wire) : wire[i] # "online"
      BY <1>1, <2>1 DEF NothingAfterFarewell
    <3> QED BY <1>2, <2>1, <2>2, <2>6, <3>1, <3>2
  <2> QED BY <2>1, <2>5, <2>8, <2>9, <2>10 DEF NothingAfterFarewell
<1>6. CASE Ending
  <2>1. wire' = <<>> /\ inside' = {} /\ process' = "gone" /\ Len(<<>>) = 0
    BY <1>6, EmptySeq DEF Ending, ClientDisconnects, Crash, Ends
  <2> QED BY <2>1 DEF NothingAfterFarewell
<1>7. CASE Restart
  <2>1. wire = <<>> /\ inside = {} /\ farewell' = "unsent" /\ UNCHANGED <<wire, inside>> /\ Len(<<>>) = 0
    BY <1>1, <1>7, EmptySeq DEF Restart, StreamOver
  <2> QED BY <2>1 DEF NothingAfterFarewell
<1>8. CASE ConnectionUp
  <2>1. /\ wire' \in {wire, <<>>} /\ UNCHANGED <<process, listening, farewell, inside, payload>>
        /\ retained' = retained \/ retained' = "offline"
    BY <1>8 DEF ConnectionUp
  <2>2. CASE wire' = wire
    BY <1>1, <2>1, <2>2 DEF NothingAfterFarewell
  <2>3. CASE wire' = <<>>
    <3>1. 1..Len(wire') = {}
      BY <2>3, EmptySeq
    <3> QED BY <1>1, <2>1, <3>1 DEF NothingAfterFarewell
  <2> QED BY <2>1, <2>2, <2>3
<1>9. CASE ConnectionLost \/ ConnectionNoticed \/ WillPublished
  BY <1>1, <1>9 DEF ConnectionLost, ConnectionNoticed, WillPublished, NothingAfterFarewell
<1>10. CASE BrokerReceives
  <2>1. /\ UNCHANGED <<process, listening, farewell, wire, inside, payload>>
        /\ got + 1 \in 1..Len(wire) /\ retained' = Text(wire[got + 1])
    BY <1>2, <1>10 DEF BrokerReceives
  <2>2. wire[got + 1] # "online" => retained' # "online"
    BY <2>1 DEF Text
  <2> QED BY <1>1, <2>1, <2>2 DEF NothingAfterFarewell
<1>11. CASE AckArrives
  <2>1. /\ got \in 1..Len(wire) /\ wire' = Tail(wire) /\ UNCHANGED <<process, listening, inside, payload, retained>>
        /\ farewell' = IF Head(wire) = "goodbye" THEN "acked" ELSE farewell
    BY <1>2, <1>11 DEF AckArrives
  <2>2. /\ Len(wire') = Len(wire) - 1 /\ Head(wire) = wire[1]
        /\ \A i \in 1..Len(wire') : wire'[i] = wire[i + 1]
    BY <1>2, <2>1, Acked
  <2>3. CASE wire[1] = "goodbye"
    <3>1. farewell # "unsent" /\ farewell' = "acked"
      BY <1>1, <1>2, <2>1, <2>2, <2>3 DEF NothingAfterFarewell
    <3>2. \A j \in 1..Len(wire) : 1 < j => wire[j] # "online"
      BY <1>1, <1>2, <2>1, <2>3 DEF NothingAfterFarewell
    <3>3. \A i \in 1..Len(wire') : wire'[i] # "online"
      BY <1>2, <2>2, <3>2
    <3>4. retained = Text(wire[got])
      BY <1>2, <1>11, <2>1 DEF AckArrives, IInv, RetainsReceived
    <3>5. wire[got] # "online"
      BY <1>2, <2>1, <2>3, <3>2
    <3>6. retained # "online"
      BY <3>4, <3>5 DEF Text
    <3> QED BY <1>1, <2>1, <3>1, <3>3, <3>6 DEF NothingAfterFarewell
  <2>4. CASE wire[1] # "goodbye"
    <3>1. farewell' = farewell
      BY <2>1, <2>2, <2>4
    <3>2. farewell = "unsent" => \A i \in 1..Len(wire') : wire'[i] # "goodbye"
      BY <1>1, <1>2, <2>2 DEF NothingAfterFarewell
    <3>3. \A i, j \in 1..Len(wire') : wire'[i] = "goodbye" /\ i < j => wire'[j] # "online"
      BY <1>1, <1>2, <2>2 DEF NothingAfterFarewell
    <3>4. farewell = "acked" /\ process # "gone" => \A i \in 1..Len(wire') : wire'[i] # "online"
      BY <1>1, <1>2, <2>2 DEF NothingAfterFarewell
    <3> QED BY <1>1, <2>1, <3>1, <3>2, <3>3, <3>4 DEF NothingAfterFarewell
  <2> QED BY <2>3, <2>4
<1> QED BY <1>3, <1>4, <1>5, <1>6, <1>7, <1>8, <1>9, <1>10, <1>11, Steps

LEMMA WillStep == IInv /\ [Next]_vars => WillDone'
<1> SUFFICES ASSUME IInv, [Next]_vars PROVE WillDone'
  OBVIOUS
<1> USE DEF WillDone, main, stream, lock, broker
<1>1. WillDone /\ NothingAfterFarewell /\ StreamOver /\ FlagType /\ StateType
  BY DEF IInv, TypeOK
<1>2. CASE Quiet
  BY <1>1, <1>2, QuietFrame
<1>3. CASE Locking \/ Restart \/ (\E c \in Caller : Publishes(c))
  BY <1>1, <1>3 DEF Locking, StreamLocks, AnnouncerLocks, ShutdownLocks, Restart, Publishes
<1>4. CASE ClientDisconnects
  BY <1>1, <1>4 DEF ClientDisconnects, Ends, NothingAfterFarewell, StateType
<1>5. CASE Crash
  BY <1>1, <1>5 DEF Crash, Ends
<1>6. CASE ConnectionUp
  BY <1>6 DEF ConnectionUp
<1>7. CASE ConnectionLost \/ ConnectionNoticed \/ WillPublished \/ BrokerReceives
  BY <1>1, <1>7 DEF ConnectionLost, ConnectionNoticed, WillPublished, BrokerReceives
<1>8. CASE AckArrives
  BY <1>1, <1>8 DEF AckArrives
<1> QED BY <1>2, <1>3, <1>4, <1>5, <1>6, <1>7, <1>8, Steps DEF Ending
-----------------------------------------------------------------------------
(* The inductive invariant: what is under way on the wire, under the lock and *)
(* in callbacks, and what the broker has been told, fit together.             *)
THEOREM Invariance == Spec => []IInv
<1>1. IInv /\ [Next]_vars => IInv'
  <2>1. IInv /\ [Next]_vars => TypeOK'
    BY TypeStep DEF IInv
  <2> QED BY <2>1, LastWordStep, RetainsStep, HolderStep, StreamStateStep, StreamOverStep, FarewellStep, WillStep
       DEF IInv
<1> QED BY InitInv, <1>1, PTL DEF Spec

(* Every variable keeps its type and availabilityMu has one holder. *)
THEOREM TypeCorrect == Spec => []TypeOK
  BY Invariance, PTL DEF IInv

(* When nothing is under way the retained message says whether the event *)
(* stream is connected.                                                  *)
THEOREM ConvergedHolds == Spec => []Converged
<1>1. IInv => Converged
  <2> SUFFICES ASSUME IInv, Settled PROVE retained = Says(connected)
    BY DEF Converged
  <2>1. available = connected /\ LastWord = Says(available)
    BY DEF Settled, IInv, StateIsStream, LastWordIsState
  <2>2. LastWord = retained
    <3>1. wire \in Seq(Message) /\ Len(wire) \in Nat /\ (wire # <<>> => Len(wire) > 0)
      BY LenProperties, EmptySeq DEF IInv, TypeOK, WireType
    <3> QED BY <3>1 DEF Settled, LastWord, IInv, RetainsReceived
  <2> QED BY <2>1, <2>2
<1> QED BY <1>1, Invariance, PTL

(* A process that has gone leaves "offline" retained, by its acknowledged *)
(* farewell or by its will.                                               *)
THEOREM DeadIsOfflineHolds == Spec => []DeadIsOffline
<1>1. IInv => DeadIsOffline
  BY DEF IInv, StreamOver, WillDone, DeadIsOffline
<1> QED BY <1>1, Invariance, PTL
-----------------------------------------------------------------------------
(* What is to be said, as a sum of parts each step changes in few ways.       *)

Reports == IF reporting /\ "stream" \notin inside THEN 3 ELSE 0
Holds == IF inside = {} THEN 0 ELSE 2
Unreceived == Len(wire) - got

Parts ==
  /\ announcing \in Nat /\ Reports \in Nat /\ Holds \in Nat /\ Unreceived \in Nat
  /\ ToSay = 3 * announcing + Reports + Holds + Unreceived

LEMMA PartsOfToSay == IInv => Parts
<1> SUFFICES ASSUME IInv PROVE Parts
  OBVIOUS
<1>1. announcing \in Nat /\ wire \in Seq(Message) /\ got \in 0..Len(wire)
  BY DEF IInv, TypeOK, WireType
<1>2. Len(wire) \in Nat
  BY <1>1, LenProperties
<1>3. Unreceived \in Nat
  BY <1>1, <1>2 DEF Unreceived
<1>4. ToSay = 3 * announcing + Reports + Holds + Unreceived
  BY DEF ToSay, Reports, Holds, Unreceived
<1> QED BY <1>1, <1>3, <1>4 DEF Parts, Reports, Holds

LEMMA ReportLocks ==
  ASSUME NEW a \in Nat, NEW u \in Nat
  PROVE  3 * a + 0 + 2 + u < 3 * a + 3 + 0 + u
  OBVIOUS

LEMMA AnnouncementLocks ==
  ASSUME NEW a \in Nat, NEW b \in Nat, NEW r \in Nat, NEW u \in Nat, b + 1 = a
  PROVE  3 * b + r + 2 + u < 3 * a + r + 0 + u
  OBVIOUS

LEMMA OnePublished ==
  ASSUME NEW a \in Nat, NEW r \in Nat, NEW s \in Nat, NEW u \in Nat, s <= r
  PROVE  3 * a + s + 0 + (u + 1) < 3 * a + r + 2 + u
  OBVIOUS

LEMMA OneReceived ==
  ASSUME NEW a \in Nat, NEW r \in Nat, NEW h \in Nat, NEW u \in Nat, NEW v \in Nat, v + 1 = u
  PROVE  3 * a + r + h + v < 3 * a + r + h + u
  OBVIOUS

LEMMA NoPartLeft ==
  ASSUME NEW a \in Nat, NEW r \in Nat, NEW h \in Nat, NEW u \in Nat
  PROVE  3 * a + r + h + u \in Nat /\ (3 * a + r + h + u = 0 <=> a = 0 /\ r = 0 /\ h = 0 /\ u = 0)
  OBVIOUS

(* Nothing is to be said exactly when nothing is under way. *)
LEMMA NothingToSay ==
  ASSUME IInv, process = "running", link = "up"
  PROVE  ToSay = 0 <=> Settled
<1>1. Parts
  BY PartsOfToSay
<1>2. Settled <=> announcing = 0 /\ Reports = 0 /\ Holds = 0 /\ Unreceived = 0
  <2>1. Unreceived = 0 <=> got = Len(wire)
    <3>1. wire \in Seq(Message) /\ got \in 0..Len(wire)
      BY DEF IInv, TypeOK, WireType
    <3>2. Len(wire) \in Nat
      BY <3>1, LenProperties
    <3> QED BY <3>1, <3>2 DEF Unreceived
  <2>2. Holds = 0 <=> inside = {}
    BY DEF Holds
  <2>3. inside = {} => (Reports = 0 <=> ~ reporting)
    BY DEF Reports
  <2> QED BY <2>1, <2>2, <2>3 DEF Settled
<1>3. ToSay = 0 <=> announcing = 0 /\ Reports = 0 /\ Holds = 0 /\ Unreceived = 0
  BY <1>1, NoPartLeft DEF Parts
<1> QED BY <1>2, <1>3

(* A caller that gets the lock has been waiting for it, a caller that leaves *)
(* it publishes once.                                                        *)
LEMMA PublishingSays ==
  ASSUME IInv, IInv', process = "running", Publishing
  PROVE  ToSay' < ToSay
<1>1. Parts /\ Parts'
  BY PartsOfToSay, PTL
<1>3. CASE StreamLocks
  <2>1. /\ inside = {} /\ inside' = {"stream"} /\ reporting
        /\ UNCHANGED <<announcing, wire, got, reporting>>
    BY <1>3 DEF StreamLocks, Locks, Unlocked, stream, broker
  <2>2. Reports = 3 /\ Reports' = 0 /\ Holds = 0 /\ Holds' = 2 /\ Unreceived' = Unreceived
    BY <2>1 DEF Reports, Holds, Unreceived
  <2> QED BY <1>1, <2>1, <2>2, ReportLocks DEF Parts
<1>4. CASE AnnouncerLocks
  <2>1. /\ inside = {} /\ inside' = {"announcer"} /\ announcing > 0 /\ announcing' = announcing - 1
        /\ UNCHANGED <<wire, got, reporting>>
    BY <1>4 DEF AnnouncerLocks, Locks, Unlocked, stream, broker
  <2>2. Reports' = Reports /\ Holds = 0 /\ Holds' = 2 /\ Unreceived' = Unreceived
    BY <2>1 DEF Reports, Holds, Unreceived
  <2>3. announcing' + 1 = announcing
    BY <1>1, <2>1 DEF Parts
  <2> QED BY <1>1, <2>2, <2>3, AnnouncementLocks DEF Parts
<1>5. ASSUME NEW c \in Caller, Publishes(c) PROVE ToSay' < ToSay
  <2>1. /\ c \in inside /\ wire' = Append(wire, payload[c]) /\ inside' = inside \ {c}
        /\ reporting' = (reporting /\ c # "stream") /\ UNCHANGED <<announcing, got>>
    BY <1>5 DEF Publishes
  <2>2. payload[c] \in Message /\ inside' = {}
    BY <1>5, <2>1 DEF IInv, TypeOK, LockType
  <2>3. Len(wire') = Len(wire) + 1 /\ Len(wire) \in Nat /\ got \in Nat
    BY <2>1, <2>2, Appended, LenProperties DEF IInv, TypeOK, WireType
  <2>4. Unreceived' = Unreceived + 1
    BY <2>1, <2>3 DEF Unreceived
  <2>5. Holds = 2 /\ Holds' = 0
    BY <2>1, <2>2 DEF Holds
  <2>6. inside = {c}
    BY <2>1 DEF IInv, TypeOK, LockType
  <2>7. Reports' \in Nat /\ Reports \in Nat /\ Reports' <= Reports
    <3>1. reporting' => reporting /\ "stream" \notin inside
      BY <2>1, <2>6
    <3>2. CASE reporting'
      <4>1. Reports = 3
        BY <3>1, <3>2 DEF Reports
      <4> QED BY <4>1 DEF Reports
    <3>3. CASE ~ reporting'
      <4>1. Reports' = 0
        BY <3>3 DEF Reports
      <4> QED BY <4>1 DEF Reports
    <3> QED BY <3>2, <3>3
  <2> QED BY <1>1, <2>1, <2>4, <2>5, <2>7, OnePublished DEF Parts
<1> QED BY <1>3, <1>4, <1>5 DEF Publishing

(* Every reconnect and every report is said once: while the connection and    *)
(* the stream stay as they are, what is still to be said falls with each      *)
(* publish and each receipt, nothing adds to it, and with nothing left the    *)
(* retained message is final.                                                 *)
THEOREM SettlesInStepsHolds == Spec => SettlesInSteps
<1>1. ASSUME IInv, IInv', [Next]_vars, Steady
      PROVE  /\ ToSay' <= ToSay
             /\ Publishing \/ BrokerReceives => ToSay' < ToSay
             /\ ToSay = 0 <=> Settled
  <2>1. Parts /\ Parts'
    BY <1>1, PartsOfToSay, PTL
  <2>2. ToSay \in Nat /\ ToSay' \in Nat
    BY <2>1, NoPartLeft DEF Parts
  <2>3. ToSay = 0 <=> Settled
    BY <1>1, NothingToSay DEF Steady
  <2>4. Publishing => ToSay' < ToSay
    BY <1>1, PublishingSays DEF Steady
  <2>5. BrokerReceives => ToSay' < ToSay
    <3> SUFFICES ASSUME BrokerReceives PROVE ToSay' < ToSay
      OBVIOUS
    <3>1. got' = got + 1 /\ UNCHANGED <<announcing, reporting, inside, wire>>
      BY DEF BrokerReceives, stream, lock
    <3>2. got \in Nat /\ Len(wire) \in Nat
      BY <1>1, LenProperties DEF IInv, TypeOK, WireType
    <3>3. Unreceived' + 1 = Unreceived /\ Reports' = Reports /\ Holds' = Holds
      BY <3>1, <3>2 DEF Unreceived, Reports, Holds
    <3> QED BY <2>1, <3>1, <3>3, OneReceived DEF Parts
  <2>6. AckArrives => ToSay' = ToSay
    <3> SUFFICES ASSUME AckArrives PROVE ToSay' = ToSay
      OBVIOUS
    <3>1. got > 0 /\ got' = got - 1 /\ wire' = Tail(wire) /\ UNCHANGED <<announcing, reporting, inside>>
      BY DEF AckArrives, stream, lock
    <3>2. wire \in Seq(Message) /\ got \in 0..Len(wire)
      BY <1>1 DEF IInv, TypeOK, WireType
    <3>3. Len(wire) \in Nat /\ got \in 1..Len(wire)
      BY <3>1, <3>2, LenProperties
    <3>4. Len(wire') = Len(wire) - 1
      BY <3>1, <3>2, <3>3, Acked
    <3>5. Unreceived' = Unreceived /\ Reports' = Reports /\ Holds' = Holds
      BY <3>1, <3>3, <3>4 DEF Unreceived, Reports, Holds
    <3> QED BY <2>1, <3>1, <3>5 DEF Parts
  <2>7. ASSUME UNCHANGED <<announcing, reporting, inside, wire, got>> PROVE ToSay' = ToSay
    BY <2>7 DEF ToSay
  <2>8. \/ Publishing \/ BrokerReceives \/ AckArrives
        \/ UNCHANGED <<announcing, reporting, inside, wire, got>>
    BY <1>1 DEF Steady, Next, Disconnecting, Delivering, StreamChanges, ListenReturns, ShutdownLocks, CheckOpen,
       FarewellAcked, GiveUp, ClientDisconnects, Crash, Ends, Restart, ConnectionUp, ConnectionLost,
       ConnectionNoticed, WillPublished, vars, stream, lock, broker
  <2> HIDE DEF ToSay
  <2> QED BY <2>2, <2>3, <2>4, <2>5, <2>6, <2>7, <2>8
<1> QED BY <1>1, Invariance, PTL DEF Spec, SettlesInSteps
=============================================================================
