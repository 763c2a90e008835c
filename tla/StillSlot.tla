----------------------------- MODULE StillSlot ------------------------------
(***************************************************************************)
(* What the snapshotter promises, without locks, flags or outcomes: one    *)
(* slot for the fetch whose still is wanted.  A fetch that comes for a     *)
(* press takes the slot of a detection's, which is told to stop and ends   *)
(* some time later; nobody else who comes while the slot is held gets it,  *)
(* and nobody at all once the service shuts down.                          *)
(***************************************************************************)
EXTENDS Integers

CONSTANT Fetch   \* the fetches, numbered as they start

Nobody == 0

VARIABLES
  holder,   \* the fetch that has the slot, or Nobody
  running,  \* the fetches under way, told to stop or not
  told,     \* of those, the ones told to stop: deadline, press or shutdown
  urgent,   \* the fetches that came for a press
  refused,  \* requests that found the slot held
  closed    \* the service shuts down

vars == <<holder, running, told, urgent, refused, closed>>

Init ==
  /\ holder = Nobody /\ running = {} /\ told = {} /\ urgent = {}
  /\ refused = 0 /\ closed = FALSE

Held(isUrgent) == holder # Nobody /\ (~ isUrgent \/ holder \in urgent)

Refuse(isUrgent) ==
  /\ ~ closed /\ Held(isUrgent)
  /\ refused' = refused + 1
  /\ UNCHANGED <<holder, running, told, urgent, closed>>

Take(f, isUrgent) ==
  /\ ~ closed /\ ~ Held(isUrgent) /\ f \notin running
  /\ holder' = f /\ running' = running \cup {f}
  /\ told' = told \cup ({holder} \ {Nobody})
  /\ urgent' = IF isUrgent THEN urgent \cup {f} ELSE urgent
  /\ UNCHANGED <<refused, closed>>

(* The slot is free again once the fetch that has it ends, and not before. *)
End(f) ==
  /\ f \in running /\ running' = running \ {f} /\ told' = told \ {f}
  /\ holder' = IF holder = f THEN Nobody ELSE holder
  /\ UNCHANGED <<urgent, refused, closed>>

TimesOut(f) ==
  /\ f \in running \ told /\ told' = told \cup {f}
  /\ UNCHANGED <<holder, running, urgent, refused, closed>>

Close ==
  /\ ~ closed /\ closed' = TRUE /\ told' = running
  /\ UNCHANGED <<holder, running, urgent, refused>>

Next ==
  \/ \E isUrgent \in BOOLEAN :
       Refuse(isUrgent) \/ \E f \in Fetch : Take(f, isUrgent)
  \/ \E f \in Fetch : End(f) \/ TimesOut(f)
  \/ Close

Spec == Init /\ [][Next]_vars
-----------------------------------------------------------------------------
(* At most one fetch runs that was not told to stop, and it has the slot. *)
OneWanted == \A f \in running \ told : f = holder
=============================================================================
