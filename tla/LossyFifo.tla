----------------------------- MODULE LossyFifo -----------------------------
(***************************************************************************)
(* What the event queues promise, without time, brokers or shutdown: two   *)
(* lossy lines.  An event given to a line is numbered; it is accepted or   *)
(* refused; an accepted event leaves the front of its line once, sent or   *)
(* lost.                                                                   *)
(***************************************************************************)
EXTENDS Integers, Sequences

CONSTANTS Kind

VARIABLES
  given,   \* events given to the line so far, by kind
  waiting, \* events accepted and not yet sent or lost
  sent     \* events sent, in order

vars == <<given, waiting, sent>>

Init ==
  /\ given = [k \in Kind |-> 0]
  /\ waiting = [k \in Kind |-> <<>>]
  /\ sent = [k \in Kind |-> <<>>]

Give(k) == given' = [given EXCEPT ![k] = @ + 1]

Accept(k) ==
  /\ Give(k)
  /\ waiting' = [waiting EXCEPT ![k] = Append(@, given[k] + 1)]
  /\ UNCHANGED sent

Refuse(k) == Give(k) /\ UNCHANGED <<waiting, sent>>

Send(k) ==
  /\ waiting[k] # <<>>
  /\ waiting' = [waiting EXCEPT ![k] = Tail(@)]
  /\ sent' = [sent EXCEPT ![k] = Append(@, Head(waiting[k]))]
  /\ UNCHANGED given

Lose(k) ==
  /\ waiting[k] # <<>>
  /\ waiting' = [waiting EXCEPT ![k] = Tail(@)]
  /\ UNCHANGED <<given, sent>>

Next == \E k \in Kind : Accept(k) \/ Refuse(k) \/ Send(k) \/ Lose(k)

Spec == Init /\ [][Next]_vars
-----------------------------------------------------------------------------
TypeOK ==
  /\ given \in [Kind -> Nat]
  /\ waiting \in [Kind -> Seq(Nat)]
  /\ sent \in [Kind -> Seq(Nat)]

Increasing(s) == \A i, j \in 1..Len(s) : i < j => s[i] < s[j]

(* Nothing is sent twice and nothing overtakes: the numbers sent only grow. *)
SentInOrder == \A k \in Kind : Increasing(sent[k])

(* The reason: sent and waiting, together, are in order and already given. *)
LineInOrder ==
  \A k \in Kind :
    /\ Increasing(sent[k]) /\ Increasing(waiting[k])
    /\ \A i \in 1..Len(sent[k]), j \in 1..Len(waiting[k]) : sent[k][i] < waiting[k][j]
    /\ \A i \in 1..Len(sent[k]) : sent[k][i] <= given[k]
    /\ \A j \in 1..Len(waiting[k]) : waiting[k][j] <= given[k]
=============================================================================
