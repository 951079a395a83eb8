--------------------------- MODULE OutboxDelivery ---------------------------
(***************************************************************************)
(* What the transaction outbox promises to whoever stores an event in it,  *)
(* without workers, claims or leases: an event stays open until it is      *)
(* published, dead-lettered or cancelled; it is published only after it    *)
(* has been handed to the transport since it was last opened; only a       *)
(* replay opens it again, and never one that was cancelled.                *)
(***************************************************************************)
CONSTANT Events

VARIABLES
  state,   \* what has become of each event
  sent     \* whether it was delivered since it was last opened

vars == <<state, sent>>

State == {"absent", "open", "published", "dead", "cancelled"}

TypeOK ==
  /\ state \in [Events -> State]
  /\ sent \in [Events -> BOOLEAN]

Init ==
  /\ state = [e \in Events |-> "absent"]
  /\ sent = [e \in Events |-> FALSE]

Move(e, from, to) ==
  /\ state[e] \in from
  /\ state' = [state EXCEPT ![e] = to]

Store(e) == Move(e, {"absent"}, "open") /\ UNCHANGED sent

\* A delivery may come late, when the event is settled already.
Deliver(e) ==
  /\ state[e] # "absent"
  /\ sent' = [sent EXCEPT ![e] = TRUE]
  /\ UNCHANGED state

Publish(e) ==
  /\ sent[e]
  /\ Move(e, {"open"}, "published")
  /\ UNCHANGED sent

Bury(e) == Move(e, {"open"}, "dead") /\ UNCHANGED sent

Cancel(e) == Move(e, {"open"}, "cancelled") /\ UNCHANGED sent

Reopen(e) ==
  /\ Move(e, {"open", "published", "dead"}, "open")
  /\ sent' = [sent EXCEPT ![e] = FALSE]

Next ==
  \E e \in Events :
    Store(e) \/ Deliver(e) \/ Publish(e) \/ Bury(e) \/ Cancel(e) \/ Reopen(e)

Spec == Init /\ [][Next]_vars

=============================================================================
