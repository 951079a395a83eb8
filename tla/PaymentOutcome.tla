--------------------------- MODULE PaymentOutcome ---------------------------
(***************************************************************************)
(* What an idempotency key promises to those who use it, without versions, *)
(* leases or concurrent requests: a key is opened once; it is closed with  *)
(* a result, a failure or an unknown outcome; a key that was closed is     *)
(* never open again; the result of a completed key does not change; and no *)
(* result is recorded while the outcome is unknown.                        *)
(***************************************************************************)
CONSTANTS
  Keys,      \* idempotency keys
  Results,   \* what a completed operation may return
  NoResult   \* no result: not an element of Results

VARIABLES
  state,     \* what has become of the operation under each key
  result     \* the result it was completed with

vars == <<state, result>>

State == {"absent", "open", "released", "failed", "unknown", "completed"}

TypeOK ==
  /\ state \in [Keys -> State]
  /\ result \in [Keys -> Results \cup {NoResult}]

Init ==
  /\ state = [k \in Keys |-> "absent"]
  /\ result = [k \in Keys |-> NoResult]

Move(k, from, to) ==
  /\ state[k] \in from
  /\ state' = [state EXCEPT ![k] = to]

\* A reservation, or the restart of one that was released.
Open(k) == Move(k, {"absent", "released"}, "open") /\ UNCHANGED result

Release(k) == Move(k, {"open"}, "released") /\ UNCHANGED result

Fail(k) ==
  /\ Move(k, {"open", "released", "failed", "unknown"}, "failed")
  /\ UNCHANGED result

MarkUnknown(k) ==
  /\ Move(k, {"open", "released", "failed", "unknown"}, "unknown")
  /\ UNCHANGED result

Complete(k) ==
  /\ Move(k, {"open", "failed"}, "completed")
  /\ \E r \in Results : result' = [result EXCEPT ![k] = r]

Next ==
  \E k \in Keys :
    Open(k) \/ Release(k) \/ Fail(k) \/ MarkUnknown(k) \/ Complete(k)

Spec == Init /\ [][Next]_vars

=============================================================================
