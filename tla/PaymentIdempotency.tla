------------------------- MODULE PaymentIdempotency -------------------------
(***************************************************************************)
(* The payment idempotency boundary:                                       *)
(* backend/modules/payment/paymentIdempotencyService.js over its           *)
(* repository, and the way its callers (goldenMoneyPathService.js,         *)
(* workflows/paymentSettlementWorkflow.js) use it.                         *)
(*                                                                         *)
(* A record per key is inserted if absent and then changed only by a       *)
(* compare-and-swap on its version.  An operation reads the record (by     *)
(* operationId or identity), or takes the object an earlier call returned, *)
(* decides, and writes: everything between the read and the write          *)
(* interleaves.  A client is one request or worker: it reserves or begins  *)
(* an operation, runs it (the payment is sent, the entry posted) and       *)
(* closes it.                                                              *)
(*                                                                         *)
(* Abstractions.  Keys are identities (tenant, operation type, key); a     *)
(* fingerprint is a member of Prints; the result of an operation is the    *)
(* client that completed it; provider references, payment references,      *)
(* metadata and sanitisation are left out.  A call that throws before it   *)
(* writes changes nothing and is no action.  EXPIRED is written by no      *)
(* operation, and is left out with the branches that look at it.  Clients  *)
(* are callers that look at the answer of reserve; the reservation of a    *)
(* financial posting (goldenMoneyPathService.js:2563) reads a field that   *)
(* reserve does not return, and is left out.                               *)
(***************************************************************************)
EXTENDS Integers, FiniteSets

CONSTANTS
  Clients,    \* requests and workers that call the service
  Keys,       \* idempotency identities
  Prints,     \* request fingerprints
  NoClient,   \* no result: not an element of Clients
  NoPrint,    \* no fingerprint: not an element of Prints
  NoKey,      \* no identity: not an element of Keys
  LeaseTime,  \* processingLeaseMs
  MaxNow,     \* bound: the latest time
  MaxCalls    \* bound: calls of the service in a behaviour

ASSUME PaymentIdempotencyAssumption ==
  /\ NoClient \notin Clients
  /\ NoPrint \notin Prints
  /\ NoKey \notin Keys
  /\ LeaseTime \in Nat \ {0}
  /\ MaxNow \in Nat
  /\ MaxCalls \in Nat

VARIABLES
  store,      \* the repository: the record under each key
  now,        \* the clock
  call,       \* the call each client is in, between its read and its write
  hold,       \* the operation each client was told to carry out
  told,       \* history: the completed results that were returned
  ran,        \* history: how often the operation of each key was carried out
  calls       \* calls made so far

vars == <<store, now, call, hold, told, ran, calls>>

-----------------------------------------------------------------------------

STATUS == {"RESERVED", "PROCESSING", "COMPLETED", "FAILED", "UNKNOWN",
           "RELEASED"}

NoLease == -1

Record ==
  [status: STATUS \cup {"ABSENT"}, version: Nat, print: Prints \cup {NoPrint},
   created: Nat, lease: Nat \cup {NoLease}, result: Clients \cup {NoClient}]

NoRecord == [status |-> "ABSENT", version |-> 0, print |-> NoPrint,
             created |-> 0, lease |-> NoLease, result |-> NoClient]

\* The writes: what a call may do to the record it has read.
Writes == {"insert", "begin", "complete", "fail", "unknown", "release",
           "reconcile"}

(* write: the write the call is about to make; rec: the record it has read  *)
(* (for an insert, the one it has built); until: the lease it would take.   *)
Call == [write: Writes \cup {"none"}, key: Keys \cup {NoKey}, rec: Record,
         until: Nat]

NoCall == [write |-> "none", key |-> NoKey, rec |-> NoRecord, until |-> 0]

(* rec: the object the service returned; may: the operation is still to be  *)
(* run; ran: it was.                                                        *)
Hold == [key: Keys \cup {NoKey}, rec: Record, may: BOOLEAN, ran: BOOLEAN]

NoHold == [key |-> NoKey, rec |-> NoRecord, may |-> FALSE, ran |-> FALSE]

Answer == [key: Keys, print: Prints, result: Clients]

Open(r) == r.status \in {"RESERVED", "PROCESSING"}

\* A stored record has a result once it is completed, and a lease while it is
\* open.
WellFormed(r) ==
  /\ r.status = "COMPLETED" <=> r.result # NoClient
  /\ Open(r) <=> r.lease # NoLease

\* Every variable has its type, and every stored record is well formed.
TypeOK ==
  /\ store \in [Keys -> Record]
  /\ \A k \in Keys : WellFormed(store[k])
  /\ now \in Nat
  /\ call \in [Clients -> Call]
  /\ hold \in [Clients -> Hold]
  /\ told \subseteq Answer
  /\ ran \in [Keys -> Nat]
  /\ calls \in Nat

Init ==
  /\ store = [k \in Keys |-> NoRecord]
  /\ now = 0
  /\ call = [c \in Clients |-> NoCall]
  /\ hold = [c \in Clients |-> NoHold]
  /\ told = {}
  /\ ran = [k \in Keys |-> 0]
  /\ calls = 0

-----------------------------------------------------------------------------
(* What an operation finds in a record                                     *)

\* _isLeaseExpired: a record without a lease is not expired.
Lapsed(r) == r.lease # NoLease /\ r.lease <= now

\* What reserve hands out again, and begin takes over.
Stalled(r) == Open(r) /\ Lapsed(r)

\* Mutant of Completable: an unknown outcome is completed without recovery.
Completable_Unknown(r) == Open(r) \/ r.status \in {"FAILED", "UNKNOWN"}

Completable(r) == Open(r) \/ r.status = "FAILED"

\* complete, fail, markUnknown and begin return a completed record as it is.
Replays(k, r) ==
  /\ r.status = "COMPLETED"
  /\ told' = told \cup {[key |-> k, print |-> r.print, result |-> r.result]}

\* A call starts with a read, and goes on to a write.
Counted == calls < MaxCalls /\ calls' = calls + 1

Idle(c) == call[c].write = "none"

Holds(c) == hold[c].key # NoKey

Write(c, k, r, write) ==
  call' = [call EXCEPT ![c] = [write |-> write, key |-> k, rec |-> r,
                               until |-> now + LeaseTime]]

\* The object that is passed, or what its operationId finds.
Passed(c) == {hold[c].rec, store[hold[c].key]}

Drop(c) == hold' = [hold EXCEPT ![c] = NoHold]

Grant(c, k, r) ==
  hold' = [hold EXCEPT ![c] = [key |-> k, rec |-> r, may |-> TRUE,
                               ran |-> FALSE]]

-----------------------------------------------------------------------------
(* reserve                                                                 *)

NewRecord(p) ==
  [status |-> "RESERVED", version |-> 0, print |-> p, created |-> now,
   lease |-> now + LeaseTime, result |-> NoClient]

\* Mutant of Resolve: the fingerprints are not compared.
Resolve_AnyPrint(c, k, r, p) ==
  /\ IF Stalled(r) THEN Grant(c, k, r) ELSE UNCHANGED hold
  /\ told' = IF r.status = "COMPLETED"
             THEN told \cup {[key |-> k, print |-> p, result |-> r.result]}
             ELSE told

\* _assertFingerprintCompatibility and _resolveExistingReservation: a request
\* for the same payload gets a completed result, or a reservation whose lease
\* is over (which stays as it is: several requests may get it); any other
\* request gets an error.
Resolve(c, k, r, p) ==
  /\ IF r.print = p /\ Stalled(r) THEN Grant(c, k, r) ELSE UNCHANGED hold
  /\ told' = IF r.print = p /\ r.status = "COMPLETED"
             THEN told \cup {[key |-> k, print |-> p, result |-> r.result]}
             ELSE told

\* findByIdentity: a record that exists is resolved; otherwise one is built.
Reserve(c, k, p) ==
  /\ Idle(c) /\ ~Holds(c)
  /\ Counted
  /\ IF store[k].status = "ABSENT"
     THEN /\ Write(c, k, NewRecord(p), "insert")
          /\ UNCHANGED <<hold, told>>
     ELSE Resolve(c, k, store[k], p) /\ UNCHANGED call
  /\ UNCHANGED <<store, now, ran>>

\* Mutant of Insert: what is there is overwritten.
Insert_Overwrites(c) ==
  /\ call[c].write = "insert"
  /\ call' = [call EXCEPT ![c] = NoCall]
  /\ store' = [store EXCEPT ![call[c].key] = call[c].rec]
  /\ Grant(c, call[c].key, call[c].rec) \/ UNCHANGED hold
  /\ UNCHANGED <<told, now, ran, calls>>

\* repository.reserve inserts if absent; whoever comes second gets the record
\* of the winner.  The audit of a new reservation may fail: the record is
\* there, and nobody holds it.
Insert(c) ==
  LET k == call[c].key
      r == call[c].rec
  IN /\ call[c].write = "insert"
     /\ call' = [call EXCEPT ![c] = NoCall]
     /\ IF store[k].status = "ABSENT"
        THEN /\ store' = [store EXCEPT ![k] = r]
             /\ Grant(c, k, r) \/ UNCHANGED hold
             /\ UNCHANGED told
        ELSE Resolve(c, k, store[k], r.print) /\ UNCHANGED store
     /\ UNCHANGED <<now, ran, calls>>

-----------------------------------------------------------------------------
(* begin                                                                   *)

\* A stalled operation is taken over, a released one is started again; a
\* completed one is replayed; everything else is refused.
Beginning(c, k, r) ==
  /\ \/ /\ Stalled(r) \/ r.status = "RELEASED"
        /\ Write(c, k, r, "begin")
        /\ UNCHANGED <<hold, told>>
     \/ Replays(k, r) /\ Drop(c) /\ UNCHANGED call
  /\ UNCHANGED <<store, now, ran>>

\* By operationId or identity, or with the reservation that was returned.
Begin(c, k) ==
  /\ Idle(c)
  /\ Counted
  /\ \/ ~Holds(c) /\ Beginning(c, k, store[k])
     \/ /\ hold[c].key = k /\ hold[c].may
        /\ \E r \in Passed(c) : Beginning(c, k, r)

-----------------------------------------------------------------------------
(* Closing an operation                                                    *)

\* The client goes on to a write, or has the completed result replayed to it.
\* Once it has asked for the end of the operation it no longer runs it.
Closing(c, r, write) ==
  /\ Counted
  /\ \/ /\ r.status # "COMPLETED"
        /\ Write(c, hold[c].key, r, write)
        /\ hold' = [hold EXCEPT ![c].may = FALSE]
        /\ UNCHANGED told
     \/ Replays(hold[c].key, r) /\ Drop(c) /\ UNCHANGED call
  /\ UNCHANGED <<store, now, ran>>

\* complete refuses UNKNOWN and RELEASED.
Complete(c) ==
  /\ Idle(c) /\ hold[c].ran
  /\ \E r \in Passed(c) :
       /\ Completable(r) \/ r.status = "COMPLETED"
       /\ Closing(c, r, "complete")

\* fail and markUnknown refuse nothing.
Fail(c) ==
  /\ Idle(c) /\ Holds(c)
  /\ \E r \in Passed(c) : Closing(c, r, "fail")

MarkUnknown(c) ==
  /\ Idle(c) /\ hold[c].ran
  /\ \E r \in Passed(c) : Closing(c, r, "unknown")

\* release takes open records only; the caller says whether the operation was
\* started (externalSideEffectStarted).
Release(c) ==
  /\ Idle(c) /\ Holds(c)
  /\ \E r \in Passed(c) :
       /\ Open(r)
       /\ Closing(c, r, IF hold[c].ran THEN "unknown" ELSE "release")

\* recover looks at UNKNOWN records only.  A failure is recorded; continued
\* reconciliation keeps UNKNOWN; a success is handed to complete with the
\* record as it is, UNKNOWN, which complete refuses.
Recover(c, k) ==
  /\ Idle(c) /\ ~Holds(c)
  /\ Counted
  /\ \/ /\ store[k].status = "UNKNOWN"
        /\ \E write \in {"fail", "reconcile"} : Write(c, k, store[k], write)
        /\ UNCHANGED told
     \/ Replays(k, store[k]) /\ UNCHANGED call
  /\ UNCHANGED <<store, now, hold, ran>>

-----------------------------------------------------------------------------
(* The write                                                               *)

\* Mutant of Patched: a released record keeps its lease.
Patched_Release(c, r) ==
  CASE call[c].write = "begin" ->
         [r EXCEPT !.status = "PROCESSING", !.lease = call[c].until]
    [] call[c].write = "complete" ->
         [r EXCEPT !.status = "COMPLETED", !.lease = NoLease, !.result = c]
    [] call[c].write = "fail" ->
         [r EXCEPT !.status = "FAILED", !.lease = NoLease, !.result = NoClient]
    [] call[c].write = "unknown" ->
         [r EXCEPT !.status = "UNKNOWN", !.lease = NoLease, !.result = NoClient]
    [] call[c].write = "release" -> [r EXCEPT !.status = "RELEASED"]
    [] OTHER -> [r EXCEPT !.status = "UNKNOWN"]

\* The patch of each write.
Patched(c, r) ==
  CASE call[c].write = "begin" ->
         [r EXCEPT !.status = "PROCESSING", !.lease = call[c].until]
    [] call[c].write = "complete" ->
         [r EXCEPT !.status = "COMPLETED", !.lease = NoLease, !.result = c]
    [] call[c].write = "fail" ->
         [r EXCEPT !.status = "FAILED", !.lease = NoLease, !.result = NoClient]
    [] call[c].write = "unknown" ->
         [r EXCEPT !.status = "UNKNOWN", !.lease = NoLease, !.result = NoClient]
    [] call[c].write = "release" ->
         [r EXCEPT !.status = "RELEASED", !.lease = NoLease]
    [] OTHER ->
         [r EXCEPT !.status = "UNKNOWN"]

\* What the caller makes of an answer: it has begun; it has its result; it is
\* done.  A processing result carries no lease.
Answered(c, r) ==
  LET k == call[c].key IN
  CASE call[c].write = "begin" ->
         Grant(c, k, [r EXCEPT !.lease = NoLease]) /\ UNCHANGED told
    [] call[c].write = "complete" ->
         /\ told' = told \cup {[key |-> k, print |-> r.print, result |-> c]}
         /\ Drop(c)
    [] OTHER -> Drop(c) /\ UNCHANGED told

\* ... and of an error: after complete the operation is still to be closed;
\* after any other write the client gives up.
Refused(c) ==
  /\ IF call[c].write = "complete" THEN UNCHANGED hold ELSE Drop(c)
  /\ UNCHANGED told

\* Mutants of Update: the version is not compared; it is not incremented.
Update_AnyVersion(c) ==
  LET k == call[c].key
      r == [Patched(c, store[k]) EXCEPT !.version = @ + 1]
  IN /\ call[c].write \notin {"none", "insert"}
     /\ call' = [call EXCEPT ![c] = NoCall]
     /\ store' = [store EXCEPT ![k] = r]
     /\ Answered(c, r) \/ Refused(c)
     /\ UNCHANGED <<now, ran, calls>>
Update_SameVersion(c) ==
  LET k == call[c].key
      r == Patched(c, store[k])
  IN /\ call[c].write \notin {"none", "insert"}
     /\ call' = [call EXCEPT ![c] = NoCall]
     /\ IF store[k].version = call[c].rec.version
        THEN store' = [store EXCEPT ![k] = r] /\ (Answered(c, r) \/ Refused(c))
        ELSE Refused(c) /\ UNCHANGED store
     /\ UNCHANGED <<now, ran, calls>>

\* repository.update compares the version with the one that was read.  The
\* update may take effect and the call end in an error all the same: the
\* audit that follows it fails, or the answer of the storage is lost.
Update(c) ==
  LET k == call[c].key
      r == [Patched(c, store[k]) EXCEPT !.version = @ + 1]
  IN /\ call[c].write \notin {"none", "insert"}
     /\ call' = [call EXCEPT ![c] = NoCall]
     /\ IF store[k].version = call[c].rec.version
        THEN store' = [store EXCEPT ![k] = r] /\ (Answered(c, r) \/ Refused(c))
        ELSE Refused(c) /\ UNCHANGED store
     /\ UNCHANGED <<now, ran, calls>>

-----------------------------------------------------------------------------
(* Callers, failures and time                                              *)

\* A caller whose reservation is not a completed one carries the operation
\* out.
Run(c) ==
  /\ Idle(c) /\ hold[c].may
  /\ hold' = [hold EXCEPT ![c].may = FALSE, ![c].ran = TRUE]
  /\ ran' = [ran EXCEPT ![hold[c].key] = @ + 1]
  /\ UNCHANGED <<store, now, call, told, calls>>

\* The process of a client dies.
Crash(c) ==
  /\ ~Idle(c) \/ Holds(c)
  /\ call' = [call EXCEPT ![c] = NoCall]
  /\ Drop(c)
  /\ UNCHANGED <<store, now, told, ran, calls>>

Tick ==
  /\ now < MaxNow
  /\ now' = now + 1
  /\ UNCHANGED <<store, call, hold, told, ran, calls>>

Step(c) ==
  \/ \E k \in Keys, p \in Prints : Reserve(c, k, p)
  \/ \E k \in Keys : Begin(c, k) \/ Recover(c, k)
  \/ Complete(c) \/ Fail(c) \/ MarkUnknown(c) \/ Release(c)
  \/ Insert(c) \/ Update(c)
  \/ Run(c) \/ Crash(c)

Next == Tick \/ \E c \in Clients : Step(c)

Spec == Init /\ [][Next]_vars

-----------------------------------------------------------------------------
(* What the component promises.                                            *)

\* Whoever is answered with a completed result gets the one that is recorded,
\* for ever, and had asked for the payload it was recorded for: first and
\* repeated requests, losers of a race for the key, late completions.
ToldIsRecorded ==
  \A a \in told :
    /\ store[a.key].status = "COMPLETED"
    /\ store[a.key].result = a.result
    /\ store[a.key].print = a.print

\* Until the lease of the first reservation is over the operation of a key is
\* carried out at most once, with any number of requests at the same time, with
\* releases and restarts, failures and crashes.
OneRunPerLease ==
  \A k \in Keys :
    (store[k].status # "ABSENT" /\ now < store[k].created + LeaseTime)
      => ran[k] <= 1

\* What a call or a client has read of a record is what the record is, unless
\* its version has changed: no write is based on a record that is gone.
VersionIdentifies ==
  \A c \in Clients :
    /\ (~Idle(c) /\ call[c].write # "insert"
        /\ call[c].rec.version = store[call[c].key].version)
         => call[c].rec.status = store[call[c].key].status
    /\ (Holds(c) /\ hold[c].rec.version = store[hold[c].key].version)
         => hold[c].rec.status = store[hold[c].key].status

\* An open operation whose lease is live is not taken over, however old the
\* record was that the takeover has read.
LeaseRespected ==
  [][\A k \in Keys :
       (/\ Open(store[k]) /\ Open(store'[k])
        /\ store'[k].version # store[k].version) => Lapsed(store[k])]_vars

\* The component implements what it promises.
State(r) ==
  CASE r.status = "ABSENT" -> "absent"
    [] Open(r) -> "open"
    [] r.status = "RELEASED" -> "released"
    [] r.status = "FAILED" -> "failed"
    [] r.status = "UNKNOWN" -> "unknown"
    [] r.status = "COMPLETED" -> "completed"

Outcome == INSTANCE PaymentOutcome WITH
  Results <- Clients,
  NoResult <- NoClient,
  state <- [k \in Keys |-> State(store[k])],
  result <- [k \in Keys |-> store[k].result]

\* Seen through State, every step is a step of PaymentOutcome.
ImplementsOutcome == Outcome!Spec

=============================================================================
