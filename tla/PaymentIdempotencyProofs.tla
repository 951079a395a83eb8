---------------------- MODULE PaymentIdempotencyProofs ----------------------
(***************************************************************************)
(* Proofs about PaymentIdempotency, for any clients, keys, fingerprints,   *)
(* lease time and bounds.                                                  *)
(*                                                                         *)
(* The inductive invariant IInv says three things.  What a call or a       *)
(* client has read is a copy of the record or out of date (Copy), so that  *)
(* a write that passes the comparison of versions is made on the record it *)
(* was decided on.  An open record has a lease that ends no earlier than   *)
(* the first one (StoreInv).  And until the first lease ends, a key has    *)
(* one holder, who knows whether the operation was run, and none once it   *)
(* is released (RunInv).                                                   *)
(***************************************************************************)
EXTENDS PaymentIdempotency, TLAPS

\* r is what is stored under k, except that it may lack the lease, or is older.
Copy(k, r) ==
  /\ store[k].status # "ABSENT"
  /\ r.version <= store[k].version
  /\ r.version = store[k].version
       => /\ r.status = store[k].status
          /\ r.lease \in {NoLease, store[k].lease}

\* What a record must be for a write to be decided on.
Fits(write, r) ==
  /\ r.status \notin {"ABSENT", "COMPLETED"}
  /\ write = "begin" => r.status = "RELEASED" \/ Stalled(r)
  /\ write = "complete" => Completable(r)
  /\ write = "release" => Open(r)
  /\ write = "reconcile" => r.status = "UNKNOWN"

CallInv(c) ==
  LET k == call[c].key
      r == call[c].rec
  IN /\ call[c].write = "insert" =>
          /\ k \in Keys
          /\ r.print \in Prints
          /\ r.status = "RESERVED" /\ r.result = NoClient /\ r.created <= now
          /\ r.lease = r.created + LeaseTime
     /\ call[c].write \notin {"none", "insert"} =>
          /\ k \in Keys
          /\ Copy(k, r)
          /\ Fits(call[c].write, r)
          /\ store[k].created + LeaseTime <= call[c].until
     /\ call[c].write = "release" => hold[c].key = k /\ ~hold[c].ran

HoldInv(c) ==
  /\ hold[c].may => Holds(c) /\ ~hold[c].ran
  /\ hold[c].ran => Holds(c)
  /\ Holds(c) => Copy(hold[c].key, hold[c].rec) /\ Open(hold[c].rec)

StoreInv(k) ==
  /\ store[k].created <= now
  /\ store[k].status = "ABSENT" => ran[k] = 0
  /\ store[k].status # "ABSENT" => store[k].print \in Prints
  /\ Open(store[k]) => store[k].created + LeaseTime <= store[k].lease

\* The lease of the first reservation is not over.
FirstLease(k) ==
  store[k].status # "ABSENT" /\ now < store[k].created + LeaseTime

RunInv(k) ==
  FirstLease(k) =>
    /\ ran[k] <= 1
    /\ \A c \in Clients : hold[c].key = k /\ ran[k] = 1 => hold[c].ran
    /\ \A c, d \in Clients : hold[c].key = k /\ hold[d].key = k => c = d
    /\ store[k].status = "RELEASED" =>
         ran[k] = 0 /\ \A c \in Clients : hold[c].key # k

IInv ==
  /\ TypeOK
  /\ ToldIsRecorded
  /\ \A c \in Clients : CallInv(c) /\ HoldInv(c)
  /\ \A k \in Keys : StoreInv(k) /\ RunInv(k)

\* An answer that gives what is recorded.
Recorded(a) ==
  /\ store[a.key].status = "COMPLETED"
  /\ store[a.key].result = a.result
  /\ store[a.key].print = a.print

-----------------------------------------------------------------------------
(* Types                                                                   *)

LEMMA Typed ==
  ASSUME TypeOK, NEW c \in Clients
  PROVE  /\ call[c] \in Call /\ hold[c] \in Hold
         /\ call[c].rec \in Record /\ hold[c].rec \in Record
         /\ \A k \in Keys : store[k] \in Record /\ WellFormed(store[k])
<1>1. call[c] \in Call /\ hold[c] \in Hold
  BY DEF TypeOK
<1>2. call[c].rec \in Record
  BY <1>1 DEF Call
<1>3. hold[c].rec \in Record
  BY <1>1 DEF Hold
<1> QED
  BY <1>1, <1>2, <1>3 DEF TypeOK

LEMMA NullsTyped == NoRecord \in Record /\ NoCall \in Call /\ NoHold \in Hold
<1>1. NoRecord \in Record
  BY DEF NoRecord, Record, STATUS
<1> QED
  BY <1>1 DEF NoCall, Call, NoHold, Hold

LEMMA WriteTyped ==
  ASSUME TypeOK, NEW c \in Clients, NEW k \in Keys, NEW r \in Record,
         NEW w \in Writes, Write(c, k, r, w)
  PROVE  /\ call' \in [Clients -> Call]
         /\ call'[c] = [write |-> w, key |-> k, rec |-> r,
                        until |-> now + LeaseTime]
         /\ \A d \in Clients \ {c} : call'[d] = call[d]
<1>1. [write |-> w, key |-> k, rec |-> r, until |-> now + LeaseTime] \in Call
  BY PaymentIdempotencyAssumption DEF TypeOK, Call
<1> QED
  BY <1>1 DEF Write, TypeOK

LEMMA GrantTyped ==
  ASSUME TypeOK, NEW c \in Clients, NEW k \in Keys, NEW r \in Record,
         Grant(c, k, r)
  PROVE  /\ hold' \in [Clients -> Hold]
         /\ hold'[c] = [key |-> k, rec |-> r, may |-> TRUE, ran |-> FALSE]
         /\ \A d \in Clients \ {c} : hold'[d] = hold[d]
<1>1. [key |-> k, rec |-> r, may |-> TRUE, ran |-> FALSE] \in Hold
  BY DEF Hold
<1> QED
  BY <1>1 DEF Grant, TypeOK

LEMMA DropTyped ==
  ASSUME TypeOK, NEW c \in Clients, Drop(c)
  PROVE  /\ hold' \in [Clients -> Hold]
         /\ hold'[c] = NoHold
         /\ \A d \in Clients \ {c} : hold'[d] = hold[d]
BY NullsTyped DEF Drop, TypeOK

\* A call that ends, or a process that dies, leaves nothing behind.
LEMMA DoneTyped ==
  ASSUME TypeOK, NEW c \in Clients, call' = [call EXCEPT ![c] = NoCall]
  PROVE  /\ call' \in [Clients -> Call]
         /\ call'[c] = NoCall
         /\ \A d \in Clients \ {c} : call'[d] = call[d]
BY NullsTyped DEF TypeOK

-----------------------------------------------------------------------------
(* Steps that leave the records alone                                      *)

\* A step of c that changes neither records, clock nor runs preserves the
\* invariant, if what it has read and answers is right, and if it is given
\* nothing to run while the first lease lasts.
LEMMA ReadStep ==
  ASSUME IInv, NEW c \in Clients,
         UNCHANGED <<store, now, ran>>, calls' \in Nat,
         call' \in [Clients -> Call], hold' \in [Clients -> Hold],
         \A d \in Clients \ {c} : call'[d] = call[d] /\ hold'[d] = hold[d],
         \A a \in told' : a \in told \/ (a \in Answer /\ Recorded(a)),
         CallInv(c)', HoldInv(c)',
         \/ hold'[c].key = NoKey
         \/ hold'[c].key = hold[c].key /\ hold'[c].ran = hold[c].ran
         \/ ~FirstLease(hold'[c].key)
  PROVE  IInv'
<1>1. TypeOK'
  BY DEF IInv, TypeOK
<1>2. ToldIsRecorded'
  BY DEF IInv, ToldIsRecorded, Recorded
<1>3. ASSUME NEW d \in Clients PROVE (CallInv(d) /\ HoldInv(d))'
  <2>1. CASE d = c
    BY <2>1
  <2>2. CASE d # c
    <3>1. call'[d] = call[d] /\ hold'[d] = hold[d] /\ CallInv(d) /\ HoldInv(d)
      BY <2>2 DEF IInv
    <3>2. CallInv(d)'
      BY <3>1 DEF CallInv, Copy, Fits, Stalled, Lapsed, Open, Completable
    <3>3. HoldInv(d)'
      BY <3>1 DEF HoldInv, Holds, Copy
    <3> QED
      BY <3>2, <3>3
  <2> QED
    BY <2>1, <2>2
<1>4. ASSUME NEW k \in Keys PROVE (StoreInv(k) /\ RunInv(k))'
  <2>1. StoreInv(k) /\ RunInv(k)
    BY DEF IInv
  <2>2. StoreInv(k)'
    BY <2>1 DEF StoreInv
  <2>3. ASSUME FirstLease(k), NEW d \in Clients, hold'[d].key = k
        PROVE  hold[d].key = k /\ hold'[d].ran = hold[d].ran
    BY <2>3, PaymentIdempotencyAssumption
  <2>4. FirstLease(k)' = FirstLease(k)
    BY DEF FirstLease
  <2>5. RunInv(k)'
    BY <2>1, <2>3, <2>4 DEF RunInv
  <2> QED
    BY <2>2, <2>5
<1> QED
  BY <1>1, <1>2, <1>3, <1>4 DEF IInv

\* What is stored, at its own version, is a copy of itself.
LEMMA StoredIsCopy ==
  ASSUME IInv, NEW k \in Keys, store[k].status # "ABSENT"
  PROVE  /\ Copy(k, store[k])
         /\ store[k].created + LeaseTime <= now + LeaseTime
         /\ Stalled(store[k]) => ~FirstLease(k)
<1>1. store[k] \in Record /\ now \in Nat /\ StoreInv(k)
  BY DEF IInv, TypeOK
<1>2. store[k].version \in Nat /\ store[k].created \in Nat
      /\ store[k].lease \in Nat \cup {NoLease}
  BY <1>1 DEF Record
<1>3. Copy(k, store[k])
  BY <1>2 DEF Copy
<1>4. store[k].created + LeaseTime <= now + LeaseTime
  BY <1>1, <1>2, PaymentIdempotencyAssumption DEF StoreInv
<1>5. ASSUME Stalled(store[k]) PROVE ~FirstLease(k)
  BY <1>1, <1>2, <1>5, PaymentIdempotencyAssumption
  DEF Stalled, Lapsed, StoreInv, FirstLease, NoLease
<1> QED
  BY <1>3, <1>4, <1>5

\* A completed record is replayed as it is.
LEMMA ReplayRecorded ==
  ASSUME IInv, NEW k \in Keys, store[k].status = "COMPLETED"
  PROVE  LET a == [key |-> k, print |-> store[k].print,
                   result |-> store[k].result]
         IN a \in Answer /\ Recorded(a)
<1>1. store[k] \in Record /\ WellFormed(store[k]) /\ StoreInv(k)
  BY DEF IInv, TypeOK
<1>2. store[k].result \in Clients /\ store[k].print \in Prints
  BY <1>1 DEF Record, WellFormed, StoreInv
<1> QED
  BY <1>2 DEF Answer, Recorded

LEMMA ReplayStep ==
  ASSUME IInv, NEW c \in Clients, NEW k \in Keys, Replays(k, store[k]),
         Idle(c), UNCHANGED <<store, now, ran, call>>, calls' \in Nat,
         UNCHANGED hold \/ Drop(c)
  PROVE  IInv'
<1>1. TypeOK /\ CallInv(c) /\ HoldInv(c)
  BY DEF IInv
<1>2. /\ call' \in [Clients -> Call] /\ hold' \in [Clients -> Hold]
      /\ call'[c] = call[c] /\ hold'[c] \in {hold[c], NoHold}
      /\ \A d \in Clients \ {c} : call'[d] = call[d] /\ hold'[d] = hold[d]
  BY <1>1, DropTyped DEF TypeOK
<1>3. \A a \in told' : a \in told \/ (a \in Answer /\ Recorded(a))
  BY ReplayRecorded DEF Replays
<1>4. CallInv(c)'
  BY <1>2 DEF Idle, CallInv
<1>5. CASE hold'[c] = NoHold
  <2>1. HoldInv(c)' /\ hold'[c].key = NoKey
    BY <1>5 DEF HoldInv, Holds, NoHold
  <2> QED
    BY <1>2, <1>3, <1>4, <2>1, ReadStep
<1>6. CASE hold'[c] = hold[c]
  <2>1. HoldInv(c)'
    BY <1>1, <1>6 DEF HoldInv, Holds, Copy
  <2> QED
    BY <1>2, <1>3, <1>4, <1>6, <2>1, ReadStep
<1> QED
  BY <1>2, <1>5, <1>6

\* A request that finds a record gives an answer, or an operation to run whose
\* lease is over.
LEMMA ResolveStep ==
  ASSUME IInv, NEW c \in Clients, NEW k \in Keys, NEW p \in Prints,
         store[k].status # "ABSENT", Resolve(c, k, store[k], p),
         UNCHANGED <<store, now, ran>>, calls' \in Nat,
         call' \in [Clients -> Call], call'[c].write = "none",
         \A d \in Clients \ {c} : call'[d] = call[d]
  PROVE  IInv'
<1>1. TypeOK /\ HoldInv(c) /\ store[k] \in Record
  BY DEF IInv, TypeOK
<1>2. \A a \in told' : a \in told \/ (a \in Answer /\ Recorded(a))
  BY ReplayRecorded DEF Resolve
<1>3. CallInv(c)'
  BY DEF CallInv
<1>4. CASE Stalled(store[k]) /\ Grant(c, k, store[k])
  <2>1. hold' \in [Clients -> Hold]
        /\ hold'[c] = [key |-> k, rec |-> store[k], may |-> TRUE, ran |-> FALSE]
        /\ \A d \in Clients \ {c} : hold'[d] = hold[d]
    BY <1>1, <1>4, GrantTyped
  <2>2. HoldInv(c)'
    BY <1>4, <2>1, StoredIsCopy, PaymentIdempotencyAssumption
    DEF HoldInv, Copy, Holds, Stalled
  <2>3. ~FirstLease(hold'[c].key)
    BY <1>4, <2>1, StoredIsCopy
  <2> QED
    BY <1>2, <1>3, <2>1, <2>2, <2>3, ReadStep
<1>5. CASE UNCHANGED hold
  <2>1. HoldInv(c)'
    BY <1>1, <1>5 DEF HoldInv, Copy, Holds
  <2> QED
    BY <1>1, <1>2, <1>3, <1>5, <2>1, ReadStep DEF TypeOK
<1> QED
  BY <1>4, <1>5 DEF Resolve

LEMMA ReserveStep ==
  ASSUME IInv, NEW c \in Clients, NEW k \in Keys, NEW p \in Prints,
         Reserve(c, k, p)
  PROVE  IInv'
<1>1. TypeOK /\ HoldInv(c) /\ calls' \in Nat /\ Idle(c)
  BY DEF IInv, TypeOK, Reserve, Counted
<1>2. CASE store[k].status = "ABSENT"
  <2>1. Write(c, k, NewRecord(p), "insert") /\ UNCHANGED <<hold, told>>
        /\ UNCHANGED <<store, now, ran>>
    BY <1>2 DEF Reserve
  <2>2. NewRecord(p) \in Record
    BY <1>1, PaymentIdempotencyAssumption
    DEF NewRecord, Record, STATUS, TypeOK
  <2>3. call' \in [Clients -> Call]
        /\ call'[c] = [write |-> "insert", key |-> k, rec |-> NewRecord(p),
                       until |-> now + LeaseTime]
        /\ \A d \in Clients \ {c} : call'[d] = call[d]
    BY <1>1, <2>1, <2>2, WriteTyped DEF Writes
  <2>4. CallInv(c)'
    BY <1>1, <2>1, <2>3 DEF CallInv, NewRecord, TypeOK
  <2>5. HoldInv(c)'
    BY <1>1, <2>1 DEF HoldInv, Copy, Holds
  <2> QED
    BY <1>1, <2>1, <2>3, <2>4, <2>5, ReadStep DEF TypeOK
<1>3. CASE store[k].status # "ABSENT"
  <2>1. Resolve(c, k, store[k], p) /\ UNCHANGED <<store, now, ran, call>>
    BY <1>3 DEF Reserve
  <2> QED
    BY <1>1, <1>3, <2>1, ResolveStep DEF TypeOK, Idle
<1> QED
  BY <1>2, <1>3

\* A call that has decided on a write, and keeps what its client holds.
LEMMA DecideStep ==
  ASSUME IInv, NEW c \in Clients, NEW k \in Keys, NEW r \in Record,
         NEW w \in Writes \ {"insert"}, Write(c, k, r, w),
         Copy(k, r), Fits(w, r),
         w = "release" => hold[c].key = k /\ ~hold[c].ran,
         UNCHANGED <<store, now, ran, told>>, calls' \in Nat,
         hold' = hold \/ hold' = [hold EXCEPT ![c].may = FALSE]
  PROVE  IInv'
<1>1. TypeOK /\ HoldInv(c) /\ hold[c] \in Hold
  BY DEF IInv, TypeOK
<1>2. call' \in [Clients -> Call]
      /\ call'[c] = [write |-> w, key |-> k, rec |-> r,
                     until |-> now + LeaseTime]
      /\ \A d \in Clients \ {c} : call'[d] = call[d]
  BY <1>1, WriteTyped
<1>3. hold' \in [Clients -> Hold]
  <2>1. [hold[c] EXCEPT !.may = FALSE] \in Hold
    BY <1>1 DEF Hold
  <2> QED
    BY <1>1, <2>1 DEF TypeOK
<1>4. /\ \A d \in Clients \ {c} : hold'[d] = hold[d]
      /\ hold'[c].key = hold[c].key /\ hold'[c].rec = hold[c].rec
      /\ hold'[c].ran = hold[c].ran
      /\ hold'[c].may => hold[c].may
  BY <1>1 DEF TypeOK, Hold
<1>5. store[k].created + LeaseTime <= now + LeaseTime
  BY StoredIsCopy DEF Copy
<1>6. CallInv(c)'
  <2>1. Copy(k, r)' /\ Fits(w, r)'
    BY DEF Copy, Fits, Stalled, Lapsed, Open, Completable
  <2>2. call'[c].key = k /\ call'[c].rec = r /\ call'[c].write = w
        /\ call'[c].until = now + LeaseTime /\ w # "insert"
    BY <1>2
  <2> QED
    BY <1>4, <1>5, <2>1, <2>2 DEF CallInv
<1>7. HoldInv(c)'
  BY <1>1, <1>4 DEF HoldInv, Copy, Holds
<1> QED
  BY <1>2, <1>3, <1>4, <1>6, <1>7, ReadStep

\* What is passed to a call is the record, or an open record that was read
\* earlier.
LEMMA PassedIsCopy ==
  ASSUME IInv, NEW c \in Clients, Holds(c), NEW r \in Passed(c)
  PROVE  /\ hold[c].key \in Keys /\ r \in Record
         /\ Copy(hold[c].key, r) /\ r.status # "ABSENT"
         /\ r = store[hold[c].key] \/ Open(r)
<1>1. TypeOK /\ HoldInv(c) /\ hold[c] \in Hold
  BY DEF IInv, TypeOK
<1>2. hold[c].key \in Keys /\ hold[c].rec \in Record
  BY <1>1 DEF Holds, Hold
<1>3. store[hold[c].key] \in Record
      /\ Copy(hold[c].key, hold[c].rec) /\ Open(hold[c].rec)
  BY <1>1, <1>2 DEF HoldInv, TypeOK
<1>4. Copy(hold[c].key, store[hold[c].key])
  BY <1>2, <1>3, StoredIsCopy DEF Copy
<1> QED
  BY <1>2, <1>3, <1>4 DEF Passed, Copy, Open

LEMMA BeginStep ==
  ASSUME IInv, NEW c \in Clients, NEW k \in Keys, Begin(c, k)
  PROVE  IInv'
<1>1. TypeOK /\ calls' \in Nat /\ Idle(c)
  BY DEF IInv, TypeOK, Begin, Counted
<1>2. PICK r : /\ Beginning(c, k, r)
               /\ \/ r = store[k]
                  \/ Holds(c) /\ hold[c].key = k /\ r \in Passed(c)
  BY PaymentIdempotencyAssumption DEF Begin, Holds
<1>3. UNCHANGED <<store, now, ran>>
  BY <1>2 DEF Beginning
<1>4. r = store[k] \/ (Open(r) /\ r \in Record /\ Copy(k, r))
  BY <1>2, PassedIsCopy
<1>5. CASE Write(c, k, r, "begin") /\ UNCHANGED <<hold, told>>
           /\ (Stalled(r) \/ r.status = "RELEASED")
  <2>1. r \in Record /\ Copy(k, r)
    BY <1>1, <1>4, <1>5, StoredIsCopy DEF TypeOK, Stalled, Open
  <2>2. Fits("begin", r)
    BY <1>5 DEF Fits, Stalled, Open
  <2> QED
    BY <1>1, <1>3, <1>5, <2>1, <2>2, DecideStep DEF Writes
<1>6. CASE Replays(k, r) /\ Drop(c) /\ UNCHANGED call
  <2>1. r = store[k]
    BY <1>4, <1>6 DEF Replays, Open
  <2> QED
    BY <1>1, <1>3, <1>6, <2>1, ReplayStep
<1> QED
  BY <1>2, <1>5, <1>6 DEF Beginning

LEMMA RecoverStep ==
  ASSUME IInv, NEW c \in Clients, NEW k \in Keys, Recover(c, k)
  PROVE  IInv'
<1>1. TypeOK /\ calls' \in Nat /\ Idle(c) /\ UNCHANGED <<store, now, hold, ran>>
  BY DEF IInv, TypeOK, Recover, Counted
<1>2. ASSUME store[k].status = "UNKNOWN", UNCHANGED told,
             NEW w \in {"fail", "reconcile"}, Write(c, k, store[k], w)
      PROVE  IInv'
  <2>1. store[k] \in Record /\ Copy(k, store[k]) /\ Fits(w, store[k])
    BY <1>1, <1>2, StoredIsCopy DEF TypeOK, Fits
  <2> QED
    BY <1>1, <1>2, <2>1, DecideStep DEF Writes
<1>3. ASSUME Replays(k, store[k]), UNCHANGED call PROVE IInv'
  BY <1>1, <1>3, ReplayStep
<1> QED
  BY <1>2, <1>3 DEF Recover

\* The four ways to close an operation.
LEMMA ClosingStep ==
  ASSUME IInv, NEW c \in Clients, Idle(c), Holds(c), NEW r \in Passed(c),
         NEW w \in {"complete", "fail", "unknown", "release"},
         Closing(c, r, w),
         w = "complete" => Completable(r) \/ r.status = "COMPLETED",
         w = "release" => Open(r) /\ ~hold[c].ran
  PROVE  IInv'
<1> DEFINE k == hold[c].key
<1>1. TypeOK /\ calls' \in Nat /\ UNCHANGED <<store, now, ran>>
  BY DEF IInv, TypeOK, Closing, Counted
<1>2. k \in Keys /\ r \in Record /\ Copy(k, r) /\ r.status # "ABSENT"
      /\ (r = store[k] \/ Open(r))
  BY PassedIsCopy
<1>3. CASE /\ r.status # "COMPLETED" /\ Write(c, k, r, w)
           /\ hold' = [hold EXCEPT ![c].may = FALSE] /\ UNCHANGED told
  <2>1. Fits(w, r)
    BY <1>2, <1>3 DEF Fits
  <2> QED
    BY <1>1, <1>2, <1>3, <2>1, DecideStep DEF Writes
<1>4. CASE Replays(k, r) /\ Drop(c) /\ UNCHANGED call
  <2>1. r = store[k]
    BY <1>2, <1>4 DEF Replays, Open
  <2> QED
    BY <1>1, <1>2, <1>4, <2>1, ReplayStep
<1> QED
  BY <1>3, <1>4 DEF Closing

LEMMA EndStep ==
  ASSUME IInv, NEW c \in Clients,
         Complete(c) \/ Fail(c) \/ MarkUnknown(c) \/ Release(c)
  PROVE  IInv'
<1>1. hold[c] \in Hold /\ (hold[c].ran => Holds(c))
  BY DEF IInv, TypeOK, HoldInv
<1>2. CASE Complete(c)
  BY <1>1, <1>2, ClosingStep DEF Complete
<1>3. CASE Fail(c)
  BY <1>3, ClosingStep DEF Fail
<1>4. CASE MarkUnknown(c)
  BY <1>1, <1>4, ClosingStep DEF MarkUnknown
<1>5. CASE Release(c)
  BY <1>1, <1>5, ClosingStep DEF Release, Hold
<1> QED
  BY <1>2, <1>3, <1>4, <1>5

LEMMA CrashStep ==
  ASSUME IInv, NEW c \in Clients, Crash(c)
  PROVE  IInv'
<1>1. TypeOK /\ UNCHANGED <<store, now, told, ran, calls>> /\ Drop(c)
      /\ call' = [call EXCEPT ![c] = NoCall]
  BY DEF IInv, Crash
<1>2. /\ call' \in [Clients -> Call] /\ call'[c] = NoCall
      /\ hold' \in [Clients -> Hold] /\ hold'[c] = NoHold
      /\ \A d \in Clients \ {c} : call'[d] = call[d] /\ hold'[d] = hold[d]
  BY <1>1, DoneTyped, DropTyped
<1>3. CallInv(c)' /\ HoldInv(c)' /\ hold'[c].key = NoKey
  BY <1>2 DEF CallInv, HoldInv, Holds, NoCall, NoHold
<1> QED
  BY <1>1, <1>2, <1>3, ReadStep DEF TypeOK

-----------------------------------------------------------------------------
(* Steps that write                                                        *)

\* A copy of a record stays one when the record is changed: it is older.
LEMMA CopyKept ==
  ASSUME TypeOK, NEW k \in Keys, NEW l \in Keys, NEW r \in Record,
         NEW new \in Record, Copy(l, r),
         store' = [store EXCEPT ![k] = new],
         new.status # "ABSENT", new.version > store[k].version
  PROVE  Copy(l, r)'
<1>1. store[k].version \in Nat /\ r.version \in Nat /\ new.version \in Nat
  BY DEF TypeOK, Record
<1>2. CASE l = k
  BY <1>1, <1>2 DEF TypeOK, Copy
<1>3. CASE l # k
  BY <1>3 DEF TypeOK, Copy
<1> QED
  BY <1>2, <1>3

LEMMA InsertStep ==
  ASSUME IInv, NEW c \in Clients, Insert(c)
  PROVE  IInv'
<1> DEFINE k == call[c].key
           r == call[c].rec
<1>1. TypeOK /\ CallInv(c) /\ HoldInv(c)
  BY DEF IInv
<1>2. /\ k \in Keys /\ r \in Record /\ r.print \in Prints
      /\ r.status = "RESERVED" /\ r.result = NoClient /\ r.created <= now
      /\ r.lease = r.created + LeaseTime
  BY <1>1, Typed DEF CallInv, Insert
<1>3. UNCHANGED <<now, ran, calls>> /\ call' = [call EXCEPT ![c] = NoCall]
  BY DEF Insert
<1>4. /\ call' \in [Clients -> Call] /\ call'[c] = NoCall
      /\ \A d \in Clients \ {c} : call'[d] = call[d]
  BY <1>1, <1>3, DoneTyped
<1>5. CASE store[k].status # "ABSENT"
  <2>1. Resolve(c, k, store[k], r.print) /\ UNCHANGED store
    BY <1>5 DEF Insert
  <2> QED
    BY <1>1, <1>2, <1>3, <1>4, <1>5, <2>1, ResolveStep DEF NoCall, TypeOK
<1>6. CASE store[k].status = "ABSENT"
  <2>1. /\ store' = [store EXCEPT ![k] = r] /\ UNCHANGED told
        /\ Grant(c, k, r) \/ UNCHANGED hold
    BY <1>6 DEF Insert
  <2>2. /\ r.version \in Nat /\ r.created \in Nat /\ now \in Nat
        /\ store'[k] = r /\ \A l \in Keys \ {k} : store'[l] = store[l]
    BY <1>1, <1>2, <2>1 DEF TypeOK, Record
  <2>3. \A d \in Clients : Holds(d) => hold[d].key # k
    BY <1>6 DEF IInv, HoldInv, Copy
  <2>4. /\ hold' \in [Clients -> Hold]
        /\ \A d \in Clients \ {c} : hold'[d] = hold[d]
        /\ \/ hold'[c] = hold[c]
           \/ hold'[c] = [key |-> k, rec |-> r, may |-> TRUE, ran |-> FALSE]
    BY <1>1, <1>2, <2>1, GrantTyped DEF TypeOK
  <2>5. TypeOK'
    <3>1. WellFormed(r)
      BY <1>2, <2>2, PaymentIdempotencyAssumption
      DEF WellFormed, Open, NoLease
    <3> QED
      BY <1>1, <1>2, <1>3, <1>4, <2>1, <2>2, <2>4, <3>1 DEF TypeOK, WellFormed
  <2>6. ToldIsRecorded'
    BY <1>6, <2>1, <2>2 DEF IInv, TypeOK, Answer, ToldIsRecorded
  <2>7. ASSUME NEW d \in Clients PROVE CallInv(d)'
    <3>1. CASE d = c
      BY <1>4, <3>1 DEF CallInv, NoCall
    <3>2. CASE d # c
      <4>1. call'[d] = call[d] /\ hold'[d] = hold[d] /\ CallInv(d)
        BY <1>4, <2>4, <3>2 DEF IInv
      <4>2. call[d].write \notin {"none", "insert"} =>
              call[d].key \in Keys /\ call[d].key # k
        BY <1>6, <4>1 DEF CallInv, Copy
      <4> QED
        BY <1>3, <2>2, <4>1, <4>2
        DEF CallInv, Copy, Fits, Stalled, Lapsed, Open, Completable
    <3> QED
      BY <3>1, <3>2
  <2>8. ASSUME NEW d \in Clients PROVE HoldInv(d)'
    <3>1. CASE hold'[d] = hold[d]
      <4>1. HoldInv(d) /\ (Holds(d) => hold[d].key \in Keys \ {k})
        BY <2>3 DEF IInv, TypeOK, Hold, Holds
      <4> QED
        BY <2>2, <3>1, <4>1 DEF HoldInv, Holds, Copy
    <3>2. CASE hold'[d] = [key |-> k, rec |-> r, may |-> TRUE, ran |-> FALSE]
      BY <1>2, <2>2, <3>2, PaymentIdempotencyAssumption
      DEF HoldInv, Holds, Copy, Open
    <3> QED
      BY <2>4, <3>1, <3>2
  <2>9. ASSUME NEW l \in Keys PROVE (StoreInv(l) /\ RunInv(l))'
    <3>1. StoreInv(l) /\ RunInv(l)
      BY DEF IInv
    <3>2. CASE l # k
      <4>1. store'[l] = store[l] /\ ran'[l] = ran[l]
            /\ FirstLease(l)' = FirstLease(l)
        BY <1>3, <2>2, <3>2 DEF FirstLease
      <4>2. \A d \in Clients : hold'[d].key = l => hold'[d] = hold[d]
        BY <2>4, <3>2
      <4> QED
        BY <1>3, <3>1, <4>1, <4>2 DEF StoreInv, RunInv
    <3>3. CASE l = k
      <4>1. ran'[l] = 0 /\ store'[l] = r
        BY <1>3, <1>6, <2>2, <3>1, <3>3 DEF StoreInv
      <4>2. \A d \in Clients : hold'[d].key = l => d = c
        BY <1>2, <2>3, <2>4, <3>3, PaymentIdempotencyAssumption DEF Holds
      <4>3. StoreInv(l)'
        BY <1>2, <1>3, <2>2, <4>1, PaymentIdempotencyAssumption DEF StoreInv
      <4>4. RunInv(l)'
        BY <1>2, <4>1, <4>2 DEF RunInv
      <4> QED
        BY <4>3, <4>4
    <3> QED
      BY <3>2, <3>3
  <2> QED
    BY <2>5, <2>6, <2>7, <2>8, <2>9 DEF IInv
<1> QED
  BY <1>5, <1>6

\* The record that an update stores.
Written(c) ==
  [Patched(c, store[call[c].key]) EXCEPT !.version = @ + 1]

LEMMA WrittenFacts ==
  ASSUME IInv, NEW c \in Clients, call[c].write \notin {"none", "insert"},
         store[call[c].key].version = call[c].rec.version
  PROVE  LET s == store[call[c].key]
             r == Written(c)
             w == call[c].write
         IN /\ call[c].key \in Keys
            /\ r \in Record /\ WellFormed(r)
            /\ r.version = s.version + 1 /\ r.version > s.version
            /\ r.print = s.print /\ r.created = s.created
            /\ s.status \notin {"ABSENT", "COMPLETED"} /\ r.status # "ABSENT"
            /\ w = "begin" =>
                 /\ r.status = "PROCESSING" /\ r.lease = call[c].until
                 /\ s.status = "RELEASED" \/ Stalled(s)
            /\ w = "complete" =>
                 r.status = "COMPLETED" /\ r.result = c /\ Completable(s)
            /\ w = "fail" => r.status = "FAILED"
            /\ w \in {"unknown", "reconcile"} => r.status = "UNKNOWN"
            /\ w = "release" => r.status = "RELEASED" /\ Open(s)
            /\ w # "complete" => r.result = NoClient
<1> DEFINE s == store[call[c].key]
           w == call[c].write
           p == Patched(c, s)
<1>1. /\ call[c] \in Call /\ call[c].rec \in Record /\ CallInv(c)
      /\ call[c].key \in Keys
  BY Typed DEF IInv, CallInv
<1>2. /\ s \in Record /\ WellFormed(s) /\ Copy(call[c].key, call[c].rec)
      /\ Fits(w, call[c].rec)
  BY <1>1 DEF IInv, TypeOK, CallInv
<1>3. /\ s.status = call[c].rec.status
      /\ call[c].rec.lease \in {NoLease, s.lease}
      /\ s.status \notin {"ABSENT", "COMPLETED"}
      /\ w \in {"begin", "complete", "fail", "unknown", "release", "reconcile"}
      /\ call[c].until \in Nat /\ s.version \in Nat
      /\ s.result = NoClient
  BY <1>1, <1>2 DEF Copy, Fits, Call, Writes, Record, WellFormed
<1>4. ASSUME NEW q \in Record,
             Written(c) = [q EXCEPT !.version = s.version + 1]
      PROVE  /\ Written(c) \in Record
             /\ Written(c).status = q.status /\ Written(c).lease = q.lease
             /\ Written(c).result = q.result /\ Written(c).print = q.print
             /\ Written(c).created = q.created
             /\ Written(c).version = s.version + 1
             /\ Written(c).version > s.version
             /\ WellFormed(q) => WellFormed(Written(c))
  BY <1>3, <1>4 DEF Record, WellFormed, Open
<1>5. p \in Record /\ p.version = s.version
      => Written(c) = [p EXCEPT !.version = s.version + 1]
  BY DEF Written
<1>6. CASE w = "begin"
  <2>1. p = [s EXCEPT !.status = "PROCESSING", !.lease = call[c].until]
    BY <1>6 DEF Patched
  <2>2. /\ p \in Record /\ p.version = s.version /\ p.print = s.print
        /\ p.created = s.created /\ p.result = NoClient
        /\ p.status = "PROCESSING" /\ p.lease = call[c].until
    BY <1>2, <1>3, <2>1 DEF Record, STATUS
  <2>3. WellFormed(p)
    BY <1>3, <2>2 DEF WellFormed, Open, NoLease
  <2>4. s.status = "RELEASED" \/ Stalled(s)
    BY <1>2, <1>3, <1>6 DEF Fits, Stalled, Lapsed, Open
  <2> QED
    BY <1>1, <1>3, <1>4, <1>5, <1>6, <2>2, <2>3, <2>4
<1>7. CASE w = "complete"
  <2>1. p = [s EXCEPT !.status = "COMPLETED", !.lease = NoLease, !.result = c]
    BY <1>7 DEF Patched
  <2>2. /\ p \in Record /\ p.version = s.version /\ p.print = s.print
        /\ p.created = s.created /\ p.result = c
        /\ p.status = "COMPLETED" /\ p.lease = NoLease
    BY <1>2, <1>3, <2>1 DEF Record, STATUS
  <2>3. WellFormed(p)
    BY <2>2, PaymentIdempotencyAssumption DEF WellFormed, Open
  <2>4. Completable(s)
    BY <1>2, <1>3, <1>7 DEF Fits, Completable, Open
  <2> QED
    BY <1>1, <1>3, <1>4, <1>5, <1>7, <2>2, <2>3, <2>4
<1>8. CASE w \in {"fail", "unknown", "release", "reconcile"}
  <2>1. /\ p \in Record /\ p.version = s.version /\ p.print = s.print
        /\ p.created = s.created /\ p.result = NoClient /\ p.lease = NoLease
        /\ p.status = CASE w = "fail" -> "FAILED"
                        [] w = "release" -> "RELEASED"
                        [] OTHER -> "UNKNOWN"
    <3>1. CASE w = "fail"
      <4>1. p = [s EXCEPT !.status = "FAILED", !.lease = NoLease,
                          !.result = NoClient]
        BY <3>1 DEF Patched
      <4> QED
        BY <1>2, <1>3, <3>1, <4>1 DEF Record, STATUS
    <3>2. CASE w = "unknown"
      <4>1. p = [s EXCEPT !.status = "UNKNOWN", !.lease = NoLease,
                          !.result = NoClient]
        BY <3>2 DEF Patched
      <4> QED
        BY <1>2, <1>3, <3>2, <4>1 DEF Record, STATUS
    <3>3. CASE w = "release"
      <4>1. p = [s EXCEPT !.status = "RELEASED", !.lease = NoLease]
        BY <3>3 DEF Patched
      <4> QED
        BY <1>2, <1>3, <3>3, <4>1 DEF Record, STATUS
    <3>4. CASE w = "reconcile"
      <4>1. p = [s EXCEPT !.status = "UNKNOWN"]
        BY <3>4 DEF Patched
      <4>2. s.lease = NoLease
        BY <1>2, <1>3, <3>4 DEF Fits, WellFormed, Open
      <4> QED
        BY <1>2, <1>3, <3>4, <4>1, <4>2 DEF Record, STATUS
    <3> QED
      BY <1>8, <3>1, <3>2, <3>3, <3>4
  <2>2. WellFormed(p)
    BY <1>8, <2>1 DEF WellFormed, Open
  <2>3. w = "release" => Open(s)
    BY <1>2, <1>3 DEF Fits, Open
  <2> QED
    BY <1>1, <1>3, <1>4, <1>5, <1>8, <2>1, <2>2, <2>3
<1> QED
  BY <1>3, <1>6, <1>7, <1>8

\* What an update leaves in the hands of its caller.
LEMMA HeldAfterUpdate ==
  ASSUME TypeOK, NEW c \in Clients, NEW k \in Keys, k = call[c].key,
         NEW r \in Record,
         Answered(c, r) \/ Refused(c)
  PROVE  /\ hold' \in [Clients -> Hold]
         /\ \A d \in Clients \ {c} : hold'[d] = hold[d]
         /\ \/ hold'[c] = NoHold
            \/ call[c].write = "complete" /\ hold'[c] = hold[c]
            \/ call[c].write = "begin" /\ hold'[c] =
                 [key |-> k, rec |-> [r EXCEPT !.lease = NoLease],
                  may |-> TRUE, ran |-> FALSE]
<1>1. CASE Drop(c)
  BY <1>1, DropTyped
<1>2. CASE call[c].write = "complete" /\ UNCHANGED hold
  BY <1>2 DEF TypeOK
<1>3. CASE call[c].write = "begin" /\ Grant(c, k, [r EXCEPT !.lease = NoLease])
  <2>1. [r EXCEPT !.lease = NoLease] \in Record
    BY DEF Record
  <2> QED
    BY <1>3, <2>1, GrantTyped
<1> QED
  BY <1>1, <1>2, <1>3 DEF Answered, Refused

LEMMA UpdateStep ==
  ASSUME IInv, NEW c \in Clients, Update(c)
  PROVE  IInv'
<1>1. TypeOK /\ CallInv(c) /\ HoldInv(c)
  BY DEF IInv
<1>2. PICK k \in Keys : k = call[c].key
  BY <1>1 DEF CallInv, Update
<1> DEFINE w == call[c].write
           r == Written(c)
<1>3. /\ w \notin {"none", "insert"} /\ UNCHANGED <<now, ran, calls>>
      /\ call' = [call EXCEPT ![c] = NoCall]
  BY DEF Update
<1>4. /\ call' \in [Clients -> Call] /\ call'[c] = NoCall
      /\ \A d \in Clients \ {c} : call'[d] = call[d]
  BY <1>1, <1>3, DoneTyped
<1>5. CASE store[k].version # call[c].rec.version
  <2>1. Refused(c) /\ UNCHANGED store
    BY <1>2, <1>5 DEF Update
  <2>2. /\ hold' \in [Clients -> Hold] /\ hold'[c] \in {hold[c], NoHold}
        /\ \A d \in Clients \ {c} : hold'[d] = hold[d]
    BY <1>1, <2>1, DropTyped DEF Refused, TypeOK
  <2>3. CallInv(c)'
    BY <1>4 DEF CallInv, NoCall
  <2>4. HoldInv(c)' /\ (hold'[c].key = NoKey \/ hold'[c] = hold[c])
    BY <1>1, <2>1, <2>2 DEF HoldInv, Holds, Copy, NoHold
  <2> QED
    BY <1>1, <1>3, <1>4, <2>1, <2>2, <2>3, <2>4, ReadStep DEF Refused, TypeOK
<1>6. CASE store[k].version = call[c].rec.version
  <2>1. /\ store' = [store EXCEPT ![k] = r]
        /\ Answered(c, r) \/ Refused(c)
    BY <1>2, <1>6 DEF Update, Written
  <2>2. /\ r \in Record /\ WellFormed(r)
        /\ r.version > store[k].version
        /\ r.print = store[k].print /\ r.created = store[k].created
        /\ store[k].status \notin {"ABSENT", "COMPLETED"}
        /\ r.status # "ABSENT"
        /\ w = "begin" =>
             /\ r.status = "PROCESSING" /\ r.lease = call[c].until
             /\ store[k].status = "RELEASED" \/ Stalled(store[k])
        /\ w = "complete" => r.status = "COMPLETED" /\ r.result = c
        /\ r.status = "RELEASED" => w = "release"
        /\ Open(r) => w = "begin"
        /\ w \in {"begin", "complete", "fail", "unknown", "release",
                  "reconcile"}
    <3>1. w \in Writes
      BY <1>1, <1>3, Typed DEF Call
    <3> QED
      BY <1>2, <1>3, <1>6, <3>1, WrittenFacts DEF Writes, Open
  <2>3. /\ store'[k] = r /\ \A l \in Keys \ {k} : store'[l] = store[l]
    BY <1>1, <2>1 DEF TypeOK
  <2>4. /\ hold' \in [Clients -> Hold]
        /\ \A d \in Clients \ {c} : hold'[d] = hold[d]
        /\ \/ hold'[c] = NoHold
           \/ w = "complete" /\ hold'[c] = hold[c]
           \/ w = "begin" /\ hold'[c] =
                [key |-> k, rec |-> [r EXCEPT !.lease = NoLease],
                 may |-> TRUE, ran |-> FALSE]
    BY <1>1, <1>2, <2>1, <2>2, HeldAfterUpdate
  <2>5. /\ \A a \in told' \ told :
             w = "complete" /\ a = [key |-> k, print |-> r.print, result |-> c]
    BY <1>2, <2>1 DEF Answered, Refused
  <2>6. TypeOK'
    <3>1. r.print \in Prints
      BY <2>2 DEF IInv, StoreInv
    <3>2. told' \subseteq Answer
      BY <1>1, <2>5, <3>1 DEF TypeOK, Answer
    <3> QED
      BY <1>1, <1>3, <1>4, <2>1, <2>2, <2>3, <2>4, <3>2
      DEF TypeOK, WellFormed, Open
  <2>7. ToldIsRecorded'
    <3>1. ASSUME NEW a \in told PROVE Recorded(a)'
      BY <1>1, <2>2, <2>3, <3>1 DEF IInv, TypeOK, Answer, ToldIsRecorded, Recorded
    <3>2. ASSUME NEW a \in told' \ told PROVE Recorded(a)'
      BY <2>2, <2>3, <2>5, <3>2 DEF Recorded
    <3> QED
      BY <3>1, <3>2 DEF ToldIsRecorded, Recorded
  <2>8. ASSUME NEW l \in Keys, NEW q \in Record, Copy(l, q)
        PROVE  Copy(l, q)'
    BY <1>1, <2>1, <2>2, <2>8, CopyKept
  <2>9. ASSUME NEW d \in Clients PROVE CallInv(d)'
    <3>1. CASE d = c
      BY <1>4, <3>1 DEF CallInv, NoCall
    <3>2. CASE d # c
      <4>1. /\ call'[d] = call[d] /\ hold'[d] = hold[d] /\ CallInv(d)
            /\ call[d].rec \in Record
        BY <1>1, <1>4, <2>4, <3>2, Typed DEF IInv
      <4>2. \A l \in Keys : store'[l].created = store[l].created
        BY <2>2, <2>3
      <4> QED
        BY <1>3, <2>8, <4>1, <4>2
        DEF CallInv, Fits, Stalled, Lapsed, Open, Completable
    <3> QED
      BY <3>1, <3>2
  <2>10. ASSUME NEW d \in Clients PROVE HoldInv(d)'
    <3>1. CASE hold'[d] = hold[d]
      <4>1. HoldInv(d) /\ hold[d].rec \in Record
            /\ (Holds(d) => hold[d].key \in Keys)
        BY <1>1, Typed DEF IInv, Hold, Holds
      <4> QED
        BY <2>8, <3>1, <4>1 DEF HoldInv, Holds
    <3>2. CASE hold'[d] = NoHold
      BY <3>2 DEF HoldInv, Holds, NoHold
    <3>3. CASE w = "begin" /\ hold'[d] =
                 [key |-> k, rec |-> [r EXCEPT !.lease = NoLease],
                  may |-> TRUE, ran |-> FALSE]
      <4> DEFINE q == [r EXCEPT !.lease = NoLease]
      <4>1. /\ q.version = r.version /\ q.status = r.status
            /\ q.lease = NoLease /\ r.version \in Nat
        BY <2>2 DEF Record
      <4>2. /\ hold'[d].key = k /\ hold'[d].rec = q
            /\ hold'[d].may /\ ~hold'[d].ran
        BY <3>3
      <4>3. Copy(k, hold[d].rec)'
        BY <2>2, <2>3, <4>1, <4>2 DEF Copy
      <4> QED
        BY <2>2, <3>3, <4>1, <4>2, <4>3, PaymentIdempotencyAssumption
        DEF HoldInv, Holds, Open
    <3> QED
      BY <2>4, <3>1, <3>2, <3>3
  <2>11. ASSUME NEW l \in Keys PROVE (StoreInv(l) /\ RunInv(l))'
    <3>1. StoreInv(l) /\ RunInv(l)
      BY DEF IInv
    <3>2. CASE l # k
      <4>1. store'[l] = store[l] /\ ran'[l] = ran[l]
            /\ FirstLease(l)' = FirstLease(l)
        BY <1>3, <2>3, <3>2 DEF FirstLease
      <4>2. \A d \in Clients : hold'[d].key = l => hold'[d] = hold[d]
        BY <2>4, <3>2, PaymentIdempotencyAssumption DEF NoHold
      <4> QED
        BY <1>3, <3>1, <4>1, <4>2 DEF StoreInv, RunInv
    <3>3. CASE l = k
      <4>1. StoreInv(l)'
        <5>1. w = "begin" => store[k].created + LeaseTime <= call[c].until
          BY <1>1, <1>2 DEF CallInv
        <5> QED
          BY <1>3, <2>2, <2>3, <3>1, <3>3, <5>1 DEF StoreInv
      <4>2. ASSUME FirstLease(l)' PROVE FirstLease(l)
        BY <1>3, <2>2, <2>3, <3>3, <4>2 DEF FirstLease
      <4>3. ASSUME FirstLease(l), w = "begin"
            PROVE  ran[l] = 0 /\ \A d \in Clients : hold[d].key # l
        <5>1. ~Stalled(store[k])
          BY <2>2, <3>3, <4>3, StoredIsCopy
        <5> QED
          BY <2>2, <3>1, <3>3, <4>3, <5>1 DEF RunInv
      <4>4. ASSUME FirstLease(l), w = "release"
            PROVE  ran[l] = 0 /\ \A d \in Clients : hold'[d].key # l
        <5>1. hold[c].key = l /\ ~hold[c].ran
          BY <1>1, <1>2, <3>3, <4>4 DEF CallInv
        <5>2. ran[l] = 0 /\ \A d \in Clients \ {c} : hold[d].key # l
          BY <1>1, <3>1, <4>4, <5>1 DEF RunInv, TypeOK
        <5> QED
          BY <2>4, <4>4, <5>2, PaymentIdempotencyAssumption DEF NoHold
      <4>5. RunInv(l)'
        <5>1. CASE w = "begin"
          BY <1>3, <2>2, <2>3, <2>4, <3>3, <4>2, <4>3, <5>1 DEF RunInv, NoHold
        <5>2. CASE w # "begin"
          <6>1. \A d \in Clients : hold'[d].key = l => hold'[d] = hold[d]
            BY <2>4, <5>2, PaymentIdempotencyAssumption DEF NoHold
          <6> QED
            BY <1>3, <2>2, <2>3, <3>1, <3>3, <4>2, <4>4, <5>2, <6>1 DEF RunInv
        <5> QED
          BY <5>1, <5>2
      <4> QED
        BY <4>1, <4>5
    <3> QED
      BY <3>2, <3>3
  <2> QED
    BY <2>6, <2>7, <2>9, <2>10, <2>11 DEF IInv
<1> QED
  BY <1>5, <1>6

LEMMA RunStep ==
  ASSUME IInv, NEW c \in Clients, Run(c)
  PROVE  IInv'
<1>1. TypeOK /\ HoldInv(c) /\ hold[c] \in Hold
  BY DEF IInv, TypeOK
<1>2. PICK k \in Keys : k = hold[c].key
  BY <1>1 DEF Run, HoldInv, Holds, Hold
<1>3. /\ UNCHANGED <<store, now, call, told, calls>> /\ Idle(c)
      /\ hold[c].may /\ ~hold[c].ran
      /\ hold' = [hold EXCEPT ![c] = [hold[c] EXCEPT !.may = FALSE,
                                                     !.ran = TRUE]]
      /\ ran' = [ran EXCEPT ![k] = ran[k] + 1]
  BY <1>1, <1>2 DEF Run, HoldInv, TypeOK, Hold
<1>4. /\ [hold[c] EXCEPT !.may = FALSE, !.ran = TRUE] \in Hold
      /\ [hold[c] EXCEPT !.may = FALSE, !.ran = TRUE].key = k
      /\ [hold[c] EXCEPT !.may = FALSE, !.ran = TRUE].rec = hold[c].rec
      /\ [hold[c] EXCEPT !.may = FALSE, !.ran = TRUE].ran
      /\ ~[hold[c] EXCEPT !.may = FALSE, !.ran = TRUE].may
  BY <1>1, <1>2 DEF Hold
<1>5. /\ hold' \in [Clients -> Hold]
      /\ hold'[c].key = k /\ hold'[c].rec = hold[c].rec
      /\ hold'[c].ran /\ ~hold'[c].may
      /\ \A d \in Clients \ {c} : hold'[d] = hold[d]
  BY <1>1, <1>3, <1>4 DEF TypeOK
<1>6. /\ ran' \in [Keys -> Nat] /\ ran[k] \in Nat /\ ran'[k] = ran[k] + 1
      /\ \A l \in Keys \ {k} : ran'[l] = ran[l]
  BY <1>1, <1>3 DEF TypeOK
<1>7. TypeOK' /\ ToldIsRecorded'
  BY <1>1, <1>3, <1>5, <1>6 DEF IInv, TypeOK, ToldIsRecorded
<1>8. ASSUME NEW d \in Clients PROVE (CallInv(d) /\ HoldInv(d))'
  <2>1. CallInv(d) /\ HoldInv(d) /\ hold'[d].key = hold[d].key
        /\ hold'[d].rec = hold[d].rec
    BY <1>2, <1>5 DEF IInv
  <2>2. CallInv(d)'
    BY <1>3, <1>5, <2>1
    DEF CallInv, Copy, Fits, Stalled, Lapsed, Open, Completable, Idle
  <2>3. HoldInv(d)'
    BY <1>1, <1>2, <1>3, <1>5, <2>1 DEF HoldInv, Holds, Copy
  <2> QED
    BY <2>2, <2>3
<1>9. ASSUME NEW l \in Keys PROVE (StoreInv(l) /\ RunInv(l))'
  <2>1. StoreInv(l) /\ RunInv(l) /\ (FirstLease(l)' = FirstLease(l))
    BY <1>3 DEF IInv, FirstLease
  <2>2. \A d \in Clients : hold'[d].key = hold[d].key
    BY <1>2, <1>5
  <2>3. StoreInv(l)'
    <3>1. Copy(k, hold[c].rec)
      BY <1>1, <1>2, PaymentIdempotencyAssumption DEF HoldInv, Holds
    <3> QED
      BY <1>3, <1>6, <2>1, <3>1 DEF StoreInv, Copy
  <2>4. RunInv(l)'
    <3>1. CASE l # k
      <4>1. \A d \in Clients : hold'[d].key = l => hold'[d] = hold[d]
        BY <1>5, <3>1
      <4> QED
        BY <1>3, <1>6, <2>1, <2>2, <3>1, <4>1 DEF RunInv
    <3>2. CASE l = k
      <4>1. FirstLease(l) =>
              /\ ran[l] = 0 /\ store[l].status # "RELEASED"
              /\ \A d \in Clients : hold[d].key = l => d = c
        BY <1>2, <1>3, <1>6, <2>1, <3>2 DEF RunInv
      <4> QED
        BY <1>3, <1>5, <1>6, <2>1, <2>2, <3>2, <4>1 DEF RunInv
    <3> QED
      BY <3>1, <3>2
  <2> QED
    BY <2>3, <2>4
<1> QED
  BY <1>7, <1>8, <1>9 DEF IInv

LEMMA TickStep ==
  ASSUME IInv, Tick
  PROVE  IInv'
<1>1. /\ TypeOK /\ now \in Nat /\ now' = now + 1
      /\ UNCHANGED <<store, call, hold, told, ran, calls>>
  BY DEF IInv, TypeOK, Tick
<1>2. TypeOK' /\ ToldIsRecorded'
  BY <1>1 DEF IInv, TypeOK, ToldIsRecorded
<1>3. ASSUME NEW c \in Clients PROVE (CallInv(c) /\ HoldInv(c))'
  <2>1. CallInv(c) /\ HoldInv(c) /\ call[c].rec \in Record
    BY <1>1, Typed DEF IInv
  <2>2. call[c].rec.created \in Nat /\ call[c].rec.lease \in Nat \cup {NoLease}
    BY <2>1 DEF Record
  <2>3. CallInv(c)'
    BY <1>1, <2>1, <2>2
    DEF CallInv, Copy, Fits, Stalled, Lapsed, Open, Completable, NoLease
  <2>4. HoldInv(c)'
    BY <1>1, <2>1 DEF HoldInv, Holds, Copy
  <2> QED
    BY <2>3, <2>4
<1>4. ASSUME NEW k \in Keys PROVE (StoreInv(k) /\ RunInv(k))'
  <2>1. StoreInv(k) /\ RunInv(k) /\ store[k].created \in Nat
    BY DEF IInv, TypeOK, Record
  <2>2. StoreInv(k)'
    BY <1>1, <2>1 DEF StoreInv
  <2>3. FirstLease(k)' => FirstLease(k)
    BY <1>1, <2>1, PaymentIdempotencyAssumption DEF FirstLease
  <2>4. RunInv(k)'
    BY <1>1, <2>1, <2>3 DEF RunInv
  <2> QED
    BY <2>2, <2>4
<1> QED
  BY <1>2, <1>3, <1>4 DEF IInv

-----------------------------------------------------------------------------
(* The theorems                                                            *)

LEMMA Initial == Init => IInv
<1> SUFFICES ASSUME Init PROVE IInv
  OBVIOUS
<1>1. TypeOK
  BY NullsTyped DEF Init, TypeOK, WellFormed, Open, NoRecord
<1>2. ToldIsRecorded
  BY DEF Init, ToldIsRecorded
<1>3. ASSUME NEW c \in Clients PROVE CallInv(c) /\ HoldInv(c)
  BY DEF Init, CallInv, HoldInv, Holds, NoCall, NoHold
<1>4. ASSUME NEW k \in Keys PROVE StoreInv(k) /\ RunInv(k)
  BY DEF Init, StoreInv, RunInv, FirstLease, NoRecord, Open
<1> QED
  BY <1>1, <1>2, <1>3, <1>4 DEF IInv

LEMMA Stutter == IInv /\ UNCHANGED vars => IInv'
<1> SUFFICES ASSUME IInv, UNCHANGED vars PROVE IInv'
  OBVIOUS
<1>1. UNCHANGED <<store, now, call, hold, told, ran, calls>>
  BY DEF vars
<1>2. TypeOK' /\ ToldIsRecorded'
  BY <1>1 DEF IInv, TypeOK, ToldIsRecorded
<1>3. ASSUME NEW c \in Clients PROVE (CallInv(c) /\ HoldInv(c))'
  BY <1>1 DEF IInv, CallInv, HoldInv, Holds, Copy, Fits, Stalled, Lapsed, Open,
              Completable
<1>4. ASSUME NEW k \in Keys PROVE (StoreInv(k) /\ RunInv(k))'
  BY <1>1 DEF IInv, StoreInv, RunInv, FirstLease
<1> QED
  BY <1>2, <1>3, <1>4 DEF IInv

LEMMA Inductive == IInv /\ [Next]_vars => IInv'
<1> SUFFICES ASSUME IInv, Next PROVE IInv'
  BY Stutter
<1>1. CASE Tick
  BY <1>1, TickStep
<1>2. ASSUME NEW c \in Clients, Step(c) PROVE IInv'
  <2>1. ASSUME NEW k \in Keys, NEW p \in Prints, Reserve(c, k, p) PROVE IInv'
    BY <2>1, ReserveStep
  <2>2. ASSUME NEW k \in Keys, Begin(c, k) \/ Recover(c, k) PROVE IInv'
    BY <2>2, BeginStep, RecoverStep
  <2>3. CASE Complete(c) \/ Fail(c) \/ MarkUnknown(c) \/ Release(c)
    BY <2>3, EndStep
  <2>4. CASE Insert(c) \/ Update(c) \/ Run(c) \/ Crash(c)
    BY <2>4, InsertStep, UpdateStep, RunStep, CrashStep
  <2> QED
    BY <1>2, <2>1, <2>2, <2>3, <2>4 DEF Step
<1> QED
  BY <1>1, <1>2 DEF Next

LEMMA Invariance == Spec => []IInv
BY Initial, Inductive, PTL DEF Spec

\* Every variable has its type: completed records have a result, open ones a
\* lease.
THEOREM TypeCorrect == Spec => []TypeOK
BY Invariance, PTL DEF IInv

\* Whoever was answered with a completed result was given the recorded one, of
\* the payload it asked for, and it stays recorded.
THEOREM AnswersAreRecorded == Spec => []ToldIsRecorded
BY Invariance, PTL DEF IInv

\* A record at the version that was read is the record that was read.
THEOREM VersionsIdentify == Spec => []VersionIdentifies
<1>1. IInv => VersionIdentifies
  BY DEF IInv, CallInv, HoldInv, Copy, VersionIdentifies, Idle
<1> QED
  BY <1>1, Invariance, PTL

\* While the lease of the first reservation lasts, an operation is run at most
\* once, whatever is released, restarted, failed or crashes.
THEOREM RunsOncePerLease == Spec => []OneRunPerLease
<1>1. IInv => OneRunPerLease
  BY DEF IInv, RunInv, FirstLease, OneRunPerLease
<1> QED
  BY <1>1, Invariance, PTL

\* No step takes an open operation over before its lease is over.
LEMMA LeaseRespectedStep ==
  ASSUME IInv, [Next]_vars, NEW k \in Keys,
         Open(store[k]), Open(store'[k]), store'[k].version # store[k].version
  PROVE  Lapsed(store[k])
<1>1. PICK c \in Clients : Insert(c) \/ Update(c)
  BY DEF Next, Step, Tick, Reserve, Begin, Beginning, Recover, Complete, Fail,
         MarkUnknown, Release, Closing, Run, Crash, vars
<1>2. TypeOK /\ CallInv(c)
  BY DEF IInv
<1>3. CASE Insert(c)
  <2>1. \/ store' = store
        \/ /\ store[call[c].key].status = "ABSENT"
           /\ store' = [store EXCEPT ![call[c].key] = call[c].rec]
    BY <1>3 DEF Insert
  <2> QED
    BY <1>2, <2>1 DEF TypeOK, Open
<1>4. CASE Update(c)
  <2>1. /\ call[c].write \notin {"none", "insert"}
        /\ store' = [store EXCEPT ![call[c].key] = Written(c)]
        /\ store[call[c].key].version = call[c].rec.version
    BY <1>4 DEF Update, Written
  <2>2. call[c].key = k /\ store'[k] = Written(c)
    BY <1>2, <2>1 DEF TypeOK
  <2>3. call[c].write \in Writes
    BY <1>2, <2>1, Typed DEF Call
  <2> QED
    BY <2>1, <2>2, <2>3, WrittenFacts DEF Writes, Open, Stalled
<1> QED
  BY <1>1, <1>3, <1>4

THEOREM LeasesAreRespected == Spec => LeaseRespected
<1>1. IInv /\ [Next]_vars =>
        [\A k \in Keys :
           (/\ Open(store[k]) /\ Open(store'[k])
            /\ store'[k].version # store[k].version) => Lapsed(store[k])]_vars
  BY LeaseRespectedStep
<1> QED
  BY <1>1, Invariance, PTL DEF Spec, LeaseRespected

\* The component implements PaymentOutcome: its initial states are initial
\* there, and every step is a step there or changes nothing there.
LEMMA OutcomeInitial == Init => Outcome!Init
<1> SUFFICES ASSUME Init PROVE Outcome!Init
  OBVIOUS
<1>1. ASSUME NEW k \in Keys
      PROVE  State(store[k]) = "absent" /\ store[k].result = NoClient
  <2>1. store[k].status = "ABSENT" /\ store[k].result = NoClient
    BY DEF Init, NoRecord
  <2> QED
    BY <2>1 DEF State, Open
<1> QED
  BY <1>1 DEF Outcome!Init

LEMMA OutcomeStep ==
  ASSUME IInv, [Next]_vars
  PROVE  [Outcome!Next]_(Outcome!vars)
<1> DEFINE state == [k \in Keys |-> State(store[k])]
           result == [k \in Keys |-> store[k].result]
<1>1. CASE store' = store
  BY <1>1 DEF Outcome!vars
<1>2. CASE store' # store
  <2>1. PICK c \in Clients : Insert(c) \/ Update(c)
    BY <1>2 DEF Next, Step, Tick, Reserve, Begin, Beginning, Recover, Complete,
         Fail, MarkUnknown, Release, Closing, Run, Crash, vars
  <2>2. TypeOK /\ CallInv(c)
    BY DEF IInv
  <2>3. PICK k \in Keys, r \in Record :
          /\ k = call[c].key /\ store' = [store EXCEPT ![k] = r]
          /\ \/ Insert(c) /\ store[k].status = "ABSENT"
                /\ r.status = "RESERVED" /\ r.result = NoClient
             \/ Update(c) /\ r = Written(c)
                /\ store[k].version = call[c].rec.version
    <3>1. CASE Insert(c)
      BY <1>2, <2>2, <3>1, Typed DEF Insert, CallInv
    <3>2. CASE Update(c)
      <4>1. /\ store' = [store EXCEPT ![call[c].key] = Written(c)]
            /\ store[call[c].key].version = call[c].rec.version
            /\ call[c].write \notin {"none", "insert"}
        BY <1>2, <3>2 DEF Update, Written
      <4> QED
        BY <3>2, <4>1, WrittenFacts
    <3> QED
      BY <2>1, <3>1, <3>2
  <2>4. /\ store'[k] = r
        /\ \A l \in Keys \ {k} : store'[l] = store[l]
    BY <2>2, <2>3 DEF TypeOK
  <2>5. /\ state' = [state EXCEPT ![k] = State(r)]
        /\ result' = [result EXCEPT ![k] = r.result]
    BY <2>4
  <2>6. WellFormed(store[k]) /\ state[k] = State(store[k])
    BY <2>2 DEF TypeOK
  <2>7. CASE Insert(c) /\ store[k].status = "ABSENT"
             /\ r.status = "RESERVED" /\ r.result = NoClient
    <3>1. result' = result
      BY <2>5, <2>6, <2>7 DEF WellFormed
    <3>2. Outcome!Open(k)
      BY <2>5, <2>6, <2>7, <3>1 DEF Outcome!Open, Outcome!Move, State, Open
    <3> QED
      BY <3>2 DEF Outcome!Next
  <2>8. CASE Update(c) /\ r = Written(c)
             /\ store[k].version = call[c].rec.version
    <3> DEFINE w == call[c].write
               s == store[k]
    <3>1. /\ w \in {"begin", "complete", "fail", "unknown", "release",
                    "reconcile"}
          /\ s.status \in STATUS \ {"COMPLETED"}
          /\ w = "begin" => r.status = "PROCESSING"
                            /\ (s.status = "RELEASED" \/ Open(s))
          /\ w = "complete" => r.status = "COMPLETED" /\ r.result = c
                               /\ Completable(s)
          /\ w = "fail" => r.status = "FAILED"
          /\ w \in {"unknown", "reconcile"} => r.status = "UNKNOWN"
          /\ w = "release" => r.status = "RELEASED" /\ Open(s)
          /\ w # "complete" => r.result = NoClient
      <4>1. call[c].write \in Writes \ {"insert"} /\ s \in Record
        BY <2>2, <2>8, Typed DEF Call, Update, TypeOK
      <4> QED
        BY <2>3, <2>8, <4>1, WrittenFacts DEF Writes, Record, Stalled
    <3>2. w # "complete" => result' = result
      BY <2>5, <2>6, <3>1 DEF WellFormed
    <3>3. CASE w = "begin"
      <4>1. CASE s.status = "RELEASED"
        <5>1. Outcome!Open(k)
          BY <2>5, <2>6, <3>1, <3>2, <3>3, <4>1
          DEF Outcome!Open, Outcome!Move, State, Open
        <5> QED
          BY <5>1 DEF Outcome!Next
      <4>2. CASE Open(s)
        <5>1. state' = state
          BY <2>5, <2>6, <3>1, <3>3, <4>2 DEF State, Open
        <5> QED
          BY <3>2, <3>3, <5>1 DEF Outcome!vars
      <4> QED
        BY <3>1, <3>3, <4>1, <4>2
    <3>4. CASE w = "complete"
      <4>1. Outcome!Complete(k)
        BY <2>5, <2>6, <3>1, <3>4
        DEF Outcome!Complete, Outcome!Move, State, Open, Completable
      <4> QED
        BY <4>1 DEF Outcome!Next
    <3>5. CASE w = "fail"
      <4>1. Outcome!Fail(k)
        BY <2>5, <2>6, <3>1, <3>2, <3>5
        DEF Outcome!Fail, Outcome!Move, State, Open, STATUS
      <4> QED
        BY <4>1 DEF Outcome!Next
    <3>6. CASE w \in {"unknown", "reconcile"}
      <4>1. Outcome!MarkUnknown(k)
        BY <2>5, <2>6, <3>1, <3>2, <3>6
        DEF Outcome!MarkUnknown, Outcome!Move, State, Open, STATUS
      <4> QED
        BY <4>1 DEF Outcome!Next
    <3>7. CASE w = "release"
      <4>1. Outcome!Release(k)
        BY <2>5, <2>6, <3>1, <3>2, <3>7
        DEF Outcome!Release, Outcome!Move, State, Open
      <4> QED
        BY <4>1 DEF Outcome!Next
    <3> QED
      BY <3>1, <3>3, <3>4, <3>5, <3>6, <3>7
  <2> QED
    BY <2>3, <2>7, <2>8
<1> QED
  BY <1>1, <1>2

THEOREM OutcomeImplemented == Spec => ImplementsOutcome
BY OutcomeInitial, OutcomeStep, Invariance, PTL
DEF Spec, ImplementsOutcome, Outcome!Spec

=============================================================================
