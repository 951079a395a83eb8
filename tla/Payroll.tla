------------------------------ MODULE Payroll ------------------------------
(***************************************************************************)
(* Employer payroll disbursement: backend/modules/payroll.                 *)
(*                                                                         *)
(* One uploaded batch, its payroll transactions, the mobile-money provider *)
(* behind PayrollProviderGateway and the ledger behind                     *)
(* PayrollFinancialGateway.  Every HTTP handler of PayrollService is an    *)
(* asynchronous job run by a worker; each database call or remote call it  *)
(* awaits is one action, so that jobs interleave exactly at the awaits.    *)
(* A job may die at any await (process crash, database error, gateway      *)
(* exception): Abort.                                                      *)
(*                                                                         *)
(* Abstractions.  A provider request is identified by the idempotency key  *)
(* it carries: key 0 is PayrollTransaction.idempotencyKey, key n > 0 is    *)
(* "<idempotencyKey>:retry:n".  The provider answers a key it has already  *)
(* seen with the state of that payment (it is what the key is sent for).   *)
(* A provider reference is the key of the payment it names: ptid is        *)
(* providerTransactionId and pref is providerRef.  Amounts, currencies,    *)
(* CSV parsing, audit rows and employer webhook subscriptions are left out.*)
(***************************************************************************)
EXTENDS Integers, FiniteSets

CONSTANTS
  Workers,    \* concurrent HTTP handlers (requests in flight)
  Txs,        \* payroll transactions: the rows of the CSV, one per employee
  NoTx,       \* no transaction: not an element of Txs
  MaxCalls,   \* bound: handlers started in a behaviour
  MaxKey,     \* bound: largest retry number used in a provider key
  Aborts      \* whether a handler may die between two awaits

ASSUME PayrollAssumption ==
  /\ IsFiniteSet(Txs)
  /\ NoTx \notin Txs
  /\ MaxCalls \in Nat
  /\ MaxKey \in Nat
  /\ Aborts \in BOOLEAN

VARIABLES
  batch,      \* PayrollBatch.status, "ABSENT" before the upload
  rows,       \* the PayrollTransaction documents inserted so far
  tx,         \* the PayrollTransaction documents
  provider,   \* external: the payment the provider holds under each key
  submitted,  \* history: how often each key was sent to the provider
  ledger,     \* external: the postings accepted by the financial gateway
  job,        \* what each worker is doing
  calls,      \* handlers started so far
  overtaken,  \* history: transactions of which the refusal of one attempt was
              \* stored when another was the present one
  steady      \* history: workers that are counting, and whose transactions
              \* nobody has written (but for reconciledAt) since they began

hist == <<overtaken, steady>>
vars == <<batch, rows, tx, provider, submitted, ledger, job, calls,
          overtaken, steady>>

-----------------------------------------------------------------------------

BATCH_STATUS == {"UPLOADED", "PROCESSING", "PROCESSED",
                 "PARTIALLY_PROCESSED", "RECONCILED", "FAILED"}
TRANSACTION_STATUS == {"PENDING", "PROCESSING", "SUCCESS", "FAILED",
                       "UNKNOWN", "RETRYING"}
FINANCIAL_POSTING_STATUS == {"PENDING", "POSTED", "REQUIRES_REVIEW"}

Keys  == 0 .. MaxKey
NoRef == -1
Refs  == Keys \cup {NoRef}

\* What the provider holds under a key: nothing, an accepted payment whose
\* outcome is open, a payment made, a payment refused for good.
ProviderState == {"none", "pending", "paid", "failed"}

TxRecord == [status: TRANSACTION_STATUS, posting: FINANCIAL_POSTING_STATUS,
             attempt: Nat, ptid: Refs, pref: Refs, reconciled: BOOLEAN]

NewTx == [status |-> "PENDING", posting |-> "PENDING", attempt |-> 0,
          ptid |-> NoRef, pref |-> NoRef, reconciled |-> FALSE]

Outcome == {"SUCCESS", "FAILED", "UNKNOWN"}

Operations == {"none", "upload", "process", "retry", "reconcile", "webhook"}
Steps == {"idle", "insert", "mark", "list", "next", "call", "store", "post",
          "settle", "reread", "stamp", "stats", "count", "finals", "posteds",
          "publish"}

(* The locals of a running handler.  todo: transactions of its loop still  *)
(* to visit; cur: the one being handled; seen: what it read of each        *)
(* transaction; res, ptid, pref: the provider's answer; out: the gateway's *)
(* answer; view: the counts refreshBatchStats has read.                    *)
Seen == [attempt: Nat, ptid: Refs, pref: Refs]
Job  == [op: Operations, step: Steps, todo: SUBSET Txs, cur: Txs \cup {NoTx},
         seen: [Txs -> Seen], res: Outcome, ptid: Refs, pref: Refs,
         out: FINANCIAL_POSTING_STATUS,
         view: [count: Nat, success: Nat, failed: Nat, final: Nat,
                posted: Nat]]

NoView == [count |-> 0, success |-> 0, failed |-> 0, final |-> 0, posted |-> 0]
Unseen == [t \in Txs |-> [attempt |-> 0, ptid |-> NoRef, pref |-> NoRef]]
Idle == [op |-> "none", step |-> "idle", todo |-> {}, cur |-> NoTx,
         seen |-> Unseen, res |-> "UNKNOWN", ptid |-> NoRef,
         pref |-> NoRef, out |-> "PENDING", view |-> NoView]

TypeOK ==
  /\ batch \in BATCH_STATUS \cup {"ABSENT"}
  /\ rows \in SUBSET Txs
  /\ tx \in [Txs -> TxRecord]
  /\ provider \in [Txs -> [Keys -> ProviderState]]
  /\ submitted \in [Txs -> [Keys -> Nat]]
  /\ ledger \in SUBSET (Txs \X Keys)
  /\ job \in [Workers -> Job]
  /\ calls \in Nat
  /\ overtaken \in SUBSET Txs
  /\ steady \in SUBSET Workers

Init ==
  /\ batch = "ABSENT"
  /\ rows = {}
  /\ tx = [t \in Txs |-> NewTx]
  /\ provider = [t \in Txs |-> [k \in Keys |-> "none"]]
  /\ submitted = [t \in Txs |-> [k \in Keys |-> 0]]
  /\ ledger = {}
  /\ job = [w \in Workers |-> Idle]
  /\ calls = 0
  /\ overtaken = {}
  /\ steady = {}

-----------------------------------------------------------------------------
(* Handlers start and advance.                                             *)

At(w, op, step) == job[w].op = op /\ job[w].step = step

Start(w, j) ==
  /\ job[w].step = "idle"
  /\ calls < MaxCalls
  /\ calls' = calls + 1
  /\ job' = [job EXCEPT ![w] = j]

Goto(w, step) == job' = [job EXCEPT ![w].step = step]

\* The next iteration of the handler's loop.
Advance(w) ==
  job' = [job EXCEPT ![w].todo = @ \ {job[w].cur},
                     ![w].cur = NoTx, ![w].res = "UNKNOWN",
                     ![w].ptid = NoRef, ![w].pref = NoRef,
                     ![w].out = "PENDING", ![w].step = "next"]

\* What a handler keeps of a transaction document it has read.
Read(r) == [attempt |-> r.attempt, ptid |-> r.ptid, pref |-> r.pref]
Snapshot == [t \in Txs |-> Read(tx[t])]

-----------------------------------------------------------------------------
(* uploadPayroll                                                           *)

\* No batch exists under the upload's idempotency key: create it.  (When one
\* exists the handler returns it and changes nothing.)
UploadCreate(w) ==
  /\ batch = "ABSENT"
  /\ Start(w, [Idle EXCEPT !.op = "upload", !.step = "insert"])
  /\ batch' = "UPLOADED"
  /\ UNCHANGED <<rows, tx, provider, submitted, ledger, hist>>

\* insertMany(ordered): all rows, or, when the call fails, a part of them.
UploadInsert(w) ==
  /\ At(w, "upload", "insert")
  /\ rows' \in {Txs} \cup (IF Aborts THEN SUBSET Txs ELSE {})
  /\ job' = [job EXCEPT ![w] = Idle]
  /\ steady' = {}
  /\ UNCHANGED <<batch, tx, provider, submitted, ledger, calls, overtaken>>

-----------------------------------------------------------------------------
(* The provider boundary                                                   *)

\* Mutants of Observed: the provider's own word for an open payment is
\* stored; an accepted payment is taken for a payment made.
Observed_Raw(p) == CASE p = "paid"   -> "SUCCESS"
                     [] p = "failed" -> "FAILED"
                     [] OTHER        -> p
Observed_Accepted(p) == IF p = "failed" THEN "FAILED" ELSE "SUCCESS"

\* normalizeStatus, and the service's reading of it: an accepted payment
\* whose outcome is open is UNKNOWN.
Observed(p) == CASE p = "paid"   -> "SUCCESS"
                 [] p = "failed" -> "FAILED"
                 [] OTHER        -> "UNKNOWN"

\* The key a handler's disbursement carries: the transaction's own key in
\* processBatch, a key made from the attempt count retryFailed read in
\* retryFailed.
DisburseKey(w) ==
  IF job[w].op = "retry" THEN job[w].seen[job[w].cur].attempt + 1 ELSE 0

\* What disburse returns to the handler.
Answer(w, res, ref) ==
  job' = [job EXCEPT ![w].step = "store", ![w].res = res,
                     ![w].ptid = ref, ![w].pref = ref]

\* Mutant of NoAnswer: a lost answer is taken for a refusal.
NoAnswer_Failed == "FAILED"

\* What a disbursement without an answer amounts to.
NoAnswer == "UNKNOWN"

\* providerGateway.disburse: the request reaches the provider or not, and the
\* answer reaches the handler or not; without an answer the outcome is
\* UNKNOWN and no provider reference is learnt.
Disburse(w) ==
  LET t == job[w].cur
      k == DisburseKey(w)
  IN /\ job[w].step = "call"
     /\ \/ /\ \E p \in IF provider[t][k] = "none"
                       THEN {"pending", "paid", "failed"}
                       ELSE {provider[t][k]} :
                /\ provider' = [provider EXCEPT ![t][k] = p]
                /\ Answer(w, Observed(p), k) \/ Answer(w, NoAnswer, NoRef)
           /\ submitted' = [submitted EXCEPT ![t][k] = @ + 1]
        \/ /\ Answer(w, NoAnswer, NoRef)
           /\ UNCHANGED <<provider, submitted>>
     /\ UNCHANGED <<batch, rows, tx, ledger, calls, hist>>

\* External: the provider decides a payment it had accepted.
ProviderDecides(t, k) ==
  /\ provider[t][k] = "pending"
  /\ \E p \in {"paid", "failed"} : provider' = [provider EXCEPT ![t][k] = p]
  /\ UNCHANGED <<batch, rows, tx, submitted, ledger, job, calls, hist>>

-----------------------------------------------------------------------------
(* processBatch                                                            *)

\* The batch is read; PROCESSING and RECONCILED are refused.
StartProcess(w) ==
  /\ batch \notin {"ABSENT", "PROCESSING", "RECONCILED"}
  /\ Start(w, [Idle EXCEPT !.op = "process", !.step = "mark"])
  /\ UNCHANGED <<batch, rows, tx, provider, submitted, ledger, hist>>

\* The conditional update to PROCESSING; its match count is not looked at.
MarkProcessing(w) ==
  /\ At(w, "process", "mark")
  /\ batch' = IF batch \in {"UPLOADED", "PARTIALLY_PROCESSED", "FAILED"}
              THEN "PROCESSING" ELSE batch
  /\ Goto(w, "list")
  /\ UNCHANGED <<rows, tx, provider, submitted, ledger, calls, hist>>

Claimable == {"PENDING", "RETRYING"}

ListClaimable(w) ==
  /\ At(w, "process", "list")
  /\ job' = [job EXCEPT ![w].step = "next",
                        ![w].todo = {t \in rows : tx[t].status \in Claimable}]
  /\ UNCHANGED <<batch, rows, tx, provider, submitted, ledger, calls, hist>>

\* Mutant of Claim: the claim is not conditional on the status.
Claim_Unconditional(w, t) ==
  /\ At(w, "process", "next")
  /\ t \in job[w].todo
  /\ tx' = [tx EXCEPT ![t].status = "PROCESSING", ![t].attempt = @ + 1]
  /\ job' = [job EXCEPT ![w].step = "call", ![w].cur = t,
               ![w].seen[t] = [Read(tx[t]) EXCEPT !.attempt = @ + 1]]
  /\ steady' = {}
  /\ UNCHANGED <<batch, rows, provider, submitted, ledger, calls, overtaken>>

\* findOneAndUpdate guarded by the status: the handler goes on with the
\* transaction only if it claimed it.
Claim(w, t) ==
  /\ At(w, "process", "next")
  /\ t \in job[w].todo
  /\ IF tx[t].status \in Claimable
     THEN /\ tx' = [tx EXCEPT ![t].status = "PROCESSING",
                              ![t].attempt = @ + 1]
          /\ job' = [job EXCEPT ![w].step = "call", ![w].cur = t,
                       ![w].seen[t] = [Read(tx[t]) EXCEPT !.attempt = @ + 1]]
          /\ steady' = {}
     ELSE /\ job' = [job EXCEPT ![w].todo = @ \ {t}]
          /\ UNCHANGED <<tx, steady>>
  /\ UNCHANGED <<batch, rows, provider, submitted, ledger, calls, overtaken>>

-----------------------------------------------------------------------------
(* retryFailed                                                             *)

\* Mutant of Retryable: an ambiguous outcome is retried too.
Retryable_Ambiguous == {"FAILED", "UNKNOWN"}

Retryable == {"FAILED"}

\* The FAILED transactions are read.  (The guard on MaxKey bounds the model.)
StartRetry(w) ==
  /\ \A t \in rows : tx[t].attempt < MaxKey
  /\ Start(w, [Idle EXCEPT !.op = "retry", !.step = "next",
                 !.todo = {t \in rows : tx[t].status \in Retryable},
                 !.seen = Snapshot])
  /\ UNCHANGED <<batch, rows, tx, provider, submitted, ledger, hist>>

\* The update to RETRYING is conditional on FAILED, but the handler goes on
\* to disburse whether or not it matched.
MarkRetrying(w, t) ==
  /\ At(w, "retry", "next")
  /\ t \in job[w].todo
  /\ IF tx[t].status \in Retryable
     THEN /\ tx' = [tx EXCEPT ![t].status = "RETRYING", ![t].attempt = @ + 1]
          /\ steady' = {}
     ELSE UNCHANGED <<tx, steady>>
  /\ job' = [job EXCEPT ![w].step = "call", ![w].cur = t]
  /\ UNCHANGED <<batch, rows, provider, submitted, ledger, calls, overtaken>>

-----------------------------------------------------------------------------
(* reconcileBatch                                                          *)

Unresolved == {"PROCESSING", "UNKNOWN", "PENDING"}

\* The reference a payment is asked for by.
Reference(r) == IF r.ptid # NoRef THEN r.ptid ELSE r.pref

StartReconcile(w) ==
  /\ batch # "ABSENT"
  /\ Start(w, [Idle EXCEPT !.op = "reconcile", !.step = "next",
                 !.todo = {t \in rows : /\ tx[t].status \in Unresolved
                                        /\ Reference(tx[t]) # NoRef},
                 !.seen = Snapshot])
  /\ UNCHANGED <<batch, rows, tx, provider, submitted, ledger, hist>>

\* providerGateway.getStatus of the reference read at the start; an error is
\* an UNKNOWN status.
QueryProvider(w, t) ==
  /\ At(w, "reconcile", "next")
  /\ t \in job[w].todo
  /\ LET k == Reference(job[w].seen[t]) IN
       \E res \in {Observed(provider[t][k]), "UNKNOWN"} :
         job' = [job EXCEPT ![w].step = "store", ![w].cur = t,
                            ![w].res = res, ![w].pref = k]
  /\ UNCHANGED <<batch, rows, tx, provider, submitted, ledger, calls, hist>>

-----------------------------------------------------------------------------
(* handleProviderWebhook                                                   *)

\* What the provider may be telling about a payment it holds: its present
\* state, or, in a callback that was delayed or repeated, that it is open.
Reportable(p) == {Observed(p), "UNKNOWN"}

\* A callback for payment k finds the transaction that refers to k, by either
\* of its references; it may repeat the reference or leave it out.  When it
\* brings nothing new (the error code, left out here, may be new) the update
\* is skipped.
StartWebhook(w, t, k) ==
  /\ t \in rows
  /\ k \in {tx[t].ptid, tx[t].pref}
  /\ provider[t][k] # "none"
  /\ \E res \in Reportable(provider[t][k]), r \in {k, NoRef} :
       \E step \in {"store"} \cup
            (IF tx[t].status # res \/ tx[t].pref # r THEN {}
             ELSE IF res = "SUCCESS" THEN {"post"} ELSE {"stats"}) :
         Start(w, [Idle EXCEPT !.op = "webhook", !.step = step, !.cur = t,
                               !.todo = {t}, !.seen[t] = Read(tx[t]),
                               !.res = res, !.ptid = k, !.pref = r])
  /\ UNCHANGED <<batch, rows, tx, provider, submitted, ledger, hist>>

-----------------------------------------------------------------------------
(* The outcome is stored, and a success is posted to the ledger            *)

\* What the handler writes into the transaction it handles.  A reference the
\* answer does not give is the one the handler had read.
Recorded(w, r) ==
  LET j    == job[w]
      old  == j.seen[j.cur]
      ptid == IF j.ptid # NoRef THEN j.ptid ELSE old.ptid
      pref == IF j.pref # NoRef THEN j.pref ELSE old.pref
      recc == j.res = "FAILED"
  IN CASE j.op \in {"process", "retry"} ->
            [r EXCEPT !.status = j.res, !.ptid = ptid, !.pref = pref]
       [] j.op = "webhook" ->
            [r EXCEPT !.status = j.res, !.ptid = ptid, !.pref = pref,
                      !.reconciled = recc]
       [] OTHER ->
            [r EXCEPT !.status = j.res, !.pref = pref, !.reconciled = recc]

\* Mutant of Posts: an ambiguous outcome is posted as well.
Posts_Ambiguous == {"SUCCESS", "UNKNOWN"}

\* The outcomes that are handed to finalizeFinancialPosting.
Posts == {"SUCCESS"}

\* The attempt a payment was asked for in: processBatch asks in the first,
\* under the transaction's own key.
AttemptOf(k) == IF k = 0 THEN 1 ELSE k

\* History: the handler stores the refusal of another attempt's payment than
\* the present one's.
Belated(w) == /\ job[w].res = "FAILED"
              /\ AttemptOf(Reference(job[w])) # tx[job[w].cur].attempt
Note(w) ==
  /\ overtaken' = IF Belated(w) THEN overtaken \cup {job[w].cur} ELSE overtaken
  /\ steady' = {}

\* Mutant of StoreOutcome: only the handlers that stamp reconciledAt post.
StoreOutcome_NoPost(w) ==
  /\ job[w].step = "store"
  /\ tx' = [tx EXCEPT ![job[w].cur] = Recorded(w, @)]
  /\ IF job[w].res \in Posts /\ job[w].op \in {"reconcile", "webhook"}
     THEN Goto(w, "post") ELSE Advance(w)
  /\ Note(w)
  /\ UNCHANGED <<batch, rows, provider, submitted, ledger, calls>>

StoreOutcome(w) ==
  /\ job[w].step = "store"
  /\ tx' = [tx EXCEPT ![job[w].cur] = Recorded(w, @)]
  /\ IF job[w].res \in Posts THEN Goto(w, "post") ELSE Advance(w)
  /\ Note(w)
  /\ UNCHANGED <<batch, rows, provider, submitted, ledger, calls>>

\* The idempotency key of the posting: the transaction's own.
PostingKey(w) == 0

\* financialGateway.postPayrollDisbursement: the canonical gateway posts, or
\* it is not registered or answers otherwise.
Post(w) ==
  /\ job[w].step = "post"
  /\ \/ /\ ledger' = ledger \cup {<<job[w].cur, PostingKey(w)>>}
        /\ job' = [job EXCEPT ![w].step = "settle", ![w].out = "POSTED"]
     \/ /\ job' = [job EXCEPT ![w].step = "settle",
                              ![w].out = "REQUIRES_REVIEW"]
        /\ UNCHANGED ledger
  /\ UNCHANGED <<batch, rows, tx, provider, submitted, calls, hist>>

\* reconcileBatch and handleProviderWebhook read the result back to stamp
\* reconciledAt; processBatch and retryFailed go on.
SettlePosting(w) ==
  /\ job[w].step = "settle"
  /\ tx' = [tx EXCEPT ![job[w].cur].posting = job[w].out]
  /\ IF job[w].op \in {"reconcile", "webhook"}
     THEN Goto(w, "reread") ELSE Advance(w)
  /\ steady' = {}
  /\ UNCHANGED <<batch, rows, provider, submitted, ledger, calls, overtaken>>

RereadPosting(w) ==
  /\ job[w].step = "reread"
  /\ IF tx[job[w].cur].posting = "POSTED" THEN Goto(w, "stamp") ELSE Advance(w)
  /\ UNCHANGED <<batch, rows, tx, provider, submitted, ledger, calls, hist>>

StampReconciled(w) ==
  /\ job[w].step = "stamp"
  /\ tx' = [tx EXCEPT ![job[w].cur].reconciled = TRUE]
  /\ Advance(w)
  /\ UNCHANGED <<batch, rows, provider, submitted, ledger, calls, hist>>

-----------------------------------------------------------------------------
(* refreshBatchStats: four reads of the transactions, then one write       *)

With(S) == {t \in rows : tx[t].status \in S}
PostedSuccesses == {t \in With({"SUCCESS"}) : tx[t].posting = "POSTED"}

\* The loop is over.  retryFailed without a batch id does not refresh.
EndLoop(w) ==
  /\ job[w].step = "next"
  /\ job[w].todo = {}
  /\ \/ Goto(w, "stats")
     \/ job[w].op = "retry" /\ job' = [job EXCEPT ![w] = Idle]
  /\ UNCHANGED <<batch, rows, tx, provider, submitted, ledger, calls, hist>>

ReadStats(w) ==
  /\ job[w].step = "stats"
  /\ job' = [job EXCEPT ![w].step = "count",
               ![w].view.success = Cardinality(With({"SUCCESS"})),
               ![w].view.failed  = Cardinality(With({"FAILED"}))]
  /\ steady' = steady \cup {w}
  /\ UNCHANGED <<batch, rows, tx, provider, submitted, ledger, calls,
                 overtaken>>

ReadCount(w) ==
  /\ job[w].step = "count"
  /\ job' = [job EXCEPT ![w].step = "finals",
               ![w].view.count = Cardinality(rows)]
  /\ UNCHANGED <<batch, rows, tx, provider, submitted, ledger, calls, hist>>

ReadFinals(w) ==
  /\ job[w].step = "finals"
  /\ job' = [job EXCEPT ![w].step = "posteds",
               ![w].view.final = Cardinality(With({"SUCCESS", "FAILED"}))]
  /\ UNCHANGED <<batch, rows, tx, provider, submitted, ledger, calls, hist>>

ReadPosteds(w) ==
  /\ job[w].step = "posteds"
  /\ job' = [job EXCEPT ![w].step = "publish",
               ![w].view.posted = Cardinality(PostedSuccesses)]
  /\ UNCHANGED <<batch, rows, tx, provider, submitted, ledger, calls, hist>>

\* Mutant of BatchStatusOf: reconciled as soon as every row is final.
BatchStatusOf_Final(v) ==
  IF v.count > 0 /\ v.final = v.count THEN "RECONCILED"
  ELSE IF v.success + v.failed > 0 THEN "PARTIALLY_PROCESSED"
  ELSE "PROCESSING"

BatchStatusOf(v) ==
  LET n == v.count IN
  CASE n > 0 /\ v.final = n /\ v.posted = v.success -> "RECONCILED"
    [] n > 0 /\ v.success = n                       -> "PROCESSED"
    [] n > 0 /\ v.failed = n                        -> "FAILED"
    [] v.success + v.failed > 0                     -> "PARTIALLY_PROCESSED"
    [] OTHER                                        -> "PROCESSING"

PublishStats(w) ==
  /\ job[w].step = "publish"
  /\ batch' = BatchStatusOf(job[w].view)
  /\ job' = [job EXCEPT ![w] = Idle]
  /\ steady' = steady \ {w}
  /\ UNCHANGED <<rows, tx, provider, submitted, ledger, calls, overtaken>>

-----------------------------------------------------------------------------

\* The handler dies at an await; what it has written stays.
Abort(w) ==
  /\ Aborts
  /\ job[w].step # "idle"
  /\ job' = [job EXCEPT ![w] = Idle]
  /\ steady' = steady \ {w}
  /\ UNCHANGED <<batch, rows, tx, provider, submitted, ledger, calls,
                 overtaken>>

Begin(w) ==
  \/ UploadCreate(w) \/ StartProcess(w) \/ StartRetry(w) \/ StartReconcile(w)
  \/ \E t \in Txs, k \in Keys : StartWebhook(w, t, k)

Continue(w) ==
  \/ UploadInsert(w) \/ MarkProcessing(w) \/ ListClaimable(w)
  \/ \E t \in Txs : Claim(w, t) \/ MarkRetrying(w, t) \/ QueryProvider(w, t)
  \/ Disburse(w) \/ StoreOutcome(w) \/ Post(w) \/ SettlePosting(w)
  \/ RereadPosting(w) \/ StampReconciled(w)
  \/ EndLoop(w) \/ ReadStats(w) \/ ReadCount(w) \/ ReadFinals(w)
  \/ ReadPosteds(w) \/ PublishStats(w)

Next ==
  \/ \E w \in Workers : Begin(w) \/ Continue(w) \/ Abort(w)
  \/ \E t \in Txs, k \in Keys : ProviderDecides(t, k)

Spec == Init /\ [][Next]_vars

\* The event loop runs every pending continuation.
FairSpec == Spec /\ \A w \in Workers : WF_vars(Continue(w))

-----------------------------------------------------------------------------
(* What the component promises.                                            *)

Paid(t)    == {k \in Keys : provider[t][k] = "paid"}
Refused(t) == {k \in Keys : provider[t][k] = "failed"}
Posted(t)  == {k \in Keys : <<t, k>> \in ledger}
Open(t)    == {k \in Keys : provider[t][k] \in {"pending", "paid"}}

\* A final status is evidence: whatever handlers, callbacks and crashes
\* interleave, a transaction is SUCCESS only if the provider made one of its
\* payments, and FAILED only if the provider refused one for good; an
\* ambiguous answer never becomes either (normalizeStatus and its uses).
ProviderEvidence ==
  \A t \in Txs : /\ tx[t].status = "SUCCESS" => Paid(t) # {}
                 /\ tx[t].status = "FAILED"  => Refused(t) # {}

\* The ledger follows the money: a transaction is marked POSTED only if the
\* gateway holds its posting, and the gateway holds a posting only for an
\* employee the provider has paid (finalizeFinancialPosting and its callers).
LedgerEvidence ==
  \A t \in Txs : /\ tx[t].posting = "POSTED" => Posted(t) # {}
                 /\ Posted(t) # {} => Paid(t) # {}

\* A retry is sent to the provider only for a transaction of which the
\* provider has refused a payment (retryFailed reads FAILED transactions).
RetryNeedsRefusal ==
  \A t \in Txs, k \in Keys :
    (k > 0 /\ submitted[t][k] > 0) => Refused(t) # {}

\* Until the provider refuses a payment of it, a transaction is sent at most
\* once, however many handlers of any kind run on the batch at the same time
\* and wherever they die: the claim is what prevents it (processBatch).
SubmittedOnce ==
  \A t \in Txs, k \in Keys : Refused(t) = {} => submitted[t][k] <= 1

\* Of the payments of a transaction all but one have been refused for good:
\* nobody is paid twice, or may still be.  The one thing that breaks it is a
\* refusal stored against another attempt than it is about (callbacks,
\* reconcileBatch, processBatch claiming a RETRYING row and retries that were
\* overtaken by others compare no attempts).  Nothing else does, whichever
\* handlers race for the row: retryFailed sends its retry also when its update
\* from FAILED misses, but to a retry of the same attempt it is the same key.
OneOpenPayment ==
  \A t \in Txs \ overtaken : \A k, l \in Open(t) : k = l

\* Whatever handlers run and wherever they die: a handler that publishes
\* RECONCILED, and since whose first query nobody has written a transaction,
\* publishes what is true - every row is final and every success is posted.
\* (refreshBatchStats makes several queries; with a write between them the
\* counts are of different moments.)
HonestReconciliation ==
  [][\A w \in Workers :
       PublishStats(w) /\ w \in steady /\ batch' = "RECONCILED" =>
         \A t \in rows : \/ tx[t].status = "FAILED"
                         \/ tx[t].status = "SUCCESS" /\ tx[t].posting = "POSTED"
    ]_vars

\* A success nobody has posted, or is posting.
Stranded(t) ==
  /\ tx[t].status = "SUCCESS"
  /\ tx[t].posting = "PENDING"
  /\ \A w \in Workers : ~(job[w].cur = t /\ job[w].step \in {"post", "settle"})

\* Handlers of all kinds may overwrite each other's outcomes and postings, but
\* only one that dies between storing a success and settling its posting
\* leaves the success to nobody (reconcileBatch would not look at it again).
StrandedByDeath ==
  [][\A t \in Txs : Stranded(t)' => Stranded(t) \/ \E w \in Workers : Abort(w)
    ]_vars

\* What is told of a transaction.
Told(t) == CASE tx[t].status = "SUCCESS" -> "success"
             [] tx[t].status = "FAILED"  -> "failed"
             [] OTHER                    -> "open"

Promise == INSTANCE PayrollPromise WITH
  Employees <- Txs,
  Payments  <- Keys,
  money     <- provider,
  report    <- [t \in Txs |-> Told(t)],
  posted    <- [t \in Txs |-> Posted(t)],
  confirmed <- {t \in Txs : tx[t].posting = "POSTED"}

\* Handlers that interleave and die keep the promise: when a payment is asked
\* for, an outcome stored or a posting made, the money justifies it then.
ImplementsPromise == Promise!Spec

\* Every observed success is handed to the financial gateway in the end, by
\* whichever handler observed it, as long as no handler dies.
SuccessIsPosted ==
  \A t \in Txs : (tx[t].status = "SUCCESS") ~> (tx[t].posting # "PENDING")

-----------------------------------------------------------------------------
(* What the documents say, and the code does not do.                       *)

\* docs/payroll/REMEDIATION_REPORT_2026-09-30.md:100: "UNKNOWN is not
\* automatically retried because a retry after an ambiguous provider outcome
\* could duplicate a real-world disbursement."  A repeated callback of the
\* first, refused payment turns the ambiguous retry into FAILED.
PaidAtMostOnce ==
  \A t \in Txs : \A k, l \in Paid(t) : k = l

=============================================================================
