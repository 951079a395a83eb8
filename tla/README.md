# Verification of TITech Community Capital

TLA+ models of the workflows on which money, consent or a member's work depends,
the TLC runs that check them on small instances, and the theorems about them that TLAPS checks for every
instance. Paths are relative to the repository root; line numbers of every
definition are in `PROJECT.json` under `map`.

1. [The system and its parts](#1-the-system-and-its-parts)
2. [Payroll](#2-payroll)
3. [Consent and capital data sharing](#3-consent-and-capital-data-sharing)
4. [Transaction outbox](#4-transaction-outbox)
5. [Payment idempotency](#5-payment-idempotency)
6. [Meetings and offline drafts](#6-meetings-and-offline-drafts)
7. [Bounds, deadlock, symmetry](#7-bounds-deadlock-symmetry)
8. [Proved, only checked, not modelled](#8-proved-only-checked-not-modelled)
9. [Plan](#9-plan)
10. [Running it](#10-running-it)

## 1. The system and its parts

The backend is one Node.js application over MongoDB with a few worker processes.
Every HTTP handler is an asynchronous function: handlers interleave at their
`await`s, in one process and across processes, and share nothing but database
documents. Almost nothing runs in a database transaction (the financial
boundary is the exception), so a handler is a sequence of single-document reads
and updates, and the process may die between any two. Whether an update is
*conditional* on what was read before it decides most of what is right or wrong
here; it is what the models keep most carefully.

| Component | State it keeps | Operations | Talks to | What is hard | What makes it correct |
|---|---|---|---|---|---|
| **Payroll** `modules/payroll` | batches, payroll transactions | upload, process, retry, reconcile, provider webhook | mobile-money provider, ledger gateway | concurrent handlers, ambiguous answers, late callbacks, crashes | nobody paid twice; statuses and postings backed by what the provider did |
| **Consent and capital sharing** `modules/consent`, `modules/capital` | consent records, share requests | grant, withdraw, expire; request, approve, mark shared, revoke | insurance and retirement use the consents too | consent checked before an await and used after it | no sharing outside the consent, none after it lapsed, two pairs of eyes |
| **Transaction outbox** `modules/transactions/{workers,repositories}` | outbox records with lease and attempt count | create, claim, heartbeat, complete, fail, dead-letter, recover, replay, cancel, shutdown | transport (queue, webhook, bus) | competing workers, expiring leases, crashes, replays | at least once or dead-lettered, bounded duplicates, no lost event |
| **Payment idempotency** `modules/payment/paymentIdempotencyService.js` | one versioned record per key, with a lease | reserve, begin, complete, fail, mark unknown, recover, release | money path, settlement workflow, repository | calls decide on a record they read before, or were handed | one result per key, live operations not taken over |
| **Meetings** `modules/meetings` | one document with a revision | save and publish minutes, edit everything else | offline synchronisation | requests in flight while the minutes are published | published minutes are final |
| **Offline synchronisation** `modules/offline`, frontend `offline`, `hooks` | the device's outbox; events and results at the server | keep, synchronise, process, answer, remove | meetings, browser store | overlapping syncs, lost answers, crashes | a draft is applied once or kept |
| Financial boundary `services/financial/financialTransaction.service.js` | – (drives a MongoDB session) | execute, commit with retry, complete or fail the idempotency record | idempotency, repositories, caller's operation | unknown commit results, retry of a committed transaction | one effect per idempotency key, never FAILED after a commit |
| Financial operations `services/financial/financialOperation.service.js` | accounts, ledger entries, loans | contribute, withdraw, transfer, disburse, repay, reverse | boundary, ledger | reversal of a reversal, concurrent balance updates | debits equal credits, balances equal the ledger |
| Idempotency `services/idempotency` | idempotency records with a lease | acquire, heartbeat, complete, fail, recover stale, resolve, purge | HTTP middleware, boundary | stale owners, recovery racing completion | one owner at a time, a completed key is never executed again |
| Golden money path harness `testing/goldenMoneyPath` | in-memory double of the above | – | tests | – | reference for the boundary's promises |
| Agriculture `modules/agriculture` | contracts, deliveries, settlements | verify delivery, create and confirm settlement | provenance | check-then-update on a delivery | a delivery settles once |
| Insurance `modules/insurance` | products, enrolments, premiums, claims | enrol, pay, submit and decide a claim | consents, documents | consent and product status change between steps | no enrolment without the subject's own consent |
| Retirement, agent float, education, identity onboarding, secure documents | one document with a status each | create, review, close | provider or storage | maker and checker, status races | review by another, lifecycle order |
| Audit chain `modules/audit` | hash-linked entries | append, verify | all services | concurrent appends read the same tail | one chain |
| Transaction sagas, locks, recovery `modules/transactions` | saga contexts, locks, timeouts | start, step, compensate, recover | outbox | compensation after partial failure | all steps or all compensations |
| Ledger, wallets, loans, providers, statements, queues, authentication, start-up | – | – | – | – | see section 8 |

`PROJECT.json` lists each with its sources, and under `hazards` the places in the
modelled code where a test would hardly reach.

The components in bold are modelled. They were chosen because money, personal
data or somebody's work leaves their hands there, and because their correctness
rests on interleavings:

| Module | What it is |
|---|---|
| `PayrollPromise.tla` | what payroll promises, without handlers |
| `Payroll.tla` | payroll handlers, provider and ledger gateway |
| `PayrollProofs.tla` | theorems about it, and that it implements `PayrollPromise` |
| `PayrollBatchProofs.tla` | theorem about the batch's status |
| `PayrollPaymentProofs.tla` | theorems about double payments and unposted successes |
| `CapitalSharing.tla` | consents and share requests |
| `CapitalSharingProofs.tla` | theorems about it |
| `OutboxDelivery.tla` | what the outbox promises, without workers |
| `Outbox.tla` | outbox records and the workers that deliver them |
| `OutboxProofs.tla` | theorems about it, and that it implements `OutboxDelivery` |
| `OutboxBudgetProofs.tla` | theorem about the attempts an accident costs |
| `PaymentOutcome.tla` | what a payment's key promises, without leases or versions |
| `PaymentIdempotency.tla` | the service over its repository, and its callers |
| `PaymentIdempotencyProofs.tla` | theorems about it, and that it implements `PaymentOutcome` |
| `MinutesRegister.tla` | what the minutes of a meeting promise, without revisions or syncs |
| `MeetingMinutes.tla` | the meeting document and the requests that edit it |
| `OfflineDrafts.tla` | composes it with a device, its outbox and the sync service |
| `OfflineDraftsProofs.tla` | theorems about both, and that they implement `MinutesRegister` |
| `MCPayroll.tla`, `MCCapitalSharing.tla`, `MCOutbox.tla`, `MCPaymentIdempotency.tla`, `MCOfflineDrafts.tla` | symmetry sets and constant values of the runs |

The specifications have the same form. A handler, call or job is a record
in a variable (`job`, `jobs`, `call`, `edit`, `sync`) that holds what the code keeps in local variables
across an `await`; each action is one stretch of code between two awaits, so an
action performs one database or remote call. What the code reads before an await
and uses after it stays in the record, however stale it has become. Operators
whose name has a suffix after an underscore (`Claim_NotCounted`) are altered
copies of the definition that follows them, the way a plausible mistake would
alter the code; each property is shown to fail under one of them.

## 2. Payroll

### Model

An employer uploads a batch; `processBatch` sends each row to a mobile-money
provider; `retryFailed` sends refused rows again under a new key;
`reconcileBatch` asks the provider about open rows; `handleProviderWebhook`
takes its callbacks; each of them posts an observed success to the ledger and
recomputes the status of the batch.

| Variable | Code |
|---|---|
| `batch` | `PayrollBatch.status` |
| `rows`, `tx` | the `PayrollTransaction` documents: status, financial posting status, attempt count, provider references, `reconciledAt` |
| `provider`, `ledger` | external: payments by idempotency key, postings accepted by the canonical gateway |
| `job` | one running handler per worker, with its loop and what it has read |
| `submitted` | history: how often a key was sent |
| `overtaken` | history: rows against which the refusal of another attempt than the present one was stored |
| `steady` | history: handlers that are counting, and since whose first query nobody has written a row (but for `reconciledAt`) |
| `calls` | bound on handlers started |

The five handlers are `Begin` actions followed by `Continue` actions, one per
await: `MarkProcessing`, `ListClaimable`, `Claim`, `MarkRetrying`, `Disburse`,
`QueryProvider`, `StoreOutcome`, `Post`, `SettlePosting`, `RereadPosting`,
`StampReconciled`, and the four reads and one write of `refreshBatchStats`.
`Abort` ends a handler at any await: process crash, database error or an
exception of a gateway, none of which the handlers catch.

The provider is the environment. It holds one payment per key, decides it at
once or later (`ProviderDecides`), may lose the request or the answer, and may
send callbacks late, repeatedly, with or without a reference. `Observed` is
`normalizeStatus`: an open payment is `UNKNOWN`.

### What is checked

| Run | Instance | Shows |
|---|---|---|
| `payroll` | 2 handlers, 1 row, 5 calls, 3 retries, crashes; 1.8 million states | `ProviderEvidence`, `LedgerEvidence`, `RetryNeedsRefusal`, `SubmittedOnce`, `OneOpenPayment`, `StrandedByDeath`, `ImplementsPromise`, types |
| `payroll_batch` | 2 handlers, 2 rows, 3 calls, crashes and partial uploads; 0.25 million states | `HonestReconciliation` |
| `payroll_live` | 2 handlers, 1 row, 4 calls, no crash | `SuccessIsPosted` |
| `payroll_double_pay` | 1 handler, 1 row, 5 calls | that `PaidAtMostOnce` **fails** |

- `ProviderEvidence`: a final status is never invented. Whatever interleaves,
  SUCCESS means that some payment of the row was made, FAILED that one was refused.
- `LedgerEvidence`: the ledger follows the money.
- `RetryNeedsRefusal`, `SubmittedOnce`: a row is asked for once until the
  provider has refused a payment of it; only then is it asked for again. The
  second rests on the conditional claim in `processBatch`, since the batch's own
  status guard does not exclude a second handler (it ignores its match count).
- `ImplementsPromise`: the same as a refinement. `PayrollPromise.tla` knows
  employees, their payments, what is reported and what is posted; a payment goes
  from asked for to paid or refused and never back, a second one is asked for
  only after a refusal, a report or a posting is made only when the money
  justifies it *at that moment*, and the ledger takes one posting per employee.
  The invariants say what each state may look like, the refinement what each step
  may do. It does not promise that nobody is paid twice; the code does not keep that.
- `OneOpenPayment`: all payments of a row but one have been refused, unless the
  refusal of one attempt was stored when another was the present one
  (`overtaken`). Double payments have this one root cause, whichever handlers race.
- `StrandedByDeath`: handlers overwrite each other's outcomes and postings, but only
  one that dies between storing SUCCESS and settling the posting leaves a success
  that is not posted and that nobody is posting; `reconcileBatch` skips SUCCESS.
- `SuccessIsPosted`: without crashes every observed success is handed over.
- `HonestReconciliation`: a handler that publishes RECONCILED, and since whose first
  query nobody has written a row, publishes the truth, with other handlers
  running. When a write falls between the four queries of `refreshBatchStats`, the
  counts are of different moments, and nothing is promised of the status; nor
  does it compare the rows with the upload's, of which only a part may be there.

### What the code does not do

`PaidAtMostOnce` fails. A first payment is refused and a retry's answer is lost:
the row is UNKNOWN, and by the remediation report must not be retried. A repeated
callback of the *first* payment now finds the row by its old reference and sets
it FAILED; the next `retryFailed` sends a third payment, and the provider makes both.
The update in `handleProviderWebhook` compares neither the attempt nor the status.
It is not the only way: `processBatch` claims a RETRYING row and sends the first
key again, `reconcileBatch` asks about the reference of an earlier attempt, which a
disbursement without an answer may also write back over a newer one, and a retry
that was overtaken by others sends the key of its own attempt. What they share is
that the refusal of one attempt is stored against another; that it takes
such a refusal is `OneOpenPayment`.

Two other divergences from the documents follow from the same unconditional
updates and are visible in the actions: `retryFailed` sends a retry whether or
not its update from FAILED matched (`MarkRetrying`), and a late callback takes a
SUCCESS back to UNKNOWN (`StoreOutcome`).

### Proof

`PayrollProofs.tla` proves type correctness, the evidence and the retry properties
for any workers, any finite set of rows and any bounds. Three inductive
invariants build on each other: `TInv` (types, and that a busy handler handles a
row of its own list), `EInv` (what a handler carries across an await is true:
the outcome it will store was observed, the success it posts was paid, the rows
it retries were refused) and `SInv` (a row of which nothing was refused has not
been sent while it can be claimed, and at most one handler is about to send it).
`EInv` is needed because the statuses say nothing of what handlers hold; it is
inductive because `Paid`, `Refused` and `Posted` only grow (lemma `Grows`).

`PromiseImplemented` (`Spec => Promise!Spec`) goes through the steps that write a
transaction, a payment or a posting (lemma `Writes`) and finds each in the
promise: a claim reports the row open, a stored outcome is a report `EInv`
justifies, a disbursement under a key the provider has not seen is the first one
by `SInv` (`FirstOrRefused`) or follows a refusal, and a second posting carries
the same key, so it is a stutter. `HeldWasSent` ties the provider's payments to
the history of requests.

`PayrollBatchProofs.tla` proves `HonestReconciliation` for any number of handlers
and rows: what a handler that is steady has counted is still so (`CountHolds`,
`CountsHold`), a step that changes what is counted ends the steadiness of all
(`SameCounts`), and as many final rows as rows means that all are final.

`PayrollPaymentProofs.tla` proves `OneOpenPayment` and `StrandedByDeath`. The
invariant is `PaymentsInTurn`: keys are asked for in turn, each when all
below it are refused, because a retry has read a row that was FAILED, and FAILED is
the refusal of its last attempt. The last part is what a belated refusal breaks.
`JobRefusal` says that a refusal which a handler holds names the payment refused.

## 3. Consent and capital data sharing

### Model

A consent names subject, recipient, purpose and data categories and is valid in
a time window. A share request names the consent it relies on; the service
asserts the consent when the request is made, when another actor approves it and
when it is marked shared.

| Variable | Code |
|---|---|
| `consents` | `ConsentRecord`: terms, status, and where its window lies (`early`, `valid`, `over`) |
| `shares` | `CapitalShareRequest`: terms, consent, maker, approver, status |
| `job` | a service call past its first read |
| `lapsed` | history: the consents that had lapsed when the call began |
| `calls` | bound on calls started |

Calls are `StartX` (read and check), `AssertConsent` (the read of the consent in
the middle of approving and sharing) and the update. The updates of the share
request are conditional on nothing but its identity, as in the code. `Elapse` is
the clock. Recipient and purpose are compared together everywhere, so a *party*
stands for both.

### What is checked

| Run | Instance | Shows |
|---|---|---|
| `capital` | 2 concurrent calls, 2 actors, 2 parties, 2 categories, 2 consents, 6 calls | `ShareScope`, `FourEyes`, `NoSharingAfterLapse`, `RevocationRests`, types |
| `capital_subject` | 1 call at a time, 2 subjects | that `SubjectConsented` **fails** |

- `ShareScope`: a request never exceeds the consent it names.
- `FourEyes`: the approver is not the maker, also when approvals race.
- `NoSharingAfterLapse`: a call that begins after a consent was withdrawn or
  expired opens nothing under it. A call that began before may still go through;
  the code does not promise more.

- `RevocationRests`: the updates of a request are not conditional on the status
  that was read, so a call which a revocation overtakes brings the request back.
  Once those calls are over, no other does: a revoked request rests.

Two concurrent grants create two active consents. The model has these steps too;
the properties above hold in spite of them.

### What the code does not do

`docs/API.md` requires that the consent match the *subject* of the request.
`assertActiveConsent` is not given the subject, so a request about one member
passes on the consent of another (`SubjectConsented`). The insurance module
compares the subject itself; the capital module does not.

### Proof

`CapitalSharingProofs.tla` proves types, `ShareScope`, `FourEyes` and
`NoSharingAfterLapse` for any number of calls, actors, consents and requests. Its invariant
`IInv` adds what a pending call knows: a call about to store a request has terms
its consent covers, a call about to approve is not the maker's, and a call that
passed its assertion relies on a consent that had not lapsed when it began. The
last is inductive because consents only lapse, never come back.

`RevocationIsFinal` proves `RevocationRests`: a call that would approve or share
has read the request in another status (`BeginReads`), and goes on with the
request it has read (`ContinueRests`). `RevokedForGood` draws the temporal
consequence: a request that rests revoked is REVOKED from then on.

## 4. Transaction outbox

### Model

A service stores an event; workers poll for records that are due, claim them one
by one under a lease, publish each, and complete, retry or dead-letter it.

| Variable | Code |
|---|---|
| `record` | the outbox document: status, `attemptCount`, `claimedBy`, lease, whether it is due |
| `mode` | the worker's status, `DOWN` without a process |
| `found` | the rest of the batch `claimBatch` is going through |
| `jobs` | claimed records in a worker's queue or in `processEvent`, with `leaseLost` |
| `held` | what `shutdown` has still to release |
| `sent`, `reopened` | history: attempts delivered, and the attempt count at the last replay |
| `disruptions` | how much of the fault budget is spent |

Each repository update is one action with the filter of the code as its guard;
where the filter does not match, the action does what the worker does with the
conflict. `Publish` has three outcomes: delivered, refused, or delivered and
reported as an error. `Heartbeat`, `Recover` and the clock run beside it.
`fail` reads the record and then updates it: two actions (`Fail`, `Settle`).
The budget `MaxDisruptions` bounds what nobody promises to be rare: crashes,
shutdowns, database errors, leases that expire under a job that is still there,
and replays.

### What is promised

`OutboxDelivery.tla` is the producer's view: an event is open until it is
published, dead-lettered or cancelled; it is published only if delivered since it
was last opened; a cancelled one stays so. `ImplementsDelivery` maps a record to
that state and the history to "delivered since the last replay".

| Run | Instance | Shows |
|---|---|---|
| `outbox` | 2 events, 2 workers with ids of their own, 3 attempts, 2 disruptions; 3.1 million states | `OneDeliveryPerClaim`, `Fenced`, `PublishedIsDelivered`, `ClaimRespectsLease`, `AttemptsLeft`, `ImplementsDelivery`, types |
| `outbox_live` | the same with 1 disruption, without symmetry; 0.7 million states | `EventuallySettled` |
| `outbox_exhausted` | 1 event, 2 attempts, 2 disruptions | that `ExhaustedIsDeadLettered` **fails** |
| `outbox_shared_id` | 2 workers with one id | that `OnlyOneClaims` **fails** |

- `Fenced`: the update filters compare `workerId`, not the attempt. That a job
  which was overtaken by another claim can still do no harm is not obvious: it
  rests on a worker having one batch at a time and on ids being distinct.
- `OneDeliveryPerClaim`: duplicates are bounded by `maxAttempts`, over the whole
  life of an event, because a replay keeps the attempt count.
- `AttemptsLeft`: after one accident at most, a record that needs another claim
  has an attempt for it. This is the safety half of `EventuallySettled`; the
  finding below is that two accidents are too many.
- `EventuallySettled` holds with one disruption and at least two attempts: `fail`
  counts one attempt more than `claim` did, so that the last attempt is never
  used by a failing transport and is left for a crash. With two disruptions it
  does not hold, which is the finding below.

Fairness (`FairSpec`): each worker's loop, each worker's jobs and each worker's
shutdown and restart continue (`WF` of `Loop`, of some `Work`, of `Stop`), the
clock makes records due and lets orphaned leases expire. The event loop, timers
and a supervisor that restarts processes justify these; that the transport and
the database answer is assumed, since `publish` has no timeout. No fairness is
assumed of the recovery timer: `claim` takes expired leases over itself.

### What the code does not do

- The worker's header promises to "dead-letter exhausted events". Only `fail`
  dead-letters. When two attempts at an event are cut short (crash, lost lease,
  shutdown), its attempts can be used up: `claim` then refuses the record for
  ever, and it stays PENDING or PROCESSING (`ExhaustedIsDeadLettered`).
- `claim` says that only one worker can claim an event whose lease is valid. Its
  filter lets the same `workerId` claim it again, and `workerId` defaults to the
  host's name: two workers on a host both claim and publish it
  (`OnlyOneClaims`). Every theorem about the outbox assumes `DistinctIds`.

### Proof

`OutboxProofs.tla` proves, for any number of events, workers, attempts and
disruptions, and assuming `DistinctIds`, types, the four safety properties and
`Spec => Delivery!Spec`. The invariant says what a worker knows: a record is
claimed exactly while PROCESSING (`RecordInv`), a job's attempt has been counted
and was delivered before completion (`JobInv`), no two jobs share an attempt
(`OwnAttempt`), a worker has one job per event and none for an event it has
still to claim (`OneBatch`), what it has found is not under a live claim of its
own (`FoundInv`), and whoever owns a record has its last attempt (`Fenced`). `Fenced` alone is not inductive: without `OneBatch` a
worker could claim a second time while its old job still runs.

`OutboxBudgetProofs.tla` proves `AttemptsLeft`, assuming `DistinctIds` and two
attempts at least. The argument is a count: `fail` schedules a record again only
if two attempts are left (`RetryInv`, `Calm`), so that one is left when its next
claim is lost. It is not the whole invariant, because one shutdown could cost two
attempts: the worker goes on to claim what it had found and then gives it back.
`Budget` sets an attempt aside for what a leaving worker has found or has in
hand; `OneLeaves` says that there is one such worker, and `ModeInv` that it
finishes claiming before anything of its batch is started.

## 5. Payment idempotency

### Model

Every payment operation reserves its idempotency key, carries out its effect and
closes the key. A key has one record, inserted if absent and then changed only
by a compare-and-swap on `version`. What an operation decides, it decides on a
record it has read, or on the object an earlier call of the service returned.

| Variable | Code |
|---|---|
| `store` | the record of each key: status, version, fingerprint, lease, result |
| `now` | the clock, against which leases end |
| `call` | a call of the service between its read and its write |
| `hold` | the operation a client was told to carry out, and the object it holds |
| `told`, `ran` | history: completed results that were returned; how often an operation was carried out |
| `calls` | bound on calls |

`Reserve`, `Begin`, `Complete`, `Fail`, `MarkUnknown`, `Recover` and `Release` read
and decide; `Insert` and `Update` write, or find that somebody else has written and
do what the service does then. `Resolve` is the answer to a key that is taken:
another fingerprint is a conflict, a completed record is replayed, a lapsed lease
is handed out. `Run` is the client's own effect. A client may drop its operation
or crash at any step, and a write that succeeds may be answered with an error
(the audit after it may fail).

### What is promised

`PaymentOutcome.tla` is the caller's view: a key is absent, open, released,
failed, unknown or completed; only an open or failed one is completed, a
completed one keeps its result, and an unknown one is settled by recovery first.

| Run | Instance | Shows |
|---|---|---|
| `payment_idempotency` | 3 clients, 1 key, 2 fingerprints, lease 1, times 0..2, 6 calls; 0.5 million states | `ToldIsRecorded`, `OneRunPerLease`, `VersionIdentifies`, `LeaseRespected`, `ImplementsOutcome`, types |

- `ToldIsRecorded`: everyone who was ever answered with a completed result was
  answered with the recorded one, of the payload they had asked for.
- `OneRunPerLease`: until the lease of the first reservation is over, a key's
  operation is carried out at most once, with releases and restarts.
- `LeaseRespected`, `VersionIdentifies`: a takeover needs a lapsed lease *now*,
  not when the record was read; it rests on every change having a version.

### What the code does not do

The header (`paymentIdempotencyService.js:32`) lists "at most one side effect".
After the first lease, `reserve` returns a lapsed reservation to whoever asks,
without claiming it (`_resolveExistingReservation`): two retries after a crash
both run the operation. The model has both runs; `OneRunPerLease` ends with the
first lease for that reason. `recover` with outcome SUCCESS ends in `complete`,
which refuses an UNKNOWN record; an unknown operation is completed only by way
of `fail`. `begin` starts a released operation again.

### Proof

`PaymentIdempotencyProofs.tla` proves types, the four safety properties and
`Spec => Outcome!Spec` for any clients, keys, fingerprints, lease time and
bounds. What a call or a client has read is a copy of the record or out of date
(`Copy`, the heart of `CallInv` and `HoldInv`), so that a write that passes the
comparison was decided on the present record (`Fits`). An open record's lease
ends no earlier than the first one (`StoreInv`); until then a key has one holder,
who knows whether the operation was run, and none once released (`RunInv`).

## 6. Meetings and offline drafts

### Model

The minutes of a meeting are edited online, or kept as drafts on a device and
synchronised later. Online requests and drafts both compare the meeting's
`revision`; drafts also leave their operation id in the document.

| Variable | Code |
|---|---|
| `meeting` | the document: revision, minutes, whether published, `appliedOfflineOperationIds` (and, as history, the last revision that was not published) |
| `edit` | requests past their checks, before their update |
| `kept`, `outbox` | the events of the drafts, and which are in the browser's store |
| `sync` | an exchange: where the server is in `processEvent`, what is left of the batch, what the answer will say |
| `recorded`, `answered` | `OfflineEvent`s; results in the idempotency store |
| `faults` | how much of the fault budget is spent |

`MeetingMinutes` has the requests: `Save`, `Publish`, `Change` (read and check),
`Store` (the conditional update), `Lapse`. `OfflineDrafts` adds the device
(`Keep`, `Start`, `Answer`) and the service, one action per await of
`processEvent`: `Take` (saved result), `Find` (stored event), `Read`, `Apply` and
`Reread` (`applyOfflineMeetingDraft`), `Persist`, `SaveResult`. `Err` is an error
anywhere in it, which `executeWithRetry` retries or reports; `Lose` is a crash, a
lost answer or a closed tab. Syncs overlap: tabs share the store but not the
hook's lock, and a request that was cancelled goes on at the server.

A draft's text is not blank, and a page shows some earlier version of the meeting
that was not published. A request with a revision that is already stale is
refused and is no action.

### What is promised

`MinutesRegister.tla` knows no revisions, requests or syncs: published minutes are
final; a draft is applied once, and only while the meeting is the one it was
written for; the device lets go of it only then.

| Run | Instance | Shows |
|---|---|---|
| `offline_drafts` | 2 drafts, 2 syncs, 1 editor, 3 revisions, batches of 2, 1 fault, with fairness; 0.5 million states | `RemovedIsApplied`, `RefusedIsSuperseded`, `PublishedIsFinal`, `RevisionIdentifies`, `ImplementsRegister`, `EventuallyApplied`, `EventuallyRemoved`, types |

- `RemovedIsApplied`: no draft is lost, whatever is answered, lost or repeated.
- `RefusedIsSuperseded`: nobody is told to resolve a conflict over minutes that
  are there. The conditional update alone does not give this: when two syncs
  race, the loser's update misses, and only `Reread` tells the miss from a conflict.
- `PublishedIsFinal`, `RevisionIdentifies`: requests and drafts that were decided
  before a publication do no harm after it. The run has one editor, so that
  drafts are what a publication meets in it (a second editor takes it beyond five
  minutes); a save against a publication is covered by the theorems, which hold for
  any number of editors.
- `EventuallyApplied`: a draft is applied, or the meeting has moved on. Drafts
  that conflict are sent again for ever (they become FAILED, which
  `getPendingOfflineEvents` includes) and hold up nobody, provided a batch has
  room for all: 50 of them at the head of the list would.
- `EventuallyRemoved`: the device is told of it, *unless* some draft it keeps
  conflicts. A batch in which something failed and nothing is ACCEPTED is
  answered with 503 (`determineResponseStatus`), also if it has duplicates, and
  the hook makes nothing of a 503. A draft whose first answer was lost between
  the event and the result is a duplicate from then on, and stays on the device
  for as long as another one conflicts. `Unavailable` is that rule.

Fairness (`FairSpec`): some sync starts again and again (the hook's timer, every
60 s while a page is open), and each sync that is under way goes on (the server's
event loop and the browser's). Nothing is assumed of edits, of drafts being kept,
or of faults, which are finitely many.

### What the code does not do

- `transitionMeeting` passes `{ $set }`, a variable that is not declared: every
  transition throws, and no meeting leaves DRAFT. What needs a meeting that has
  (attendance, video rooms) is unreachable and left out.
- `loadMeetings` brings a page the new revision, but the text in the editor is
  set only when another meeting is selected. A save then sends text written for
  an older version with the newer revision, and overwrites what came between.
  The server does what it should; the model identifies the two.
- Start-up code gives the sync service no device service, store or handler, so
  that its routes answer NOT_READY; it is modelled with its dependencies.

### Proof

`OfflineDraftsProofs.tla` proves types, the four safety properties and
`Spec => Register!Spec` for any editors, texts, drafts, syncs and bounds. Lemma
`Lasting` is its centre: that a draft was applied, that it is superseded, that it
is out of date, or that it does not meet published minutes at its revision, stays
true through every step, because revisions are never used twice. `MeetingInv`
says the same of requests; `SyncInv` says what each step of a sync relies on;
`MeetingSteps` reduces all steps to the only two that change the document.

## 7. Bounds, deadlock, symmetry

Every bound is a constant named in a guard: `MaxCalls` (handlers or calls
started), `MaxKey` (retries), `MaxAttempts` (the code's own), `MaxDisruptions`,
`MaxNow` (the clock), `MaxRevision`, `MaxFaults`. Two actors are enough for each race these components have, as every race is
between a reader and one writer of the same document; two rows, consents or
events are used where a property relates several. Five payroll calls let a
batch be uploaded, processed, retried, called back and retried again, the
shortest double payment; three calls with two rows are an upload and two
handlers of any kind side by side; six capital calls let two consents be granted, one
withdrawn and a request made, approved and shared. Three attempts let an event
be taken over, retried and buried. Three clients race for one payment key: one
holds it, one takes it over, one still decides on what it read before; six calls
are enough for a release, a restart and a completion beside them, and times 0 to
2 for a lease of 1 to begin, end and begin again. Two drafts, two syncs and one
fault are the least with which an answer is lost, the draft is found to be a
duplicate, and another one fails in the same batch; revision 3 is reached by an
edit, and a publication of it. The theorems remove the bounds for safety.

`CHECK_DEADLOCK FALSE` everywhere: a batch may be finished, every call made or
every event settled, and then nothing more happens.

Symmetry is used in safety runs only: handlers, rows, actors, categories,
identifiers, workers and events are interchangeable in the specifications.
`outbox_shared_id`, `offline_drafts` and the liveness runs use none.

## 8. Proved, only checked, not modelled

| Theorem | Property |
|---|---|
| `PayrollProofs`: `TypeCorrect`, `FinalStatusIsEvidence`, `LedgerFollowsMoney`, `RetryFollowsRefusal`, `SentOnce`, `PromiseImplemented` | `TypeOK`, `ProviderEvidence`, `LedgerEvidence`, `RetryNeedsRefusal`, `SubmittedOnce`, `ImplementsPromise` |
| `PayrollBatchProofs`: `ReconciledIsReconciled` | `HonestReconciliation` |
| `PayrollPaymentProofs`: `DoublePaymentNeedsBelated`, `OnlyDeathStrands` | `OneOpenPayment`, `StrandedByDeath` |
| `CapitalSharingProofs`: `TypeCorrect`, `SharingInScope`, `ApprovedByAnother`, `WithdrawalIsEnforced`, `RevocationIsFinal` (and `RevokedForGood`) | `TypeOK`, `ShareScope`, `FourEyes`, `NoSharingAfterLapse`, `RevocationRests` |
| `OutboxProofs`: `TypeCorrect`, `DeliveredOncePerClaim`, `OvertakenJobsAreFenced`, `PublishedWasDelivered`, `LiveLeaseIsRespected`, `OutboxImplementsDelivery` | `TypeOK`, `OneDeliveryPerClaim`, `Fenced`, `PublishedIsDelivered`, `ClaimRespectsLease`, `ImplementsDelivery` |
| `OutboxBudgetProofs`: `OneAccidentIsAfforded` | `AttemptsLeft` |
| `PaymentIdempotencyProofs`: `TypeCorrect`, `AnswersAreRecorded`, `VersionsIdentify`, `RunsOncePerLease`, `LeasesAreRespected`, `OutcomeImplemented` | `TypeOK`, `ToldIsRecorded`, `VersionIdentifies`, `OneRunPerLease`, `LeaseRespected`, `ImplementsOutcome` |
| `OfflineDraftsProofs`: `TypeCorrect`, `RevisionsIdentify`, `RemovedWereApplied`, `RefusedAreSuperseded`, `PublishedStaysPublished`, `RegisterImplemented` | `TypeOK`, `RevisionIdentifies`, `RemovedIsApplied`, `RefusedIsSuperseded`, `PublishedIsFinal`, `ImplementsRegister` |

They assume the `ASSUME`s of the modules (finite rows, distinguished values
outside their sets, positive attempts) and, beyond those: for the outbox,
`DistinctIds` (two workers with one id break it, as `outbox_shared_id` shows);
for `OneAccidentIsAfforded`, two attempts (the code's default is 10, and with one
attempt a single crash uses it up).

Only checked with TLC: the four liveness properties `SuccessIsPosted`,
`EventuallySettled`, `EventuallyApplied` and `EventuallyRemoved`, because
fairness and `ENABLED` are out of the prover's reach. Every other property of a
passing run is a theorem. The four properties of the violation runs are false.

Left out of the modelled components: amounts, currencies, CSV parsing, dates,
evidence, hashes, audit rows, metrics, reports, HTTP and tenancy (every modelled
object belongs to one tenant; the filters always name it). In payroll, that a
callback may find no row is a callback that does not happen. In the outbox, the
repository's `update`, `resetForRetry` and unowned `deadLetter` (nothing calls
them), and the bounded sorted window of `findDue`: a batch holds every due
record, so that exhausted records at the head of the window, which would keep
others from ever being found, are not seen. In payment idempotency, provider
references, the callback and posting keys, retention and the status EXPIRED,
which nothing writes. In meetings and synchronisation, permissions, audit rows,
attendance and video rooms (no meeting gets that far), financial events, the
cursor and pull, receipts, device trust.

The outbox worker is CommonJS in a package of ES modules, and its repository
imports a default export that the record's model does not have; no start-up
code runs it. It is modelled as written, as the code it is meant to be. Nothing
in the repository calls `replay` or `cancel` either; they are operations of its
interface.

Not modelled at all: the parts listed with `not_modelled` in `PROJECT.json`, each
with its reason. Provider integrations, statements and analytics (most of
the repository's lines) are request and response code without a protocol of
their own; start-up, configuration and authentication are guards of single requests.

## 9. Plan

1. `Idempotency.tla`: acquire, heartbeat, complete, fail, recover stale, resolve
   and purge by competing owners over one record; abstract specification: a key
   has at most one owner and is completed once. The store requires a session that
   its HTTP caller does not pass, so a constant names the callers that do.
   Theorems: one owner, completion is final.
2. `FinancialBoundary.tla`: session, operation, commit with retry, unknown
   commit results and crashes around one key, composed with `Idempotency`. A
   committed effect never ends FAILED; one effect per key. Theorem: the same.
3. `LedgerPostings.tla`: the postings of the financial operations as operators
   over signed amounts, against the reference that every operation's debits equal
   its credits and that a reversal undoes it.
4. Outbox: the bounded window of `findDue`, for head-of-line blocking.
   Offline drafts: the editor of the page beside its revision, several users.
5. `Deliveries.tla`: agriculture's deliveries and settlements.
6. `Enrolment.tla`: insurance over the consents of `CapitalSharing`.
7. The audit chain and the maker-and-checker lifecycles, if their code rewards it.

Each with its abstract promise first, then the handlers at the granularity of
awaits, a run with two actors, and the proof of the invariant TLC agrees with.

## 10. Running it

```
tlc -workers 2 -config MCPayroll.cfg MCPayroll      # and the other .cfg files
tlapm PayrollProofs.tla                              # and the other *Proofs.tla
```

The runs named above correspond to `MCPayroll.cfg`, `MCPayrollBatch.cfg`,
`MCPayrollLive.cfg`, `MCPayrollDoublePay.cfg`, `MCCapitalSharing.cfg`,
`MCCapitalSubject.cfg`, `MCOutbox.cfg`, `MCOutboxLive.cfg`,
`MCOutboxExhausted.cfg`, `MCOutboxShared.cfg`, `MCPaymentIdempotency.cfg` and
`MCOfflineDrafts.cfg`.
