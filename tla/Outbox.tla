------------------------------- MODULE Outbox -------------------------------
(***************************************************************************)
(* The transaction outbox: workers/TransactionOutboxWorker.js over         *)
(* repositories/TransactionOutboxRepository.js, in                         *)
(* backend/modules/transactions.                                           *)
(*                                                                         *)
(* Workers poll the records that are due, claim them one by one under a    *)
(* lease, publish each to the transport and complete it, schedule another  *)
(* attempt or dead-letter it.  A record is changed only by one conditional *)
(* update at a time; everything between two updates interleaves.           *)
(*                                                                         *)
(* Abstractions.  An event's identity is its name; the tenant, the payload *)
(* and the routing are left out.  Time is whether a lease has expired and  *)
(* whether the next attempt is due.  A batch holds every due record.       *)
(* Crashes, stops, database errors, leases that expire under a job that is *)
(* still there, and replays are drawn from a budget.                       *)
(***************************************************************************)
EXTENDS Integers, FiniteSets

CONSTANTS
  Events,          \* outbox records
  Workers,         \* worker processes
  Ids,             \* values of workerId
  Id,              \* the workerId of each worker (HOSTNAME, or the pid)
  NoId,            \* no claim: not an element of Ids
  MaxAttempts,     \* maxAttempts of every record
  Concurrency,     \* jobs a worker runs at once
  MaxDisruptions   \* bound: size of the budget

ASSUME OutboxAssumption ==
  /\ Id \in [Workers -> Ids]
  /\ NoId \notin Ids
  /\ MaxAttempts \in Nat \ {0}
  /\ Concurrency \in Nat \ {0}
  /\ MaxDisruptions \in Nat

VARIABLES
  record,      \* the outbox collection
  mode,        \* WORKER_STATUS of each worker, "DOWN" without a process
  found,       \* due records a worker's claimBatch has still to claim
  held,        \* jobs a worker's shutdown has still to release
  jobs,        \* claimed records in the hands of a worker
  sent,        \* history: the attempts of each event that were delivered
  reopened,    \* history: attemptCount when the event was last replayed
  disruptions  \* how much of the budget is spent

vars == <<record, mode, found, held, jobs, sent, reopened, disruptions>>

-----------------------------------------------------------------------------

OUTBOX_STATUS == {"ABSENT", "PENDING", "PROCESSING", "PUBLISHED",
                  "DEAD_LETTERED", "CANCELLED"}

Settled == {"PUBLISHED", "DEAD_LETTERED", "CANCELLED"}

OutboxRecord ==
  [status: OUTBOX_STATUS, attempts: 0..MaxAttempts, claimedBy: Ids \cup {NoId},
   lease: {"none", "live", "expired"}, due: BOOLEAN]

Job ==
  [worker: Workers, event: Events, attempt: 1..MaxAttempts, lost: BOOLEAN,
   step: {"queued", "publish", "complete", "failRetryable", "failFatal",
          "retry", "bury"}]

TypeOK ==
  /\ record \in [Events -> OutboxRecord]
  /\ mode \in [Workers -> {"RUNNING", "DRAINING", "STOPPING", "STOPPED", "DOWN"}]
  /\ found \in [Workers -> SUBSET Events]
  /\ held \in [Workers -> SUBSET Events]
  /\ jobs \subseteq Job
  /\ sent \in [Events -> SUBSET (1..MaxAttempts)]
  /\ reopened \in [Events -> 0..MaxAttempts]
  /\ disruptions \in 0..MaxDisruptions

Init ==
  /\ record = [e \in Events |-> [status |-> "ABSENT", attempts |-> 0,
                 claimedBy |-> NoId, lease |-> "none", due |-> FALSE]]
  /\ mode = [w \in Workers |-> "RUNNING"]
  /\ found = [w \in Workers |-> {}]
  /\ held = [w \in Workers |-> {}]
  /\ jobs = {}
  /\ sent = [e \in Events |-> {}]
  /\ reopened = [e \in Events |-> 0]
  /\ disruptions = 0

-----------------------------------------------------------------------------

Disrupt ==
  /\ disruptions < MaxDisruptions
  /\ disruptions' = disruptions + 1

\* Leaves PROCESSING (or a settled status) and drops any claim.
Unclaim(e, status, due) ==
  record' = [record EXCEPT ![e].status = status, ![e].claimedBy = NoId,
                           ![e].lease = "none", ![e].due = due]

\* Mutant of Owned: the filter forgets claimedBy.
Owned_AnyWorker(w, e) == record[e].status = "PROCESSING"

\* The filter of heartbeat, complete, fail and deadLetter.
Owned(w, e) ==
  /\ record[e].status = "PROCESSING"
  /\ record[e].claimedBy = Id[w]

JobsOf(w) == {j \in jobs : j.worker = w}

\* Jobs that have been started: the worker's activeJobs.
ActiveJobs(w) == {j \in JobsOf(w) : j.step # "queued"}

Go(j, step) == jobs' = (jobs \ {j}) \cup {[j EXCEPT !.step = step]}

End(j) == jobs' = jobs \ {j}

workerVars == <<mode, found, held>>
history == <<sent, reopened>>

-----------------------------------------------------------------------------
(* Records                                                                 *)

\* create: an event identifier that exists is returned as it is.
Create(e) ==
  /\ record[e].status = "ABSENT"
  /\ Unclaim(e, "PENDING", TRUE)
  /\ UNCHANGED <<jobs, workerVars, history, disruptions>>

\* Mutant of Replay: any status, the cancelled ones too.
Replay_Cancelled(e) ==
  /\ record[e].status \notin {"ABSENT", "PROCESSING"}
  /\ Disrupt
  /\ \E due \in BOOLEAN : Unclaim(e, "PENDING", due)
  /\ reopened' = [reopened EXCEPT ![e] = record[e].attempts]
  /\ UNCHANGED <<jobs, workerVars, sent>>

\* replay, with or without a delay; attemptCount stays.
Replay(e) ==
  /\ record[e].status \in {"PUBLISHED", "DEAD_LETTERED", "PENDING"}
  /\ Disrupt
  /\ \E due \in BOOLEAN : Unclaim(e, "PENDING", due)
  /\ reopened' = [reopened EXCEPT ![e] = record[e].attempts]
  /\ UNCHANGED <<jobs, workerVars, sent>>

Cancel(e) ==
  /\ record[e].status = "PENDING"
  /\ record' = [record EXCEPT ![e].status = "CANCELLED"]
  /\ UNCHANGED <<jobs, workerVars, history, disruptions>>

\* The clock reaches nextAttemptAt, leaseExpiresAt.
BecomeDue(e) ==
  /\ record[e].status = "PENDING"
  /\ ~record[e].due
  /\ record' = [record EXCEPT ![e].due = TRUE]
  /\ UNCHANGED <<jobs, workerVars, history, disruptions>>

LeaseExpires(e) ==
  /\ record[e].status = "PROCESSING"
  /\ record[e].lease = "live"
  /\ record' = [record EXCEPT ![e].lease = "expired"]
  /\ UNCHANGED <<jobs, workerVars, history>>

\* Nobody works on the claim any more.
Orphaned(e) == \A j \in jobs : j.event = e => ~Owned(j.worker, e)

OrphanExpires(e) ==
  Orphaned(e) /\ LeaseExpires(e) /\ UNCHANGED disruptions

\* A job that is still there has waited in the queue or been slow for too long.
SlowExpires(e) == ~Orphaned(e) /\ LeaseExpires(e) /\ Disrupt

\* releaseExpiredLeases
ReleaseExpired(e) ==
  /\ record[e].status = "PROCESSING"
  /\ record[e].lease = "expired"
  /\ Unclaim(e, "PENDING", TRUE)

\* The recovery timer of any running worker.
Recover(w, e) ==
  /\ mode[w] = "RUNNING"
  /\ ReleaseExpired(e)
  /\ UNCHANGED <<jobs, workerVars, history, disruptions>>

-----------------------------------------------------------------------------
(* Polling                                                                 *)

\* Mutant of Due: expired leases are left to the recovery timer.
Due_Pending == {e \in Events : record[e].status = "PENDING" /\ record[e].due}

\* findDue
Due == {e \in Events :
          \/ record[e].status = "PENDING" /\ record[e].due
          \/ record[e].status = "PROCESSING" /\ record[e].lease = "expired"}

\* Mutant of Poll: the loop does not wait for the jobs of the last batch.
Poll_NoWait(w) ==
  /\ mode[w] = "RUNNING"
  /\ found[w] = {}
  /\ Due # {}
  /\ found' = [found EXCEPT ![w] = Due]
  /\ UNCHANGED <<record, mode, held, jobs, history, disruptions>>

\* runLoop: the next batch, when the jobs of the last one have ended.
Poll(w) ==
  /\ mode[w] = "RUNNING"
  /\ found[w] = {}
  /\ JobsOf(w) = {}
  /\ Due # {}
  /\ found' = [found EXCEPT ![w] = Due]
  /\ UNCHANGED <<record, mode, held, jobs, history, disruptions>>

\* Mutants of Claimable: a live lease does not protect; the attempts are not
\* looked at.
Claimable_AnyLease(w, e) ==
  /\ \/ record[e].status = "PENDING" /\ record[e].due
     \/ record[e].status = "PROCESSING"
  /\ record[e].attempts < MaxAttempts
Claimable_AnyAttempt(w, e) ==
  \/ record[e].status = "PENDING" /\ record[e].due
  \/ Owned(w, e)
  \/ record[e].status = "PROCESSING" /\ record[e].lease = "expired"

\* The filter of claim.
Claimable(w, e) ==
  /\ \/ record[e].status = "PENDING" /\ record[e].due
     \/ Owned(w, e)
     \/ record[e].status = "PROCESSING" /\ record[e].lease = "expired"
  /\ record[e].attempts < MaxAttempts

Claimed(w, e, n) ==
  [record[e] EXCEPT !.status = "PROCESSING", !.claimedBy = Id[w],
                    !.lease = "live", !.attempts = n]

Queued(w, e, n) ==
  [worker |-> w, event |-> e, attempt |-> n, lost |-> FALSE, step |-> "queued"]

\* Mutant of Claim: the attempt is not counted.
Claim_NotCounted(w, e) ==
  /\ e \in found[w]
  /\ found' = [found EXCEPT ![w] = @ \ {e}]
  /\ IF Claimable(w, e)
     THEN LET n == IF record[e].attempts = 0 THEN 1 ELSE record[e].attempts IN
          /\ record' = [record EXCEPT ![e] = Claimed(w, e, n)]
          /\ jobs' = jobs \cup {Queued(w, e, n)}
     ELSE UNCHANGED <<record, jobs>>
  /\ UNCHANGED <<mode, held, history, disruptions>>

\* claimBatch claims each of the records found, and skips those it may not.
Claim(w, e) ==
  /\ e \in found[w]
  /\ found' = [found EXCEPT ![w] = @ \ {e}]
  /\ IF Claimable(w, e)
     THEN LET n == record[e].attempts + 1 IN
          /\ record' = [record EXCEPT ![e] = Claimed(w, e, n)]
          /\ jobs' = jobs \cup {Queued(w, e, n)}
     ELSE UNCHANGED <<record, jobs>>
  /\ UNCHANGED <<mode, held, history, disruptions>>

\* A database error ends the batch; what was claimed is not returned.
ClaimBatchFails(w) ==
  /\ found[w] # {}
  /\ Disrupt
  /\ found' = [found EXCEPT ![w] = {}]
  /\ jobs' = {j \in jobs : j.worker # w \/ j.step # "queued"}
  /\ UNCHANGED <<record, mode, held, history>>

-----------------------------------------------------------------------------
(* Processing a record                                                     *)

\* runQueueWorker takes the next record, unless the worker is to stop.
Begin(j) ==
  /\ j.step = "queued"
  /\ mode[j.worker] = "RUNNING"
  /\ found[j.worker] = {}
  /\ Cardinality(ActiveJobs(j.worker)) < Concurrency
  /\ Go(j, "publish")
  /\ UNCHANGED <<record, workerVars, history, disruptions>>

RenewLease(e) == record' = [record EXCEPT ![e].lease = "live"]

\* The heartbeat timer of an active job; any error means the lease is lost.
Heartbeat(j) ==
  /\ j.step # "queued"
  /\ mode[j.worker] = "RUNNING"
  /\ ~j.lost
  /\ \/ /\ Owned(j.worker, j.event)
        /\ RenewLease(j.event)
        /\ UNCHANGED <<jobs, disruptions>>
     \/ /\ \/ ~Owned(j.worker, j.event) /\ UNCHANGED disruptions
           \/ Disrupt
        /\ jobs' = (jobs \ {j}) \cup {[j EXCEPT !.lost = TRUE]}
        /\ UNCHANGED record
  /\ UNCHANGED <<workerVars, history>>

\* The catch block: nothing more is done for a job that lost its lease.
Caught(j, step) == IF j.lost THEN End(j) ELSE Go(j, step)

Delivered(j) == sent' = [sent EXCEPT ![j.event] = @ \cup {j.attempt}]

\* Mutant of Publish: completes what was not delivered.
Publish_Fail(j) ==
  /\ j.step = "publish"
  /\ \/ UNCHANGED sent
     \/ Delivered(j)
  /\ Caught(j, "complete")
  /\ UNCHANGED <<record, workerVars, reopened, disruptions>>

\* The transport took the event; or it reports an error, and may have taken it
\* all the same.
Publish(j) ==
  /\ j.step = "publish"
  /\ \/ Delivered(j) /\ Caught(j, "complete")
     \/ /\ Delivered(j) \/ UNCHANGED sent
        /\ \E step \in {"failRetryable", "failFatal"} : Caught(j, step)
  /\ UNCHANGED <<record, workerVars, reopened, disruptions>>

Complete(j) ==
  /\ j.step = "complete"
  /\ \/ /\ Owned(j.worker, j.event)
        /\ Unclaim(j.event, "PUBLISHED", FALSE)
        /\ End(j)
     \/ /\ ~Owned(j.worker, j.event)
        /\ Caught(j, "failRetryable")
        /\ UNCHANGED record
  /\ UNCHANGED <<workerVars, history, disruptions>>

\* A database error, before or after the update took effect.
CompleteError(j) ==
  /\ j.step = "complete"
  /\ Disrupt
  /\ \/ Owned(j.worker, j.event) /\ Unclaim(j.event, "PUBLISHED", FALSE)
     \/ UNCHANGED record
  /\ Caught(j, "failFatal")
  /\ UNCHANGED <<workerVars, history>>

\* Mutant of Exhausted: the attempts are not counted once more.
Exhausted_Late(e) == record[e].attempts >= MaxAttempts

Exhausted(e) == record[e].attempts + 1 >= MaxAttempts

\* fail reads the record and decides ...
Fail(j) ==
  /\ j.step \in {"failRetryable", "failFatal"}
  /\ Go(j, IF j.step = "failFatal" \/ Exhausted(j.event) THEN "bury" ELSE "retry")
  /\ UNCHANGED <<record, workerVars, history, disruptions>>

\* ... then updates it, if it is still its own; conflicts are swallowed.
Settle(j) ==
  /\ j.step \in {"retry", "bury"}
  /\ IF Owned(j.worker, j.event)
     THEN Unclaim(j.event, IF j.step = "bury" THEN "DEAD_LETTERED" ELSE "PENDING",
                  FALSE)
     ELSE UNCHANGED record
  /\ End(j)
  /\ UNCHANGED <<workerVars, history, disruptions>>

\* A database error while the failure is persisted is swallowed.
FailError(j) ==
  /\ j.step \in {"failRetryable", "failFatal", "retry", "bury"}
  /\ Disrupt
  /\ End(j)
  /\ UNCHANGED <<record, workerVars, history>>

-----------------------------------------------------------------------------
(* Shutdown, crash and restart                                             *)

\* shutdown: no record is started and no lease renewed from here on.
Shutdown(w) ==
  /\ mode[w] = "RUNNING"
  /\ Disrupt
  /\ mode' = [mode EXCEPT ![w] = "DRAINING"]
  /\ UNCHANGED <<record, found, held, jobs, history>>

\* The active jobs have ended, or the time to drain is over.
Drained(w) ==
  /\ mode[w] = "DRAINING"
  /\ mode' = [mode EXCEPT ![w] = "STOPPING"]
  /\ held' = [held EXCEPT ![w] = {j.event : j \in ActiveJobs(w)}]
  /\ UNCHANGED <<record, found, jobs, history, disruptions>>

\* releaseLease looks at the claim only, not at the status.
ReleaseLease(w, e) ==
  IF record[e].claimedBy = Id[w] THEN Unclaim(e, "PENDING", TRUE)
                                 ELSE UNCHANGED record

\* The records of the jobs still active are PENDING again.
ReleaseOwned(w, e) ==
  /\ e \in held[w]
  /\ held' = [held EXCEPT ![w] = @ \ {e}]
  /\ ReleaseLease(w, e)
  /\ UNCHANGED <<mode, found, jobs, history, disruptions>>

Stopped(w) ==
  /\ mode[w] = "STOPPING"
  /\ held[w] = {}
  /\ mode' = [mode EXCEPT ![w] = "STOPPED"]
  /\ UNCHANGED <<record, found, held, jobs, history, disruptions>>

\* The process is gone, and with it all it had in hand.
Gone(w) ==
  /\ mode' = [mode EXCEPT ![w] = "DOWN"]
  /\ found' = [found EXCEPT ![w] = {}]
  /\ held' = [held EXCEPT ![w] = {}]
  /\ jobs' = jobs \ JobsOf(w)
  /\ UNCHANGED <<record, history>>

Exit(w) == mode[w] = "STOPPED" /\ Gone(w) /\ UNCHANGED disruptions

Crash(w) == mode[w] \notin {"STOPPED", "DOWN"} /\ Gone(w) /\ Disrupt

Start(w) ==
  /\ mode[w] = "DOWN"
  /\ mode' = [mode EXCEPT ![w] = "RUNNING"]
  /\ UNCHANGED <<record, found, held, jobs, history, disruptions>>

-----------------------------------------------------------------------------

Store(e) ==
  \/ Create(e) \/ Replay(e) \/ Cancel(e)
  \/ BecomeDue(e) \/ OrphanExpires(e) \/ SlowExpires(e)

Work(j) ==
  Begin(j) \/ Publish(j) \/ Complete(j) \/ Fail(j) \/ Settle(j)

Upset(j) == Heartbeat(j) \/ CompleteError(j) \/ FailError(j)

Loop(w) ==
  \/ Poll(w)
  \/ \E e \in Events : Claim(w, e)

Stop(w) ==
  \/ Drained(w) \/ Stopped(w) \/ Exit(w) \/ Start(w)
  \/ \E e \in Events : ReleaseOwned(w, e)

Next ==
  \/ \E e \in Events : Store(e)
  \/ \E j \in jobs : Work(j) \/ Upset(j)
  \/ \E w \in Workers : Loop(w) \/ Stop(w)
  \/ \E w \in Workers : ClaimBatchFails(w) \/ Shutdown(w) \/ Crash(w)
  \/ \E w \in Workers, e \in Events : Recover(w, e)

Spec == Init /\ [][Next]_vars

\* The event loop runs what is ready, the transport and the database answer,
\* clocks advance, and a worker that went down is started again.
Fairness ==
  /\ \A w \in Workers :
       /\ WF_vars(Loop(w))
       /\ WF_vars(Stop(w))
       /\ WF_vars(\E j \in jobs : j.worker = w /\ Work(j))
  /\ \A e \in Events :
       /\ WF_vars(BecomeDue(e))
       /\ WF_vars(OrphanExpires(e))

FairSpec == Spec /\ Fairness

-----------------------------------------------------------------------------
(* What the component promises.                                            *)

\* No two workers have the same workerId.
DistinctIds == \A v, w \in Workers : Id[v] = Id[w] => v = w

\* A claim is delivered at most once, and the attempts are bounded, so an event
\* is delivered at most MaxAttempts times over its whole life, with crashes,
\* lost leases and replays (claim, attemptCount against maxAttempts).
OneDeliveryPerClaim ==
  /\ \A j \in jobs :
       j.step \in {"queued", "publish"} => j.attempt \notin sent[j.event]
  /\ \A e \in Events : sent[e] \subseteq 1..record[e].attempts

\* Whoever may update a record works on the last claim of it: a job that was
\* overtaken by another claim can no longer complete, retry or bury the event.
\* (The filters compare workerId, not the attempt; that they are as good as a
\* fencing token rests on one batch at a time per worker.)
Fenced ==
  \A j \in jobs :
    Owned(j.worker, j.event) => j.attempt = record[j.event].attempts

\* An event that is PUBLISHED has reached the transport since it was stored or
\* last replayed, in whatever order late jobs, replays and takeovers come.
PublishedIsDelivered ==
  \A e \in Events :
    record[e].status = "PUBLISHED" => \E n \in sent[e] : n > reopened[e]

\* A record whose lease is valid is not claimed again, not even by the worker
\* that holds it: what findDue returned may be stale when claim comes to it.
ClaimRespectsLease ==
  [][\A e \in Events :
       record'[e].attempts > record[e].attempts => record[e].lease # "live"]_vars

\* A job that will still settle its record, or whose heartbeat holds the lease.
Attending(j, e) ==
  /\ j.event = e
  /\ Owned(j.worker, e)
  /\ ~j.lost
  /\ j.step = "queued" => mode[j.worker] = "RUNNING"

\* Only another claim can take the record further: it waits, or its lease is
\* over, or nobody attends to it.
NeedsClaim(e) ==
  \/ record[e].status = "PENDING"
  \/ /\ record[e].status = "PROCESSING"
     /\ record[e].lease = "expired" \/ ~ \E j \in jobs : Attending(j, e)

\* As long as one thing at most went wrong - a crash, a shutdown with claimed
\* records, a database error, a lease that ran out, a replay - a record that
\* needs another claim still has an attempt for it.  (fail buries one attempt
\* early; it is this attempt that the accident costs.)
AttemptsLeft ==
  disruptions <= 1 =>
    \A e \in Events : NeedsClaim(e) => record[e].attempts < MaxAttempts

\* The component implements what it promises.
State(e) ==
  CASE record[e].status = "ABSENT" -> "absent"
    [] record[e].status \in {"PENDING", "PROCESSING"} -> "open"
    [] record[e].status = "PUBLISHED" -> "published"
    [] record[e].status = "DEAD_LETTERED" -> "dead"
    [] record[e].status = "CANCELLED" -> "cancelled"

Delivery == INSTANCE OutboxDelivery WITH
  state <- [e \in Events |-> State(e)],
  sent <- [e \in Events |-> \E n \in sent[e] : n > reopened[e]]

\* Seen through State and the history, every step is a step of OutboxDelivery.
ImplementsDelivery == Delivery!Spec

\* With at most one disruption and at least two attempts, every event that is
\* stored comes to rest: published, dead-lettered or cancelled.
EventuallySettled ==
  \A e \in Events :
    (record[e].status # "ABSENT") ~> (record[e].status \in Settled)

-----------------------------------------------------------------------------
(* What the comments say, and the code does not do.                        *)

\* TransactionOutboxWorker.js:46, among the worker's responsibilities:
\* "Dead-letter exhausted events".  claim rejects a record whose attempts are
\* used up, and nothing else looks at it.
ExhaustedIsDeadLettered ==
  \A e \in Events :
    (record[e].attempts = MaxAttempts) ~> (record[e].status \in Settled)

\* TransactionOutboxRepository.js:790, of claim: "Only one worker can claim an
\* event whose lease is currently valid."  Workers that share a workerId both
\* do.
OnlyOneClaims ==
  \A j, k \in jobs :
    (/\ j.event = k.event /\ record[j.event].lease = "live"
     /\ Owned(j.worker, j.event) /\ Owned(k.worker, k.event))
      => j.worker = k.worker

=============================================================================
