---------------------------- MODULE OutboxProofs ----------------------------
(***************************************************************************)
(* The outbox for every number of events, workers and attempts, when no    *)
(* two workers share a workerId.  The inductive invariant says what a      *)
(* worker knows of the records it has in hand: a job's attempt is its own, *)
(* and whoever may update a record holds the last claim of it.             *)
(***************************************************************************)
EXTENDS Outbox, TLAPS

\* A record is claimed exactly while it is PROCESSING, and attempts are counted
\* before anything is delivered.
RecordInv ==
  \A e \in Events :
    /\ record[e].status = "PROCESSING" <=> record[e].claimedBy # NoId
    /\ reopened[e] <= record[e].attempts
    /\ record[e].status = "PROCESSING" => reopened[e] < record[e].attempts
    /\ record[e].status # "PROCESSING" => record[e].lease # "live"
    /\ record[e].status = "ABSENT" => record[e].attempts = 0

\* A job's attempt has been counted, and is delivered before it is completed.
JobInv ==
  \A j \in jobs :
    /\ j.attempt <= record[j.event].attempts
    /\ j.step = "complete" => j.attempt \in sent[j.event]

\* No two jobs have the same event and attempt.
OwnAttempt ==
  \A j, k \in jobs : j.event = k.event /\ j.attempt = k.attempt => j = k

\* A worker has one batch at a time.
OneBatch ==
  /\ \A j, k \in jobs : j.event = k.event /\ j.worker = k.worker => j = k
  /\ \A j \in jobs : j.event \notin found[j.worker]

\* What a worker has found is not under a live claim of its own.
FoundInv ==
  \A w \in Workers : \A e \in found[w] : Owned(w, e) => record[e].lease # "live"

IInv ==
  /\ TypeOK
  /\ RecordInv
  /\ JobInv
  /\ OneDeliveryPerClaim
  /\ OwnAttempt
  /\ OneBatch
  /\ Fenced
  /\ FoundInv
  /\ PublishedIsDelivered

-----------------------------------------------------------------------------

\* What Unclaim leaves.
LEMMA Unclaimed ==
  ASSUME OutboxAssumption, TypeOK, NEW e \in Events, NEW status \in OUTBOX_STATUS,
         NEW due \in BOOLEAN, Unclaim(e, status, due)
  PROVE  /\ record' \in [Events -> OutboxRecord]
         /\ record'[e].status = status
         /\ record'[e].attempts = record[e].attempts
         /\ record'[e].claimedBy = NoId
         /\ record'[e].lease = "none"
         /\ \A d \in Events : d # e => record'[d] = record[d]
<1>. DEFINE r == [record[e] EXCEPT !.status = status, !.claimedBy = NoId,
                                   !.lease = "none", !.due = due]
<1>1. record' = [record EXCEPT ![e] = r]
  BY DEF Unclaim, TypeOK, OutboxRecord
<1>2. record[e] \in OutboxRecord
  BY DEF TypeOK
<1>3. /\ r \in OutboxRecord /\ r.status = status /\ r.claimedBy = NoId
      /\ r.attempts = record[e].attempts /\ r.lease = "none"
  BY <1>2 DEF OutboxRecord
<1>. HIDE DEF r
<1>. QED  BY <1>1, <1>3 DEF TypeOK

Steps == {"queued", "publish", "complete", "failRetryable", "failFatal",
          "retry", "bury"}

\* The jobs after a step come from jobs before it, with the same attempt; only
\* j may have gone to another step.
Descend(j, step) ==
  \A k \in jobs' : \E i \in jobs :
    /\ i.worker = k.worker /\ i.event = k.event /\ i.attempt = k.attempt
    /\ i.step = k.step \/ (i = j /\ k.step = step)

LEMMA Going ==
  ASSUME jobs \subseteq Job, NEW j \in jobs, NEW step \in Steps, Go(j, step)
  PROVE  jobs' \subseteq Job /\ Descend(j, step)
<1>. DEFINE n == [j EXCEPT !.step = step]
<1>1. n \in Job /\ n.worker = j.worker /\ n.event = j.event
      /\ n.attempt = j.attempt /\ n.step = step
  BY DEF Job, Steps
<1>2. jobs' = (jobs \ {j}) \cup {n}
  BY DEF Go
<1>. HIDE DEF n
<1>. QED  BY <1>1, <1>2 DEF Descend

LEMMA Catching ==
  ASSUME jobs \subseteq Job, NEW j \in jobs, NEW step \in Steps, Caught(j, step)
  PROVE  jobs' \subseteq Job /\ Descend(j, step)
<1>1. CASE j.lost
  BY <1>1 DEF Caught, End, Descend
<1>2. CASE ~j.lost
  BY <1>2, Going DEF Caught
<1>. QED  BY <1>1, <1>2

LEMMA Ending ==
  ASSUME jobs \subseteq Job, NEW j \in jobs, NEW step \in Steps, End(j)
  PROVE  jobs' \subseteq Job /\ Descend(j, step)
BY DEF End, Descend

\* A heartbeat that fails.
LEMMA Losing ==
  ASSUME jobs \subseteq Job, NEW j \in jobs,
         jobs' = (jobs \ {j}) \cup {[j EXCEPT !.lost = TRUE]}
  PROVE  jobs' \subseteq Job /\ Descend(j, j.step)
<1>. DEFINE n == [j EXCEPT !.lost = TRUE]
<1>1. n \in Job /\ n.worker = j.worker /\ n.event = j.event
      /\ n.attempt = j.attempt /\ n.step = j.step
  BY DEF Job
<1>. HIDE DEF n
<1>. QED  BY <1>1 DEF Descend, n

\* Steps of a job that leave the records alone, or unclaim the job's own.
LEMMA StaysFenced ==
  ASSUME OutboxAssumption, TypeOK, Fenced, NEW j \in jobs, NEW step \in Steps,
         Descend(j, step), jobs' \subseteq Job,
         \/ record' = record
         \/ \E status \in OUTBOX_STATUS : Unclaim(j.event, status, FALSE)
  PROVE  Fenced'
<1>. SUFFICES ASSUME NEW k \in jobs', Owned(k.worker, k.event)'
              PROVE  k.attempt = record'[k.event].attempts
  BY DEF Fenced
<1>1. PICK i \in jobs : i.worker = k.worker /\ i.event = k.event
                        /\ i.attempt = k.attempt
  BY DEF Descend
<1>2. k \in Job /\ j.event \in Events /\ k.event \in Events /\ k.worker \in Workers
  BY DEF TypeOK, Job
<1>3. CASE record' = record
  BY <1>1, <1>3 DEF Fenced, Owned
<1>4. CASE \E status \in OUTBOX_STATUS : Unclaim(j.event, status, FALSE)
  <2>1. PICK status \in OUTBOX_STATUS : Unclaim(j.event, status, FALSE)
    BY <1>4
  <2>2. /\ record'[j.event].claimedBy = NoId
        /\ \A d \in Events : d # j.event => record'[d] = record[d]
    BY <1>2, <2>1, Unclaimed
  <2>3. Id[k.worker] # NoId
    BY <1>2 DEF OutboxAssumption
  <2>4. k.event # j.event
    BY <2>2, <2>3 DEF Owned
  <2>. QED  BY <1>1, <1>2, <2>2, <2>4 DEF Fenced, Owned
<1>. QED  BY <1>3, <1>4

\* Steps of a job that deliver nothing and do not put it back in the queue.
LEMMA StaysUndelivered ==
  ASSUME TypeOK, OneDeliveryPerClaim, NEW j \in jobs, NEW step \in Steps,
         Descend(j, step), jobs' \subseteq Job, sent' = sent,
         step \in {"queued", "publish"} => j.step \in {"queued", "publish"},
         \A e \in Events : record'[e].attempts = record[e].attempts
  PROVE  OneDeliveryPerClaim'
<1>1. ASSUME NEW k \in jobs', k.step \in {"queued", "publish"}
      PROVE  k.attempt \notin sent'[k.event]
  <2>1. PICK i \in jobs : /\ i.event = k.event /\ i.attempt = k.attempt
                          /\ i.step = k.step \/ (i = j /\ k.step = step)
    BY DEF Descend
  <2>. QED  BY <1>1, <2>1 DEF OneDeliveryPerClaim
<1>2. \A e \in Events : sent'[e] \subseteq 1..record'[e].attempts
  BY DEF OneDeliveryPerClaim
<1>. QED  BY <1>1, <1>2 DEF OneDeliveryPerClaim

\* What a job may complete has been delivered since the last replay.
LEMMA OwnedIsDelivered ==
  ASSUME IInv, NEW j \in jobs, j.step = "complete", Owned(j.worker, j.event)
  PROVE  \E n \in sent[j.event] : n > reopened[j.event]
<1>1. j.attempt \in sent[j.event] /\ j.attempt = record[j.event].attempts
  BY DEF IInv, JobInv, Fenced
<1>2. /\ j.event \in Events /\ record[j.event].attempts \in Int
      /\ reopened[j.event] \in Int
  BY DEF IInv, TypeOK, Job, OutboxRecord
<1>3. reopened[j.event] < record[j.event].attempts
  BY <1>2 DEF IInv, RecordInv, Owned
<1>. QED  BY <1>1, <1>2, <1>3

\* A job goes on or ends, and its record is left alone or unclaimed.
LEMMA MoveStep ==
  ASSUME OutboxAssumption, IInv, NEW j \in jobs, NEW step \in Steps,
         Go(j, step) \/ End(j), step # "complete",
         step \in {"queued", "publish"} => j.step \in {"queued", "publish"},
         UNCHANGED <<mode, found, held, sent, reopened>>,
         disruptions' \in 0..MaxDisruptions,
         \/ record' = record
         \/ Unclaim(j.event, "PENDING", FALSE)
         \/ Unclaim(j.event, "DEAD_LETTERED", FALSE)
         \/ /\ Unclaim(j.event, "PUBLISHED", FALSE)
            /\ \E n \in sent[j.event] : n > reopened[j.event]
  PROVE  IInv'
<1>1. TypeOK /\ jobs \subseteq Job /\ j \in Job /\ j.event \in Events
  BY DEF IInv, TypeOK, Job
<1>2. jobs' \subseteq Job /\ Descend(j, step)
  BY <1>1, Going, Ending
<1>3. \A k \in jobs' : k.event \in Events /\ k.worker \in Workers
  BY <1>2 DEF Job
<1>4. /\ record' \in [Events -> OutboxRecord]
      /\ \A e \in Events :
           \/ record'[e] = record[e]
           \/ /\ record'[e].status \in {"PENDING", "DEAD_LETTERED", "PUBLISHED"}
              /\ record'[e].attempts = record[e].attempts
              /\ record'[e].claimedBy = NoId
              /\ record'[e].lease = "none"
              /\ record'[e].status = "PUBLISHED"
                   => \E n \in sent[e] : n > reopened[e]
  <2>1. CASE record' = record
    BY <1>1, <2>1 DEF TypeOK
  <2>2. CASE \E status \in {"PENDING", "DEAD_LETTERED", "PUBLISHED"} :
               /\ Unclaim(j.event, status, FALSE)
               /\ status = "PUBLISHED" => \E n \in sent[j.event] : n > reopened[j.event]
    <3>1. PICK status \in {"PENDING", "DEAD_LETTERED", "PUBLISHED"} :
            /\ Unclaim(j.event, status, FALSE)
            /\ status = "PUBLISHED" => \E n \in sent[j.event] : n > reopened[j.event]
      BY <2>2
    <3>2. status \in OUTBOX_STATUS
      BY DEF OUTBOX_STATUS
    <3>3. /\ record' \in [Events -> OutboxRecord]
          /\ record'[j.event].status = status
          /\ record'[j.event].attempts = record[j.event].attempts
          /\ record'[j.event].claimedBy = NoId
          /\ record'[j.event].lease = "none"
          /\ \A d \in Events : d # j.event => record'[d] = record[d]
      BY <1>1, <3>1, <3>2, Unclaimed
    <3>. QED  BY <3>1, <3>3
  <2>. QED  BY <2>1, <2>2
<1>5. TypeOK'
  BY <1>1, <1>2, <1>4 DEF TypeOK
<1>6. RecordInv'
  BY <1>4 DEF IInv, RecordInv
<1>7. JobInv'
  <2>. SUFFICES ASSUME NEW k \in jobs'
                PROVE  /\ k.attempt <= record'[k.event].attempts
                       /\ k.step = "complete" => k.attempt \in sent[k.event]
    BY DEF JobInv
  <2>1. PICK i \in jobs : /\ i.event = k.event /\ i.attempt = k.attempt
                          /\ i.step = k.step \/ (i = j /\ k.step = step)
    BY <1>2 DEF Descend
  <2>2. record'[k.event].attempts = record[k.event].attempts
    BY <1>3, <1>4
  <2>. QED  BY <2>1, <2>2 DEF IInv, JobInv
<1>8. OneDeliveryPerClaim'
  BY <1>1, <1>2, <1>4, StaysUndelivered DEF IInv
<1>9. OwnAttempt' /\ OneBatch'
  BY <1>1 DEF Go, End, IInv, OwnAttempt, OneBatch, Job
<1>10. Fenced'
  BY <1>1, <1>2, StaysFenced DEF IInv, OUTBOX_STATUS
<1>11. FoundInv'
  <2>. SUFFICES ASSUME NEW w \in Workers, NEW e \in found[w], Owned(w, e)'
                PROVE  record'[e].lease # "live"
    BY DEF FoundInv
  <2>1. e \in Events /\ Id[w] # NoId
    BY <1>1 DEF TypeOK, OutboxAssumption
  <2>2. record'[e] = record[e]
    BY <1>4, <2>1 DEF Owned
  <2>. QED  BY <2>2 DEF Owned, IInv, FoundInv
<1>12. PublishedIsDelivered'
  BY <1>4 DEF IInv, PublishedIsDelivered
<1>. QED  BY <1>5, <1>6, <1>7, <1>8, <1>9, <1>10, <1>11, <1>12 DEF IInv

-----------------------------------------------------------------------------
(* One lemma per action: each part of the invariant that it could disturb. *)

LEMMA CreateStep ==
  ASSUME OutboxAssumption, DistinctIds, IInv, NEW e \in Events,
         Create(e)
  PROVE  IInv'
<1>1. TypeOK'
  <2>1. record' \in [Events -> OutboxRecord]
    BY Unclaimed DEF Create, IInv, OUTBOX_STATUS
  <2>. QED  BY <2>1 DEF Create, IInv, TypeOK, workerVars, history
<1>2. RecordInv'
  BY DEF Create, Unclaim, workerVars, history, IInv, TypeOK, RecordInv,
     OutboxRecord, OutboxAssumption
<1>3. JobInv'
  BY DEF Create, Unclaim, workerVars, history, IInv, TypeOK, JobInv,
     OutboxRecord, Job, Owned
<1>4. OneDeliveryPerClaim'
  BY DEF Create, Unclaim, workerVars, history, IInv, TypeOK,
     OneDeliveryPerClaim, OutboxRecord, Job
<1>5. OwnAttempt'
  BY DEF Create, Unclaim, workerVars, history, IInv, TypeOK, OwnAttempt, Job,
     JobInv
<1>6. OneBatch'
  BY DEF Create, Unclaim, workerVars, history, IInv, TypeOK, OneBatch, Job
<1>7. Fenced'
  BY DEF Create, Unclaim, workerVars, history, IInv, TypeOK, Fenced, Job,
     OutboxRecord, Owned, OneBatch, DistinctIds, OutboxAssumption
<1>8. FoundInv'
  BY DEF Create, Unclaim, workerVars, history, IInv, TypeOK, FoundInv, Owned,
     OutboxRecord, DistinctIds, RecordInv, OneBatch, OutboxAssumption
<1>9. PublishedIsDelivered'
  BY DEF Create, Unclaim, workerVars, history, IInv, TypeOK,
     PublishedIsDelivered, Owned, OutboxRecord, JobInv, Fenced, RecordInv,
     Job
<1>. QED  BY <1>1, <1>2, <1>3, <1>4, <1>5, <1>6, <1>7, <1>8, <1>9 DEF IInv

LEMMA ReplayStep ==
  ASSUME OutboxAssumption, DistinctIds, IInv, NEW e \in Events,
         Replay(e)
  PROVE  IInv'
<1>1. TypeOK'
  <2>1. record' \in [Events -> OutboxRecord]
    BY Unclaimed DEF Replay, IInv, OUTBOX_STATUS
  <2>2. disruptions' \in 0..MaxDisruptions
    BY DEF Replay, Disrupt, IInv, TypeOK, OutboxAssumption
  <2>3. reopened' \in [Events -> 0..MaxAttempts]
    BY DEF Replay, IInv, TypeOK, OutboxRecord
  <2>. QED  BY <2>1, <2>2, <2>3 DEF Replay, IInv, TypeOK, workerVars
<1>2. RecordInv'
  BY DEF Replay, Unclaim, workerVars, Disrupt, IInv, TypeOK, RecordInv,
     OutboxRecord, OutboxAssumption
<1>3. JobInv'
  BY DEF Replay, Unclaim, workerVars, Disrupt, IInv, TypeOK, JobInv,
     OutboxRecord, Job, Owned
<1>4. OneDeliveryPerClaim'
  BY DEF Replay, Unclaim, workerVars, Disrupt, IInv, TypeOK,
     OneDeliveryPerClaim, OutboxRecord, Job
<1>5. OwnAttempt'
  BY DEF Replay, Unclaim, workerVars, Disrupt, IInv, TypeOK, OwnAttempt, Job,
     JobInv
<1>6. OneBatch'
  BY DEF Replay, Unclaim, workerVars, Disrupt, IInv, TypeOK, OneBatch, Job
<1>7. Fenced'
  BY DEF Replay, Unclaim, workerVars, Disrupt, IInv, TypeOK, Fenced, Job,
     OutboxRecord, Owned, OneBatch, DistinctIds, OutboxAssumption
<1>8. FoundInv'
  BY DEF Replay, Unclaim, workerVars, Disrupt, IInv, TypeOK, FoundInv, Owned,
     OutboxRecord, DistinctIds, RecordInv, OneBatch, OutboxAssumption
<1>9. PublishedIsDelivered'
  BY DEF Replay, Unclaim, workerVars, Disrupt, IInv, TypeOK,
     PublishedIsDelivered, Owned, OutboxRecord, JobInv, Fenced, RecordInv,
     Job
<1>. QED  BY <1>1, <1>2, <1>3, <1>4, <1>5, <1>6, <1>7, <1>8, <1>9 DEF IInv

LEMMA CancelStep ==
  ASSUME OutboxAssumption, DistinctIds, IInv, NEW e \in Events,
         Cancel(e)
  PROVE  IInv'
<1>1. TypeOK'
  BY DEF Cancel, workerVars, history, IInv, TypeOK, OutboxRecord, Job,
     OUTBOX_STATUS
<1>2. RecordInv'
  BY DEF Cancel, workerVars, history, IInv, TypeOK, RecordInv, OutboxRecord,
     OutboxAssumption
<1>3. JobInv'
  BY DEF Cancel, workerVars, history, IInv, TypeOK, JobInv, OutboxRecord,
     Job, Owned
<1>4. OneDeliveryPerClaim'
  BY DEF Cancel, workerVars, history, IInv, TypeOK, OneDeliveryPerClaim,
     OutboxRecord, Job
<1>5. OwnAttempt'
  BY DEF Cancel, workerVars, history, IInv, TypeOK, OwnAttempt, Job, JobInv
<1>6. OneBatch'
  BY DEF Cancel, workerVars, history, IInv, TypeOK, OneBatch, Job
<1>7. Fenced'
  BY DEF Cancel, workerVars, history, IInv, TypeOK, Fenced, Job,
     OutboxRecord, Owned, OneBatch, DistinctIds, OutboxAssumption
<1>8. FoundInv'
  BY DEF Cancel, workerVars, history, IInv, TypeOK, FoundInv, Owned,
     OutboxRecord, DistinctIds, RecordInv, OneBatch, OutboxAssumption
<1>9. PublishedIsDelivered'
  BY DEF Cancel, workerVars, history, IInv, TypeOK, PublishedIsDelivered,
     Owned, OutboxRecord, JobInv, Fenced, RecordInv, Job
<1>. QED  BY <1>1, <1>2, <1>3, <1>4, <1>5, <1>6, <1>7, <1>8, <1>9 DEF IInv

\* Storing a well-typed record keeps the table well typed.
LEMMA RecordUpdate ==
  ASSUME record \in [Events -> OutboxRecord], NEW e \in Events,
         NEW r \in OutboxRecord, record' = [record EXCEPT ![e] = r]
  PROVE  record' \in [Events -> OutboxRecord]
OBVIOUS

LEMMA BecomeDueStep ==
  ASSUME OutboxAssumption, DistinctIds, IInv, NEW e \in Events,
         BecomeDue(e)
  PROVE  IInv'
<1>1. TypeOK'
  <2>1. record' \in [Events -> OutboxRecord]
    <3>0. record[e] \in OutboxRecord
      BY DEF IInv, TypeOK
    <3>1. [record[e] EXCEPT !.due = TRUE] \in OutboxRecord
      BY ONLY <3>0 DEF OutboxRecord
    <3>2. record' = [record EXCEPT ![e] = [record[e] EXCEPT !.due = TRUE]]
      BY DEF BecomeDue, IInv, TypeOK
    <3>3. record \in [Events -> OutboxRecord]
      BY DEF IInv, TypeOK
    <3>. DEFINE r == [record[e] EXCEPT !.due = TRUE]
    <3>. HIDE DEF r
    <3>4. r \in OutboxRecord
      BY <3>1 DEF r
    <3>5. record' = [record EXCEPT ![e] = r]
      BY <3>2 DEF r
    <3>. QED  BY <3>3, <3>4, <3>5
  <2>. QED  BY <2>1 DEF BecomeDue, workerVars, history, IInv, TypeOK
<1>2. RecordInv'
  BY DEF BecomeDue, workerVars, history, IInv, TypeOK, RecordInv,
     OutboxRecord, OutboxAssumption
<1>3. JobInv'
  BY DEF BecomeDue, workerVars, history, IInv, TypeOK, JobInv, OutboxRecord,
     Job, Owned
<1>4. OneDeliveryPerClaim'
  BY DEF BecomeDue, workerVars, history, IInv, TypeOK, OneDeliveryPerClaim,
     OutboxRecord, Job
<1>5. OwnAttempt'
  BY DEF BecomeDue, workerVars, history, IInv, TypeOK, OwnAttempt, Job,
     JobInv
<1>6. OneBatch'
  BY DEF BecomeDue, workerVars, history, IInv, TypeOK, OneBatch, Job
<1>7. Fenced'
  BY DEF BecomeDue, workerVars, history, IInv, TypeOK, Fenced, Job,
     OutboxRecord, Owned, OneBatch, DistinctIds, OutboxAssumption
<1>8. FoundInv'
  BY DEF BecomeDue, workerVars, history, IInv, TypeOK, FoundInv, Owned,
     OutboxRecord, DistinctIds, RecordInv, OneBatch, OutboxAssumption
<1>9. PublishedIsDelivered'
  BY DEF BecomeDue, workerVars, history, IInv, TypeOK, PublishedIsDelivered,
     Owned, OutboxRecord, JobInv, Fenced, RecordInv, Job
<1>. QED  BY <1>1, <1>2, <1>3, <1>4, <1>5, <1>6, <1>7, <1>8, <1>9 DEF IInv

LEMMA ExpiresStep ==
  ASSUME OutboxAssumption, DistinctIds, IInv, NEW e \in Events,
         OrphanExpires(e) \/ SlowExpires(e)
  PROVE  IInv'
<1>0. /\ record' = [record EXCEPT ![e].lease = "expired"]
      /\ UNCHANGED <<jobs, mode, found, held, sent, reopened>>
  BY DEF OrphanExpires, SlowExpires, LeaseExpires, workerVars, history
<1>a. \A d \in Events : /\ record'[d].status = record[d].status
                        /\ record'[d].attempts = record[d].attempts
                        /\ record'[d].claimedBy = record[d].claimedBy
                        /\ record'[d].lease \in {record[d].lease, "expired"}
  BY <1>0 DEF IInv, TypeOK, OutboxRecord
<1>1. TypeOK'
  <2>1. record' \in [Events -> OutboxRecord]
    BY <1>0 DEF IInv, TypeOK, OutboxRecord
  <2>2. disruptions' \in 0..MaxDisruptions
    BY DEF OrphanExpires, SlowExpires, Disrupt, IInv, TypeOK, OutboxAssumption
  <2>. QED  BY <1>0, <2>1, <2>2 DEF IInv, TypeOK
<1>2. RecordInv'
  BY <1>0, <1>a DEF IInv, RecordInv
<1>3. JobInv'
  BY <1>0, <1>a DEF IInv, TypeOK, JobInv, Job
<1>4. OneDeliveryPerClaim'
  BY DEF OrphanExpires, SlowExpires, LeaseExpires, Disrupt, workerVars,
     history, IInv, TypeOK, OneDeliveryPerClaim, OutboxRecord, Job
<1>5. OwnAttempt'
  BY DEF OrphanExpires, SlowExpires, LeaseExpires, Disrupt, workerVars,
     history, IInv, TypeOK, OwnAttempt, Job, JobInv
<1>6. OneBatch'
  BY DEF OrphanExpires, SlowExpires, LeaseExpires, Disrupt, workerVars,
     history, IInv, TypeOK, OneBatch, Job
<1>7. Fenced'
  BY <1>0, <1>a DEF IInv, TypeOK, Fenced, Owned, Job
<1>8. FoundInv'
  BY DEF OrphanExpires, SlowExpires, LeaseExpires, Disrupt, workerVars,
     history, IInv, TypeOK, FoundInv, Owned, OutboxRecord, DistinctIds,
     RecordInv, OneBatch, OutboxAssumption
<1>9. PublishedIsDelivered'
  BY DEF OrphanExpires, SlowExpires, LeaseExpires, Disrupt, workerVars,
     history, IInv, TypeOK, PublishedIsDelivered, Owned, OutboxRecord,
     JobInv, Fenced, RecordInv, Job
<1>. QED  BY <1>1, <1>2, <1>3, <1>4, <1>5, <1>6, <1>7, <1>8, <1>9 DEF IInv

LEMMA RecoverStep ==
  ASSUME OutboxAssumption, DistinctIds, IInv, NEW w \in Workers, NEW e \in Events,
         Recover(w, e)
  PROVE  IInv'
<1>1. TypeOK'
  BY DEF Recover, ReleaseExpired, Unclaim, workerVars, history, IInv, TypeOK,
         OutboxRecord, Job, OUTBOX_STATUS
<1>2. RecordInv'
  BY DEF Recover, ReleaseExpired, Unclaim, workerVars, history, IInv, TypeOK,
         RecordInv, OutboxRecord, OutboxAssumption
<1>3. JobInv'
  BY DEF Recover, ReleaseExpired, Unclaim, workerVars, history, IInv, TypeOK,
         JobInv, OutboxRecord, Job, Owned
<1>4. OneDeliveryPerClaim'
  BY DEF Recover, ReleaseExpired, Unclaim, workerVars, history, IInv, TypeOK,
     OneDeliveryPerClaim, OutboxRecord, Job
<1>5. OwnAttempt'
  BY DEF Recover, ReleaseExpired, Unclaim, workerVars, history, IInv, TypeOK,
         OwnAttempt, Job, JobInv
<1>6. OneBatch'
  BY DEF Recover, ReleaseExpired, Unclaim, workerVars, history, IInv, TypeOK,
         OneBatch, Job
<1>7. Fenced'
  BY DEF Recover, ReleaseExpired, Unclaim, workerVars, history, IInv, TypeOK,
         Fenced, Job, OutboxRecord, Owned, OneBatch, DistinctIds,
         OutboxAssumption
<1>8. FoundInv'
  BY DEF Recover, ReleaseExpired, Unclaim, workerVars, history, IInv, TypeOK,
         FoundInv, Owned, OutboxRecord, DistinctIds, RecordInv, OneBatch,
         OutboxAssumption
<1>9. PublishedIsDelivered'
  BY DEF Recover, ReleaseExpired, Unclaim, workerVars, history, IInv, TypeOK,
     PublishedIsDelivered, Owned, OutboxRecord, JobInv, Fenced, RecordInv,
     Job
<1>. QED  BY <1>1, <1>2, <1>3, <1>4, <1>5, <1>6, <1>7, <1>8, <1>9 DEF IInv

LEMMA PollStep ==
  ASSUME OutboxAssumption, DistinctIds, IInv, NEW w \in Workers,
         Poll(w)
  PROVE  IInv'
<1>1. TypeOK'
  BY DEF Poll, Due, JobsOf, history, IInv, TypeOK, OutboxRecord, Job,
     OUTBOX_STATUS
<1>2. RecordInv'
  BY DEF Poll, Due, JobsOf, history, IInv, TypeOK, RecordInv, OutboxRecord,
     OutboxAssumption
<1>3. JobInv'
  BY DEF Poll, Due, JobsOf, history, IInv, TypeOK, JobInv, OutboxRecord, Job,
     Owned
<1>4. OneDeliveryPerClaim'
  BY DEF Poll, Due, JobsOf, history, IInv, TypeOK, OneDeliveryPerClaim,
     OutboxRecord, Job
<1>5. OwnAttempt'
  BY DEF Poll, Due, JobsOf, history, IInv, TypeOK, OwnAttempt, Job, JobInv
<1>6. OneBatch'
  BY DEF Poll, Due, JobsOf, history, IInv, TypeOK, OneBatch, Job
<1>7. Fenced'
  BY DEF Poll, Due, JobsOf, history, IInv, TypeOK, Fenced, Job, OutboxRecord,
     Owned, OneBatch, DistinctIds, OutboxAssumption
<1>8. FoundInv'
  BY DEF Poll, Due, JobsOf, history, IInv, TypeOK, FoundInv, Owned,
     OutboxRecord, DistinctIds, RecordInv, OneBatch, OutboxAssumption
<1>9. PublishedIsDelivered'
  BY DEF Poll, Due, JobsOf, history, IInv, TypeOK, PublishedIsDelivered,
     Owned, OutboxRecord, JobInv, Fenced, RecordInv, Job
<1>. QED  BY <1>1, <1>2, <1>3, <1>4, <1>5, <1>6, <1>7, <1>8, <1>9 DEF IInv

LEMMA ClaimStep ==
  ASSUME OutboxAssumption, DistinctIds, IInv, NEW w \in Workers, NEW e \in Events,
         Claim(w, e)
  PROVE  IInv'
<1>0. e \in Events /\ e \in found[w]
      /\ found' = [found EXCEPT ![w] = @ \ {e}]
      /\ UNCHANGED <<mode, held, sent, reopened, disruptions>>
  BY DEF Claim, history
<1>1. CASE ~Claimable(w, e)
  <2>1. UNCHANGED <<record, jobs>>
    BY <1>1 DEF Claim
  <2>2. \A v \in Workers : found'[v] \subseteq found[v]
    BY <1>0 DEF IInv, TypeOK
  <2>3. TypeOK'
    BY <1>0, <2>1 DEF IInv, TypeOK
  <2>4. OneBatch'
    BY <2>1, <2>2 DEF IInv, TypeOK, OneBatch, Job
  <2>5. FoundInv'
    BY <2>1, <2>2 DEF IInv, FoundInv, Owned
  <2>. QED
    BY <1>0, <2>1, <2>3, <2>4, <2>5
    DEF IInv, RecordInv, JobInv, OneDeliveryPerClaim, OwnAttempt, Fenced,
        Owned, PublishedIsDelivered
<1>2. CASE Claimable(w, e)
  <2>. DEFINE n == record[e].attempts + 1
              q == Queued(w, e, n)
  <2>1. record' = [record EXCEPT ![e] = Claimed(w, e, n)] /\ jobs' = jobs \cup {q}
    BY <1>2 DEF Claim
  <2>2. n \in 1..MaxAttempts /\ record[e].attempts \in Nat
    BY <1>2 DEF Claimable, IInv, TypeOK, OutboxRecord
  <2>3. /\ q \in Job /\ q.worker = w /\ q.event = e /\ q.attempt = n
        /\ q.step = "queued"
    BY <2>2 DEF Queued, Job
  <2>4. /\ record'[e].status = "PROCESSING"
        /\ record'[e].claimedBy = Id[w]
        /\ record'[e].attempts = n
        /\ \A d \in Events : d # e => record'[d] = record[d]
        /\ record' \in [Events -> OutboxRecord]
    <3>1. record[e] \in OutboxRecord /\ Id[w] \in Ids
      BY DEF IInv, TypeOK, OutboxAssumption
    <3>2. /\ Claimed(w, e, n) \in OutboxRecord
          /\ Claimed(w, e, n).status = "PROCESSING"
          /\ Claimed(w, e, n).claimedBy = Id[w]
          /\ Claimed(w, e, n).attempts = n
      <4>1. n \in 0..MaxAttempts
        BY <2>2 DEF OutboxAssumption
      <4>. HIDE DEF n
      <4>. QED  BY <3>1, <4>1 DEF Claimed, OutboxRecord, OUTBOX_STATUS
    <3>. QED  BY <2>1, <3>2 DEF IInv, TypeOK
  <2>5. \A v \in Workers : found'[v] \subseteq found[v] /\ e \notin found'[w]
    BY <1>0 DEF IInv, TypeOK
  <2>6. \A j \in jobs : /\ j \in Job /\ j.worker \in Workers /\ j.event \in Events
                        /\ j.attempt \in Nat
    BY DEF IInv, TypeOK, Job
  <2>7. \A d \in Events : /\ record[d].attempts \in Nat
                          /\ record[d].attempts <= record'[d].attempts
                          /\ record'[d].attempts \in Nat
    <3>1. \A d \in Events : record[d] \in OutboxRecord /\ record'[d] \in OutboxRecord
      BY <2>4 DEF IInv, TypeOK
    <3>2. \A r \in OutboxRecord : r.attempts \in Nat
      BY DEF OutboxRecord, OutboxAssumption
    <3>3. record[e].attempts <= record'[e].attempts
      BY <2>2, <2>4
    <3>4. \A d \in Events : d # e => record'[d].attempts = record[d].attempts
      BY <2>4
    <3>. QED  BY ONLY <3>1, <3>2, <3>3, <3>4
  <2>8. \A j \in jobs : j.event = e => j.attempt < n /\ j.worker # w
    BY <1>0, <2>2, <2>6 DEF IInv, JobInv, OneBatch
  <2>9. w \in Workers /\ Id[w] \in Ids /\ Id[w] # NoId
    BY DEF OutboxAssumption
  <2>. HIDE DEF n, q
  <2>10. TypeOK'
    <3>1. found' \in [Workers -> SUBSET Events]
      BY <1>0 DEF IInv, TypeOK
    <3>2. jobs' \subseteq Job
      <4>1. jobs \subseteq Job
        BY DEF IInv, TypeOK
      <4>2. jobs' = jobs \cup {q}
        BY <2>1
      <4>3. q \in Job
        BY <2>3
      <4>. QED  BY ONLY <4>1, <4>2, <4>3
    <3>. QED  BY <1>0, <2>4, <3>1, <3>2 DEF IInv, TypeOK
  <2>11. RecordInv'
    <3>1. reopened[e] < n
      BY <2>2, <2>7 DEF IInv, RecordInv, TypeOK, n
    <3>2. reopened'[e] \in Int /\ n \in Int
      BY <1>0, <2>2 DEF IInv, TypeOK
    <3>. QED  BY <1>0, <2>4, <2>9, <3>1, <3>2 DEF IInv, RecordInv
  <2>12. JobInv'
    BY <1>0, <2>1, <2>2, <2>3, <2>4, <2>6, <2>7 DEF IInv, JobInv
  <2>13. OneDeliveryPerClaim'
    <3>1. n \notin sent[e]
      BY <2>2 DEF IInv, OneDeliveryPerClaim, n
    <3>2. \A d \in Events : sent[d] \subseteq 1..record'[d].attempts
      BY <2>7 DEF IInv, OneDeliveryPerClaim
    <3>. QED  BY <1>0, <2>1, <2>3, <3>1, <3>2 DEF IInv, OneDeliveryPerClaim
  <2>14. OwnAttempt'
    <3>1. \A j \in jobs : j.event = e => j.attempt # n
      BY <2>2, <2>6, <2>8
    <3>. QED  BY <2>1, <2>3, <3>1 DEF IInv, OwnAttempt
  <2>15. OneBatch'
    <3>1. \A j, k \in jobs' : j.event = k.event /\ j.worker = k.worker => j = k
      BY <2>1, <2>3, <2>8 DEF IInv, OneBatch
    <3>2. \A j \in jobs' : j.event \notin found'[j.worker]
      BY <2>1, <2>3, <2>5, <2>6 DEF IInv, OneBatch
    <3>. QED  BY <3>1, <3>2 DEF OneBatch
  <2>16. Fenced'
    <3>. SUFFICES ASSUME NEW j \in jobs', Owned(j.worker, j.event)'
                  PROVE  j.attempt = record'[j.event].attempts
      BY DEF Fenced
    <3>1. CASE j = q
      BY <2>3, <2>4, <3>1
    <3>2. CASE j \in jobs /\ j.event # e
      BY <2>4, <2>6, <3>2 DEF Owned, IInv, Fenced
    <3>3. CASE j \in jobs /\ j.event = e
      BY <2>4, <2>6, <2>8, <3>3 DEF Owned, DistinctIds
    <3>. QED  BY <2>1, <3>1, <3>2, <3>3
  <2>17. FoundInv'
    <3>. SUFFICES ASSUME NEW v \in Workers, NEW d \in found'[v], Owned(v, d)'
                  PROVE  record'[d].lease # "live"
      BY DEF FoundInv
    <3>1. d \in found[v] /\ d \in Events
      BY <2>5 DEF IInv, TypeOK
    <3>2. CASE d = e
      BY <2>4, <2>5, <3>2 DEF Owned, DistinctIds
    <3>3. CASE d # e
      BY <2>4, <3>1, <3>3 DEF Owned, IInv, FoundInv
    <3>. QED  BY <3>2, <3>3
  <2>18. PublishedIsDelivered'
    BY <1>0, <2>4 DEF IInv, PublishedIsDelivered
  <2>. QED
    BY <2>10, <2>11, <2>12, <2>13, <2>14, <2>15, <2>16, <2>17, <2>18 DEF IInv
<1>. QED  BY <1>1, <1>2

LEMMA ClaimBatchFailsStep ==
  ASSUME OutboxAssumption, DistinctIds, IInv, NEW w \in Workers,
         ClaimBatchFails(w)
  PROVE  IInv'
<1>1. TypeOK'
  BY DEF ClaimBatchFails, Disrupt, history, IInv, TypeOK, OutboxRecord, Job,
     OUTBOX_STATUS, OutboxAssumption
<1>2. RecordInv'
  BY DEF ClaimBatchFails, Disrupt, history, IInv, TypeOK, RecordInv,
     OutboxRecord, OutboxAssumption
<1>3. JobInv'
  BY DEF ClaimBatchFails, Disrupt, history, IInv, TypeOK, JobInv,
     OutboxRecord, Job, Owned
<1>4. OneDeliveryPerClaim'
  BY DEF ClaimBatchFails, Disrupt, history, IInv, TypeOK,
     OneDeliveryPerClaim, OutboxRecord, Job
<1>5. OwnAttempt'
  BY DEF ClaimBatchFails, Disrupt, history, IInv, TypeOK, OwnAttempt, Job,
     JobInv
<1>6. OneBatch'
  BY DEF ClaimBatchFails, Disrupt, history, IInv, TypeOK, OneBatch, Job
<1>7. Fenced'
  BY DEF ClaimBatchFails, Disrupt, history, IInv, TypeOK, Fenced, Job,
     OutboxRecord, Owned, OneBatch, DistinctIds, OutboxAssumption
<1>8. FoundInv'
  BY DEF ClaimBatchFails, Disrupt, history, IInv, TypeOK, FoundInv, Owned,
     OutboxRecord, DistinctIds, RecordInv, OneBatch, OutboxAssumption
<1>9. PublishedIsDelivered'
  BY DEF ClaimBatchFails, Disrupt, history, IInv, TypeOK,
     PublishedIsDelivered, Owned, OutboxRecord, JobInv, Fenced, RecordInv,
     Job
<1>. QED  BY <1>1, <1>2, <1>3, <1>4, <1>5, <1>6, <1>7, <1>8, <1>9 DEF IInv

LEMMA BeginStep ==
  ASSUME OutboxAssumption, DistinctIds, IInv, NEW j \in jobs,
         Begin(j)
  PROVE  IInv'
<1>1. /\ UNCHANGED <<mode, found, held, sent, reopened>>
      /\ disruptions' \in 0..MaxDisruptions
  BY DEF Begin, Disrupt, workerVars, history, IInv, TypeOK, OutboxAssumption
<1>. QED  BY <1>1, MoveStep DEF Begin, Steps

LEMMA HeartbeatStep ==
  ASSUME OutboxAssumption, DistinctIds, IInv, NEW j \in jobs,
         Heartbeat(j)
  PROVE  IInv'
<1>0. UNCHANGED <<mode, found, held, sent, reopened>>
      /\ jobs \subseteq Job /\ j \in Job
  BY DEF Heartbeat, RenewLease, workerVars, history, IInv, TypeOK
<1>1. disruptions' \in 0..MaxDisruptions
  BY DEF Heartbeat, RenewLease, Disrupt, IInv, TypeOK, OutboxAssumption
<1>2. CASE /\ Owned(j.worker, j.event)
           /\ record' = [record EXCEPT ![j.event].lease = "live"]
           /\ UNCHANGED jobs
  <2>1. /\ record' \in [Events -> OutboxRecord]
        /\ \A d \in Events : /\ record'[d].status = record[d].status
                             /\ record'[d].attempts = record[d].attempts
                             /\ record'[d].claimedBy = record[d].claimedBy
        /\ \A d \in Events : d # j.event => record'[d] = record[d]
    <3>. DEFINE r == [record[j.event] EXCEPT !.lease = "live"]
    <3>1. j.event \in Events /\ record[j.event] \in OutboxRecord
      BY <1>0 DEF IInv, TypeOK, Job
    <3>2. /\ r \in OutboxRecord /\ r.status = record[j.event].status
          /\ r.claimedBy = record[j.event].claimedBy
          /\ r.attempts = record[j.event].attempts
      BY <3>1 DEF OutboxRecord
    <3>3. record' = [record EXCEPT ![j.event] = r]
      BY <1>2
    <3>. HIDE DEF r
    <3>. QED  BY <3>1, <3>2, <3>3 DEF IInv, TypeOK
  <2>2. \A k \in jobs : k.event \in Events /\ k.worker \in Workers
    BY <1>0 DEF Job
  <2>3. TypeOK'
    BY <1>0, <1>1, <1>2, <2>1 DEF IInv, TypeOK
  <2>4. RecordInv' /\ PublishedIsDelivered'
    BY <1>0, <1>2, <2>1 DEF IInv, RecordInv, PublishedIsDelivered, Owned
  <2>5. JobInv' /\ OwnAttempt' /\ OneBatch'
    BY <1>0, <1>2, <2>1, <2>2 DEF IInv, JobInv, OwnAttempt, OneBatch
  <2>6. OneDeliveryPerClaim'
    BY <1>0, <1>2, <2>1, <2>2 DEF IInv, OneDeliveryPerClaim
  <2>7. Fenced'
    BY <1>2, <2>1, <2>2 DEF IInv, Fenced, Owned
  <2>8. FoundInv'
    <3>. SUFFICES ASSUME NEW v \in Workers, NEW d \in found[v], Owned(v, d)'
                  PROVE  record'[d].lease # "live"
      BY <1>0 DEF FoundInv
    <3>1. d \in Events /\ Owned(v, d)
      BY <2>1 DEF IInv, TypeOK, Owned
    <3>2. d # j.event
      BY <1>2, <2>2, <3>1 DEF Owned, DistinctIds, IInv, OneBatch
    <3>. QED  BY <2>1, <3>1, <3>2 DEF IInv, FoundInv
  <2>. QED  BY <2>3, <2>4, <2>5, <2>6, <2>7, <2>8 DEF IInv
<1>3. CASE jobs' = (jobs \ {j}) \cup {[j EXCEPT !.lost = TRUE]} /\ record' = record
  <2>1. jobs' \subseteq Job /\ Descend(j, j.step) /\ j.step \in Steps
    BY <1>0, <1>3, Losing DEF Job, Steps
  <2>2. TypeOK'
    BY <1>0, <1>1, <1>3, <2>1 DEF IInv, TypeOK
  <2>3. RecordInv' /\ PublishedIsDelivered' /\ FoundInv'
    BY <1>0, <1>3 DEF IInv, RecordInv, PublishedIsDelivered, FoundInv, Owned
  <2>4. JobInv' /\ OneBatch' /\ OwnAttempt'
    BY <1>0, <1>3, <2>1 DEF IInv, JobInv, OneBatch, OwnAttempt, Job
  <2>5. OneDeliveryPerClaim'
    BY <1>0, <1>3, <2>1, StaysUndelivered DEF IInv
  <2>6. Fenced'
    BY <1>3, <2>1, StaysFenced DEF IInv
  <2>. QED  BY <2>2, <2>3, <2>4, <2>5, <2>6 DEF IInv
<1>. QED  BY <1>2, <1>3 DEF Heartbeat, RenewLease

LEMMA PublishStep ==
  ASSUME OutboxAssumption, DistinctIds, IInv, NEW j \in jobs,
         Publish(j)
  PROVE  IInv'
<1>0. /\ j.step = "publish"
      /\ UNCHANGED <<record, mode, found, held, reopened, disruptions>>
      /\ sent' = sent \/ Delivered(j)
      /\ \E step \in Steps : Caught(j, step) /\ step \notin {"queued", "publish"}
  BY DEF Publish, workerVars, Steps
<1>a. /\ j \in Job /\ j.event \in Events /\ j.attempt \in 1..MaxAttempts
      /\ jobs \subseteq Job
  BY DEF IInv, TypeOK, Job
<1>b. PICK step \in Steps : /\ Caught(j, step)
                            /\ step \notin {"queued", "publish"}
  BY <1>0
<1>c. jobs' \subseteq Job /\ Descend(j, step)
  BY <1>a, <1>b, Catching
<1>d. /\ sent' \in [Events -> SUBSET (1..MaxAttempts)]
      /\ \A e \in Events : /\ sent[e] \subseteq sent'[e]
                           /\ sent'[e] \subseteq sent[e] \cup {j.attempt}
                           /\ e # j.event => sent'[e] = sent[e]
  BY <1>0, <1>a DEF Delivered, IInv, TypeOK
<1>1. TypeOK'
  BY <1>0, <1>c, <1>d DEF IInv, TypeOK
<1>2. RecordInv'
  BY DEF Publish, Delivered, Caught, End, Go, workerVars, IInv, TypeOK,
     RecordInv, OutboxRecord, OutboxAssumption
<1>3. JobInv'
  BY DEF Publish, Delivered, Caught, End, Go, workerVars, IInv, TypeOK,
     JobInv, OutboxRecord, Job, Owned
<1>4. OneDeliveryPerClaim'
  <2>1. ASSUME NEW k \in jobs', k.step \in {"queued", "publish"}
        PROVE  k.attempt \notin sent'[k.event]
    <3>1. k \in jobs /\ k # j
      BY <1>0, <1>b, <2>1 DEF Caught, End, Go, IInv, TypeOK, Job
    <3>2. k.attempt \notin sent[k.event] /\ k.event \in Events
      BY <2>1, <3>1 DEF IInv, OneDeliveryPerClaim, TypeOK, Job
    <3>3. k.event = j.event => k.attempt # j.attempt
      BY <3>1 DEF IInv, OwnAttempt
    <3>. QED  BY <1>d, <3>2, <3>3
  <2>2. \A e \in Events : sent'[e] \subseteq 1..record[e].attempts
    <3>1. j.attempt \in 1..record[j.event].attempts
      BY <1>a DEF IInv, JobInv, TypeOK, OutboxRecord
    <3>. QED  BY <1>a, <1>d, <3>1 DEF IInv, OneDeliveryPerClaim
  <2>. QED  BY <1>0, <2>1, <2>2 DEF OneDeliveryPerClaim
<1>5. OwnAttempt'
  BY DEF Publish, Delivered, Caught, End, Go, workerVars, IInv, TypeOK,
     OwnAttempt, Job, JobInv
<1>6. OneBatch'
  BY DEF Publish, Delivered, Caught, End, Go, workerVars, IInv, TypeOK,
     OneBatch, Job
<1>7. Fenced'
  BY <1>0, <1>c, StaysFenced DEF IInv
<1>8. FoundInv'
  BY DEF Publish, Delivered, Caught, End, Go, workerVars, IInv, TypeOK,
     FoundInv, Owned, OutboxRecord, DistinctIds, RecordInv, OneBatch,
     OutboxAssumption
<1>9. PublishedIsDelivered'
  BY <1>0, <1>d DEF IInv, PublishedIsDelivered
<1>. QED  BY <1>1, <1>2, <1>3, <1>4, <1>5, <1>6, <1>7, <1>8, <1>9 DEF IInv

LEMMA CompleteStep ==
  ASSUME OutboxAssumption, DistinctIds, IInv, NEW j \in jobs,
         Complete(j)
  PROVE  IInv'
<1>1. /\ UNCHANGED <<mode, found, held, sent, reopened>>
      /\ disruptions' \in 0..MaxDisruptions
  BY DEF Complete, Disrupt, workerVars, history, IInv, TypeOK, OutboxAssumption
<1>2. CASE ~Owned(j.worker, j.event)
  BY <1>1, <1>2, MoveStep DEF Complete, Caught, Steps
<1>3. CASE Owned(j.worker, j.event)
  <2>1. \E n \in sent[j.event] : n > reopened[j.event]
    BY <1>3, OwnedIsDelivered DEF Complete
  <2>. QED  BY <1>1, <1>3, <2>1, MoveStep DEF Complete, Steps
<1>. QED  BY <1>2, <1>3

LEMMA CompleteErrorStep ==
  ASSUME OutboxAssumption, DistinctIds, IInv, NEW j \in jobs,
         CompleteError(j)
  PROVE  IInv'
<1>1. /\ UNCHANGED <<mode, found, held, sent, reopened>>
      /\ disruptions' \in 0..MaxDisruptions
  BY DEF CompleteError, Disrupt, workerVars, history, IInv, TypeOK,
         OutboxAssumption
<1>2. (Go(j, "failFatal") \/ End(j)) /\ "failFatal" \in Steps
  BY DEF CompleteError, Caught, Steps
<1>3. CASE record' = record
  BY <1>1, <1>2, <1>3, MoveStep
<1>4. CASE Owned(j.worker, j.event) /\ Unclaim(j.event, "PUBLISHED", FALSE)
  <2>1. \E n \in sent[j.event] : n > reopened[j.event]
    BY <1>4, OwnedIsDelivered DEF CompleteError
  <2>. QED  BY <1>1, <1>2, <1>4, <2>1, MoveStep
<1>. QED  BY <1>3, <1>4 DEF CompleteError

LEMMA FailStep ==
  ASSUME OutboxAssumption, DistinctIds, IInv, NEW j \in jobs,
         Fail(j)
  PROVE  IInv'
<1>1. /\ UNCHANGED <<mode, found, held, sent, reopened>>
      /\ disruptions' \in 0..MaxDisruptions
  BY DEF Fail, Disrupt, workerVars, history, IInv, TypeOK, OutboxAssumption
<1>. QED  BY <1>1, MoveStep DEF Fail, Steps

LEMMA SettleStep ==
  ASSUME OutboxAssumption, DistinctIds, IInv, NEW j \in jobs,
         Settle(j)
  PROVE  IInv'
<1>1. /\ UNCHANGED <<mode, found, held, sent, reopened>>
      /\ disruptions' \in 0..MaxDisruptions
  BY DEF Settle, Disrupt, workerVars, history, IInv, TypeOK, OutboxAssumption
<1>2. "bury" \in Steps
  BY DEF Steps
<1>. QED  BY <1>1, <1>2, MoveStep DEF Settle

LEMMA FailErrorStep ==
  ASSUME OutboxAssumption, DistinctIds, IInv, NEW j \in jobs,
         FailError(j)
  PROVE  IInv'
<1>1. /\ UNCHANGED <<mode, found, held, sent, reopened>>
      /\ disruptions' \in 0..MaxDisruptions
  BY DEF FailError, Disrupt, workerVars, history, IInv, TypeOK,
         OutboxAssumption
<1>2. "bury" \in Steps
  BY DEF Steps
<1>. QED  BY <1>1, <1>2, MoveStep DEF FailError

LEMMA ShutdownStep ==
  ASSUME OutboxAssumption, DistinctIds, IInv, NEW w \in Workers,
         Shutdown(w)
  PROVE  IInv'
<1>1. TypeOK'
  BY DEF Shutdown, Disrupt, history, IInv, TypeOK, OutboxRecord, Job,
     OUTBOX_STATUS, OutboxAssumption
<1>2. RecordInv'
  BY DEF Shutdown, Disrupt, history, IInv, TypeOK, RecordInv, OutboxRecord,
     OutboxAssumption
<1>3. JobInv'
  BY DEF Shutdown, Disrupt, history, IInv, TypeOK, JobInv, OutboxRecord, Job,
     Owned
<1>4. OneDeliveryPerClaim'
  BY DEF Shutdown, Disrupt, history, IInv, TypeOK, OneDeliveryPerClaim,
     OutboxRecord, Job
<1>5. OwnAttempt'
  BY DEF Shutdown, Disrupt, history, IInv, TypeOK, OwnAttempt, Job, JobInv
<1>6. OneBatch'
  BY DEF Shutdown, Disrupt, history, IInv, TypeOK, OneBatch, Job
<1>7. Fenced'
  BY DEF Shutdown, Disrupt, history, IInv, TypeOK, Fenced, Job, OutboxRecord,
     Owned, OneBatch, DistinctIds, OutboxAssumption
<1>8. FoundInv'
  BY DEF Shutdown, Disrupt, history, IInv, TypeOK, FoundInv, Owned,
     OutboxRecord, DistinctIds, RecordInv, OneBatch, OutboxAssumption
<1>9. PublishedIsDelivered'
  BY DEF Shutdown, Disrupt, history, IInv, TypeOK, PublishedIsDelivered,
     Owned, OutboxRecord, JobInv, Fenced, RecordInv, Job
<1>. QED  BY <1>1, <1>2, <1>3, <1>4, <1>5, <1>6, <1>7, <1>8, <1>9 DEF IInv

LEMMA DrainedStep ==
  ASSUME OutboxAssumption, DistinctIds, IInv, NEW w \in Workers,
         Drained(w)
  PROVE  IInv'
<1>1. TypeOK'
  BY DEF Drained, ActiveJobs, JobsOf, history, IInv, TypeOK, OutboxRecord,
     Job, OUTBOX_STATUS
<1>2. RecordInv'
  BY DEF Drained, ActiveJobs, JobsOf, history, IInv, TypeOK, RecordInv,
     OutboxRecord, OutboxAssumption
<1>3. JobInv'
  BY DEF Drained, ActiveJobs, JobsOf, history, IInv, TypeOK, JobInv,
     OutboxRecord, Job, Owned
<1>4. OneDeliveryPerClaim'
  BY DEF Drained, ActiveJobs, JobsOf, history, IInv, TypeOK,
     OneDeliveryPerClaim, OutboxRecord, Job
<1>5. OwnAttempt'
  BY DEF Drained, ActiveJobs, JobsOf, history, IInv, TypeOK, OwnAttempt, Job,
     JobInv
<1>6. OneBatch'
  BY DEF Drained, ActiveJobs, JobsOf, history, IInv, TypeOK, OneBatch, Job
<1>7. Fenced'
  BY DEF Drained, ActiveJobs, JobsOf, history, IInv, TypeOK, Fenced, Job,
     OutboxRecord, Owned, OneBatch, DistinctIds, OutboxAssumption
<1>8. FoundInv'
  BY DEF Drained, ActiveJobs, JobsOf, history, IInv, TypeOK, FoundInv, Owned,
     OutboxRecord, DistinctIds, RecordInv, OneBatch, OutboxAssumption
<1>9. PublishedIsDelivered'
  BY DEF Drained, ActiveJobs, JobsOf, history, IInv, TypeOK,
     PublishedIsDelivered, Owned, OutboxRecord, JobInv, Fenced, RecordInv,
     Job
<1>. QED  BY <1>1, <1>2, <1>3, <1>4, <1>5, <1>6, <1>7, <1>8, <1>9 DEF IInv

LEMMA ReleaseOwnedStep ==
  ASSUME OutboxAssumption, DistinctIds, IInv, NEW w \in Workers, NEW e \in Events,
         ReleaseOwned(w, e)
  PROVE  IInv'
<1>1. TypeOK'
  <2>1. record' \in [Events -> OutboxRecord]
    BY Unclaimed DEF ReleaseOwned, ReleaseLease, IInv, TypeOK, OUTBOX_STATUS
  <2>2. held' \in [Workers -> SUBSET Events]
    BY DEF ReleaseOwned, IInv, TypeOK
  <2>. QED  BY <2>1, <2>2 DEF ReleaseOwned, history, IInv, TypeOK
<1>2. RecordInv'
  BY DEF ReleaseOwned, ReleaseLease, Unclaim, history, IInv, TypeOK, RecordInv,
     OutboxRecord, OutboxAssumption
<1>3. JobInv'
  BY DEF ReleaseOwned, ReleaseLease, Unclaim, history, IInv, TypeOK, JobInv,
         OutboxRecord, Job, Owned
<1>4. OneDeliveryPerClaim'
  BY DEF ReleaseOwned, ReleaseLease, Unclaim, history, IInv, TypeOK,
         OneDeliveryPerClaim, OutboxRecord, Job
<1>5. OwnAttempt'
  BY DEF ReleaseOwned, ReleaseLease, Unclaim, history, IInv, TypeOK,
         OwnAttempt, Job, JobInv
<1>6. OneBatch'
  BY DEF ReleaseOwned, ReleaseLease, Unclaim, history, IInv, TypeOK, OneBatch,
         Job
<1>7. Fenced'
  BY DEF ReleaseOwned, ReleaseLease, Unclaim, history, IInv, TypeOK, Fenced,
         Job, OutboxRecord, Owned, OneBatch, DistinctIds, OutboxAssumption
<1>8. FoundInv'
  BY DEF ReleaseOwned, ReleaseLease, Unclaim, history, IInv, TypeOK, FoundInv,
         Owned, OutboxRecord, DistinctIds, RecordInv, OneBatch,
         OutboxAssumption
<1>9. PublishedIsDelivered'
  BY DEF ReleaseOwned, ReleaseLease, Unclaim, history, IInv, TypeOK,
         PublishedIsDelivered, Owned, OutboxRecord, JobInv, Fenced, RecordInv,
         Job
<1>. QED  BY <1>1, <1>2, <1>3, <1>4, <1>5, <1>6, <1>7, <1>8, <1>9 DEF IInv

LEMMA StoppedStep ==
  ASSUME OutboxAssumption, DistinctIds, IInv, NEW w \in Workers,
         Stopped(w)
  PROVE  IInv'
<1>1. TypeOK'
  BY DEF Stopped, history, IInv, TypeOK, OutboxRecord, Job, OUTBOX_STATUS
<1>2. RecordInv'
  BY DEF Stopped, history, IInv, TypeOK, RecordInv, OutboxRecord,
     OutboxAssumption
<1>3. JobInv'
  BY DEF Stopped, history, IInv, TypeOK, JobInv, OutboxRecord, Job, Owned
<1>4. OneDeliveryPerClaim'
  BY DEF Stopped, history, IInv, TypeOK, OneDeliveryPerClaim, OutboxRecord,
     Job
<1>5. OwnAttempt'
  BY DEF Stopped, history, IInv, TypeOK, OwnAttempt, Job, JobInv
<1>6. OneBatch'
  BY DEF Stopped, history, IInv, TypeOK, OneBatch, Job
<1>7. Fenced'
  BY DEF Stopped, history, IInv, TypeOK, Fenced, Job, OutboxRecord, Owned,
     OneBatch, DistinctIds, OutboxAssumption
<1>8. FoundInv'
  BY DEF Stopped, history, IInv, TypeOK, FoundInv, Owned, OutboxRecord,
     DistinctIds, RecordInv, OneBatch, OutboxAssumption
<1>9. PublishedIsDelivered'
  BY DEF Stopped, history, IInv, TypeOK, PublishedIsDelivered, Owned,
     OutboxRecord, JobInv, Fenced, RecordInv, Job
<1>. QED  BY <1>1, <1>2, <1>3, <1>4, <1>5, <1>6, <1>7, <1>8, <1>9 DEF IInv

LEMMA GoneStep ==
  ASSUME OutboxAssumption, DistinctIds, IInv, NEW w \in Workers,
         Exit(w) \/ Crash(w)
  PROVE  IInv'
<1>1. TypeOK'
  <2>1. UNCHANGED <<record, sent, reopened>>
    BY DEF Exit, Crash, Gone, history
  <2>2. mode' \in [Workers -> {"RUNNING", "DRAINING", "STOPPING", "STOPPED",
                               "DOWN"}]
    BY DEF Exit, Crash, Gone, IInv, TypeOK
  <2>3. /\ found' \in [Workers -> SUBSET Events]
        /\ held' \in [Workers -> SUBSET Events]
    BY DEF Exit, Crash, Gone, IInv, TypeOK
  <2>4. jobs' \subseteq Job
    BY DEF Exit, Crash, Gone, IInv, TypeOK
  <2>5. disruptions' \in 0..MaxDisruptions
    BY DEF Exit, Crash, Disrupt, IInv, TypeOK, OutboxAssumption
  <2>. QED  BY <2>1, <2>2, <2>3, <2>4, <2>5 DEF IInv, TypeOK
<1>2. RecordInv'
  BY DEF Exit, Crash, Gone, Disrupt, JobsOf, history, IInv, TypeOK,
     RecordInv, OutboxRecord, OutboxAssumption
<1>3. JobInv'
  BY DEF Exit, Crash, Gone, Disrupt, JobsOf, history, IInv, TypeOK, JobInv,
     OutboxRecord, Job, Owned
<1>4. OneDeliveryPerClaim'
  BY DEF Exit, Crash, Gone, Disrupt, JobsOf, history, IInv, TypeOK,
     OneDeliveryPerClaim, OutboxRecord, Job
<1>5. OwnAttempt'
  BY DEF Exit, Crash, Gone, Disrupt, JobsOf, history, IInv, TypeOK,
     OwnAttempt, Job, JobInv
<1>6. OneBatch'
  BY DEF Exit, Crash, Gone, Disrupt, JobsOf, history, IInv, TypeOK, OneBatch,
     Job
<1>7. Fenced'
  BY DEF Exit, Crash, Gone, Disrupt, JobsOf, history, IInv, TypeOK, Fenced,
     Job, OutboxRecord, Owned, OneBatch, DistinctIds, OutboxAssumption
<1>8. FoundInv'
  BY DEF Exit, Crash, Gone, Disrupt, JobsOf, history, IInv, TypeOK, FoundInv,
     Owned, OutboxRecord, DistinctIds, RecordInv, OneBatch, OutboxAssumption
<1>9. PublishedIsDelivered'
  BY DEF Exit, Crash, Gone, Disrupt, JobsOf, history, IInv, TypeOK,
     PublishedIsDelivered, Owned, OutboxRecord, JobInv, Fenced, RecordInv,
     Job
<1>. QED  BY <1>1, <1>2, <1>3, <1>4, <1>5, <1>6, <1>7, <1>8, <1>9 DEF IInv

LEMMA StartStep ==
  ASSUME OutboxAssumption, DistinctIds, IInv, NEW w \in Workers,
         Start(w)
  PROVE  IInv'
<1>1. TypeOK'
  BY DEF Start, history, IInv, TypeOK, OutboxRecord, Job, OUTBOX_STATUS
<1>2. RecordInv'
  BY DEF Start, history, IInv, TypeOK, RecordInv, OutboxRecord,
     OutboxAssumption
<1>3. JobInv'
  BY DEF Start, history, IInv, TypeOK, JobInv, OutboxRecord, Job, Owned
<1>4. OneDeliveryPerClaim'
  BY DEF Start, history, IInv, TypeOK, OneDeliveryPerClaim, OutboxRecord, Job
<1>5. OwnAttempt'
  BY DEF Start, history, IInv, TypeOK, OwnAttempt, Job, JobInv
<1>6. OneBatch'
  BY DEF Start, history, IInv, TypeOK, OneBatch, Job
<1>7. Fenced'
  BY DEF Start, history, IInv, TypeOK, Fenced, Job, OutboxRecord, Owned,
     OneBatch, DistinctIds, OutboxAssumption
<1>8. FoundInv'
  BY DEF Start, history, IInv, TypeOK, FoundInv, Owned, OutboxRecord,
     DistinctIds, RecordInv, OneBatch, OutboxAssumption
<1>9. PublishedIsDelivered'
  BY DEF Start, history, IInv, TypeOK, PublishedIsDelivered, Owned,
     OutboxRecord, JobInv, Fenced, RecordInv, Job
<1>. QED  BY <1>1, <1>2, <1>3, <1>4, <1>5, <1>6, <1>7, <1>8, <1>9 DEF IInv

-----------------------------------------------------------------------------

LEMMA InitInv == OutboxAssumption => (Init => IInv)
BY DEF OutboxAssumption, Init, IInv, TypeOK, RecordInv, JobInv,
   OneDeliveryPerClaim, OwnAttempt, OneBatch, Fenced, FoundInv,
   PublishedIsDelivered, OutboxRecord, OUTBOX_STATUS

LEMMA NextInv ==
  ASSUME DistinctIds, IInv, [Next]_vars
  PROVE  IInv'
<1>. USE OutboxAssumption
<1>1. CASE UNCHANGED vars
  BY <1>1 DEF vars, IInv, TypeOK, RecordInv, JobInv, OneDeliveryPerClaim,
     OwnAttempt, OneBatch, Fenced, FoundInv, PublishedIsDelivered, Owned
<1>2. CASE \E e \in Events : Store(e)
  BY <1>2, CreateStep, ReplayStep, CancelStep, BecomeDueStep, ExpiresStep
  DEF Store
<1>3. CASE \E j \in jobs : Work(j)
  BY <1>3, BeginStep, PublishStep, CompleteStep, FailStep, SettleStep DEF Work
<1>4. CASE \E j \in jobs : Upset(j)
  BY <1>4, HeartbeatStep, CompleteErrorStep, FailErrorStep DEF Upset
<1>5. CASE \E w \in Workers : Loop(w)
  BY <1>5, PollStep, ClaimStep DEF Loop
<1>6. CASE \E w \in Workers : Stop(w)
  BY <1>6, DrainedStep, StoppedStep, GoneStep, StartStep, ReleaseOwnedStep
  DEF Stop
<1>7. CASE \E w \in Workers : ClaimBatchFails(w) \/ Shutdown(w) \/ Crash(w)
  BY <1>7, ClaimBatchFailsStep, ShutdownStep, GoneStep
<1>8. CASE \E w \in Workers, e \in Events : Recover(w, e)
  BY <1>8, RecoverStep
<1>. QED  BY <1>1, <1>2, <1>3, <1>4, <1>5, <1>6, <1>7, <1>8 DEF Next

LEMMA Invariance == DistinctIds => (Spec => []IInv)
<1>. SUFFICES ASSUME DistinctIds PROVE Spec => []IInv
  OBVIOUS
<1>1. Init => IInv
  BY OutboxAssumption, InitInv
<1>2. IInv /\ [Next]_vars => IInv'
  BY NextInv
<1>. QED  BY <1>1, <1>2, PTL DEF Spec

\* Every variable keeps its type; the attempts never exceed MaxAttempts.
THEOREM TypeCorrect == DistinctIds => (Spec => []TypeOK)
<1>1. IInv => TypeOK  BY DEF IInv
<1>. QED  BY <1>1, Invariance, PTL

\* Each claim is delivered at most once, so an event at most MaxAttempts times
\* (claim against attemptCount and maxAttempts).
THEOREM DeliveredOncePerClaim == DistinctIds => (Spec => []OneDeliveryPerClaim)
<1>1. IInv => OneDeliveryPerClaim  BY DEF IInv
<1>. QED  BY <1>1, Invariance, PTL

\* The workerId in the filters of complete, fail and deadLetter does what a
\* fencing token would: a job overtaken by another claim changes nothing.
THEOREM OvertakenJobsAreFenced == DistinctIds => (Spec => []Fenced)
<1>1. IInv => Fenced  BY DEF IInv
<1>. QED  BY <1>1, Invariance, PTL

\* What is PUBLISHED has been delivered since it was stored or last replayed
\* (complete after publish, replay).
THEOREM PublishedWasDelivered == DistinctIds => (Spec => []PublishedIsDelivered)
<1>1. IInv => PublishedIsDelivered  BY DEF IInv
<1>. QED  BY <1>1, Invariance, PTL

-----------------------------------------------------------------------------
(* Claims and leases.                                                      *)

ClaimsExpired ==
  \A e \in Events :
    record'[e].attempts > record[e].attempts => record[e].lease # "live"

\* The attempts of every record are as before.
SameAttempts == \A e \in Events : record'[e].attempts = record[e].attempts

LEMMA UnclaimKeepsAttempts ==
  ASSUME TypeOK, NEW e \in Events, NEW status \in OUTBOX_STATUS,
         NEW due \in BOOLEAN, Unclaim(e, status, due)
  PROVE  SameAttempts
BY OutboxAssumption, Unclaimed DEF SameAttempts

\* Only a claim counts an attempt.
LEMMA OtherSteps ==
  ASSUME TypeOK, Next, ~ \E w \in Workers, e \in Events : Claim(w, e)
  PROVE  SameAttempts
<1>. USE OutboxAssumption
<1>1. ASSUME record' = record  PROVE SameAttempts
  BY <1>1 DEF SameAttempts
<1>2. {"PENDING", "PUBLISHED", "DEAD_LETTERED"} \subseteq OUTBOX_STATUS
  BY DEF OUTBOX_STATUS
<1>3. \A j \in jobs : j.event \in Events
  BY DEF TypeOK, Job
<1>4. CASE \E e \in Events : Store(e)
  <2>. PICK e \in Events : Store(e)  BY <1>4
  <2>1. CASE Create(e) \/ Replay(e)
    BY <1>2, <2>1, UnclaimKeepsAttempts DEF Create, Replay
  <2>2. record[e] \in OutboxRecord
    BY DEF TypeOK
  <2>3. CASE Cancel(e)
    BY <2>2, <2>3 DEF Cancel, SameAttempts, TypeOK, OutboxRecord
  <2>4. CASE BecomeDue(e)
    BY <2>2, <2>4 DEF BecomeDue, SameAttempts, TypeOK, OutboxRecord
  <2>5. CASE LeaseExpires(e)
    BY <2>2, <2>5 DEF LeaseExpires, SameAttempts, TypeOK, OutboxRecord
  <2>. QED  BY <2>1, <2>3, <2>4, <2>5 DEF Store, OrphanExpires, SlowExpires
<1>5. CASE \E j \in jobs : Work(j) \/ Upset(j)
  <2>. PICK j \in jobs : Work(j) \/ Upset(j)  BY <1>5
  <2>1. CASE Begin(j) \/ Publish(j) \/ Fail(j) \/ FailError(j)
    BY <1>1, <2>1 DEF Begin, Publish, Fail, FailError
  <2>2. CASE Complete(j) \/ CompleteError(j)
    BY <1>1, <1>2, <1>3, <2>2, UnclaimKeepsAttempts DEF Complete, CompleteError
  <2>3. CASE Settle(j)
    BY <1>1, <1>2, <1>3, <2>3, UnclaimKeepsAttempts DEF Settle
  <2>4. CASE Heartbeat(j)
    BY <1>1, <1>3, <2>4 DEF Heartbeat, RenewLease, SameAttempts, TypeOK,
        OutboxRecord
  <2>. QED  BY <2>1, <2>2, <2>3, <2>4 DEF Work, Upset
<1>6. CASE \E w \in Workers : Poll(w) \/ ClaimBatchFails(w) \/ Shutdown(w) \/ Crash(w)
  BY <1>1, <1>6 DEF Poll, ClaimBatchFails, Shutdown, Crash, Gone
<1>7. CASE \E w \in Workers : Stop(w)
  BY <1>1, <1>2, <1>7, UnclaimKeepsAttempts
  DEF Stop, Drained, Stopped, Exit, Gone, Start, ReleaseOwned,
      ReleaseLease
<1>8. CASE \E w \in Workers, e \in Events : Recover(w, e)
  BY <1>2, <1>8, UnclaimKeepsAttempts DEF Recover, ReleaseExpired
<1>. QED  BY <1>4, <1>5, <1>6, <1>7, <1>8 DEF Next, Loop

LEMMA ClaimingStep == IInv /\ [Next]_vars => [ClaimsExpired]_vars
<1>. SUFFICES ASSUME IInv, Next  PROVE ClaimsExpired
  OBVIOUS
<1>1. CASE \E w \in Workers, d \in Events : Claim(w, d)
  <2>. PICK w \in Workers, d \in Events : Claim(w, d)  BY <1>1
  <2>1. CASE ~Claimable(w, d)
    BY <2>1 DEF Claim, ClaimsExpired, IInv, TypeOK, OutboxRecord
  <2>2. CASE Claimable(w, d)
    <3>1. record[d].lease # "live"
      BY <2>2 DEF Claimable, Claim, IInv, RecordInv, FoundInv
    <3>2. \A e \in Events : e # d => record'[e] = record[e]
      BY <2>2 DEF Claim, IInv, TypeOK
    <3>. QED  BY <3>1, <3>2 DEF ClaimsExpired, IInv, TypeOK, OutboxRecord
  <2>. QED  BY <2>1, <2>2
<1>2. CASE ~ \E w \in Workers, d \in Events : Claim(w, d)
  BY <1>2, OtherSteps DEF IInv, TypeOK, OutboxRecord, SameAttempts,
      ClaimsExpired
<1>. QED  BY <1>1, <1>2

\* A record whose lease is valid is not claimed, not even by the worker that
\* holds it (claim's filter over what findDue returned).
THEOREM LiveLeaseIsRespected == DistinctIds => (Spec => ClaimRespectsLease)
<1>1. Spec /\ []IInv => [][ClaimsExpired]_vars
  BY ClaimingStep, PTL DEF Spec
<1>. QED  BY <1>1, Invariance DEF ClaimRespectsLease, ClaimsExpired

-----------------------------------------------------------------------------
(* The refinement.                                                         *)

Fresh(e) == \E n \in sent[e] : n > reopened[e]

\* What the outbox looks like from outside is as before.
SameView == \A e \in Events : State(e)' = State(e) /\ Fresh(e)' = Fresh(e)

LEMMA SameViewStutters == SameView => UNCHANGED Delivery!vars
BY DEF SameView, Delivery!vars, Fresh

LEMMA States ==
  ASSUME NEW e \in Events, record[e].status \in OUTBOX_STATUS
  PROVE  /\ record[e].status = "ABSENT" => State(e) = "absent"
         /\ record[e].status \in {"PENDING", "PROCESSING"} => State(e) = "open"
         /\ record[e].status = "PUBLISHED" => State(e) = "published"
         /\ record[e].status = "DEAD_LETTERED" => State(e) = "dead"
         /\ record[e].status = "CANCELLED" => State(e) = "cancelled"
BY DEF State, OUTBOX_STATUS

\* Between PENDING and PROCESSING there is nothing to see.
LEMMA OpenStaysOpen ==
  ASSUME TypeOK, TypeOK', UNCHANGED history,
         \A e \in Events :
           \/ record'[e].status = record[e].status
           \/ {record[e].status, record'[e].status} \subseteq {"PENDING", "PROCESSING"}
  PROVE  SameView
<1>. SUFFICES ASSUME NEW e \in Events
              PROVE  State(e)' = State(e) /\ Fresh(e)' = Fresh(e)
  BY DEF SameView
<1>1. Fresh(e)' = Fresh(e)
  BY DEF Fresh, history
<1>2. record[e].status \in OUTBOX_STATUS /\ record'[e].status \in OUTBOX_STATUS
  BY DEF TypeOK, OutboxRecord
<1>3. CASE record'[e].status = record[e].status
  BY <1>1, <1>2, <1>3 DEF State, OUTBOX_STATUS
<1>4. CASE {record[e].status, record'[e].status} \subseteq {"PENDING", "PROCESSING"}
  BY <1>1, <1>2, <1>4 DEF State, OUTBOX_STATUS
<1>. QED  BY <1>3, <1>4

\* The status of one record changes.
LEMMA OneMoves ==
  ASSUME TypeOK, TypeOK', NEW e \in Events,
         \A d \in Events : d # e => record'[d] = record[d]
  PROVE  [d \in Events |-> State(d)]'
           = [[d \in Events |-> State(d)] EXCEPT ![e] = State(e)']
<1>1. ASSUME NEW d \in Events, d # e  PROVE State(d)' = State(d)
  <2>1. record[d].status \in OUTBOX_STATUS /\ record'[d].status = record[d].status
    BY <1>1 DEF TypeOK, OutboxRecord
  <2>. QED  BY <2>1 DEF State, OUTBOX_STATUS
<1>. QED  BY <1>1

LEMMA SameHistory ==
  UNCHANGED history
    => [e \in Events |-> Fresh(e)]' = [e \in Events |-> Fresh(e)]
BY DEF history, Fresh

\* An update that unclaims a record settles it or leaves it open.
LEMMA UnclaimView ==
  ASSUME IInv, TypeOK', NEW e \in Events, UNCHANGED history,
         record[e].status \in {"PENDING", "PROCESSING"},
         NEW status \in {"PENDING", "PUBLISHED", "DEAD_LETTERED"},
         NEW due \in BOOLEAN, Unclaim(e, status, due),
         status = "PUBLISHED" => Fresh(e)
  PROVE  [Delivery!Next]_(Delivery!vars)
<1>1. /\ record'[e].status = status
      /\ \A d \in Events : d # e => record'[d] = record[d]
  BY OutboxAssumption, Unclaimed DEF IInv, OUTBOX_STATUS
<1>2. State(e) = "open"
  BY States DEF OUTBOX_STATUS
<1>3. CASE status = "PENDING"
  BY <1>1, <1>3, OpenStaysOpen, SameViewStutters DEF IInv
<1>4. CASE status = "PUBLISHED"
  <2>1. State(e)' = "published"
    BY <1>1, <1>4 DEF State
  <2>. QED
    BY <1>1, <1>2, <1>4, <2>1, OneMoves, SameHistory
    DEF IInv, Fresh, Delivery!Next, Delivery!Publish, Delivery!Move
<1>5. CASE status = "DEAD_LETTERED"
  <2>1. State(e)' = "dead"
    BY <1>1, <1>5 DEF State
  <2>. QED
    BY <1>1, <1>2, <2>1, OneMoves, SameHistory
    DEF IInv, Fresh, Delivery!Next, Delivery!Bury, Delivery!Move
<1>. QED  BY <1>3, <1>4, <1>5

LEMMA StoreView ==
  ASSUME IInv, TypeOK', NEW e \in Events, Create(e) \/ Replay(e) \/ Cancel(e)
  PROVE  [Delivery!Next]_(Delivery!vars)
<1>. USE OutboxAssumption
<1>1. CASE Create(e)
  <2>1. /\ record'[e].status = "PENDING"
        /\ \A d \in Events : d # e => record'[d] = record[d]
    BY <1>1, Unclaimed DEF Create, IInv, OUTBOX_STATUS
  <2>2. State(e) = "absent" /\ State(e)' = "open" /\ UNCHANGED history
    BY <1>1, <2>1 DEF Create, State
  <2>. QED
    BY <2>1, <2>2, OneMoves, SameHistory
    DEF IInv, Fresh, Delivery!Next, Delivery!Store, Delivery!Move
<1>2. CASE Replay(e)
  <2>1. /\ record'[e].status = "PENDING"
        /\ \A d \in Events : d # e => record'[d] = record[d]
    <3>1. PICK due \in BOOLEAN : Unclaim(e, "PENDING", due)
      BY <1>2 DEF Replay
    <3>. QED  BY <3>1, Unclaimed DEF IInv, OUTBOX_STATUS
  <2>2. State(e) \in {"open", "published", "dead"} /\ State(e)' = "open"
    BY <1>2, <2>1 DEF Replay, State
  <2>3. ~Fresh(e)' /\ \A d \in Events : d # e => Fresh(d)' = Fresh(d)
    <3>1. /\ sent' = sent /\ reopened'[e] = record[e].attempts
          /\ \A d \in Events : d # e => reopened'[d] = reopened[d]
      BY <1>2 DEF Replay, IInv, TypeOK
    <3>2. sent[e] \subseteq 1..record[e].attempts /\ record[e].attempts \in Int
      BY DEF IInv, OneDeliveryPerClaim, TypeOK, OutboxRecord
    <3>. QED  BY <3>1, <3>2 DEF Fresh
  <2>4. [d \in Events |-> Fresh(d)]' = [[d \in Events |-> Fresh(d)] EXCEPT ![e] = FALSE]
    BY <2>3 DEF Fresh
  <2>. QED
    BY <2>1, <2>2, <2>4, OneMoves
    DEF IInv, Fresh, Delivery!Next, Delivery!Reopen, Delivery!Move
<1>3. CASE Cancel(e)
  <2>1. /\ record'[e].status = "CANCELLED"
        /\ \A d \in Events : d # e => record'[d] = record[d]
    BY <1>3 DEF Cancel, IInv, TypeOK, OutboxRecord
  <2>2. State(e) = "open" /\ State(e)' = "cancelled" /\ UNCHANGED history
    BY <1>3, <2>1 DEF Cancel, State
  <2>. QED
    BY <2>1, <2>2, OneMoves, SameHistory
    DEF IInv, Fresh, Delivery!Next, Delivery!Cancel, Delivery!Move
<1>. QED  BY <1>1, <1>2, <1>3

\* A delivery shows, unless it was of a claim from before the last replay.
LEMMA PublishView ==
  ASSUME IInv, NEW j \in jobs, Publish(j)
  PROVE  [Delivery!Next]_(Delivery!vars)
<1>. DEFINE e == j.event
<1>1. /\ e \in Events /\ j.attempt \in Nat /\ record' = record
      /\ reopened' = reopened /\ sent \in [Events -> SUBSET (1..MaxAttempts)]
  BY DEF Publish, IInv, TypeOK, Job
<1>2. \A d \in Events : State(d)' = State(d)
  BY <1>1 DEF State
<1>3. CASE sent' = sent
  BY <1>1, <1>2, <1>3, SameViewStutters DEF SameView, Fresh
<1>4. CASE Delivered(j)
  <2>1. /\ \A d \in Events : d # e => Fresh(d)' = Fresh(d)
        /\ Fresh(e) => Fresh(e)'
    BY <1>1, <1>4 DEF Delivered, Fresh
  <2>2. CASE Fresh(e)' = Fresh(e)
    BY <1>2, <2>1, <2>2, SameViewStutters DEF SameView
  <2>3. CASE Fresh(e)' # Fresh(e)
    <3>1. [d \in Events |-> Fresh(d)]' = [[d \in Events |-> Fresh(d)] EXCEPT ![e] = TRUE]
      BY <2>1, <2>3 DEF Fresh
    <3>2. record[e].status # "ABSENT"
      BY <1>1 DEF IInv, JobInv, RecordInv, TypeOK, Job
    <3>3. State(e) # "absent"
      BY <1>1, <3>2, States DEF IInv, TypeOK, OutboxRecord, OUTBOX_STATUS
    <3>4. [d \in Events |-> State(d)]' = [d \in Events |-> State(d)]
      BY <1>2
    <3>. QED
      BY <1>1, <3>1, <3>3, <3>4 DEF Fresh, Delivery!Next, Delivery!Deliver
  <2>. QED  BY <2>2, <2>3
<1>. QED  BY <1>3, <1>4 DEF Publish

LEMMA QuietView ==
  ASSUME IInv, TypeOK', UNCHANGED <<record, history>>
  PROVE  [Delivery!Next]_(Delivery!vars)
BY OpenStaysOpen, SameViewStutters DEF IInv

LEMMA ViewStep ==
  ASSUME DistinctIds, IInv, [Next]_vars
  PROVE  [Delivery!Next]_(Delivery!vars)
<1>. USE OutboxAssumption
<1>0. IInv' /\ TypeOK /\ TypeOK'
  BY NextInv DEF IInv
<1>a. \A j \in jobs : j.event \in Events
  BY <1>0 DEF TypeOK, Job
<1>b. ASSUME UNCHANGED history, NEW e \in Events,
             record[e].status \in {"PENDING", "PROCESSING"},
             record'[e].status \in {record[e].status, "PROCESSING"},
             \A d \in Events : d # e => record'[d] = record[d]
      PROVE  [Delivery!Next]_(Delivery!vars)
  BY <1>0, <1>b, OpenStaysOpen, SameViewStutters
<1>1. CASE UNCHANGED vars
  BY <1>0, <1>1, QuietView DEF vars, history
<1>2. CASE \E e \in Events : Store(e)
  <2>. PICK e \in Events : Store(e)  BY <1>2
  <2>1. CASE Create(e) \/ Replay(e) \/ Cancel(e)
    BY <1>0, <2>1, StoreView
  <2>2. CASE BecomeDue(e)
    BY <1>0, <1>b, <2>2 DEF BecomeDue, TypeOK, OutboxRecord
  <2>3. CASE LeaseExpires(e)
    BY <1>0, <1>b, <2>3 DEF LeaseExpires, TypeOK, OutboxRecord, history
  <2>. QED  BY <2>1, <2>2, <2>3 DEF Store, OrphanExpires, SlowExpires
<1>3. CASE \E j \in jobs : Work(j) \/ Upset(j)
  <2>. PICK j \in jobs : Work(j) \/ Upset(j)  BY <1>3
  <2>1. CASE Begin(j) \/ Fail(j) \/ FailError(j)
    BY <1>0, <2>1, QuietView DEF Begin, Fail, FailError
  <2>2. CASE Publish(j)
    BY <2>2, PublishView
  <2>3. CASE Complete(j) \/ CompleteError(j)
    <3>1. CASE record' = record
      BY <1>0, <2>3, <3>1, QuietView DEF Complete, CompleteError
    <3>2. CASE Owned(j.worker, j.event) /\ Unclaim(j.event, "PUBLISHED", FALSE)
      <4>1. Fresh(j.event)
        BY <2>3, <3>2, OwnedIsDelivered DEF Fresh, Complete, CompleteError
      <4>2. UNCHANGED history
        BY <2>3 DEF Complete, CompleteError
      <4>. QED  BY <1>0, <1>a, <3>2, <4>1, <4>2, UnclaimView DEF Owned
    <3>. QED  BY <2>3, <3>1, <3>2 DEF Complete, CompleteError
  <2>4. CASE Settle(j)
    <3>1. CASE record' = record
      BY <1>0, <2>4, <3>1, QuietView DEF Settle
    <3>2. CASE Owned(j.worker, j.event)
      BY <1>0, <1>a, <2>4, <3>2, UnclaimView DEF Owned, Settle
    <3>. QED  BY <2>4, <3>1, <3>2 DEF Settle
  <2>5. CASE Heartbeat(j)
    <3>1. CASE record' = record
      BY <1>0, <2>5, <3>1, QuietView DEF Heartbeat, RenewLease
    <3>2. CASE /\ Owned(j.worker, j.event)
               /\ record' = [record EXCEPT ![j.event].lease = "live"]
      BY <1>0, <1>a, <1>b, <2>5, <3>2 DEF Heartbeat, RenewLease, Owned, TypeOK,
          OutboxRecord
    <3>. QED  BY <2>5, <3>1, <3>2 DEF Heartbeat, RenewLease
  <2>. QED  BY <2>1, <2>2, <2>3, <2>4, <2>5 DEF Work, Upset
<1>4. CASE \E w \in Workers, e \in Events : Claim(w, e)
  <2>. PICK w \in Workers, e \in Events : Claim(w, e)  BY <1>4
  <2>1. CASE ~Claimable(w, e)
    BY <1>0, <2>1, QuietView DEF Claim
  <2>2. CASE Claimable(w, e)
    <3>1. record[e].status \in {"PENDING", "PROCESSING"} /\ UNCHANGED history
      BY <2>2 DEF Claim, Claimable, Owned
    <3>2. /\ record'[e].status = "PROCESSING"
          /\ \A d \in Events : d # e => record'[d] = record[d]
      <4>. DEFINE r == Claimed(w, e, record[e].attempts + 1)
      <4>1. record' = [record EXCEPT ![e] = r]
        BY <2>2 DEF Claim
      <4>2. r.status = "PROCESSING"
        BY <1>0 DEF Claimed, TypeOK, OutboxRecord
      <4>. HIDE DEF r
      <4>. QED  BY <1>0, <4>1, <4>2 DEF TypeOK
    <3>. QED  BY <1>b, <3>1, <3>2
  <2>. QED  BY <2>1, <2>2
<1>5. CASE \E w \in Workers : Poll(w) \/ ClaimBatchFails(w) \/ Shutdown(w) \/ Crash(w)
  BY <1>0, <1>5, QuietView
  DEF Poll, ClaimBatchFails, Shutdown, Crash, Gone
<1>6. CASE \E w \in Workers : Stop(w)
  <2>. PICK w \in Workers : Stop(w)  BY <1>6
  <2>1. CASE Drained(w) \/ Stopped(w) \/ Exit(w) \/ Start(w)
    BY <1>0, <2>1, QuietView DEF Drained, Stopped, Exit, Gone, Start
  <2>2. CASE \E e \in Events : ReleaseOwned(w, e)
    <3>. PICK e \in Events : ReleaseOwned(w, e)  BY <2>2
    <3>1. CASE record[e].claimedBy # Id[w]
      BY <1>0, <3>1, QuietView DEF ReleaseOwned, ReleaseLease
    <3>2. CASE record[e].claimedBy = Id[w]
      <4>1. record[e].status = "PROCESSING"
        BY <3>2 DEF OutboxAssumption, IInv, RecordInv
      <4>. QED  BY <1>0, <3>2, <4>1, UnclaimView DEF ReleaseOwned, ReleaseLease
    <3>. QED  BY <3>1, <3>2
  <2>. QED  BY <2>1, <2>2 DEF Stop
<1>7. CASE \E w \in Workers, e \in Events : Recover(w, e)
  BY <1>0, <1>7, UnclaimView DEF Recover, ReleaseExpired
<1>. QED  BY <1>1, <1>2, <1>3, <1>4, <1>5, <1>6, <1>7 DEF Next, Loop

LEMMA ViewInit == Init => Delivery!Init
BY DEF Init, Delivery!Init, State

\* The outbox implements OutboxDelivery: whatever the workers do, an event is
\* open until it is published, dead-lettered or cancelled, is published only
\* after a delivery of its own, and only a replay opens it again.
THEOREM OutboxImplementsDelivery == DistinctIds => (Spec => ImplementsDelivery)
<1>. SUFFICES ASSUME DistinctIds PROVE Spec => Delivery!Spec
  BY DEF ImplementsDelivery
<1>1. IInv /\ [Next]_vars => [Delivery!Next]_(Delivery!vars)
  BY ViewStep
<1>. QED  BY <1>1, ViewInit, Invariance, PTL DEF Spec, Delivery!Spec

=============================================================================
