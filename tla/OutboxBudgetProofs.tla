------------------------- MODULE OutboxBudgetProofs -------------------------
(***************************************************************************)
(* How many attempts an accident costs: AttemptsLeft, for every number of  *)
(* events, workers and attempts, when no two workers share a workerId and  *)
(* a record has two attempts at least.                                     *)
(*                                                                         *)
(* While nothing has gone wrong, fail leaves two attempts to a record that *)
(* it schedules again, so one is left when that claim is lost.  A shutdown *)
(* could cost more, for the worker goes on to claim what it has found, and *)
(* then releases what it was working on: the invariant sets an attempt     *)
(* aside for such records.                                                 *)
(***************************************************************************)
EXTENDS OutboxProofs

\* A worker between the signal to stop and its exit.
Leaving(w) == mode[w] \in {"DRAINING", "STOPPING", "STOPPED"}

\* A worker is in the middle of the record, and may still update it.
InHand(w, e) ==
  \E j \in jobs :
    j.worker = w /\ j.event = e /\ j.step # "queued" /\ Owned(w, e)

\* A batch is claimed before any of it is started, and what shutdown releases
\* are jobs that were.
ModeInv ==
  \A w \in Workers :
    /\ mode[w] # "STOPPING" => held[w] = {}
    /\ held[w] # {} => found[w] = {}
    /\ found[w] # {} => \A j \in jobs : j.worker = w => j.step = "queued"
    /\ mode[w] = "DOWN" => found[w] = {} /\ \A j \in jobs : j.worker # w

\* What is to be tried again has another attempt.
RetryInv == \A j \in jobs : j.step = "retry" => j.attempt + 1 < MaxAttempts

\* While nothing has gone wrong, two attempts are left before a claim, and one
\* after it.
Calm ==
  disruptions = 0 =>
    /\ \A w \in Workers : mode[w] = "RUNNING"
    /\ \A e \in Events :
         /\ record[e].attempts <= MaxAttempts - 1
         /\ NeedsClaim(e) => record[e].attempts <= MaxAttempts - 2

\* After the first shutdown no other worker leaves.
OneLeaves ==
  disruptions <= 1 =>
    \A v, w \in Workers : Leaving(v) /\ Leaving(w) => v = w

\* After one disruption one attempt is left, and one more as long as a leaving
\* worker may still claim the record, or give it back.
Budget ==
  disruptions <= 1 =>
    \A e \in Events :
      /\ NeedsClaim(e) => record[e].attempts <= MaxAttempts - 1
      /\ \A w \in Workers : Leaving(w) =>
           /\ e \in found[w] =>
                /\ NeedsClaim(e) => record[e].attempts <= MaxAttempts - 2
                /\ record[e].status = "PROCESSING"
                     => record[e].attempts <= MaxAttempts - 1
           /\ InHand(w, e) => record[e].attempts <= MaxAttempts - 1

BInv == ModeInv /\ RetryInv /\ Calm /\ OneLeaves /\ Budget

-----------------------------------------------------------------------------
(* The workers and their jobs.                                             *)

\* Only fail decides to try again, and only when there is another attempt.
LEMMA RetryStep ==
  ASSUME IInv, RetryInv, [Next]_vars
  PROVE  RetryInv'
<1>. USE DEF RetryInv
<1>1. jobs \subseteq Job /\ \A e \in Events : record[e].attempts \in Int
  BY DEF IInv, TypeOK, OutboxRecord
<1>. SUFFICES ASSUME NEW k \in jobs', k.step = "retry", k \notin jobs
              PROVE  k.attempt + 1 < MaxAttempts
  OBVIOUS
<1>2. ASSUME NEW j \in jobs, NEW step \in Steps, Descend(j, step), step # "retry"
      PROVE  k.attempt + 1 < MaxAttempts
  BY <1>2 DEF Descend
<1>3. CASE \E j \in jobs : Work(j) \/ Upset(j)
  <2>. PICK j \in jobs : Work(j) \/ Upset(j)  BY <1>3
  <2>1. CASE Begin(j)
    BY <1>1, <1>2, <2>1, Going DEF Begin, Steps
  <2>2. CASE Publish(j) \/ Complete(j) \/ CompleteError(j)
    BY <1>1, <1>2, <2>2, Catching, Ending
    DEF Publish, Complete, CompleteError, Steps
  <2>3. CASE Settle(j) \/ FailError(j)
    BY <2>3 DEF Settle, FailError, End
  <2>4. CASE Heartbeat(j)
    <3>1. jobs' = (jobs \ {j}) \cup {[j EXCEPT !.lost = TRUE]}
      BY <2>4 DEF Heartbeat
    <3>. QED  BY <1>1, <3>1, Losing DEF Descend
  <2>5. CASE Fail(j)
    <3>1. CASE j.step = "failFatal" \/ Exhausted(j.event)
      BY <1>1, <1>2, <2>5, <3>1, Going DEF Fail, Steps
    <3>2. CASE ~Exhausted(j.event)
      <4>1. record[j.event].attempts + 1 < MaxAttempts
        BY <1>1, <3>2, OutboxAssumption DEF Exhausted, Job
      <4>2. j.attempt <= record[j.event].attempts
        BY DEF IInv, JobInv
      <4>3. Descend(j, IF j.step = "failFatal" \/ Exhausted(j.event)
                       THEN "bury" ELSE "retry")
        BY <1>1, <2>5, Going DEF Fail, Steps
      <4>4. PICK i \in jobs : i.attempt = k.attempt /\ (i.step = "retry" \/ i = j)
        BY <4>3 DEF Descend
      <4>. QED  BY <1>1, <4>1, <4>2, <4>4, OutboxAssumption DEF Job
    <3>. QED  BY <3>1, <3>2
  <2>. QED  BY <2>1, <2>2, <2>3, <2>4, <2>5 DEF Work, Upset
<1>4. CASE \E w \in Workers, e \in Events : Claim(w, e)
  BY <1>4 DEF Claim, Queued
<1>5. CASE UNCHANGED jobs
  BY <1>5
<1>6. CASE \E w \in Workers : ClaimBatchFails(w) \/ Crash(w) \/ Exit(w)
  BY <1>6 DEF ClaimBatchFails, Crash, Exit, Gone
<1>7. CASE \E w \in Workers : Loop(w) \/ Stop(w) \/ Shutdown(w)
  BY <1>4, <1>5, <1>6, <1>7
  DEF Loop, Poll, Stop, Drained, Stopped, Start, ReleaseOwned, Shutdown
<1>8. CASE \E e \in Events : Store(e) \/ \E w \in Workers : Recover(w, e)
  BY <1>5, <1>8
  DEF Store, Create, Replay, Cancel, BecomeDue, OrphanExpires, SlowExpires,
      LeaseExpires, Recover
<1>. QED  BY <1>3, <1>5, <1>6, <1>7, <1>8 DEF Next, vars

\* Steps that leave the workers alone and start no job of a worker that has
\* still to claim.
LEMMA ModeStays ==
  ASSUME IInv, ModeInv, UNCHANGED <<mode, found, held>>,
         \A k \in jobs' : \E i \in jobs :
           /\ i.worker = k.worker
           /\ i.step = "queued" /\ found[i.worker] # {} => k.step = "queued"
  PROVE  ModeInv'
BY DEF ModeInv

LEMMA ModeStep ==
  ASSUME IInv, ModeInv, [Next]_vars
  PROVE  ModeInv'
<1>1. jobs \subseteq Job
  BY DEF IInv, TypeOK
<1>2. CASE UNCHANGED <<mode, found, held, jobs>>
  BY <1>2 DEF ModeInv
<1>3. CASE \E j \in jobs : Work(j) \/ Upset(j)
  <2>. PICK j \in jobs : Work(j) \/ Upset(j)  BY <1>3
  <2>1. UNCHANGED <<mode, found, held>>
    BY DEF Work, Upset, Begin, Publish, Complete, Fail, Settle, Heartbeat,
       CompleteError, FailError, workerVars
  <2>2. ASSUME NEW step \in Steps, Descend(j, step), j.step # "queued"
        PROVE  ModeInv'
    BY <2>1, <2>2, ModeStays DEF Descend
  <2>3. CASE Begin(j)
    <3>1. Descend(j, "publish") /\ found[j.worker] = {}
      BY <1>1, <2>3, Going DEF Begin, Steps
    <3>. QED  BY <2>1, <3>1, ModeStays DEF Descend
  <2>4. CASE Publish(j) \/ Complete(j) \/ CompleteError(j)
    BY <1>1, <2>2, <2>4, Catching, Ending
    DEF Publish, Complete, CompleteError, Steps
  <2>5. CASE Settle(j) \/ FailError(j)
    BY <1>1, <2>2, <2>5, Ending DEF Settle, FailError, Steps
  <2>6. CASE Heartbeat(j)
    <3>1. j.step \in Steps
      BY <1>1 DEF Job, Steps
    <3>2. CASE jobs' = (jobs \ {j}) \cup {[j EXCEPT !.lost = TRUE]}
      BY <1>1, <2>2, <2>6, <3>1, <3>2, Losing DEF Heartbeat
    <3>. QED  BY <1>2, <2>1, <2>6, <3>2 DEF Heartbeat
  <2>7. CASE Fail(j)
    BY <1>1, <2>2, <2>7, Going DEF Fail, Steps
  <2>. QED  BY <2>3, <2>4, <2>5, <2>6, <2>7 DEF Work, Upset
<1>4. ASSUME NEW w \in Workers, Loop(w)  PROVE ModeInv'
  <2>1. CASE Poll(w)
    BY <2>1 DEF Poll, JobsOf, ModeInv, IInv, TypeOK
  <2>2. CASE \E e \in Events : Claim(w, e)
    BY <2>2 DEF Claim, Queued, ModeInv, IInv, TypeOK
  <2>. QED  BY <1>4, <2>1, <2>2 DEF Loop
<1>5. ASSUME NEW w \in Workers, Stop(w)  PROVE ModeInv'
  <2>1. CASE Drained(w)
    <3>1. found[w] # {} => ActiveJobs(w) = {}
      BY DEF ModeInv, ActiveJobs, JobsOf
    <3>. QED  BY <2>1, <3>1 DEF Drained, ModeInv, IInv, TypeOK
  <2>2. CASE Stopped(w)
    BY <2>2 DEF Stopped, ModeInv, IInv, TypeOK
  <2>3. CASE Exit(w)
    BY <2>3 DEF Exit, Gone, JobsOf, ModeInv, IInv, TypeOK
  <2>4. CASE Start(w)
    BY <2>4 DEF Start, ModeInv, IInv, TypeOK
  <2>5. CASE \E e \in Events : ReleaseOwned(w, e)
    BY <2>5 DEF ReleaseOwned, ModeInv, IInv, TypeOK
  <2>. QED  BY <1>5, <2>1, <2>2, <2>3, <2>4, <2>5 DEF Stop
<1>6. ASSUME NEW w \in Workers, ClaimBatchFails(w) \/ Shutdown(w) \/ Crash(w)
      PROVE  ModeInv'
  <2>1. CASE ClaimBatchFails(w)
    BY <2>1 DEF ClaimBatchFails, ModeInv, IInv, TypeOK
  <2>2. CASE Shutdown(w)
    BY <2>2 DEF Shutdown, ModeInv, IInv, TypeOK
  <2>3. CASE Crash(w)
    BY <2>3 DEF Crash, Gone, JobsOf, ModeInv, IInv, TypeOK
  <2>. QED  BY <1>6, <2>1, <2>2, <2>3
<1>7. CASE \E e \in Events : Store(e) \/ \E w \in Workers : Recover(w, e)
  BY <1>2, <1>7
  DEF Store, Create, Replay, Cancel, BecomeDue, OrphanExpires, SlowExpires,
      LeaseExpires, Recover, workerVars
<1>. QED  BY <1>2, <1>3, <1>4, <1>5, <1>6, <1>7 DEF Next, vars

-----------------------------------------------------------------------------
(* Steps that are neither a claim nor a disruption.                        *)

\* No worker stops running; a leaving one gets nothing more in hand; and a
\* record needs a claim only if it did before, if two attempts are left, or if
\* a leaving worker gives it back.
Gentle ==
  /\ \A w \in Workers :
       /\ mode[w] = "RUNNING" => mode'[w] = "RUNNING"
       /\ Leaving(w)' => Leaving(w) /\ found'[w] \subseteq found[w]
  /\ \A e \in Events :
       /\ record'[e].status = "PROCESSING" => record[e].status = "PROCESSING"
       /\ \A w \in Workers : Leaving(w)' /\ InHand(w, e)' => InHand(w, e)
       /\ NeedsClaim(e)' =>
            \/ NeedsClaim(e)
            \/ record[e].attempts <= MaxAttempts - 2
            \/ \E w \in Workers :
                 Leaving(w) /\ InHand(w, e) /\ (Leaving(w)' => e \notin found'[w])

\* Attempts are counted in integers, and jobs are jobs.
LEMMA Basics ==
  ASSUME IInv
  PROVE  /\ \A e \in Events : record[e].attempts \in Int /\ record[e] \in OutboxRecord
         /\ \A j \in jobs : j.event \in Events /\ j.worker \in Workers /\ j \in Job
         /\ MaxAttempts \in Int
BY OutboxAssumption DEF IInv, TypeOK, OutboxRecord, Job

\* Records that are not among the given ones keep their place.
LEMMA NeedStays ==
  ASSUME NEW e \in Events, record'[e].status = record[e].status,
         record'[e].lease = "expired" => record[e].lease = "expired",
         \A i \in jobs : Attending(i, e) => \E k \in jobs' : Attending(k, e)',
         NeedsClaim(e)'
  PROVE  NeedsClaim(e)
BY DEF NeedsClaim

\* A job goes on while the workers and the records stay as they are.
LEMMA GoIsGentle ==
  ASSUME IInv, NEW j \in jobs, NEW step \in Steps \ {"queued"}, Go(j, step),
         UNCHANGED <<record, mode, found>>,
         j.step = "queued" => mode[j.worker] = "RUNNING"
  PROVE  Gentle
<1>. DEFINE n == [j EXCEPT !.step = step]
<1>1. /\ n.worker = j.worker /\ n.event = j.event /\ n.lost = j.lost
      /\ n.step = step
  BY Basics DEF Job
<1>2. jobs' = (jobs \ {j}) \cup {n}
  BY DEF Go
<1>. HIDE DEF n
<1>3. ASSUME NEW e \in Events, NEW i \in jobs, Attending(i, e)
      PROVE  \E k \in jobs' : Attending(k, e)'
  BY <1>1, <1>2, <1>3 DEF Attending, Owned
<1>4. ASSUME NEW e \in Events, NEW w \in Workers, Leaving(w)', InHand(w, e)'
      PROVE  InHand(w, e)
  BY <1>1, <1>2, <1>4 DEF InHand, Owned, Leaving
<1>5. \A e \in Events : NeedsClaim(e)' => NeedsClaim(e)
  BY <1>3, NeedStays
<1>. QED  BY <1>4, <1>5 DEF Gentle, Leaving

\* A job ends that has lost its lease or its record.
LEMMA EndIsGentle ==
  ASSUME IInv, NEW j \in jobs, End(j), UNCHANGED <<record, mode, found>>,
         j.lost \/ ~Owned(j.worker, j.event)
  PROVE  Gentle
<1>1. ASSUME NEW e \in Events, NEW i \in jobs, Attending(i, e)
      PROVE  \E k \in jobs' : Attending(k, e)'
  BY <1>1 DEF Attending, Owned, End
<1>2. ASSUME NEW e \in Events, NEW w \in Workers, InHand(w, e)'
      PROVE  InHand(w, e)
  BY <1>2 DEF InHand, Owned, End
<1>3. \A e \in Events : NeedsClaim(e)' => NeedsClaim(e)
  BY <1>1, NeedStays
<1>. QED  BY <1>2, <1>3 DEF Gentle, Leaving

\* A job settles its own record.
LEMMA UnclaimIsGentle ==
  ASSUME IInv, NEW j \in jobs, End(j), UNCHANGED <<mode, found>>,
         NEW status \in OUTBOX_STATUS \ {"PROCESSING"}, Unclaim(j.event, status, FALSE),
         status = "PENDING" => record[j.event].attempts <= MaxAttempts - 2
  PROVE  Gentle
<1>1. /\ record'[j.event].status = status
      /\ \A d \in Events : d # j.event => record'[d] = record[d]
  BY OutboxAssumption, Basics, Unclaimed DEF IInv
<1>2. ASSUME NEW e \in Events, e # j.event, NEW i \in jobs, Attending(i, e)
      PROVE  \E k \in jobs' : Attending(k, e)'
  BY <1>1, <1>2 DEF Attending, Owned, End
<1>3. ASSUME NEW e \in Events, NEW w \in Workers, InHand(w, e)'
      PROVE  InHand(w, e)
  BY <1>1, <1>3 DEF InHand, Owned, End
<1>4. ASSUME NEW e \in Events, NeedsClaim(e)'
      PROVE  NeedsClaim(e) \/ record[e].attempts <= MaxAttempts - 2
  <2>1. CASE e = j.event
    BY <1>1, <1>4, <2>1 DEF NeedsClaim
  <2>2. CASE e # j.event
    BY <1>1, <1>2, <1>4, <2>2, NeedStays
  <2>. QED  BY <2>1, <2>2
<1>5. \A e \in Events : record'[e].status = "PROCESSING" => record[e].status = "PROCESSING"
  BY <1>1
<1>. QED  BY <1>3, <1>4, <1>5 DEF Gentle, Leaving

\* The jobs and the workers stay, and one record changes.
LEMMA RecordIsGentle ==
  ASSUME IInv, NEW e \in Events, UNCHANGED <<jobs, mode, found>>,
         \A d \in Events : d # e => record'[d] = record[d],
         record'[e].status = "PROCESSING" =>
           record[e].status = "PROCESSING" /\ record'[e].claimedBy = record[e].claimedBy,
         NeedsClaim(e)' => NeedsClaim(e) \/ record[e].attempts <= MaxAttempts - 2
  PROVE  Gentle
<1>1. ASSUME NEW d \in Events, NEW w \in Workers, InHand(w, d)'
      PROVE  InHand(w, d)
  BY <1>1 DEF InHand, Owned
<1>2. ASSUME NEW d \in Events, d # e, NeedsClaim(d)'
      PROVE  NeedsClaim(d)
  BY <1>2 DEF NeedsClaim, Attending, Owned
<1>3. \A d \in Events : record'[d].status = "PROCESSING" => record[d].status = "PROCESSING"
  OBVIOUS
<1>. QED  BY <1>1, <1>2, <1>3 DEF Gentle, Leaving

\* The store's own steps.
LEMMA StoreIsGentle ==
  ASSUME IInv, MaxAttempts >= 2, NEW e \in Events,
         Create(e) \/ Cancel(e) \/ BecomeDue(e) \/ OrphanExpires(e)
  PROVE  Gentle
<1>1. record \in [Events -> OutboxRecord] /\ record[e] \in OutboxRecord
  BY DEF IInv, TypeOK
<1>2. CASE Create(e)
  <2>1. /\ record'[e].status = "PENDING" /\ record[e].attempts = 0
        /\ \A d \in Events : d # e => record'[d] = record[d]
    BY <1>2, OutboxAssumption, Unclaimed
    DEF Create, IInv, RecordInv, OUTBOX_STATUS
  <2>2. 0 <= MaxAttempts - 2
    BY OutboxAssumption
  <2>. QED  BY <1>2, <2>1, <2>2, RecordIsGentle DEF Create, workerVars
<1>3. CASE Cancel(e)
  <2>1. /\ record'[e].status = "CANCELLED"
        /\ \A d \in Events : d # e => record'[d] = record[d]
    BY <1>1, <1>3 DEF Cancel, OutboxRecord
  <2>2. ~NeedsClaim(e)'
    BY <2>1 DEF NeedsClaim
  <2>. QED  BY <1>3, <2>1, <2>2, RecordIsGentle DEF Cancel, workerVars
<1>4. CASE BecomeDue(e)
  <2>1. /\ record'[e].status = record[e].status
        /\ record'[e].claimedBy = record[e].claimedBy
        /\ \A d \in Events : d # e => record'[d] = record[d]
    BY <1>1, <1>4 DEF BecomeDue, OutboxRecord
  <2>2. NeedsClaim(e)
    BY <1>4 DEF BecomeDue, NeedsClaim
  <2>. QED  BY <1>4, <2>1, <2>2, RecordIsGentle DEF BecomeDue, workerVars
<1>5. CASE OrphanExpires(e)
  <2>1. /\ record'[e].status = record[e].status
        /\ record'[e].claimedBy = record[e].claimedBy
        /\ \A d \in Events : d # e => record'[d] = record[d]
    BY <1>1, <1>5 DEF OrphanExpires, LeaseExpires, OutboxRecord
  <2>2. NeedsClaim(e)
    BY <1>5 DEF OrphanExpires, Orphaned, LeaseExpires, NeedsClaim, Attending
  <2>3. UNCHANGED <<jobs, mode, found>> /\ record[e].status = "PROCESSING"
    BY <1>5 DEF OrphanExpires, LeaseExpires, workerVars
  <2>. QED  BY <2>1, <2>2, <2>3, RecordIsGentle
<1>. QED  BY <1>2, <1>3, <1>4, <1>5


\* The steps of a job that is well.
LEMMA WorkIsGentle ==
  ASSUME IInv, RetryInv, NEW j \in jobs, Work(j)
  PROVE  Gentle
<1>1. /\ j \in Job /\ j.event \in Events /\ j.worker \in Workers
      /\ record[j.event].attempts \in Int /\ MaxAttempts \in Int
  BY Basics
<1>2. CASE Begin(j)
  BY <1>2, GoIsGentle DEF Begin, Steps, workerVars
<1>3. CASE Publish(j)
  <2>1. UNCHANGED <<record, mode, found>> /\ j.step # "queued"
    BY <1>3 DEF Publish, workerVars
  <2>. QED  BY <1>3, <2>1, GoIsGentle, EndIsGentle DEF Publish, Caught, Steps
<1>4. CASE Complete(j)
  <2>1. UNCHANGED <<mode, found>> /\ j.step # "queued"
    BY <1>4 DEF Complete, workerVars
  <2>2. CASE Unclaim(j.event, "PUBLISHED", FALSE) /\ End(j)
    BY <2>1, <2>2, UnclaimIsGentle DEF OUTBOX_STATUS
  <2>3. CASE Caught(j, "failRetryable") /\ UNCHANGED record
    BY <2>1, <2>3, GoIsGentle, EndIsGentle DEF Caught, Steps
  <2>. QED  BY <1>4, <2>2, <2>3 DEF Complete
<1>5. CASE Fail(j)
  <2>1. UNCHANGED <<record, mode, found>> /\ j.step # "queued"
    BY <1>5 DEF Fail, workerVars
  <2>. QED  BY <1>5, <2>1, GoIsGentle DEF Fail, Steps
<1>6. CASE Settle(j)
  <2>1. UNCHANGED <<mode, found>> /\ End(j) /\ j.step \in {"retry", "bury"}
    BY <1>6 DEF Settle, workerVars
  <2>2. CASE Owned(j.worker, j.event)
    <3>1. j.step = "retry" => record[j.event].attempts <= MaxAttempts - 2
      BY <1>1, <2>2 DEF RetryInv, IInv, Fenced
    <3>2. CASE j.step = "bury"
      BY <1>6, <2>1, <2>2, <3>2, UnclaimIsGentle DEF Settle, OUTBOX_STATUS
    <3>3. CASE j.step = "retry"
      BY <1>6, <2>1, <2>2, <3>1, <3>3, UnclaimIsGentle DEF Settle, OUTBOX_STATUS
    <3>. QED  BY <2>1, <3>2, <3>3
  <2>3. CASE ~Owned(j.worker, j.event)
    BY <1>6, <2>1, <2>3, EndIsGentle DEF Settle
  <2>. QED  BY <2>2, <2>3
<1>. QED  BY <1>2, <1>3, <1>4, <1>5, <1>6 DEF Work

\* A heartbeat that finds the lease, or finds that it is another's.
LEMMA HeartbeatIsGentle ==
  ASSUME IInv, NEW j \in jobs, Heartbeat(j), disruptions' = disruptions
  PROVE  Gentle
<1>1. /\ j \in Job /\ j.event \in Events /\ j.worker \in Workers
      /\ disruptions \in Int
  BY Basics DEF IInv, TypeOK
<1>2. UNCHANGED <<mode, found>>
  BY DEF Heartbeat, workerVars
<1>3. CASE Owned(j.worker, j.event) /\ RenewLease(j.event) /\ UNCHANGED jobs
  <2>1. record[j.event] \in OutboxRecord
    BY <1>1, Basics
  <2>2. /\ record'[j.event].status = record[j.event].status
        /\ record'[j.event].claimedBy = record[j.event].claimedBy
        /\ record'[j.event].lease = "live"
        /\ \A d \in Events : d # j.event => record'[d] = record[d]
    BY <1>1, <1>3, <2>1 DEF RenewLease, IInv, TypeOK, OutboxRecord
  <2>3. NeedsClaim(j.event)' => NeedsClaim(j.event)
    BY <1>2, <1>3, <2>2 DEF NeedsClaim, Attending, Owned
  <2>. QED  BY <1>1, <1>2, <1>3, <2>2, <2>3, RecordIsGentle DEF Owned
<1>4. CASE /\ ~Owned(j.worker, j.event)
           /\ jobs' = (jobs \ {j}) \cup {[j EXCEPT !.lost = TRUE]}
           /\ UNCHANGED record
  <2>. DEFINE n == [j EXCEPT !.lost = TRUE]
  <2>1. n.worker = j.worker /\ n.event = j.event
    BY <1>1 DEF Job
  <2>2. jobs' = (jobs \ {j}) \cup {n}
    BY <1>4
  <2>. HIDE DEF n
  <2>3. ASSUME NEW e \in Events, NEW i \in jobs, Attending(i, e)
        PROVE  \E k \in jobs' : Attending(k, e)'
    BY <1>2, <1>4, <2>2, <2>3 DEF Attending, Owned
  <2>4. ASSUME NEW e \in Events, NEW w \in Workers, InHand(w, e)'
        PROVE  InHand(w, e)
    BY <1>4, <2>1, <2>2, <2>4 DEF InHand, Owned
  <2>5. \A e \in Events : NeedsClaim(e)' => NeedsClaim(e)
    BY <1>4, <2>3, NeedStays
  <2>. QED  BY <1>2, <1>4, <2>4, <2>5 DEF Gentle, Leaving
<1>5. ~Disrupt
  BY <1>1 DEF Disrupt
<1>. QED  BY <1>3, <1>4, <1>5 DEF Heartbeat

\* The workers start, look for records, and stop.
LEMMA StopIsGentle ==
  ASSUME DistinctIds, IInv, ModeInv, NEW w \in Workers, Poll(w) \/ Stop(w)
  PROVE  Gentle
<1>1. TypeOK
  BY DEF IInv
<1>2. ASSUME UNCHANGED <<record, jobs>>,
             \A v \in Workers : \/ UNCHANGED <<mode[v], found[v]>>
                                \/ v = w /\ mode[w] # "RUNNING" /\ ~Leaving(w)'
                                     /\ \A j \in jobs : j.worker # w
                                \/ v = w /\ Leaving(w) /\ Leaving(w)' /\ found'[w] = found[w]
                                \/ v = w /\ mode[w] = "RUNNING" /\ mode'[w] = "RUNNING"
      PROVE  Gentle
  <2>1. ASSUME NEW e \in Events, NEW i \in jobs, Attending(i, e)
        PROVE  \E k \in jobs' : Attending(k, e)'
    BY <1>2, <2>1, Basics DEF Attending, Owned, Leaving
  <2>2. ASSUME NEW e \in Events, NEW v \in Workers, InHand(v, e)'
        PROVE  InHand(v, e)
    BY <1>2, <2>2 DEF InHand, Owned
  <2>3. \A e \in Events : NeedsClaim(e)' => NeedsClaim(e)
    BY <1>2, <2>1, NeedStays
  <2>4. \A v \in Workers : /\ mode[v] = "RUNNING" => mode'[v] = "RUNNING"
                           /\ Leaving(v)' => Leaving(v) /\ found'[v] \subseteq found[v]
    BY <1>2 DEF Leaving
  <2>. QED  BY <1>2, <2>2, <2>3, <2>4 DEF Gentle
<1>3. CASE Poll(w)
  BY <1>1, <1>2, <1>3 DEF Poll, TypeOK
<1>4. CASE Drained(w) \/ Stopped(w)
  BY <1>1, <1>2, <1>4 DEF Drained, Stopped, TypeOK, Leaving
<1>5. CASE Start(w)
  BY <1>1, <1>2, <1>5 DEF Start, TypeOK, Leaving, ModeInv
<1>6. CASE Exit(w)
  <2>1. /\ UNCHANGED record /\ mode[w] = "STOPPED" /\ mode'[w] = "DOWN"
        /\ jobs' = jobs \ JobsOf(w)
        /\ \A v \in Workers : v # w => UNCHANGED <<mode[v], found[v]>>
    BY <1>1, <1>6 DEF Exit, Gone, TypeOK
  <2>2. ASSUME NEW e \in Events, NEW v \in Workers, InHand(v, e)'
        PROVE  InHand(v, e)
    BY <2>1, <2>2 DEF InHand, Owned
  <2>3. ASSUME NEW e \in Events, NeedsClaim(e)', ~InHand(w, e)
        PROVE  NeedsClaim(e)
    <3>1. ASSUME NEW i \in jobs, Attending(i, e)
          PROVE  \E k \in jobs' : Attending(k, e)'
      <4>1. i.worker # w
        BY <2>1, <2>3, <3>1 DEF Attending, InHand
      <4>. QED  BY <2>1, <3>1, <4>1, Basics DEF Attending, Owned, JobsOf
    <3>. QED  BY <2>1, <2>3, <3>1, NeedStays
  <2>4. Leaving(w) /\ ~Leaving(w)'
    BY <2>1 DEF Leaving
  <2>5. \A v \in Workers : /\ mode[v] = "RUNNING" => mode'[v] = "RUNNING"
                           /\ Leaving(v)' => Leaving(v) /\ found'[v] \subseteq found[v]
    BY <2>1, <2>4 DEF Leaving
  <2>6. \A e \in Events : NeedsClaim(e)' =>
            \/ NeedsClaim(e)
            \/ Leaving(w) /\ InHand(w, e) /\ (Leaving(w)' => e \notin found'[w])
    BY <2>3, <2>4
  <2>. QED  BY <2>1, <2>2, <2>5, <2>6 DEF Gentle
<1>7. CASE \E e \in Events : ReleaseOwned(w, e)
  <2>. PICK e \in Events : ReleaseOwned(w, e)  BY <1>7
  <2>1. /\ UNCHANGED <<mode, found, jobs>>
        /\ e \in held[w] /\ ReleaseLease(w, e)
    BY DEF ReleaseOwned
  <2>2. Leaving(w) /\ found'[w] = {}
    BY <2>1 DEF ModeInv, Leaving
  <2>3. CASE record[e].claimedBy # Id[w]
    BY <1>2, <2>1, <2>3 DEF ReleaseLease
  <2>4. CASE record[e].claimedBy = Id[w]
    <3>1. /\ record'[e].status = "PENDING"
          /\ \A d \in Events : d # e => record'[d] = record[d]
      BY <1>1, <2>1, <2>4, OutboxAssumption, Unclaimed DEF ReleaseLease, OUTBOX_STATUS
    <3>2. Owned(w, e)
      BY <2>4, OutboxAssumption DEF IInv, RecordInv, Owned
    <3>3. CASE InHand(w, e)
      <4>1. ASSUME NEW d \in Events, NEW v \in Workers, InHand(v, d)'
            PROVE  InHand(v, d)
        BY <2>1, <3>1, <4>1 DEF InHand, Owned
      <4>2. ASSUME NEW d \in Events, d # e, NeedsClaim(d)'
            PROVE  NeedsClaim(d)
        BY <2>1, <3>1, <4>2 DEF NeedsClaim, Attending, Owned
      <4>3. \A d \in Events : NeedsClaim(d)' =>
              \/ NeedsClaim(d)
              \/ Leaving(w) /\ InHand(w, d) /\ (Leaving(w)' => d \notin found'[w])
        BY <2>2, <3>3, <4>2
      <4>4. \A d \in Events : record'[d].status = "PROCESSING" => record[d].status = "PROCESSING"
        BY <3>1
      <4>. QED  BY <2>1, <4>1, <4>3, <4>4 DEF Gentle, Leaving
    <3>4. CASE ~InHand(w, e)
      <4>1. NeedsClaim(e)
        \* A job of another worker does not own the record, and one that this
        \* worker has not started will not be.
        BY <2>2, <3>2, <3>4, Basics
        DEF NeedsClaim, Attending, InHand, Owned, DistinctIds, Leaving
      <4>. QED  BY <2>1, <3>1, <4>1, RecordIsGentle
    <3>. QED  BY <3>3, <3>4
  <2>. QED  BY <2>3, <2>4
<1>. QED  BY <1>3, <1>4, <1>5, <1>6, <1>7 DEF Stop

\* Any step that is neither a claim nor a disruption.
LEMMA GentleStep ==
  ASSUME DistinctIds, MaxAttempts >= 2, IInv, ModeInv, RetryInv, [Next]_vars,
         disruptions' = disruptions, ~ \E w \in Workers, e \in Events : Claim(w, e)
  PROVE  Gentle
<1>1. ~Disrupt
  BY DEF Disrupt, IInv, TypeOK
<1>2. CASE UNCHANGED vars
  BY <1>2 DEF vars, Gentle, Leaving, InHand, NeedsClaim, Attending, Owned
<1>3. CASE \E e \in Events : Store(e)
  BY <1>1, <1>3, StoreIsGentle DEF Store, Replay, SlowExpires
<1>4. CASE \E j \in jobs : Work(j) \/ Upset(j)
  BY <1>1, <1>4, WorkIsGentle, HeartbeatIsGentle DEF Upset, CompleteError, FailError
<1>5. CASE \E w \in Workers : Loop(w) \/ Stop(w)
  BY <1>5, StopIsGentle DEF Loop
<1>6. CASE \E w \in Workers : ClaimBatchFails(w) \/ Shutdown(w) \/ Crash(w)
  BY <1>1, <1>6 DEF ClaimBatchFails, Shutdown, Crash
<1>7. CASE \E w \in Workers, e \in Events : Recover(w, e)
  <2>. PICK w \in Workers, e \in Events : Recover(w, e)  BY <1>7
  <2>1. /\ record'[e].status = "PENDING"
        /\ \A d \in Events : d # e => record'[d] = record[d]
    BY OutboxAssumption, Unclaimed DEF Recover, ReleaseExpired, IInv, OUTBOX_STATUS
  <2>2. NeedsClaim(e)
    BY DEF Recover, ReleaseExpired, NeedsClaim
  <2>. QED  BY <2>1, <2>2, RecordIsGentle DEF Recover, workerVars
<1>. QED  BY <1>2, <1>3, <1>4, <1>5, <1>6, <1>7 DEF Next

LEMMA GentleKeeps ==
  ASSUME IInv, Calm, OneLeaves, Budget, Gentle, SameAttempts,
         disruptions' = disruptions
  PROVE  Calm' /\ OneLeaves' /\ Budget'
<1>1. \A e \in Events : record[e].attempts \in Int /\ MaxAttempts \in Int
  BY Basics
<1>2. \A e \in Events : record'[e].attempts = record[e].attempts
  BY DEF SameAttempts
<1>3. Calm'
  <2>. SUFFICES ASSUME disruptions = 0, NEW e \in Events, NeedsClaim(e)'
                PROVE  record[e].attempts <= MaxAttempts - 2
    BY <1>2 DEF Calm, Gentle
  <2>1. \A w \in Workers : ~Leaving(w)
    BY DEF Calm, Leaving
  <2>. QED  BY <2>1 DEF Gentle, Calm
<1>4. OneLeaves'
  BY DEF OneLeaves, Gentle
<1>5. Budget'
  <2>. SUFFICES ASSUME disruptions <= 1, NEW e \in Events
                PROVE  /\ NeedsClaim(e)' => record[e].attempts <= MaxAttempts - 1
                       /\ \A w \in Workers : Leaving(w)' =>
                            /\ e \in found'[w] =>
                                 /\ NeedsClaim(e)' => record[e].attempts <= MaxAttempts - 2
                                 /\ record'[e].status = "PROCESSING"
                                      => record[e].attempts <= MaxAttempts - 1
                            /\ InHand(w, e)' => record[e].attempts <= MaxAttempts - 1
    BY <1>2 DEF Budget
  <2>1. NeedsClaim(e)' => record[e].attempts <= MaxAttempts - 1
    BY <1>1 DEF Gentle, Budget
  <2>2. ASSUME NEW w \in Workers, Leaving(w)', e \in found'[w], NeedsClaim(e)'
        PROVE  record[e].attempts <= MaxAttempts - 2
    <3>1. Leaving(w) /\ e \in found[w]
      BY <2>2 DEF Gentle
    <3>2. \A v \in Workers : Leaving(v) => v = w
      BY <3>1 DEF OneLeaves
    <3>. QED  BY <2>2, <3>1, <3>2 DEF Gentle, Budget
  <2>3. \A w \in Workers : Leaving(w)' /\ e \in found'[w] =>
          (record'[e].status = "PROCESSING" => record[e].attempts <= MaxAttempts - 1)
    BY DEF Gentle, Budget
  <2>4. \A w \in Workers : Leaving(w)' /\ InHand(w, e)' => record[e].attempts <= MaxAttempts - 1
    BY DEF Gentle, Budget
  <2>. QED  BY <2>1, <2>2, <2>3, <2>4
<1>. QED  BY <1>3, <1>4, <1>5

-----------------------------------------------------------------------------
(* Claims.                                                                 *)

LEMMA ClaimKeeps ==
  ASSUME DistinctIds, IInv, ModeInv, Calm, OneLeaves, Budget,
         NEW w \in Workers, NEW d \in Events, Claim(w, d)
  PROVE  Calm' /\ OneLeaves' /\ Budget'
<1>1. /\ \A e \in Events : record[e].attempts \in Int /\ MaxAttempts \in Int
      /\ TypeOK
  BY Basics DEF IInv
<1>2. /\ UNCHANGED <<mode, disruptions>> /\ d \in found[w]
      /\ found' = [found EXCEPT ![w] = @ \ {d}]
  BY DEF Claim
<1>3. /\ \A v \in Workers : found'[v] \subseteq found[v]
      /\ d \notin found'[w]
  BY <1>1, <1>2 DEF TypeOK
<1>4. \A v \in Workers : Leaving(v)' <=> Leaving(v)
  BY <1>2 DEF Leaving
<1>5. OneLeaves'
  BY <1>2, <1>4 DEF OneLeaves
<1>6. CASE ~Claimable(w, d)
  <2>1. UNCHANGED <<record, jobs>>
    BY <1>6 DEF Claim
  <2>2. /\ \A e \in Events : NeedsClaim(e)' <=> NeedsClaim(e)
        /\ \A e \in Events, v \in Workers : InHand(v, e)' <=> InHand(v, e)
    BY <1>2, <2>1 DEF NeedsClaim, Attending, Owned, InHand
  <2>3. Calm'
    BY <1>2, <2>1, <2>2 DEF Calm
  <2>4. Budget'
    BY <1>2, <1>3, <1>4, <2>1, <2>2 DEF Budget
  <2>. QED  BY <1>5, <2>3, <2>4
<1>7. CASE Claimable(w, d)
  <2>. PICK new : new = Queued(w, d, record[d].attempts + 1)
    OBVIOUS
  <2>1. /\ record' = [record EXCEPT ![d] = Claimed(w, d, record[d].attempts + 1)]
        /\ jobs' = jobs \cup {new}
    BY <1>7 DEF Claim
  <2>2. /\ record'[d].status = "PROCESSING" /\ record'[d].lease = "live"
        /\ record'[d].claimedBy = Id[w]
        /\ record'[d].attempts = record[d].attempts + 1
        /\ \A e \in Events : e # d => record'[e] = record[e]
    BY <1>1, <2>1 DEF Claimed, TypeOK, OutboxRecord
  <2>3. /\ new.worker = w /\ new.event = d /\ ~new.lost /\ new.step = "queued"
    BY DEF Queued
  \* The record could be claimed only because nobody was in the middle of it.
  <2>4. NeedsClaim(d)
    <3>1. CASE Owned(w, d)
      BY <1>2, <3>1, Basics DEF NeedsClaim, Attending, Owned, DistinctIds, IInv, OneBatch
    <3>. QED  BY <1>7, <3>1 DEF Claimable, NeedsClaim
  <2>5. mode[w] = "RUNNING" \/ Leaving(w)
    BY <1>1, <1>2 DEF ModeInv, TypeOK, Leaving
  <2>6. ASSUME NeedsClaim(d)'  PROVE Leaving(w)
    <3>1. mode[w] = "RUNNING" => Attending(new, d)'
      BY <1>2, <2>2, <2>3 DEF Attending, Owned
    <3>. QED  BY <2>1, <2>2, <2>5, <2>6, <3>1 DEF NeedsClaim
  <2>7. ASSUME NEW e \in Events, e # d
        PROVE  /\ NeedsClaim(e)' <=> NeedsClaim(e)
               /\ \A v \in Workers : InHand(v, e)' <=> InHand(v, e)
    BY <1>2, <2>1, <2>2, <2>3, <2>7 DEF NeedsClaim, Attending, Owned, InHand
  <2>8. Calm'
    <3>. SUFFICES ASSUME disruptions = 0, NEW e \in Events
                  PROVE  /\ record'[e].attempts <= MaxAttempts - 1
                         /\ NeedsClaim(e)' => record'[e].attempts <= MaxAttempts - 2
      BY <1>2 DEF Calm
    <3>1. ~Leaving(w)
      BY DEF Calm, Leaving
    <3>2. CASE e = d
      BY <1>1, <2>2, <2>4, <2>6, <3>1, <3>2 DEF Calm
    <3>3. CASE e # d
      BY <2>2, <2>7, <3>3 DEF Calm
    <3>. QED  BY <3>2, <3>3
  <2>9. Budget'
    <3>. SUFFICES ASSUME disruptions <= 1, NEW e \in Events
                  PROVE  /\ NeedsClaim(e)' => record'[e].attempts <= MaxAttempts - 1
                         /\ \A v \in Workers : Leaving(v)' =>
                              /\ e \in found'[v] =>
                                   /\ NeedsClaim(e)' => record'[e].attempts <= MaxAttempts - 2
                                   /\ record'[e].status = "PROCESSING"
                                        => record'[e].attempts <= MaxAttempts - 1
                              /\ InHand(v, e)' => record'[e].attempts <= MaxAttempts - 1
      BY <1>2 DEF Budget
    <3>1. CASE e # d
      <4>1. record'[e] = record[e] /\ (NeedsClaim(e)' <=> NeedsClaim(e))
        BY <2>2, <2>7, <3>1
      <4>2. \A v \in Workers : InHand(v, e)' <=> InHand(v, e)
        BY <2>7, <3>1
      <4>. QED  BY <1>3, <1>4, <4>1, <4>2 DEF Budget
    <3>2. CASE e = d
      <4>1. Leaving(w) => record'[d].attempts <= MaxAttempts - 1
        BY <1>1, <1>2, <2>2, <2>4 DEF Budget
      <4>2. ASSUME NEW v \in Workers, Leaving(v), d \in found'[v]
            PROVE  ~Leaving(w) /\ record'[d].attempts <= MaxAttempts - 1
        <5>1. v # w /\ d \in found[v]
          BY <1>3, <4>2
        <5>2. ~Leaving(w)
          BY <4>2, <5>1 DEF OneLeaves
        <5>3. record[d].attempts <= MaxAttempts - 2
          BY <2>4, <4>2, <5>1 DEF Budget
        <5>. QED  BY <1>1, <2>2, <5>2, <5>3
      <4>3. ASSUME NEW v \in Workers, InHand(v, d)'  PROVE FALSE
        <5>1. Id[v] = Id[w]
          BY <2>2, <4>3 DEF InHand, Owned
        <5>2. v = w
          BY <5>1 DEF DistinctIds
        <5>3. PICK j \in jobs : j.worker = w /\ j.step # "queued"
          BY <2>1, <2>3, <4>3, <5>2 DEF InHand
        <5>. QED  BY <1>2, <5>3 DEF ModeInv
      <4>. QED  BY <1>4, <2>6, <3>2, <4>1, <4>2, <4>3
    <3>. QED  BY <3>1, <3>2
  <2>. QED  BY <1>5, <2>8, <2>9
<1>. QED  BY <1>6, <1>7

-----------------------------------------------------------------------------
(* Disruptions.                                                            *)

\* The modes after a disruption.
LEMMA DisruptedModes ==
  ASSUME IInv, Next, disruptions' = disruptions + 1,
         \A w \in Workers : mode[w] = "RUNNING"
  PROVE  \/ \A w \in Workers : ~Leaving(w)'
         \/ \E w \in Workers :
              /\ Shutdown(w)
              /\ \A v \in Workers : Leaving(v)' => v = w
<1>1. TypeOK /\ disruptions + 1 # disruptions
  BY DEF IInv, TypeOK
<1>2. CASE UNCHANGED mode
  BY <1>2 DEF Leaving
<1>3. CASE \E w \in Workers : Crash(w)
  BY <1>1, <1>3 DEF Crash, Gone, TypeOK, Leaving
<1>4. CASE \E w \in Workers : Shutdown(w)
  BY <1>1, <1>4 DEF Shutdown, TypeOK, Leaving
<1>5. CASE \E w \in Workers : ClaimBatchFails(w)
  BY <1>2, <1>5 DEF ClaimBatchFails
<1>6. CASE \E j \in jobs : Work(j) \/ Upset(j)
  BY <1>2, <1>6
  DEF Work, Upset, Begin, Publish, Complete, Fail, Settle, Heartbeat,
      CompleteError, FailError, workerVars
<1>7. CASE \E e \in Events : Store(e) \/ \E w \in Workers : Recover(w, e)
  BY <1>2, <1>7
  DEF Store, Create, Replay, Cancel, BecomeDue, OrphanExpires, SlowExpires,
      LeaseExpires, Recover, workerVars
<1>8. ASSUME NEW w \in Workers, Loop(w) \/ Stop(w)  PROVE FALSE
  BY <1>1, <1>8
  DEF Loop, Poll, Claim, Stop, Drained, Stopped, Exit, Start, ReleaseOwned
<1>. QED  BY <1>3, <1>4, <1>5, <1>6, <1>7, <1>8 DEF Next

LEMMA DisruptionKeeps ==
  ASSUME IInv, IInv', Calm, Next, disruptions = 0, disruptions' = 1, SameAttempts
  PROVE  Calm' /\ OneLeaves' /\ Budget'
<1>1. \A e \in Events : record[e].attempts \in Int /\ MaxAttempts \in Int
  BY Basics
<1>2. \A e \in Events : /\ record'[e].attempts = record[e].attempts
                        /\ record'[e].attempts <= MaxAttempts - 1
  BY DEF SameAttempts, Calm
<1>3. /\ \A w \in Workers : mode[w] = "RUNNING"
      /\ \A e \in Events : NeedsClaim(e) => record[e].attempts <= MaxAttempts - 2
  BY DEF Calm
<1>4. Calm'
  BY DEF Calm
<1>5. CASE \A w \in Workers : ~Leaving(w)'
  BY <1>2, <1>4, <1>5 DEF OneLeaves, Budget
<1>6. ASSUME NEW w \in Workers, Shutdown(w), \A v \in Workers : Leaving(v)' => v = w
      PROVE  OneLeaves' /\ Budget'
  <2>1. UNCHANGED <<record, found, jobs>> /\ mode' = [mode EXCEPT ![w] = "DRAINING"]
    BY <1>6 DEF Shutdown, history
  <2>2. OneLeaves'
    BY <1>6 DEF OneLeaves
  \* What the worker has found it has no job for.
  <2>3. ASSUME NEW e \in found[w], e \in Events, NeedsClaim(e)'
        PROVE  NeedsClaim(e)
    <3>1. ASSUME NEW i \in jobs, Attending(i, e)
          PROVE  \E k \in jobs' : Attending(k, e)'
      <4>1. i.worker # w
        BY <3>1 DEF Attending, IInv, OneBatch
      <4>. QED  BY <2>1, <3>1, <4>1, Basics DEF Attending, Owned, IInv, TypeOK
    <3>. QED  BY <2>1, <2>3, <3>1, NeedStays
  <2>4. Budget'
    BY <1>2, <1>3, <1>6, <2>1, <2>3 DEF Budget
  <2>. QED  BY <2>2, <2>4
<1>7. disruptions' = disruptions + 1
  OBVIOUS
<1>. QED  BY <1>3, <1>4, <1>5, <1>6, <1>7, DisruptedModes

-----------------------------------------------------------------------------

LEMMA BudgetInit == MaxAttempts >= 2 /\ Init => BInv
<1>. SUFFICES ASSUME MaxAttempts >= 2, Init  PROVE BInv
  OBVIOUS
<1>1. ModeInv /\ RetryInv
  BY DEF Init, ModeInv, RetryInv
<1>2. \A e \in Events : record[e].attempts = 0
  BY DEF Init
<1>3. \A w \in Workers : ~Leaving(w) /\ mode[w] = "RUNNING"
  BY DEF Init, Leaving
<1>4. 0 <= MaxAttempts - 2 /\ 0 <= MaxAttempts - 1
  BY OutboxAssumption
<1>. QED  BY <1>1, <1>2, <1>3, <1>4 DEF BInv, Calm, OneLeaves, Budget

LEMMA BudgetNext ==
  ASSUME DistinctIds, MaxAttempts >= 2, IInv, BInv, [Next]_vars
  PROVE  BInv'
<1>1. ModeInv' /\ RetryInv' /\ IInv'
  BY ModeStep, RetryStep, NextInv DEF BInv
<1>2. disruptions \in Nat /\ disruptions' \in Nat
  BY <1>1, OutboxAssumption DEF IInv, TypeOK
<1>3. disruptions' = disruptions \/ disruptions' = disruptions + 1
  BY DEF Next, vars, Store, Create, Replay, Cancel, BecomeDue, OrphanExpires,
     SlowExpires, Work, Upset, Begin, Publish, Complete, Fail, Settle,
     Heartbeat, CompleteError, FailError, Loop, Poll, Claim, Stop, Drained,
     Stopped, Exit, Start, ReleaseOwned, ClaimBatchFails, Shutdown, Crash,
     Recover, Disrupt
<1>4. CASE disruptions' >= 2
  BY <1>1, <1>2, <1>4 DEF BInv, Calm, OneLeaves, Budget
<1>5. CASE \E w \in Workers, e \in Events : Claim(w, e)
  BY <1>1, <1>5, ClaimKeeps DEF BInv
<1>6. CASE ~ \E w \in Workers, e \in Events : Claim(w, e)
  <2>1. SameAttempts
    BY <1>6, OtherSteps DEF IInv, vars, SameAttempts
  <2>2. CASE disruptions' = disruptions
    BY <1>1, <1>6, <2>1, <2>2, GentleStep, GentleKeeps DEF BInv
  <2>3. CASE disruptions' = disruptions + 1 /\ disruptions' < 2
    <3>1. Next /\ disruptions = 0 /\ disruptions' = 1
      BY <1>2, <2>3 DEF vars
    <3>. QED  BY <1>1, <2>1, <3>1, DisruptionKeeps DEF BInv
  <2>. QED  BY <1>2, <1>3, <1>4, <2>2, <2>3
<1>. QED  BY <1>5, <1>6

\* After one crash, shutdown, database error, lost lease or replay, every
\* record that needs another claim has an attempt left for it, whatever else
\* the workers do (claim's limit against fail's, which buries one attempt
\* earlier).
THEOREM OneAccidentIsAfforded ==
  ASSUME DistinctIds, MaxAttempts >= 2
  PROVE  Spec => []AttemptsLeft
<1>1. Init => BInv
  BY BudgetInit
<1>2. IInv /\ BInv /\ [Next]_vars => BInv'
  BY BudgetNext
<1>3. Spec => []IInv
  BY Invariance
<1>4. IInv /\ BInv => AttemptsLeft
  BY Basics DEF BInv, Budget, AttemptsLeft
<1>. QED  BY <1>1, <1>2, <1>3, <1>4, PTL DEF Spec

=============================================================================
