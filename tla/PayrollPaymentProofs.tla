------------------------ MODULE PayrollPaymentProofs ------------------------
(***************************************************************************)
(* Which interleavings of payroll handlers pay an employee twice, and which *)
(* leave a success unposted, proved for any number of handlers.            *)
(*                                                                         *)
(* The payments of a transaction are asked for under the keys 0, 2, 3, ...: *)
(* 0 by the first attempt, n by attempt n.  As long as every refusal is    *)
(* stored against the attempt it is about, each key is asked for only when *)
(* all the keys below it are refused (PaymentsInTurn): a retry read the    *)
(* row when it was FAILED, and FAILED was the refusal of the last key.     *)
(***************************************************************************)
EXTENDS PayrollProofs

\* Every payment of t asked for by its first n attempts is refused.
RefusedUpTo(t, n) ==
  \A k \in Keys : k # 1 /\ k <= n => provider[t][k] = "failed"

\* A refusal that a handler is about to store names the payment refused; a
\* posting it is about to settle has been answered.
HandlerRefusal(j) ==
  /\ j.step = "call" => j.op \in {"process", "retry"}
  /\ j.step = "store" /\ j.res = "FAILED" =>
       Reference(j) \in Keys /\ provider[j.cur][Reference(j)] = "failed"
  /\ j.op = "reconcile" => j.ptid = NoRef
  /\ j.step = "settle" => j.out # "PENDING"

JobRefusal == \A w \in Workers : HandlerRefusal(job[w])

\* A row that is FAILED, a row that is being retried and a payment that was
\* asked for: the payments before it are refused.
PaymentsInTurn ==
  \A t \in Txs \ overtaken :
    /\ tx[t].status = "FAILED" =>
         tx[t].attempt >= 1 /\ RefusedUpTo(t, tx[t].attempt)
    /\ \A w \in Workers :
         job[w].op = "retry" /\ t \in job[w].todo =>
           /\ job[w].seen[t].attempt >= 1
           /\ RefusedUpTo(t, job[w].seen[t].attempt)
    /\ \A k \in Keys : provider[t][k] # "none" =>
         k # 1 /\ RefusedUpTo(t, k - 1)

-----------------------------------------------------------------------------
(* The answers handlers hold.                                              *)

\* A payment refused for good stays refused.
LEMMA StaysRefused ==
  ASSUME TInv, [Next]_vars, NEW t \in Txs, NEW k \in Keys,
         provider[t][k] = "failed"
  PROVE  provider'[t][k] = "failed"
BY Grows DEF Refused

\* A payment comes into being when a handler asks for it.
LEMMA NewPayment ==
  ASSUME TInv, [Next]_vars, NEW t \in Txs, NEW k \in Keys,
         provider[t][k] = "none", provider'[t][k] # "none"
  PROVE  \E w \in Workers : Calling(w, t) /\ k = DisburseKey(w)
<1>1. provider \in [Txs -> [Keys -> ProviderState]]
  BY DEF TInv, TypeOK
<1>2. ~ \E u \in Txs, l \in Keys : ProviderDecides(u, l)
  BY <1>1 DEF ProviderDecides
<1>3. ASSUME NEW w \in Workers, Disburse(w)
      PROVE  Calling(w, t) /\ k = DisburseKey(w)
  <2> DEFINE u == job[w].cur
             l == DisburseKey(w)
  <2>1. u \in Txs /\ l \in Keys
    BY <1>3, DisburseKeyType DEF Disburse
  <2>2. \E p : provider' = [provider EXCEPT ![u][l] = p]
    <3>1. CASE UNCHANGED provider
      BY <3>1
    <3> QED
      BY <1>3, <3>1 DEF Disburse
  <2>3. job[w].step = "call"
    BY <1>3 DEF Disburse
  <2>4. u = t /\ l = k
    <3> HIDE DEF u, l
    <3> QED
      BY <1>1, <2>1, <2>2
  <2> QED
    BY <2>3, <2>4 DEF Calling
<1> QED
  BY <1>2, <1>3, ProviderWrites

\* What a handler that starts holds: a callback tells of a payment that is so.
LEMMA RefusalBegin ==
  ASSUME TInv, NEW w \in Workers, Begin(w)
  PROVE  HandlerRefusal(job[w])'
<1>1. job \in [Workers -> Job]
  BY DEF TInv, TypeOK
<1>2. CASE UploadCreate(w) \/ StartProcess(w)
  <2>1. job'[w].step \in {"insert", "mark"} /\ job'[w].op \in {"upload", "process"}
    BY <1>1, <1>2 DEF UploadCreate, StartProcess, Start, Idle
  <2> QED
    BY <2>1 DEF HandlerRefusal
<1>3. CASE StartRetry(w) \/ StartReconcile(w)
  <2>1. job'[w].step = "next" /\ job'[w].ptid = NoRef
    BY <1>1, <1>3 DEF StartRetry, StartReconcile, Start, Idle
  <2> QED
    BY <2>1 DEF HandlerRefusal
<1>4. ASSUME NEW t \in Txs, NEW k \in Keys, StartWebhook(w, t, k)
      PROVE  HandlerRefusal(job[w])'
  <2>1. PICK res \in Reportable(provider[t][k]), r \in {k, NoRef},
             step \in {"store", "post", "stats"} :
          Start(w, [Idle EXCEPT !.op = "webhook", !.step = step, !.cur = t,
                                !.todo = {t}, !.seen[t] = Read(tx[t]),
                                !.res = res, !.ptid = k, !.pref = r])
    BY <1>4 DEF StartWebhook
  <2>2. /\ job'[w].op = "webhook" /\ job'[w].step = step /\ job'[w].cur = t
        /\ job'[w].res = res /\ job'[w].ptid = k
    BY <1>1, <2>1 DEF Start, Idle
  <2>3. res = "FAILED" => provider'[t][k] = "failed"
    BY <1>4 DEF StartWebhook, Reportable, Observed
  <2>4. Reference(job'[w]) = k
    BY <2>2 DEF Reference, Keys, NoRef
  <2> QED
    BY <2>2, <2>3, <2>4 DEF HandlerRefusal, Reference
<1> QED
  BY <1>2, <1>3, <1>4 DEF Begin

\* A handler that comes to no step at which it says something of a payment
\* says nothing wrong.
LEMMA RefusalQuiet ==
  ASSUME NEW w \in Workers, HandlerRefusal(job[w]),
         job'[w].step \notin {"call", "store", "settle"},
         job'[w].op # "reconcile" \/
           (job'[w].op = job[w].op /\ job'[w].ptid \in {job[w].ptid, NoRef})
  PROVE  HandlerRefusal(job[w])'
BY DEF HandlerRefusal

LEMMA RefusalContinue ==
  ASSUME TInv, JobRefusal, NEW w \in Workers, Continue(w)
  PROVE  HandlerRefusal(job[w])'
<1>1. job \in [Workers -> Job] /\ job[w] \in Job
  BY DEF TInv, TypeOK
<1>2. HandlerRefusal(job[w])
  BY DEF JobRefusal
<1>3. ASSUME NEW step \in Steps \ {"call", "store", "settle"}, Goto(w, step)
      PROVE  HandlerRefusal(job[w])'
  <2>1. /\ job'[w].step = step /\ job'[w].op = job[w].op
        /\ job'[w].ptid = job[w].ptid
    BY <1>1, <1>3 DEF Goto, Job
  <2> QED
    BY <1>2, <2>1, RefusalQuiet
<1>4. ASSUME Advance(w) PROVE HandlerRefusal(job[w])'
  <2>1. /\ job'[w].step = "next" /\ job'[w].op = job[w].op
        /\ job'[w].ptid = NoRef
    BY <1>1, <1>4 DEF Advance, Job
  <2> QED
    BY <1>2, <2>1, RefusalQuiet
<1>5. ASSUME job' = [job EXCEPT ![w] = Idle] PROVE HandlerRefusal(job[w])'
  BY <1>1, <1>2, <1>5, RefusalQuiet DEF Idle
<1>6. CASE UploadInsert(w) \/ PublishStats(w)
  BY <1>5, <1>6 DEF UploadInsert, PublishStats
<1>7. CASE \/ MarkProcessing(w) \/ StoreOutcome(w) \/ SettlePosting(w)
           \/ RereadPosting(w) \/ StampReconciled(w) \/ EndLoop(w)
  BY <1>3, <1>4, <1>5, <1>7
  DEF MarkProcessing, StoreOutcome, SettlePosting, RereadPosting,
      StampReconciled, EndLoop, Steps
<1>8. CASE ListClaimable(w)
  <2>1. job'[w].step = "next" /\ job'[w].op = "process"
    BY <1>1, <1>8 DEF ListClaimable, At, Job
  <2> QED
    BY <1>2, <2>1, RefusalQuiet
<1>9. CASE ReadStats(w) \/ ReadCount(w) \/ ReadFinals(w) \/ ReadPosteds(w)
  <2>1. /\ job'[w].step \notin {"call", "store", "settle"}
        /\ job'[w].op = job[w].op /\ job'[w].ptid = job[w].ptid
    BY <1>1, <1>9 DEF ReadStats, ReadCount, ReadFinals, ReadPosteds, Job
  <2> QED
    BY <1>2, <2>1, RefusalQuiet
<1>10. ASSUME NEW t \in Txs, Claim(w, t) \/ MarkRetrying(w, t)
       PROVE  HandlerRefusal(job[w])'
  <2>1. /\ job'[w].step \in {"call", "next"}
        /\ job'[w].op \in {"process", "retry"}
    BY <1>1, <1>10 DEF Claim, MarkRetrying, At, Job
  <2> QED
    BY <2>1 DEF HandlerRefusal
<1>11. ASSUME NEW t \in Txs, QueryProvider(w, t)
       PROVE  HandlerRefusal(job[w])'
  <2> DEFINE k == Reference(job[w].seen[t])
  <2>1. k \in Keys
    BY <1>1, <1>11
    DEF QueryProvider, At, TInv, JobShape, Job, Seen, Reference, Refs
  <2>2. PICK res \in {Observed(provider[t][k]), "UNKNOWN"} :
          job' = [job EXCEPT ![w].step = "store", ![w].cur = t,
                             ![w].res = res, ![w].pref = k]
    BY <1>11 DEF QueryProvider
  <2>3. res = "FAILED" => provider'[t][k] = "failed"
    BY <1>11 DEF QueryProvider, Observed
  <2>4. job[w].ptid = NoRef
    BY <1>2, <1>11 DEF QueryProvider, At, HandlerRefusal
  <2> HIDE DEF k
  <2>5. /\ job'[w].step = "store" /\ job'[w].cur = t /\ job'[w].res = res
        /\ job'[w].pref = k /\ job'[w].ptid = NoRef
    BY <1>1, <2>2, <2>4 DEF Job
  <2> QED
    BY <2>1, <2>3, <2>5 DEF HandlerRefusal, Reference
<1>12. CASE Disburse(w)
  <2> DEFINE t == job[w].cur
             k == DisburseKey(w)
  <2>1. t \in Txs /\ k \in Keys
    BY <1>12, DisburseKeyType DEF Disburse
  <2>2. PICK res, ref :
          /\ Answer(w, res, ref)
          /\ res = "FAILED" => ref = k /\ provider'[t][k] = "failed"
    <3>1. CASE Answer(w, "UNKNOWN", NoRef)
      BY <3>1
    <3>2. ASSUME NEW p \in {"pending", "paid", "failed", provider[t][k]},
                 provider' = [provider EXCEPT ![t][k] = p],
                 Answer(w, Observed(p), k)
          PROVE  /\ Answer(w, Observed(p), k)
                 /\ Observed(p) = "FAILED"  => provider'[t][k] = "failed"
      <4>1. provider'[t][k] = p
        BY <2>1, <3>2 DEF TInv, TypeOK
      <4> QED
        BY <3>2, <4>1 DEF Observed
    <3> QED
      BY <1>12, <3>1, <3>2 DEF Disburse, NoAnswer
  <2>3. job[w].op # "reconcile"
    BY <1>2, <1>12 DEF Disburse, HandlerRefusal
  <2>4. /\ job'[w].step = "store" /\ job'[w].cur = t /\ job'[w].res = res
        /\ job'[w].op = job[w].op /\ job'[w].ptid = ref
    BY <1>1, <2>2 DEF Answer, Job
  <2> HIDE DEF t, k
  <2> QED
    BY <2>1, <2>2, <2>3, <2>4 DEF HandlerRefusal, Reference, Keys, NoRef
<1>13. CASE Post(w)
  <2>1. PICK out \in {"POSTED", "REQUIRES_REVIEW"} :
          job' = [job EXCEPT ![w].step = "settle", ![w].out = out]
    BY <1>13 DEF Post
  <2>2. /\ job'[w].step = "settle" /\ job'[w].out = out
        /\ job'[w].op = job[w].op /\ job'[w].ptid = job[w].ptid
    BY <1>1, <2>1 DEF Job
  <2> QED
    BY <1>2, <2>2 DEF HandlerRefusal
<1> QED
  BY <1>6, <1>7, <1>8, <1>9, <1>10, <1>11, <1>12, <1>13 DEF Continue

LEMMA RefusalInit == Init => JobRefusal
BY DEF Init, Idle, JobRefusal, HandlerRefusal

LEMMA RefusalStep == TInv /\ JobRefusal /\ [Next]_vars => JobRefusal'
<1>. SUFFICES ASSUME TInv, JobRefusal, [Next]_vars, NEW w \in Workers
              PROVE  HandlerRefusal(job[w])'
  BY DEF JobRefusal
<1>1. job \in [Workers -> Job] /\ job[w] \in Job
  BY DEF TInv, TypeOK
<1>2. HandlerRefusal(job[w])
  BY DEF JobRefusal
<1>3. CASE job'[w] = job[w]
  <2>1. job[w].step = "store" => job[w].cur \in Txs
    BY <1>1 DEF TInv, JobShape, Busy, Job
  <2>2. job[w].step = "store" /\ job[w].res = "FAILED" =>
          provider'[job[w].cur][Reference(job[w])] = "failed"
    BY <1>2, <2>1, StaysRefused DEF HandlerRefusal
  <2> QED
    BY <1>2, <1>3, <2>2 DEF HandlerRefusal, Reference
<1>4. CASE Abort(w)
  BY <1>1, <1>2, <1>4, RefusalQuiet DEF Abort, Idle
<1> QED
  BY <1>3, <1>4, OneMoves, RefusalBegin, RefusalContinue

LEMMA RefusalInvariant == Spec => []JobRefusal
BY RefusalInit, RefusalStep, TypesInvariant, PTL DEF Spec

-----------------------------------------------------------------------------
(* Payments in turn.                                                       *)

\* A transaction that was overtaken stays so; a refusal that is stored is
\* otherwise about the present attempt.
LEMMA OvertakenGrows ==
  ASSUME [Next]_vars
  PROVE  overtaken \subseteq overtaken'
<1>. USE DEF hist, Note
<1>1. ASSUME NEW v \in Workers, Begin(v)
      PROVE  UNCHANGED overtaken
  <2>1. ASSUME NEW t \in Txs, NEW k \in Keys, StartWebhook(v, t, k)
        PROVE  UNCHANGED overtaken
    BY <2>1 DEF StartWebhook
  <2> QED
    BY <1>1, <2>1
    DEF Begin, UploadCreate, StartProcess, StartRetry, StartReconcile
<1>2. ASSUME NEW v \in Workers, NEW t \in Txs,
             Claim(v, t) \/ MarkRetrying(v, t) \/ QueryProvider(v, t)
      PROVE  UNCHANGED overtaken
  BY <1>2 DEF Claim, MarkRetrying, QueryProvider
<1>3. ASSUME NEW v \in Workers,
             \/ UploadInsert(v) \/ MarkProcessing(v) \/ ListClaimable(v)
             \/ Disburse(v) \/ StoreOutcome(v) \/ Post(v) \/ SettlePosting(v)
             \/ RereadPosting(v) \/ StampReconciled(v) \/ EndLoop(v)
      PROVE  overtaken \subseteq overtaken'
  BY <1>3
  DEF UploadInsert, MarkProcessing, ListClaimable, Disburse, StoreOutcome,
      Post, SettlePosting, RereadPosting, StampReconciled, EndLoop
<1>4. ASSUME NEW v \in Workers,
             \/ ReadStats(v) \/ ReadCount(v) \/ ReadFinals(v)
             \/ ReadPosteds(v) \/ PublishStats(v) \/ Abort(v)
      PROVE  UNCHANGED overtaken
  BY <1>4 DEF ReadStats, ReadCount, ReadFinals, ReadPosteds, PublishStats, Abort
<1>5. CASE UNCHANGED vars
  BY <1>5 DEF vars
<1>6. ASSUME NEW t \in Txs, NEW k \in Keys, ProviderDecides(t, k)
      PROVE  UNCHANGED overtaken
  BY <1>6 DEF ProviderDecides
<1> QED
  BY <1>1, <1>2, <1>3, <1>4, <1>5, <1>6 DEF Next, Continue

\* What a retry has to do it has read when it started.
LEMMA RetryReadAtStart ==
  ASSUME TInv, [Next]_vars, NEW w \in Workers, NEW t \in Txs,
         job'[w].op = "retry", t \in job'[w].todo
  PROVE  \/ /\ t \in rows /\ tx[t].status = "FAILED"
            /\ job'[w].seen[t].attempt = tx[t].attempt
         \/ /\ job[w].op = "retry" /\ t \in job[w].todo
            /\ job'[w].seen[t] = job[w].seen[t]
<1> DEFINE Goal ==
      /\ job[w].op = "retry" /\ t \in job[w].todo
      /\ job'[w].seen[t] = job[w].seen[t]
<1>1. job \in [Workers -> Job] /\ job[w] \in Job
  BY DEF TInv, TypeOK
<1>2. CASE job'[w] = job[w]
  BY <1>2
<1>3. job'[w] # Idle
  BY DEF Idle
<1>4. CASE StartRetry(w)
  <2>1. /\ job'[w].todo = {u \in rows : tx[u].status \in Retryable}
        /\ job'[w].seen = Snapshot
    BY <1>1, <1>4 DEF StartRetry, Start, Idle
  <2> QED
    BY <2>1 DEF Retryable, Snapshot, Read
<1>5. CASE UploadCreate(w) \/ StartProcess(w) \/ StartReconcile(w)
  BY <1>1, <1>5 DEF UploadCreate, StartProcess, StartReconcile, Start, Idle
<1>6. ASSUME NEW u \in Txs, NEW k \in Keys, StartWebhook(w, u, k)
      PROVE  FALSE
  BY <1>1, <1>6 DEF StartWebhook, Start, Idle
<1>7. ASSUME NEW step, Goto(w, step)
      PROVE  Goal
  BY <1>1, <1>7 DEF Goto, Job
<1>8. ASSUME Advance(w) PROVE Goal
  BY <1>1, <1>8 DEF Advance, Job
<1>9. CASE UploadInsert(w) \/ PublishStats(w) \/ Abort(w)
  BY <1>1, <1>3, <1>9 DEF UploadInsert, PublishStats, Abort
<1>10. CASE \/ MarkProcessing(w) \/ StoreOutcome(w) \/ SettlePosting(w)
            \/ RereadPosting(w) \/ StampReconciled(w) \/ EndLoop(w)
  BY <1>1, <1>3, <1>7, <1>8, <1>10
  DEF MarkProcessing, StoreOutcome, SettlePosting, RereadPosting,
      StampReconciled, EndLoop
<1>11. CASE ListClaimable(w)
  BY <1>1, <1>11 DEF ListClaimable, At, Job
<1>12. CASE ReadStats(w) \/ ReadCount(w) \/ ReadFinals(w) \/ ReadPosteds(w)
  BY <1>1, <1>12 DEF ReadStats, ReadCount, ReadFinals, ReadPosteds, Job
<1>13. ASSUME NEW u \in Txs, Claim(w, u) PROVE FALSE
  BY <1>1, <1>13 DEF Claim, At, Job
<1>14. ASSUME NEW u \in Txs, MarkRetrying(w, u) \/ QueryProvider(w, u)
       PROVE  Goal
  BY <1>1, <1>14 DEF MarkRetrying, QueryProvider, Job
<1>15. CASE Disburse(w)
  <2>1. PICK res, ref : Answer(w, res, ref)
    BY <1>15 DEF Disburse
  <2> QED
    BY <1>1, <2>1 DEF Answer, Job
<1>16. CASE Post(w)
  BY <1>1, <1>16 DEF Post, Job
<1> HIDE DEF Goal
<1>17. \/ Goal
       \/ /\ t \in rows /\ tx[t].status = "FAILED"
          /\ job'[w].seen[t].attempt = tx[t].attempt
  BY <1>2, <1>4, <1>5, <1>6, <1>9, <1>10, <1>11, <1>12, <1>13, <1>14, <1>15,
     <1>16, OneMoves DEF Begin, Continue, Goal
<1> QED
  BY <1>17 DEF Goal

\* A row becomes FAILED by a refusal that is stored, and a refusal stored
\* against its own attempt follows those of the attempts before.
LEMMA FailedInTurn ==
  ASSUME TInv, JobRefusal, PaymentsInTurn, [Next]_vars,
         NEW t \in Txs \ overtaken', tx'[t].status = "FAILED"
  PROVE  tx'[t].attempt >= 1 /\ RefusedUpTo(t, tx'[t].attempt)
<1>1. tx \in [Txs -> TxRecord] /\ job \in [Workers -> Job]
  BY DEF TInv, TypeOK
<1>2. t \notin overtaken
  BY OvertakenGrows
<1>3. tx[t].status = "FAILED" =>
        tx[t].attempt >= 1 /\ RefusedUpTo(t, tx[t].attempt)
  BY <1>2 DEF PaymentsInTurn
<1>4. CASE tx'[t] = tx[t]
  BY <1>3, <1>4
<1>5. ASSUME NEW w \in Workers, NEW u \in Txs, Claim(w, u) \/ MarkRetrying(w, u)
      PROVE  tx'[t] = tx[t]
  <2>1. CASE UNCHANGED tx
    BY <2>1
  <2>2. ASSUME NEW status \in {"PROCESSING", "RETRYING"},
               tx' = [tx EXCEPT ![u].status = status, ![u].attempt = @ + 1]
        PROVE  tx'[t] = tx[t]
    BY <1>1, <2>2 DEF TxRecord
  <2> QED
    BY <1>5, <2>1, <2>2 DEF Claim, MarkRetrying
<1>6. ASSUME NEW w \in Workers, SettlePosting(w) \/ StampReconciled(w)
      PROVE  tx'[t].status = tx[t].status /\ tx'[t].attempt = tx[t].attempt
  <2>1. CASE SettlePosting(w)
    BY <1>1, <2>1 DEF SettlePosting, TxRecord
  <2>2. CASE StampReconciled(w)
    BY <1>1, <2>2 DEF StampReconciled, TxRecord
  <2> QED
    BY <1>6, <2>1, <2>2
<1>7. ASSUME NEW w \in Workers, StoreOutcome(w), job[w].cur = t
      PROVE  tx'[t].attempt >= 1 /\ RefusedUpTo(t, tx'[t].attempt)
  <2> DEFINE k == Reference(job[w])
  <2>1. tx'[t].status = job[w].res /\ tx'[t].attempt = tx[t].attempt
    BY <1>1, <1>7 DEF StoreOutcome, Recorded, TxRecord
  <2>2. k \in Keys /\ provider[t][k] = "failed"
    BY <1>7, <2>1 DEF StoreOutcome, JobRefusal, HandlerRefusal
  <2>3. AttemptOf(k) = tx[t].attempt
    BY <1>2, <1>7, <2>1 DEF StoreOutcome, Note, Belated
  <2>4. k # 1 /\ RefusedUpTo(t, k - 1)
    BY <1>2, <2>2 DEF PaymentsInTurn
  <2>5. k \in Nat /\ \A l \in Keys : l \in Nat
    BY <2>2 DEF Keys
  <2> HIDE DEF k
  <2>6. RefusedUpTo(t, AttemptOf(k)) /\ AttemptOf(k) >= 1
    BY <2>2, <2>4, <2>5 DEF RefusedUpTo, AttemptOf
  <2> QED
    BY <2>1, <2>3, <2>6
<1>8. ASSUME NEW w \in Workers, StoreOutcome(w), job[w].cur # t
      PROVE  tx'[t] = tx[t]
  BY <1>1, <1>8 DEF StoreOutcome
<1>9. CASE tx'[t].status = tx[t].status /\ tx'[t].attempt = tx[t].attempt
  BY <1>3, <1>9
<1> QED
  BY <1>4, <1>5, <1>6, <1>7, <1>8, <1>9, TxWrites

\* A payment is asked for when those before it are refused.
LEMMA AskedInTurn ==
  ASSUME TInv, PaymentsInTurn, [Next]_vars, NEW t \in Txs \ overtaken',
         NEW k \in Keys, provider'[t][k] # "none"
  PROVE  k # 1 /\ RefusedUpTo(t, k - 1)
<1>1. t \notin overtaken
  BY OvertakenGrows
<1>2. CASE provider[t][k] # "none"
  BY <1>1, <1>2 DEF PaymentsInTurn
<1>3. CASE provider[t][k] = "none"
  <2>1. PICK w \in Workers : Calling(w, t) /\ k = DisburseKey(w)
    BY <1>3, NewPayment
  <2>2. job[w].cur = t /\ t \in job[w].todo /\ job[w].seen[t].attempt \in Nat
    BY <2>1 DEF Calling, TInv, TypeOK, JobShape, Busy, Job, Seen
  <2>3. CASE job[w].op = "retry"
    <3>1. /\ job[w].seen[t].attempt >= 1
          /\ RefusedUpTo(t, job[w].seen[t].attempt)
      BY <1>1, <2>2, <2>3 DEF PaymentsInTurn
    <3>2. k = job[w].seen[t].attempt + 1
      BY <2>1, <2>2, <2>3 DEF DisburseKey
    <3>3. k # 1 /\ k - 1 = job[w].seen[t].attempt
      BY <2>2, <3>1, <3>2
    <3> QED
      BY <3>1, <3>3
  <2>4. CASE job[w].op # "retry"
    <3>1. k = 0
      BY <2>1, <2>4 DEF DisburseKey
    <3> QED
      BY <3>1 DEF RefusedUpTo, Keys
  <2> QED
    BY <2>3, <2>4
<1> QED
  BY <1>2, <1>3

LEMMA TurnInit == Init => PaymentsInTurn
<1>. SUFFICES ASSUME Init PROVE PaymentsInTurn
  OBVIOUS
<1>1. \A t \in Txs : tx[t].status = "PENDING"
  BY DEF Init, NewTx
<1>2. \A t \in Txs, k \in Keys : provider[t][k] = "none"
  BY DEF Init
<1>3. \A w \in Workers : job[w].op = "none"
  BY DEF Init, Idle
<1> QED
  BY <1>1, <1>2, <1>3 DEF PaymentsInTurn

LEMMA TurnStep ==
  TInv /\ JobRefusal /\ PaymentsInTurn /\ [Next]_vars => PaymentsInTurn'
<1>. SUFFICES ASSUME TInv, JobRefusal, PaymentsInTurn, [Next]_vars,
                     NEW t \in Txs \ overtaken'
              PROVE  /\ tx'[t].status = "FAILED" =>
                          tx'[t].attempt >= 1 /\ RefusedUpTo(t, tx[t].attempt)'
                     /\ \A w \in Workers :
                          job'[w].op = "retry" /\ t \in job'[w].todo =>
                            /\ job'[w].seen[t].attempt >= 1
                            /\ RefusedUpTo(t, job[w].seen[t].attempt)'
                     /\ \A k \in Keys : provider'[t][k] # "none" =>
                          k # 1 /\ RefusedUpTo(t, k - 1)'
  BY DEF PaymentsInTurn, RefusedUpTo
<1>1. t \notin overtaken
  BY OvertakenGrows
<1>2. \A k \in Keys : provider[t][k] = "failed" => provider'[t][k] = "failed"
  BY StaysRefused
<1>3. ASSUME NEW w \in Workers, job'[w].op = "retry", t \in job'[w].todo
      PROVE  /\ job'[w].seen[t].attempt >= 1
             /\ RefusedUpTo(t, job'[w].seen[t].attempt)
  <2>1. CASE /\ tx[t].status = "FAILED"
             /\ job'[w].seen[t].attempt = tx[t].attempt
    BY <1>1, <2>1 DEF PaymentsInTurn
  <2>2. CASE /\ job[w].op = "retry" /\ t \in job[w].todo
             /\ job'[w].seen[t] = job[w].seen[t]
    BY <1>1, <2>2 DEF PaymentsInTurn
  <2> QED
    BY <1>3, <2>1, <2>2, RetryReadAtStart
<1> QED
  BY <1>2, <1>3, FailedInTurn, AskedInTurn DEF RefusedUpTo

LEMMA TurnInvariant == Spec => []PaymentsInTurn
BY TurnInit, TurnStep, TypesInvariant, RefusalInvariant, PTL DEF Spec

\* Of two payments in turn the earlier one is refused.
LEMMA InTurnIsOne ==
  ASSUME PaymentsInTurn, NEW t \in Txs \ overtaken,
         NEW k \in Open(t), NEW l \in Open(t)
  PROVE  ~(k < l)
<1>1. /\ k \in Keys /\ provider[t][k] \in {"pending", "paid"}
      /\ l \in Keys /\ provider[t][l] \in {"pending", "paid"}
  BY DEF Open
<1>2. k # 1 /\ RefusedUpTo(t, l - 1)
  BY <1>1 DEF PaymentsInTurn
<1>3. k \in Nat /\ l \in Nat
  BY <1>1 DEF Keys
<1> QED
  BY <1>1, <1>2, <1>3 DEF RefusedUpTo

\* Nobody is paid twice, or may still be, unless a refusal was stored against
\* another attempt than it is about: retries that race, and retries whose
\* update misses, are not enough (retryFailed, and the outcomes stored by
\* handleProviderWebhook, reconcileBatch and processBatch).
THEOREM DoublePaymentNeedsBelated == Spec => []OneOpenPayment
<1>1. PaymentsInTurn => OneOpenPayment
  <2>. SUFFICES ASSUME PaymentsInTurn, NEW t \in Txs \ overtaken,
                       NEW k \in Open(t), NEW l \in Open(t)
                PROVE  k = l
    BY DEF OneOpenPayment
  <2>1. ~(k < l) /\ ~(l < k)
    BY InTurnIsOne
  <2>2. k \in Nat /\ l \in Nat
    BY DEF Open, Keys
  <2> QED
    BY <2>1, <2>2
<1> QED
  BY <1>1, TurnInvariant, PTL

-----------------------------------------------------------------------------
(* Successes nobody posts.                                                 *)

\* A handler is posting the success of t.
Posting(w, t) == job[w].cur = t /\ job[w].step \in {"post", "settle"}

\* A handler that posts goes on until the posting is settled, or dies.
LEMMA PostingEnds ==
  ASSUME TInv, [Next]_vars, NEW w \in Workers, NEW t \in Txs,
         Posting(w, t), ~Posting(w, t)'
  PROVE  SettlePosting(w) \/ Abort(w)
<1>1. job \in [Workers -> Job] /\ job[w] \in Job
  BY DEF TInv, TypeOK
<1>2. job'[w] # job[w]
  BY DEF Posting
<1>3. job[w].step \in {"post", "settle"}
  BY DEF Posting
<1>4. ~Begin(w)
  <2>1. ASSUME NEW u \in Txs, NEW k \in Keys, StartWebhook(w, u, k)
        PROVE  FALSE
    BY <1>3, <2>1 DEF StartWebhook, Start
  <2> QED
    BY <1>3, <2>1
    DEF Begin, UploadCreate, StartProcess, StartRetry, StartReconcile, Start
<1>5. ~Post(w)
  BY <1>1 DEF Post, Posting, Job
<1>6. ASSUME NEW u \in Txs,
             Claim(w, u) \/ MarkRetrying(w, u) \/ QueryProvider(w, u)
      PROVE  FALSE
  BY <1>3, <1>6 DEF Claim, MarkRetrying, QueryProvider, At
<1>7. ASSUME \/ UploadInsert(w) \/ MarkProcessing(w) \/ ListClaimable(w)
             \/ Disburse(w) \/ StoreOutcome(w) \/ RereadPosting(w)
             \/ StampReconciled(w) \/ EndLoop(w) \/ ReadStats(w) \/ ReadCount(w)
             \/ ReadFinals(w) \/ ReadPosteds(w) \/ PublishStats(w)
      PROVE  FALSE
  BY <1>3, <1>7
  DEF UploadInsert, MarkProcessing, ListClaimable, Disburse, StoreOutcome,
      RereadPosting, StampReconciled, EndLoop, ReadStats, ReadCount, ReadFinals,
      ReadPosteds, PublishStats, At
<1> QED
  BY <1>2, <1>4, <1>5, <1>6, <1>7, OneMoves DEF Continue

\* A settled posting is not pending.
LEMMA SettledIsAnswered ==
  ASSUME TInv, JobRefusal, NEW w \in Workers, SettlePosting(w)
  PROVE  tx'[job[w].cur].posting # "PENDING"
<1>1. tx \in [Txs -> TxRecord] /\ job[w].cur \in Txs
  BY DEF SettlePosting, TInv, TypeOK, JobShape, Busy, Job
<1>2. job[w].out # "PENDING"
  BY DEF SettlePosting, JobRefusal, HandlerRefusal
<1> QED
  BY <1>1, <1>2 DEF SettlePosting, TxRecord

\* What is a success, and not posted, after a step, was so before it, or is
\* being posted.
LEMMA SuccessIsHeld ==
  ASSUME TInv, JobRefusal, [Next]_vars, NEW t \in Txs,
         tx'[t].status = "SUCCESS", tx'[t].posting = "PENDING"
  PROVE  \/ tx[t].status = "SUCCESS" /\ tx[t].posting = "PENDING"
         \/ \E w \in Workers : Posting(w, t)'
<1>1. tx \in [Txs -> TxRecord] /\ job \in [Workers -> Job]
  BY DEF TInv, TypeOK
<1>2. ASSUME NEW w \in Workers, NEW u \in Txs, Claim(w, u) \/ MarkRetrying(w, u)
      PROVE  tx[t].status = "SUCCESS" /\ tx[t].posting = "PENDING"
  <2>1. CASE UNCHANGED tx
    BY <2>1
  <2>2. ASSUME NEW status \in {"PROCESSING", "RETRYING"},
               tx' = [tx EXCEPT ![u].status = status, ![u].attempt = @ + 1]
        PROVE  tx'[t] = tx[t]
    BY <1>1, <2>2 DEF TxRecord
  <2> QED
    BY <1>2, <2>1, <2>2 DEF Claim, MarkRetrying
<1>3. ASSUME NEW w \in Workers, SettlePosting(w)
      PROVE  tx[t].status = "SUCCESS" /\ tx[t].posting = "PENDING"
  <2>1. job[w].cur # t
    BY <1>3, SettledIsAnswered
  <2>2. tx'[t] = tx[t]
    BY <1>1, <1>3, <2>1 DEF SettlePosting
  <2> QED
    BY <2>2
<1>4. ASSUME NEW w \in Workers, StampReconciled(w)
      PROVE  tx[t].status = "SUCCESS" /\ tx[t].posting = "PENDING"
  BY <1>1, <1>4 DEF StampReconciled, TxRecord
<1>5. ASSUME NEW w \in Workers, StoreOutcome(w), job[w].cur # t
      PROVE  tx[t].status = "SUCCESS" /\ tx[t].posting = "PENDING"
  BY <1>1, <1>5 DEF StoreOutcome
<1>6. ASSUME NEW w \in Workers, StoreOutcome(w), job[w].cur = t
      PROVE  Posting(w, t)'
  <2>1. job[w].res = "SUCCESS"
    BY <1>1, <1>6 DEF StoreOutcome, Recorded, TxRecord
  <2>2. Goto(w, "post")
    BY <1>6, <2>1 DEF StoreOutcome, Posts
  <2> QED
    BY <1>1, <1>6, <2>2 DEF Goto, Job, Posting
<1> QED
  BY <1>2, <1>3, <1>4, <1>5, <1>6, TxWrites

\* The action of StrandedByDeath.
StrandingStep ==
  \A t \in Txs : Stranded(t)' => Stranded(t) \/ \E w \in Workers : Abort(w)

LEMMA StrandingIsDeath == TInv /\ JobRefusal /\ [Next]_vars => StrandingStep
<1>. SUFFICES ASSUME TInv, JobRefusal, [Next]_vars, NEW t \in Txs,
                     Stranded(t)', ~Stranded(t)
              PROVE  \E w \in Workers : Abort(w)
  BY DEF StrandingStep
<1>1. /\ tx'[t].status = "SUCCESS" /\ tx'[t].posting = "PENDING"
      /\ \A w \in Workers : ~Posting(w, t)'
  BY DEF Stranded, Posting
<1>2. tx[t].status = "SUCCESS" /\ tx[t].posting = "PENDING"
  BY <1>1, SuccessIsHeld
<1>3. PICK w \in Workers : Posting(w, t)
  BY <1>2 DEF Stranded, Posting
<1>4. SettlePosting(w) \/ Abort(w)
  BY <1>1, <1>3, PostingEnds
<1>5. ~SettlePosting(w)
  BY <1>1, <1>3, SettledIsAnswered DEF Posting
<1> QED
  BY <1>4, <1>5

\* With any number of handlers of all kinds: a success is left to nobody only
\* by a handler that dies between storing it and settling its posting
\* (the outcomes stored by the four handlers, and finalizeFinancialPosting).
THEOREM OnlyDeathStrands == Spec => StrandedByDeath
<1>1. Spec => [][StrandingStep]_vars
  BY TypesInvariant, RefusalInvariant, StrandingIsDeath, PTL DEF Spec
<1> QED
  BY <1>1 DEF StrandedByDeath, StrandingStep

=============================================================================
