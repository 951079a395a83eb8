------------------------- MODULE PayrollBatchProofs -------------------------
(***************************************************************************)
(* The status of a payroll batch, proved for any number of handlers: what  *)
(* refreshBatchStats has counted is still so when it writes the status, if *)
(* nobody has written a transaction since its first query.                 *)
(***************************************************************************)
EXTENDS PayrollProofs

\* The steps of refreshBatchStats after its first read.
Counting == {"count", "finals", "posteds", "publish"}

\* What a handler has counted is what there is.
CountHolds(j) ==
  /\ j.step \in Counting => j.view.success = Cardinality(With({"SUCCESS"}))
  /\ j.step \in Counting \ {"count"} => j.view.count = Cardinality(rows)
  /\ j.step \in {"posteds", "publish"} =>
       j.view.final = Cardinality(With({"SUCCESS", "FAILED"}))
  /\ j.step = "publish" => j.view.posted = Cardinality(PostedSuccesses)

CountsHold == \A w \in steady : CountHolds(job[w])

-----------------------------------------------------------------------------

\* A part of a finite set that is as large as the set is the set.
LEMMA WholeSet ==
  ASSUME NEW S, IsFiniteSet(S), NEW T \in SUBSET S,
         Cardinality(T) = Cardinality(S)
  PROVE  T = S
BY FS_Subset

\* Every transaction is final, and every success is posted, when the counts
\* say so.
LEMMA CountsAreHonest ==
  ASSUME TypeOK,
         Cardinality(With({"SUCCESS", "FAILED"})) = Cardinality(rows),
         Cardinality(PostedSuccesses) = Cardinality(With({"SUCCESS"})),
         NEW t \in rows
  PROVE  \/ tx[t].status = "FAILED"
         \/ tx[t].status = "SUCCESS" /\ tx[t].posting = "POSTED"
<1>1. IsFiniteSet(rows)
  BY PayrollAssumption, FS_Subset DEF TypeOK
<1>2. With({"SUCCESS", "FAILED"}) = rows
  BY <1>1, WholeSet DEF With
<1>3. IsFiniteSet(With({"SUCCESS"})) /\ PostedSuccesses \in SUBSET With({"SUCCESS"})
  BY <1>1, FS_Subset DEF With, PostedSuccesses
<1>4. PostedSuccesses = With({"SUCCESS"})
  BY <1>3, WholeSet
<1>5. tx[t].status \in {"SUCCESS", "FAILED"}
  BY <1>2 DEF With
<1> QED
  BY <1>4, <1>5 DEF With, PostedSuccesses

\* RECONCILED is what the counts say of such a batch, and of no other.
LEMMA ReconciledMeans ==
  ASSUME NEW v, BatchStatusOf(v) = "RECONCILED"
  PROVE  v.final = v.count /\ v.posted = v.success
BY DEF BatchStatusOf

\* A handler that has not begun to count, and one that starts, counts nothing;
\* so does one that writes a transaction.
LEMMA NotCounting ==
  ASSUME TInv, NEW w \in Workers,
         \/ Begin(w) \/ UploadInsert(w) \/ MarkProcessing(w) \/ ListClaimable(w)
         \/ \E t \in Txs : Claim(w, t) \/ MarkRetrying(w, t) \/ QueryProvider(w, t)
         \/ Disburse(w) \/ StoreOutcome(w) \/ Post(w) \/ SettlePosting(w)
         \/ RereadPosting(w) \/ StampReconciled(w)
         \/ EndLoop(w) \/ PublishStats(w) \/ Abort(w)
  PROVE  job'[w].step \notin Counting
<1>. USE DEF TInv, TypeOK
<1>1. job[w] \in Job /\ job \in [Workers -> Job]
  OBVIOUS
<1>2. ASSUME Begin(w) PROVE job'[w].step \notin Counting
  <2>1. CASE UploadCreate(w)
    BY <1>1, <2>1 DEF UploadCreate, Start, Idle, Counting
  <2>2. CASE StartProcess(w)
    BY <1>1, <2>2 DEF StartProcess, Start, Idle, Counting
  <2>3. CASE StartRetry(w)
    BY <1>1, <2>3 DEF StartRetry, Start, Idle, Counting
  <2>4. CASE StartReconcile(w)
    BY <1>1, <2>4 DEF StartReconcile, Start, Idle, Counting
  <2>5. CASE \E t \in Txs, k \in Keys : StartWebhook(w, t, k)
    BY <1>1, <2>5 DEF StartWebhook, Start, Idle, Counting
  <2> QED
    BY <1>2, <2>1, <2>2, <2>3, <2>4, <2>5 DEF Begin
<1>3. ASSUME NEW step \in Steps \ Counting, Goto(w, step)
      PROVE  job'[w].step \notin Counting
  BY <1>1, <1>3 DEF Goto, Job
<1>4. ASSUME Advance(w) PROVE job'[w].step \notin Counting
  BY <1>1, <1>4 DEF Advance, Job, Counting
<1>5. ASSUME job' = [job EXCEPT ![w] = Idle] PROVE job'[w].step \notin Counting
  BY <1>1, <1>5 DEF Idle, Counting
<1>6. CASE UploadInsert(w) \/ PublishStats(w) \/ Abort(w)
  BY <1>5, <1>6 DEF UploadInsert, PublishStats, Abort
<1>7. CASE MarkProcessing(w) \/ ListClaimable(w)
  <2>1. CASE MarkProcessing(w)
    BY <1>1, <2>1 DEF MarkProcessing, Goto, Job, Counting
  <2>2. CASE ListClaimable(w)
    BY <1>1, <2>2 DEF ListClaimable, Job, Counting
  <2> QED  BY <1>7, <2>1, <2>2
<1>8. ASSUME NEW t \in Txs,
             Claim(w, t) \/ MarkRetrying(w, t) \/ QueryProvider(w, t)
      PROVE  job'[w].step \notin Counting
  <2>1. CASE Claim(w, t)
    <3>1. CASE tx[t].status \in Claimable
      <4>. DEFINE s == [Read(tx[t]) EXCEPT !.attempt = @ + 1]
      <4>1. job' = [job EXCEPT ![w].step = "call", ![w].cur = t, ![w].seen[t] = s]
        BY <2>1, <3>1 DEF Claim
      <4>. HIDE DEF s
      <4>2. job'[w].step = "call"
        BY <1>1, <4>1 DEF Job
      <4> QED  BY <4>2 DEF Counting
    <3>2. CASE tx[t].status \notin Claimable
      BY <1>1, <2>1, <3>2 DEF Claim, At, Job, Counting
    <3> QED  BY <3>1, <3>2
  <2>2. CASE MarkRetrying(w, t)
    BY <1>1, <2>2 DEF MarkRetrying, Job, Counting
  <2>3. CASE QueryProvider(w, t)
    <3>1. PICK res : job' = [job EXCEPT ![w].step = "store", ![w].cur = t,
                               ![w].res = res,
                               ![w].pref = Reference(job[w].seen[t])]
      BY <2>3 DEF QueryProvider
    <3>2. job'[w].step = "store"
      BY <1>1, <3>1 DEF Job
    <3> QED  BY <3>2 DEF Counting
  <2> QED  BY <1>8, <2>1, <2>2, <2>3
<1>9. CASE Disburse(w)
  <2>1. \E res, ref : Answer(w, res, ref)
    BY <1>9 DEF Disburse
  <2>2. job'[w].step = "store"
    BY <1>1, <2>1 DEF Answer, Job
  <2> QED  BY <2>2 DEF Counting
<1>10. CASE StoreOutcome(w) \/ SettlePosting(w) \/ RereadPosting(w)
  BY <1>3, <1>4, <1>10
  DEF StoreOutcome, SettlePosting, RereadPosting, Steps, Counting
<1>11. CASE Post(w)
  BY <1>1, <1>11 DEF Post, Job, Counting
<1>12. CASE StampReconciled(w)
  BY <1>4, <1>12 DEF StampReconciled
<1>13. CASE EndLoop(w)
  BY <1>3, <1>5, <1>13 DEF EndLoop, Steps, Counting
<1> QED
  BY <1>2, <1>6, <1>7, <1>8, <1>9, <1>10, <1>11, <1>12, <1>13

\* Counts look at the status and the posting of the rows, and at no more.
LEMMA SameCounts ==
  ASSUME TypeOK, UNCHANGED rows,
         \A t \in Txs : /\ tx'[t].status = tx[t].status
                       /\ tx'[t].posting = tx[t].posting
  PROVE  /\ Cardinality(rows)' = Cardinality(rows)
         /\ \A S : Cardinality(With(S))' = Cardinality(With(S))
         /\ Cardinality(PostedSuccesses)' = Cardinality(PostedSuccesses)
<1>1. rows \subseteq Txs
  BY DEF TypeOK
<1>2. \A S : With(S)' = With(S)
  BY <1>1 DEF With
<1>3. PostedSuccesses' = PostedSuccesses
  BY <1>1 DEF With, PostedSuccesses
<1> QED
  BY <1>2, <1>3

\* As long as somebody counts undisturbed nobody writes what is counted: the
\* stamp of reconciledAt is not.
LEMMA SteadyMeans ==
  ASSUME TInv, [Next]_vars, steady' # {}
  PROVE  /\ UNCHANGED rows
         /\ \A t \in Txs : /\ tx'[t].status = tx[t].status
                          /\ tx'[t].posting = tx[t].posting
<1>1. tx \in [Txs -> TxRecord]
  BY DEF TInv, TypeOK
<1>2. CASE UNCHANGED <<rows, tx>>
  BY <1>2
<1>3. ASSUME NEW w \in Workers, StampReconciled(w)
      PROVE  /\ UNCHANGED rows
             /\ \A t \in Txs : /\ tx'[t].status = tx[t].status
                              /\ tx'[t].posting = tx[t].posting
  BY <1>1, <1>3 DEF StampReconciled, TxRecord
<1>4. ASSUME NEW w \in Workers, NEW t \in Txs,
             Claim(w, t) \/ MarkRetrying(w, t) \/ QueryProvider(w, t)
      PROVE  UNCHANGED <<rows, tx>>
  BY <1>4 DEF Claim, MarkRetrying, QueryProvider
<1>5. ASSUME NEW w \in Workers,
             UploadInsert(w) \/ StoreOutcome(w) \/ SettlePosting(w)
      PROVE  FALSE
  BY <1>5 DEF UploadInsert, StoreOutcome, Note, SettlePosting
<1>6. ASSUME NEW w \in Workers,
             \/ MarkProcessing(w) \/ ListClaimable(w) \/ Disburse(w)
             \/ Post(w) \/ RereadPosting(w) \/ EndLoop(w)
      PROVE  UNCHANGED <<rows, tx>>
  BY <1>6
  DEF MarkProcessing, ListClaimable, Disburse, Post, RereadPosting, EndLoop
<1>7. ASSUME NEW w \in Workers,
             \/ ReadStats(w) \/ ReadCount(w) \/ ReadFinals(w)
             \/ ReadPosteds(w) \/ PublishStats(w) \/ Abort(w)
      PROVE  UNCHANGED <<rows, tx>>
  BY <1>7
  DEF ReadStats, ReadCount, ReadFinals, ReadPosteds, PublishStats, Abort
<1> QED
  BY <1>2, <1>3, <1>4, <1>5, <1>6, <1>7, BeginWrites
  DEF Next, Continue, vars, ProviderDecides

\* Whoever counts undisturbed has begun to count.
LEMMA NewlySteady ==
  ASSUME [Next]_vars, NEW w \in steady' \ steady
  PROVE  ReadStats(w)
<1>. USE DEF hist
<1>1. ASSUME NEW v \in Workers, Begin(v)
      PROVE  UNCHANGED steady
  <2>1. ASSUME NEW t \in Txs, NEW k \in Keys, StartWebhook(v, t, k)
        PROVE  UNCHANGED steady
    BY <2>1 DEF StartWebhook
  <2> QED
    BY <1>1, <2>1
    DEF Begin, UploadCreate, StartProcess, StartRetry, StartReconcile
<1>2. ASSUME NEW v \in Workers, NEW t \in Txs,
             Claim(v, t) \/ MarkRetrying(v, t) \/ QueryProvider(v, t)
      PROVE  steady' \subseteq steady
  BY <1>2 DEF Claim, MarkRetrying, QueryProvider
<1>3. ASSUME NEW v \in Workers,
             \/ UploadInsert(v) \/ MarkProcessing(v) \/ ListClaimable(v)
             \/ Disburse(v) \/ StoreOutcome(v) \/ Post(v) \/ SettlePosting(v)
             \/ RereadPosting(v) \/ StampReconciled(v) \/ EndLoop(v)
      PROVE  steady' \subseteq steady
  BY <1>3
  DEF UploadInsert, MarkProcessing, ListClaimable, Disburse, StoreOutcome, Note,
      Post, SettlePosting, RereadPosting, StampReconciled, EndLoop
<1>4. ASSUME NEW v \in Workers,
             \/ ReadCount(v) \/ ReadFinals(v) \/ ReadPosteds(v)
             \/ PublishStats(v) \/ Abort(v)
      PROVE  steady' \subseteq steady
  BY <1>4 DEF ReadCount, ReadFinals, ReadPosteds, PublishStats, Abort
<1>5. ASSUME NEW v \in Workers, ReadStats(v)
      PROVE  v = w
  BY <1>5 DEF ReadStats
<1>6. CASE UNCHANGED vars
  BY <1>6 DEF vars
<1>7. ASSUME NEW t \in Txs, NEW k \in Keys, ProviderDecides(t, k)
      PROVE  UNCHANGED steady
  BY <1>7 DEF ProviderDecides
<1> QED
  BY <1>1, <1>2, <1>3, <1>4, <1>5, <1>6, <1>7 DEF Next, Continue

\* The four reads: what was counted before stays, what is counted now holds.
LEMMA CountStep ==
  ASSUME TInv, [Next]_vars, NEW w \in steady', w \in Workers,
         ReadStats(w) \/ (CountHolds(job[w])
           /\ (ReadCount(w) \/ ReadFinals(w) \/ ReadPosteds(w)))
  PROVE  CountHolds(job[w])'
<1>1. job \in [Workers -> Job] /\ job[w] \in Job
  BY DEF TInv, TypeOK
<1>2. /\ Cardinality(rows)' = Cardinality(rows)
      /\ \A S : Cardinality(With(S))' = Cardinality(With(S))
      /\ Cardinality(PostedSuccesses)' = Cardinality(PostedSuccesses)
  BY SteadyMeans, SameCounts DEF TInv
<1>. USE DEF CountHolds, Counting
<1>3. CASE ReadStats(w)
  <2>1. /\ job'[w].step = "count"
        /\ job'[w].view.success = Cardinality(With({"SUCCESS"}))
    BY <1>1, <1>3 DEF ReadStats, Job
  <2> QED  BY <1>2, <2>1
<1>4. CASE CountHolds(job[w]) /\ ReadCount(w)
  <2>1. /\ job[w].step = "count" /\ job'[w].step = "finals"
        /\ job'[w].view.success = job[w].view.success
        /\ job'[w].view.count = Cardinality(rows)
    BY <1>1, <1>4 DEF ReadCount, Job
  <2> QED  BY <1>2, <1>4, <2>1
<1>5. CASE CountHolds(job[w]) /\ ReadFinals(w)
  <2>1. /\ job[w].step = "finals" /\ job'[w].step = "posteds"
        /\ job'[w].view.success = job[w].view.success
        /\ job'[w].view.count = job[w].view.count
        /\ job'[w].view.final = Cardinality(With({"SUCCESS", "FAILED"}))
    BY <1>1, <1>5 DEF ReadFinals, Job
  <2> QED  BY <1>2, <1>5, <2>1
<1>6. CASE CountHolds(job[w]) /\ ReadPosteds(w)
  <2>1. /\ job[w].step = "posteds" /\ job'[w].step = "publish"
        /\ job'[w].view.success = job[w].view.success
        /\ job'[w].view.count = job[w].view.count
        /\ job'[w].view.final = job[w].view.final
        /\ job'[w].view.posted = Cardinality(PostedSuccesses)
    BY <1>1, <1>6 DEF ReadPosteds, Job
  <2> QED  BY <1>2, <1>6, <2>1
<1> QED
  BY <1>3, <1>4, <1>5, <1>6

LEMMA CountsInit == Init => CountsHold
BY DEF Init, CountsHold

LEMMA CountsNext == TInv /\ TInv' /\ CountsHold /\ [Next]_vars => CountsHold'
<1>. SUFFICES ASSUME TInv, TInv', CountsHold, [Next]_vars, NEW w \in steady'
              PROVE  CountHolds(job[w])'
  BY DEF CountsHold
<1>1. w \in Workers
  BY DEF TInv, TypeOK
<1>2. CASE ReadStats(w)
  BY <1>1, <1>2, CountStep
<1>3. CASE ~ReadStats(w)
  <2>1. CountHolds(job[w])
    BY <1>3, NewlySteady DEF CountsHold
  <2>2. CASE job'[w] = job[w]
    <3>1. /\ Cardinality(rows)' = Cardinality(rows)
          /\ \A S : Cardinality(With(S))' = Cardinality(With(S))
          /\ Cardinality(PostedSuccesses)' = Cardinality(PostedSuccesses)
      BY SteadyMeans, SameCounts DEF TInv
    <3> QED
      BY <2>1, <2>2, <3>1 DEF CountHolds
  <2>3. CASE ReadCount(w) \/ ReadFinals(w) \/ ReadPosteds(w)
    BY <1>1, <2>1, <2>3, CountStep
  <2>4. CASE job'[w].step \notin Counting
    BY <2>4 DEF CountHolds, Counting
  <2> QED
    BY <1>1, <1>3, <2>2, <2>3, <2>4, OneMoves, NotCounting DEF Continue
<1> QED
  BY <1>2, <1>3

\* The action of HonestReconciliation.
HonestStep ==
  \A w \in Workers :
    PublishStats(w) /\ w \in steady /\ batch' = "RECONCILED" =>
      \A t \in rows : \/ tx[t].status = "FAILED"
                      \/ tx[t].status = "SUCCESS" /\ tx[t].posting = "POSTED"

LEMMA PublishIsHonest == TInv /\ CountsHold => HonestStep
<1>. SUFFICES ASSUME TInv, CountsHold, NEW w \in Workers, PublishStats(w),
                     w \in steady, batch' = "RECONCILED", NEW t \in rows
              PROVE  \/ tx[t].status = "FAILED"
                     \/ tx[t].status = "SUCCESS" /\ tx[t].posting = "POSTED"
  BY DEF HonestStep
<1>1. BatchStatusOf(job[w].view) = "RECONCILED" /\ job[w].step = "publish"
  BY DEF PublishStats
<1>2. job[w].view.final = job[w].view.count
      /\ job[w].view.posted = job[w].view.success
  BY <1>1, ReconciledMeans
<1>3. /\ Cardinality(With({"SUCCESS", "FAILED"})) = Cardinality(rows)
      /\ Cardinality(PostedSuccesses) = Cardinality(With({"SUCCESS"}))
  BY <1>1, <1>2 DEF CountsHold, CountHolds, Counting
<1> QED
  BY <1>3, CountsAreHonest DEF TInv

\* With any number of handlers, that die anywhere: one that publishes
\* RECONCILED, and since whose first query nobody has written a transaction,
\* does so only when each of them is FAILED, or SUCCESS and posted
\* (refreshBatchStats).
THEOREM ReconciledIsReconciled == Spec => HonestReconciliation
<1>1. Spec => []CountsHold
  BY CountsInit, CountsNext, TypesInvariant, PTL DEF Spec
<1>2. Spec => [][HonestStep]_vars
  BY <1>1, TypesInvariant, PublishIsHonest, PTL DEF Spec
<1> QED
  BY <1>2 DEF HonestReconciliation, HonestStep

=============================================================================
