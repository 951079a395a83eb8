--------------------------- MODULE PayrollProofs ---------------------------
(***************************************************************************)
(* What the payroll component promises, proved for any set of workers, any *)
(* finite set of transactions and any bounds.                              *)
(*                                                                         *)
(* Three inductive invariants, each used by the next:                      *)
(*   TInv  types and the shape of a running handler;                       *)
(*   EInv  every outcome a handler holds or has stored is backed by the    *)
(*         provider, every posting by the ledger;                          *)
(*   SInv  of a transaction of which no payment was refused: while it can  *)
(*         be claimed it has not been sent, and at most one handler is     *)
(*         about to send it.                                               *)
(* From the three of them, that the component implements PayrollPromise.   *)
(***************************************************************************)
EXTENDS Payroll, FiniteSetTheorems, TLAPS

\* The steps at which a handler works on one transaction, job[w].cur.
Busy == {"call", "store", "post", "settle", "reread", "stamp"}

\* A busy handler handles a transaction of its list; a retry was listed below
\* the bound on keys; what reconcileBatch lists has a provider reference.
JobShape ==
  \A w \in Workers :
    /\ job[w].step \in Busy => job[w].cur \in job[w].todo
    /\ \A t \in job[w].todo :
         /\ job[w].op = "retry" => job[w].seen[t].attempt < MaxKey
         /\ job[w].op = "reconcile" => Reference(job[w].seen[t]) # NoRef

TInv == TypeOK /\ JobShape

\* What a handler carries from one await to the next is true: the outcome it
\* will store was observed, the success it posts was paid, the posting it
\* reports exists, the transactions it retries were refused.
HandlerEvidence(j) ==
  /\ j.step = "store" /\ j.res = "SUCCESS" => Paid(j.cur) # {}
  /\ j.step = "store" /\ j.res = "FAILED"  => Refused(j.cur) # {}
  /\ j.step \in {"post", "settle"} => Paid(j.cur) # {}
  /\ j.step = "settle" /\ j.out = "POSTED" => Posted(j.cur) # {}
  /\ j.op = "retry" => \A t \in j.todo : Refused(t) # {}

JobEvidence == \A w \in Workers : HandlerEvidence(job[w])

\* Every posting carries the transaction's own key.
OwnPostingKey == \A t \in Txs, k \in Keys : <<t, k>> \in ledger => k = 0

EInv ==
  /\ JobEvidence
  /\ ProviderEvidence
  /\ LedgerEvidence
  /\ OwnPostingKey
  /\ RetryNeedsRefusal

Calling(w, t) == job[w].step = "call" /\ job[w].cur = t

\* Sending what was not refused is exclusive: a claimable transaction has not
\* been sent and nobody is about to send it, and whoever is about to is alone.
SInv ==
  /\ \A t \in Txs : Refused(t) = {} /\ tx[t].status \in Claimable =>
       /\ submitted[t][0] = 0
       /\ \A w \in Workers : ~Calling(w, t)
  /\ \A t \in Txs, w \in Workers : Refused(t) = {} /\ Calling(w, t) =>
       /\ submitted[t][0] = 0
       /\ \A v \in Workers : Calling(v, t) => v = w
  /\ SubmittedOnce

-----------------------------------------------------------------------------
(* Types.                                                                  *)

\* The counts of refreshBatchStats are natural numbers.
LEMMA CountType ==
  ASSUME TypeOK
  PROVE  /\ Cardinality(rows) \in Nat
         /\ \A S : Cardinality(With(S)) \in Nat
         /\ Cardinality(PostedSuccesses) \in Nat
<1>1. IsFiniteSet(rows)
  BY PayrollAssumption, FS_Subset DEF TypeOK
<1>2. ASSUME NEW T \in SUBSET rows
      PROVE  Cardinality(T) \in Nat
  BY <1>1, FS_Subset, FS_CardinalityType
<1>3. /\ \A S : With(S) \in SUBSET rows
      /\ PostedSuccesses \in SUBSET rows
  BY DEF With, PostedSuccesses
<1> QED
  BY <1>2, <1>3

\* What a handler reads of a transaction has the type of its local copy.
LEMMA ReadType ==
  ASSUME NEW r \in TxRecord
  PROVE  Read(r) \in Seen
BY DEF Read, Seen, TxRecord, Refs

LEMMA IdleType == Idle \in Job
BY DEF Idle, Job, Operations, Steps, Unseen, Seen, Outcome, Refs, NoRef,
       FINANCIAL_POSTING_STATUS, NoView

\* A handler that keeps its list, what it has read and its operation keeps
\* its shape if the transaction it works on is of the list.
LEMMA JobUpdate ==
  ASSUME TInv, NEW w \in Workers, NEW j \in Job,
         job' = [job EXCEPT ![w] = j],
         j.step \in Busy => j.cur \in j.todo,
         \A t \in j.todo :
           /\ j.op = "retry" => j.seen[t].attempt < MaxKey
           /\ j.op = "reconcile" => Reference(j.seen[t]) # NoRef
  PROVE  job' \in [Workers -> Job] /\ JobShape'
<1>1. job \in [Workers -> Job] /\ JobShape
  BY DEF TInv, TypeOK
<1>2. job' \in [Workers -> Job]
  BY <1>1
<1>3. \A v \in Workers : job'[v] = IF v = w THEN j ELSE job[v]
  BY <1>1
<1>4. JobShape'
  BY <1>1, <1>3 DEF JobShape
<1> QED
  BY <1>2, <1>4

\* The same, for a step that goes on with the run: operation, list and reads
\* stay, except that a transaction may leave the list.
LEMMA JobStep ==
  ASSUME TInv, NEW w \in Workers, NEW j \in Job,
         job' = [job EXCEPT ![w] = j],
         j.step \in Busy => j.cur \in j.todo,
         j.todo \subseteq job[w].todo,
         j.op = job[w].op,
         j.seen = job[w].seen
  PROVE  job' \in [Workers -> Job] /\ JobShape'
<1>1. \A t \in j.todo :
         /\ j.op = "retry" => j.seen[t].attempt < MaxKey
         /\ j.op = "reconcile" => Reference(j.seen[t]) # NoRef
  BY DEF TInv, JobShape
<1> QED
  BY <1>1, JobUpdate

LEMMA GotoStep ==
  ASSUME TInv, NEW w \in Workers, NEW step \in Steps, Goto(w, step),
         step \in Busy => job[w].step \in Busy
  PROVE  job' \in [Workers -> Job] /\ JobShape'
<1> DEFINE j == [job[w] EXCEPT !.step = step]
<1>1. job[w] \in Job
  BY DEF TInv, TypeOK
<1>2. j \in Job /\ job' = [job EXCEPT ![w] = j]
  BY <1>1 DEF Job, Goto
<1>3. /\ j.step = step /\ j.cur = job[w].cur /\ j.todo = job[w].todo
      /\ j.op = job[w].op /\ j.seen = job[w].seen
  BY <1>1 DEF Job
<1>4. job[w].step \in Busy => job[w].cur \in job[w].todo
  BY DEF TInv, JobShape
<1> HIDE DEF j
<1> QED
  BY <1>2, <1>3, <1>4, JobStep

LEMMA AdvanceStep ==
  ASSUME TInv, NEW w \in Workers, Advance(w)
  PROVE  job' \in [Workers -> Job] /\ JobShape'
<1> DEFINE j == [job[w] EXCEPT !.todo = @ \ {job[w].cur}, !.cur = NoTx,
                   !.res = "UNKNOWN", !.ptid = NoRef, !.pref = NoRef,
                   !.out = "PENDING", !.step = "next"]
<1>1. job[w] \in Job
  BY DEF TInv, TypeOK
<1>2. j \in Job
  BY <1>1 DEF Job, Steps, Outcome, Refs, FINANCIAL_POSTING_STATUS
<1>3. job' = [job EXCEPT ![w] = j]
  BY <1>1 DEF Job, Advance
<1>4. /\ j.step \notin Busy /\ j.todo \subseteq job[w].todo
      /\ j.op = job[w].op /\ j.seen = job[w].seen
  BY <1>1 DEF Job, Busy
<1> HIDE DEF j
<1> QED
  BY <1>2, <1>3, <1>4, JobStep

LEMMA IdleStep ==
  ASSUME TInv, NEW w \in Workers, job' = [job EXCEPT ![w] = Idle]
  PROVE  job' \in [Workers -> Job] /\ JobShape'
<1>1. Idle.step \notin Busy /\ Idle.todo = {}
  BY DEF Idle, Busy
<1> QED
  BY <1>1, IdleType, JobUpdate

\* A handler that starts has the shape its operation asks for.
LEMMA StartStep ==
  ASSUME TInv, NEW w \in Workers, NEW j \in Job, Start(w, j),
         j.step \in Busy => j.cur \in j.todo,
         \A t \in j.todo :
           /\ j.op = "retry" => j.seen[t].attempt < MaxKey
           /\ j.op = "reconcile" => Reference(j.seen[t]) # NoRef
  PROVE  job' \in [Workers -> Job] /\ JobShape' /\ calls' \in Nat
<1>1. job' = [job EXCEPT ![w] = j] /\ calls' \in Nat
  BY DEF Start, TInv, TypeOK
<1> QED
  BY <1>1, JobUpdate

\* The types of everything but the handlers.
StoreTypeOK ==
  /\ batch \in BATCH_STATUS \cup {"ABSENT"}
  /\ rows \in SUBSET Txs
  /\ tx \in [Txs -> TxRecord]
  /\ provider \in [Txs -> [Keys -> ProviderState]]
  /\ submitted \in [Txs -> [Keys -> Nat]]
  /\ ledger \in SUBSET (Txs \X Keys)
  /\ calls \in Nat
  /\ overtaken \in SUBSET Txs
  /\ steady \in SUBSET Workers

LEMMA TInvSplit ==
  TInv <=> StoreTypeOK /\ job \in [Workers -> Job] /\ JobShape
BY DEF TInv, TypeOK, StoreTypeOK

LEMMA TInit == Init => TInv
<1> SUFFICES ASSUME Init PROVE TInv
  OBVIOUS
<1>1. NewTx \in TxRecord
  BY DEF NewTx, TxRecord, TRANSACTION_STATUS, Refs, NoRef,
     FINANCIAL_POSTING_STATUS
<1>2. StoreTypeOK
  BY <1>1, PayrollAssumption DEF Init, StoreTypeOK, ProviderState, Keys
<1>3. JobShape
  BY DEF Init, JobShape, Idle, Busy
<1> QED
  BY <1>2, <1>3, IdleType, TInvSplit DEF Init

\* The handlers that start.
LEMMA TBegin ==
  ASSUME TInv, NEW w \in Workers, Begin(w)
  PROVE  TInv'
<1> USE DEF hist
<1>1. StoreTypeOK /\ job \in [Workers -> Job] /\ JobShape
  BY TInvSplit
<1>2. \A S : {t \in rows : t \in S} \in SUBSET Txs
  BY <1>1 DEF StoreTypeOK
<1>3. Snapshot \in [Txs -> Seen]
  BY <1>1, ReadType DEF StoreTypeOK, Snapshot
<1>4. \A t \in Txs : /\ Snapshot[t].attempt = tx[t].attempt
                     /\ Reference(Snapshot[t]) = Reference(tx[t])
  BY DEF Snapshot, Read, Reference
<1>5. CASE UploadCreate(w)
  <2> DEFINE j == [Idle EXCEPT !.op = "upload", !.step = "insert"]
  <2>1. j \in Job /\ j.step \notin Busy /\ j.todo = {}
    BY IdleType DEF Job, Idle, Busy, Operations, Steps
  <2>2. Start(w, j) /\ batch' = "UPLOADED"
          /\ UNCHANGED <<rows, tx, provider, submitted, ledger, hist>>
    BY <1>5 DEF UploadCreate
  <2> HIDE DEF j
  <2>3. job' \in [Workers -> Job] /\ JobShape' /\ calls' \in Nat
    BY <2>1, <2>2, StartStep
  <2>4. StoreTypeOK'
    BY <1>1, <2>2, <2>3 DEF StoreTypeOK, BATCH_STATUS
  <2> QED
    BY <2>3, <2>4, TInvSplit DEF TInv, TypeOK, StoreTypeOK
<1>6. CASE StartProcess(w)
  <2> DEFINE j == [Idle EXCEPT !.op = "process", !.step = "mark"]
  <2>1. j \in Job /\ j.step \notin Busy /\ j.todo = {}
    BY IdleType DEF Job, Idle, Busy, Operations, Steps
  <2>2. Start(w, j)
          /\ UNCHANGED <<batch, rows, tx, provider, submitted, ledger, hist>>
    BY <1>6 DEF StartProcess
  <2> HIDE DEF j
  <2>3. job' \in [Workers -> Job] /\ JobShape' /\ calls' \in Nat
    BY <2>1, <2>2, StartStep
  <2> QED
    BY <1>1, <2>2, <2>3 DEF TInv, TypeOK, StoreTypeOK
<1>7. CASE StartRetry(w)
  <2> DEFINE j == [Idle EXCEPT !.op = "retry", !.step = "next",
                     !.todo = {t \in rows : tx[t].status \in Retryable},
                     !.seen = Snapshot]
  <2>1. j \in Job
    BY <1>1, <1>3, IdleType DEF Job, Operations, Steps, StoreTypeOK
  <2>2. /\ j.step \notin Busy /\ j.op = "retry" /\ j.todo \subseteq rows
        /\ j.seen = Snapshot
    BY DEF Idle, Busy
  <2>3. \A t \in rows : tx[t].attempt < MaxKey
    BY <1>7 DEF StartRetry
  <2>4. Start(w, j)
          /\ UNCHANGED <<batch, rows, tx, provider, submitted, ledger, hist>>
    BY <1>7 DEF StartRetry
  <2> HIDE DEF j
  <2>5. \A t \in j.todo : j.seen[t].attempt < MaxKey
    BY <1>1, <1>4, <2>2, <2>3 DEF StoreTypeOK
  <2>6. job' \in [Workers -> Job] /\ JobShape' /\ calls' \in Nat
    BY <2>1, <2>2, <2>4, <2>5, StartStep
  <2> QED
    BY <1>1, <2>4, <2>6 DEF TInv, TypeOK, StoreTypeOK
<1>8. CASE StartReconcile(w)
  <2> DEFINE j == [Idle EXCEPT !.op = "reconcile", !.step = "next",
                     !.todo = {t \in rows : /\ tx[t].status \in Unresolved
                                            /\ Reference(tx[t]) # NoRef},
                     !.seen = Snapshot]
  <2>1. j \in Job
    BY <1>1, <1>3, IdleType DEF Job, Operations, Steps, StoreTypeOK
  <2>2. /\ j.step \notin Busy /\ j.op = "reconcile" /\ j.seen = Snapshot
        /\ j.todo \subseteq rows
        /\ \A t \in j.todo : Reference(tx[t]) # NoRef
    BY DEF Idle, Busy
  <2>3. Start(w, j)
          /\ UNCHANGED <<batch, rows, tx, provider, submitted, ledger, hist>>
    BY <1>8 DEF StartReconcile
  <2> HIDE DEF j
  <2>4. \A t \in j.todo : Reference(j.seen[t]) # NoRef
    BY <1>1, <1>4, <2>2 DEF StoreTypeOK
  <2>5. job' \in [Workers -> Job] /\ JobShape' /\ calls' \in Nat
    BY <2>1, <2>2, <2>3, <2>4, StartStep
  <2> QED
    BY <1>1, <2>3, <2>5 DEF TInv, TypeOK, StoreTypeOK
<1>9. ASSUME NEW t \in Txs, NEW k \in Keys, StartWebhook(w, t, k)
      PROVE  TInv'
  <2>1. PICK res \in Reportable(provider[t][k]), r \in {k, NoRef},
             step \in {"store", "post", "stats"} :
          Start(w, [Idle EXCEPT !.op = "webhook", !.step = step, !.cur = t,
                                !.todo = {t}, !.seen[t] = Read(tx[t]),
                                !.res = res, !.ptid = k, !.pref = r])
    BY <1>9 DEF StartWebhook
  <2> DEFINE j == [Idle EXCEPT !.op = "webhook", !.step = step, !.cur = t,
                               !.todo = {t}, !.seen[t] = Read(tx[t]),
                               !.res = res, !.ptid = k, !.pref = r]
  <2>2. Read(tx[t]) \in Seen
    BY <1>1, ReadType DEF StoreTypeOK
  <2>3. res \in Outcome /\ r \in Refs /\ k \in Refs
    BY <1>1 DEF StoreTypeOK, Reportable, Observed, Outcome, Refs
  <2>4. j \in Job
    <3>1. [Idle.seen EXCEPT ![t] = Read(tx[t])] \in [Txs -> Seen]
      BY <2>2, IdleType DEF Job
    <3> QED
      BY <2>1, <2>3, <3>1, IdleType DEF Job, Operations, Steps
  <2>5. j.op = "webhook" /\ j.cur = t /\ j.todo = {t}
    BY DEF Idle
  <2>6. Start(w, j)
    BY <2>1
  <2>7. UNCHANGED <<batch, rows, tx, provider, submitted, ledger, hist>>
    BY <1>9 DEF StartWebhook
  <2> HIDE DEF j
  <2>8. job' \in [Workers -> Job] /\ JobShape' /\ calls' \in Nat
    BY <2>4, <2>5, <2>6, StartStep
  <2> QED
    BY <1>1, <2>7, <2>8 DEF TInv, TypeOK, StoreTypeOK
<1> QED
  BY <1>5, <1>6, <1>7, <1>8, <1>9 DEF Begin

LEMMA DisburseKeyType ==
  ASSUME TInv, NEW w \in Workers, job[w].step = "call"
  PROVE  job[w].cur \in Txs /\ DisburseKey(w) \in Keys
BY PayrollAssumption
DEF TInv, TypeOK, JobShape, Busy, DisburseKey, Job, Seen, Keys

\* The handlers that go on.
LEMMA TContinue ==
  ASSUME TInv, NEW w \in Workers, Continue(w)
  PROVE  TInv'
<1> USE DEF hist, Note
<1>1. StoreTypeOK /\ job \in [Workers -> Job] /\ JobShape
  BY TInvSplit
<1>2. /\ job[w] \in Job
      /\ job[w].step \in Busy => job[w].cur \in job[w].todo
  BY <1>1 DEF JobShape
<1>3. job[w].step \in Busy => job[w].cur \in Txs
  BY <1>2 DEF Job
<1>4. /\ Cardinality(rows) \in Nat
      /\ \A S : Cardinality(With(S)) \in Nat
      /\ Cardinality(PostedSuccesses) \in Nat
  BY CountType DEF TInv
<1>5. CASE UploadInsert(w)
  <2>1. job' \in [Workers -> Job] /\ JobShape'
    BY <1>5, IdleStep DEF UploadInsert
  <2>2. rows' \in SUBSET Txs
    BY <1>5 DEF UploadInsert
  <2> QED
    BY <1>1, <1>5, <2>1, <2>2 DEF UploadInsert, TInv, TypeOK, StoreTypeOK
<1>6. CASE MarkProcessing(w)
  <2>1. job' \in [Workers -> Job] /\ JobShape'
    BY <1>6, GotoStep DEF MarkProcessing, Steps, Busy
  <2>2. batch' \in BATCH_STATUS \cup {"ABSENT"}
    BY <1>1, <1>6 DEF MarkProcessing, StoreTypeOK, BATCH_STATUS
  <2> QED
    BY <1>1, <1>6, <2>1, <2>2 DEF MarkProcessing, TInv, TypeOK, StoreTypeOK
<1>7. CASE ListClaimable(w)
  <2> DEFINE j == [job[w] EXCEPT !.step = "next",
                     !.todo = {t \in rows : tx[t].status \in Claimable}]
  <2>1. j \in Job /\ job' = [job EXCEPT ![w] = j]
    BY <1>1, <1>2, <1>7 DEF ListClaimable, Job, Steps, StoreTypeOK
  <2>2. j.step \notin Busy /\ j.op = "process"
    BY <1>2, <1>7 DEF Job, Busy, ListClaimable, At
  <2> HIDE DEF j
  <2>3. job' \in [Workers -> Job] /\ JobShape'
    BY <2>1, <2>2, JobUpdate
  <2> QED
    BY <1>1, <1>7, <2>3 DEF ListClaimable, TInv, TypeOK, StoreTypeOK
<1>8. ASSUME NEW t \in Txs, Claim(w, t)
      PROVE  TInv'
  <2>1. CASE tx[t].status \in Claimable
    <3> DEFINE j == [job[w] EXCEPT !.step = "call", !.cur = t,
                       !.seen = [@ EXCEPT ![t] =
                                   [Read(tx[t]) EXCEPT !.attempt = @ + 1]]]
    <3>1. [Read(tx[t]) EXCEPT !.attempt = @ + 1] \in Seen
      BY <1>1, ReadType DEF StoreTypeOK, Seen
    <3>2. j \in Job
      BY <1>2, <3>1 DEF Job, Steps
    <3>3. job' = [job EXCEPT ![w] = j]
      BY <1>2, <1>8, <2>1 DEF Claim, Job
    <3>4. j.op = "process" /\ j.cur = t /\ t \in j.todo
      BY <1>2, <1>8 DEF Job, Claim, At
    <3> HIDE DEF j
    <3>5. job' \in [Workers -> Job] /\ JobShape'
      BY <3>2, <3>3, <3>4, JobUpdate
    <3>6. tx' \in [Txs -> TxRecord]
      <4>1. tx \in [Txs -> TxRecord] /\ tx[t] \in TxRecord
        BY <1>1 DEF StoreTypeOK
      <4>2. tx' = [tx EXCEPT ![t].status = "PROCESSING", ![t].attempt = @ + 1]
        BY <1>8, <2>1 DEF Claim
      <4>. QED  BY ONLY <4>1, <4>2 DEF TxRecord, TRANSACTION_STATUS
    <3> QED
      BY <1>1, <1>8, <3>5, <3>6 DEF Claim, TInv, TypeOK, StoreTypeOK
  <2>2. CASE tx[t].status \notin Claimable
    <3> DEFINE j == [job[w] EXCEPT !.todo = @ \ {t}]
    <3>1. j \in Job /\ job' = [job EXCEPT ![w] = j]
      BY <1>1, <1>2, <1>8, <2>2 DEF Claim, Job
    <3>2. /\ j.step \notin Busy /\ j.todo \subseteq job[w].todo
          /\ j.op = job[w].op /\ j.seen = job[w].seen
      BY <1>2, <1>8 DEF Claim, At, Job, Busy
    <3> HIDE DEF j
    <3>3. job' \in [Workers -> Job] /\ JobShape'
      BY <3>1, <3>2, JobStep
    <3> QED
      BY <1>1, <1>8, <2>2, <3>3 DEF Claim, TInv, TypeOK, StoreTypeOK
  <2> QED
    BY <2>1, <2>2
<1>9. ASSUME NEW t \in Txs, MarkRetrying(w, t)
      PROVE  TInv'
  <2> DEFINE j == [job[w] EXCEPT !.step = "call", !.cur = t]
  <2>1. j \in Job /\ job' = [job EXCEPT ![w] = j]
    BY <1>1, <1>2, <1>9 DEF MarkRetrying, Job, Steps
  <2>2. /\ j.cur \in j.todo /\ j.todo \subseteq job[w].todo
        /\ j.op = job[w].op /\ j.seen = job[w].seen
    BY <1>2, <1>9 DEF Job, MarkRetrying
  <2> HIDE DEF j
  <2>3. job' \in [Workers -> Job] /\ JobShape'
    BY <2>1, <2>2, JobStep
  <2>4. tx' \in [Txs -> TxRecord]
    <3>1. tx \in [Txs -> TxRecord]
      BY <1>1 DEF StoreTypeOK
    <3>2. \/ UNCHANGED tx
          \/ tx' = [tx EXCEPT ![t].status = "RETRYING", ![t].attempt = @ + 1]
      BY <1>9 DEF MarkRetrying
    <3> QED
      BY ONLY <3>1, <3>2 DEF TxRecord, TRANSACTION_STATUS
  <2> QED
    BY <1>1, <1>9, <2>3, <2>4 DEF MarkRetrying, TInv, TypeOK, StoreTypeOK
<1>10. ASSUME NEW t \in Txs, QueryProvider(w, t)
       PROVE  TInv'
  <2> DEFINE k == Reference(job[w].seen[t])
  <2>1. PICK res \in {Observed(provider[t][k]), "UNKNOWN"} :
          job' = [job EXCEPT ![w].step = "store", ![w].cur = t,
                             ![w].res = res, ![w].pref = k]
    BY <1>10 DEF QueryProvider
  <2>2. k \in Refs /\ res \in Outcome
    BY <1>2, <2>1 DEF Job, Seen, Reference, Observed, Outcome
  <2> HIDE DEF k
  <2> DEFINE j == [job[w] EXCEPT !.step = "store", !.cur = t,
                                 !.res = res, !.pref = k]
  <2>3. j \in Job /\ job' = [job EXCEPT ![w] = j]
    BY <1>1, <1>2, <2>1, <2>2 DEF Job, Steps
  <2>4. /\ j.cur \in j.todo /\ j.todo \subseteq job[w].todo
        /\ j.op = job[w].op /\ j.seen = job[w].seen
    BY <1>2, <1>10 DEF Job, QueryProvider
  <2> HIDE DEF j
  <2>5. job' \in [Workers -> Job] /\ JobShape'
    BY <2>3, <2>4, JobStep
  <2> QED
    BY <1>1, <1>10, <2>5 DEF QueryProvider, TInv, TypeOK, StoreTypeOK
<1>11. CASE Disburse(w)
  <2> DEFINE t == job[w].cur
             k == DisburseKey(w)
  <2>1. t \in Txs /\ k \in Keys
    BY <1>11, DisburseKeyType DEF Disburse
  <2>2. PICK res, ref : Answer(w, res, ref) /\ res \in Outcome /\ ref \in Refs
    BY <1>11, <2>1 DEF Disburse, Observed, NoAnswer, Outcome, Refs
  <2>3. job' \in [Workers -> Job] /\ JobShape'
    <3> DEFINE j == [job[w] EXCEPT !.step = "store", !.res = res,
                                   !.ptid = ref, !.pref = ref]
    <3>1. j \in Job /\ job' = [job EXCEPT ![w] = j]
      BY <1>1, <1>2, <2>2 DEF Answer, Job, Steps
    <3>2. /\ j.cur \in j.todo /\ j.todo \subseteq job[w].todo
          /\ j.op = job[w].op /\ j.seen = job[w].seen
      BY <1>2, <1>11 DEF Disburse, Job, Busy
    <3> HIDE DEF j
    <3> QED
      BY <3>1, <3>2, JobStep
  <2>4. provider' \in [Txs -> [Keys -> ProviderState]]
    <3>1. CASE UNCHANGED provider
      BY <1>1, <3>1 DEF StoreTypeOK
    <3>2. ASSUME NEW p \in {"pending", "paid", "failed", provider[t][k]},
                 provider' = [provider EXCEPT ![t][k] = p]
          PROVE  provider' \in [Txs -> [Keys -> ProviderState]]
      BY <1>1, <2>1, <3>2 DEF StoreTypeOK, ProviderState
    <3> QED
      BY <1>11, <3>1, <3>2 DEF Disburse
  <2>5. submitted' \in [Txs -> [Keys -> Nat]]
    <3>1. CASE submitted' = [submitted EXCEPT ![t][k] = @ + 1]
      BY <1>1, <2>1, <3>1 DEF StoreTypeOK
    <3>2. CASE UNCHANGED submitted
      BY <1>1, <3>2 DEF StoreTypeOK
    <3> QED
      BY <1>11, <3>1, <3>2 DEF Disburse
  <2> QED
    BY <1>1, <1>11, <2>3, <2>4, <2>5
    DEF Disburse, TInv, TypeOK, StoreTypeOK
<1>12. CASE StoreOutcome(w)
  <2>1. job[w].cur \in Txs
    BY <1>3, <1>12 DEF StoreOutcome, Busy
  <2>2. \A r \in TxRecord : Recorded(w, r) \in TxRecord
    BY <1>2, <2>1
    DEF Recorded, TxRecord, Job, Seen, Outcome, TRANSACTION_STATUS
  <2>3. tx' \in [Txs -> TxRecord]
    BY <1>1, <1>12, <2>1, <2>2 DEF StoreOutcome, StoreTypeOK
  <2>4. job' \in [Workers -> Job] /\ JobShape'
    BY <1>12, GotoStep, AdvanceStep DEF StoreOutcome, Steps, Busy
  <2> QED
    BY <1>1, <1>12, <2>3, <2>4 DEF StoreOutcome, TInv, TypeOK, StoreTypeOK
<1>13. CASE Post(w)
  <2>1. job[w].step = "post" /\ job[w].cur \in Txs
    BY <1>3, <1>13 DEF Post, Busy
  <2>2. ledger' \in SUBSET (Txs \X Keys)
    BY <1>1, <1>13, <2>1, PayrollAssumption
    DEF Post, StoreTypeOK, PostingKey, Keys
  <2>3. PICK out \in {"POSTED", "REQUIRES_REVIEW"} :
          job' = [job EXCEPT ![w].step = "settle", ![w].out = out]
    BY <1>13 DEF Post
  <2> DEFINE j == [job[w] EXCEPT !.step = "settle", !.out = out]
  <2>4. j \in Job /\ job' = [job EXCEPT ![w] = j]
    BY <1>1, <1>2, <2>3 DEF Job, Steps, FINANCIAL_POSTING_STATUS
  <2>5. /\ j.cur \in j.todo /\ j.todo \subseteq job[w].todo
        /\ j.op = job[w].op /\ j.seen = job[w].seen
    BY <1>2, <2>1 DEF Job, Busy
  <2> HIDE DEF j
  <2>6. job' \in [Workers -> Job] /\ JobShape'
    BY <2>4, <2>5, JobStep
  <2> QED
    BY <1>1, <1>13, <2>2, <2>6 DEF Post, TInv, TypeOK, StoreTypeOK
<1>14. CASE SettlePosting(w)
  <2>1. job[w].out \in FINANCIAL_POSTING_STATUS
    BY <1>2 DEF Job
  <2>2. tx' \in [Txs -> TxRecord]
    BY <1>1, <1>14, <2>1 DEF SettlePosting, StoreTypeOK, TxRecord
  <2>3. job' \in [Workers -> Job] /\ JobShape'
    BY <1>14, GotoStep, AdvanceStep DEF SettlePosting, Steps, Busy
  <2> QED
    BY <1>1, <1>14, <2>2, <2>3 DEF SettlePosting, TInv, TypeOK, StoreTypeOK
<1>15. CASE RereadPosting(w)
  <2>1. job' \in [Workers -> Job] /\ JobShape'
    BY <1>15, GotoStep, AdvanceStep DEF RereadPosting, Steps, Busy
  <2> QED
    BY <1>1, <1>15, <2>1 DEF RereadPosting, TInv, TypeOK, StoreTypeOK
<1>16. CASE StampReconciled(w)
  <2>1. tx' \in [Txs -> TxRecord]
    BY <1>1, <1>16 DEF StampReconciled, StoreTypeOK, TxRecord
  <2>2. job' \in [Workers -> Job] /\ JobShape'
    BY <1>16, AdvanceStep DEF StampReconciled
  <2> QED
    BY <1>1, <1>16, <2>1, <2>2 DEF StampReconciled, TInv, TypeOK, StoreTypeOK
<1>17. CASE EndLoop(w)
  <2>1. job' \in [Workers -> Job] /\ JobShape'
    BY <1>17, GotoStep, IdleStep DEF EndLoop, Steps, Busy
  <2> QED
    BY <1>1, <1>17, <2>1 DEF EndLoop, TInv, TypeOK, StoreTypeOK
<1>18. CASE ReadStats(w)
  <2> DEFINE v == [job[w].view EXCEPT !.success = Cardinality(With({"SUCCESS"})),
                       !.failed  = Cardinality(With({"FAILED"}))]
             j == [job[w] EXCEPT !.step = "count", !.view = v]
  <2>1. j \in Job
    BY <1>2, <1>4 DEF Job, Steps
  <2>2. job' = [job EXCEPT ![w] = j]
    BY <1>1, <1>2, <1>18 DEF ReadStats, Job
  <2>3. /\ j.step \notin Busy /\ j.todo \subseteq job[w].todo
        /\ j.op = job[w].op /\ j.seen = job[w].seen
    BY <1>2 DEF Job, Busy
  <2> HIDE DEF j
  <2>4. job' \in [Workers -> Job] /\ JobShape'
    BY <2>1, <2>2, <2>3, JobStep
  <2> QED
    BY <1>1, <1>18, <2>4 DEF ReadStats, TInv, TypeOK, StoreTypeOK
<1>19. CASE ReadCount(w)
  <2> DEFINE v == [job[w].view EXCEPT !.count = Cardinality(rows)]
             j == [job[w] EXCEPT !.step = "finals", !.view = v]
  <2>1. j \in Job
    BY <1>2, <1>4 DEF Job, Steps
  <2>2. job' = [job EXCEPT ![w] = j]
    BY <1>1, <1>2, <1>19 DEF ReadCount, Job
  <2>3. /\ j.step \notin Busy /\ j.todo \subseteq job[w].todo
        /\ j.op = job[w].op /\ j.seen = job[w].seen
    BY <1>2 DEF Job, Busy
  <2> HIDE DEF j
  <2>4. job' \in [Workers -> Job] /\ JobShape'
    BY <2>1, <2>2, <2>3, JobStep
  <2> QED
    BY <1>1, <1>19, <2>4 DEF ReadCount, TInv, TypeOK, StoreTypeOK
<1>20. CASE ReadFinals(w)
  <2> DEFINE v == [job[w].view EXCEPT !.final = Cardinality(With({"SUCCESS", "FAILED"}))]
             j == [job[w] EXCEPT !.step = "posteds", !.view = v]
  <2>1. j \in Job
    BY <1>2, <1>4 DEF Job, Steps
  <2>2. job' = [job EXCEPT ![w] = j]
    BY <1>1, <1>2, <1>20 DEF ReadFinals, Job
  <2>3. /\ j.step \notin Busy /\ j.todo \subseteq job[w].todo
        /\ j.op = job[w].op /\ j.seen = job[w].seen
    BY <1>2 DEF Job, Busy
  <2> HIDE DEF j
  <2>4. job' \in [Workers -> Job] /\ JobShape'
    BY <2>1, <2>2, <2>3, JobStep
  <2> QED
    BY <1>1, <1>20, <2>4 DEF ReadFinals, TInv, TypeOK, StoreTypeOK
<1>21. CASE ReadPosteds(w)
  <2> DEFINE v == [job[w].view EXCEPT !.posted = Cardinality(PostedSuccesses)]
             j == [job[w] EXCEPT !.step = "publish", !.view = v]
  <2>1. j \in Job
    BY <1>2, <1>4 DEF Job, Steps
  <2>2. job' = [job EXCEPT ![w] = j]
    BY <1>1, <1>2, <1>21 DEF ReadPosteds, Job
  <2>3. /\ j.step \notin Busy /\ j.todo \subseteq job[w].todo
        /\ j.op = job[w].op /\ j.seen = job[w].seen
    BY <1>2 DEF Job, Busy
  <2> HIDE DEF j
  <2>4. job' \in [Workers -> Job] /\ JobShape'
    BY <2>1, <2>2, <2>3, JobStep
  <2> QED
    BY <1>1, <1>21, <2>4 DEF ReadPosteds, TInv, TypeOK, StoreTypeOK
<1>22. CASE PublishStats(w)
  <2>1. job' \in [Workers -> Job] /\ JobShape'
    BY <1>22, IdleStep DEF PublishStats
  <2>2. batch' \in BATCH_STATUS
    BY <1>22 DEF PublishStats, BatchStatusOf, BATCH_STATUS
  <2> QED
    BY <1>1, <1>22, <2>1, <2>2 DEF PublishStats, TInv, TypeOK, StoreTypeOK
<1> QED
  BY <1>5, <1>6, <1>7, <1>8, <1>9, <1>10, <1>11, <1>12, <1>13, <1>14, <1>15,
     <1>16, <1>17, <1>18, <1>19, <1>20, <1>21, <1>22 DEF Continue

LEMMA TStep == TInv /\ [Next]_vars => TInv'
<1> SUFFICES ASSUME TInv, [Next]_vars PROVE TInv'
  OBVIOUS
<1>1. ASSUME NEW w \in Workers, Abort(w)
      PROVE  TInv'
  <2>1. job' \in [Workers -> Job] /\ JobShape'
    BY <1>1, IdleStep DEF Abort
  <2> QED
    BY <1>1, <2>1 DEF Abort, TInv, TypeOK
<1>2. ASSUME NEW t \in Txs, NEW k \in Keys, ProviderDecides(t, k)
      PROVE  TInv'
  <2>1. provider' \in [Txs -> [Keys -> ProviderState]]
    BY <1>2 DEF ProviderDecides, TInv, TypeOK, ProviderState
  <2> QED
    BY <1>2, <2>1 DEF ProviderDecides, hist, TInv, TypeOK, JobShape
<1>3. CASE UNCHANGED vars
  BY <1>3 DEF vars, TInv, TypeOK, JobShape
<1> QED
  BY <1>1, <1>2, <1>3, TBegin, TContinue DEF Next

LEMMA TypesInvariant == Spec => []TInv
<1> QED
  BY TInit, TStep, PTL DEF Spec

\* Every document, payment and running handler keeps its type: PayrollService
\* never stores a status outside its enums, however handlers interleave.
THEOREM TypeCorrect == Spec => []TypeOK
<1>1. TInv => TypeOK
  BY DEF TInv
<1> QED
  BY <1>1, TypesInvariant, PTL

-----------------------------------------------------------------------------
(* Which steps write what.                                                 *)

\* A handler that starts writes no transaction, payment or posting.
LEMMA BeginWrites ==
  ASSUME NEW w \in Workers, Begin(w)
  PROVE  UNCHANGED <<rows, tx, provider, submitted, ledger>>
<1>1. ASSUME NEW t \in Txs, NEW k \in Keys, StartWebhook(w, t, k)
      PROVE  UNCHANGED <<rows, tx, provider, submitted, ledger>>
  BY <1>1 DEF StartWebhook
<1> QED
  BY <1>1 DEF Begin, UploadCreate, StartProcess, StartRetry, StartReconcile

\* Of the others, these write a transaction, a payment or a posting.
LEMMA ContinueWrites ==
  ASSUME NEW w \in Workers, Continue(w)
  PROVE  \/ \E t \in Txs : Claim(w, t) \/ MarkRetrying(w, t)
         \/ Disburse(w) \/ StoreOutcome(w) \/ Post(w) \/ SettlePosting(w)
         \/ StampReconciled(w)
         \/ UNCHANGED <<tx, provider, submitted, ledger>>
<1>1. ASSUME NEW t \in Txs, QueryProvider(w, t)
      PROVE  UNCHANGED <<tx, provider, submitted, ledger>>
  BY <1>1 DEF QueryProvider
<1>2. ASSUME \/ UploadInsert(w) \/ MarkProcessing(w) \/ ListClaimable(w)
             \/ RereadPosting(w) \/ EndLoop(w)
      PROVE  UNCHANGED <<tx, provider, submitted, ledger>>
  BY <1>2
  DEF UploadInsert, MarkProcessing, ListClaimable, RereadPosting, EndLoop
<1>3. ASSUME \/ ReadStats(w) \/ ReadCount(w) \/ ReadFinals(w)
             \/ ReadPosteds(w) \/ PublishStats(w)
      PROVE  UNCHANGED <<tx, provider, submitted, ledger>>
  BY <1>3 DEF ReadStats, ReadCount, ReadFinals, ReadPosteds, PublishStats
<1> QED
  BY <1>1, <1>2, <1>3 DEF Continue

LEMMA Writes ==
  ASSUME [Next]_vars
  PROVE  \/ \E w \in Workers :
              \/ \E t \in Txs : Claim(w, t) \/ MarkRetrying(w, t)
              \/ Disburse(w) \/ StoreOutcome(w) \/ Post(w)
              \/ SettlePosting(w) \/ StampReconciled(w)
         \/ \E t \in Txs, k \in Keys : ProviderDecides(t, k)
         \/ UNCHANGED <<tx, provider, submitted, ledger>>
<1>1. CASE UNCHANGED vars
  BY <1>1 DEF vars
<1>2. ASSUME NEW w \in Workers, Abort(w)
      PROVE  UNCHANGED <<tx, provider, submitted, ledger>>
  BY <1>2 DEF Abort
<1> QED
  BY <1>1, <1>2, BeginWrites, ContinueWrites DEF Next

LEMMA LedgerWrites ==
  ASSUME [Next]_vars
  PROVE  UNCHANGED ledger \/ \E w \in Workers : Post(w)
<1>1. ASSUME NEW w \in Workers, NEW t \in Txs,
             Claim(w, t) \/ MarkRetrying(w, t)
      PROVE  UNCHANGED ledger
  BY <1>1 DEF Claim, MarkRetrying
<1>2. ASSUME NEW w \in Workers,
             Disburse(w) \/ StoreOutcome(w) \/ SettlePosting(w)
               \/ StampReconciled(w)
      PROVE  UNCHANGED ledger
  BY <1>2 DEF Disburse, StoreOutcome, SettlePosting, StampReconciled
<1>3. ASSUME NEW t \in Txs, NEW k \in Keys, ProviderDecides(t, k)
      PROVE  UNCHANGED ledger
  BY <1>3 DEF ProviderDecides
<1> QED
  BY <1>1, <1>2, <1>3, Writes

LEMMA ProviderWrites ==
  ASSUME [Next]_vars
  PROVE  \/ UNCHANGED <<provider, submitted>>
         \/ \E w \in Workers : Disburse(w)
         \/ /\ \E t \in Txs, k \in Keys : ProviderDecides(t, k)
            /\ UNCHANGED submitted
<1>1. ASSUME NEW w \in Workers, NEW t \in Txs,
             Claim(w, t) \/ MarkRetrying(w, t)
      PROVE  UNCHANGED <<provider, submitted>>
  BY <1>1 DEF Claim, MarkRetrying
<1>2. ASSUME NEW w \in Workers, StoreOutcome(w) \/ Post(w)
      PROVE  UNCHANGED <<provider, submitted>>
  BY <1>2 DEF StoreOutcome, Post
<1>3. ASSUME NEW w \in Workers, SettlePosting(w) \/ StampReconciled(w)
      PROVE  UNCHANGED <<provider, submitted>>
  BY <1>3 DEF SettlePosting, StampReconciled
<1>4. ASSUME NEW t \in Txs, NEW k \in Keys, ProviderDecides(t, k)
      PROVE  UNCHANGED submitted
  BY <1>4 DEF ProviderDecides
<1> QED
  BY <1>1, <1>2, <1>3, <1>4, Writes

LEMMA TxWrites ==
  ASSUME [Next]_vars
  PROVE  \/ UNCHANGED tx
         \/ \E w \in Workers, t \in Txs : Claim(w, t) \/ MarkRetrying(w, t)
         \/ \E w \in Workers :
              StoreOutcome(w) \/ SettlePosting(w) \/ StampReconciled(w)
BY Writes DEF Disburse, Post, ProviderDecides

\* The provider takes nothing back, and neither does the ledger.
LEMMA Grows ==
  ASSUME TInv, [Next]_vars, NEW t \in Txs
  PROVE  /\ Paid(t) \subseteq Paid(t)'
         /\ Refused(t) \subseteq Refused(t)'
         /\ Posted(t) \subseteq Posted(t)'
<1>1. provider \in [Txs -> [Keys -> ProviderState]]
  BY DEF TInv, TypeOK
<1>2. \A k \in Keys : provider[t][k] \in {"paid", "failed"} =>
                        provider'[t][k] = provider[t][k]
  <2>1. CASE UNCHANGED provider
    BY <2>1
  <2>2. ASSUME NEW w \in Workers, Disburse(w)
        PROVE  \A k \in Keys : provider[t][k] \in {"paid", "failed"} =>
                                 provider'[t][k] = provider[t][k]
    <3> DEFINE u == job[w].cur
               l == DisburseKey(w)
    <3>1. u \in Txs /\ l \in Keys
      BY <2>2, DisburseKeyType DEF Disburse
    <3>2. \/ UNCHANGED provider
          \/ \E p \in IF provider[u][l] = "none"
                      THEN {"pending", "paid", "failed"}
                      ELSE {provider[u][l]} :
               provider' = [provider EXCEPT ![u][l] = p]
      BY <2>2 DEF Disburse
    <3> HIDE DEF u, l
    <3> QED
      BY <1>1, <3>1, <3>2
  <2>3. ASSUME NEW u \in Txs, NEW l \in Keys, ProviderDecides(u, l)
        PROVE  \A k \in Keys : provider[t][k] \in {"paid", "failed"} =>
                                 provider'[t][k] = provider[t][k]
    BY <1>1, <2>3 DEF ProviderDecides
  <2> QED
    BY <2>1, <2>2, <2>3, ProviderWrites
<1>3. ledger \subseteq ledger'
  BY LedgerWrites DEF Post
<1> QED
  BY <1>2, <1>3 DEF Paid, Refused, Posted

-----------------------------------------------------------------------------
(* Evidence.                                                               *)

\* The steps at which a handler's evidence is about the transaction it
\* handles.
Telling == {"store", "post", "settle"}

\* A handler that does not move keeps its evidence.
LEMMA OthersKeep ==
  ASSUME TInv, JobEvidence, [Next]_vars,
         NEW v \in Workers, job'[v] = job[v]
  PROVE  HandlerEvidence(job[v])'
<1>1. \A t \in Txs : /\ Paid(t) # {} => Paid(t)' # {}
                     /\ Refused(t) # {} => Refused(t)' # {}
                     /\ Posted(t) # {} => Posted(t)' # {}
  BY Grows
<1>2. job[v] \in Job /\ HandlerEvidence(job[v])
  BY DEF TInv, TypeOK, JobEvidence
<1>3. job[v].todo \subseteq Txs
  BY <1>2 DEF Job
<1>4. job[v].step \in Telling => job[v].cur \in Txs
  BY <1>3 DEF TInv, JobShape, Busy, Telling
<1> DEFINE j == job[v]
<1>5. /\ j.step = "store" /\ j.res = "SUCCESS" => Paid(j.cur) # {}
      /\ j.step = "store" /\ j.res = "FAILED"  => Refused(j.cur) # {}
      /\ j.step \in {"post", "settle"} => Paid(j.cur) # {}
      /\ j.step = "settle" /\ j.out = "POSTED" => Posted(j.cur) # {}
      /\ j.op = "retry" => \A t \in j.todo : Refused(t) # {}
  BY <1>2 DEF HandlerEvidence
<1>6. /\ \A t \in Txs : /\ Paid(t) # {} => {k \in Keys : provider'[t][k] = "paid"} # {}
                        /\ Refused(t) # {} => {k \in Keys : provider'[t][k] = "failed"} # {}
                        /\ Posted(t) # {} => {k \in Keys : <<t, k>> \in ledger'} # {}
  BY <1>1 DEF Paid, Refused, Posted
<1>7. /\ j.step \in Telling => j.cur \in Txs
      /\ j.todo \subseteq Txs
  BY <1>3, <1>4
<1>8. job'[v] = j
  OBVIOUS
<1> HIDE DEF j
<1>9. /\ j.step = "store" /\ j.res = "SUCCESS" =>
            {k \in Keys : provider'[j.cur][k] = "paid"} # {}
      /\ j.step = "store" /\ j.res = "FAILED" =>
            {k \in Keys : provider'[j.cur][k] = "failed"} # {}
      /\ j.step \in {"post", "settle"} =>
            {k \in Keys : provider'[j.cur][k] = "paid"} # {}
      /\ j.step = "settle" /\ j.out = "POSTED" =>
            {k \in Keys : <<j.cur, k>> \in ledger'} # {}
      /\ j.op = "retry" =>
            \A t \in j.todo : {k \in Keys : provider'[t][k] = "failed"} # {}
  BY ONLY <1>5, <1>6, <1>7 DEF Telling
<1> QED
  BY ONLY <1>8, <1>9 DEF HandlerEvidence, Paid, Refused, Posted

LEMMA EvidenceKept ==
  ASSUME TInv, JobEvidence, [Next]_vars,
         NEW w \in Workers, NEW j \in Job, job' = [job EXCEPT ![w] = j],
         j.step \in Telling => j.cur \in Txs,
         HandlerEvidence(j)
  PROVE  JobEvidence'
<1>1. job \in [Workers -> Job] /\ JobShape
  BY DEF TInv, TypeOK
<1>2. \A t \in Txs : /\ Paid(t) # {} => Paid(t)' # {}
                     /\ Refused(t) # {} => Refused(t)' # {}
                     /\ Posted(t) # {} => Posted(t)' # {}
  BY Grows
<1> SUFFICES ASSUME NEW v \in Workers
             PROVE  HandlerEvidence(job[v])'
  BY DEF JobEvidence
<1>3. CASE v = w
  <2>1. job'[v] = j
    BY <1>1, <1>3
  <2>2. j.todo \subseteq Txs
    BY DEF Job
  <2>3. /\ j.step = "store" /\ j.res = "SUCCESS" => Paid(job[v].cur)' # {}
        /\ j.step = "store" /\ j.res = "FAILED" => Refused(job[v].cur)' # {}
    BY <1>2, <2>1 DEF HandlerEvidence, Telling, Paid, Refused
  <2>4. /\ j.step \in {"post", "settle"} => Paid(job[v].cur)' # {}
        /\ j.step = "settle" /\ j.out = "POSTED" => Posted(job[v].cur)' # {}
    BY <1>2, <2>1 DEF HandlerEvidence, Telling, Paid, Posted
  <2>5. j.op = "retry" => \A t \in j.todo : Refused(t)' # {}
    BY <1>2, <2>2 DEF HandlerEvidence
  <2> QED
    BY <2>1, <2>3, <2>4, <2>5 DEF HandlerEvidence, Paid, Refused, Posted
<1>4. CASE v # w
  BY <1>1, <1>4, OthersKeep
<1> QED
  BY <1>3, <1>4

\* A step to where nothing is told about the transaction keeps the evidence.
LEMMA QuietStep ==
  ASSUME TInv, JobEvidence, [Next]_vars,
         NEW w \in Workers, NEW j \in Job, job' = [job EXCEPT ![w] = j],
         j.step \notin Telling, j.todo \subseteq job[w].todo,
         j.op = job[w].op
  PROVE  JobEvidence'
<1>1. HandlerEvidence(j)
  BY DEF JobEvidence, HandlerEvidence, Telling
<1> QED
  BY <1>1, EvidenceKept

LEMMA QuietGoto ==
  ASSUME TInv, JobEvidence, [Next]_vars, NEW w \in Workers,
         NEW step \in Steps \ Telling, Goto(w, step)
  PROVE  JobEvidence'
<1> DEFINE j == [job[w] EXCEPT !.step = step]
<1>1. job[w] \in Job
  BY DEF TInv, TypeOK
<1>2. j \in Job /\ job' = [job EXCEPT ![w] = j]
  BY <1>1 DEF Job, Goto
<1>3. j.step = step /\ j.todo = job[w].todo /\ j.op = job[w].op
  BY <1>1 DEF Job
<1> HIDE DEF j
<1> QED
  BY <1>2, <1>3, QuietStep

LEMMA QuietAdvance ==
  ASSUME TInv, JobEvidence, [Next]_vars, NEW w \in Workers, Advance(w)
  PROVE  JobEvidence'
<1> DEFINE j == [job[w] EXCEPT !.todo = @ \ {job[w].cur}, !.cur = NoTx,
                   !.res = "UNKNOWN", !.ptid = NoRef, !.pref = NoRef,
                   !.out = "PENDING", !.step = "next"]
<1>1. job[w] \in Job
  BY DEF TInv, TypeOK
<1>2. j \in Job
  BY <1>1 DEF Job, Steps, Outcome, Refs, FINANCIAL_POSTING_STATUS
<1>3. job' = [job EXCEPT ![w] = j]
  BY <1>1 DEF Job, Advance
<1>4. j.step = "next" /\ j.todo \subseteq job[w].todo /\ j.op = job[w].op
  BY <1>1 DEF Job
<1> HIDE DEF j
<1> QED
  BY <1>2, <1>3, <1>4, QuietStep DEF Telling

LEMMA QuietIdle ==
  ASSUME TInv, JobEvidence, [Next]_vars, NEW w \in Workers,
         job' = [job EXCEPT ![w] = Idle]
  PROVE  JobEvidence'
<1>1. HandlerEvidence(Idle) /\ Idle.step \notin Telling
  BY DEF HandlerEvidence, Idle, Telling
<1> QED
  BY <1>1, IdleType, EvidenceKept

\* The handlers that start: what a callback says the provider holds, what is
\* retried is FAILED.
LEMMA EBegin ==
  ASSUME TInv, EInv, [Next]_vars, NEW w \in Workers, Begin(w)
  PROVE  JobEvidence'
<1>1. /\ rows \in SUBSET Txs
      /\ tx \in [Txs -> TxRecord]
      /\ job \in [Workers -> Job]
  BY DEF TInv, TypeOK
<1>2. JobEvidence
  BY DEF EInv
<1>3. Snapshot \in [Txs -> Seen]
  BY <1>1, ReadType DEF Snapshot
<1>4. CASE UploadCreate(w)
  <2> DEFINE j == [Idle EXCEPT !.op = "upload", !.step = "insert"]
  <2>1. j \in Job /\ HandlerEvidence(j) /\ j.step \notin Telling
    BY IdleType
    DEF Job, Idle, Operations, Steps, HandlerEvidence, Telling
  <2>2. job' = [job EXCEPT ![w] = j]
    BY <1>4 DEF UploadCreate, Start
  <2> HIDE DEF j
  <2> QED
    BY <1>2, <2>1, <2>2, EvidenceKept
<1>5. CASE StartProcess(w)
  <2> DEFINE j == [Idle EXCEPT !.op = "process", !.step = "mark"]
  <2>1. j \in Job /\ HandlerEvidence(j) /\ j.step \notin Telling
    BY IdleType
    DEF Job, Idle, Operations, Steps, HandlerEvidence, Telling
  <2>2. job' = [job EXCEPT ![w] = j]
    BY <1>5 DEF StartProcess, Start
  <2> HIDE DEF j
  <2> QED
    BY <1>2, <2>1, <2>2, EvidenceKept
<1>6. CASE StartRetry(w)
  <2> DEFINE j == [Idle EXCEPT !.op = "retry", !.step = "next",
                     !.todo = {t \in rows : tx[t].status \in Retryable},
                     !.seen = Snapshot]
  <2>1. j \in Job
    BY <1>1, <1>3, IdleType DEF Job, Operations, Steps
  <2>2. /\ j.step = "next"
        /\ \A t \in j.todo : t \in Txs /\ tx[t].status = "FAILED"
    BY <1>1 DEF Idle, Retryable
  <2>3. job' = [job EXCEPT ![w] = j]
    BY <1>6 DEF StartRetry, Start
  <2> HIDE DEF j
  <2>4. HandlerEvidence(j) /\ j.step \notin Telling
    BY <2>2 DEF HandlerEvidence, Telling, EInv, ProviderEvidence
  <2> QED
    BY <1>2, <2>1, <2>3, <2>4, EvidenceKept
<1>7. CASE StartReconcile(w)
  <2> DEFINE j == [Idle EXCEPT !.op = "reconcile", !.step = "next",
                     !.todo = {t \in rows : /\ tx[t].status \in Unresolved
                                            /\ Reference(tx[t]) # NoRef},
                     !.seen = Snapshot]
  <2>1. j \in Job
    BY <1>1, <1>3, IdleType DEF Job, Operations, Steps
  <2>2. j.step = "next" /\ j.op = "reconcile"
    BY DEF Idle
  <2>3. job' = [job EXCEPT ![w] = j]
    BY <1>7 DEF StartReconcile, Start
  <2> HIDE DEF j
  <2>4. HandlerEvidence(j) /\ j.step \notin Telling
    BY <2>2 DEF HandlerEvidence, Telling
  <2> QED
    BY <1>2, <2>1, <2>3, <2>4, EvidenceKept
<1>8. ASSUME NEW t \in Txs, NEW k \in Keys, StartWebhook(w, t, k)
      PROVE  JobEvidence'
  <2>1. PICK res \in Reportable(provider[t][k]), r \in {k, NoRef},
             step \in {"store", "post", "stats"} :
          /\ step = "post" => res = "SUCCESS"
          /\ Start(w, [Idle EXCEPT !.op = "webhook", !.step = step, !.cur = t,
                                   !.todo = {t}, !.seen[t] = Read(tx[t]),
                                   !.res = res, !.ptid = k, !.pref = r])
    BY <1>8 DEF StartWebhook
  <2> DEFINE j == [Idle EXCEPT !.op = "webhook", !.step = step, !.cur = t,
                               !.todo = {t}, !.seen[t] = Read(tx[t]),
                               !.res = res, !.ptid = k, !.pref = r]
  <2>2. /\ res = "SUCCESS" => provider[t][k] = "paid"
        /\ res = "FAILED"  => provider[t][k] = "failed"
    BY <2>1 DEF Reportable, Observed
  <2>3. /\ res = "SUCCESS" => Paid(t) # {}
        /\ res = "FAILED"  => Refused(t) # {}
    BY <2>2 DEF Paid, Refused
  <2>4. j \in Job
    <3>1. [Idle.seen EXCEPT ![t] = Read(tx[t])] \in [Txs -> Seen]
      BY <1>1, ReadType, IdleType DEF Job
    <3>2. res \in Outcome /\ r \in Refs /\ k \in Refs
      BY DEF Reportable, Observed, Outcome, Refs
    <3> QED
      BY <2>1, <3>1, <3>2, IdleType DEF Job, Operations, Steps
  <2>5. j.op = "webhook" /\ j.cur = t /\ j.step = step /\ j.res = res
    BY DEF Idle
  <2>6. job' = [job EXCEPT ![w] = j]
    BY <2>1 DEF Start
  <2> HIDE DEF j
  <2>7. HandlerEvidence(j)
    <3>1. j.step # "settle"
      BY <2>1, <2>5
    <3> QED
      BY <2>1, <2>3, <2>5, <3>1 DEF HandlerEvidence
  <2> QED
    BY <1>2, <2>4, <2>5, <2>6, <2>7, EvidenceKept
<1> QED
  BY <1>4, <1>5, <1>6, <1>7, <1>8 DEF Begin

\* The handlers that go on.
LEMMA EContinue ==
  ASSUME TInv, TInv', EInv, [Next]_vars, NEW w \in Workers, Continue(w)
  PROVE  JobEvidence'
<1>1. /\ job \in [Workers -> Job]
      /\ job[w] \in Job
      /\ job[w].step \in Busy => job[w].cur \in job[w].todo
      /\ job[w].step \in Busy => job[w].cur \in Txs
  BY DEF TInv, TypeOK, JobShape, Job
<1>2. JobEvidence /\ HandlerEvidence(job[w])
  BY DEF EInv, JobEvidence
<1>3. job' \in [Workers -> Job]
  BY DEF TInv, TypeOK
<1>4. CASE UploadInsert(w) \/ PublishStats(w)
  BY <1>2, <1>4, QuietIdle DEF UploadInsert, PublishStats
<1>5. CASE MarkProcessing(w)
  BY <1>2, <1>5, QuietGoto DEF MarkProcessing, Steps, Telling
<1>6. CASE RereadPosting(w)
  BY <1>2, <1>6, QuietGoto, QuietAdvance DEF RereadPosting, Steps, Telling
<1>7. CASE StampReconciled(w)
  BY <1>2, <1>7, QuietAdvance DEF StampReconciled
<1>8. CASE SettlePosting(w)
  BY <1>2, <1>8, QuietGoto, QuietAdvance DEF SettlePosting, Steps, Telling
<1>9. CASE EndLoop(w)
  BY <1>2, <1>9, QuietGoto, QuietIdle DEF EndLoop, Steps, Telling
<1>10. CASE ListClaimable(w)
  <2>1. /\ job'[w].step = "next" /\ job'[w].op = "process"
        /\ \A v \in Workers : v # w => job'[v] = job[v]
    BY <1>1, <1>10 DEF ListClaimable, At, Job
  <2>2. HandlerEvidence(job[w])'
    BY <2>1 DEF HandlerEvidence
  <2> QED
    BY <1>2, <2>1, <2>2, OthersKeep DEF JobEvidence
<1>11. ASSUME NEW t \in Txs, Claim(w, t)
       PROVE  JobEvidence'
  <2>1. /\ job'[w].step \notin Telling /\ job'[w].op = "process"
        /\ \A v \in Workers : v # w => job'[v] = job[v]
    BY <1>1, <1>11 DEF Claim, At, Job, Telling
  <2>2. HandlerEvidence(job[w])'
    BY <2>1 DEF HandlerEvidence, Telling
  <2> QED
    BY <1>2, <2>1, <2>2, OthersKeep DEF JobEvidence
<1>12. ASSUME NEW t \in Txs, MarkRetrying(w, t)
       PROVE  JobEvidence'
  <2> DEFINE j == [job[w] EXCEPT !.step = "call", !.cur = t]
  <2>1. j \in Job /\ job' = [job EXCEPT ![w] = j]
    BY <1>1, <1>12 DEF MarkRetrying, Job, Steps
  <2>2. j.step = "call" /\ j.todo = job[w].todo /\ j.op = job[w].op
    BY <1>1 DEF Job
  <2> HIDE DEF j
  <2> QED
    BY <1>2, <2>1, <2>2, QuietStep DEF Telling
<1>13. ASSUME NEW t \in Txs, QueryProvider(w, t)
       PROVE  JobEvidence'
  <2> DEFINE k == Reference(job[w].seen[t])
  <2>1. k \in Keys
    BY <1>1, <1>13
    DEF QueryProvider, At, TInv, JobShape, Job, Seen, Reference, Refs
  <2>2. PICK res \in {Observed(provider[t][k]), "UNKNOWN"} :
          job' = [job EXCEPT ![w].step = "store", ![w].cur = t,
                             ![w].res = res, ![w].pref = k]
    BY <1>13 DEF QueryProvider
  <2>3. /\ res = "SUCCESS" => Paid(t) # {}
        /\ res = "FAILED"  => Refused(t) # {}
        /\ res \in Outcome
    BY <2>1, <2>2 DEF Observed, Paid, Refused, Outcome
  <2> HIDE DEF k
  <2> DEFINE j == [job[w] EXCEPT !.step = "store", !.cur = t,
                                 !.res = res, !.pref = k]
  <2>4. j \in Job /\ job' = [job EXCEPT ![w] = j]
    BY <1>1, <2>1, <2>2, <2>3 DEF Job, Steps, Refs
  <2>5. j.step = "store" /\ j.cur = t /\ j.res = res /\ j.op = "reconcile"
    BY <1>1, <1>13 DEF Job, QueryProvider, At
  <2> HIDE DEF j
  <2>6. HandlerEvidence(j)
    BY <2>3, <2>5 DEF HandlerEvidence
  <2> QED
    BY <1>2, <2>4, <2>5, <2>6, EvidenceKept
<1>14. CASE Disburse(w)
  <2> DEFINE t == job[w].cur
             k == DisburseKey(w)
  <2>1. t \in Txs /\ k \in Keys
    BY <1>14, DisburseKeyType DEF Disburse
  <2>2. PICK res, ref :
          /\ Answer(w, res, ref)
          /\ res = "SUCCESS" => provider'[t][k] = "paid"
          /\ res = "FAILED"  => provider'[t][k] = "failed"
    <3>1. CASE Answer(w, "UNKNOWN", NoRef)
      BY <3>1
    <3>2. ASSUME NEW p \in {"pending", "paid", "failed", provider[t][k]},
                 provider' = [provider EXCEPT ![t][k] = p],
                 Answer(w, Observed(p), k)
          PROVE  /\ Answer(w, Observed(p), k)
                 /\ Observed(p) = "SUCCESS" => provider'[t][k] = "paid"
                 /\ Observed(p) = "FAILED"  => provider'[t][k] = "failed"
      <4>1. provider'[t][k] = p
        BY <2>1, <3>2 DEF TInv, TypeOK
      <4> QED
        BY <3>2, <4>1 DEF Observed
    <3> QED
      BY <1>14, <3>1, <3>2 DEF Disburse, NoAnswer
  <2>3. /\ job'[w] = [job[w] EXCEPT !.step = "store", !.res = res,
                                    !.ptid = ref, !.pref = ref]
        /\ \A v \in Workers : v # w => job'[v] = job[v]
    BY <1>1, <2>2 DEF Answer
  <2>4. /\ job'[w].step = "store" /\ job'[w].cur = t /\ job'[w].res = res
        /\ job'[w].op = job[w].op /\ job'[w].todo = job[w].todo
    BY <1>1, <2>3 DEF Job
  <2>5. /\ res = "SUCCESS" => Paid(job[w].cur)' # {}
        /\ res = "FAILED"  => Refused(job[w].cur)' # {}
    BY <2>1, <2>2, <2>4 DEF Paid, Refused
  <2>6. job[w].op = "retry" => \A u \in job[w].todo : Refused(u)' # {}
    BY <1>1, <1>2, Grows DEF HandlerEvidence, Job
  <2>7. HandlerEvidence(job[w])'
    BY <2>4, <2>5, <2>6 DEF HandlerEvidence
  <2> QED
    BY <1>2, <2>3, <2>7, OthersKeep DEF JobEvidence
<1>15. CASE StoreOutcome(w)
  <2>1. CASE job[w].res \notin Posts
    BY <1>2, <1>15, <2>1, QuietAdvance DEF StoreOutcome
  <2>2. CASE job[w].res \in Posts
    <3> DEFINE j == [job[w] EXCEPT !.step = "post"]
    <3>1. j \in Job /\ job' = [job EXCEPT ![w] = j]
      BY <1>1, <1>15, <2>2 DEF StoreOutcome, Goto, Job, Steps
    <3>2. /\ j.step = "post" /\ j.cur = job[w].cur /\ j.op = job[w].op
          /\ j.todo = job[w].todo
      BY <1>1 DEF Job
    <3> HIDE DEF j
    <3>3. HandlerEvidence(j) /\ j.cur \in Txs
      BY <1>1, <1>2, <1>15, <2>2, <3>2
      DEF StoreOutcome, HandlerEvidence, Posts, Busy
    <3> QED
      BY <1>2, <3>1, <3>3, EvidenceKept
  <2> QED
    BY <2>1, <2>2
<1>16. CASE Post(w)
  <2> DEFINE t == job[w].cur
  <2>1. t \in Txs
    BY <1>1, <1>16 DEF Post, Busy
  <2>2. PICK out :
          /\ job' = [job EXCEPT ![w].step = "settle", ![w].out = out]
          /\ out = "POSTED" => <<t, PostingKey(w)>> \in ledger'
    BY <1>16 DEF Post
  <2>3. /\ job'[w] = [job[w] EXCEPT !.step = "settle", !.out = out]
        /\ \A v \in Workers : v # w => job'[v] = job[v]
    BY <1>1, <2>2
  <2>4. /\ job'[w].step = "settle" /\ job'[w].cur = t /\ job'[w].out = out
        /\ job'[w].op = job[w].op /\ job'[w].todo = job[w].todo
    BY <1>1, <2>3 DEF Job
  <2>5. out = "POSTED" => Posted(job[w].cur)' # {}
    <3>1. 0 \in Keys /\ PostingKey(w) = 0
      BY PayrollAssumption DEF Keys, PostingKey
    <3>2. out = "POSTED" => 0 \in Posted(job[w].cur)'
      BY <2>2, <2>4, <3>1 DEF Posted
    <3> QED
      BY <3>2
  <2>6. Paid(job[w].cur)' # {}
    <3>1. Paid(job[w].cur) # {} /\ UNCHANGED provider
      BY <1>2, <1>16 DEF Post, HandlerEvidence
    <3> QED
      BY <2>4, <3>1 DEF Paid
  <2>7. job[w].op = "retry" => \A u \in job[w].todo : Refused(u)' # {}
    BY <1>1, <1>2, Grows DEF HandlerEvidence, Job
  <2>8. HandlerEvidence(job[w])'
    BY <2>4, <2>5, <2>6, <2>7 DEF HandlerEvidence
  <2> QED
    BY <1>2, <2>3, <2>8, OthersKeep DEF JobEvidence
<1>17. ASSUME \/ ReadStats(w) \/ ReadCount(w) \/ ReadFinals(w)
              \/ ReadPosteds(w)
       PROVE  JobEvidence'
  <2>1. PICK j \in Job : /\ job' = [job EXCEPT ![w] = j]
                         /\ j.step \notin Telling
                         /\ j.op = job[w].op /\ j.todo = job[w].todo
    <3>1. job' = [job EXCEPT ![w] = job'[w]]
      BY <1>1, <1>17 DEF ReadStats, ReadCount, ReadFinals, ReadPosteds
    <3>2. job'[w].step \in {"count", "finals", "posteds", "publish"}
      BY <1>1, <1>17 DEF ReadStats, ReadCount, ReadFinals, ReadPosteds, Job
    <3>3. job'[w].op = job[w].op /\ job'[w].todo = job[w].todo
      BY <1>1, <1>17 DEF ReadStats, ReadCount, ReadFinals, ReadPosteds, Job
    <3> QED
      BY <1>3, <3>1, <3>2, <3>3 DEF Telling
  <2> QED
    BY <1>2, <2>1, QuietStep
<1> QED
  BY <1>4, <1>5, <1>6, <1>7, <1>8, <1>9, <1>10, <1>11, <1>12, <1>13, <1>14,
     <1>15, <1>16, <1>17 DEF Continue

LEMMA EJob ==
  ASSUME TInv, TInv', EInv, [Next]_vars
  PROVE  JobEvidence'
<1>1. JobEvidence
  BY DEF EInv
<1>2. ASSUME NEW w \in Workers, Abort(w)
      PROVE  JobEvidence'
  BY <1>1, <1>2, QuietIdle DEF Abort
<1>3. CASE UNCHANGED job
  BY <1>1, <1>3, OthersKeep DEF JobEvidence
<1> QED
  BY <1>2, <1>3, EBegin, EContinue DEF Next, vars, ProviderDecides

\* Only an outcome that was stored changes a status to a final one.
LEMMA EProvider ==
  ASSUME TInv, EInv, [Next]_vars
  PROVE  ProviderEvidence'
<1>1. tx \in [Txs -> TxRecord] /\ job \in [Workers -> Job]
  BY DEF TInv, TypeOK
<1> SUFFICES ASSUME NEW t \in Txs
             PROVE  /\ tx'[t].status = "SUCCESS" => Paid(t)' # {}
                    /\ tx'[t].status = "FAILED"  => Refused(t)' # {}
  BY DEF ProviderEvidence, Paid, Refused
<1>2. /\ Paid(t) # {} => Paid(t)' # {}
      /\ Refused(t) # {} => Refused(t)' # {}
  BY Grows
<1>3. /\ tx[t].status = "SUCCESS" => Paid(t) # {}
      /\ tx[t].status = "FAILED"  => Refused(t) # {}
  BY DEF EInv, ProviderEvidence
<1>4. CASE tx'[t].status = tx[t].status
  BY <1>2, <1>3, <1>4
<1>5. ASSUME NEW w \in Workers, NEW u \in Txs,
             Claim(w, u) \/ MarkRetrying(w, u)
      PROVE  \/ tx'[t].status = tx[t].status
             \/ tx'[t].status \in {"PROCESSING", "RETRYING"}
  BY <1>1, <1>5 DEF Claim, MarkRetrying, TxRecord
<1>6. ASSUME NEW w \in Workers, SettlePosting(w) \/ StampReconciled(w)
      PROVE  tx'[t].status = tx[t].status
  <2>1. CASE SettlePosting(w)
    BY <1>1, <2>1 DEF SettlePosting, TxRecord
  <2>2. CASE StampReconciled(w)
    BY <1>1, <2>2 DEF StampReconciled, TxRecord
  <2> QED
    BY <1>6, <2>1, <2>2
<1>7. ASSUME NEW w \in Workers, StoreOutcome(w)
      PROVE  /\ tx'[t].status = "SUCCESS" => Paid(t)' # {}
             /\ tx'[t].status = "FAILED"  => Refused(t)' # {}
  <2>1. CASE t # job[w].cur
    BY <1>1, <1>4, <1>7, <2>1 DEF StoreOutcome
  <2>2. CASE t = job[w].cur
    <3>1. tx'[t].status = job[w].res
      BY <1>1, <1>7, <2>2 DEF StoreOutcome, Recorded, TxRecord
    <3>2. HandlerEvidence(job[w]) /\ job[w].step = "store"
      BY <1>7 DEF StoreOutcome, EInv, JobEvidence
    <3> QED
      BY <1>2, <2>2, <3>1, <3>2 DEF HandlerEvidence
  <2> QED
    BY <2>1, <2>2
<1> QED
  BY <1>4, <1>5, <1>6, <1>7, TxWrites

\* A transaction is marked POSTED by the handler whose posting was accepted;
\* a posting is made by a handler of a transaction that was paid.
LEMMA ELedger ==
  ASSUME TInv, EInv, [Next]_vars
  PROVE  LedgerEvidence' /\ OwnPostingKey'
<1>1. tx \in [Txs -> TxRecord] /\ job \in [Workers -> Job]
  BY DEF TInv, TypeOK
<1>2. ASSUME NEW t \in Txs
      PROVE  tx'[t].posting = "POSTED" => Posted(t)' # {}
  <2>1. Posted(t) # {} => Posted(t)' # {}
    BY Grows
  <2>2. tx[t].posting = "POSTED" => Posted(t) # {}
    BY DEF EInv, LedgerEvidence
  <2>3. ASSUME NEW w \in Workers, NEW u \in Txs,
               Claim(w, u) \/ MarkRetrying(w, u)
        PROVE  tx'[t].posting = tx[t].posting
    BY <1>1, <2>3 DEF Claim, MarkRetrying, TxRecord
  <2>4. ASSUME NEW w \in Workers, StampReconciled(w)
        PROVE  tx'[t].posting = tx[t].posting
    BY <1>1, <2>4 DEF StampReconciled, TxRecord
  <2>5. ASSUME NEW w \in Workers, StoreOutcome(w)
        PROVE  tx'[t].posting = tx[t].posting
    BY <1>1, <2>5 DEF StoreOutcome, Recorded, TxRecord
  <2>6. ASSUME NEW w \in Workers, SettlePosting(w)
        PROVE  \/ tx'[t].posting = tx[t].posting
               \/ tx'[t].posting = "POSTED" => Posted(t) # {}
    <3>1. HandlerEvidence(job[w]) /\ job[w].step = "settle"
      BY <2>6 DEF SettlePosting, EInv, JobEvidence
    <3>2. tx'[t].posting = IF t = job[w].cur THEN job[w].out
                           ELSE tx[t].posting
      BY <1>1, <2>6 DEF SettlePosting, TxRecord
    <3> QED
      BY <3>1, <3>2 DEF HandlerEvidence
  <2> QED
    BY <2>1, <2>2, <2>3, <2>4, <2>5, <2>6, TxWrites
<1>3. ASSUME NEW t \in Txs
      PROVE  /\ Posted(t)' # {} => Paid(t)' # {}
             /\ \A k \in Keys : <<t, k>> \in ledger' => k = 0
  <2>1. Paid(t) # {} => Paid(t)' # {}
    BY Grows
  <2>2. /\ Posted(t) # {} => Paid(t) # {}
        /\ \A k \in Keys : <<t, k>> \in ledger => k = 0
    BY DEF EInv, LedgerEvidence, OwnPostingKey
  <2>3. CASE UNCHANGED ledger
    BY <2>1, <2>2, <2>3 DEF Posted
  <2>4. ASSUME NEW w \in Workers, Post(w)
        PROVE  /\ Posted(t)' # {} => Paid(t)' # {}
               /\ \A k \in Keys : <<t, k>> \in ledger' => k = 0
    <3>1. HandlerEvidence(job[w]) /\ job[w].step = "post"
      BY <2>4 DEF Post, EInv, JobEvidence
    <3>2. \A k \in Keys : <<t, k>> \in ledger' =>
            <<t, k>> \in ledger \/ (t = job[w].cur /\ k = 0)
      BY <2>4 DEF Post, PostingKey
    <3>3. CASE t = job[w].cur
      BY <2>1, <2>2, <3>1, <3>2, <3>3 DEF HandlerEvidence
    <3>4. CASE t # job[w].cur
      BY <2>1, <2>2, <3>2, <3>4 DEF Posted
    <3> QED
      BY <3>3, <3>4
  <2> QED
    BY <2>3, <2>4, LedgerWrites
<1> QED
  BY <1>2, <1>3 DEF LedgerEvidence, OwnPostingKey

\* A key above 0 is sent by a retry, and a retry handles refused transactions.
LEMMA ERetry ==
  ASSUME TInv, EInv, [Next]_vars
  PROVE  RetryNeedsRefusal'
<1>1. submitted \in [Txs -> [Keys -> Nat]]
  BY DEF TInv, TypeOK
<1> SUFFICES ASSUME NEW t \in Txs, NEW k \in Keys,
                    k > 0, submitted'[t][k] > 0
             PROVE  Refused(t)' # {}
  BY DEF RetryNeedsRefusal, Refused
<1>2. Refused(t) # {} => Refused(t)' # {}
  BY Grows
<1>3. submitted[t][k] > 0 => Refused(t) # {}
  BY DEF EInv, RetryNeedsRefusal
<1>4. ASSUME NEW w \in Workers, Disburse(w), submitted'[t][k] # submitted[t][k]
      PROVE  Refused(t) # {}
  <2>1. t = job[w].cur /\ k = DisburseKey(w)
    <3>1. submitted' = [submitted EXCEPT ![job[w].cur][DisburseKey(w)] = @ + 1]
      BY <1>4 DEF Disburse
    <3> QED
      BY <1>1, <1>4, <3>1
  <2>2. job[w].op = "retry"
    BY <2>1 DEF DisburseKey
  <2>3. t \in job[w].todo
    BY <1>4, <2>1 DEF Disburse, TInv, JobShape, Busy
  <2> QED
    BY <2>2, <2>3 DEF EInv, JobEvidence, HandlerEvidence
<1> QED
  BY <1>2, <1>3, <1>4, ProviderWrites

LEMMA EInit == Init => EInv
<1> SUFFICES ASSUME Init PROVE EInv
  OBVIOUS
<1>1. JobEvidence
  BY DEF Init, JobEvidence, HandlerEvidence, Idle
<1>2. \A t \in Txs : tx[t].status = "PENDING" /\ tx[t].posting = "PENDING"
  BY DEF Init, NewTx
<1>3. ProviderEvidence
  BY <1>2 DEF ProviderEvidence
<1>4. LedgerEvidence /\ OwnPostingKey
  BY <1>2 DEF Init, LedgerEvidence, OwnPostingKey, Posted
<1>5. RetryNeedsRefusal
  BY DEF Init, RetryNeedsRefusal
<1> QED
  BY <1>1, <1>3, <1>4, <1>5 DEF EInv

LEMMA EvidenceInvariant == Spec => []EInv
<1>1. TInv /\ TInv' /\ EInv /\ [Next]_vars => EInv'
  BY EJob, EProvider, ELedger, ERetry DEF EInv
<1> QED
  BY <1>1, EInit, TypesInvariant, PTL DEF Spec

\* Whatever handlers, callbacks and crashes interleave, a final status is
\* backed by the provider (normalizeStatus and the outcomes stored from it).
THEOREM FinalStatusIsEvidence == Spec => []ProviderEvidence
<1>1. EInv => ProviderEvidence
  BY DEF EInv
<1> QED
  BY <1>1, EvidenceInvariant, PTL

\* The ledger follows the money (finalizeFinancialPosting and its callers).
THEOREM LedgerFollowsMoney == Spec => []LedgerEvidence
<1>1. EInv => LedgerEvidence
  BY DEF EInv
<1> QED
  BY <1>1, EvidenceInvariant, PTL

\* A retry is sent only for a transaction the provider has refused once.
THEOREM RetryFollowsRefusal == Spec => []RetryNeedsRefusal
<1>1. EInv => RetryNeedsRefusal
  BY DEF EInv
<1> QED
  BY <1>1, EvidenceInvariant, PTL

-----------------------------------------------------------------------------
(* Sending once.                                                           *)

\* With or without an answer, the handler goes on to store the outcome.
LEMMA DisburseAnswers ==
  ASSUME TInv, NEW w \in Workers, Disburse(w)
  PROVE  job'[w].step = "store"
<1>1. PICK res, ref : Answer(w, res, ref)
  BY DEF Disburse
<1> QED
  BY <1>1 DEF Answer, TInv, TypeOK, Job

\* A step moves one handler; the others stay where they are.
LEMMA OneMoves ==
  ASSUME TInv, [Next]_vars, NEW w \in Workers
  PROVE  job'[w] = job[w] \/ Begin(w) \/ Continue(w) \/ Abort(w)
<1>1. job \in [Workers -> Job]
  BY DEF TInv, TypeOK
<1>2. ASSUME NEW v \in Workers, v # w, Begin(v)
      PROVE  job'[w] = job[w]
  <2>1. ASSUME NEW t \in Txs, NEW k \in Keys, StartWebhook(v, t, k)
        PROVE  \E j : Start(v, j)
    BY <2>1 DEF StartWebhook
  <2>2. PICK j : Start(v, j)
    BY <1>2, <2>1
    DEF Begin, UploadCreate, StartProcess, StartRetry, StartReconcile
  <2> QED
    BY <1>1, <1>2, <2>2 DEF Start
<1>3. ASSUME NEW v \in Workers, v # w, Continue(v)
      PROVE  job'[w] = job[w]
  <2>1. ASSUME NEW t \in Txs,
               Claim(v, t) \/ MarkRetrying(v, t) \/ QueryProvider(v, t)
        PROVE  job'[w] = job[w]
    BY <1>1, <1>3, <2>1 DEF Claim, MarkRetrying, QueryProvider
  <2>2. CASE \/ UploadInsert(v) \/ MarkProcessing(v) \/ ListClaimable(v)
             \/ Disburse(v) \/ StoreOutcome(v) \/ Post(v)
    BY <1>1, <1>3, <2>2 DEF UploadInsert, MarkProcessing, ListClaimable,
       Disburse, Answer, StoreOutcome, Post, Goto, Advance
  <2>3. CASE \/ SettlePosting(v) \/ RereadPosting(v) \/ StampReconciled(v)
             \/ EndLoop(v) \/ ReadStats(v) \/ ReadCount(v)
             \/ ReadFinals(v) \/ ReadPosteds(v) \/ PublishStats(v)
    BY <1>1, <1>3, <2>3 DEF SettlePosting, RereadPosting, StampReconciled,
       EndLoop, ReadStats, ReadCount, ReadFinals, ReadPosteds,
       PublishStats, Goto, Advance
  <2> QED
    BY <1>3, <2>1, <2>2, <2>3 DEF Continue
<1>4. ASSUME NEW v \in Workers, v # w, Abort(v)
      PROVE  job'[w] = job[w]
  BY <1>1, <1>4 DEF Abort
<1> QED
  BY <1>2, <1>3, <1>4 DEF Next, vars, ProviderDecides

\* A handler that starts does not begin with a call.
LEMMA BeginsElsewhere ==
  ASSUME TInv, NEW w \in Workers, Begin(w)
  PROVE  job'[w].step \in {"insert", "mark", "next", "store", "post", "stats"}
<1>1. job \in [Workers -> Job]
  BY DEF TInv, TypeOK
<1>2. CASE UploadCreate(w) \/ StartProcess(w)
  BY <1>1, <1>2 DEF UploadCreate, StartProcess, Start, Idle
<1>3. CASE StartRetry(w) \/ StartReconcile(w)
  BY <1>1, <1>3 DEF StartRetry, StartReconcile, Start, Idle
<1>4. ASSUME NEW t \in Txs, NEW k \in Keys, StartWebhook(w, t, k)
      PROVE  job'[w].step \in {"store", "post", "stats"}
  BY <1>1, <1>4 DEF StartWebhook, Start, Idle
<1> QED
  BY <1>2, <1>3, <1>4 DEF Begin

\* Where a handler that goes on comes to, other than by a claim or a retry.
LEMMA ContinuesElsewhere ==
  ASSUME TInv, NEW w \in Workers, Continue(w),
         ~ \E t \in Txs : Claim(w, t) \/ MarkRetrying(w, t)
  PROVE  job'[w].step # "call"
<1>1. job \in [Workers -> Job] /\ job[w] \in Job
  BY DEF TInv, TypeOK
<1>2. ASSUME NEW step \in Steps \ {"call"}, Goto(w, step)
      PROVE  job'[w].step # "call"
  BY <1>1, <1>2 DEF Goto, Job
<1>3. ASSUME Advance(w) PROVE job'[w].step # "call"
  BY <1>1, <1>3 DEF Advance, Job
<1>4. ASSUME job' = [job EXCEPT ![w] = Idle] PROVE job'[w].step # "call"
  BY <1>1, <1>4 DEF Idle
<1>5. CASE UploadInsert(w) \/ PublishStats(w)
  BY <1>4, <1>5 DEF UploadInsert, PublishStats
<1>6. CASE \/ MarkProcessing(w) \/ StoreOutcome(w) \/ SettlePosting(w)
           \/ RereadPosting(w) \/ StampReconciled(w) \/ EndLoop(w)
  BY <1>2, <1>3, <1>4, <1>6
  DEF MarkProcessing, StoreOutcome, SettlePosting, RereadPosting,
      StampReconciled, EndLoop, Steps
<1>7. CASE ListClaimable(w) \/ Disburse(w) \/ Post(w)
  BY <1>1, <1>7, DisburseAnswers DEF ListClaimable, Post, Job
<1>8. CASE ReadStats(w) \/ ReadCount(w) \/ ReadFinals(w) \/ ReadPosteds(w)
  BY <1>1, <1>8 DEF ReadStats, ReadCount, ReadFinals, ReadPosteds, Job
<1>9. ASSUME NEW t \in Txs, QueryProvider(w, t)
      PROVE  job'[w].step # "call"
  BY <1>1, <1>9 DEF QueryProvider, Job
<1> QED
  BY <1>5, <1>6, <1>7, <1>8, <1>9 DEF Continue

\* Who comes to a call: the handler that has claimed the transaction, or
\* retries it.
LEMMA NewCall ==
  ASSUME TInv, [Next]_vars, NEW w \in Workers, NEW t \in Txs, Calling(w, t)'
  PROVE  Calling(w, t) \/ Claim(w, t) \/ MarkRetrying(w, t)
<1>1. job \in [Workers -> Job] /\ job[w] \in Job
  BY DEF TInv, TypeOK
<1>2. job'[w].step = "call" /\ job'[w].cur = t
  BY DEF Calling
<1>3. CASE job'[w] = job[w]
  BY <1>3 DEF Calling
<1>4. ASSUME NEW u \in Txs, Claim(w, u) \/ MarkRetrying(w, u)
      PROVE  u = t
  BY <1>1, <1>2, <1>4 DEF Claim, MarkRetrying, At, Job
<1>5. ~Abort(w)
  BY <1>1, <1>2 DEF Abort, Idle
<1> QED
  BY <1>2, <1>3, <1>4, <1>5, OneMoves, BeginsElsewhere, ContinuesElsewhere

LEMMA SInit == Init => SInv
<1> SUFFICES ASSUME Init PROVE SInv
  OBVIOUS
<1>1. \A w \in Workers : job[w].step = "idle"
  BY DEF Init, Idle
<1>2. 0 \in Keys /\ \A t \in Txs, k \in Keys : submitted[t][k] = 0
  BY PayrollAssumption DEF Init, Keys
<1> QED
  BY <1>1, <1>2 DEF SInv, SubmittedOnce, Calling

\* Only what was refused is retried.
LEMMA RetryOfRefused ==
  ASSUME TInv, EInv, NEW w \in Workers, NEW t \in Txs, Refused(t) = {}
  PROVE  /\ ~MarkRetrying(w, t)
         /\ Calling(w, t) => job[w].op # "retry"
<1>1. job[w].op = "retry" => t \notin job[w].todo
  BY DEF EInv, JobEvidence, HandlerEvidence
<1>2. Calling(w, t) => t \in job[w].todo
  BY DEF Calling, TInv, JobShape, Busy
<1> QED
  BY <1>1, <1>2 DEF MarkRetrying, At

\* A transaction of which no payment was refused does not become claimable
\* again: only FAILED becomes RETRYING.
LEMMA ClaimedForGood ==
  ASSUME TInv, EInv, [Next]_vars, NEW t \in Txs, Refused(t) = {},
         tx'[t].status \in Claimable
  PROVE  tx[t].status \in Claimable
<1>1. tx \in [Txs -> TxRecord] /\ job \in [Workers -> Job]
  BY DEF TInv, TypeOK
<1> SUFFICES \/ tx'[t].status = tx[t].status
             \/ tx'[t].status \in Outcome \cup {"PROCESSING"}
  BY DEF Claimable, Outcome
<1>2. ASSUME NEW w \in Workers, NEW u \in Txs, Claim(w, u)
      PROVE  \/ tx'[t].status = tx[t].status
             \/ tx'[t].status = "PROCESSING"
  BY <1>1, <1>2 DEF Claim, TxRecord
<1>3. ASSUME NEW w \in Workers, NEW u \in Txs, MarkRetrying(w, u)
      PROVE  tx'[t].status = tx[t].status
  <2>1. t # u
    BY <1>3, RetryOfRefused
  <2> QED
    BY <1>1, <1>3, <2>1 DEF MarkRetrying
<1>4. ASSUME NEW w \in Workers, StoreOutcome(w)
      PROVE  \/ tx'[t].status = tx[t].status
             \/ tx'[t].status \in Outcome
  <2>1. job[w].res \in Outcome
    BY <1>1 DEF Job
  <2> QED
    BY <1>1, <1>4, <2>1 DEF StoreOutcome, Recorded, TxRecord
<1>5. ASSUME NEW w \in Workers, SettlePosting(w)
      PROVE  tx'[t].status = tx[t].status
  BY <1>1, <1>5 DEF SettlePosting, TxRecord
<1>6. ASSUME NEW w \in Workers, StampReconciled(w)
      PROVE  tx'[t].status = tx[t].status
  BY <1>1, <1>6 DEF StampReconciled, TxRecord
<1> QED
  BY <1>2, <1>3, <1>4, <1>5, <1>6, TxWrites

\* A transaction of which no payment was refused is sent under its own key, by
\* the handler that is about to send it.
LEMMA SentByCaller ==
  ASSUME TInv, EInv, [Next]_vars, NEW t \in Txs, Refused(t) = {},
         NEW k \in Keys
  PROVE  \/ submitted'[t][k] = submitted[t][k]
         \/ /\ k = 0 /\ submitted'[t][k] = submitted[t][k] + 1
            /\ \E w \in Workers : Calling(w, t) /\ ~Calling(w, t)'
<1>1. submitted \in [Txs -> [Keys -> Nat]]
  BY DEF TInv, TypeOK
<1> SUFFICES ASSUME NEW w \in Workers, Disburse(w)
             PROVE  \/ submitted'[t][k] = submitted[t][k]
                    \/ /\ k = 0 /\ submitted'[t][k] = submitted[t][k] + 1
                       /\ Calling(w, t) /\ ~Calling(w, t)'
  BY ProviderWrites
<1>2. job[w].step = "call" /\ job'[w].step = "store"
  BY DisburseAnswers DEF Disburse
<1>3. \/ UNCHANGED submitted
      \/ submitted' = [submitted EXCEPT ![job[w].cur][DisburseKey(w)] = @ + 1]
  BY DEF Disburse
<1>4. CASE job[w].cur = t
  <2>1. DisburseKey(w) = 0
    BY <1>2, <1>4, RetryOfRefused DEF Calling, DisburseKey
  <2> QED
    BY <1>1, <1>2, <1>3, <1>4, <2>1 DEF Calling
<1>5. CASE job[w].cur # t
  BY <1>1, <1>3, <1>5
<1> QED
  BY <1>4, <1>5

\* Claiming is exclusive: it takes the transaction out of the claimable ones.
LEMMA SStep ==
  ASSUME TInv, EInv, SInv, [Next]_vars
  PROVE  SInv'
<1>1. /\ tx \in [Txs -> TxRecord]
      /\ job \in [Workers -> Job]
      /\ submitted \in [Txs -> [Keys -> Nat]]
      /\ 0 \in Keys
  BY PayrollAssumption DEF TInv, TypeOK, Keys
<1> SUFFICES ASSUME NEW t \in Txs, Refused(t)' = {}
             PROVE  /\ tx'[t].status \in Claimable =>
                         /\ submitted'[t][0] = 0
                         /\ \A w \in Workers : ~Calling(w, t)'
                    /\ \A w \in Workers : Calling(w, t)' =>
                         /\ submitted'[t][0] = 0
                         /\ \A v \in Workers : Calling(v, t)' => v = w
                    /\ \A k \in Keys : submitted'[t][k] <= 1
  BY DEF SInv, SubmittedOnce, Calling, Refused
<1>2. Refused(t) = {}
  BY Grows
<1>3. \A w \in Workers : Calling(w, t)' => Calling(w, t) \/ Claim(w, t)
  BY <1>2, NewCall, RetryOfRefused
<1>4. tx'[t].status \in Claimable => tx[t].status \in Claimable
  BY <1>2, ClaimedForGood
<1>5. ASSUME NEW w \in Workers, Claim(w, t), Calling(w, t)'
      PROVE  tx[t].status \in Claimable /\ tx'[t].status \notin Claimable
  BY <1>1, <1>5 DEF Claim, At, Calling, Job, TxRecord, Claimable
<1>6. \A k \in Keys :
        \/ submitted'[t][k] = submitted[t][k]
        \/ /\ k = 0 /\ submitted'[t][k] = submitted[t][k] + 1
           /\ \E w \in Workers : Calling(w, t) /\ ~Calling(w, t)'
  BY <1>2, SentByCaller
<1>7. ASSUME tx'[t].status \in Claimable
      PROVE  submitted'[t][0] = 0 /\ \A w \in Workers : ~Calling(w, t)'
  <2>1. submitted[t][0] = 0 /\ \A w \in Workers : ~Calling(w, t)
    BY <1>2, <1>4, <1>7 DEF SInv
  <2> QED
    BY <1>1, <1>3, <1>5, <1>6, <1>7, <2>1
<1>8. ASSUME NEW w \in Workers, Calling(w, t)'
      PROVE  /\ submitted'[t][0] = 0
             /\ \A v \in Workers : Calling(v, t)' => v = w
  <2>1. CASE Calling(w, t)
    <3>1. /\ submitted[t][0] = 0
          /\ \A v \in Workers : Calling(v, t) => v = w
      BY <1>2, <2>1 DEF SInv
    <3>2. tx[t].status \notin Claimable
      BY <1>2, <2>1 DEF SInv
    <3> QED
      BY <1>1, <1>3, <1>5, <1>6, <1>8, <3>1, <3>2
  <2>2. CASE Claim(w, t)
    <3>1. /\ submitted[t][0] = 0
          /\ \A v \in Workers : ~Calling(v, t)
      BY <1>2, <1>5, <1>8, <2>2 DEF SInv
    <3>2. \A v \in Workers : v # w => ~Calling(v, t)'
      <4>1. \A v \in Workers : v # w => job'[v] = job[v]
        BY <1>1, <2>2 DEF Claim
      <4> QED
        BY <3>1, <4>1 DEF Calling
    <3> QED
      BY <1>1, <1>6, <3>1, <3>2
  <2> QED
    BY <1>3, <1>8, <2>1, <2>2
<1>9. ASSUME NEW k \in Keys
      PROVE  submitted'[t][k] <= 1
  <2>1. submitted[t][k] <= 1
    BY <1>2 DEF SInv, SubmittedOnce
  <2>2. ASSUME NEW w \in Workers, Calling(w, t), k = 0,
               submitted'[t][k] = submitted[t][k] + 1
        PROVE  submitted'[t][k] <= 1
    BY <1>1, <1>2, <2>2 DEF SInv
  <2> QED
    BY <1>6, <2>1, <2>2
<1> QED
  BY <1>7, <1>8, <1>9

\* Until the provider refuses a payment of it, a transaction is sent at most
\* once: the conditional claim of processBatch is enough, for any number of
\* handlers on the same batch, wherever they die and whoever retries.
THEOREM SentOnce == Spec => []SubmittedOnce
<1>1. TInv /\ EInv /\ SInv /\ [Next]_vars => SInv'
  BY SStep
<1>2. Init => SInv
  BY SInit
<1>3. SInv => SubmittedOnce
  BY DEF SInv
<1> QED
  BY <1>1, <1>2, <1>3, TypesInvariant, EvidenceInvariant, PTL DEF Spec

-----------------------------------------------------------------------------
(* The promise: every step of the handlers is a step of PayrollPromise, or *)
(* changes nothing it speaks of.                                           *)

\* A payment the provider holds was sent.
HeldWasSent ==
  \A t \in Txs, k \in Keys : provider[t][k] # "none" => submitted[t][k] > 0

\* What the promise sees of the transactions and of the ledger.
Reports   == [t \in Txs |-> Told(t)]
Postings  == [t \in Txs |-> Posted(t)]
Confirmed == {t \in Txs : tx[t].posting = "POSTED"}
View      == <<provider, Reports, Postings, Confirmed>>

LEMMA ViewStutters == UNCHANGED View => UNCHANGED Promise!vars
BY DEF View, Reports, Postings, Confirmed, Promise!vars

\* What a step leaves alone in the state it leaves alone in the promise.
LEMMA ViewFollows ==
  /\ UNCHANGED tx => UNCHANGED <<Reports, Confirmed>>
  /\ UNCHANGED ledger => UNCHANGED Postings
BY DEF Reports, Confirmed, Postings, Told, Posted

\* One transaction is written: only what is told and confirmed of it changes.
LEMMA ViewOfWrite ==
  ASSUME TInv, NEW t \in Txs, NEW r \in TxRecord, tx' = [tx EXCEPT ![t] = r]
  PROVE  /\ \E word \in {"open", "success", "failed"} :
              /\ Reports' = [Reports EXCEPT ![t] = word]
              /\ word = "success" => r.status = "SUCCESS"
              /\ word = "failed"  => r.status = "FAILED"
         /\ r.status = tx[t].status => UNCHANGED Reports
         /\ Confirmed' = IF r.posting = "POSTED" THEN Confirmed \cup {t}
                         ELSE Confirmed \ {t}
         /\ r.posting = tx[t].posting => UNCHANGED Confirmed
<1>1. tx \in [Txs -> TxRecord]
  BY DEF TInv, TypeOK
<1>2. \A u \in Txs : tx'[u] = IF u = t THEN r ELSE tx[u]
  BY <1>1
<1> DEFINE word == CASE r.status = "SUCCESS" -> "success"
                     [] r.status = "FAILED"  -> "failed"
                     [] OTHER                -> "open"
<1>3. \A u \in Txs : Told(u)' = IF u = t THEN word ELSE Told(u)
  BY <1>2 DEF Told
<1>4. Reports' = [Reports EXCEPT ![t] = word]
  BY <1>3 DEF Reports
<1>5. /\ word \in {"open", "success", "failed"}
      /\ word = "success" => r.status = "SUCCESS"
      /\ word = "failed"  => r.status = "FAILED"
  OBVIOUS
<1>6. ASSUME r.status = tx[t].status
      PROVE  UNCHANGED Reports
  <2>1. word = Told(t)
    BY <1>6 DEF Told
  <2> QED
    BY <1>3, <2>1 DEF Reports
<1>7. Confirmed' = IF r.posting = "POSTED" THEN Confirmed \cup {t}
                   ELSE Confirmed \ {t}
  BY <1>2 DEF Confirmed
<1>8. r.posting = tx[t].posting => UNCHANGED Confirmed
  BY <1>2 DEF Confirmed
<1> HIDE DEF word
<1> QED
  BY <1>4, <1>5, <1>6, <1>7, <1>8

LEMMA HeldInit == Init => HeldWasSent
BY DEF Init, HeldWasSent

LEMMA HeldStep ==
  ASSUME TInv, HeldWasSent, [Next]_vars
  PROVE  HeldWasSent'
<1>1. /\ provider \in [Txs -> [Keys -> ProviderState]]
      /\ submitted \in [Txs -> [Keys -> Nat]]
  BY DEF TInv, TypeOK
<1> SUFFICES ASSUME NEW t \in Txs, NEW k \in Keys, provider'[t][k] # "none"
             PROVE  submitted'[t][k] > 0
  BY DEF HeldWasSent
<1>2. provider[t][k] # "none" => submitted[t][k] > 0
  BY DEF HeldWasSent
<1>3. ASSUME NEW w \in Workers, Disburse(w)
      PROVE  submitted'[t][k] > 0
  <2> DEFINE u == job[w].cur
             l == DisburseKey(w)
  <2>1. u \in Txs /\ l \in Keys
    BY <1>3, DisburseKeyType DEF Disburse
  <2>2. \/ UNCHANGED <<provider, submitted>>
        \/ /\ \E p : provider' = [provider EXCEPT ![u][l] = p]
           /\ submitted' = [submitted EXCEPT ![u][l] = @ + 1]
    BY <1>3 DEF Disburse
  <2> HIDE DEF u, l
  <2> QED
    BY <1>1, <1>2, <2>1, <2>2
<1>4. ASSUME NEW u \in Txs, NEW l \in Keys, ProviderDecides(u, l)
      PROVE  provider[t][k] # "none" /\ submitted' = submitted
  BY <1>1, <1>4 DEF ProviderDecides
<1> QED
  BY <1>2, <1>3, <1>4, ProviderWrites

\* The payment a handler asks for is the first one, or one of the payments of
\* the transaction has been refused.
LEMMA FirstOrRefused ==
  ASSUME TInv, EInv, SInv, HeldWasSent,
         NEW w \in Workers, NEW t \in Txs, Calling(w, t), Refused(t) = {}
  PROVE  \A k \in Keys : provider[t][k] = "none"
<1>1. submitted[t][0] = 0
  BY DEF SInv
<1>2. \A k \in Keys : k > 0 => ~(submitted[t][k] > 0)
  BY DEF EInv, RetryNeedsRefusal
<1>3. \A k \in Keys : ~(submitted[t][k] > 0)
  BY <1>1, <1>2 DEF Keys
<1> QED
  BY <1>3 DEF HeldWasSent

LEMMA DisburseAsks ==
  ASSUME TInv, EInv, SInv, HeldWasSent, NEW w \in Workers, Disburse(w)
  PROVE  [Promise!Next]_(Promise!vars)
<1> DEFINE t == job[w].cur
           k == DisburseKey(w)
<1>1. t \in Txs /\ k \in Keys
  BY DisburseKeyType DEF Disburse
<1>2. provider \in [Txs -> [Keys -> ProviderState]]
  BY DEF TInv, TypeOK
<1>3. UNCHANGED <<Reports, Postings, Confirmed>>
  BY ViewFollows DEF Disburse
<1>4. Calling(w, t)
  BY DEF Disburse, Calling
<1>5. \/ UNCHANGED provider
      \/ \E p \in IF provider[t][k] = "none"
                  THEN {"pending", "paid", "failed"}
                  ELSE {provider[t][k]} :
           provider' = [provider EXCEPT ![t][k] = p]
  BY DEF Disburse
<1> HIDE DEF t, k
<1>6. CASE UNCHANGED provider
  BY <1>3, <1>6, ViewStutters DEF View
<1>7. CASE /\ provider[t][k] = "none"
           /\ \E p \in {"pending", "paid", "failed"} :
                provider' = [provider EXCEPT ![t][k] = p]
  <2>1. Promise!Has(t, "failed") \/ \A l \in Keys : provider[t][l] = "none"
    BY <1>1, <1>4, FirstOrRefused DEF Refused, Promise!Has
  <2>2. \E p \in Promise!Holding \ {"none"} :
          provider' = [provider EXCEPT ![t][k] = p]
    BY <1>7 DEF Promise!Holding
  <2>3. Promise!Ask(t, k)
    BY <1>3, <1>7, <2>1, <2>2
    DEF Promise!Ask, Reports, Postings, Confirmed
  <2> QED
    BY <1>1, <2>3 DEF Promise!Next
<1>8. CASE /\ provider[t][k] # "none"
           /\ provider' = [provider EXCEPT ![t][k] = provider[t][k]]
  <2>1. UNCHANGED provider
    BY <1>1, <1>2, <1>8
  <2> QED
    BY <1>6, <2>1
<1> QED
  BY <1>5, <1>6, <1>7, <1>8

LEMMA ProviderDecidesIsDecide ==
  ASSUME NEW t \in Txs, NEW k \in Keys, ProviderDecides(t, k)
  PROVE  Promise!Next
<1>1. UNCHANGED <<Reports, Postings, Confirmed>>
  BY ViewFollows DEF ProviderDecides
<1>2. Promise!Decide(t, k)
  BY <1>1 DEF ProviderDecides, Promise!Decide, Reports, Postings, Confirmed
<1> QED
  BY <1>2 DEF Promise!Next

\* What a handler writes of an outcome is a report the money justifies.
LEMMA WrittenReport ==
  ASSUME TInv, NEW t \in Txs, NEW r \in TxRecord,
         tx' = [tx EXCEPT ![t] = r], r.posting = tx[t].posting,
         UNCHANGED <<provider, ledger>>,
         r.status = "SUCCESS" => Paid(t) # {},
         r.status = "FAILED"  => Refused(t) # {}
  PROVE  Promise!Next
<1>1. UNCHANGED <<Postings, Confirmed>>
  BY ViewFollows, ViewOfWrite
<1>2. PICK word \in {"open", "success", "failed"} :
        /\ Reports' = [Reports EXCEPT ![t] = word]
        /\ word = "success" => Paid(t) # {}
        /\ word = "failed"  => Refused(t) # {}
  BY ViewOfWrite
<1>3. Promise!Report(t, word)
  BY <1>1, <1>2
  DEF Promise!Report, Promise!Has, Paid, Refused, Reports, Postings, Confirmed
<1> QED
  BY <1>2, <1>3 DEF Promise!Next

LEMMA ClaimReportsOpen ==
  ASSUME TInv, NEW w \in Workers, NEW t \in Txs,
         Claim(w, t) \/ MarkRetrying(w, t)
  PROVE  [Promise!Next]_(Promise!vars)
<1>1. tx \in [Txs -> TxRecord]
  BY DEF TInv, TypeOK
<1>2. UNCHANGED <<provider, ledger>>
  BY DEF Claim, MarkRetrying
<1>3. CASE UNCHANGED tx
  BY <1>2, <1>3, ViewFollows, ViewStutters DEF View
<1>4. ASSUME NEW status \in {"PROCESSING", "RETRYING"},
             tx' = [tx EXCEPT ![t].status = status, ![t].attempt = @ + 1]
      PROVE  Promise!Next
  <2> DEFINE r == [tx[t] EXCEPT !.status = status, !.attempt = @ + 1]
  <2>1. /\ r \in TxRecord /\ tx' = [tx EXCEPT ![t] = r]
        /\ r.posting = tx[t].posting /\ r.status = status
    BY <1>1, <1>4 DEF TxRecord, TRANSACTION_STATUS
  <2> HIDE DEF r
  <2> QED
    BY <1>2, <2>1, WrittenReport
<1> QED
  BY <1>3, <1>4 DEF Claim, MarkRetrying

LEMMA StoreReports ==
  ASSUME TInv, TInv', EInv, NEW w \in Workers, StoreOutcome(w)
  PROVE  Promise!Next
<1> DEFINE t == job[w].cur
           r == Recorded(w, tx[t])
<1>1. tx \in [Txs -> TxRecord] /\ tx' \in [Txs -> TxRecord]
  BY DEF TInv, TypeOK
<1>2. t \in Txs
  BY DEF StoreOutcome, TInv, TypeOK, JobShape, Busy, Job
<1>3. tx' = [tx EXCEPT ![t] = r] /\ UNCHANGED <<provider, ledger>>
  BY DEF StoreOutcome
<1>4. r \in TxRecord
  BY <1>1, <1>2, <1>3
<1>5. r.status = job[w].res /\ r.posting = tx[t].posting
  BY <1>1, <1>2 DEF Recorded, TxRecord
<1>6. /\ job[w].res = "SUCCESS" => Paid(t) # {}
      /\ job[w].res = "FAILED"  => Refused(t) # {}
  BY DEF StoreOutcome, EInv, JobEvidence, HandlerEvidence
<1> HIDE DEF t, r
<1> QED
  BY <1>2, <1>3, <1>4, <1>5, <1>6, WrittenReport

\* The ledger takes one posting of a transaction: a second one carries the
\* same key.
LEMMA PostPosts ==
  ASSUME TInv, EInv, NEW w \in Workers, Post(w)
  PROVE  [Promise!Next]_(Promise!vars)
<1> DEFINE t == job[w].cur
<1>1. t \in Txs
  BY DEF Post, TInv, TypeOK, JobShape, Busy, Job
<1>2. UNCHANGED provider /\ UNCHANGED <<Reports, Confirmed>>
  BY ViewFollows DEF Post
<1>3. 0 \in Keys /\ Paid(t) # {}
  BY PayrollAssumption
  DEF Keys, Post, EInv, JobEvidence, HandlerEvidence
<1>4. UNCHANGED ledger \/ ledger' = ledger \cup {<<t, 0>>}
  BY DEF Post, PostingKey
<1> HIDE DEF t
<1>5. CASE UNCHANGED ledger
  BY <1>2, <1>5, ViewFollows, ViewStutters DEF View
<1>6. CASE ledger' = ledger \cup {<<t, 0>>} /\ Posted(t) # {}
  <2>1. <<t, 0>> \in ledger
    BY <1>1, <1>6 DEF Posted, EInv, OwnPostingKey
  <2> QED
    BY <1>5, <1>6, <2>1
<1>7. CASE ledger' = ledger \cup {<<t, 0>>} /\ Posted(t) = {}
  <2>1. \A u \in Txs : Posted(u)' = IF u = t THEN {0} ELSE Posted(u)
    BY <1>3, <1>7 DEF Posted
  <2>2. Postings' = [Postings EXCEPT ![t] = {0}] /\ Postings[t] = {}
    BY <1>1, <1>7, <2>1 DEF Postings
  <2>3. Promise!Post(t, 0)
    BY <1>2, <1>3, <2>2
    DEF Promise!Post, Promise!Has, Paid, Reports, Postings, Confirmed
  <2> QED
    BY <1>1, <1>3, <2>3 DEF Promise!Next
<1> QED
  BY <1>4, <1>5, <1>6, <1>7

LEMMA SettleConfirms ==
  ASSUME TInv, TInv', EInv, NEW w \in Workers, SettlePosting(w)
  PROVE  Promise!Next
<1>1. PICK t \in Txs : t = job[w].cur
  BY DEF SettlePosting, TInv, TypeOK, JobShape, Busy, Job
<1> DEFINE r == [tx[t] EXCEPT !.posting = job[w].out]
<1>2. tx \in [Txs -> TxRecord] /\ job \in [Workers -> Job]
  BY DEF TInv, TypeOK
<1>3. tx' = [tx EXCEPT ![t] = r] /\ UNCHANGED <<provider, ledger>>
  BY <1>1 DEF SettlePosting
<1>4. /\ r \in TxRecord
      /\ r.status = tx[t].status /\ r.posting = job[w].out
  BY <1>2, <1>1 DEF TxRecord, Job
<1>5. job[w].out = "POSTED" => Posted(t) # {}
  BY <1>1 DEF SettlePosting, EInv, JobEvidence, HandlerEvidence
<1> HIDE DEF r
<1>6. UNCHANGED <<Reports, Postings>>
  BY <1>1, <1>3, <1>4, ViewFollows, ViewOfWrite
<1>7. CASE job[w].out = "POSTED"
  <2>1. Confirmed' = Confirmed \cup {t} /\ Postings[t] # {}
    BY <1>1, <1>3, <1>4, <1>5, <1>7, ViewOfWrite DEF Postings
  <2>2. Promise!Confirm(t)
    BY <1>3, <1>6, <2>1 DEF Promise!Confirm, Reports, Postings, Confirmed
  <2> QED
    BY <2>2 DEF Promise!Next
<1>8. CASE job[w].out # "POSTED"
  <2>1. Confirmed' = Confirmed \ {t}
    BY <1>1, <1>3, <1>4, <1>8, ViewOfWrite
  <2>2. Promise!Withdraw(t)
    BY <1>3, <1>6, <2>1 DEF Promise!Withdraw, Reports, Postings, Confirmed
  <2> QED
    BY <2>2 DEF Promise!Next
<1> QED
  BY <1>7, <1>8

LEMMA StampStutters ==
  ASSUME TInv, NEW w \in Workers, StampReconciled(w)
  PROVE  UNCHANGED Promise!vars
<1> DEFINE t == job[w].cur
           r == [tx[t] EXCEPT !.reconciled = TRUE]
<1>1. tx \in [Txs -> TxRecord]
  BY DEF TInv, TypeOK
<1>2. t \in Txs
  BY DEF StampReconciled, TInv, TypeOK, JobShape, Busy, Job
<1>3. tx' = [tx EXCEPT ![t] = r] /\ UNCHANGED <<provider, ledger>>
  BY DEF StampReconciled
<1>4. /\ r \in TxRecord
      /\ r.status = tx[t].status /\ r.posting = tx[t].posting
  BY <1>1, <1>2 DEF TxRecord
<1> HIDE DEF t, r
<1> QED
  BY <1>2, <1>3, <1>4, ViewFollows, ViewOfWrite, ViewStutters DEF View

LEMMA PromiseInit == Init => Promise!Init
<1> SUFFICES ASSUME Init PROVE Promise!Init
  OBVIOUS
<1>1. \A t \in Txs : Told(t) = "open" /\ Posted(t) = {}
  BY DEF Init, NewTx, Told, Posted
<1>2. {t \in Txs : tx[t].posting = "POSTED"} = {}
  BY DEF Init, NewTx
<1> QED
  BY <1>1, <1>2 DEF Init, Promise!Init

LEMMA PromiseStep ==
  ASSUME TInv, TInv', EInv, SInv, HeldWasSent, [Next]_vars
  PROVE  [Promise!Next]_(Promise!vars)
<1>1. CASE UNCHANGED <<tx, provider, submitted, ledger>>
  BY <1>1, ViewFollows, ViewStutters DEF View
<1> QED
  BY <1>1, Writes, ClaimReportsOpen, DisburseAsks, StoreReports, PostPosts,
     SettleConfirms, StampStutters, ProviderDecidesIsDecide

\* Handlers, callbacks and crashes, however they interleave, do what
\* PayrollPromise allows: a second payment is asked for only after a refusal
\* (the claim of processBatch, retryFailed's reading of FAILED), a report and
\* a posting are made only when the money justifies them at that moment.
THEOREM PromiseImplemented == Spec => ImplementsPromise
<1>1. TInv /\ TInv' /\ EInv /\ SInv /\ HeldWasSent /\ [Next]_vars
        => [Promise!Next]_(Promise!vars)
  BY PromiseStep
<1>2. TInv /\ HeldWasSent /\ [Next]_vars => HeldWasSent'
  BY HeldStep
<1>3. TInv /\ EInv /\ SInv /\ [Next]_vars => SInv'
  BY SStep
<1> QED
  BY <1>1, <1>2, <1>3, PromiseInit, HeldInit, SInit, TypesInvariant,
     EvidenceInvariant, PTL
  DEF Spec, ImplementsPromise, Promise!Spec

=============================================================================
