------------------------ MODULE CapitalSharingProofs ------------------------
(***************************************************************************)
(* Scope, four eyes and enforced withdrawal, for every number of calls,    *)
(* consents and share requests.  The inductive invariant says what a call  *)
(* in flight still knows after its await; it rests on what never changes   *)
(* in a stored document (Keeps).                                           *)
(***************************************************************************)
EXTENDS CapitalSharing, TLAPS

\* Consent c is stored and its terms cover t.
Covers(c, t) ==
  /\ c \in DOMAIN consents
  /\ consents[c].terms.party = t.party
  /\ t.cats \subseteq consents[c].terms.cats

\* Request s is stored and was approved by somebody other than its maker.
FourEyed(s) ==
  /\ s \in DOMAIN shares
  /\ shares[s].approvedBy \notin {NoActor, shares[s].requestedBy}

\* What a call in flight knows.
JobInv(w) ==
  LET j == job[w] IN
  /\ j.step = "withdraw" => j.consent \in DOMAIN consents
  /\ j.step = "request" => Covers(j.consent, j.terms)
  /\ j.step = "request" => j.consent \notin lapsed[w]
  /\ j.step \in {"assert", "approve"} =>
       /\ j.share \in DOMAIN shares
       /\ shares[j.share].requestedBy # j.actor
  /\ j.step \in {"assertShared", "share", "revoke"} => FourEyed(j.share)
  /\ j.step \in {"approve", "share"} => shares[j.share].consent \notin lapsed[w]

LapsedStays == \A w \in Workers : lapsed[w] \subseteq Lapsed

IInv ==
  /\ TypeOK
  /\ \A w \in Workers : JobInv(w)
  /\ LapsedStays
  /\ ShareScope
  /\ FourEyes

\* What a step never takes back.
Keeps ==
  /\ DOMAIN consents \subseteq DOMAIN consents'
  /\ \A c \in DOMAIN consents : consents'[c].terms = consents[c].terms
  /\ Lapsed \subseteq Lapsed'
  /\ DOMAIN shares \subseteq DOMAIN shares'
  /\ \A s \in DOMAIN shares :
       /\ shares'[s].terms = shares[s].terms
       /\ shares'[s].consent = shares[s].consent
       /\ shares'[s].requestedBy = shares[s].requestedBy
       /\ FourEyed(s) => FourEyed(s)'

-----------------------------------------------------------------------------
(* The fields of a call in flight.                                         *)

LEMMA JobFields ==
  ASSUME NEW j \in Job
  PROVE  /\ j.step \in {"idle", "grant", "withdraw", "request", "assert",
                        "approve", "assertShared", "share", "revoke"}
         /\ j.step = "grant" => j.terms \in Terms
         /\ j.step = "withdraw" => j.consent \in Consents
         /\ j.step = "request" => /\ j.terms \in Terms
                                  /\ j.consent \in Consents
                                  /\ j.actor \in Actors
         /\ j.step \in {"assert", "approve"} =>
              j.share \in Shares /\ j.actor \in Actors
         /\ j.step \in {"assertShared", "share", "revoke"} => j.share \in Shares
BY DEF Job

LEMMA AssertedJob ==
  ASSUME NEW j \in Job, j.step \in {"assert", "assertShared"}
  PROVE  [j EXCEPT !.step = IF @ = "assert" THEN "approve" ELSE "share"] \in Job
<1>1. CASE j.step = "assert"
  <2>1. j \in [step: {"assert", "approve"}, share: Shares, actor: Actors]
    BY <1>1 DEF Job
  <2>. QED  BY <1>1, <2>1 DEF Job
<1>2. CASE j.step = "assertShared"
  <2>1. j \in [step: {"assertShared", "share"}, share: Shares]
    BY <1>2 DEF Job
  <2>. QED  BY <1>2, <2>1 DEF Job
<1>. QED  BY <1>1, <1>2

LEMMA IdleJob == Idle \in Job /\ Idle.step = "idle"
BY DEF Idle, Job

(* A worker that takes no part in a step still knows what it knew.         *)
LEMMA OthersKeep ==
  ASSUME TypeOK, Keeps, NEW v \in Workers, JobInv(v),
         job'[v] = job[v], lapsed'[v] = lapsed[v]
  PROVE  JobInv(v)'
<1>. DEFINE j == job[v]
<1>0. j \in Job  BY DEF TypeOK
<1>1. (j.step = "withdraw" => j.consent \in DOMAIN consents)'
  BY DEF JobInv, Keeps
<1>2. (j.step = "request" => Covers(j.consent, j.terms))'
  BY DEF JobInv, Keeps, Covers
<1>3. (j.step = "request" => j.consent \notin lapsed[v])'
  BY DEF JobInv
<1>4. (j.step \in {"assert", "approve"} =>
         j.share \in DOMAIN shares /\ shares[j.share].requestedBy # j.actor)'
  BY DEF JobInv, Keeps
<1>5. (j.step \in {"assertShared", "share", "revoke"} => FourEyed(j.share))'
  <2>1. j.step \in {"assertShared", "share", "revoke"} => FourEyed(j.share)
    BY DEF JobInv
  <2>2. \A s : FourEyed(s) => FourEyed(s)'
    BY DEF Keeps, FourEyed
  <2>. QED  BY <2>1, <2>2
<1>6. (j.step \in {"approve", "share"} =>
         shares[j.share].consent \notin lapsed[v])'
  <2>1. j.step \in {"approve", "share"} => j.share \in DOMAIN shares
    BY DEF JobInv, FourEyed
  <2>. QED  BY <2>1 DEF JobInv, Keeps
<1>. QED  BY <1>1, <1>2, <1>3, <1>4, <1>5, <1>6 DEF JobInv

(* A step that ends or starts call w, and leaves the others alone.         *)
LEMMA OneJob ==
  ASSUME TypeOK, Keeps, \A v \in Workers : JobInv(v),
         NEW w \in Workers, NEW j, job' = [job EXCEPT ![w] = j],
         \A v \in Workers \ {w} : lapsed'[v] = lapsed[v],
         JobInv(w)'
  PROVE  \A v \in Workers : JobInv(v)'
<1>. TAKE v \in Workers
<1>1. CASE v = w  BY <1>1
<1>2. CASE v # w
  <2>1. job'[v] = job[v] /\ lapsed'[v] = lapsed[v]
    BY <1>2 DEF TypeOK
  <2>. QED  BY <2>1, OthersKeep
<1>. QED  BY <1>1, <1>2

LEMMA IdleKnows ==
  ASSUME TypeOK, NEW w \in Workers, job' = [job EXCEPT ![w] = Idle]
  PROVE  JobInv(w)' /\ job' \in [Workers -> Job]
<1>1. job'[w].step = "idle"
  BY IdleJob DEF TypeOK
<1>2. job' \in [Workers -> Job]
  BY IdleJob DEF TypeOK
<1>. QED  BY <1>1, <1>2 DEF JobInv

-----------------------------------------------------------------------------
(* What each step does to the documents.                                   *)

LEMMA Quiet ==
  ASSUME UNCHANGED <<consents, shares>>
  PROVE  Keeps
BY DEF Keeps, Lapsed, FourEyed

(* A call that only reads.                                                 *)
LEMMA StartStep ==
  ASSUME IInv, NEW w \in Workers, NEW j \in Job, Start(w, j), JobInv(w)'
  PROVE  IInv'
<1>1. Keeps  BY Quiet DEF Start
<1>2. /\ lapsed' \in [Workers -> SUBSET Consents]
      /\ lapsed'[w] = Lapsed
      /\ \A v \in Workers \ {w} : lapsed'[v] = lapsed[v]
  BY DEF Start, IInv, TypeOK, Lapsed
<1>3. TypeOK'
  BY <1>2 DEF Start, IInv, TypeOK
<1>4. \A v \in Workers : JobInv(v)'
  BY <1>1, <1>2, OneJob DEF Start, IInv
<1>5. LapsedStays'
  BY <1>1, <1>2 DEF LapsedStays, IInv, Keeps
<1>6. ShareScope' /\ FourEyes'
  BY DEF Start, IInv, ShareScope, FourEyes
<1>. QED  BY <1>3, <1>4, <1>5, <1>6 DEF IInv

(* A call that writes and ends.                                            *)
LEMMA FinishStep ==
  ASSUME IInv, Keeps, NEW w \in Workers, Finish(w),
         DOMAIN consents' \subseteq Consents,
         consents' \in [DOMAIN consents' -> ConsentRecord],
         DOMAIN shares' \subseteq Shares,
         shares' \in [DOMAIN shares' -> CapitalShareRequest],
         ShareScope', FourEyes'
  PROVE  IInv'
<1>1. JobInv(w)' /\ job' \in [Workers -> Job]
  BY IdleKnows DEF Finish, IInv
<1>2. TypeOK'
  BY <1>1 DEF TypeOK, IInv, Finish
<1>3. \A v \in Workers : JobInv(v)'
  BY <1>1, OneJob DEF Finish, IInv
<1>4. LapsedStays'
  BY DEF LapsedStays, IInv, Keeps, Finish
<1>. QED  BY <1>2, <1>3, <1>4 DEF IInv

LEMMA AbortStep ==
  ASSUME IInv, NEW w \in Workers, Abort(w)
  PROVE  IInv'
<1>1. Keeps /\ Finish(w)  BY Quiet DEF Abort
<1>. QED
  BY <1>1, FinishStep DEF Abort, IInv, TypeOK, ShareScope, FourEyes

LEMMA BeginStep ==
  ASSUME IInv, NEW w \in Workers, Begin(w)
  PROVE  IInv'
<1>1. ASSUME NEW t \in Terms, StartGrant(w, t) PROVE IInv'
  <2>. DEFINE j == [step |-> "grant", terms |-> t]
  <2>1. j \in Job  BY DEF Job
  <2>2. Start(w, j) /\ job'[w] = j
    BY <1>1 DEF StartGrant, Start, IInv, TypeOK
  <2>3. JobInv(w)'  BY <2>2 DEF JobInv
  <2>. QED  BY <2>1, <2>2, <2>3, StartStep
<1>2. ASSUME NEW c \in Consents, StartWithdraw(w, c) PROVE IInv'
  <2>. DEFINE j == [step |-> "withdraw", consent |-> c]
  <2>1. j \in Job  BY DEF Job
  <2>2. /\ Start(w, j) /\ job'[w] = j
        /\ c \in DOMAIN consents'
    BY <1>2 DEF StartWithdraw, Start, IInv, TypeOK
  <2>3. JobInv(w)'  BY <2>2 DEF JobInv
  <2>. QED  BY <2>1, <2>2, <2>3, StartStep
<1>3. ASSUME NEW a \in Actors, NEW t \in Terms, NEW c \in Consents,
             StartRequest(w, a, t, c)
      PROVE  IInv'
  <2>. DEFINE j == [step |-> "request", terms |-> t, consent |-> c, actor |-> a]
  <2>1. j \in Job  BY DEF Job
  <2>2. Start(w, j) /\ job'[w] = j /\ lapsed'[w] = Lapsed
    BY <1>3 DEF StartRequest, Start, IInv, TypeOK, Lapsed
  <2>3. Covers(c, t)' /\ c \notin Lapsed
    BY <1>3 DEF StartRequest, Start, ActiveConsent, Covers, Lapsed
  <2>4. JobInv(w)'  BY <2>2, <2>3 DEF JobInv
  <2>. QED  BY <2>1, <2>2, <2>4, StartStep
<1>4. ASSUME NEW a \in Actors, NEW s \in Shares, StartApprove(w, a, s)
      PROVE  IInv'
  <2>. DEFINE j == [step |-> "assert", share |-> s, actor |-> a]
  <2>1. j \in Job  BY DEF Job
  <2>2. /\ Start(w, j) /\ job'[w] = j
        /\ s \in DOMAIN shares' /\ shares'[s].requestedBy # a
    BY <1>4 DEF StartApprove, Start, IInv, TypeOK
  <2>3. JobInv(w)'  BY <2>2 DEF JobInv
  <2>. QED  BY <2>1, <2>2, <2>3, StartStep
<1>5. ASSUME NEW s \in Shares, StartShared(w, s) PROVE IInv'
  <2>. DEFINE j == [step |-> "assertShared", share |-> s]
  <2>1. j \in Job  BY DEF Job
  <2>2. Start(w, j) /\ job'[w] = j
    BY <1>5 DEF StartShared, Start, IInv, TypeOK
  <2>3. FourEyed(s)'
    BY <1>5 DEF StartShared, Start, FourEyed, FourEyes, IInv
  <2>4. JobInv(w)'  BY <2>2, <2>3 DEF JobInv
  <2>. QED  BY <2>1, <2>2, <2>4, StartStep
<1>6. ASSUME NEW s \in Shares, StartRevoke(w, s) PROVE IInv'
  <2>. DEFINE j == [step |-> "revoke", share |-> s]
  <2>1. j \in Job  BY DEF Job
  <2>2. Start(w, j) /\ job'[w] = j
    BY <1>6 DEF StartRevoke, Start, IInv, TypeOK
  <2>3. FourEyed(s)'
    BY <1>6 DEF StartRevoke, Start, FourEyed, FourEyes, IInv
  <2>4. JobInv(w)'  BY <2>2, <2>3 DEF JobInv
  <2>. QED  BY <2>1, <2>2, <2>4, StartStep
<1>. QED  BY <1>1, <1>2, <1>3, <1>4, <1>5, <1>6 DEF Begin

LEMMA GrantStep ==
  ASSUME IInv, NEW w \in Workers, NEW c \in Consents, GrantConsent(w, c)
  PROVE  IInv'
<1>. PICK p \in Phases :
       consents' = Create(consents, c, [terms |-> job[w].terms,
                                        status |-> "GRANTED", phase |-> p])
  BY DEF GrantConsent
<1>. DEFINE r == [terms |-> job[w].terms, status |-> "GRANTED", phase |-> p]
<1>1. r \in ConsentRecord
  <2>1. job[w].terms \in Terms
    BY JobFields DEF GrantConsent, IInv, TypeOK
  <2>. QED
    BY <2>1, CapitalAssumption DEF ConsentRecord, CONSENT_STATUS, Phase
<1>2. /\ DOMAIN consents' = DOMAIN consents \cup {c}
      /\ \A d \in DOMAIN consents : consents'[d] = consents[d]
      /\ consents'[c] = r
  BY DEF GrantConsent, Create
<1>3. Keeps
  BY <1>2 DEF GrantConsent, Keeps, Lapsed, FourEyed
<1>4. consents' \in [DOMAIN consents' -> ConsentRecord]
  BY <1>1, <1>2 DEF IInv, TypeOK, Create
<1>5. ShareScope' /\ FourEyes'
  BY <1>2 DEF GrantConsent, IInv, ShareScope, FourEyes
<1>. QED
  BY <1>2, <1>3, <1>4, <1>5, FinishStep DEF GrantConsent, IInv, TypeOK

LEMMA WithdrawStep ==
  ASSUME IInv, NEW w \in Workers, WithdrawConsent(w)
  PROVE  IInv'
<1>. DEFINE c == job[w].consent
<1>1. c \in DOMAIN consents
  BY DEF IInv, JobInv, WithdrawConsent
<1>2. /\ DOMAIN consents' = DOMAIN consents
      /\ \A d \in DOMAIN consents :
           /\ consents'[d].terms = consents[d].terms
           /\ consents'[d].phase = consents[d].phase
           /\ consents'[d].status \in {consents[d].status, "WITHDRAWN"}
      /\ consents' \in [DOMAIN consents' -> ConsentRecord]
  BY <1>1 DEF WithdrawConsent, IInv, TypeOK, ConsentRecord, CONSENT_STATUS
<1>3. Keeps
  BY <1>2 DEF WithdrawConsent, Keeps, Lapsed, FourEyed
<1>4. ShareScope' /\ FourEyes'
  BY <1>2 DEF WithdrawConsent, IInv, ShareScope, FourEyes
<1>. QED
  BY <1>2, <1>3, <1>4, FinishStep DEF WithdrawConsent, IInv, TypeOK

LEMMA RequestStep ==
  ASSUME IInv, NEW w \in Workers, NEW s \in Shares, RequestShare(w, s)
  PROVE  IInv'
<1>. DEFINE r == [terms |-> job[w].terms, consent |-> job[w].consent,
                  requestedBy |-> job[w].actor, approvedBy |-> NoActor,
                  status |-> "REQUESTED"]
<1>1. r \in CapitalShareRequest
  <2>1. /\ job[w].terms \in Terms /\ job[w].consent \in Consents
        /\ job[w].actor \in Actors
    BY JobFields DEF RequestShare, IInv, TypeOK
  <2>. QED  BY <2>1 DEF CapitalShareRequest, CAPITAL_SHARE_STATUS
<1>2. /\ DOMAIN shares' = DOMAIN shares \cup {s}
      /\ \A q \in DOMAIN shares : shares'[q] = shares[q]
      /\ shares'[s] = r
  BY DEF RequestShare, Create
<1>3. Keeps
  BY <1>2 DEF RequestShare, Keeps, Lapsed, FourEyed
<1>4. shares' \in [DOMAIN shares' -> CapitalShareRequest]
  BY <1>1, <1>2 DEF RequestShare, IInv, TypeOK, Create
<1>5. ShareScope'
  BY <1>2 DEF RequestShare, IInv, JobInv, Covers, ShareScope
<1>6. FourEyes'
  BY <1>2 DEF RequestShare, IInv, FourEyes
<1>. QED
  BY <1>2, <1>3, <1>4, <1>5, <1>6, FinishStep DEF RequestShare, IInv, TypeOK

(* A call that gives a stored request a later status.                      *)
LEMMA StatusStep ==
  ASSUME IInv, NEW w \in Workers, Finish(w), UNCHANGED consents,
         NEW s \in DOMAIN shares, NEW a \in Actors \cup {NoActor},
         NEW st \in {"APPROVED", "SHARED", "REVOKED"},
         shares' = [shares EXCEPT ![s].status = st, ![s].approvedBy = a],
         a \notin {NoActor, shares[s].requestedBy}
  PROVE  IInv'
<1>1. /\ DOMAIN shares' = DOMAIN shares
      /\ shares' \in [DOMAIN shares' -> CapitalShareRequest]
  BY DEF IInv, TypeOK, CapitalShareRequest, CAPITAL_SHARE_STATUS
<1>2. /\ \A q \in DOMAIN shares : /\ shares'[q].terms = shares[q].terms
                                  /\ shares'[q].consent = shares[q].consent
                                  /\ shares'[q].requestedBy = shares[q].requestedBy
      /\ \A q \in DOMAIN shares : q # s => shares'[q] = shares[q]
      /\ shares'[s].approvedBy = a
  BY DEF IInv, TypeOK, CapitalShareRequest
<1>3. Keeps
  BY <1>1, <1>2 DEF Keeps, Lapsed, FourEyed
<1>4. ShareScope'
  BY <1>1, <1>2 DEF IInv, ShareScope
<1>5. FourEyes'
  BY <1>1, <1>2 DEF IInv, FourEyes
<1>. QED
  BY <1>1, <1>3, <1>4, <1>5, FinishStep DEF IInv, TypeOK

LEMMA UpdateSteps ==
  ASSUME IInv, NEW w \in Workers, ApproveShare(w) \/ MarkShared(w) \/ RevokeShare(w)
  PROVE  IInv'
<1>. DEFINE s == job[w].share
<1>0. job[w] \in Job  BY DEF IInv, TypeOK
<1>1. CASE ApproveShare(w)
  <2>1. /\ s \in DOMAIN shares /\ job[w].actor \in Actors
        /\ shares[s].requestedBy # job[w].actor
    BY <1>0, <1>1, JobFields DEF ApproveShare, IInv, JobInv
  <2>2. job[w].actor \notin {NoActor, shares[s].requestedBy}
    BY <2>1, CapitalAssumption
  <2>. QED  BY <1>1, <2>1, <2>2, StatusStep DEF ApproveShare
<1>2. ASSUME NEW st \in {"SHARED", "REVOKED"},
             shares' = [shares EXCEPT ![s].status = st],
             job[w].step \in {"share", "revoke"},
             Finish(w), UNCHANGED consents
      PROVE  IInv'
  <2>1. FourEyed(s)
    BY <1>2 DEF IInv, JobInv
  <2>. DEFINE a == shares[s].approvedBy
  <2>2. /\ s \in DOMAIN shares /\ a \in Actors \cup {NoActor}
        /\ a \notin {NoActor, shares[s].requestedBy}
    BY <2>1 DEF FourEyed, IInv, TypeOK, CapitalShareRequest
  <2>3. shares' = [shares EXCEPT ![s].status = st, ![s].approvedBy = a]
    BY <1>2, <2>2 DEF IInv, TypeOK, CapitalShareRequest
  <2>. QED  BY <1>2, <2>2, <2>3, StatusStep
<1>3. CASE MarkShared(w)  BY <1>2, <1>3 DEF MarkShared
<1>4. CASE RevokeShare(w)  BY <1>2, <1>4 DEF RevokeShare
<1>. QED  BY <1>1, <1>3, <1>4

LEMMA AssertStep ==
  ASSUME IInv, NEW w \in Workers, AssertConsent(w)
  PROVE  IInv'
<1>. DEFINE r == shares[job[w].share]
<1>0. /\ job[w] \in Job /\ job[w].step \in {"assert", "assertShared"}
      /\ Keeps
  BY Quiet DEF AssertConsent, IInv, TypeOK
<1>1. CASE ActiveConsent(r.consent, r.terms)
  <2>. DEFINE j == [job[w] EXCEPT !.step =
                      IF @ = "assert" THEN "approve" ELSE "share"]
  <2>1. job' = [job EXCEPT ![w] = j] /\ lapsed' = lapsed /\ calls' = calls
    BY <1>1 DEF AssertConsent, IInv, TypeOK
  <2>2. j \in Job  BY <1>0, AssertedJob
  <2>3. job'[w] = j /\ TypeOK'
    BY <2>1, <2>2 DEF AssertConsent, IInv, TypeOK
  <2>4. r.consent \notin lapsed[w]
    BY <1>1 DEF ActiveConsent, IInv, LapsedStays, Lapsed
  <2>5. CASE job[w].step = "assert"
    <3>1. job[w] \in [step: {"assert", "approve"}, share: Shares, actor: Actors]
      BY <1>0, <2>5 DEF Job
    <3>2. /\ j.step = "approve" /\ j.share = job[w].share
          /\ j.actor = job[w].actor
      BY <2>5, <3>1
    <3>3. JobInv(w)'
      BY <2>1, <2>3, <2>4, <2>5, <3>2 DEF JobInv, IInv, AssertConsent
    <3>. QED
      BY <1>0, <2>1, <2>3, <3>3, OneJob
      DEF IInv, AssertConsent, LapsedStays, Lapsed, ShareScope, FourEyes
  <2>6. CASE job[w].step = "assertShared"
    <3>1. job[w] \in [step: {"assertShared", "share"}, share: Shares]
      BY <1>0, <2>6 DEF Job
    <3>2. j.step = "share" /\ j.share = job[w].share
      BY <2>6, <3>1
    <3>3. JobInv(w)'
      BY <2>1, <2>3, <2>4, <2>6, <3>2 DEF JobInv, IInv, AssertConsent, FourEyed
    <3>. QED
      BY <1>0, <2>1, <2>3, <3>3, OneJob
      DEF IInv, AssertConsent, LapsedStays, Lapsed, ShareScope, FourEyes
  <2>. QED  BY <1>0, <2>5, <2>6
<1>2. CASE ~ActiveConsent(r.consent, r.terms)
  <2>1. Finish(w) /\ UNCHANGED <<consents, shares>>
    BY <1>2 DEF AssertConsent
  <2>. QED
    BY <1>0, <2>1, FinishStep DEF IInv, TypeOK, ShareScope, FourEyes
<1>. QED  BY <1>1, <1>2

LEMMA ElapseStep ==
  ASSUME IInv, NEW c \in Consents, Elapse(c)
  PROVE  IInv'
<1>1. /\ DOMAIN consents' = DOMAIN consents
      /\ \A d \in DOMAIN consents :
           /\ consents'[d].terms = consents[d].terms
           /\ consents'[d].status = consents[d].status
           /\ consents[d].phase = "over" => consents'[d].phase = "over"
      /\ consents' \in [DOMAIN consents' -> ConsentRecord]
  BY DEF Elapse, IInv, TypeOK, ConsentRecord, Phase
<1>2. Keeps
  BY <1>1 DEF Elapse, Keeps, Lapsed, FourEyed
<1>3. TypeOK'
  BY <1>1 DEF Elapse, IInv, TypeOK
<1>4. \A v \in Workers : JobInv(v)'
  BY <1>2, OthersKeep DEF Elapse, IInv
<1>5. LapsedStays'
  BY <1>2 DEF Elapse, IInv, LapsedStays, Keeps
<1>6. ShareScope' /\ FourEyes'
  BY <1>1 DEF Elapse, IInv, ShareScope, FourEyes
<1>. QED  BY <1>3, <1>4, <1>5, <1>6 DEF IInv

LEMMA InitInv == Init => IInv
<1>. SUFFICES ASSUME Init PROVE IInv
  OBVIOUS
<1>1. DOMAIN consents = {} /\ DOMAIN shares = {}
  BY DEF Init
<1>2. TypeOK
  BY <1>1, IdleJob DEF Init, TypeOK
<1>3. \A w \in Workers : JobInv(w)
  BY IdleJob DEF Init, JobInv
<1>. QED
  BY <1>1, <1>2, <1>3 DEF IInv, Init, LapsedStays, ShareScope, FourEyes

LEMMA NextInv == IInv /\ [Next]_vars => IInv'
<1>. SUFFICES ASSUME IInv, [Next]_vars PROVE IInv'
  OBVIOUS
<1>1. ASSUME NEW w \in Workers, Continue(w) PROVE IInv'
  BY <1>1, GrantStep, WithdrawStep, RequestStep, AssertStep, UpdateSteps
  DEF Continue
<1>2. CASE UNCHANGED vars
  <2>1. Keeps  BY <1>2, Quiet DEF vars
  <2>2. \A v \in Workers : JobInv(v)'
    BY <1>2, <2>1, OthersKeep DEF vars, IInv
  <2>. QED
    BY <1>2, <2>2
    DEF vars, IInv, TypeOK, LapsedStays, Lapsed, ShareScope, FourEyes
<1>. QED
  BY <1>1, <1>2, BeginStep, AbortStep, ElapseStep DEF Next

LEMMA Invariance == Spec => []IInv
BY InitInv, NextInv, PTL DEF Spec

-----------------------------------------------------------------------------

\* Every variable keeps its type.
THEOREM TypeCorrect == Spec => []TypeOK
<1>1. IInv => TypeOK  BY DEF IInv
<1>. QED  BY <1>1, Invariance, PTL

\* A share request never goes beyond the recipient, the purpose and the
\* categories of the consent it names (requestCapitalDataShare).
THEOREM SharingInScope == Spec => []ShareScope
<1>1. IInv => ShareScope  BY DEF IInv
<1>. QED  BY <1>1, Invariance, PTL

\* Nobody's own request counts as approved (approveCapitalDataShare).
THEOREM ApprovedByAnother == Spec => []FourEyes
<1>1. IInv => FourEyes  BY DEF IInv
<1>. QED  BY <1>1, Invariance, PTL

-----------------------------------------------------------------------------

\* The action NoSharingAfterLapse forbids the opposite of.
NoOpeningAfterLapse ==
  \A w \in Workers, s \in Shares :
    (Opens(s) /\ job'[w] # job[w]) => shares'[s].consent \notin lapsed[w]

(* Only the call that writes the request opens it, and that call asserted   *)
(* the consent after it began.                                              *)
LEMMA OpeningStep == IInv /\ [Next]_vars => [NoOpeningAfterLapse]_vars
<1>. SUFFICES ASSUME IInv, Next, NEW w \in Workers, NEW s \in Shares,
                     Opens(s), job'[w] # job[w]
              PROVE  shares'[s].consent \notin lapsed[w]
  BY DEF NoOpeningAfterLapse
<1>1. shares' # shares
  BY DEF Opens
<1>2. PICK v \in Workers : \/ \E q \in Shares : RequestShare(v, q)
                           \/ ApproveShare(v) \/ MarkShared(v) \/ RevokeShare(v)
  BY <1>1 DEF Next, Begin, Continue, Abort, Elapse, Start, StartGrant,
     StartWithdraw, StartRequest, StartApprove, StartShared, StartRevoke,
     GrantConsent, WithdrawConsent, AssertConsent
<1>3. v = w
  BY <1>2 DEF RequestShare, ApproveShare, MarkShared, RevokeShare, Finish,
     IInv, TypeOK
<1>4. CASE \E q \in Shares : RequestShare(w, q)
  <2>. PICK q \in Shares : RequestShare(w, q)  BY <1>4
  <2>1. q = s  BY DEF RequestShare, Create, Opens
  <2>. QED  BY <2>1 DEF RequestShare, Create, IInv, JobInv
<1>5. CASE ApproveShare(w) \/ MarkShared(w)
  <2>1. job[w].share = s /\ s \in DOMAIN shares
    BY <1>5 DEF ApproveShare, MarkShared, Opens
  <2>2. shares'[s].consent = shares[s].consent
    BY <1>5, <2>1
    DEF ApproveShare, MarkShared, IInv, TypeOK, CapitalShareRequest
  <2>. QED  BY <1>5, <2>1, <2>2 DEF ApproveShare, MarkShared, IInv, JobInv
<1>6. CASE RevokeShare(w)
  <2>1. s \in DOMAIN shares  BY <1>6 DEF RevokeShare, Opens
  <2>2. shares'[s].status \in {shares[s].status, "REVOKED"}
    BY <1>6, <2>1 DEF RevokeShare, IInv, TypeOK, CapitalShareRequest
  <2>. QED  BY <2>1, <2>2 DEF Opens
<1>. QED  BY <1>2, <1>3, <1>4, <1>5, <1>6

\* A call that begins after a consent was withdrawn or has expired opens
\* nothing under it, wherever the other calls' steps fall
\* (assertActiveConsent before every write).
THEOREM WithdrawalIsEnforced == Spec => NoSharingAfterLapse
<1>1. Spec => [][NoOpeningAfterLapse]_vars
  BY Invariance, OpeningStep, PTL DEF Spec
<1>. QED  BY <1>1 DEF NoSharingAfterLapse, NoOpeningAfterLapse

-----------------------------------------------------------------------------

\* A call that may reopen a request found it open when it began.
LEMMA BeginReads ==
  ASSUME IInv, NEW w \in Workers, Begin(w), NEW s \in Shares, RestsRevoked(s)
  PROVE  RestsRevoked(s)'
<1>1. \A v \in Workers : v # w => job'[v] = job[v]
  BY DEF Begin, StartGrant, StartWithdraw, StartRequest, StartApprove,
     StartShared, StartRevoke, Start, IInv, TypeOK
<1>2. UNCHANGED shares
  BY DEF Begin, StartGrant, StartWithdraw, StartRequest, StartApprove,
     StartShared, StartRevoke, Start
<1>3. ~MayReopen(w, s)'
  <2>1. ASSUME NEW q \in Shares, shares[q].status \in {"REQUESTED", "APPROVED"},
               job'[w].share = q
        PROVE  ~MayReopen(w, s)'
    BY <2>1 DEF MayReopen, RestsRevoked
  <2>2. ASSUME NEW t \in Terms, StartGrant(w, t)  PROVE ~MayReopen(w, s)'
    BY <2>2 DEF StartGrant, Start, MayReopen, IInv, TypeOK
  <2>3. ASSUME NEW c \in Consents, StartWithdraw(w, c)  PROVE ~MayReopen(w, s)'
    BY <2>3 DEF StartWithdraw, Start, MayReopen, IInv, TypeOK
  <2>4. ASSUME NEW a \in Actors, NEW t \in Terms, NEW c \in Consents,
               StartRequest(w, a, t, c)
        PROVE  ~MayReopen(w, s)'
    BY <2>4 DEF StartRequest, Start, MayReopen, IInv, TypeOK
  <2>5. ASSUME NEW a \in Actors, NEW q \in Shares, StartApprove(w, a, q)
        PROVE  ~MayReopen(w, s)'
    BY <2>1, <2>5 DEF StartApprove, Start, IInv, TypeOK
  <2>6. ASSUME NEW q \in Shares, StartShared(w, q)  PROVE ~MayReopen(w, s)'
    BY <2>1, <2>6 DEF StartShared, Start, IInv, TypeOK
  <2>7. ASSUME NEW q \in Shares, StartRevoke(w, q)  PROVE ~MayReopen(w, s)'
    BY <2>7 DEF StartRevoke, Start, MayReopen, IInv, TypeOK
  <2>. QED  BY <2>2, <2>3, <2>4, <2>5, <2>6, <2>7 DEF Begin
<1>. QED  BY <1>1, <1>2, <1>3 DEF RestsRevoked, MayReopen

\* A call that goes on touches the request it has read, and no other.
LEMMA ContinueRests ==
  ASSUME IInv, NEW w \in Workers, Continue(w), NEW s \in Shares, RestsRevoked(s)
  PROVE  RestsRevoked(s)'
<1>. DEFINE Same == s \in DOMAIN shares' /\ shares'[s].status = "REVOKED"
<1>1. ASSUME Finish(w), Same  PROVE RestsRevoked(s)'
  <2>1. \A v \in Workers : job'[v] = job[v] \/ job'[v] = Idle
    BY <1>1 DEF Finish, IInv, TypeOK
  <2>2. \A v \in Workers : ~MayReopen(v, s)'
    BY <2>1 DEF RestsRevoked, MayReopen, Idle
  <2>. QED  BY <1>1, <2>2 DEF RestsRevoked
<1>2. UNCHANGED shares => Same
  BY DEF RestsRevoked
<1>3. CASE (\E c \in Consents : GrantConsent(w, c)) \/ WithdrawConsent(w)
  BY <1>1, <1>2, <1>3 DEF GrantConsent, WithdrawConsent
<1>4. CASE \E q \in Shares : RequestShare(w, q)
  BY <1>1, <1>4 DEF RequestShare, Create, RestsRevoked
<1>5. CASE AssertConsent(w)
  <2>1. UNCHANGED shares /\ ~MayReopen(w, s)
    BY <1>5 DEF AssertConsent, RestsRevoked
  <2>2. CASE Finish(w)
    BY <1>1, <1>2, <2>1, <2>2
  <2>3. CASE job' = [job EXCEPT ![w].step = IF @ = "assert" THEN "approve" ELSE "share"]
    <3>1. job[w] \in Job /\ job[w].step \in {"assert", "assertShared"}
      BY <1>5 DEF AssertConsent, IInv, TypeOK
    <3>2. /\ job'[w].share = job[w].share
          /\ \A v \in Workers : v # w => job'[v] = job[v]
      BY <2>3, <3>1 DEF IInv, TypeOK, Job
    <3>3. \A v \in Workers : ~MayReopen(v, s)'
      BY <2>1, <3>1, <3>2 DEF RestsRevoked, MayReopen
    <3>. QED  BY <2>1, <3>3 DEF RestsRevoked
  <2>. QED  BY <1>5, <2>2, <2>3 DEF AssertConsent
<1>6. CASE ApproveShare(w) \/ MarkShared(w)
  <2>1. job[w].share # s
    BY <1>6 DEF RestsRevoked, MayReopen, ApproveShare, MarkShared
  <2>. QED  BY <1>1, <1>6, <2>1 DEF RestsRevoked, ApproveShare, MarkShared
<1>7. CASE RevokeShare(w)
  <2>1. Same
    BY <1>7 DEF RevokeShare, RestsRevoked, IInv, TypeOK, CapitalShareRequest
  <2>. QED  BY <1>1, <1>7, <2>1 DEF RevokeShare
<1>. QED  BY <1>3, <1>4, <1>5, <1>6, <1>7 DEF Continue

LEMMA RestingStep ==
  ASSUME IInv, [Next]_vars, NEW s \in Shares, RestsRevoked(s)
  PROVE  RestsRevoked(s)'
<1>1. ASSUME NEW w \in Workers, Abort(w)  PROVE RestsRevoked(s)'
  <2>1. \A v \in Workers : job'[v] = job[v] \/ job'[v] = Idle
    BY <1>1 DEF Abort, Finish, IInv, TypeOK
  <2>. QED  BY <1>1, <2>1 DEF Abort, RestsRevoked, MayReopen, Idle
<1>2. CASE UNCHANGED <<shares, job>>
  BY <1>2 DEF RestsRevoked, MayReopen
<1>. QED
  BY <1>1, <1>2, BeginReads, ContinueRests DEF Next, Elapse, vars

\* Once the calls that had read a request before its revocation have ended,
\* the request stays revoked for good (approveCapitalDataShare and markShared
\* read the status before the await, and do not look at it in the update).
THEOREM RevokedForGood ==
  ASSUME NEW s \in Shares
  PROVE  Spec => [](RestsRevoked(s) => [](shares[s].status = "REVOKED"))
<1>1. IInv /\ [Next]_vars /\ RestsRevoked(s) => RestsRevoked(s)'
  BY RestingStep
<1>2. RestsRevoked(s) => shares[s].status = "REVOKED"
  BY DEF RestsRevoked
<1>. QED  BY <1>1, <1>2, Invariance, PTL DEF Spec

\* No step takes a request out of that rest.
THEOREM RevocationIsFinal == Spec => RevocationRests
<1>1. IInv /\ [Next]_vars =>
        [\A s \in Shares : RestsRevoked(s) => RestsRevoked(s)']_vars
  BY RestingStep
<1>2. Spec => [][\A s \in Shares : RestsRevoked(s) => RestsRevoked(s)']_vars
  BY <1>1, Invariance, PTL DEF Spec
<1>. QED  BY <1>2 DEF RevocationRests

=============================================================================
