--------------------------- MODULE CapitalSharing ---------------------------
(***************************************************************************)
(* Consent and permissioned capital-data sharing: backend/modules/consent  *)
(* and backend/modules/capital.                                            *)
(*                                                                         *)
(* A subject's consent names a recipient, a purpose and data categories.   *)
(* A share request names the consent it relies on; one actor requests it,  *)
(* another approves it, and the service asserts the consent again at every *)
(* step.  Each service call is a job run by a worker; it interleaves with  *)
(* others at its awaits, and may die there (Abort).                        *)
(*                                                                         *)
(* Abstractions.  One tenant.  A party is a recipient with a purpose (the  *)
(* two are always compared together).  Time is the phase of a consent's    *)
(* validity window.  Dates, evidence, reasons and hashes are left out.     *)
(***************************************************************************)
EXTENDS Integers, FiniteSets

CONSTANTS
  Workers,     \* service calls in flight
  Actors,      \* authenticated users
  Subjects,    \* members, groups, institutions
  Parties,     \* recipient and purpose
  Categories,  \* data categories
  Consents,    \* identifiers of consent records
  Shares,      \* identifiers of share requests
  NoActor,     \* nobody: not an element of Actors
  Phases,      \* where a new consent's window may lie
  MaxCalls     \* bound: calls started in a behaviour

ASSUME CapitalAssumption ==
  /\ NoActor \notin Actors
  /\ Phases \subseteq {"early", "valid", "over"}
  /\ MaxCalls \in Nat

VARIABLES
  consents,    \* ConsentRecord documents
  shares,      \* CapitalShareRequest documents
  job,         \* what each worker is doing
  lapsed,      \* history: consents that had lapsed when a worker's call began
  calls        \* calls started so far

vars == <<consents, shares, job, lapsed, calls>>

-----------------------------------------------------------------------------

Terms == [subject: Subjects, party: Parties, cats: SUBSET Categories]

CONSENT_STATUS == {"GRANTED", "DENIED", "WITHDRAWN", "EXPIRED"}
CAPITAL_SHARE_STATUS == {"REQUESTED", "APPROVED", "REJECTED", "EXPIRED",
                         "REVOKED", "SHARED"}

\* The window has not begun, is open, is closed.
Phase == {"early", "valid", "over"}

ConsentRecord == [terms: Terms, status: CONSENT_STATUS, phase: Phase]
CapitalShareRequest ==
  [terms: Terms, consent: Consents, requestedBy: Actors,
   approvedBy: Actors \cup {NoActor}, status: CAPITAL_SHARE_STATUS]

(* A call that is past its first read, with what it will use after the     *)
(* await.                                                                  *)
Job ==
  [step: {"idle"}]
    \cup [step: {"grant"}, terms: Terms]
    \cup [step: {"withdraw"}, consent: Consents]
    \cup [step: {"request"}, terms: Terms, consent: Consents, actor: Actors]
    \cup [step: {"assert", "approve"}, share: Shares, actor: Actors]
    \cup [step: {"assertShared", "share"}, share: Shares]
    \cup [step: {"revoke"}, share: Shares]

TypeOK ==
  /\ DOMAIN consents \subseteq Consents
  /\ consents \in [DOMAIN consents -> ConsentRecord]
  /\ DOMAIN shares \subseteq Shares
  /\ shares \in [DOMAIN shares -> CapitalShareRequest]
  /\ job \in [Workers -> Job]
  /\ lapsed \in [Workers -> SUBSET Consents]
  /\ calls \in Nat

Idle == [step |-> "idle"]

Init ==
  /\ consents = [c \in {} |-> {}]
  /\ shares = [s \in {} |-> {}]
  /\ job = [w \in Workers |-> Idle]
  /\ lapsed = [w \in Workers |-> {}]
  /\ calls = 0

-----------------------------------------------------------------------------

\* The document stored under a new identifier.
Create(docs, id, doc) ==
  [d \in DOMAIN docs \cup {id} |-> IF d = id THEN doc ELSE docs[d]]

Lapsed == {c \in DOMAIN consents : \/ consents[c].status # "GRANTED"
                                   \/ consents[c].phase = "over"}

Start(w, j) ==
  /\ job[w].step = "idle"
  /\ calls < MaxCalls
  /\ calls' = calls + 1
  /\ job' = [job EXCEPT ![w] = j]
  /\ lapsed' = [lapsed EXCEPT ![w] = Lapsed]
  /\ UNCHANGED <<consents, shares>>

Finish(w) ==
  /\ job' = [job EXCEPT ![w] = Idle]
  /\ UNCHANGED <<lapsed, calls>>

-----------------------------------------------------------------------------
(* Consent                                                                 *)

\* Active consents of the subject for the party, whatever the categories.
FindActive(t) ==
  {c \in DOMAIN consents : /\ consents[c].terms.subject = t.subject
                           /\ consents[c].terms.party = t.party
                           /\ consents[c].status = "GRANTED"
                           /\ consents[c].phase = "valid"}

\* An active consent is returned as it is; otherwise one will be created.
StartGrant(w, t) ==
  /\ t.cats # {}
  /\ FindActive(t) = {}
  /\ Start(w, [step |-> "grant", terms |-> t])

GrantConsent(w, c) ==
  /\ job[w].step = "grant"
  /\ c \notin DOMAIN consents
  /\ \E p \in Phases :
       consents' = Create(consents, c, [terms |-> job[w].terms,
                                        status |-> "GRANTED", phase |-> p])
  /\ Finish(w)
  /\ UNCHANGED shares

StartWithdraw(w, c) ==
  /\ c \in DOMAIN consents
  /\ consents[c].status = "GRANTED"
  /\ Start(w, [step |-> "withdraw", consent |-> c])

WithdrawConsent(w) ==
  /\ job[w].step = "withdraw"
  /\ consents' = [consents EXCEPT ![job[w].consent].status = "WITHDRAWN"]
  /\ Finish(w)
  /\ UNCHANGED shares

\* The clock passes a bound of a validity window.
Elapse(c) ==
  /\ c \in DOMAIN consents
  /\ \/ /\ consents[c].phase = "early"
        /\ consents' = [consents EXCEPT ![c].phase = "valid"]
     \/ /\ consents[c].phase = "valid"
        /\ consents' = [consents EXCEPT ![c].phase = "over"]
  /\ UNCHANGED <<shares, job, lapsed, calls>>

\* Mutants of ActiveConsent: the status is not looked at; the categories are
\* not compared.
ActiveConsent_AnyStatus(c, t) ==
  /\ c \in DOMAIN consents
  /\ consents[c].phase = "valid"
  /\ consents[c].terms.party = t.party
  /\ t.cats \subseteq consents[c].terms.cats
ActiveConsent_AnyCategory(c, t) ==
  /\ c \in DOMAIN consents
  /\ consents[c].status = "GRANTED"
  /\ consents[c].phase = "valid"
  /\ consents[c].terms.party = t.party

\* assertActiveConsent: status, window, party and categories; not the subject.
ActiveConsent(c, t) ==
  /\ c \in DOMAIN consents
  /\ consents[c].status = "GRANTED"
  /\ consents[c].phase = "valid"
  /\ consents[c].terms.party = t.party
  /\ t.cats \subseteq consents[c].terms.cats

-----------------------------------------------------------------------------
(* Capital data sharing                                                    *)

\* requestCapitalDataShare: the consent is asserted, then the request stored.
StartRequest(w, actor, t, c) ==
  /\ t.cats # {}
  /\ ActiveConsent(c, t)
  /\ Start(w, [step |-> "request", terms |-> t, consent |-> c,
               actor |-> actor])

\* Mutant of RequestShare: the maker is not recorded.
RequestShare_NoMaker(w, s) ==
  /\ job[w].step = "request"
  /\ s \notin DOMAIN shares
  /\ shares' = Create(shares, s,
                 [terms |-> job[w].terms, consent |-> job[w].consent,
                  requestedBy |-> NoActor, approvedBy |-> NoActor,
                  status |-> "REQUESTED"])
  /\ Finish(w)
  /\ UNCHANGED consents

RequestShare(w, s) ==
  /\ job[w].step = "request"
  /\ s \notin DOMAIN shares
  /\ shares' = Create(shares, s,
                 [terms |-> job[w].terms, consent |-> job[w].consent,
                  requestedBy |-> job[w].actor, approvedBy |-> NoActor,
                  status |-> "REQUESTED"])
  /\ Finish(w)
  /\ UNCHANGED consents

\* Mutant of StartApprove: the maker may approve.
StartApprove_Maker(w, actor, s) ==
  /\ s \in DOMAIN shares
  /\ shares[s].status = "REQUESTED"
  /\ Start(w, [step |-> "assert", share |-> s, actor |-> actor])

\* Mutant of StartApprove: the status is not looked at.
StartApprove_AnyStatus(w, actor, s) ==
  /\ s \in DOMAIN shares
  /\ shares[s].requestedBy # actor
  /\ Start(w, [step |-> "assert", share |-> s, actor |-> actor])

\* approveCapitalDataShare reads the request: not by its maker, and only
\* while it is REQUESTED.
StartApprove(w, actor, s) ==
  /\ s \in DOMAIN shares
  /\ shares[s].requestedBy # actor
  /\ shares[s].status = "REQUESTED"
  /\ Start(w, [step |-> "assert", share |-> s, actor |-> actor])

\* markShared reads the request: only while it is APPROVED.
StartShared(w, s) ==
  /\ s \in DOMAIN shares
  /\ shares[s].status = "APPROVED"
  /\ Start(w, [step |-> "assertShared", share |-> s])

\* Both assert the consent the request names; a failure ends the call.
AssertConsent(w) ==
  /\ job[w].step \in {"assert", "assertShared"}
  /\ LET r == shares[job[w].share] IN
       IF ActiveConsent(r.consent, r.terms)
       THEN /\ job' = [job EXCEPT ![w].step =
                         IF @ = "assert" THEN "approve" ELSE "share"]
            /\ UNCHANGED <<lapsed, calls>>
       ELSE Finish(w)
  /\ UNCHANGED <<consents, shares>>

\* The updates that follow are not conditional on the status.
ApproveShare(w) ==
  /\ job[w].step = "approve"
  /\ shares' = [shares EXCEPT ![job[w].share].status = "APPROVED",
                              ![job[w].share].approvedBy = job[w].actor]
  /\ Finish(w)
  /\ UNCHANGED consents

MarkShared(w) ==
  /\ job[w].step = "share"
  /\ shares' = [shares EXCEPT ![job[w].share].status = "SHARED"]
  /\ Finish(w)
  /\ UNCHANGED consents

\* revokeCapitalDataShare: only what is APPROVED or SHARED.
StartRevoke(w, s) ==
  /\ s \in DOMAIN shares
  /\ shares[s].status \in {"APPROVED", "SHARED"}
  /\ Start(w, [step |-> "revoke", share |-> s])

RevokeShare(w) ==
  /\ job[w].step = "revoke"
  /\ shares' = [shares EXCEPT ![job[w].share].status = "REVOKED"]
  /\ Finish(w)
  /\ UNCHANGED consents

-----------------------------------------------------------------------------

\* A call dies at an await.
Abort(w) ==
  /\ job[w].step # "idle"
  /\ Finish(w)
  /\ UNCHANGED <<consents, shares>>

Begin(w) ==
  \/ \E t \in Terms : StartGrant(w, t)
  \/ \E c \in Consents : StartWithdraw(w, c)
  \/ \E a \in Actors, t \in Terms, c \in Consents : StartRequest(w, a, t, c)
  \/ \E a \in Actors, s \in Shares : StartApprove(w, a, s)
  \/ \E s \in Shares : StartShared(w, s) \/ StartRevoke(w, s)

Continue(w) ==
  \/ \E c \in Consents : GrantConsent(w, c)
  \/ WithdrawConsent(w)
  \/ \E s \in Shares : RequestShare(w, s)
  \/ AssertConsent(w) \/ ApproveShare(w) \/ MarkShared(w) \/ RevokeShare(w)

Next ==
  \/ \E w \in Workers : Begin(w) \/ Continue(w) \/ Abort(w)
  \/ \E c \in Consents : Elapse(c)

Spec == Init /\ [][Next]_vars

-----------------------------------------------------------------------------
(* What the component promises.                                            *)

\* Every share request rests on a consent record for the same recipient and
\* purpose that covers all its categories, whatever calls interleave between
\* the assertion and the writes (requestCapitalDataShare, assertActiveConsent).
ShareScope ==
  \A s \in DOMAIN shares :
    LET r == shares[s] IN
    /\ r.consent \in DOMAIN consents
    /\ consents[r.consent].terms.party = r.terms.party
    /\ r.terms.cats \subseteq consents[r.consent].terms.cats

\* Four eyes: a request that was ever approved was approved by somebody other
\* than its maker, even when several approvals race (approveCapitalDataShare).
FourEyes ==
  \A s \in DOMAIN shares :
    shares[s].status \in {"APPROVED", "SHARED", "REVOKED"}
      => shares[s].approvedBy \notin {NoActor, shares[s].requestedBy}

\* The request becomes open for sharing, or goes on towards it.
Opens(s) ==
  /\ s \in DOMAIN shares'
  /\ shares'[s].status \in {"REQUESTED", "APPROVED", "SHARED"}
  /\ s \in DOMAIN shares => shares'[s].status # shares[s].status

\* Withdrawal and expiry are enforced: a call that begins after a consent has
\* lapsed neither requests, approves nor shares under it, although the call's
\* reads and writes are separated by awaits.
NoSharingAfterLapse ==
  [][\A w \in Workers, s \in Shares :
       (Opens(s) /\ job'[w] # job[w]) => shares'[s].consent \notin lapsed[w]]_vars

\* A call past its read that will approve or share the request.
MayReopen(w, s) ==
  /\ job[w].step \in {"assert", "approve", "assertShared", "share"}
  /\ job[w].share = s

\* Revoked, and no call is left that read the request before.
RestsRevoked(s) ==
  /\ s \in DOMAIN shares
  /\ shares[s].status = "REVOKED"
  /\ \A w \in Workers : ~MayReopen(w, s)

\* Revocation is final but for the calls it overtook: once they have ended,
\* no call approves or shares the request again, although the updates do not
\* look at the status themselves (approveCapitalDataShare, markShared).
RevocationRests == [][\A s \in Shares : RestsRevoked(s) => RestsRevoked(s)']_vars

-----------------------------------------------------------------------------
(* What the documents say, and the code does not do.                       *)

\* docs/API.md:43: "A capital share request is valid only when a matching
\* active consent exists for: subject; ..."  assertActiveConsent is not told
\* the subject: a request about one subject passes on the consent of another.
SubjectConsented ==
  \A s \in DOMAIN shares :
    consents[shares[s].consent].terms.subject = shares[s].terms.subject

=============================================================================
