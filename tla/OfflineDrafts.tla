--------------------------- MODULE OfflineDrafts ----------------------------
(***************************************************************************)
(* Minutes drafts that are kept on a device and synchronised later:        *)
(* frontend/src/offline/browserOutbox.js, frontend/src/hooks/              *)
(* useOfflineSync.js, backend/modules/offline (controller and service) and *)
(* applyOfflineMeetingDraft of backend/modules/meetings, over the meeting  *)
(* of MeetingMinutes.                                                      *)
(*                                                                         *)
(* A sync is one exchange: the device sends what it keeps, the server      *)
(* processes the drafts one after the other, and the device removes what   *)
(* the answer reports as accepted or duplicate.  Tabs share the device's   *)
(* store but not the hook's lock, and a cancelled request goes on at the   *)
(* server: syncs overlap.                                                  *)
(*                                                                         *)
(* Abstractions.  One device with one user; the service with its           *)
(* dependencies in place.  A draft's event, operation and idempotency key  *)
(* are one name, and its hash never differs; saved results do not expire.  *)
(* PENDING and FAILED events are sent alike, and CONFLICT is never         *)
(* answered: an event is in the store or not.  Events of the hook carry no *)
(* sequence number, so that the batch order is not checked and the cursor  *)
(* stays put.                                                              *)
(***************************************************************************)
EXTENDS MeetingMinutes, FiniteSets

CONSTANTS
  Syncs,       \* exchanges that may be under way at a time
  NoDraft,     \* not an element of Drafts
  BatchSize,   \* batchSize of the hook
  MaxFaults    \* bound: errors and losses in a behaviour

ASSUME OfflineAssumption ==
  /\ NoDraft \notin Drafts
  /\ BatchSize \in Nat \ {0}
  /\ MaxFaults \in Nat

VARIABLES
  kept,       \* what is in the event of each draft
  outbox,     \* the drafts in the store of the device
  sync,       \* the exchanges
  recorded,   \* OfflineEvent: the events that were persisted
  answered,   \* idempotency store: the result saved for each key
  faults      \* how much of the fault budget is spent

vars == <<meeting, edit, kept, outbox, sync, recorded, answered, faults>>

serverVars == <<meeting, recorded, answered>>

-----------------------------------------------------------------------------

(* expected: expectedRevision, 0 before the draft is kept; before: the      *)
(* drafts with an earlier createdAt.                                        *)
Kept == [expected: Nat, before: SUBSET Drafts]

Acceptance == {"ACCEPTED", "DUPLICATE"}

(* REFUSED is a failure with the code of a conflict.                        *)
Failure == {"REFUSED", "FAILED"}

(* rest: the events still to be processed; now: the one in processEvent;    *)
(* told: what the answer will say of each.                                  *)
Sync == [at: {"idle", "next", "find", "load", "apply", "reread", "record",
              "accept", "repeat"},
         rest: SUBSET Drafts, now: Drafts \cup {NoDraft},
         told: [Drafts -> Acceptance \cup Failure \cup {"none"}]]

Between(at, rest) ==
  [at |-> at, rest |-> rest, now |-> NoDraft,
   told |-> [d \in Drafts |-> "none"]]

NoSync == Between("idle", {})

Made(d) == kept[d].expected # 0

\* Every variable has its type, and a sync is at a step of processEvent exactly
\* while it has an event there, one of those it has still to do.
TypeOK ==
  /\ MeetingTypeOK
  /\ kept \in [Drafts -> Kept]
  /\ outbox \subseteq Drafts
  /\ sync \in [Syncs -> Sync]
  /\ \A s \in Syncs :
       IF sync[s].at \in {"idle", "next"}
       THEN sync[s].now = NoDraft
       ELSE sync[s].now \in sync[s].rest
  /\ recorded \subseteq Drafts
  /\ answered \in [Drafts -> Acceptance \cup {"none"}]
  /\ faults \in Nat

Init ==
  /\ MeetingInit
  /\ kept = [d \in Drafts |-> [expected |-> 0, before |-> {}]]
  /\ outbox = {}
  /\ sync = [s \in Syncs |-> NoSync]
  /\ recorded = {}
  /\ answered = [d \in Drafts |-> "none"]
  /\ faults = 0

-----------------------------------------------------------------------------
(* The device                                                              *)

\* saveMinutesLocally, createOfflineEvent, enqueueOfflineEvent: the page may have
\* loaded the meeting long ago, and showed minutes that were not published.
Keep(d) ==
  /\ ~Made(d)
  /\ \E shown \in 1..meeting.open :
       kept' = [kept EXCEPT ![d] = [expected |-> shown,
                                    before |-> {e \in Drafts : Made(e)}]]
  /\ outbox' = outbox \cup {d}
  /\ UNCHANGED <<meeting, edit, sync, recorded, answered, faults>>

\* Mutant of Batch: one event less is sent.
Batch_Short ==
  {d \in outbox : Cardinality(outbox \cap kept[d].before) + 1 < BatchSize}

\* getPendingOfflineEvents: the oldest come first.
Batch == {d \in outbox : Cardinality(outbox \cap kept[d].before) < BatchSize}

Oldest(d, drafts) == d \in drafts /\ drafts \cap kept[d].before = {}

\* The timer, a reconnection, a message: sync sends a batch.
Start(s) ==
  /\ sync[s].at = "idle"
  /\ outbox # {}
  /\ sync' = [sync EXCEPT ![s] = Between("next", Batch)]
  /\ UNCHANGED <<meeting, edit, kept, outbox, recorded, answered, faults>>

-----------------------------------------------------------------------------
(* The service: processEvent, one step for each await                      *)

At(s, where) == sync[s].at = where

Go(s, where) == sync' = [sync EXCEPT ![s] = [sync[s] EXCEPT !.at = where]]

\* Mutant of Leave: the event stays the current one.
Leave_KeepsNow(s, d, outcome) ==
  sync' = [sync EXCEPT ![s] = [at |-> "next", now |-> sync[s].now,
                               rest |-> sync[s].rest \ {d},
                               told |-> [sync[s].told EXCEPT ![d] = outcome]]]

\* The event is done with.
Leave(s, d, outcome) ==
  sync' = [sync EXCEPT ![s] = [at |-> "next", now |-> NoDraft,
                               rest |-> sync[s].rest \ {d},
                               told |-> [sync[s].told EXCEPT ![d] = outcome]]]

Told(s, outcomes) == {d \in Drafts : sync[s].told[d] \in outcomes}

\* getIdempotentResult: the saved result is answered with its own status.
Take(s) ==
  /\ At(s, "next")
  /\ \E d \in Drafts :
       /\ Oldest(d, sync[s].rest)
       /\ IF answered[d] # "none"
          THEN Leave(s, d, answered[d])
          ELSE sync' = [sync EXCEPT
                          ![s] = [sync[s] EXCEPT !.at = "find", !.now = d]]
  /\ UNCHANGED serverVars

\* findExistingEvent, detectConflict.
Find(s) ==
  /\ At(s, "find")
  /\ Go(s, IF sync[s].now \in recorded THEN "repeat" ELSE "load")
  /\ UNCHANGED serverVars

Current(d) == meeting.revision = kept[d].expected

\* applyOfflineMeetingDraft reads the meeting: a draft that was applied is
\* not applied again, whatever became of the meeting since.
Read(s) ==
  LET d == sync[s].now
  IN /\ At(s, "load")
     /\ IF d \in meeting.applied
        THEN Go(s, "record")
        ELSE IF meeting.published \/ ~Current(d)
             THEN Leave(s, d, "REFUSED")
             ELSE Go(s, "apply")
     /\ UNCHANGED serverVars

\* Mutants of Applied: the revision stays; the operation is not noted.
Applied_SameRevision(d) ==
  [meeting EXCEPT !.content = d, !.published = FALSE,
                  !.applied = @ \cup {d}]
Applied_NotNoted(d) == [Revised EXCEPT !.content = d, !.published = FALSE]

\* The document an applied draft leaves.
Applied(d) ==
  [Revised EXCEPT !.content = d, !.published = FALSE, !.applied = @ \cup {d}]

\* Mutants of Apply: the revision is not compared; a miss is not looked into.
Apply_AnyRevision(s) ==
  LET d == sync[s].now
  IN /\ At(s, "apply")
     /\ IF d \notin meeting.applied
        THEN meeting' = Applied(d) /\ Go(s, "record")
        ELSE Go(s, "reread") /\ UNCHANGED meeting
     /\ UNCHANGED <<recorded, answered>>
Apply_MissIsConflict(s) ==
  LET d == sync[s].now
  IN /\ At(s, "apply")
     /\ IF Current(d) /\ d \notin meeting.applied
        THEN meeting' = Applied(d) /\ Go(s, "record")
        ELSE Leave(s, d, "REFUSED") /\ UNCHANGED meeting
     /\ UNCHANGED <<recorded, answered>>

\* ... and updates it if neither its revision nor the draft's operation id
\* are in the way.
Apply(s) ==
  LET d == sync[s].now
  IN /\ At(s, "apply")
     /\ IF Current(d) /\ d \notin meeting.applied
        THEN meeting' = Applied(d) /\ Go(s, "record")
        ELSE Go(s, "reread") /\ UNCHANGED meeting
     /\ UNCHANGED <<recorded, answered>>

\* A miss: another sync has applied the draft, or the meeting has changed.
Reread(s) ==
  LET d == sync[s].now
  IN /\ At(s, "reread")
     /\ IF d \in meeting.applied
        THEN Go(s, "record")
        ELSE Leave(s, d, "REFUSED")
     /\ UNCHANGED serverVars

\* persistEvent: an event that is there already is taken as it is.
Persist(s) ==
  /\ At(s, "record")
  /\ recorded' = recorded \cup {sync[s].now}
  /\ Go(s, "accept")
  /\ UNCHANGED <<meeting, answered>>

\* saveIdempotentResult: of an acceptance, or of a duplicate, over what is there.
SaveResult(s) ==
  LET outcome == IF At(s, "accept") THEN "ACCEPTED" ELSE "DUPLICATE"
  IN /\ At(s, "accept") \/ At(s, "repeat")
     /\ answered' = [answered EXCEPT ![sync[s].now] = outcome]
     /\ Leave(s, sync[s].now, outcome)
     /\ UNCHANGED <<meeting, recorded>>

\* determineResponseStatus: 503 if something failed and nothing was accepted,
\* duplicates or not.  The device makes nothing of a 503.
Unavailable(s) ==
  Told(s, {"ACCEPTED"}) = {} /\ Told(s, Failure) # {}

\* Mutant of Removable: whatever was answered.
Removable_All(s) == Told(s, Acceptance \cup Failure)

\* What sync takes out of the outbox.
Removable(s) == IF Unavailable(s) THEN {} ELSE Told(s, Acceptance)

\* Mutant of Answer: the hook's lock stays taken.
Answer_KeepsLock(s) ==
  /\ At(s, "next") /\ sync[s].rest = {}
  /\ outbox' = outbox \ Removable(s)
  /\ UNCHANGED sync
  /\ UNCHANGED serverVars

\* The answer reaches the device.
Answer(s) ==
  /\ At(s, "next") /\ sync[s].rest = {}
  /\ outbox' = outbox \ Removable(s)
  /\ sync' = [sync EXCEPT ![s] = NoSync]
  /\ UNCHANGED serverVars

-----------------------------------------------------------------------------
(* Failures                                                                *)

Fault == faults < MaxFaults /\ faults' = faults + 1

\* executeWithRetry: an error while an event is processed, a lost answer of
\* the database and a failing receipt among them; the event is processed once
\* more, or reported as failed.
Err(s) ==
  /\ Fault
  /\ \E d \in Drafts :
       /\ Oldest(d, sync[s].rest)
       /\ \/ Leave(s, d, "FAILED")
          \/ sync' = [sync EXCEPT
                        ![s] = [sync[s] EXCEPT !.at = "next", !.now = NoDraft]]
  /\ UNCHANGED serverVars
  /\ UNCHANGED <<edit, kept, outbox>>

\* The server dies, the answer is lost, or the tab is closed while it is
\* removing events.
Lose(s) ==
  /\ Fault
  /\ ~At(s, "idle")
  /\ sync' = [sync EXCEPT ![s] = NoSync]
  /\ \E done \in SUBSET Removable(s) :
       /\ sync[s].rest # {} => done = {}
       /\ outbox' = outbox \ done
  /\ UNCHANGED serverVars
  /\ UNCHANGED <<edit, kept>>

-----------------------------------------------------------------------------

Process(s) ==
  \/ Take(s) \/ Find(s) \/ Read(s) \/ Apply(s) \/ Reread(s)
  \/ Persist(s) \/ SaveResult(s)

Work(s) ==
  /\ \/ Process(s) /\ UNCHANGED outbox
     \/ Answer(s)
  /\ UNCHANGED <<edit, kept, faults>>

Online == MeetingNext
          /\ UNCHANGED <<kept, outbox, sync, recorded, answered, faults>>

Next ==
  \/ Online
  \/ \E d \in Drafts : Keep(d)
  \/ \E s \in Syncs : Start(s) \/ Work(s) \/ Err(s) \/ Lose(s)

Spec == Init /\ [][Next]_vars

\* The hook's timer starts a sync, and the server goes on with it.
FairSpec ==
  /\ Spec
  /\ WF_vars(\E s \in Syncs : Start(s))
  /\ \A s \in Syncs : WF_vars(Work(s))

-----------------------------------------------------------------------------
(* Properties                                                              *)

\* The meeting cannot take the draft any more.
Superseded(d) ==
  /\ d \notin meeting.applied
  /\ meeting.published \/ ~Current(d)

\* The device lets go of a draft only when it has been applied, with answers
\* lost, events processed again, and several syncs under way.
RemovedIsApplied ==
  \A d \in Drafts : Made(d) /\ d \notin outbox => d \in meeting.applied

\* A draft that is reported as conflicting was not applied and never will be:
\* nobody is told to resolve a conflict over minutes that are there.
RefusedIsSuperseded ==
  \A s \in Syncs : \A d \in Told(s, {"REFUSED"}) : Superseded(d)

\* The device, its syncs and the online edits together implement what the
\* minutes promise.
DraftState(d) ==
  CASE ~Made(d) -> "none"
    [] Made(d) /\ d \notin outbox -> "acknowledged"
    [] d \in outbox /\ d \in meeting.applied -> "applied"
    [] d \in outbox /\ d \notin meeting.applied /\ Current(d) -> "fresh"
    [] OTHER -> "stale"

Register == INSTANCE MinutesRegister WITH
  minutes <- meeting.content,
  published <- meeting.published,
  draft <- [d \in Drafts |-> DraftState(d)]

\* Seen through DraftState, every step is a step of MinutesRegister.
ImplementsRegister == Register!Spec

\* Every draft that is kept is sooner or later applied, unless the meeting has
\* moved on: drafts that conflict stay and are sent again for ever, but hold up
\* nobody, as long as a batch has room for all.
EventuallyApplied ==
  \A d \in Drafts :
    d \in outbox ~> (d \in meeting.applied \/ Superseded(d))

\* The device is told of it, whatever answers were lost, and lets the draft go,
\* unless some draft it keeps conflicts: the answer to a batch of duplicates
\* and conflicts is a 503.
EventuallyRemoved ==
  \A d \in Drafts :
    d \in outbox ~> (d \notin outbox \/ \E e \in outbox : Superseded(e))

=============================================================================
