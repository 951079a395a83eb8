------------------------ MODULE OfflineDraftsProofs -------------------------
(***************************************************************************)
(* Proofs about OfflineDrafts, for any editors, texts, drafts, syncs and   *)
(* bounds.                                                                 *)
(*                                                                         *)
(* The inductive invariant says that what was read stays true for as long  *)
(* as the revision it was read at is the present one (MeetingInv), and     *)
(* what a sync knows of the draft it has in hand and of those it has done: *)
(* a draft it reports as accepted was applied, one it reports as           *)
(* conflicting is superseded, one it is about to apply at the present      *)
(* revision does not meet published minutes (SyncInv).  These facts are    *)
(* kept by every step because a revision is never used twice and drafts    *)
(* are never taken out of the applied ones (lemma Lasting).                *)
(***************************************************************************)
EXTENDS OfflineDrafts, TLAPS

MeetingInv ==
  /\ meeting.open <= meeting.revision
  /\ meeting.published => meeting.open < meeting.revision
  /\ \A p \in Editors :
       /\ edit[p].expected <= meeting.revision
       /\ edit[p].op = "save" => edit[p].text \in Texts \cup {Blank}
  /\ RevisionIdentifies

\* The drafts with a saved result.
Answered == {d \in Drafts : answered[d] # "none"}

KeptInv ==
  /\ \A d \in Drafts : kept[d].expected <= meeting.revision
  /\ \A d \in outbox \cup meeting.applied : Made(d)
  /\ recorded \cup Answered \subseteq meeting.applied
  /\ RemovedIsApplied

\* A draft that is applied if it matches meets minutes that are not published.
Safe(d) == Current(d) => ~meeting.published

Outdated(d) == kept[d].expected < meeting.revision

SyncInv(s) ==
  LET d == sync[s].now
  IN /\ \A e \in sync[s].rest : Made(e)
     /\ Told(s, Acceptance) \subseteq meeting.applied
     /\ \A e \in Told(s, {"REFUSED"}) : Made(e) /\ Superseded(e)
     /\ At(s, "apply") => Safe(d)
     /\ At(s, "reread") => d \in meeting.applied \/ Outdated(d)
     /\ At(s, "record") \/ At(s, "accept") \/ At(s, "repeat")
          => d \in meeting.applied

IInv ==
  /\ TypeOK
  /\ MeetingInv
  /\ KeptInv
  /\ \A s \in Syncs : SyncInv(s)

-----------------------------------------------------------------------------
(* What a step does to the meeting                                         *)

\* An update by a request that matches.
Stored(p) ==
  /\ edit[p].op # "none" /\ edit[p].expected = meeting.revision
  /\ meeting' = Edited(p)
  /\ edit' = [edit EXCEPT ![p] = NoEdit]
  /\ UNCHANGED <<kept, outbox, sync, recorded, answered>>

\* An update by a draft that matches.
DraftApplied(s) ==
  LET d == sync[s].now
  IN /\ At(s, "apply") /\ Current(d) /\ d \notin meeting.applied
     /\ meeting' = Applied(d)
     /\ Go(s, "record")
     /\ UNCHANGED <<edit, kept, outbox, recorded, answered>>

\* The meeting changes in two ways only.
LEMMA MeetingSteps ==
  ASSUME [Next]_vars
  PROVE  \/ meeting' = meeting
         \/ \E p \in Editors : Stored(p)
         \/ \E s \in Syncs : DraftApplied(s)
<1>1. CASE Online
  <2>1. PICK p \in Editors :
          \/ UNCHANGED meeting
          \/ Store(p)
    BY <1>1 DEF Online, MeetingNext, Save, Publish, Change, Request, Lapse
  <2> QED
    BY <1>1, <2>1 DEF Online, Store, Stored
<1>2. CASE \E s \in Syncs : Work(s)
  <2>1. PICK s \in Syncs : Work(s)
    BY <1>2
  <2>2. meeting' = meeting \/ (Apply(s) /\ UNCHANGED outbox)
    <3>1. (Process(s) /\ UNCHANGED outbox) \/ Answer(s)
      BY <2>1 DEF Work
    <3>2. UNCHANGED serverVars => meeting' = meeting
      BY DEF serverVars
    <3>3. Take(s) \/ Find(s) \/ Read(s) \/ Reread(s) \/ Answer(s)
            => UNCHANGED serverVars
      <4>1. Take(s) => UNCHANGED serverVars
        BY Zenon DEF Take
      <4>2. Find(s) => UNCHANGED serverVars
        BY Zenon DEF Find
      <4>3. Read(s) => UNCHANGED serverVars
        BY Zenon DEF Read
      <4>4. Reread(s) => UNCHANGED serverVars
        BY Zenon DEF Reread
      <4>5. Answer(s) => UNCHANGED serverVars
        BY Zenon DEF Answer
      <4> QED
        BY <4>1, <4>2, <4>3, <4>4, <4>5
    <3>4. Persist(s) \/ SaveResult(s) => meeting' = meeting
      BY DEF Persist, SaveResult
    <3> QED
      BY <3>1, <3>2, <3>3, <3>4 DEF Process
  <2> QED
    BY <2>1, <2>2 DEF Apply, DraftApplied, Work
<1> QED
  BY <1>1, <1>2 DEF Next, Keep, Start, Err, Lose, serverVars, vars

LEMMA RevisedIs ==
  ASSUME meeting \in Meeting
  PROVE  /\ Revised \in Meeting
         /\ Revised.revision = meeting.revision + 1
         /\ Revised.applied = meeting.applied
         /\ Revised.content = meeting.content
         /\ Revised.published = meeting.published
         /\ Revised.open = IF meeting.published THEN meeting.open
                           ELSE meeting.open + 1
<1> DEFINE open == IF meeting.published THEN meeting.open ELSE meeting.open + 1
<1>1. /\ meeting.revision \in Nat \ {0} /\ meeting.open \in Nat \ {0}
      /\ meeting.published \in BOOLEAN
  BY DEF Meeting
<1>2. meeting.revision + 1 \in Nat \ {0} /\ open \in Nat \ {0}
  BY <1>1
<1> HIDE DEF open
<1>3. Revised = [meeting EXCEPT !.revision = meeting.revision + 1, !.open = open]
  BY DEF Revised, open
<1>4. Revised \in Meeting
  BY <1>2, <1>3 DEF Meeting
<1> QED
  BY <1>3, <1>4 DEF Meeting, open

LEMMA EditedIs ==
  ASSUME TypeOK, MeetingInv, NEW p \in Editors, Stored(p)
  PROVE  /\ meeting' \in Meeting
         /\ meeting'.revision = meeting.revision + 1
         /\ meeting'.applied = meeting.applied
         /\ meeting'.open <= meeting'.revision
         /\ meeting'.published => meeting'.open < meeting'.revision
         /\ edit[p].op = "save" =>
              /\ meeting'.content = edit[p].text /\ ~meeting'.published
              /\ ~meeting.published
         /\ edit[p].op = "publish" =>
              /\ meeting'.content = meeting.content /\ meeting'.published
              /\ ~meeting.published /\ meeting.content # Blank
         /\ edit[p].op = "other" =>
              /\ meeting'.content = meeting.content
              /\ meeting'.published = meeting.published
         /\ edit[p].op \in {"save", "publish", "other"}
<1>1. meeting \in Meeting /\ edit[p] \in Edit
  BY DEF TypeOK, MeetingTypeOK
<1>2. /\ Revised \in Meeting
      /\ Revised.revision = meeting.revision + 1
      /\ Revised.applied = meeting.applied
      /\ Revised.content = meeting.content
      /\ Revised.published = meeting.published
      /\ Revised.open = IF meeting.published THEN meeting.open
                        ELSE meeting.open + 1
  BY <1>1, RevisedIs
<1>3. edit[p].op \in {"save", "publish", "other"} /\ edit[p].text \in Contents
  BY <1>1 DEF Edit, Stored
<1>4. meeting.open \in Nat /\ meeting.revision \in Nat
  BY <1>1 DEF Meeting
<1>5. edit[p].op \in {"save", "publish"} =>
        /\ ~meeting.published
        /\ edit[p].op = "publish" =>
             edit[p].text = meeting.content /\ meeting.content # Blank
  BY DEF Stored, MeetingInv, RevisionIdentifies
<1>6. meeting' = Edited(p)
  BY DEF Stored
<1>7. CASE edit[p].op = "save"
  <2>1. meeting' = [Revised EXCEPT !.content = edit[p].text,
                                   !.published = FALSE]
    BY <1>6, <1>7 DEF Edited
  <2>2. meeting' \in Meeting
    BY <1>2, <1>3, <2>1 DEF Meeting
  <2>3. /\ meeting'.revision = Revised.revision
        /\ meeting'.applied = Revised.applied
        /\ meeting'.open = Revised.open
        /\ meeting'.content = edit[p].text
        /\ meeting'.published = FALSE
    BY <1>2, <2>1 DEF Meeting
  <2> QED
    BY <1>2, <1>4, <1>5, <1>7, <2>2, <2>3 DEF MeetingInv
<1>8. CASE edit[p].op = "publish"
  <2>1. meeting' = [Revised EXCEPT !.content = edit[p].text,
                                   !.published = TRUE,
                                   !.open = meeting.open]
    BY <1>6, <1>8 DEF Edited
  <2>2. meeting' \in Meeting
    BY <1>1, <1>2, <1>3, <2>1 DEF Meeting
  <2>3. /\ meeting'.revision = Revised.revision
        /\ meeting'.applied = Revised.applied
        /\ meeting'.open = meeting.open
        /\ meeting'.content = edit[p].text
        /\ meeting'.published = TRUE
    BY <1>2, <2>1 DEF Meeting
  <2> QED
    BY <1>2, <1>4, <1>5, <1>8, <2>2, <2>3 DEF MeetingInv
<1>9. CASE edit[p].op = "other"
  <2>1. meeting' = Revised
    BY <1>6, <1>9 DEF Edited
  <2> QED
    BY <1>2, <1>4, <1>9, <2>1 DEF MeetingInv
<1> QED
  BY <1>3, <1>7, <1>8, <1>9

LEMMA AppliedIs ==
  ASSUME TypeOK, MeetingInv, NEW s \in Syncs, SyncInv(s), DraftApplied(s)
  PROVE  /\ sync[s].now \in Drafts /\ ~meeting.published
         /\ meeting' \in Meeting
         /\ meeting'.revision = meeting.revision + 1
         /\ meeting'.applied = meeting.applied \cup {sync[s].now}
         /\ meeting'.content = sync[s].now
         /\ ~meeting'.published
         /\ meeting'.open <= meeting'.revision
<1> DEFINE d == sync[s].now
<1>1. meeting \in Meeting /\ sync[s] \in Sync
  BY DEF TypeOK, MeetingTypeOK
<1>2. d \in Drafts
  BY <1>1 DEF TypeOK, DraftApplied, At, Sync
<1>3. ~meeting.published
  BY DEF DraftApplied, SyncInv, Safe
<1>4. /\ Revised \in Meeting
      /\ Revised.revision = meeting.revision + 1
      /\ Revised.applied = meeting.applied
      /\ Revised.open = meeting.open + 1
  BY <1>1, <1>3, RevisedIs
<1>5. meeting' = [Revised EXCEPT !.content = d, !.published = FALSE,
                                 !.applied = @ \cup {d}]
  BY DEF DraftApplied, Applied
<1>6. meeting' \in Meeting
  BY <1>2, <1>4, <1>5 DEF Meeting, Contents
<1>7. /\ meeting'.revision = Revised.revision
      /\ meeting'.applied = Revised.applied \cup {d}
      /\ meeting'.open = Revised.open
      /\ meeting'.content = d
      /\ meeting'.published = FALSE
  BY <1>4, <1>5 DEF Meeting
<1>8. meeting.open \in Nat /\ meeting.revision \in Nat
  BY <1>1 DEF Meeting
<1> QED
  BY <1>2, <1>3, <1>4, <1>6, <1>7, <1>8 DEF MeetingInv

\* What is known of a draft lasts.
LEMMA Lasting ==
  ASSUME IInv, [Next]_vars, NEW d \in Drafts
  PROVE  /\ d \in meeting.applied => d \in meeting'.applied
         /\ Made(d) => /\ kept'[d] = kept[d] /\ Made(d)'
                       /\ Superseded(d) => Superseded(d)'
                       /\ Safe(d) => Safe(d)'
                       /\ Outdated(d) => Outdated(d)'
<1>1. TypeOK /\ MeetingInv /\ KeptInv
  BY DEF IInv
<1>2. meeting \in Meeting /\ kept[d] \in Kept /\ meeting.revision \in Nat
      /\ kept[d].expected \in Nat /\ kept[d].expected <= meeting.revision
  BY <1>1 DEF TypeOK, MeetingTypeOK, KeptInv, Kept, Meeting
<1>3. Made(d) => kept'[d] = kept[d] /\ Made(d)'
  <2>1. kept' = kept \/ \E e \in Drafts : Keep(e)
    BY DEF Next, Online, Start, Work, Err, Lose, vars
  <2>2. ASSUME NEW e \in Drafts, Keep(e), Made(d)
        PROVE  kept'[d] = kept[d]
    BY <1>1, <2>2 DEF Keep, TypeOK
  <2> QED
    BY <2>1, <2>2 DEF Made
<1>4. CASE meeting' = meeting
  BY <1>3, <1>4 DEF Superseded, Safe, Outdated, Current
<1>5. ASSUME NEW p \in Editors, Stored(p)
      PROVE  /\ meeting'.applied = meeting.applied
             /\ kept[d].expected < meeting'.revision
  BY <1>1, <1>2, <1>5, EditedIs
<1>6. ASSUME NEW s \in Syncs, DraftApplied(s)
      PROVE  /\ meeting.applied \subseteq meeting'.applied
             /\ kept[d].expected < meeting'.revision
             /\ Superseded(d) => d \notin meeting'.applied
  <2>1. /\ ~meeting.published /\ meeting'.revision = meeting.revision + 1
        /\ meeting'.applied = meeting.applied \cup {sync[s].now}
    BY <1>1, <1>6, AppliedIs DEF IInv
  <2>2. Current(sync[s].now)
    BY <1>6 DEF DraftApplied
  <2> QED
    BY <1>2, <2>1, <2>2 DEF Superseded
<1>7. CASE meeting' # meeting
  <2>1. /\ meeting.applied \subseteq meeting'.applied
        /\ kept[d].expected < meeting'.revision
        /\ Superseded(d) => d \notin meeting'.applied
    BY <1>5, <1>6, <1>7, MeetingSteps DEF Superseded
  <2>2. meeting'.revision \in Nat
    BY <1>1, <1>2, <1>7, MeetingSteps, EditedIs, AppliedIs DEF IInv
  <2> QED
    BY <1>2, <1>3, <2>1, <2>2 DEF Superseded, Safe, Outdated, Current
<1> QED
  BY <1>4, <1>7

-----------------------------------------------------------------------------
(* What a step does to a sync                                              *)

\* The last conjunct of TypeOK.
Placed(s) ==
  IF sync[s].at \in {"idle", "next"}
  THEN sync[s].now = NoDraft
  ELSE sync[s].now \in sync[s].rest

\* Only s moves, and what it knows is true.
Moves(s) ==
  /\ sync' \in [Syncs -> Sync]
  /\ \A t \in Syncs \ {s} : sync'[t] = sync[t]
  /\ Placed(s)' /\ SyncInv(s)'

LEMMA SyncTyped ==
  ASSUME TypeOK, NEW s \in Syncs
  PROVE  /\ sync[s] \in Sync /\ Placed(s)
         /\ sync[s].at \notin {"idle", "next"} =>
              sync[s].now \in Drafts /\ sync[s].now \in sync[s].rest
BY DEF TypeOK, Placed, Sync

LEMMA LeaveMoves ==
  ASSUME IInv, [Next]_vars, NEW s \in Syncs, NEW d \in Drafts,
         NEW outcome \in Acceptance \cup Failure,
         Leave(s, d, outcome),
         outcome \in Acceptance => d \in meeting.applied,
         outcome = "REFUSED" => Made(d) /\ Superseded(d)
  PROVE  Moves(s)
<1> DEFINE told == [sync[s].told EXCEPT ![d] = outcome]
           next == [at |-> "next", rest |-> sync[s].rest \ {d},
                    now |-> NoDraft, told |-> told]
<1>1. TypeOK /\ SyncInv(s) /\ sync[s] \in Sync
  BY SyncTyped DEF IInv
<1>2. /\ sync[s].rest \subseteq Drafts
      /\ sync[s].told \in [Drafts -> Acceptance \cup Failure \cup {"none"}]
  BY <1>1 DEF Sync
<1>3. /\ told \in [Drafts -> Acceptance \cup Failure \cup {"none"}]
      /\ told[d] = outcome /\ \A e \in Drafts \ {d} : told[e] = sync[s].told[e]
  BY <1>2
<1> HIDE DEF told
<1>4. next \in Sync
  BY <1>2, <1>3 DEF Sync
<1>5. sync' = [sync EXCEPT ![s] = next]
  BY DEF Leave, told
<1>6. /\ sync' \in [Syncs -> Sync] /\ sync'[s] = next
      /\ \A t \in Syncs \ {s} : sync'[t] = sync[t]
  BY <1>1, <1>4, <1>5 DEF TypeOK
<1>7. Placed(s)'
  BY <1>6 DEF Placed
<1>8. \A e \in Drafts :
        /\ told[e] \in Acceptance => e \in meeting.applied
        /\ told[e] = "REFUSED" => Made(e) /\ Superseded(e)
  BY <1>1, <1>3 DEF SyncInv, Told
<1>9. /\ \A e \in next.rest : Made(e)'
      /\ \A e \in Drafts :
           /\ told[e] \in Acceptance => e \in meeting'.applied
           /\ told[e] = "REFUSED" => Made(e)' /\ Superseded(e)'
  BY <1>1, <1>2, <1>8, Lasting DEF SyncInv
<1>10. SyncInv(s)'
  <2>1. sync'[s].at = "next" /\ sync'[s].told = told
        /\ sync'[s].rest = next.rest
    BY <1>6
  <2>2. /\ Told(s, Acceptance)' \subseteq meeting'.applied
        /\ \A e \in Told(s, {"REFUSED"})' : Made(e)' /\ Superseded(e)'
    BY <1>9, <2>1 DEF Told
  <2> QED
    BY <1>9, <2>1, <2>2 DEF SyncInv, At
<1> QED
  BY <1>6, <1>7, <1>10 DEF Moves

LEMMA GoMoves ==
  ASSUME IInv, [Next]_vars, NEW s \in Syncs, NEW d \in Drafts,
         d = sync[s].now, d \in sync[s].rest,
         NEW where \in {"load", "apply", "reread", "record", "accept",
                        "repeat"},
         Go(s, where),
         where = "apply" => Safe(d)',
         where = "reread" => d \in meeting'.applied \/ Outdated(d)',
         where \in {"record", "accept", "repeat"} => d \in meeting'.applied
  PROVE  Moves(s)
<1>1. TypeOK /\ SyncInv(s) /\ sync[s] \in Sync
  BY SyncTyped DEF IInv
<1>2. /\ sync' \in [Syncs -> Sync]
      /\ sync'[s] = [sync[s] EXCEPT !.at = where]
      /\ \A t \in Syncs \ {s} : sync'[t] = sync[t]
  <2>1. [sync[s] EXCEPT !.at = where] \in Sync
    BY <1>1 DEF Sync
  <2> QED
    BY <1>1, <2>1 DEF Go, TypeOK
<1>3. /\ sync'[s].at = where /\ sync'[s].now = d
      /\ sync'[s].rest = sync[s].rest /\ sync'[s].told = sync[s].told
  BY <1>1, <1>2 DEF Sync
<1>4. Placed(s)'
  BY <1>3 DEF Placed
<1>5. /\ \A e \in sync[s].rest : Made(e)'
      /\ Told(s, Acceptance) \subseteq meeting'.applied
      /\ \A e \in Told(s, {"REFUSED"}) : Made(e)' /\ Superseded(e)'
  BY <1>1, Lasting DEF SyncInv, Sync, Told
<1>6. SyncInv(s)'
  BY <1>3, <1>5 DEF SyncInv, At, Told, Safe, Outdated, Current
<1> QED
  BY <1>2, <1>4, <1>6 DEF Moves

\* Fresh syncs, and those that end.
LEMMA ResetMoves ==
  ASSUME IInv, [Next]_vars, NEW s \in Syncs, NEW place \in {"idle", "next"},
         NEW rest \in SUBSET Drafts, \A e \in rest : Made(e),
         sync' = [sync EXCEPT ![s] = Between(place, rest)]
  PROVE  Moves(s)
<1> DEFINE next == Between(place, rest)
<1>1. TypeOK
  BY DEF IInv
<1>2. next \in Sync
  BY DEF Sync, Between
<1>3. /\ sync' \in [Syncs -> Sync] /\ sync'[s] = next
      /\ \A t \in Syncs \ {s} : sync'[t] = sync[t]
  BY <1>1, <1>2 DEF TypeOK
<1>4. \A e \in rest : Made(e)'
  BY Lasting
<1> QED
  BY <1>3, <1>4 DEF Moves, Placed, SyncInv, At, Told, Between,
                    Acceptance

LEMMA SyncStands ==
  ASSUME IInv, [Next]_vars, NEW t \in Syncs, sync'[t] = sync[t]
  PROVE  Placed(t)' /\ SyncInv(t)'
<1>1. SyncInv(t) /\ sync[t] \in Sync /\ Placed(t)
      /\ (sync[t].at \notin {"idle", "next"} =>
            sync[t].now \in Drafts /\ sync[t].now \in sync[t].rest)
  BY SyncTyped DEF IInv
<1> DEFINE d == sync[t].now
<1>2. /\ \A e \in sync[t].rest : Made(e)'
      /\ Told(t, Acceptance) \subseteq meeting'.applied
      /\ \A e \in Told(t, {"REFUSED"}) : Made(e)' /\ Superseded(e)'
  BY <1>1, Lasting DEF SyncInv, Sync, Told
<1>3. CASE sync[t].at \in {"idle", "next"}
  BY <1>1, <1>2, <1>3 DEF Placed, SyncInv, At, Told
<1>4. CASE sync[t].at \notin {"idle", "next"}
  <2>1. PICK e \in Drafts : e = d /\ Made(e)
    BY <1>1, <1>4 DEF SyncInv
  <2>2. /\ At(t, "apply") => Safe(e)'
        /\ At(t, "reread") => e \in meeting'.applied \/ Outdated(e)'
        /\ At(t, "record") \/ At(t, "accept") \/ At(t, "repeat")
             => e \in meeting'.applied
    BY <1>1, <2>1, Lasting DEF SyncInv
  <2> QED
    BY <1>1, <1>2, <2>1, <2>2
    DEF Placed, SyncInv, At, Told, Safe, Outdated, Current
<1> QED
  BY <1>3, <1>4

LEMMA PutMoves ==
  ASSUME IInv, [Next]_vars, NEW s \in Syncs, NEW where \in {"next", "find"},
         NEW d \in Drafts \cup {NoDraft},
         where = "next" => d = NoDraft,
         where = "find" => d \in sync[s].rest,
         sync' = [sync EXCEPT ![s] = [sync[s] EXCEPT !.at = where, !.now = d]]
  PROVE  Moves(s)
<1>1. TypeOK /\ SyncInv(s) /\ sync[s] \in Sync
  BY SyncTyped DEF IInv
<1>2. [sync[s] EXCEPT !.at = where, !.now = d] \in Sync
  BY <1>1 DEF Sync
<1>3. /\ sync' \in [Syncs -> Sync]
      /\ sync'[s] = [sync[s] EXCEPT !.at = where, !.now = d]
      /\ \A t \in Syncs \ {s} : sync'[t] = sync[t]
  BY <1>1, <1>2 DEF TypeOK
<1>4. /\ sync'[s].at = where /\ sync'[s].now = d
      /\ sync'[s].rest = sync[s].rest /\ sync'[s].told = sync[s].told
  BY <1>1, <1>3 DEF Sync
<1>5. Placed(s)'
  BY <1>4 DEF Placed
<1>6. /\ \A e \in sync[s].rest : Made(e)'
      /\ Told(s, Acceptance) \subseteq meeting'.applied
      /\ \A e \in Told(s, {"REFUSED"}) : Made(e)' /\ Superseded(e)'
  BY <1>1, Lasting DEF SyncInv, Sync, Told
<1>7. SyncInv(s)'
  BY <1>4, <1>6 DEF SyncInv, At, Told
<1> QED
  BY <1>3, <1>5, <1>7 DEF Moves

LEMMA TakeMoves ==
  ASSUME IInv, [Next]_vars, NEW s \in Syncs, Take(s)
  PROVE  Moves(s)
<1>1. PICK d \in Drafts :
        /\ d \in sync[s].rest
        /\ IF answered[d] # "none"
           THEN Leave(s, d, answered[d])
           ELSE sync' = [sync EXCEPT
                           ![s] = [sync[s] EXCEPT !.at = "find", !.now = d]]
  BY DEF Take, Oldest
<1>2. /\ Answered \subseteq meeting.applied
      /\ answered[d] \in Acceptance \cup {"none"}
  BY DEF IInv, KeptInv, TypeOK
<1>3. CASE answered[d] # "none"
  <2>1. /\ Leave(s, d, answered[d]) /\ d \in meeting.applied
        /\ answered[d] \in Acceptance
    BY <1>1, <1>2, <1>3 DEF Answered
  <2>2. answered[d] # "REFUSED"
    BY <2>1 DEF Acceptance
  <2> QED
    BY <2>1, <2>2, LeaveMoves
<1>4. CASE answered[d] = "none"
  BY <1>1, <1>4, PutMoves
<1> QED
  BY <1>3, <1>4

LEMMA ReadMoves ==
  ASSUME IInv, [Next]_vars, NEW s \in Syncs,
         Find(s) \/ Read(s) \/ Reread(s)
  PROVE  Moves(s)
<1>1. TypeOK /\ SyncInv(s) /\ recorded \subseteq meeting.applied
  BY DEF IInv, KeptInv
<1>2. sync[s].at \in {"find", "load", "reread"}
  BY DEF Find, Read, Reread, At
<1>3. PICK d \in Drafts : d = sync[s].now /\ d \in sync[s].rest /\ Made(d)
  BY <1>1, <1>2, SyncTyped DEF SyncInv
<1>4. \/ d \in meeting.applied
         /\ \E where \in {"load", "record", "repeat"} : Go(s, where)
      \/ Go(s, "load")
      \/ d \notin meeting.applied /\ (meeting.published \/ ~Current(d))
         /\ Leave(s, d, "REFUSED")
      \/ ~meeting.published /\ Go(s, "apply")
  <2>1. CASE Find(s)
    BY <1>1, <1>3, <2>1 DEF Find
  <2>2. CASE Read(s)
    BY <1>3, <2>2 DEF Read
  <2>3. CASE Reread(s)
    <3>1. ~Outdated(d) \/ ~Current(d)
      <4>1. kept[d].expected \in Nat
        BY <1>1 DEF TypeOK, Kept
      <4> QED
        BY <4>1 DEF Outdated, Current
    <3> QED
      BY <1>1, <1>3, <2>3, <3>1 DEF Reread, SyncInv
  <2> QED
    BY <2>1, <2>2, <2>3
<1>5. CASE d \in meeting.applied
           /\ \E where \in {"load", "record", "repeat"} : Go(s, where)
  <2>1. d \in meeting'.applied
    BY <1>5, Lasting
  <2> QED
    BY <1>3, <1>5, <2>1, GoMoves
<1>6. CASE Go(s, "load")
  BY <1>3, <1>6, GoMoves
<1>7. CASE d \notin meeting.applied /\ (meeting.published \/ ~Current(d))
           /\ Leave(s, d, "REFUSED")
  <2>1. Superseded(d)
    BY <1>7 DEF Superseded
  <2>2. "REFUSED" \in Failure /\ "REFUSED" \notin Acceptance
    BY DEF Acceptance, Failure
  <2> QED
    BY <1>3, <1>7, <2>1, <2>2, LeaveMoves
<1>8. CASE ~meeting.published /\ Go(s, "apply")
  <2>1. Safe(d)'
    BY <1>3, <1>8, Lasting DEF Safe
  <2> QED
    BY <1>3, <1>8, <2>1, GoMoves
<1> QED
  BY <1>4, <1>5, <1>6, <1>7, <1>8

LEMMA WriteMoves ==
  ASSUME IInv, [Next]_vars, NEW s \in Syncs,
         UNCHANGED <<edit, kept, outbox>>,
         Apply(s) \/ Persist(s) \/ SaveResult(s)
  PROVE  Moves(s)
<1>1. TypeOK /\ MeetingInv /\ KeptInv /\ SyncInv(s)
  BY DEF IInv
<1>2. sync[s].at \in {"apply", "record", "accept", "repeat"}
  BY DEF Apply, Persist, SaveResult, At
<1>3. PICK d \in Drafts : d = sync[s].now /\ d \in sync[s].rest /\ Made(d)
  BY <1>1, <1>2, SyncTyped DEF SyncInv
<1>4. CASE Apply(s)
  <2>1. CASE Current(d) /\ d \notin meeting.applied
    <3>1. DraftApplied(s)
      BY <1>3, <1>4, <2>1 DEF Apply, DraftApplied
    <3>2. d \in meeting'.applied
      BY <1>1, <1>3, <3>1, AppliedIs
    <3> QED
      BY <1>3, <3>1, <3>2, GoMoves DEF DraftApplied
  <2>2. CASE ~(Current(d) /\ d \notin meeting.applied)
    <3>1. Go(s, "reread") /\ meeting' = meeting
      BY <1>3, <1>4, <2>2 DEF Apply
    <3>2. d \in meeting.applied \/ Outdated(d)
      <4>1. /\ kept[d].expected \in Nat /\ meeting.revision \in Nat
            /\ kept[d].expected <= meeting.revision
        BY <1>1 DEF TypeOK, MeetingTypeOK, Kept, Meeting, KeptInv
      <4> QED
        BY <2>2, <4>1 DEF Outdated, Current
    <3>3. d \in meeting'.applied \/ Outdated(d)'
      BY <1>3, <3>2, Lasting
    <3> QED
      BY <1>3, <3>1, <3>3, GoMoves
  <2> QED
    BY <2>1, <2>2
<1>5. CASE Persist(s)
  <2>1. d \in meeting'.applied /\ Go(s, "accept")
    BY <1>1, <1>3, <1>5, Lasting DEF Persist, SyncInv
  <2> QED
    BY <1>3, <2>1, GoMoves
<1>6. CASE SaveResult(s)
  <2>1. PICK outcome \in Acceptance : Leave(s, d, outcome)
    BY <1>3, <1>6 DEF SaveResult, Acceptance
  <2>2. d \in meeting.applied
    BY <1>1, <1>3, <1>6 DEF SaveResult, SyncInv
  <2>3. outcome # "REFUSED"
    BY DEF Acceptance
  <2> QED
    BY <2>1, <2>2, <2>3, LeaveMoves
<1> QED
  BY <1>4, <1>5, <1>6

LEMMA SyncMoves ==
  ASSUME IInv, [Next]_vars, NEW s \in Syncs,
         Start(s) \/ Work(s) \/ Err(s) \/ Lose(s)
  PROVE  Moves(s)
<1>1. TypeOK /\ KeptInv
  BY DEF IInv
<1>2. CASE Start(s)
  <2>1. Batch \in SUBSET Drafts /\ \A e \in Batch : Made(e)
    BY <1>1 DEF Batch, TypeOK, KeptInv
  <2>2. sync' = [sync EXCEPT ![s] = Between("next", Batch)]
    BY <1>2 DEF Start
  <2> QED
    BY <2>1, <2>2, ResetMoves
<1>3. ASSUME sync' = [sync EXCEPT ![s] = NoSync]
      PROVE  Moves(s)
  <2>1. {} \in SUBSET Drafts /\ \A e \in {} : Made(e)
    OBVIOUS
  <2>2. sync' = [sync EXCEPT ![s] = Between("idle", {})]
    BY <1>3 DEF NoSync
  <2> QED
    BY <2>1, <2>2, ResetMoves
<1>4. CASE Work(s)
  <2>1. CASE Process(s) /\ UNCHANGED <<edit, kept, outbox>>
    BY <2>1, TakeMoves, ReadMoves, WriteMoves DEF Process
  <2>2. CASE Answer(s)
    BY <1>3, <2>2 DEF Answer
  <2> QED
    BY <1>4, <2>1, <2>2 DEF Work
<1>5. CASE Err(s)
  <2>1. PICK d \in Drafts :
          \/ Leave(s, d, "FAILED")
          \/ sync' = [sync EXCEPT
                        ![s] = [sync[s] EXCEPT !.at = "next", !.now = NoDraft]]
    BY <1>5 DEF Err
  <2>2. CASE Leave(s, d, "FAILED")
    <3>1. "FAILED" \in Failure /\ "FAILED" \notin Acceptance
      BY DEF Acceptance, Failure
    <3> QED
      BY <2>2, <3>1, LeaveMoves
  <2>3. CASE sync' = [sync EXCEPT
                        ![s] = [sync[s] EXCEPT !.at = "next", !.now = NoDraft]]
    BY <2>3, PutMoves
  <2> QED
    BY <2>1, <2>2, <2>3
<1>6. CASE Lose(s)
  BY <1>3, <1>6 DEF Lose
<1> QED
  BY <1>2, <1>4, <1>5, <1>6

\* After a step every sync is in order.
LEMMA SyncsKept ==
  ASSUME IInv, [Next]_vars
  PROVE  /\ sync' \in [Syncs -> Sync]
         /\ \A t \in Syncs : Placed(t)' /\ SyncInv(t)'
<1>1. CASE sync' = sync
  BY <1>1, SyncStands DEF IInv, TypeOK
<1>2. CASE \E s \in Syncs : Start(s) \/ Work(s) \/ Err(s) \/ Lose(s)
  <2>1. PICK s \in Syncs : Moves(s)
    BY <1>2, SyncMoves
  <2>2. \A t \in Syncs \ {s} : Placed(t)' /\ SyncInv(t)'
    BY <2>1, SyncStands DEF Moves
  <2> QED
    BY <2>1, <2>2 DEF Moves
<1> QED
  BY <1>1, <1>2 DEF Next, Online, Keep, vars

-----------------------------------------------------------------------------
(* The invariant                                                           *)

LEMMA Initial == Init => IInv
<1> SUFFICES ASSUME Init PROVE IInv
  OBVIOUS
<1>1. /\ meeting = [revision |-> 1, content |-> Blank, published |-> FALSE,
                    applied |-> {}, open |-> 1]
      /\ meeting \in Meeting
  BY DEF Init, MeetingInit, Meeting, Contents
<1>2. edit \in [Editors -> Edit] /\ \A p \in Editors : edit[p] = NoEdit
  <2>1. NoEdit \in Edit
    BY DEF NoEdit, Edit, Contents
  <2> QED
    BY <2>1 DEF Init, MeetingInit
<1>3. kept \in [Drafts -> Kept] /\ \A d \in Drafts : ~Made(d)
  BY DEF Init, Kept, Made
<1>4. /\ sync \in [Syncs -> Sync] /\ \A s \in Syncs : sync[s] = NoSync
      /\ \A s \in Syncs : Placed(s) /\ SyncInv(s)
  BY DEF Init, NoSync, Between, Sync, Placed, SyncInv, At, Told, Acceptance
<1>5. TypeOK
  BY <1>1, <1>2, <1>3, <1>4 DEF Init, TypeOK, MeetingTypeOK, Placed
<1>6. MeetingInv
  BY <1>1, <1>2 DEF MeetingInv, RevisionIdentifies, NoEdit
<1>7. KeptInv
  <2>1. \A d \in Drafts : kept[d].expected = 0
    BY DEF Init
  <2>2. Answered = {} /\ recorded = {} /\ outbox = {}
    BY DEF Init, Answered
  <2> QED
    BY <1>1, <1>3, <2>1, <2>2 DEF KeptInv, RemovedIsApplied
<1> QED
  BY <1>4, <1>5, <1>6, <1>7 DEF IInv

\* How the requests move.
LEMMA EditSteps ==
  ASSUME [Next]_vars, meeting' = meeting
  PROVE  \/ edit' = edit
         \/ \E p \in Editors : edit' = [edit EXCEPT ![p] = NoEdit]
         \/ \E p \in Editors, op \in {"save", "publish", "other"},
               text \in Texts \cup {Blank, meeting.content} :
              /\ edit' = [edit EXCEPT ![p] = [op |-> op,
                            expected |-> meeting.revision, text |-> text]]
              /\ op \in {"save", "publish"} => ~meeting.published
              /\ op = "save" => text \in Texts \cup {Blank}
              /\ op = "publish" => text = meeting.content /\ text # Blank
<1>1. CASE Online
  <2>1. PICK p \in Editors :
          \/ \E text \in Texts \cup {Blank} : Save(p, text)
          \/ Publish(p) \/ Change(p) \/ Store(p) \/ Lapse(p)
    BY <1>1 DEF Online, MeetingNext
  <2>2. CASE \E text \in Texts \cup {Blank} : Save(p, text)
    BY <2>2 DEF Save, Request
  <2>3. CASE Publish(p) \/ Change(p)
    BY <2>3 DEF Publish, Change, Request
  <2>4. CASE Store(p) \/ Lapse(p)
    BY <2>4 DEF Store, Lapse
  <2> QED
    BY <2>1, <2>2, <2>3, <2>4
<1> QED
  BY <1>1 DEF Next, Keep, Start, Work, Err, Lose, vars

LEMMA MeetingKept ==
  ASSUME IInv, [Next]_vars
  PROVE  MeetingTypeOK' /\ MeetingInv'
<1>1. TypeOK /\ MeetingInv /\ meeting \in Meeting /\ meeting.revision \in Nat
      /\ meeting.content \in Contents
  BY DEF IInv, TypeOK, MeetingTypeOK, Meeting
<1>2. NoEdit \in Edit /\ NoEdit.op = "none" /\ NoEdit.expected = 0
  BY DEF NoEdit, Edit, Contents
<1>3. \A p \in Editors : edit[p] \in Edit /\ edit[p].expected \in Nat
  BY <1>1 DEF TypeOK, MeetingTypeOK, Edit
\* A revision further no request matches.
<1>4. ASSUME meeting'.revision = meeting.revision + 1,
             meeting' \in Meeting,
             meeting'.open <= meeting'.revision,
             meeting'.published => meeting'.open < meeting'.revision,
             \/ edit' = edit
             \/ \E p \in Editors : edit' = [edit EXCEPT ![p] = NoEdit]
      PROVE  MeetingTypeOK' /\ MeetingInv'
  <2>1. /\ edit' \in [Editors -> Edit]
        /\ \A p \in Editors : edit'[p] \in {edit[p], NoEdit}
    BY <1>1, <1>2, <1>4 DEF TypeOK, MeetingTypeOK
  <2>2. \A p \in Editors : edit'[p].expected < meeting'.revision
    BY <1>1, <1>2, <1>3, <1>4, <2>1 DEF MeetingInv
  <2>3. \A p \in Editors :
          edit'[p].op = "save" => edit'[p].text \in Texts \cup {Blank}
    BY <1>1, <1>2, <2>1 DEF MeetingInv
  <2>4. meeting'.revision \in Nat
    BY <1>1, <1>4
  <2>5. RevisionIdentifies'
    BY <1>3, <1>2, <2>1, <2>2, <2>4 DEF RevisionIdentifies
  <2>6. \A p \in Editors : edit'[p].expected <= meeting'.revision
    BY <1>2, <1>3, <2>1, <2>2, <2>4
  <2> QED
    BY <1>4, <2>1, <2>3, <2>5, <2>6 DEF MeetingTypeOK, MeetingInv
<1>5. CASE meeting' = meeting
  <2>1. ASSUME NEW p \in Editors, NEW e \in Edit,
               edit' = [edit EXCEPT ![p] = e],
               e.expected <= meeting.revision,
               e.op = "save" => e.text \in Texts \cup {Blank},
               e.op \in {"save", "publish"} => ~meeting.published,
               e.op = "publish" => e.text = meeting.content /\ e.text # Blank
        PROVE  MeetingTypeOK' /\ MeetingInv'
    <3>1. /\ edit' \in [Editors -> Edit] /\ edit'[p] = e
          /\ \A q \in Editors \ {p} : edit'[q] = edit[q]
      BY <1>1, <2>1 DEF TypeOK, MeetingTypeOK
    <3>2. RevisionIdentifies'
      BY <1>1, <1>5, <2>1, <3>1 DEF RevisionIdentifies, MeetingInv
    <3> QED
      BY <1>1, <1>5, <2>1, <3>1, <3>2 DEF MeetingTypeOK, MeetingInv
  <2>2. CASE edit' = edit
    BY <1>1, <1>5, <2>2
    DEF TypeOK, MeetingTypeOK, MeetingInv, RevisionIdentifies
  <2>3. CASE \E p \in Editors : edit' = [edit EXCEPT ![p] = NoEdit]
    <3>1. /\ NoEdit.expected <= meeting.revision
          /\ NoEdit.op \notin {"save", "publish"}
      BY <1>1, <1>2
    <3> QED
      BY <1>2, <2>1, <2>3, <3>1
  <2>4. ASSUME NEW p \in Editors, NEW op \in {"save", "publish", "other"},
               NEW text \in Texts \cup {Blank, meeting.content},
               edit' = [edit EXCEPT ![p] = [op |-> op,
                          expected |-> meeting.revision, text |-> text]],
               op \in {"save", "publish"} => ~meeting.published,
               op = "save" => text \in Texts \cup {Blank},
               op = "publish" => text = meeting.content /\ text # Blank
        PROVE  MeetingTypeOK' /\ MeetingInv'
    <3> DEFINE e == [op |-> op, expected |-> meeting.revision, text |-> text]
    <3>1. e \in Edit
      BY <1>1 DEF Edit, Contents
    <3>2. edit' = [edit EXCEPT ![p] = e] /\ e.expected <= meeting.revision
      BY <1>1, <2>4
    <3>3. e.op = op /\ e.text = text
      OBVIOUS
    <3> HIDE DEF e
    <3> QED
      BY <2>1, <2>4, <3>1, <3>2, <3>3
  <2> QED
    BY <1>5, <2>2, <2>3, <2>4, EditSteps
<1>6. ASSUME NEW p \in Editors, Stored(p)
      PROVE  MeetingTypeOK' /\ MeetingInv'
  <2>1. edit' = [edit EXCEPT ![p] = NoEdit]
    BY <1>6 DEF Stored
  <2> QED
    BY <1>1, <1>4, <1>6, <2>1, EditedIs
<1>7. ASSUME NEW s \in Syncs, DraftApplied(s)
      PROVE  MeetingTypeOK' /\ MeetingInv'
  <2>1. edit' = edit /\ SyncInv(s)
    BY <1>7 DEF DraftApplied, IInv
  <2> QED
    BY <1>1, <1>4, <1>7, <2>1, AppliedIs
<1> QED
  BY <1>5, <1>6, <1>7, MeetingSteps

LEMMA RemovableIsApplied ==
  ASSUME NEW s \in Syncs, SyncInv(s)
  PROVE  Removable(s) \subseteq meeting.applied
BY DEF Removable, SyncInv

\* What becomes of the store of the device and of the server's records.
LEMMA RecordSteps ==
  ASSUME IInv, [Next]_vars
  PROVE  /\ recorded' \cup Answered' \subseteq meeting'.applied
         /\ \/ UNCHANGED <<kept, outbox>>
            \/ \E d \in Drafts : Keep(d)
            \/ kept' = kept /\ meeting' = meeting
               /\ \E done \in SUBSET meeting.applied : outbox' = outbox \ done
<1>1. TypeOK /\ recorded \cup Answered \subseteq meeting.applied
      /\ meeting.applied \subseteq Drafts
  BY DEF IInv, KeptInv, TypeOK, MeetingTypeOK, Meeting
<1>2. meeting.applied \subseteq meeting'.applied
  BY <1>1, Lasting
<1>3. CASE Online \/ (\E d \in Drafts : Keep(d)) \/ UNCHANGED vars
           \/ \E s \in Syncs : Start(s)
  BY <1>1, <1>2, <1>3 DEF Online, Keep, Start, vars, Answered
<1>4. ASSUME NEW s \in Syncs, Work(s)
      PROVE  /\ recorded' \cup Answered' \subseteq meeting'.applied
             /\ \/ UNCHANGED <<kept, outbox>>
                \/ kept' = kept /\ meeting' = meeting
                   /\ \E done \in SUBSET meeting.applied :
                        outbox' = outbox \ done
  <2>1. SyncInv(s) /\ kept' = kept
    BY <1>4 DEF IInv, Work
  <2>2. CASE (Take(s) \/ Find(s) \/ Read(s) \/ Apply(s) \/ Reread(s))
             /\ UNCHANGED outbox
    <3>1. UNCHANGED <<recorded, answered>>
      <4>1. Take(s) => UNCHANGED <<recorded, answered>>
        BY DEF Take, serverVars
      <4>2. Find(s) => UNCHANGED <<recorded, answered>>
        BY DEF Find, serverVars
      <4>3. Read(s) => UNCHANGED <<recorded, answered>>
        BY DEF Read, serverVars
      <4>4. Apply(s) \/ Reread(s) => UNCHANGED <<recorded, answered>>
        BY DEF Apply, Reread, serverVars
      <4> QED
        BY <2>2, <4>1, <4>2, <4>3, <4>4
    <3> QED
      BY <1>1, <1>2, <2>1, <2>2, <3>1 DEF Answered
  <2>3. CASE (Persist(s) \/ SaveResult(s)) /\ UNCHANGED outbox
    <3>1. sync[s].now \in meeting.applied
      BY <2>1, <2>3 DEF SyncInv, Persist, SaveResult, At
    <3>2. CASE Persist(s)
      BY <1>1, <1>2, <2>1, <2>3, <3>1, <3>2 DEF Persist, Answered
    <3>3. CASE SaveResult(s)
      <4>1. /\ \A e \in Drafts \ {sync[s].now} : answered'[e] = answered[e]
            /\ recorded' = recorded /\ meeting' = meeting
        BY <1>1, <3>3 DEF SaveResult, TypeOK
      <4>2. Answered' \subseteq Answered \cup {sync[s].now}
        BY <4>1 DEF Answered
      <4> QED
        BY <1>1, <2>1, <2>3, <3>1, <4>1, <4>2
    <3> QED
      BY <2>3, <3>2, <3>3
  <2>4. CASE Answer(s)
    <3>1. Removable(s) \in SUBSET meeting.applied
      BY <2>1, RemovableIsApplied
    <3> QED
      BY <1>1, <2>1, <2>4, <3>1 DEF Answer, serverVars, Answered
  <2> QED
    BY <1>4, <2>2, <2>3, <2>4 DEF Work, Process
<1>5. ASSUME NEW s \in Syncs, Err(s)
      PROVE  UNCHANGED <<kept, outbox, meeting, recorded, answered>>
  BY <1>5 DEF Err, serverVars
<1>6. ASSUME NEW s \in Syncs, Lose(s)
      PROVE  /\ UNCHANGED <<kept, meeting, recorded, answered>>
             /\ \E done \in SUBSET meeting.applied : outbox' = outbox \ done
  <2>1. SyncInv(s)
    BY DEF IInv
  <2> QED
    BY <1>6, <2>1, RemovableIsApplied DEF Lose, serverVars
<1> QED
  BY <1>1, <1>2, <1>3, <1>4, <1>5, <1>6 DEF Next, Answered

LEMMA KeptKept ==
  ASSUME IInv, [Next]_vars
  PROVE  /\ kept' \in [Drafts -> Kept] /\ outbox' \subseteq Drafts
         /\ KeptInv'
<1>1. TypeOK /\ MeetingInv /\ KeptInv /\ meeting \in Meeting
  BY DEF IInv, TypeOK, MeetingTypeOK
<1>2. MeetingTypeOK' /\ MeetingInv' /\ meeting' \in Meeting
  BY MeetingKept DEF MeetingTypeOK
<1>3. \A d \in Drafts : Made(d) => Made(d)' /\ kept'[d] = kept[d]
  BY Lasting
<1>4. meeting.revision <= meeting'.revision
  <2>1. meeting' = meeting \/ meeting'.revision = meeting.revision + 1
    BY <1>1, MeetingSteps, EditedIs, AppliedIs DEF IInv
  <2> QED
    BY <1>1, <1>2, <2>1 DEF Meeting
<1>5. \A d \in Drafts : d \in meeting'.applied \ meeting.applied => Made(d)
  <2>1. ASSUME NEW s \in Syncs, DraftApplied(s)
        PROVE  meeting'.applied = meeting.applied \cup {sync[s].now}
               /\ Made(sync[s].now)
    <3>1. SyncInv(s) /\ sync[s].now \in sync[s].rest
      BY <1>1, <2>1, SyncTyped DEF IInv, DraftApplied, At
    <3> QED
      BY <1>1, <2>1, <3>1, AppliedIs DEF SyncInv
  <2> QED
    BY <1>1, <2>1, MeetingSteps, EditedIs
<1>6. meeting.applied \subseteq meeting'.applied /\ meeting'.applied \subseteq Drafts
  BY <1>1, <1>2, Lasting DEF Meeting
<1>7. CASE \E d \in Drafts : Keep(d)
  <2>1. PICK d \in Drafts, shown \in 1..meeting.open :
          /\ Keep(d)
          /\ kept' = [kept EXCEPT ![d] = [expected |-> shown,
                        before |-> {e \in Drafts : Made(e)}]]
    BY <1>7 DEF Keep
  <2>2. shown \in Nat \ {0} /\ shown <= meeting.revision
    BY <1>1 DEF Meeting, MeetingInv
  <2>3. /\ kept' \in [Drafts -> Kept] /\ kept'[d].expected = shown
        /\ \A e \in Drafts \ {d} : kept'[e] = kept[e]
    <3>1. [expected |-> shown, before |-> {e \in Drafts : Made(e)}] \in Kept
      BY <2>2 DEF Kept
    <3> QED
      BY <1>1, <2>1, <3>1 DEF TypeOK
  <2>4. /\ meeting' = meeting /\ outbox' = outbox \cup {d}
        /\ recorded' = recorded /\ Answered' = Answered
    BY <2>1 DEF Keep, Answered
  <2>5. \A e \in Drafts : Made(e)' <=> Made(e) \/ e = d
    BY <2>2, <2>3 DEF Made
  <2>6. \A e \in Drafts : kept'[e].expected <= meeting'.revision
    BY <1>1, <2>2, <2>3, <2>4 DEF KeptInv
  <2> QED
    BY <1>1, <2>3, <2>4, <2>5, <2>6 DEF KeptInv, TypeOK, RemovedIsApplied, Meeting
<1>8. CASE kept' = kept
           /\ \E done \in SUBSET meeting.applied : outbox' = outbox \ done
  <2>1. \A d \in Drafts : kept[d].expected <= meeting'.revision
    BY <1>1, <1>2, <1>4 DEF KeptInv, TypeOK, Kept, Meeting
  <2> QED
    BY <1>1, <1>3, <1>5, <1>6, <1>8, <2>1, RecordSteps
    DEF KeptInv, TypeOK, RemovedIsApplied, Made
<1>9. UNCHANGED <<kept, outbox>> =>
        kept' = kept /\ \E done \in SUBSET meeting.applied : outbox' = outbox \ done
  <2>1. {} \in SUBSET meeting.applied /\ outbox \ {} = outbox
    OBVIOUS
  <2> QED
    BY <2>1
<1> QED
  BY <1>7, <1>8, <1>9, RecordSteps

LEMMA AnsweredTyped ==
  ASSUME IInv, [Next]_vars
  PROVE  answered' \in [Drafts -> Acceptance \cup {"none"}]
<1>1. TypeOK
  BY DEF IInv
<1>2. ASSUME NEW s \in Syncs, SaveResult(s)
      PROVE  answered' \in [Drafts -> Acceptance \cup {"none"}]
  BY <1>1, <1>2 DEF SaveResult, TypeOK, Acceptance
<1>3. ASSUME NEW s \in Syncs, Work(s)
      PROVE  answered' = answered \/ SaveResult(s)
  BY <1>3 DEF Work, Process, Take, Find, Read, Apply, Reread, Persist,
              Answer, serverVars
<1> QED
  BY <1>1, <1>2, <1>3
  DEF Next, Online, Keep, Start, Err, Lose, serverVars, vars, TypeOK

LEMMA Inductive == IInv /\ [Next]_vars => IInv'
<1> SUFFICES ASSUME IInv, [Next]_vars PROVE IInv'
  OBVIOUS
<1>1. /\ recorded' \subseteq Drafts
      /\ answered' \in [Drafts -> Acceptance \cup {"none"}]
      /\ faults' \in Nat
  <2>1. recorded' \cup Answered' \subseteq meeting'.applied
    BY RecordSteps
  <2>2. meeting'.applied \subseteq Drafts
    BY MeetingKept DEF MeetingTypeOK, Meeting
  <2>3. faults' = faults \/ faults' = faults + 1
    BY DEF Next, Online, Keep, Start, Work, Err, Lose, Fault, vars
  <2>4. answered' \in [Drafts -> Acceptance \cup {"none"}]
    BY AnsweredTyped
  <2> QED
    BY <2>1, <2>2, <2>3, <2>4 DEF IInv, TypeOK
<1>2. TypeOK'
  BY <1>1, MeetingKept, KeptKept, SyncsKept DEF TypeOK, Placed
<1> QED
  BY <1>2, MeetingKept, KeptKept, SyncsKept DEF IInv

LEMMA Invariance == Spec => []IInv
BY Initial, Inductive, PTL DEF Spec

-----------------------------------------------------------------------------
(* The theorems                                                            *)

\* Every variable keeps its type, whatever syncs, requests and faults there are.
THEOREM TypeCorrect == Spec => []TypeOK
BY Invariance, PTL DEF IInv

\* A request that matches when it is stored was decided on the present minutes.
THEOREM RevisionsIdentify == Spec => []RevisionIdentifies
<1>1. IInv => RevisionIdentifies
  BY DEF IInv, MeetingInv
<1> QED
  BY <1>1, Invariance, PTL

\* The device never loses a draft: one it no longer keeps was applied.
THEOREM RemovedWereApplied == Spec => []RemovedIsApplied
<1>1. IInv => RemovedIsApplied
  BY DEF IInv, KeptInv
<1> QED
  BY <1>1, Invariance, PTL

\* A draft that is reported as conflicting was not applied, and cannot be.
THEOREM RefusedAreSuperseded == Spec => []RefusedIsSuperseded
<1>1. IInv => RefusedIsSuperseded
  BY DEF IInv, SyncInv, RefusedIsSuperseded
<1> QED
  BY <1>1, Invariance, PTL

\* No request and no draft changes published minutes.
LEMMA PublishedStays ==
  ASSUME IInv, [Next]_vars, meeting.published
  PROVE  meeting'.published /\ meeting'.content = meeting.content
<1>1. TypeOK /\ MeetingInv /\ \A s \in Syncs : SyncInv(s)
  BY DEF IInv
<1>2. ASSUME NEW p \in Editors, Stored(p)
      PROVE  meeting'.published /\ meeting'.content = meeting.content
  BY <1>1, <1>2, EditedIs
<1>3. ASSUME NEW s \in Syncs PROVE ~DraftApplied(s)
  BY <1>1, AppliedIs
<1> QED
  BY <1>2, <1>3, MeetingSteps

\* Published minutes are final, whatever requests and drafts are under way.
THEOREM PublishedStaysPublished == Spec => PublishedIsFinal
<1>1. IInv /\ [Next]_vars =>
        [meeting.published =>
           meeting'.published /\ meeting'.content = meeting.content]_meetingVars
  BY PublishedStays
<1> QED
  BY <1>1, Invariance, PTL DEF Spec, PublishedIsFinal

-----------------------------------------------------------------------------
(* OfflineDrafts implements MinutesRegister                                *)

\* The state of a draft, without the overlap of the cases of DraftState.
StateIs(d) ==
  /\ ~Made(d) => DraftState(d) = "none"
  /\ Made(d) /\ d \notin outbox => DraftState(d) = "acknowledged"
  /\ Made(d) /\ d \in outbox /\ d \in meeting.applied
       => DraftState(d) = "applied"
  /\ Made(d) /\ d \in outbox /\ d \notin meeting.applied
       => DraftState(d) = IF Current(d) THEN "fresh" ELSE "stale"

LEMMA States ==
  ASSUME NEW d \in Drafts
  PROVE  KeptInv => StateIs(d)
<1> SUFFICES ASSUME KeptInv PROVE StateIs(d)
  OBVIOUS
<1>1. d \in outbox => Made(d)
  BY DEF KeptInv
<1>2. CASE ~Made(d)
  BY <1>1, <1>2 DEF StateIs, DraftState
<1>3. CASE Made(d) /\ d \notin outbox
  BY <1>3 DEF StateIs, DraftState
<1>4. CASE Made(d) /\ d \in outbox /\ d \in meeting.applied
  BY <1>4 DEF StateIs, DraftState
<1>5. CASE Made(d) /\ d \in outbox /\ d \notin meeting.applied
  BY <1>5 DEF StateIs, DraftState
<1> QED
  BY <1>2, <1>3, <1>4, <1>5

LEMMA StatesNext ==
  ASSUME NEW d \in Drafts
  PROVE  KeptInv' => StateIs(d)'
BY States, PTL

LEMMA RegisterInitial == Init => Register!Init
<1> SUFFICES ASSUME Init PROVE Register!Init
  OBVIOUS
<1>1. KeptInv
  BY Initial DEF IInv
<1>2. \A d \in Drafts : DraftState(d) = "none"
  <2>1. \A d \in Drafts : ~Made(d)
    BY DEF Init, Made
  <2> QED
    BY <1>1, <2>1, States DEF StateIs
<1> QED
  BY <1>2 DEF Init, MeetingInit, Register!Init

\* After a change to the meeting a draft that was fresh is stale, unless it is
\* the change.
LEMMA AgedStates ==
  ASSUME IInv, [Next]_vars, NEW new \in SUBSET Drafts,
         meeting'.applied = meeting.applied \cup new,
         meeting'.revision = meeting.revision + 1,
         UNCHANGED <<kept, outbox>>,
         NEW d \in Drafts
  PROVE  /\ d \notin new => DraftState(d)' = IF DraftState(d) = "fresh"
                                             THEN "stale" ELSE DraftState(d)
         /\ d \in new /\ d \in outbox => DraftState(d)' = "applied"
<1>1. TypeOK /\ KeptInv /\ KeptInv'
  BY KeptKept DEF IInv
<1>2. StateIs(d) /\ StateIs(d)'
  BY <1>1, States, StatesNext
<1>3. /\ Made(d)' = Made(d) /\ outbox' = outbox
      /\ d \in outbox => Made(d)
  BY <1>1 DEF Made, KeptInv
<1>4. ~Current(d)'
  <2>1. /\ kept[d].expected \in Nat /\ meeting.revision \in Nat
        /\ kept[d].expected <= meeting.revision
    BY <1>1 DEF TypeOK, MeetingTypeOK, Kept, Meeting, KeptInv
  <2> QED
    BY <2>1 DEF Current
<1>5. CASE ~Made(d)
  BY <1>2, <1>3, <1>5 DEF StateIs
<1>6. CASE Made(d) /\ d \notin outbox
  BY <1>2, <1>3, <1>6 DEF StateIs
<1>7. CASE Made(d) /\ d \in outbox /\ d \in meeting.applied
  BY <1>2, <1>3, <1>7 DEF StateIs
<1>8. CASE Made(d) /\ d \in outbox /\ d \notin meeting.applied
  BY <1>2, <1>3, <1>4, <1>8 DEF StateIs
<1> QED
  BY <1>5, <1>6, <1>7, <1>8

LEMMA RegisterStep ==
  ASSUME IInv, [Next]_vars
  PROVE  [Register!Next]_(Register!vars)
<1> DEFINE draft == [d \in Drafts |-> DraftState(d)]
<1>1. TypeOK /\ MeetingInv /\ KeptInv /\ KeptInv'
  BY KeptKept DEF IInv
<1>2. \A d \in Drafts : StateIs(d) /\ StateIs(d)'
  BY <1>1, States, StatesNext
<1>3. meeting.applied \subseteq Drafts
  BY <1>1 DEF TypeOK, MeetingTypeOK, Meeting
<1>0. ~meeting.published /\ ~meeting'.published
        => meeting'.published = meeting.published
  <2>1. meeting.published \in BOOLEAN /\ meeting'.published \in BOOLEAN
    BY <1>1, MeetingKept DEF TypeOK, MeetingTypeOK, Meeting
  <2> QED
    BY <2>1
<1>4. ASSUME NEW done \in SUBSET meeting.applied,
             meeting' = meeting, kept' = kept, outbox' = outbox \ done
      PROVE  Register!Next
  <2>1. ASSUME NEW d \in Drafts
        PROVE  DraftState(d)' = IF d \in done THEN "acknowledged"
                                ELSE DraftState(d)
    <3>1. Made(d)' = Made(d) /\ Current(d)' = Current(d)
          /\ (d \in done => Made(d))
      BY <1>1, <1>4 DEF Made, Current, KeptInv
    <3>2. CASE ~Made(d)
      BY <1>2, <1>4, <3>1, <3>2 DEF StateIs
    <3>3. CASE Made(d) /\ d \notin outbox
      BY <1>2, <1>4, <3>1, <3>3 DEF StateIs
    <3>4. CASE Made(d) /\ d \in outbox
      BY <1>2, <1>4, <3>1, <3>4 DEF StateIs
    <3> QED
      BY <3>2, <3>3, <3>4
  <2>2. \A d \in done : DraftState(d) \in {"applied", "acknowledged"}
    BY <1>1, <1>2, <1>3 DEF StateIs, KeptInv
  <2>3. done \in SUBSET Drafts
    BY <1>3
  <2>4. Register!Acknowledge(done)
    BY <1>4, <2>1, <2>2, <2>3 DEF Register!Acknowledge
  <2> QED
    BY <2>3, <2>4 DEF Register!Next
<1>5. ASSUME NEW d \in Drafts, Keep(d)
      PROVE  Register!Next
  <2>1. /\ ~Made(d) /\ outbox' = outbox \cup {d} /\ meeting' = meeting
        /\ \A e \in Drafts \ {d} : kept'[e] = kept[e]
    BY <1>1, <1>5 DEF Keep, TypeOK
  <2>2. d \notin meeting.applied /\ Made(d)'
    BY <1>1, <2>1 DEF KeptInv
  <2>3. draft[d] = "none" /\ DraftState(d)' \in {"fresh", "stale"}
    BY <1>2, <2>1, <2>2 DEF StateIs
  <2>4. ASSUME NEW e \in Drafts \ {d}
        PROVE  DraftState(e)' = DraftState(e)
    <3>1. Made(e)' = Made(e) /\ Current(e)' = Current(e)
          /\ (e \in outbox' <=> e \in outbox)
      BY <2>1 DEF Made, Current
    <3>2. CASE ~Made(e)
      BY <1>2, <3>1, <3>2 DEF StateIs
    <3>3. CASE Made(e)
      BY <1>2, <2>1, <3>1, <3>3 DEF StateIs
    <3> QED
      BY <3>2, <3>3
  <2>5. draft' = [draft EXCEPT ![d] = DraftState(d)']
    BY <2>4
  <2>6. Register!Keep(d)
    BY <2>1, <2>3, <2>5 DEF Register!Keep
  <2> QED
    BY <2>6 DEF Register!Next
<1>6. ASSUME NEW p \in Editors, Stored(p)
      PROVE  Register!Next
  <2>1. \A d \in Drafts : DraftState(d)' = IF DraftState(d) = "fresh"
                                           THEN "stale" ELSE DraftState(d)
    <3>1. /\ {} \in SUBSET Drafts
          /\ meeting'.applied = meeting.applied \cup {}
          /\ meeting'.revision = meeting.revision + 1
      BY <1>1, <1>6, EditedIs
    <3>2. UNCHANGED <<kept, outbox>>
      BY <1>6 DEF Stored
    <3> QED
      BY <3>1, <3>2, AgedStates
  <2>2. draft' = Register!Aged
    BY <2>1 DEF Register!Aged
  <2> HIDE DEF draft
  <2>3. CASE edit[p].op = "save"
    <3>1. edit[p].text \in Texts \cup {Blank}
      BY <1>1, <2>3 DEF MeetingInv
    <3>2. Register!Write
      BY <1>0, <1>1, <1>6, <2>2, <2>3, <3>1, EditedIs
      DEF Register!Write, draft
    <3> QED
      BY <3>2 DEF Register!Next
  <2>4. CASE edit[p].op = "publish"
    <3>1. Register!Publish
      BY <1>1, <1>6, <2>2, <2>4, EditedIs DEF Register!Publish, draft
    <3> QED
      BY <3>1 DEF Register!Next
  <2>5. CASE edit[p].op = "other"
    <3>1. Register!Change
      BY <1>1, <1>6, <2>2, <2>5, EditedIs DEF Register!Change, draft
    <3> QED
      BY <3>1 DEF Register!Next
  <2> QED
    BY <1>1, <1>6, <2>3, <2>4, <2>5, EditedIs
<1>7. ASSUME NEW s \in Syncs, DraftApplied(s)
      PROVE  Register!Next
  <2>1. PICK d \in Drafts :
          /\ d = sync[s].now /\ ~meeting.published
          /\ meeting'.revision = meeting.revision + 1
          /\ meeting'.applied = meeting.applied \cup {d}
          /\ meeting'.content = d /\ ~meeting'.published
    BY <1>1, <1>7, AppliedIs DEF IInv
  <2>2. /\ Current(d) /\ d \notin meeting.applied
        /\ UNCHANGED <<kept, outbox>>
    BY <1>7, <2>1 DEF DraftApplied
  <2>3. Made(d) /\ d \in outbox
    <3>1. SyncInv(s) /\ sync[s].now \in sync[s].rest
      BY <1>1, <1>7, SyncTyped DEF IInv, DraftApplied, At
    <3>2. Made(d)
      BY <2>1, <3>1 DEF SyncInv
    <3> QED
      BY <1>1, <2>2, <3>2 DEF KeptInv, RemovedIsApplied
  <2>4. draft[d] = "fresh"
    BY <1>2, <2>2, <2>3 DEF StateIs
  <2>5. /\ DraftState(d)' = "applied"
        /\ \A e \in Drafts \ {d} :
             DraftState(e)' = IF DraftState(e) = "fresh" THEN "stale"
                              ELSE DraftState(e)
    BY <2>1, <2>2, <2>3, AgedStates
  <2>6. draft' = [Register!Aged EXCEPT ![d] = "applied"]
    BY <2>5 DEF Register!Aged
  <2>7. Register!Apply(d)
    BY <1>0, <2>1, <2>4, <2>6 DEF Register!Apply
  <2> QED
    BY <2>7 DEF Register!Next
<1>8. UNCHANGED <<kept, outbox>> /\ meeting' = meeting => Register!Next
  <2>1. {} \in SUBSET meeting.applied /\ outbox \ {} = outbox
    OBVIOUS
  <2> QED
    BY <1>4, <2>1
<1> QED
  BY <1>4, <1>5, <1>6, <1>7, <1>8, MeetingSteps, RecordSteps

\* The device, its syncs and the online edits implement MinutesRegister.
THEOREM RegisterImplemented == Spec => ImplementsRegister
BY RegisterInitial, RegisterStep, Invariance, PTL
DEF Spec, ImplementsRegister, Register!Spec

=============================================================================
