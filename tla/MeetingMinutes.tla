--------------------------- MODULE MeetingMinutes ---------------------------
(***************************************************************************)
(* The minutes of one meeting and the requests that edit them:             *)
(* backend/modules/meetings/meeting.service.js.                            *)
(*                                                                         *)
(* A change reads the meeting, checks it and the revision the caller       *)
(* expects, and is then stored by a compare-and-swap on that revision.     *)
(* What lies between the read and the write interleaves.                   *)
(*                                                                         *)
(* Abstractions.  Callers may manage the meeting.  A text is a value;      *)
(* everything in the document but the minutes is one thing that changes    *)
(* ("other": fields, participants, agenda, decisions, action items).       *)
(* transitionMeeting throws after its read ($set is not declared): no      *)
(* meeting leaves DRAFT, and attendance and video rooms, which need it to, *)
(* are never reached.  A request that is refused changes nothing and is no *)
(* action.  What offline drafts have in the document is here; what they do *)
(* to it is in OfflineDrafts.                                              *)
(***************************************************************************)
EXTENDS Integers

CONSTANTS
  Editors,      \* requests that may be under way at a time
  Texts,        \* minutes written online
  Drafts,       \* drafts kept on a device; each is also the text it holds
  Blank,        \* no text: in neither of them
  MaxRevision   \* bound: no request is sent at this revision or a later one

ASSUME MeetingAssumption ==
  /\ Blank \notin Texts \cup Drafts
  /\ Texts \cap Drafts = {}
  /\ MaxRevision \in Nat

VARIABLES
  meeting,   \* the stored document
  edit       \* the requests that are past their checks

meetingVars == <<meeting, edit>>

-----------------------------------------------------------------------------

Contents == Texts \cup Drafts \cup {Blank}

(* applied: appliedOfflineOperationIds; open (history): the last revision   *)
(* at which the minutes were not published.                                 *)
Meeting == [revision: Nat \ {0}, content: Contents, published: BOOLEAN,
            applied: SUBSET Drafts, open: Nat \ {0}]

(* text: the minutes that will be stored.                                   *)
Edit == [op: {"none", "save", "publish", "other"}, expected: Nat,
         text: Contents]

NoEdit == [op |-> "none", expected |-> 0, text |-> Blank]

MeetingTypeOK ==
  /\ meeting \in Meeting
  /\ edit \in [Editors -> Edit]

MeetingInit ==
  /\ meeting = [revision |-> 1, content |-> Blank, published |-> FALSE,
                applied |-> {}, open |-> 1]
  /\ edit = [p \in Editors |-> NoEdit]

-----------------------------------------------------------------------------
(* The requests: read and check                                            *)

\* The caller expects the revision that is read.
Request(p, op, text) ==
  /\ edit[p].op = "none"
  /\ meeting.revision < MaxRevision
  /\ edit' = [edit EXCEPT ![p] = [op |-> op, expected |-> meeting.revision,
                                  text |-> text]]
  /\ UNCHANGED meeting

\* saveMinutes
Save(p, text) == ~meeting.published /\ Request(p, "save", text)

\* publishMinutes stores the content it has read.
Publish(p) ==
  /\ meeting.content # Blank
  /\ ~meeting.published
  /\ Request(p, "publish", meeting.content)

\* The operations that leave the minutes alone.
Change(p) == Request(p, "other", Blank)

-----------------------------------------------------------------------------
(* The requests: write                                                     *)

\* A revision further.
Revised ==
  [meeting EXCEPT !.revision = @ + 1,
                  !.open = IF meeting.published THEN @ ELSE @ + 1]

\* The document an update leaves.
Edited(p) ==
  CASE edit[p].op = "save" ->
         [Revised EXCEPT !.content = edit[p].text, !.published = FALSE]
    [] edit[p].op = "publish" ->
         [Revised EXCEPT !.content = edit[p].text, !.published = TRUE,
                         !.open = meeting.open]
    [] OTHER -> Revised

\* updateWithRevision: the update is conditional on the expected revision.
Store(p) ==
  /\ edit[p].op # "none"
  /\ meeting' = IF meeting.revision = edit[p].expected THEN Edited(p) ELSE meeting
  /\ edit' = [edit EXCEPT ![p] = NoEdit]

\* The server dies between the read and the write, or the write fails.
Lapse(p) ==
  /\ edit[p].op # "none"
  /\ edit' = [edit EXCEPT ![p] = NoEdit]
  /\ UNCHANGED meeting

MeetingNext ==
  \E p \in Editors :
    \/ \E text \in Texts \cup {Blank} : Save(p, text)
    \/ Publish(p) \/ Change(p)
    \/ Store(p) \/ Lapse(p)

-----------------------------------------------------------------------------
(* Properties                                                              *)

\* What a request read of the meeting is what the meeting is as long as its
\* revision is the one it expects: a save or a publication that will match never
\* meets published minutes, and the content that will be published is the present
\* one, whatever other requests and drafts were stored meanwhile.
RevisionIdentifies ==
  \A p \in Editors :
    (edit[p].op \in {"save", "publish"} /\ edit[p].expected = meeting.revision)
      => /\ ~meeting.published
         /\ edit[p].op = "publish" =>
              edit[p].text = meeting.content /\ meeting.content # Blank

\* Published minutes are immutable (saveMinutes, publishMinutes, offline
\* drafts), whatever was on its way when they were published.
PublishedIsFinal ==
  [][meeting.published =>
       meeting'.published /\ meeting'.content = meeting.content]_meetingVars

=============================================================================
