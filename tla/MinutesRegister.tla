-------------------------- MODULE MinutesRegister ---------------------------
(***************************************************************************)
(* What the minutes of a meeting promise to those who write them, without  *)
(* revisions, requests or queues: published minutes are final; a draft     *)
(* kept on a device is applied once, and only if nothing was changed since *)
(* the version it was written for; the device lets go of it only then.     *)
(***************************************************************************)
CONSTANTS
  Drafts,   \* drafts kept on a device; each is also the text it holds
  Texts,    \* what is written online
  Blank     \* no minutes

VARIABLES
  minutes,    \* the minutes of the meeting
  published,  \* whether they are published
  draft       \* what has become of each draft

vars == <<minutes, published, draft>>

\* A draft is fresh while the meeting is what it was written for.
Fate == {"none", "fresh", "stale", "applied", "acknowledged"}

TypeOK ==
  /\ minutes \in Texts \cup Drafts \cup {Blank}
  /\ published \in BOOLEAN
  /\ draft \in [Drafts -> Fate]

Init ==
  /\ minutes = Blank
  /\ published = FALSE
  /\ draft = [d \in Drafts |-> "none"]

\* After a change to the meeting.
Aged == [d \in Drafts |-> IF draft[d] = "fresh" THEN "stale" ELSE draft[d]]

Keep(d) ==
  /\ draft[d] = "none"
  /\ \E fate \in {"fresh", "stale"} : draft' = [draft EXCEPT ![d] = fate]
  /\ UNCHANGED <<minutes, published>>

Write ==
  /\ ~published
  /\ minutes' \in Texts \cup {Blank}
  /\ draft' = Aged
  /\ UNCHANGED published

Publish ==
  /\ ~published /\ minutes # Blank
  /\ published' = TRUE
  /\ draft' = Aged
  /\ UNCHANGED minutes

\* A change to another part of the meeting.
Change == draft' = Aged /\ UNCHANGED <<minutes, published>>

Apply(d) ==
  /\ ~published /\ draft[d] = "fresh"
  /\ minutes' = d
  /\ draft' = [Aged EXCEPT ![d] = "applied"]
  /\ UNCHANGED published

Acknowledge(done) ==
  /\ \A d \in done : draft[d] \in {"applied", "acknowledged"}
  /\ draft' = [d \in Drafts |-> IF d \in done THEN "acknowledged" ELSE draft[d]]
  /\ UNCHANGED <<minutes, published>>

Next ==
  \/ \E d \in Drafts : Keep(d) \/ Apply(d)
  \/ Write \/ Publish \/ Change
  \/ \E done \in SUBSET Drafts : Acknowledge(done)

Spec == Init /\ [][Next]_vars

=============================================================================
