------------------------------ MODULE SpeechEdits ------------------------------
(* The speech editor: corrected versions of one finished dub (api/speech-edit) and
   the pages that ask for them (SpeechEditor.tsx).  A version silences what the
   changed lines of the newest version owned and lays their new speech in; it is
   asked for, found to be alone, created, and made in the background.  What a line
   costs to speak is module Speech. *)
EXTENDS Naturals

CONSTANTS Pages, MaxVersions, MaxRestarts  \* bounds on versions and restarts
ASSUME SpeechEditsAssumption == MaxVersions \in Nat /\ MaxRestarts \in Nat

VARIABLES rows,        \* rows[v]: the SpeechEdit row of version v
          page,        \* page[p]: where the request or the poll of the page is
          restarts
vars == <<rows, page, restarts>>

Versions == 1..MaxVersions
\* STALLED is a row left RUNNING: the write of how it ended failed as well.
ACTIVE == {"QUEUED", "RUNNING", "STALLED"}
Free == [st |-> "none", base |-> 0]
Quiet == [at |-> "idle", base |-> 0, next |-> 1, mine |-> 0, drafts |-> FALSE]

Init ==
  /\ rows = [v \in Versions |-> Free] /\ restarts = 0
  /\ page = [p \in Pages |-> Quiet]

-----------------------------------------------------------------------------
(* create *)
Created == {v \in Versions : rows[v].st # "none"}
Newest == IF Created = {} THEN 0 ELSE CHOOSE v \in Created : \A w \in Created : w <= v
Good == {v \in Created : rows[v].st = "DONE"}
Base == IF Good = {} THEN 0 ELSE CHOOSE v \in Good : \A w \in Good : w <= v

\* apply: the page sends its drafts.
Apply(p) ==
  /\ page[p].at = "idle" /\ page' = [page EXCEPT ![p].at = "asking", ![p].drafts = TRUE]
  /\ UNCHANGED <<rows, restarts>>
\* Variant: an edit that waits to start does not count as active.
BusyRunning == \E v \in Created : rows[v].st = "RUNNING"
Busy == \E v \in Created : rows[v].st \in ACTIVE
\* The history is read, and the edit checked against the newest version that worked.
Look(p) ==
  /\ page[p].at = "asking" /\ ~Busy /\ Newest < MaxVersions
  /\ page' = [page EXCEPT ![p].at = "creating", ![p].base = Base, ![p].next = Newest + 1]
  /\ UNCHANGED <<rows, restarts>>
\* Refused for another edit, an invalid one, a plan without the tool; or not answered.
Refused(p) ==
  /\ page[p].at \in {"asking", "creating"}
  /\ page' = [page EXCEPT ![p] = [Quiet EXCEPT !.drafts = TRUE]]
  /\ UNCHANGED <<rows, restarts>>
\* Variant: the UNIQUE key on the version is not there: the row is written over.
FreshAlways(v) == TRUE
Fresh(v) == rows[v].st = "none"
\* The row is created under UNIQUE (user, job, version) and its work begins.
Create(p) ==
  LET v == page[p].next IN
  /\ page[p].at = "creating" /\ Fresh(v)
  /\ rows' = [rows EXCEPT ![v] = [st |-> "QUEUED", base |-> page[p].base]]
  /\ \E at \in {"watching", "idle"} :      \* the answer may not arrive
       page' = [page EXCEPT ![p] = [Quiet EXCEPT !.at = at, !.mine = v, !.drafts = TRUE]]
  /\ UNCHANGED restarts

-----------------------------------------------------------------------------
(* process *)
Begin(v) ==
  /\ rows[v].st = "QUEUED" /\ rows' = [rows EXCEPT ![v].st = "RUNNING"]
  /\ UNCHANGED <<page, restarts>>
\* The changed lines are spoken and laid into the video of the version it builds on
\* (module Splice); one of them cannot be spoken, a download or ffmpeg fails.
Finish(v) ==
  /\ rows[v].st = "RUNNING" /\ rows' = [rows EXCEPT ![v].st = "DONE"]
  /\ UNCHANGED <<page, restarts>>
Fail(v) ==
  /\ rows[v].st \in {"QUEUED", "RUNNING"}
  /\ \E st \in {"FAILED", "STALLED"} : rows' = [rows EXCEPT ![v].st = st]
  /\ UNCHANGED <<page, restarts>>
\* onModuleInit fails what was active; requests under way are not answered.
Restart ==
  /\ restarts < MaxRestarts /\ restarts' = restarts + 1
  /\ rows' = [v \in Versions |-> IF rows[v].st \in ACTIVE THEN [rows[v] EXCEPT !.st = "FAILED"] ELSE rows[v]]
  /\ page' = [p \in Pages |-> IF page[p].at \in {"asking", "creating"} THEN [Quiet EXCEPT !.drafts = TRUE] ELSE page[p]]

-----------------------------------------------------------------------------
(* The page *)
\* Variant: only an edit that worked ends the watch.
ReportDone(p) == page' = IF rows[Newest].st = "DONE" THEN [page EXCEPT ![p] = Quiet] ELSE page
\* The newest version is reported, and the drafts are dropped if it is DONE.
Report(p) == page' = [page EXCEPT ![p] = [Quiet EXCEPT !.drafts = page[p].drafts /\ rows[Newest].st # "DONE"]]
\* A poll that fails, or finds the edit active, is followed by another.
Watch(p) ==
  /\ page[p].at = "watching" /\ Newest # 0 /\ ~Busy /\ Report(p)
  /\ UNCHANGED <<rows, restarts>>
\* Opening the page: it watches an edit that is active.
Open(p) ==
  /\ page[p].at \in {"idle", "watching"}
  /\ page' = [page EXCEPT ![p] = [Quiet EXCEPT !.at = IF Busy THEN "watching" ELSE "idle"]]
  /\ UNCHANGED <<rows, restarts>>

PageStep(p) == Apply(p) \/ Look(p) \/ Refused(p) \/ Create(p) \/ Watch(p) \/ Open(p)
Work(v) == Begin(v) \/ Finish(v) \/ Fail(v)
Next == Restart \/ (\E p \in Pages : PageStep(p)) \/ (\E v \in Versions : Work(v))
Spec == Init /\ [][Next]_vars
Fairness == (\A v \in Versions : WF_vars(Work(v))) /\ \A p \in Pages : WF_vars(Watch(p)) /\ WF_vars(Refused(p))
FairSpec == Spec /\ Fairness

-----------------------------------------------------------------------------
(* Properties *)
\* The state has its type (schema.prisma SpeechEdit, the page's state).
TypeOK ==
  /\ \A v \in Versions : rows[v].st \in {"none", "DONE", "FAILED"} \cup ACTIVE
                         /\ rows[v].base \in 0..v - 1
  /\ \A p \in Pages : /\ page[p].at \in {"idle", "asking", "creating", "watching"}
                      /\ page[p].base \in 0..MaxVersions /\ page[p].next \in 1..MaxVersions + 1
                      /\ page[p].mine \in 0..MaxVersions /\ page[p].drafts \in BOOLEAN
  /\ restarts \in 0..MaxRestarts
\* "An edit is already being applied to this dub": the look for an active edit and the
\* row's creation are apart, with other tabs between them, and still at most one edit
\* of a dub is under way (speech-edit.service.ts:120-124, 149-158).
OneActive == \A v, w \in Versions : rows[v].st \in ACTIVE /\ rows[w].st \in ACTIVE => v = w
\* "Every edit is a new version built on the previous one, so corrections stack": the
\* version an edit builds on is the newest one that worked when it was made, so no
\* correction is lost from a later version (speech-edit.service.ts:40-41, 125-128).
CorrectionsStack ==
  \A v \in Versions : rows[v].st \in ACTIVE \cup {"DONE"} =>
    \A w \in Versions : w < v /\ rows[w].st = "DONE" => w <= rows[v].base
\* A dub's speech is edited once at a time and on top of what was corrected before.
CorrectionsKept == OneActive /\ CorrectionsStack
\* A page that watches an edit reports an end, even across a restart, unless the row's
\* last write failed (SpeechEditor.tsx:211-240, speech-edit.service.ts:59-67, 262-266).
WatchEnds == \A p \in Pages : []<>(page[p].at # "watching" \/ \E v \in Versions : rows[v].st = "STALLED")
\* Drafts that were asked for are dropped only once they are in a version; the page
\* asks how the newest edit ended, which may be another page's (SpeechEditor.tsx:224-229).
DraftsKept == [][\A p \in Pages : page[p].mine # 0 /\ Watch(p) /\ ~page'[p].drafts => rows[page[p].mine].st = "DONE"]_vars
=============================================================================
