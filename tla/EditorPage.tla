------------------------------ MODULE EditorPage ------------------------------
(* The video editor's page while a project is open
   (frontend/src/pages/VideoEditor.tsx): the timeline on screen and its undo
   history, the autosave, a drag, subtitles being heard, and an export being
   followed.  A timeline is the set of the edits in effect on it; what an edit may
   do to the clips is module Timeline, what the API does with a save EditorProject. *)
EXTENDS Naturals, Sequences, FiniteSets, SequencesExt

CONSTANTS Edits,      \* edits, each made at most once (bound)
          None,       \* no drag, no listening
          MaxSaves,   \* bound: saves sent
          MaxExports  \* bound: exports started

VARIABLES doc, past, future,  \* the timeline on screen and its history
          drag,               \* what drag.current holds: the edit of a drag, the timeline before
                              \* it, whether it moved
          loose,              \* history: what a drag did is on screen, and no change has been
                              \* committed since
          heard,              \* the timeline whose sound is being listened to
          open, dirty, timer, label,   \* the page and its autosave
          flight,             \* saves between the page and the API
          stored,             \* the timeline the API has
          sent,               \* saves sent so far
          trouble,            \* history: a save failed, or was overtaken by another
          made,               \* history: edits made
          render              \* the export: at the API and on the page ("idle" before it
                              \* begins and once it is done or has failed), its poll
vars == <<doc, past, future, drag, loose, heard, open, dirty, timer, label, flight, stored, sent, trouble, made, render>>
page == <<doc, past, future, drag, loose, heard, made>>
autosave == <<open, dirty, timer, label, flight, stored, sent, trouble>>

Init ==
  /\ doc = {} /\ past = <<>> /\ future = <<>> /\ drag = None /\ loose = FALSE /\ heard = None
  /\ open = TRUE /\ dirty = FALSE /\ timer = FALSE /\ label = "saved"
  /\ flight = {} /\ stored = {} /\ sent = 0 /\ trouble = FALSE /\ made = {}
  /\ render = [api |-> "idle", page |-> "idle", poll |-> FALSE, go |-> 0, count |-> 0, missed |-> FALSE]

-----------------------------------------------------------------------------
(* The timeline. *)
\* Variant: a change made while a save is under way waits for nobody.
ArmWhenQuiet == dirty' = TRUE /\ timer' = (flight = {}) /\ label' = "unsaved" /\ loose' = FALSE
\* commit, undo and redo mark the page dirty; the effect on `tracks` starts the debounce anew.
Arm == dirty' = TRUE /\ timer' = TRUE /\ label' = "unsaved" /\ loose' = FALSE
Unsent == UNCHANGED <<open, flight, stored, sent, trouble, render>>

Commit(next, before) ==
  /\ doc' = next /\ past' = Append(past, before) /\ future' = <<>> /\ Arm /\ Unsent
Change(e) ==
  /\ open /\ e \notin made /\ made' = made \cup {e}
  /\ Commit(doc \cup {e}, doc) /\ UNCHANGED <<drag, heard>>
Undo ==
  /\ open /\ past # <<>> /\ doc' = Last(past) /\ past' = Front(past)
  /\ future' = Append(future, doc) /\ Arm /\ Unsent /\ UNCHANGED <<drag, heard, made>>
Redo ==
  /\ open /\ future # <<>> /\ doc' = Last(future) /\ future' = Front(future)
  /\ past' = Append(past, doc) /\ Arm /\ Unsent /\ UNCHANGED <<drag, heard, made>>

\* begin takes drag.current over, whatever it holds: another finger's drag, or one the
\* browser cancelled.  Nothing listens to pointercancel, so a cancelled drag is one that
\* neither moves nor ends.
BeginDrag(e) ==
  /\ open /\ e \notin made /\ made' = made \cup {e}
  /\ drag' = [edit |-> e, before |-> doc, moved |-> FALSE]
  /\ UNCHANGED <<doc, past, future, loose, heard, autosave, render>>
\* onLive: the timeline of the start of the drag with the clip where the pointer is.
\* The effect on `tracks` drops the pending save, and starts it anew only when dirty.
DragMove ==
  /\ open /\ drag # None
  /\ doc' = drag.before \cup {drag.edit} /\ drag' = [drag EXCEPT !.moved = TRUE]
  /\ timer' = dirty /\ label' = (IF dirty THEN "unsaved" ELSE label)
  /\ loose' = TRUE /\ UNCHANGED <<past, future, heard, made, dirty>> /\ Unsent
DragEnd ==
  /\ open /\ drag # None /\ drag' = None
  /\ IF drag.moved THEN Commit(doc, drag.before)
     ELSE UNCHANGED <<doc, past, future, loose, autosave, render>>
  /\ UNCHANGED <<heard, made>>

\* autoSubtitles: the timeline as it was when it was asked, with its subtitles.
Listen == /\ open /\ heard = None /\ doc # {} /\ heard' = doc
          /\ UNCHANGED <<doc, past, future, drag, loose, made, autosave, render>>
Hear(e) == /\ open /\ heard # None /\ e \notin made /\ made' = made \cup {e}
           /\ Commit(heard \cup {e}, doc) /\ heard' = None /\ UNCHANGED drag
HearNothing == /\ open /\ heard # None /\ heard' = None
               /\ UNCHANGED <<doc, past, future, drag, loose, made, autosave, render>>

-----------------------------------------------------------------------------
(* Saving. *)
Send == flight' = flight \cup {[n |-> sent, doc |-> doc, at |-> "request"]} /\ sent' = sent + 1
Save ==
  /\ open /\ timer /\ sent < MaxSaves /\ Send
  /\ timer' = FALSE /\ label' = "saving"
  /\ UNCHANGED <<page, open, dirty, stored, trouble, render>>
Becomes(f, at) == flight' = (flight \ {f}) \cup {[f EXCEPT !.at = at]}
\* The API writes the timeline; requests may overtake one another.
Arrive(f) ==
  /\ f.at = "request" /\ stored' = f.doc
  /\ \E at \in {"saved", "failed"} :   \* the answer may be lost
       /\ Becomes(f, at)
       /\ trouble' = (trouble \/ at = "failed" \/ \E g \in flight : g.at = "request" /\ g.n < f.n)
  /\ UNCHANGED <<page, open, dirty, timer, label, sent, render>>
Lose(f) ==
  /\ f.at = "request" /\ Becomes(f, "failed") /\ trouble' = TRUE
  /\ UNCHANGED <<page, open, dirty, timer, label, stored, sent, render>>
Own(f) == render.go # f.n + 1
Answer(f) ==
  /\ open /\ f.at \in {"saved", "failed"} /\ Own(f) /\ flight' = flight \ {f}
  /\ label' = IF f.at = "saved" THEN "saved" ELSE "error"
  /\ dirty' = (dirty /\ f.at = "failed")
  /\ UNCHANGED <<page, open, timer, stored, sent, trouble, render>>
\* Unmounting clears the debounce and stops the polls; requests already sent go on, and
\* what the page held is gone.
Leave ==
  /\ open /\ open' = FALSE /\ timer' = FALSE /\ dirty' = FALSE /\ label' = "saved"
  /\ doc' = {} /\ drag' = None /\ loose' = FALSE /\ heard' = None /\ past' = <<>> /\ future' = <<>>
  /\ render' = [render EXCEPT !.page = "idle", !.poll = FALSE, !.go = 0, !.missed = FALSE]
  /\ UNCHANGED <<made, flight, stored, sent, trouble>>

-----------------------------------------------------------------------------
(* Exporting: the screen is saved, then the API is asked to render. *)
Go ==
  /\ open /\ render.page # "running" /\ render.go = 0 /\ doc # {}
  /\ render.count < MaxExports /\ sent < MaxSaves /\ Send
  /\ render' = [render EXCEPT !.go = sent + 1, !.count = @ + 1]
  /\ UNCHANGED <<page, open, dirty, timer, label, stored, trouble>>
\* Asked to export, the API begins, or answers that it is exporting as far as it knows;
\* it may also fail before it has told anybody, or when it has only told the process
\* (EditorProject.CannotMark), and the answer is an error.
Flushed(f) ==
  /\ open /\ f.at \in {"saved", "failed"} /\ ~Own(f) /\ flight' = flight \ {f}
  /\ \/ /\ f.at = "saved"
        /\ \E api \in {"running", render.api} \ {"idle"} :
             render' = [render EXCEPT !.go = 0, !.api = api, !.page = "running", !.poll = TRUE, !.missed = FALSE]
     \/ f.at = "saved" /\ render' = [render EXCEPT !.go = 0, !.api = "stuck"]
     \/ render' = [render EXCEPT !.go = 0]
  /\ UNCHANGED <<page, open, dirty, timer, label, stored, sent, trouble>>
\* Its end may not be written, and the row says running as before (EditorProject.Settle).
Rendered ==
  /\ render.api = "running" /\ \E end \in {"idle", "stuck"} : render' = [render EXCEPT !.api = end]
  /\ UNCHANGED <<page, autosave>>
\* The API restarts, and its sweep finds what the row left running.
Swept ==
  /\ render.api \in {"running", "stuck"} /\ render' = [render EXCEPT !.api = "idle"]
  /\ UNCHANGED <<page, autosave>>
\* What the API answers of the export.
Told == IF render.api = "stuck" THEN "running" ELSE render.api
\* Variant: the answer of a poll is shown, and the effect is not run again for it.
PollOnce ==
  /\ open /\ render.poll
  /\ render' = [render EXCEPT !.page = Told, !.poll = FALSE]
  /\ UNCHANGED <<page, autosave>>
\* The answer is a new `render` object: the effect polls again while it says running.
Poll ==
  /\ open /\ render.poll
  /\ render' = [render EXCEPT !.page = Told, !.poll = Told = "running"]
  /\ UNCHANGED <<page, autosave>>
\* Nothing the effect depends on changes: no other poll follows.
PollFails ==
  /\ open /\ render.poll /\ render' = [render EXCEPT !.poll = FALSE, !.missed = TRUE]
  /\ UNCHANGED <<page, autosave>>

Editing == \/ \E e \in Edits : Change(e) \/ BeginDrag(e) \/ Hear(e)
           \/ Undo \/ Redo \/ DragMove \/ DragEnd \/ Listen \/ HearNothing
Saving == Save \/ Leave \/ Go \/ \E f \in flight : Arrive(f) \/ Lose(f) \/ Answer(f) \/ Flushed(f)
Next == Editing \/ Saving \/ Rendered \/ Swept \/ Poll \/ PollFails
Fairness == WF_vars(Rendered) /\ WF_vars(Poll \/ PollFails)
Spec == Init /\ [][Next]_vars
FairSpec == Spec /\ Fairness

-----------------------------------------------------------------------------
TypeOK ==
  /\ doc \subseteq made /\ made \subseteq Edits /\ stored \subseteq made
  /\ \A d \in Range(past) \cup Range(future) : d \subseteq made
  /\ drag = None \/ drag \in [edit : Edits, before : SUBSET Edits, moved : BOOLEAN]
  /\ heard = None \/ heard \subseteq Edits
  /\ {open, dirty, timer, trouble, loose} \subseteq BOOLEAN /\ label \in {"saved", "unsaved", "saving", "error"}
  /\ flight \subseteq [n : 0 .. MaxSaves, doc : SUBSET Edits, at : {"request", "saved", "failed"}]
  /\ sent \in 0 .. MaxSaves
  /\ render \in [api : {"idle", "running", "stuck"}, page : {"idle", "running"},
                 poll : BOOLEAN, go : 0 .. MaxSaves + 1, count : 0 .. MaxExports, missed : BOOLEAN]

Quiet == open /\ ~timer /\ flight = {} /\ label = "saved"
\* The autosave forgets nothing: whatever edits, undos, drags, listening and answers
\* interleave, a page that shows its timeline as saved, with nothing pending, shows the
\* one the API has (VideoEditor.tsx:296-313).  Three things are excused, because the code
\* does not survive them: a save that failed while another was under way, saves that
\* overtake one another, and a drag that has moved a clip and was not dropped, until it
\* is or some other change is committed.
NothingForgotten == Quiet /\ ~trouble /\ ~loose => stored = doc

\* Not run, and false.  "All changes saved" (VideoEditor.tsx:661) with nothing under way,
\* over what a drag the browser cancelled did (1739-1745, 1799-1826, 1948-1976): nothing
\* listens to pointercancel and the next drag forgets it, so it stays on screen,
\* uncommitted, until some other change is made; so does a committed change whose
\* debounced save that drag interrupted (296-313).
DragsAreKept == Quiet /\ ~trouble /\ drag = None => stored = doc

\* The page learns how its export ended, whatever is saved and edited meanwhile, unless
\* a poll failed or the end was never written (VideoEditor.tsx:808-818, editor.service.ts:536-542).
ExportIsToldOrMissed ==
  []<>(render.page # "running" \/ render.missed \/ ~open \/ render.api = "stuck")

\* Violated.  A failed poll is forgiven: "keep the last state; the next tick retries"
\* (VideoEditor.tsx:814).  Nothing the effect depends on changed, so no tick follows.
ExportIsTold == []<>(render.page # "running" \/ ~open)

\* Not run.  "every committed change reaches the server shortly" (VideoEditor.tsx:296):
\* leaving the page within the debounce drops the change, and a failed save is not retried.
ChangesArrive == ~open /\ (\A f \in flight : f.at # "request") => stored = doc

\* Not run.  "All changes saved" over a timeline that is not stored: a failed save is
\* covered by the answer of an earlier one, or an overtaken one wins.
SavedIsStored == Quiet => stored = doc
=============================================================================
