------------------------------ MODULE LineEditor ------------------------------
(* The speech editor's page (SpeechEditor.tsx): one dub's lines are reworded and
   re-timed as drafts over the newest version the page has heard of, and what differs
   is sent to be re-dubbed.  What a version does to the sound is module Splice, who
   may make one module SpeechEdits.  One pointer: nothing is pressed during a drag. *)
EXTENDS Integers

CONSTANTS Count,        \* lines of the dub
          Total,        \* its length
          Snap, MinLine,
          MaxMoves, MaxVersions,   \* bounds on the customer's changes and on versions
          None

VARIABLES at,           \* "gate" | "list" | "loading" | "editor" | "error"
          segments,     \* the lines of the newest finished version the page heard of
          made,         \* ... and of the newest one there is
          drafts,
          row,          \* the newest edit: its state and the lines it is to give
          submitting,   \* "no" | "asking" | "watching"
          sent,         \* what differs, in the request that asks
          shown,        \* history: the lines on show when Re-dub was pressed, if
                        \* segments was made when the edit was accepted
          typed,        \* history: a time was typed, one line's changes undone, or
                        \* the drafts kept over a version the page had not heard of
          moves, versions
page == <<at, segments, drafts, submitting, sent, shown, typed>>
vars == <<page, made, row, moves, versions>>

Lines == 1..Count
Texts == {"said", "padded", "respaced", "fixed"}
\* "padded" has blanks around what is said, "respaced" has them between the words.
Trim(t) == IF t = "padded" THEN "said" ELSE t
Squash(t) == IF t = "respaced" THEN "said" ELSE Trim(t)
Line == [text : Texts, start : 0..Total, end : 0..Total]
Apart(t) == \A l, m \in Lines : l < m => t[l].end <= t[m].start
Dubs == {t \in [Lines -> [text : {"said"}, start : 0..Total, end : 0..Total]] :
           Apart(t) /\ \A l \in Lines : t[l].start < t[l].end}
Blank == [text |-> None, start |-> None, end |-> None]
NoDrafts == [l \in Lines |-> Blank]
Idle == [st |-> "none", lines |-> None]

Init ==
  /\ at = "list" /\ made \in Dubs /\ segments = made
  /\ drafts = NoDrafts /\ row = Idle /\ submitting = "no" /\ sent = NoDrafts /\ shown = None
  /\ typed = FALSE /\ moves = 0 /\ versions = 0

-----------------------------------------------------------------------------
(* What the page derives *)
Or(d, s) == IF d = None THEN s ELSE d
\* view: the transcript as it will be after the drafts are applied.
view == [l \in Lines |-> [text |-> Or(drafts[l].text, segments[l].text),
                          start |-> Or(drafts[l].start, segments[l].start),
                          end |-> Or(drafts[l].end, segments[l].end)]]
Differs(d, s) == IF d # None /\ d # s THEN d ELSE None
Reworded(l) == IF drafts[l].text = None THEN None ELSE Differs(Trim(drafts[l].text), Trim(segments[l].text))
\* Variant: an end is sent only with a start that stays.
EditsOneEdge == [l \in Lines |->
  LET start == Differs(drafts[l].start, segments[l].start) IN
  [text |-> Reworded(l), start |-> start,
   end |-> IF start # None THEN None ELSE Differs(drafts[l].end, segments[l].end)]]
\* edits: the fields of a line that differ from the version it is a draft of.
edits == [l \in Lines |-> [text |-> Reworded(l),
                           start |-> Differs(drafts[l].start, segments[l].start),
                           end |-> Differs(drafts[l].end, segments[l].end)]]
editing == submitting # "no"
Round(n) == ((n + Snap \div 2) \div Snap) * Snap
Least(a, b) == IF a < b THEN a ELSE b
Most(a, b) == IF a < b THEN b ELSE a

-----------------------------------------------------------------------------
(* The customer *)
\* The plan decides between the gate and the list.
Visit == /\ at \in {"list", "gate"} /\ at' \in {"list", "gate"} \ {at}
         /\ UNCHANGED <<segments, drafts, submitting, sent, shown, typed, made, row, moves, versions>>
\* DubList: a finished dub is picked ...
Pick == /\ at = "list" /\ at' = "loading"
        /\ UNCHANGED <<segments, drafts, submitting, sent, shown, typed, made, row, moves, versions>>
Active == row.st = "RUNNING"
\* ... and read with its versions, or cannot be; an edit under way is watched.
Load == /\ at = "loading" /\ at' \in {"editor", "error"}
        /\ segments' = made /\ submitting' = IF Active /\ at' = "editor" THEN "watching" ELSE "no"
        /\ UNCHANGED <<drafts, sent, shown, typed, made, row, moves, versions>>
\* Back to the list: everything the page held is gone.
Leave == /\ at \in {"loading", "editor", "error"} /\ at' = "list"
         /\ drafts' = NoDrafts /\ submitting' = "no" /\ sent' = NoDrafts
         /\ shown' = None /\ typed' = FALSE /\ segments' = made
         /\ UNCHANGED <<made, row, moves, versions>>

Free == at = "editor" /\ ~editing
Draft(l, d) == drafts' = [drafts EXCEPT ![l] = d]
\* setDraft, from the text area of a line.
Retype(l) ==
  /\ Free /\ moves < MaxMoves /\ moves' = moves + 1
  /\ \E t \in Texts : Draft(l, [drafts[l] EXCEPT !.text = t])
  /\ UNCHANGED <<at, segments, submitting, sent, shown, typed, made, row, versions>>
\* TimeField: any time from zero on.
Retime(l) ==
  /\ Free /\ moves < MaxMoves /\ moves' = moves + 1 /\ typed' = TRUE
  /\ \E f \in {"start", "end"}, t \in 0..Total : Draft(l, [drafts[l] EXCEPT ![f] = t])
  /\ UNCHANGED <<at, segments, submitting, sent, shown, made, row, versions>>
\* "Undo changes" of a line, which a re-dub under way does not disable.
Revert(l) ==
  /\ at = "editor" /\ drafts[l] # Blank /\ Draft(l, Blank) /\ typed' = TRUE
  /\ UNCHANGED <<at, segments, submitting, sent, shown, made, row, moves, versions>>
Discard ==
  /\ Free /\ \E l \in Lines : edits[l] # Blank
  /\ drafts' = NoDrafts /\ typed' = FALSE
  /\ UNCHANGED <<at, segments, submitting, sent, shown, made, row, moves, versions>>

\* Variant: the neighbours' places in the dub, without their drafts.
RoomInDub(l) == [lo |-> IF l > 1 THEN segments[l - 1].end ELSE 0,
                 hi |-> IF l < Count THEN segments[l + 1].start ELSE Total]
\* A line may be dragged between the ends of its neighbours, as they are shown.
Room(l) == [lo |-> IF l > 1 THEN view[l - 1].end ELSE 0,
            hi |-> IF l < Count THEN view[l + 1].start ELSE Total]
\* begin, move: where line l is while the pointer is dt from where it took hold of it.
Dragged(l, mode, dt) ==
  LET room == Room(l)
      was == view[l]
      start == Least(Most(room.lo, Round(was.start + dt)),
                     IF mode = "move" THEN room.hi - (was.end - was.start) ELSE was.end - MinLine)
      end == Most(Least(room.hi, Round(was.end + dt)), was.start + MinLine) IN
  CASE mode = "move" -> [start |-> start, end |-> start + was.end - was.start]
    [] mode = "start" -> [start |-> start, end |-> was.end]
    [] mode = "end" -> [start |-> was.start, end |-> end]
Drag(l) ==
  /\ Free /\ moves < MaxMoves /\ moves' = moves + 1
  /\ \E mode \in {"move", "start", "end"}, dt \in -Total..Total :
       LET p == Dragged(l, mode, dt) IN Draft(l, [drafts[l] EXCEPT !.start = p.start, !.end = p.end])
  /\ UNCHANGED <<at, segments, submitting, sent, shown, typed, made, row, versions>>

-----------------------------------------------------------------------------
(* Re-dubbing *)
\* apply: what differs is sent.
Apply ==
  /\ Free /\ \E l \in Lines : edits[l] # Blank
  /\ submitting' = "asking" /\ sent' = edits /\ shown' = view
  /\ UNCHANGED <<at, segments, drafts, typed, made, row, moves, versions>>
\* applyEdits: the newest version with the edits; the lines whose times were sent are
\* long enough and within the video, and no line overlaps another.
Edited(e) == [l \in Lines |-> [text |-> IF e[l].text = None THEN made[l].text ELSE Squash(e[l].text),
                               start |-> Or(e[l].start, made[l].start), end |-> Or(e[l].end, made[l].end)]]
Accepted(e) ==
  LET new == Edited(e) IN
  /\ \A l \in Lines : e[l].start # None \/ e[l].end # None =>
       new[l].end - new[l].start >= MinLine /\ new[l].start >= 0 /\ new[l].end <= Total
  /\ \A l \in 2..Count : new[l].start >= new[l - 1].end
  /\ new # made
\* The edit is made, and the page watches it unless the answer is lost.
Create ==
  /\ submitting = "asking" /\ ~Active /\ Accepted(sent) /\ versions < MaxVersions
  /\ versions' = versions + 1 /\ row' = [st |-> "RUNNING", lines |-> Edited(sent)] /\ sent' = NoDrafts
  /\ \/ submitting' = "watching" /\ shown' = IF segments = made THEN shown ELSE None
     \/ submitting' = "no" /\ shown' = None
  /\ UNCHANGED <<at, segments, drafts, typed, made, moves>>
\* Refused, or not answered: the drafts stay.
Refused ==
  /\ submitting = "asking" /\ submitting' = "no" /\ sent' = NoDrafts /\ shown' = None
  /\ UNCHANGED <<at, segments, drafts, typed, made, row, moves, versions>>
Works ==
  /\ Active /\ \E st \in {"DONE", "FAILED"} : /\ row' = [st |-> st, lines |-> None]
                                              /\ made' = IF st = "DONE" THEN row.lines ELSE made
  /\ UNCHANGED <<page, moves, versions>>
\* watch: the versions are read again; how the newest ended is told, and the drafts of
\* one that worked are dropped.
Watch ==
  /\ submitting = "watching" /\ ~Active /\ submitting' = "no" /\ segments' = made /\ shown' = None
  /\ IF row.st = "DONE" THEN drafts' = NoDrafts /\ typed' = FALSE
     ELSE UNCHANGED drafts /\ typed' = (typed \/ segments # made)
  /\ UNCHANGED <<at, sent, made, row, moves, versions>>

Next == \/ Visit \/ Pick \/ Load \/ Leave \/ Discard \/ Apply \/ Create \/ Refused \/ Works \/ Watch
        \/ \E l \in Lines : Retype(l) \/ Retime(l) \/ Revert(l) \/ Drag(l)
Spec == Init /\ [][Next]_vars

-----------------------------------------------------------------------------
(* Properties *)
\* The state has its type (the state of Editor and LineTimeline).
TypeOK ==
  /\ at \in {"gate", "list", "loading", "editor", "error"}
  /\ segments \in [Lines -> Line] /\ made \in [Lines -> Line]
  /\ \A l \in Lines, d \in {drafts, sent} : /\ d[l].text \in Texts \cup {None}
                                            /\ d[l].start \in Int \cup {None} /\ d[l].end \in Int \cup {None}
  /\ row.st \in {"none", "RUNNING", "DONE", "FAILED"} /\ submitting \in {"no", "asking", "watching"}
  /\ typed \in BOOLEAN
  /\ moves \in 0..MaxMoves /\ versions \in 0..MaxVersions
\* "A line cannot be dragged over its neighbours": whatever lines are dragged in
\* whatever order, over drafts and versions, they stay apart, unless a time was typed, a
\* line's changes were undone, the drafts were made over an older version than the one on
\* show, or the dub has a line shorter than the shortest one
\* (SpeechEditor.tsx:668-670, 724-757).
DragsKeepApart == ~typed /\ (\A l \in Lines : segments[l].end - segments[l].start >= MinLine) => Apart(view)
\* "The transcript as it will be after the drafts are applied": a re-dub that is
\* reported done gave the very lines on show when it was asked for, blanks apart,
\* provided the page knew the newest version then (SpeechEditor.tsx:276-301,
\* edits.ts:37-94).
RedubAsShown ==
  [][Watch /\ row.st = "DONE" /\ shown # None =>
       segments' = [l \in Lines |-> [shown[l] EXCEPT !.text = Squash(@)]]]_vars
=============================================================================
