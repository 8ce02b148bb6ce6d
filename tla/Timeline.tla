------------------------------ MODULE Timeline ------------------------------
(* The video editor's timeline: what the page lets a user do to it
   (frontend/src/pages/VideoEditor.tsx) and what the API accepts
   (api/src/editor/timeline.ts).  Time counts in twentieths of a second, so the
   page's shortest clip is 2, the API's 1, and the API's shortest subtitle 4.
   One track of each kind; what snapping, names, volumes and fades do to a clip
   stays inside the ranges below and is left out. *)
EXTENDS Integers, FiniteSets, Sequences, SequencesExt

CONSTANTS Assets, NoAsset,
          Duration,        \* Duration[a]: seconds of file a, in twentieths
          Videos, Sounds,  \* the files with a picture, the files with sound
          TextMax,         \* the longest subtitle the page makes (60 s in the code)
          MaxTime,         \* the longest timeline (3 h in the code)
          Points,          \* bound: where a user clicks, drags to or types
          MaxEdits         \* bound: edits

VARIABLES doc, past, future, edits
vars == <<doc, past, future, edits>>

MinClip == 2
SrvMinClip == 1
MinText == 4
Kinds == {"video", "voice", "music", "audio", "text"}
Family(k) == IF k \in {"video", "text"} THEN k ELSE "sound"
Len_(c) == c.out - c.in
End(c) == c.start + Len_(c)
Clip(id, track, asset, start, in, out) ==
  [id |-> id, track |-> track, asset |-> asset, start |-> start, in |-> in, out |-> out]
FreshId == Cardinality(doc.clips) + 10 * edits + 1
Least(a, b) == IF b < a THEN b ELSE a
Greatest(a, b) == IF b > a THEN b ELSE a

Init ==
  /\ doc = [tracks |-> {"video", "voice", "music"}, clips |-> {}]
  /\ past = <<>> /\ future = <<>> /\ edits = 0

\* commit: the change is made and the timeline before it can be brought back.
Commit(next) ==
  /\ edits < MaxEdits /\ edits' = edits + 1
  /\ doc' = next /\ past' = Append(past, doc) /\ future' = <<>>
Replace(c, new) == Commit([doc EXCEPT !.clips = (@ \ {c}) \cup new])
WithTrack(k) == doc.tracks \cup {k}

-----------------------------------------------------------------------------
(* Adding. *)
\* place: on a track of the kind it wants, else any track that is not a picture's.
Wants(a) == IF a \in Videos THEN {"video"} ELSE {"voice", "music"}
Lands(a, want) ==
  IF want \in doc.tracks THEN {want}
  ELSE IF a \in Videos \/ doc.tracks \subseteq {"video"} THEN {want}
  ELSE doc.tracks \ {"video"}
Detached(c) == Clip(FreshId + 1, "audio", c.asset, c.start, c.in, c.out)
Place(a, at) == \E want \in Wants(a) : \E k \in Lands(a, want) :
  LET c == Clip(FreshId, k, a, at, 0, Duration[a])
      sound == IF a \in Videos \cap Sounds THEN {Detached(c)} ELSE {}
  IN Commit([tracks |-> WithTrack(k) \cup {s.track : s \in sound}, clips |-> doc.clips \cup {c} \cup sound])
Detach(c) == /\ c.track = "video" /\ c.asset \in Sounds
             /\ Commit([tracks |-> WithTrack("audio"), clips |-> doc.clips \cup {Detached(c)}])
AddText(at) == Commit([tracks |-> WithTrack("text"),
                       clips |-> doc.clips \cup {Clip(FreshId, "text", NoAsset, at, 0, 40)}])
\* autoSubtitles: the line heard at p..q of a file, under each clip that plays it; a
\* line of less than 0.15 s is dropped.  Earlier subtitles are replaced.
Heard(p, q) ==
  LET from(c) == IF p > c.in THEN p ELSE c.in
      to(c) == IF q < c.out THEN q ELSE c.out
      length(c) == to(c) - from(c)
  IN {Clip(FreshId + c.id, "text", NoAsset, c.start + (from(c) - c.in), 0,
           IF length(c) < MinText THEN MinText ELSE length(c)) :
        c \in {c \in doc.clips : c.track \notin {"text", "music"} /\ c.asset \in Sounds /\ length(c) >= 3}}
AutoSubtitles(p, q) ==
  /\ Heard(p, q) # {}
  /\ Commit([tracks |-> WithTrack("text"), clips |-> {c \in doc.clips : c.track # "text"} \cup Heard(p, q)])
AddTrack(k) == k \notin doc.tracks /\ k \in {"video", "voice", "music"} /\ Commit([doc EXCEPT !.tracks = WithTrack(k)])
RemoveTrack(k) == Commit([tracks |-> doc.tracks \ {k}, clips |-> {c \in doc.clips : c.track # k}])

-----------------------------------------------------------------------------
(* Cutting, trimming and moving. *)
\* Variant: the second half plays from where the clip began.
SplitRewinds(c, at) ==
  /\ at > c.start + MinClip /\ at < End(c) - MinClip
  /\ LET cut == c.in + (at - c.start) IN
     Replace(c, {[c EXCEPT !.out = cut], [c EXCEPT !.id = FreshId, !.start = at, !.out = Len_(c) - cut]})
Split(c, at) ==
  /\ at > c.start + MinClip /\ at < End(c) - MinClip
  /\ LET cut == c.in + (at - c.start) IN
     Replace(c, IF c.track = "text"
                THEN {[c EXCEPT !.out = at - c.start], [c EXCEPT !.id = FreshId, !.start = at, !.out = End(c) - at]}
                ELSE {[c EXCEPT !.out = cut], [c EXCEPT !.id = FreshId, !.start = at, !.in = cut]})
Delete(c) == Replace(c, {})
Duplicate(c) == Replace(c, {c, [c EXCEPT !.id = FreshId, !.start = End(c)]})
\* An edge stops at the file's end and at the shortest clip, whichever the code looks at
\* last: the shortest clip for the left edge, though it be before the file's beginning,
\* the file's end for the right one.
DragLeft(c, at) ==
  IF c.track = "text"
  THEN LET start == Least(at, End(c) - MinClip)
       IN Replace(c, {[c EXCEPT !.start = start, !.out = End(c) - start]})
  ELSE LET shift == Least(Greatest(at - c.start, -c.in), Len_(c) - MinClip)
       IN Replace(c, {[c EXCEPT !.start = c.start + shift, !.in = c.in + shift]})
\* Variant: the right edge follows the pointer past the end of the file.
DragRightFreely(c, to) ==
  Replace(c, {[c EXCEPT !.out = Greatest(c.in + MinClip, c.in + (to - c.start))]})
DragRight(c, to) ==
  LET last == IF c.track = "text" THEN TextMax ELSE Duration[c.asset]
  IN Replace(c, {[c EXCEPT !.out = Least(last, Greatest(c.in + MinClip, c.in + (to - c.start)))]})
\* A clip dragged along, onto its own track or another of its family.
Move(c, at, k) == /\ k \in doc.tracks /\ Family(k) = Family(c.track)
                  /\ Replace(c, {[c EXCEPT !.start = at, !.track = k]})
\* The inspector's numbers: start as typed, the trims at least the shortest clip apart.
TypeIn(c, v) ==
  \/ Replace(c, {[c EXCEPT !.start = v]})
  \/ c.track = "text" /\ Replace(c, {[c EXCEPT !.out = Greatest(MinText, Least(v, TextMax))]})
  \/ /\ c.track # "text"
     /\ LET w == Least(v, Duration[c.asset])
        IN \/ Replace(c, {[c EXCEPT !.in = Least(w, c.out - MinClip)]})
           \/ Replace(c, {[c EXCEPT !.out = Greatest(w, c.in + MinClip)]})

Undo == /\ past # <<>> /\ doc' = Last(past) /\ past' = Front(past)
        /\ future' = Append(future, doc) /\ UNCHANGED edits
Redo == /\ future # <<>> /\ doc' = Last(future) /\ future' = Front(future)
        /\ past' = Append(past, doc) /\ UNCHANGED edits

Adding(p, q) ==
  \/ \E a \in Assets : Place(a, p)
  \/ AddText(p) \/ AutoSubtitles(p, q)
  \/ \E k \in Kinds : AddTrack(k) \/ RemoveTrack(k)
Editing(c, p) ==
  \/ Detach(c) \/ Split(c, p) \/ Delete(c) \/ Duplicate(c)
  \/ DragLeft(c, p) \/ DragRight(c, p) \/ TypeIn(c, p)
  \/ \E k \in doc.tracks : Move(c, p, k)
Next == \/ \E p, q \in Points : Adding(p, q)
        \/ \E c \in doc.clips, p \in Points : Editing(c, p)
        \/ Undo \/ Redo
Spec == Init /\ [][Next]_vars

-----------------------------------------------------------------------------
(* validateTracks: the clip is stored as it was sent, or the whole save is refused. *)
Fits(c) == IF c.track = "video" THEN c.asset \in Videos ELSE c.asset \in Sounds
AcceptsText(c) == c.asset = NoAsset /\ Len_(c) \in MinText .. TextMax /\ End(c) <= MaxTime
AcceptsFile(c) ==
  /\ c.asset \in Assets /\ Fits(c)
  /\ c.in \in 0 .. Duration[c.asset] /\ c.out \in 0 .. Duration[c.asset]
  /\ Len_(c) >= SrvMinClip /\ c.start >= 0 /\ End(c) <= MaxTime
Accepts(c) == IF c.track = "text" THEN AcceptsText(c) ELSE AcceptsFile(c)

TypeOK ==
  /\ doc.tracks \subseteq Kinds
  /\ \A c \in doc.clips : c.track \in doc.tracks /\ c.asset \in Assets \cup {NoAsset} /\ {c.start, c.in, c.out} \subseteq Int
  /\ Len(past) + Len(future) <= MaxEdits /\ edits \in 0 .. MaxEdits

\* Whatever is placed, cut, trimmed, dragged between tracks and undone, pictures and sounds
\* are on tracks that play them, and the API stores a clip as the page shows it
\* (timeline.ts:133-179) - within its file, not shorter than it accepts - if its file is not
\* shorter than the page's shortest clip and it ends within the longest timeline.
FilesAreStored ==
  \A c \in doc.clips : c.track # "text" =>
    /\ c.asset \in Assets /\ Fits(c)
    /\ Duration[c.asset] >= MinClip /\ End(c) <= MaxTime => AcceptsFile(c)

Plays(d) == UNION {{<<c.track, c.asset, c.start + i, c.in + i>> : i \in 0 .. Len_(c) - 1} : c \in {x \in d.clips : x.track # "text"}}
\* Cutting a clip of a file in two changes nothing of what plays when (VideoEditor.tsx:550-578).
SplitKeepsPlaying == [][\A c \in doc.clips, p \in Points : Split(c, p) => Plays(doc') = Plays(doc)]_vars

\* Not run, and false.  Every timeline the page can make is accepted, "on the track it
\* belongs to" (VideoEditor.tsx:505): with its sound tracks removed, a sound lands on the
\* subtitles' track; a subtitle cut or dragged may be shorter than the API takes; a file of
\* any length above nothing may be added (editor.service.ts:261), and a clip of a very short
\* one is refused, or trimmed to before its beginning; and nothing on the page stops a clip
\* at the three hours.
EditsAreStored == \A c \in doc.clips : Accepts(c)
=============================================================================
