-------------------------------- MODULE Splice --------------------------------
(* The arithmetic of a speech edit (api/src/speech-edit/edits.ts): which stretches of
   a dub's sound are silenced and where the new speech of the changed lines is laid.
   Time is cut into slots; what is heard in a slot is a set of lines' utterances. *)
EXTENDS Naturals, FiniteSets

CONSTANTS Count,      \* lines, numbered in the order they are said
          Length,     \* slots of sound in the dub
          Lengths,    \* slots an utterance may take
          MaxVersions \* bound

VARIABLES transcript, sound,   \* of the newest version
          first,               \* history: the sound of the dub before any edit
          changedIn,           \* history: the version that last changed each line
          version
vars == <<transcript, sound, first, changedIn, version>>

Lines == 1..Count
Slots == 0..Length - 1
\* A line: its slots, and whether it has words (a cleared line stays silent).
Line == [at : Slots, end : 1..Length, words : BOOLEAN]

\* windowEnd: where the next line starts, or the end.
WindowEnd(t, l) == IF l = Count THEN Length ELSE t[l + 1].at
Larger(a, b) == IF a < b THEN b ELSE a
Smaller(a, b) == IF a < b THEN a ELSE b
\* applyEdits refuses lines that are too short, leave the video or overlap.
Valid(t) == \A l \in Lines : t[l].at < t[l].end /\ t[l].end <= Length /\ t[l].end <= WindowEnd(t, l)
Transcripts == {t \in [Lines -> Line] : Valid(t)}

\* What a line owns: up to the next line, or the end.
Owned(t, l) == t[l].at .. Larger(WindowEnd(t, l), t[l].end) - 1
\* Variant: only the stretch the line owns now is silenced.
MutesNow(before, after, changed) == UNION {Owned(after, l) : l \in changed}
\* planSplice: both windows of a changed line are silenced.
Mutes(before, after, changed) == UNION {Owned(before, l) \cup Owned(after, l) : l \in changed}
\* A line longer than its room is sped up, then cut there.
Laid(t, l, len) == t[l].at .. t[l].at + Smaller(len, Larger(WindowEnd(t, l) - t[l].at, 1)) - 1
Spoken(t, ls, len, v) == [s \in Slots |-> {[line |-> l, by |-> v] : l \in {m \in ls : t[m].words /\ s \in Laid(t, m, len[m])}}]
\* What the pipeline may have made: one line at a time and in order, wherever its words
\* fall: late, after a line that ran long, early, in a chunk it was merged into, or not at
\* all (timeline.py, tts_edge.py).
Firsts(t) ==
  {s \in [Slots -> {{}} \cup {{[line |-> l, by |-> 0]} : l \in {m \in Lines : t[m].words}}] :
     \A a, b \in Slots : a <= b => \A g \in s[a], h \in s[b] : g.line <= h.line}
\* The dub before any edit: version 0.
Init == /\ transcript \in Transcripts /\ changedIn = [l \in Lines |-> 0] /\ version = 0
        /\ sound \in Firsts(transcript) /\ first = sound

-----------------------------------------------------------------------------
\* spliceArgs: the sound of the version before, silenced, with the new lines mixed in.
Splice(after, changed, len) ==
  LET new == Spoken(after, changed, len, version + 1)
  IN [s \in Slots |-> (IF s \in Mutes(transcript, after, changed) THEN {} ELSE sound[s]) \cup new[s]]
\* Some lines are reworded, some are moved, stretched or cleared.
Edit(after, reworded, len) ==
  LET changed == reworded \cup {l \in Lines : transcript[l] # after[l]}
  IN /\ version < MaxVersions /\ changed # {} /\ version' = version + 1
     /\ transcript' = after /\ sound' = Splice(after, changed, len) /\ first' = first
     /\ changedIn' = [l \in Lines |-> IF l \in changed THEN version + 1 ELSE changedIn[l]]
Next == \E after \in Transcripts, reworded \in SUBSET Lines, len \in [Lines -> Lengths] : Edit(after, reworded, len)
Spec == Init /\ [][Next]_vars

-----------------------------------------------------------------------------
\* The state has its type.
TypeOK == /\ transcript \in [Lines -> Line] /\ Valid(transcript)
          /\ changedIn \in [Lines -> 0..version] /\ version \in 0..MaxVersions
          /\ sound \in [Slots -> SUBSET [line : Lines, by : 0..version]]
          /\ first \in [Slots -> SUBSET [line : Lines, by : {0}]]
\* "Leave every other sample exactly as it was": whatever was changed from version to
\* version, several lines at once and moved past each other's old places, the time of a
\* line that never was sounds as in the first dub; and a line that was is heard in its
\* newest recording, from its start on if it has words, and in no other recording nor
\* anywhere else (edits.ts:1-13, 102-150, 172-228).
SpliceKeepsRight ==
  \A l \in Lines :
    /\ changedIn[l] = 0 => \A s \in transcript[l].at .. transcript[l].end - 1 : sound[s] = first[s]
    /\ \A s \in Slots : \A h \in sound[s] : h.line = l /\ h.by > 0 => h.by = changedIn[l] /\ s \in Owned(transcript, l)
    /\ changedIn[l] > 0 /\ transcript[l].words => [line |-> l, by |-> changedIn[l]] \in sound[transcript[l].at]
\* Not run, and false: "that window holds this line and nothing else" (edits.ts:10-13).
\* What the pipeline said of a line may lie in its neighbours' windows: it is heard beside
\* the correction, or cut with a neighbour's.
OldSpeechIsGone ==
  \A l \in Lines : changedIn[l] > 0 => \A s \in Slots : [line |-> l, by |-> 0] \notin sound[s]
=============================================================================
