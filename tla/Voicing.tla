-------------------------------- MODULE Voicing --------------------------------
(* The server's calls to the dubbing pipeline and to ffmpeg while it makes one   *)
(* edit of a dub (speech-edit process) and subtitles for a clip (autoSubtitles): *)
(* every line is asked for once, waited for, fetched, and laid into the video.   *)
EXTENDS Naturals

CONSTANTS Lines,                       \* changed lines that have words, 1..n of them
          CallTicks, Deadline, RunTicks,  \* how long a call, a line and a run may last
          MaxRestarts                  \* bound

VARIABLES edit,      \* what the edit does now, for which line
          sent,      \* lines whose request went out
          task,      \* the backend's task of each line
          charged,   \* times each line was charged
          shows,     \* the task's state as last read
          waited,    \* time in the call or the run under way
          spent,     \* time since the line's task was made
          kept,      \* lines whose audio is in the work directory
          work, out, \* the work directory, the rendered version
          sub, heard,\* the subtitles under way; time in their call or run
          wav,       \* their extracted sound is on disk
          restarts
vars == <<edit, sent, task, charged, shows, waited, spent, kept, work, out, sub, heard, wav, restarts>>
pipeline == <<sent, task, charged>>
files == <<kept, work, out>>
subtitles == <<sub, heard, wav>>

Ended == {"none", "done", "failed"}
\* In a call, the base video's, a line's POST, its polls, its audio's; in a run of ffmpeg.
Calls == {"fetching", "asking", "reading", "storing"}
Runs == {"splicing"}

Init == /\ edit = [at |-> "none", line |-> 1] /\ sent = {} /\ task = [l \in 1..Lines |-> "none"]
        /\ charged = [l \in 1..Lines |-> 0] /\ shows = "none" /\ waited = 0 /\ spent = 0
        /\ kept = {} /\ work = FALSE /\ out = FALSE /\ sub = "none" /\ heard = 0 /\ wav = FALSE
        /\ restarts = 0

-----------------------------------------------------------------------------
(* The pipeline: a request that went out may arrive, even when nobody waits for it. *)
Takes(l) == /\ l \in sent /\ task[l] = "none" /\ task' = [task EXCEPT ![l] = "queued"]
            /\ UNCHANGED <<edit, sent, charged, shows, waited, spent, files, subtitles, restarts>>
\* A voiced line is charged; a task may fail, and is lost with the pipeline's memory.
Renders(l) ==
  /\ task[l] \in {"queued", "running"}
  /\ \E st \in {"running", "done", "failed", "lost"} :
       /\ st # task[l] /\ task' = [task EXCEPT ![l] = st]
       /\ charged' = [charged EXCEPT ![l] = IF st = "done" THEN @ + 1 ELSE @]
  /\ UNCHANGED <<edit, sent, shows, waited, spent, files, subtitles, restarts>>

-----------------------------------------------------------------------------
(* process: one line after another. *)
At(s) == edit.at = s
Goes(s, l) == edit' = [at |-> s, line |-> l] /\ waited' = 0
\* Ends: the row says how, the work directory goes.
Ends(s) == Goes(s, 1) /\ work' = FALSE /\ kept' = {} /\ shows' = "none" /\ spent' = 0
Fails == Ends("failed") /\ UNCHANGED <<sent, task, charged, out, subtitles, restarts>>

Begin == /\ At("none") /\ work' = TRUE
         /\ \E s \in {"fetching", "speaking"} : Goes(s, 1)     \* from a version on disk, or from the dub
         /\ UNCHANGED <<pipeline, shows, spent, kept, out, subtitles, restarts>>
Fetched == /\ At("fetching") /\ Goes("speaking", 1)
           /\ UNCHANGED <<pipeline, shows, spent, files, subtitles, restarts>>
\* speak
Ask == /\ At("speaking") /\ edit.line <= Lines /\ Goes("asking", edit.line)
       /\ sent' = sent \cup {edit.line} /\ task' = [task EXCEPT ![edit.line] = "none"]
       /\ UNCHANGED <<charged, shows, spent, files, subtitles, restarts>>
Asked == /\ At("asking") /\ task[edit.line] # "none" /\ Goes("polling", edit.line) /\ shows' = "queued" /\ spent' = 0
         /\ UNCHANGED <<pipeline, files, subtitles, restarts>>
\* Variant: the line is waited for as long as it takes.
PollPatiently == At("polling") /\ shows \in {"queued", "running"} /\ Goes("reading", edit.line)
                 /\ UNCHANGED <<pipeline, shows, spent, files, subtitles, restarts>>
\* The deadline is looked at before each poll.
Poll == /\ At("polling") /\ shows \in {"queued", "running"}
        /\ IF spent > Deadline THEN Fails
           ELSE Goes("reading", edit.line) /\ UNCHANGED <<pipeline, shows, spent, files, subtitles, restarts>>
Read == /\ At("reading") /\ task[edit.line] # "lost" /\ Goes("polling", edit.line) /\ shows' = task[edit.line]
        /\ UNCHANGED <<pipeline, spent, files, subtitles, restarts>>
Spoken == /\ At("polling") /\ shows = "done" /\ Goes("storing", edit.line) /\ shows' = "none" /\ spent' = 0
          /\ UNCHANGED <<pipeline, files, subtitles, restarts>>
Unspoken == At("polling") /\ shows = "failed" /\ Fails
Stored == /\ At("storing") /\ Goes("speaking", edit.line + 1) /\ kept' = kept \cup {edit.line}
          /\ UNCHANGED <<pipeline, shows, spent, work, out, subtitles, restarts>>
\* ffmpeg
Splice == /\ At("speaking") /\ edit.line > Lines /\ Goes("splicing", edit.line)
          /\ UNCHANGED <<pipeline, shows, spent, files, subtitles, restarts>>
Spliced == /\ At("splicing") /\ out' = (kept = 1..Lines) /\ Ends("done")
           /\ UNCHANGED <<pipeline, subtitles, restarts>>
\* Variant: a call that broke is made again, from the start of the line.
AsksAgain == IF edit.at \in {"fetching", "splicing"} THEN Fails
             ELSE Goes("speaking", edit.line) /\ UNCHANGED <<pipeline, shows, spent, files, subtitles, restarts>>
\* A call is refused or not answered, a run ends badly: the edit fails.
BreaksOff == Fails
Breaks == edit.at \in Calls \cup Runs /\ BreaksOff
\* A call is aborted and a run is killed when its time is up.
Limit(s) == IF s \in {"splicing", "extracting"} THEN RunTicks ELSE CallTicks
Expires == edit.at \in Calls \cup Runs /\ waited = Limit(edit.at) /\ BreaksOff

-----------------------------------------------------------------------------
(* autoSubtitles: the clip's sound is extracted, heard, and removed. *)
SubGoes(s) == sub' = s /\ heard' = 0 /\ UNCHANGED <<edit, pipeline, shows, waited, spent, files, restarts>>
Extract == sub \in Ended /\ SubGoes("extracting") /\ wav' = TRUE
Hear == sub = "extracting" /\ SubGoes("hearing") /\ UNCHANGED wav
\* Variant: a call that was not answered leaves the sound where it is.
SubEndsDone(s) == SubGoes(s) /\ wav' = (s # "done")
SubEnds(s) == SubGoes(s) /\ wav' = FALSE
Heard == sub = "hearing" /\ SubEnds("done")
SubBreaks == sub \in {"extracting", "hearing"} /\ SubEnds("failed")
SubExpires == sub \in {"extracting", "hearing"} /\ heard = Limit(sub) /\ SubEnds("failed")

-----------------------------------------------------------------------------
\* Time passes for what is under way, up to what cuts it short.
Until(s, n) == IF s \in {"extracting", "hearing"} \cup Calls \cup Runs /\ n < Limit(s) THEN n + 1 ELSE n
Tick == /\ edit.at \notin Calls \cup Runs \/ waited < Limit(edit.at)
        /\ sub \in Ended \/ heard < Limit(sub)
        /\ waited' = Until(edit.at, waited) /\ heard' = Until(sub, heard)
        /\ spent' = IF edit.at \in {"polling", "reading"} /\ spent <= Deadline THEN spent + 1 ELSE spent
        /\ <<waited', heard', spent'>> # <<waited, heard, spent>>
        /\ UNCHANGED <<edit, pipeline, shows, files, sub, wav, restarts>>
\* The rows that were active are failed, the files of the work stay.
Restart == /\ restarts < MaxRestarts /\ restarts' = restarts + 1
           /\ Goes(IF edit.at \in Ended THEN edit.at ELSE "failed", 1) /\ shows' = "none" /\ spent' = 0
           /\ sub' = "none" /\ heard' = 0 /\ UNCHANGED <<pipeline, files, wav>>

Client == Begin \/ Fetched \/ Ask \/ Asked \/ Read \/ Spoken \/ Unspoken \/ Stored \/ Splice \/ Spliced
\* What needs no answer from anyone.
Own == Poll \/ Ask \/ Spoken \/ Unspoken \/ Splice
Next == \/ Client \/ Poll \/ Breaks \/ Expires \/ Tick \/ Restart
        \/ Extract \/ Hear \/ Heard \/ SubBreaks \/ SubExpires
        \/ \E l \in 1..Lines : Takes(l) \/ Renders(l)
Spec == Init /\ [][Next]_vars
\* Timers run and fire, what the server does by itself is done; nobody else has to answer.
Fairness == WF_vars(Tick) /\ WF_vars(Own) /\ WF_vars(Expires) /\ WF_vars(SubExpires)
FairSpec == Spec /\ Fairness

-----------------------------------------------------------------------------
(* Properties *)
\* Every variable holds a value of its kind.
TypeOK ==
  /\ edit.at \in Ended \cup Calls \cup Runs \cup {"speaking", "polling"} /\ edit.line \in 1..(Lines + 1)
  /\ sent \subseteq 1..Lines /\ task \in [1..Lines -> {"none", "queued", "running", "done", "failed", "lost"}]
  /\ charged \in [1..Lines -> 0..2] /\ shows \in {"none", "queued", "running", "done", "failed"}
  /\ waited \in 0..(CallTicks + RunTicks) /\ spent \in 0..(Deadline + 1)
  /\ kept \subseteq 1..Lines /\ work \in BOOLEAN /\ out \in BOOLEAN
  /\ sub \in Ended \cup {"extracting", "hearing"} /\ heard \in 0..(CallTicks + RunTicks) /\ wav \in BOOLEAN
  /\ restarts \in 0..MaxRestarts

\* An edit charges each of its lines once at the most, whatever is not answered, and an edit
\* that is done has the paid audio of each of them (speech-edit.service.ts:211-227,
\* pipeline.service.ts:243-246: "Charged by the pipeline like any text to speech").
LinesPaidOnce ==
  /\ \A l \in 1..Lines : charged[l] <= 1
  /\ At("done") => out /\ \A l \in 1..Lines : charged[l] = 1

\* An edit under way ends, and subtitles do, whether or not the pipeline ever answers and
\* ffmpeg ever ends (pipeline.service.ts:123, 195, 256-264, media.service.ts:106, 129-132).
VoicingEnds == []<>(edit.at \in Ended) /\ []<>(sub \in Ended)

\* The extracted sound is gone when the subtitles are made or are not (editor.service.ts:434-436).
SoundIsGone == sub \in {"done", "failed"} => ~wav
=============================================================================
