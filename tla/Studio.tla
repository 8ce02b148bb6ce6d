-------------------------------- MODULE Studio --------------------------------
(* The Studio's page (frontend/src/pages/Studio.tsx): the choice of what to dub,
   a click on Start up to the job it creates, following that job, and its record in
   the user's library (lib/works.tsx, whose own life is module Works).  What the
   backend does with a job is DubJobs; a job is here only "running" or "done". *)
EXTENDS Naturals, FiniteSets

CONSTANTS Files, NoFile,
          Runs, NoRun,  \* dubs and re-dubs, each asked for at most once (bound)
          MaxChoices    \* bound: changes of the source

VARIABLES src,        \* the source: tab, file, link typed, sample switch
          probes,     \* files being measured; the one still of interest
          measured,   \* the file whose length is quoted
          choices,
          run,        \* run[r]: how far start() or revoice() got
          job,        \* job[r]: at the backend
          page,       \* what the page shows, follows and may close
          followers,  \* event streams and polls feeding the page
          library,    \* library[r]: the record of the run
          twice       \* history: Start was clicked while an earlier click was under way
vars == <<src, probes, measured, choices, run, job, page, followers, library, twice>>
source == <<src, probes, measured, choices>>
running == <<run, job, page, followers, library, twice>>

Init ==
  /\ src = [tab |-> "upload", file |-> NoFile, link |-> FALSE, sample |-> FALSE]
  /\ probes = {} /\ measured = NoFile /\ choices = 0
  /\ run = [r \in Runs |-> "idle"] /\ job = [r \in Runs |-> "none"]
  /\ page = [open |-> TRUE, job |-> NoRun, seen |-> "none", saved |-> NoRun, unsub |-> NoRun, busy |-> FALSE]
  /\ followers = {} /\ library = [r \in Runs |-> "none"] /\ twice = FALSE

-----------------------------------------------------------------------------
(* What to dub.  Each change is the click and the effects it sets off. *)
HasLink == src.tab = "link" /\ src.link
IsSample == src.sample /\ src.file = NoFile /\ ~HasLink
Sources == {s \in {"file", "link", "sample"} :
              \/ s = "file" /\ src.file # NoFile
              \/ s = "link" /\ HasLink
              \/ s = "sample" /\ IsSample}
CanStart == Sources # {}

\* Variant: switching the tab leaves the file where it is.
ChooseKeepsFile(new) ==
  /\ page.open /\ page.seen # "running" /\ choices < MaxChoices /\ choices' = choices + 1
  /\ src' = [new EXCEPT !.link = @ /\ new.tab = "link", !.sample = @ /\ (new.file = NoFile)]
  /\ IF new.file = src.file THEN UNCHANGED <<probes, measured>>
     ELSE /\ probes' = {[p EXCEPT !.stale = TRUE] : p \in probes} \cup {[file |-> f, stale |-> FALSE] : f \in {new.file} \ {NoFile}}
          /\ measured' = IF new.file = NoFile THEN NoFile ELSE measured
  /\ UNCHANGED running
\* A picked file switches the sample off, a tab drops what the other held, and a file
\* that goes or changes makes the measuring of the one before it stale.
Choose(new) ==
  /\ page.open /\ page.seen # "running" /\ choices < MaxChoices /\ choices' = choices + 1
  /\ LET file == IF new.tab = "upload" THEN new.file ELSE NoFile IN
     /\ src' = [new EXCEPT !.file = file, !.link = @ /\ new.tab = "link", !.sample = @ /\ file = NoFile]
     /\ IF file = src.file THEN UNCHANGED <<probes, measured>>
        ELSE /\ probes' = {[p EXCEPT !.stale = TRUE] : p \in probes} \cup {[file |-> f, stale |-> FALSE] : f \in {file} \ {NoFile}}
             /\ measured' = IF file = NoFile THEN NoFile ELSE measured
  /\ UNCHANGED running
PickFile(f) == src.tab = "upload" /\ f # src.file /\ Choose([src EXCEPT !.file = f])
TypeLink == src.tab = "link" /\ Choose([src EXCEPT !.link = ~@])
Tab == Choose([src EXCEPT !.tab = IF @ = "link" THEN "upload" ELSE "link"])
UseSample == Choose(IF IsSample THEN [src EXCEPT !.sample = FALSE]
                    ELSE [src EXCEPT !.sample = TRUE, !.file = NoFile, !.link = FALSE])
\* A link typed on the dashboard arrives with the page.
Preset == Choose([src EXCEPT !.tab = "link", !.link = TRUE, !.sample = FALSE])

\* Variant: the length found last wins.
MeasuredLast(p) == measured' = p.file
Measured(p) == measured' = IF p.stale THEN measured ELSE p.file
Probed(p) == probes' = probes \ {p} /\ Measured(p) /\ UNCHANGED <<src, choices, running>>

-----------------------------------------------------------------------------
(* Start.  The button is disabled while busy or running, and the page is busy only
   once the credit gate let the run through; the request outlives the page. *)
Click(r) ==
  /\ page.open /\ ~page.busy /\ page.seen # "running" /\ CanStart /\ run[r] = "idle"
  /\ run' = [run EXCEPT ![r] = "gate"]
  /\ twice' = (twice \/ \E s \in Runs : run[s] \in {"gate", "create"})
  /\ UNCHANGED <<source, job, page, followers, library>>
Refused(r) ==
  /\ run[r] = "gate" /\ run' = [run EXCEPT ![r] = "over"]
  /\ UNCHANGED <<source, job, page, followers, library, twice>>
\* Closing a stream stops it; a poll whose answer is on its way still delivers it.
Closed(r) == {f \in followers : f.run # r} \cup {[f EXCEPT !.by = "late"] : f \in {g \in followers : g.run = r /\ g.by = "poll"}}
Allowed(r) ==
  /\ run[r] = "gate" /\ run' = [run EXCEPT ![r] = "create"]
  /\ page' = [page EXCEPT !.busy = TRUE, !.job = NoRun, !.seen = "none", !.saved = NoRun]
  /\ followers' = Closed(page.unsub)
  /\ UNCHANGED <<source, job, library, twice>>
\* revoice: from a finished dub, without the gate; its page stays until the answer.
Revoice(r) ==
  /\ page.open /\ page.seen = "done" /\ run[r] = "idle" /\ ~\E s \in Runs : run[s] = "revoice"
  /\ run' = [run EXCEPT ![r] = "revoice"]
  /\ UNCHANGED <<source, job, page, followers, library, twice>>
Asked(r) == run[r] \in {"create", "revoice"}
\* The page attaches to the job and records the run at once.
Created(r) ==
  /\ Asked(r) /\ run' = [run EXCEPT ![r] = "over"]
  /\ job' = [job EXCEPT ![r] = "running"]
  /\ library' = [library EXCEPT ![r] = "processing"]
  /\ page' = [page EXCEPT !.job = r, !.seen = "running", !.saved = r, !.unsub = r,
                          !.busy = @ /\ run[r] = "revoice"]
  /\ followers' = IF page.open THEN (IF run[r] = "revoice" THEN Closed(page.unsub) ELSE followers) \cup {[run |-> r, by |-> "sse"]}
                  ELSE {}
  /\ UNCHANGED <<source, twice>>
\* The request fails, before or after the backend made the job.
NotCreated(r) ==
  /\ Asked(r) /\ run' = [run EXCEPT ![r] = "over"]
  /\ \E made \in {"none", "running"} : job' = [job EXCEPT ![r] = made]
  /\ page' = [page EXCEPT !.busy = @ /\ run[r] = "revoice"]
  /\ UNCHANGED <<source, followers, library, twice>>

-----------------------------------------------------------------------------
(* Following the job. *)
JobEnds(r) ==
  /\ job[r] = "running" /\ job' = [job EXCEPT ![r] = "done"]
  /\ UNCHANGED <<source, run, page, followers, library, twice>>
\* An event or the answer of a poll: the page shows that job, and mirrors it into the
\* library if it is the run it recorded last.
Hear(f) ==
  /\ page.open
  /\ page' = [page EXCEPT !.job = f.run, !.seen = job[f.run]]
  /\ library' = IF page.saved = f.run THEN [library EXCEPT ![f.run] = IF job[f.run] = "done" THEN "done" ELSE @] ELSE library
  /\ followers' = IF job[f.run] = "done" \/ f.by = "late" THEN followers \ {f} ELSE followers
  /\ UNCHANGED <<source, run, job, twice>>
\* Variant: a broken stream is not replaced.
BreaksForGood(f) ==
  /\ f.by = "sse" /\ followers' = followers \ {f}
  /\ UNCHANGED <<source, run, job, page, library, twice>>
\* The stream breaks: polls take over, and are what may be closed from now on.
Breaks(f) ==
  /\ f.by = "sse" /\ followers' = (followers \ {f}) \cup {[f EXCEPT !.by = "poll"]}
  /\ page' = [page EXCEPT !.unsub = f.run]
  /\ UNCHANGED <<source, run, job, library, twice>>
NewDub ==
  /\ page.open /\ page.seen = "done"
  /\ page' = [page EXCEPT !.job = NoRun, !.seen = "none"] /\ followers' = Closed(page.unsub)
  /\ UNCHANGED <<source, run, job, library, twice>>
\* Another page of the app, or the tab closed: nothing feeds the page any more.
Leave ==
  /\ page.open /\ page' = [page EXCEPT !.open = FALSE] /\ followers' = {}
  /\ UNCHANGED <<source, run, job, library, twice>>

Choosing == \/ \E f \in Files : PickFile(f)
            \/ TypeLink \/ Tab \/ UseSample \/ Preset
            \/ \E p \in probes : Probed(p)
Starting(r) == Click(r) \/ Refused(r) \/ Allowed(r) \/ Revoice(r) \/ Created(r) \/ NotCreated(r)
Following == NewDub \/ Leave \/ \E f \in followers : Hear(f) \/ Breaks(f)
Next == Choosing \/ Following \/ \E r \in Runs : Starting(r) \/ JobEnds(r)
Fairness == \A r \in Runs : /\ WF_vars(JobEnds(r))
                            /\ \A by \in {"sse", "poll"} : LET f == [run |-> r, by |-> by] IN WF_vars(f \in followers /\ Hear(f))
Spec == Init /\ [][Next]_vars
FairSpec == Spec /\ Fairness

-----------------------------------------------------------------------------
TypeOK ==
  /\ src \in [tab : {"upload", "link"}, file : Files \cup {NoFile}, link : BOOLEAN, sample : BOOLEAN]
  /\ probes \subseteq [file : Files, stale : BOOLEAN] /\ measured \in Files \cup {NoFile} /\ choices \in 0 .. MaxChoices
  /\ run \in [Runs -> {"idle", "gate", "create", "revoice", "over"}]
  /\ job \in [Runs -> {"none", "running", "done"}] /\ library \in [Runs -> {"none", "processing", "done"}]
  /\ page \in [open : BOOLEAN, job : Runs \cup {NoRun}, seen : {"none", "running", "done"},
               saved : Runs \cup {NoRun}, unsub : Runs \cup {NoRun}, busy : BOOLEAN]
  /\ twice \in BOOLEAN
  /\ followers \subseteq [run : Runs, by : {"sse", "poll", "late"}]

\* However files, links, tabs, samples and presets are switched, there is one source to
\* send (Studio.tsx:183-187: "a request carrying both, which the API rejects").
OneSource == Cardinality(Sources) <= 1

\* Once nothing is being measured, the length quoted is the chosen file's
\* (Studio.tsx:285-301: "without it the long file's duration wins").
QuoteIsForFile == probes = {} => measured = src.file

\* The result of the run a page follows reaches the library, through broken streams and
\* re-dubs, while the page stays, unless Start was clicked twice
\* (Studio.tsx:353-432).
ResultIsRecordedHere ==
  \A r \in Runs : []<>(library[r] # "processing" \/ ~page.open \/ page.saved # r \/ twice)

\* Violated.  "writes the real result ... when it lands", for a run recorded so that it is
\* there "even if the user navigates away" (Studio.tsx:353-357, 551-553): nothing else in
\* the app asks for a job, so a dub the user walked away from stays "Running".
ResultIsRecorded == \A r \in Runs : (library[r] = "processing") ~> (library[r] = "done")

\* Not run.  One click at a time: the second click is let through while the first waits for
\* the gate, and both dubs run and are charged for.
OneStart == ~twice
=============================================================================
