-------------------------------- MODULE Speech --------------------------------
(* Text to speech (backend/app/speech.py) and its page (TextToSpeech.tsx): a script
   is checked against the wallet by an estimate, rendered in the background by the
   first engine that manages, written to disk and only then charged, for the seconds
   that came out.  The page polls.  The charge itself is CreditLedger's: one call that
   takes the price from the balance or refuses, and whose answer may not arrive. *)
EXTENDS Naturals, FiniteSets

CONSTANTS Tasks, NoTask,
          Pages,        \* tabs of one user
          Estimate,     \* price of the script by its length
          Prices,       \* prices of what may come out of it
          Tokens,       \* the wallet at the start
          MaxRestarts   \* bound: restarts of the backend

VARIABLES up,           \* engines that are there: bound, loaded or reachable
          task,         \* task[t]: _tasks of the running backend, in memory
          file,         \* file[t]: tts_<id>.wav is in the outputs
          balance, paid,\* the account and what tts_<id> was charged in it
          page,         \* page[p]: what the tab holds
          restarts
vars == <<up, task, file, balance, paid, page, restarts>>

Engines == {"Navoiy", "OmniVoice", "edge-tts"}
\* A voice id belongs to one engine; here each engine's ids are one family.
VoiceOf == [e \in Engines |-> CASE e = "Navoiy" -> "style" [] e = "OmniVoice" -> "design" [] OTHER -> "default"]
Unknown == [st |-> "none", engine |-> "edge-tts", voice |-> "default", price |-> 0]

Init ==
  /\ up \in SUBSET Engines
  /\ task = [t \in Tasks |-> Unknown] /\ file = [t \in Tasks |-> FALSE]
  /\ balance = Tokens /\ paid = [t \in Tasks |-> 0]
  /\ page = [p \in Pages |-> [at |-> "idle", task |-> NoTask, shows |-> "none"]]
  /\ restarts = 0

-----------------------------------------------------------------------------
(* The request. *)
EngineFor == IF "Navoiy" \in up THEN "Navoiy" ELSE IF "OmniVoice" \in up THEN "OmniVoice" ELSE "edge-tts"
Running(p) == page[p].at \in {"asking", "following"} \/ page[p].shows \in {"queued", "running"}
\* The button: disabled while running, without an engine or with too short a wallet.
Generate(p) ==
  /\ ~Running(p) /\ up # {} /\ balance >= Estimate
  /\ \E t \in Tasks : task[t].st = "none" /\ \A q \in Pages : page[q].task # t
                      /\ page' = [page EXCEPT ![p] = [at |-> "asking", task |-> t, shows |-> "none"]]
  /\ UNCHANGED <<up, task, file, balance, paid, restarts>>
\* start: the gate on the estimate, a task, its render in the background.  A wallet
\* that covers a part of the script is refused like one that covers nothing.
Start(p) ==
  LET t == page[p].task IN
  /\ page[p].at = "asking" /\ task[t].st = "none" /\ balance >= Estimate
  /\ task' = [task EXCEPT ![t] = [st |-> "queued", engine |-> EngineFor, voice |-> VoiceOf[EngineFor], price |-> 0]]
  /\ UNCHANGED <<up, file, balance, paid, page, restarts>>
Refuse(p) ==
  /\ page[p].at = "asking" /\ task[page[p].task].st = "none" /\ balance < Estimate
  /\ page' = [page EXCEPT ![p] = [at |-> "idle", task |-> NoTask, shows |-> "none"]]
  /\ UNCHANGED <<up, task, file, balance, paid, restarts>>
\* The answer carries the task as it was made, or never comes.
Created(p) ==
  /\ page[p].at = "asking" /\ task[page[p].task].st # "none"
  /\ page' = [page EXCEPT ![p].at = "following", ![p].shows = "queued"]
  /\ UNCHANGED <<up, task, file, balance, paid, restarts>>
CreateFails(p) ==
  /\ page[p].at = "asking"
  /\ page' = [page EXCEPT ![p] = [at |-> "idle", task |-> NoTask, shows |-> "none"]]
  /\ UNCHANGED <<up, task, file, balance, paid, restarts>>

-----------------------------------------------------------------------------
(* _run. *)
Run(t) ==
  /\ task[t].st = "queued" /\ task' = [task EXCEPT ![t].st = "voicing"]
  /\ UNCHANGED <<up, file, balance, paid, page, restarts>>
Voiced(t) ==
  /\ task[t].st = "voicing"
  /\ \E c \in Prices : task' = [task EXCEPT ![t].st = "voiced", ![t].price = c]
  /\ UNCHANGED <<up, file, balance, paid, page, restarts>>
\* Variant: the next engine is asked for the voice of the one that failed.
FallBackKeepsVoice(t, e) == task' = [task EXCEPT ![t].engine = e]
FallBack(t, e) == task' = [task EXCEPT ![t].engine = e, ![t].voice = VoiceOf[e]]
\* Navoiy failed or gave nothing: OmniVoice, else edge-tts, with their default voice.
NextEngine(t) ==
  /\ task[t].st = "voicing" /\ task[t].engine = "Navoiy" /\ up \ {"Navoiy"} # {}
  /\ FallBack(t, IF "OmniVoice" \in up THEN "OmniVoice" ELSE "edge-tts")
  /\ UNCHANGED <<up, file, balance, paid, page, restarts>>
Write(t) ==
  /\ task[t].st = "voiced"
  /\ task' = [task EXCEPT ![t].st = "written"] /\ file' = [file EXCEPT ![t] = TRUE]
  /\ UNCHANGED <<up, balance, paid, page, restarts>>
\* Variant: the wallet is not looked at again.
CommitUnchecked(t) ==
  /\ task[t].st = "written" /\ task' = [task EXCEPT ![t].st = "charged"]
  /\ balance' = balance - task[t].price /\ paid' = [paid EXCEPT ![t] = @ + task[t].price]
  /\ UNCHANGED <<up, file, page, restarts>>
\* commit_dub at the account API: the price of the seconds produced, or a 402.
Commit(t) ==
  /\ task[t].st = "written"
  /\ IF balance >= task[t].price
     THEN /\ balance' = balance - task[t].price /\ paid' = [paid EXCEPT ![t] = @ + task[t].price]
          /\ task' = [task EXCEPT ![t].st = "charged"]
     ELSE task' = [task EXCEPT ![t].st = "refused"] /\ UNCHANGED <<balance, paid>>
  /\ UNCHANGED <<up, file, page, restarts>>
Done(t) ==
  /\ task[t].st = "charged" /\ task' = [task EXCEPT ![t].st = "done"]
  /\ UNCHANGED <<up, file, balance, paid, page, restarts>>
\* Variant: the except block leaves the file where it is.
DropFileNever(t) == file' = file
DropFile(t) == file' = [file EXCEPT ![t] = FALSE]
\* The except block: no engine had a sound, the disk is full, the charge was refused,
\* or the account API could not be asked, or its answer was lost on the way.
Fail(t) ==
  /\ \/ task[t].st = "voicing" /\ ~(task[t].engine = "Navoiy" /\ up \ {"Navoiy"} # {})
     \/ task[t].st \in {"voiced", "written", "refused", "charged"}
  /\ task' = [task EXCEPT ![t].st = "failed"] /\ DropFile(t)
  /\ UNCHANGED <<up, balance, paid, page, restarts>>
\* Tasks are in memory; the files stay.
Restart ==
  /\ restarts < MaxRestarts /\ restarts' = restarts + 1
  /\ task' = [t \in Tasks |-> IF task[t].st = "none" THEN Unknown ELSE [Unknown EXCEPT !.st = "lost"]]
  /\ UNCHANGED <<up, file, balance, paid, page>>

-----------------------------------------------------------------------------
(* track: one poll at a time. *)
\* Variant: only a finished render ends the following.
EndsDoneOnly(t) == task[t].st = "done"
Ends(t) == task[t].st \in {"done", "failed"}
Status(t) == IF task[t].st \in {"done", "failed", "queued"} THEN task[t].st ELSE "running"
Poll(p) ==
  LET t == page[p].task IN
  /\ page[p].at = "following" /\ task[t].st # "lost"
  /\ page' = [page EXCEPT ![p].shows = Status(t), ![p].at = IF Ends(t) THEN "idle" ELSE @]
  /\ UNCHANGED <<up, task, file, balance, paid, restarts>>
\* A poll that is not answered, or answered 404, ends the following; the task shown
\* stays what it was.
PollFails(p) ==
  /\ page[p].at = "following" /\ page' = [page EXCEPT ![p].at = "idle"]
  /\ UNCHANGED <<up, task, file, balance, paid, restarts>>
Lost(p) == task[page[p].task].st = "lost"
\* Leaving the page stops the timer, and its state is gone.
Leave(p) ==
  /\ page[p].at = "following" \/ page[p].shows # "none"
  /\ page' = [page EXCEPT ![p] = [at |-> "idle", task |-> NoTask, shows |-> "none"]]
  /\ UNCHANGED <<up, task, file, balance, paid, restarts>>

PageStep(p) == Generate(p) \/ Start(p) \/ Refuse(p) \/ Created(p) \/ CreateFails(p) \/ Poll(p) \/ PollFails(p) \/ Leave(p)
TaskStep(t) == Run(t) \/ Voiced(t) \/ NextEngine(t) \/ Write(t) \/ Commit(t) \/ Done(t) \/ Fail(t)
Next == Restart \/ (\E p \in Pages : PageStep(p)) \/ (\E t \in Tasks : TaskStep(t))
Spec == Init /\ [][Next]_vars
\* The event loop runs every task on; a tab's timer polls, and a
\* poll of a task the backend does not know is answered with a 404.
Fairness == (\A t \in Tasks : WF_vars(TaskStep(t)))
            /\ \A p \in Pages : WF_vars(Start(p) \/ Refuse(p) \/ Created(p)) /\ WF_vars(Poll(p) \/ (PollFails(p) /\ Lost(p)))
FairSpec == Spec /\ Fairness

-----------------------------------------------------------------------------
(* Properties *)
Total[S \in SUBSET Tasks] == IF S = {} THEN 0 ELSE LET t == CHOOSE t \in S : TRUE IN paid[t] + Total[S \ {t}]
\* The state has its type, and what is missing from the wallet was paid for some task
\* at the price of what it made, once (the charge of speech.py:279-282).
TypeOK ==
  /\ up \subseteq Engines /\ file \in [Tasks -> BOOLEAN] /\ restarts \in 0..MaxRestarts
  /\ task \in [Tasks -> [st : {"none", "queued", "voicing", "voiced", "written", "charged", "refused", "done", "failed", "lost"},
                         engine : Engines, voice : {"style", "design", "default"}, price : {0} \cup Prices]]
  /\ page \in [Pages -> [at : {"idle", "asking", "following"}, task : Tasks \cup {NoTask},
                         shows : {"none", "queued", "running", "done", "failed"}]]
  /\ balance \in 0..Tokens /\ paid \in [Tasks -> {0} \cup Prices] /\ balance + Total[Tasks] = Tokens
\* Audio that is served was paid for in full, and audio that failed is not kept: nobody
\* gets speech the wallet did not cover, whichever of two renders is charged first
\* (speech.py:16-18, 279-299).
PaidSpeech ==
  \A t \in Tasks : /\ task[t].st = "done" => file[t] /\ paid[t] = task[t].price
                   /\ task[t].st = "failed" => ~file[t]
\* An engine is asked for a voice of its own, after a fallback as well
\* (speech.py:219-226, 262-265: OMNIVOICE_VOICES[voice] would raise).
VoiceFitsEngine == \A t \in Tasks : task[t].st = "voicing" => task[t].voice = VoiceOf[task[t].engine] /\ task[t].engine \in up
\* "So a failed render costs nothing" (speech.py:16-17).
FailedCostsNothing == \A t \in Tasks : task[t].st = "failed" => paid[t] = 0
\* A tab that generates stops generating once its task ends (TextToSpeech.tsx:87,
\* 103-120), unless it lost a poll: then it shows the task as running for good.
PageSettles == \A p \in Pages : []<>(~Running(p) \/ page[p].at = "idle")
\* ... which is what the catch block means to end ("Lost track of the render").
NeverStuck == \A p \in Pages : []<>~Running(p)
=============================================================================
