----------------------------- MODULE DubReport -----------------------------
(* What a dub says of itself: the messages its stages leave, what the account *)
(* API reads out of them and of its lines, and what the pages tell the user. *)
EXTENDS Naturals, FiniteSets

CONSTANTS None, Lines

VARIABLES at,       \* the stage that is next, or how the run ended
          opts,     \* what was asked for
          text,     \* what translation made of each line
          said,     \* the messages of the stages, as the set of what is noted in them
          voice,    \* what speaks, whether it is the speaker's, how near it comes
          silent,   \* history: lines that nothing speaks
          real,     \* whether an engine other than a placeholder took part
          kept,     \* whether the background is in the dub, whether the lips are synced
          issues,   \* the answer of the account API; None before
          panel     \* what each page shows: None is no panel
vars == <<at, opts, text, said, voice, silent, real, kept, issues, panel>>

Stages == {"asr", "tts", "separation", "lipsync"}
Over == {"completed", "failed"}
Options == [mode : {"speaker", "both", "native"}, fast : BOOLEAN, background : BOOLEAN, lips : BOOLEAN]
Init == /\ at = "asr" /\ opts \in Options /\ text \in [Lines -> {"fits"}] /\ said = [s \in Stages |-> {}]
        /\ voice = [engine |-> "tone", cloned |-> FALSE, near |-> None] /\ silent = {} /\ real = FALSE
        /\ kept = [background |-> FALSE, lips |-> FALSE] /\ issues = None /\ panel = [p \in {"studio", "editor"} |-> None]

-----------------------------------------------------------------------------
(* The run.  A stage that raises fails the job. *)
Heard == DOMAIN text
Fails == /\ at \in Stages /\ at' = "failed"
         /\ UNCHANGED <<opts, text, said, voice, silent, real, kept, issues, panel>>
\* Of each line: it fits its time, is too long for it, is empty, or is still in a
\* language that is not the target's.
Transcribe ==
  /\ at = "asr" /\ at' = "tts"
  /\ \E heard \in SUBSET Lines : text' \in [heard -> {"fits", "long", "empty", "copied"}]
  /\ real' \in {real, TRUE} /\ UNCHANGED <<opts, said, voice, silent, kept, issues, panel>>
Wordless == {l \in Heard : text[l] = "empty"}
Voiced(engine, cloned, near, note, lost) ==
  /\ at = "tts" /\ at' = "separation"
  /\ voice' = [engine |-> engine, cloned |-> cloned, near |-> near]
  /\ silent' = lost \cup Wordless /\ said' = [said EXCEPT !["tts"] = note] /\ real' = TRUE
  /\ UNCHANGED <<opts, text, kept, issues, panel>>
\* What an engine lost is counted; OmniVoice drops the lines it cannot say and counts none.
\* Variant: the note of the voice replaces the count of what is missing.
GapFirst(lost, note) == IF note # {} THEN note ELSE IF lost = {} THEN {} ELSE {"missing"}
Gap(lost, note) == note \cup (IF lost = {} THEN {} ELSE {"missing"})
Navoiy ==
  \E lost \in SUBSET (Heard \ Wordless), cloned \in BOOLEAN :
    /\ lost # Heard \ Wordless /\ (cloned => opts.mode # "native")
    /\ \E near \in IF cloned THEN {"low", "high", None} ELSE {None} :
         Voiced("Navoiy", cloned, near, Gap(lost, {}), lost)
OmniVoice ==
  /\ opts.mode = "speaker" /\ Heard # {}
  /\ \E lost \in SUBSET (Heard \ Wordless), cloned \in BOOLEAN : Voiced("OmniVoice", cloned, None, {}, lost)
\* The native voice; of the modes, one notes that it is not the speaker's, one tries.
EdgeTTS ==
  \E lost \in SUBSET (Heard \ Wordless) :
    /\ lost # Heard \ Wordless
    /\ \/ /\ opts.mode = "both" /\ ~opts.fast
          /\ \/ \E near \in {"low", "high"} : Voiced("edge-tts", TRUE, near, Gap(lost, {"cloned"}), lost)
             \/ \E note \in {{}, {"clone skipped"}, {"unavailable"}} : Voiced("edge-tts", FALSE, None, Gap(lost, note), lost)
       \/ opts.mode = "both" /\ opts.fast /\ Voiced("edge-tts", FALSE, None, Gap(lost, {"fast"}), lost)
       \/ opts.mode = "speaker" /\ Voiced("edge-tts", FALSE, None, Gap(lost, {"unavailable"}), lost)
       \/ opts.mode = "native" /\ Voiced("edge-tts", FALSE, None, Gap(lost, {}), lost)
\* A tone: nothing is said, nor is that noted but by the engine's error.
Tone == /\ at = "tts" /\ at' = "separation" /\ silent' = Heard
        /\ UNCHANGED <<opts, text, said, voice, real, kept, issues, panel>>
\* Of what can go wrong with the background, some is noted, and some only logged.
Separate ==
  /\ at = "separation" /\ at' = "lipsync"
  /\ \E bed \in BOOLEAN, note \in {{}, {"could not"}} :
       /\ bed => opts.background /\ ~opts.fast /\ note = {}
       /\ note # {} => opts.background /\ ~opts.fast
       /\ kept' = [kept EXCEPT !.background = bed] /\ said' = [said EXCEPT !["separation"] = note]
  /\ UNCHANGED <<opts, text, voice, silent, real, issues, panel>>
\* The stage is skipped when lips are not asked for and when there is no engine.
SyncLips ==
  /\ at = "lipsync" /\ at' = "completed"
  /\ \E done, engine \in BOOLEAN :
       /\ done => engine /\ opts.lips
       /\ kept' = [kept EXCEPT !.lips = done]
       /\ said' = [said EXCEPT !["lipsync"] = IF opts.lips /\ engine THEN {} ELSE {"skipped"}]
  /\ UNCHANGED <<opts, text, voice, silent, real, issues, panel>>

-----------------------------------------------------------------------------
(* The account API's reading of it. *)
When(holds, code) == IF holds THEN {code} ELSE {}
Of(t) == {l \in Heard : text[l] = t}
JobFailed == When(at = "failed", "job_failed")
NoSpeech == When(at = "completed" /\ Heard = {}, "no_speech")
Simulated == When(~real, "simulated")
Untranslated == When(Of("empty") # {}, "untranslated")
NotTranslated == When(Of("copied") # {}, "not_translated")
MissingLines == When("missing" \in said["tts"], "missing_lines")
RushedLines == When(Of("long") # {}, "rushed_lines")
Clone == IF "unavailable" \in said["tts"] THEN {"clone_unavailable"} ELSE When("fast" \in said["tts"], "clone_fast")
LowSimilarity == When(voice.cloned /\ voice.near = "low", "low_similarity")
BackgroundLost == When("could not" \in said["separation"], "background_lost")
\* Variant: any lip sync that was skipped is told of.
LipsyncSkippedAlways == When("skipped" \in said["lipsync"], "lipsync_skipped")
LipsyncSkipped == When(opts.lips /\ "skipped" \in said["lipsync"], "lipsync_skipped")
Trimmed(part) == When(part, "trimmed")
Analyse(part) ==
  IF JobFailed \cup NoSpeech # {} THEN JobFailed \cup NoSpeech
  ELSE UNION {Simulated, Untranslated, NotTranslated, MissingLines, RushedLines, Clone, LowSimilarity,
              BackgroundLost, LipsyncSkipped, Trimmed(part)}
GetIssues == /\ at \in Over /\ issues = None /\ (\E part \in BOOLEAN : issues' = Analyse(part))
             /\ UNCHANGED <<at, opts, text, said, voice, silent, real, kept, panel>>

-----------------------------------------------------------------------------
(* The pages.  The Studio shows the answer under a dub that is there; the speech editor
   shows its panel anyway, empty until the answer comes and when none does. *)
Show(p, shown) == panel' = [panel EXCEPT ![p] = shown] /\ UNCHANGED <<at, opts, text, said, voice, silent, real, kept, issues>>
StudioShows == at = "completed" /\ issues # None /\ panel["studio"] = None /\ Show("studio", issues)
EditorShows == at = "completed" /\ panel["editor"] = None /\ Show("editor", {})
EditorHears == panel["editor"] = {} /\ issues # None /\ issues # {} /\ Show("editor", issues)
Severe == {"job_failed", "no_speech", "missing_lines"}
Notes == {"clone_fast", "low_similarity", "lipsync_skipped", "trimmed"}
\* The lines an issue names; a fix of lines opens the editor at them.
LinesOf(code) == CASE code = "untranslated" -> Of("empty") [] code = "not_translated" -> Of("copied")
                   [] code = "rushed_lines" -> Of("long") [] OTHER -> {}
IssueAction(code) == IF code = "missing_lines" \/ LinesOf(code) # {} THEN LinesOf(code) ELSE None

Next == \/ Fails \/ Transcribe \/ Navoiy \/ OmniVoice \/ EdgeTTS \/ Tone \/ Separate \/ SyncLips \/ GetIssues
        \/ StudioShows \/ EditorShows \/ EditorHears
Spec == Init /\ [][Next]_vars

-----------------------------------------------------------------------------
Codes == Severe \cup Notes \cup {"simulated", "untranslated", "not_translated", "rushed_lines", "clone_unavailable",
                                 "background_lost"}
TypeOK ==
  /\ at \in Stages \cup Over /\ opts \in Options /\ Heard \subseteq Lines /\ silent \subseteq Lines /\ real \in BOOLEAN
  /\ issues # None => issues \subseteq Codes
  /\ \A p \in DOMAIN panel : panel[p] # None => panel[p] \subseteq Codes

\* What is told of a dub, read out of messages meant for people, is true of it, and tells
\* its user of nothing that was not asked for.
TellsTheTruth ==
  issues # None =>
    /\ issues \cap {"clone_unavailable", "clone_fast"} # {} => ~voice.cloned /\ opts.mode # "native"
    /\ "low_similarity" \in issues => voice.cloned
    /\ "background_lost" \in issues => opts.background /\ ~kept.background
    /\ "lipsync_skipped" \in issues => opts.lips /\ ~kept.lips
    /\ "missing_lines" \in issues => silent \ Wordless # {}

\* A line that Navoiy or the native voice lost is told of, whatever else its stage had to
\* say ("Missing lines outrank whatever the clone had to say", orchestrator.py:527-529).
MissingTold ==
  issues # None /\ voice.engine \in {"Navoiy", "edge-tts"} /\ at = "completed" /\ silent \ Wordless # {} =>
    "missing_lines" \in issues

\* Violated.  "No problems found.  Every line was voiced and fits its time slot."
\* (IssuesPanel.tsx:54-55): the editor's panel says it before it was told anything; and a
\* dub whose voice is a placeholder tone, after a real translation, has no issue.
NoProblemsIsTrue == \A p \in DOMAIN panel : panel[p] = {} => silent = {} /\ Of("long") = {}
\* Not run, and false: a clone that was skipped, a background Demucs lost and a lip sync
\* that failed leave no message the reading knows.
TroublesTold ==
  issues # None /\ at = "completed" /\ Heard # {} =>
    /\ opts.lips /\ ~kept.lips => "lipsync_skipped" \in issues
    /\ opts.background /\ ~opts.fast /\ ~kept.background => "background_lost" \in issues
    /\ opts.mode # "native" /\ ~voice.cloned => issues \cap {"clone_unavailable", "clone_fast", "simulated"} # {}
\* Not run, and false: "opens the speech editor on exactly those lines" (IssuesPanel.tsx:7-8);
\* of the lines that could not be voiced none is named.
ExactLines == issues # None /\ "missing_lines" \in issues /\ voice.engine = "Navoiy" => IssueAction("missing_lines") = silent \ Wordless
=============================================================================
