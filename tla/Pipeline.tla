------------------------------- MODULE Pipeline -------------------------------
(* One dub through the stages of pipeline/orchestrator.py: recognise, translate, voice,
   keep the background, lip-sync, mux, subtitle; and the same dub voiced again from a
   corrected transcript.  Whether an engine is there and what it manages is a choice
   at every step; sound and text are what the stages know of them.  The queue in front
   of it, events and the charge are DubJobs. *)
EXTENDS Naturals, FiniteSets

CONSTANTS Lengths   \* lines the recogniser may find (bound): a set with 0

VARIABLES opts,     \* the dub's options
          at,       \* the next step of the run
          again,    \* the run voices a corrected transcript
          text,     \* the transcript and its translation
          wav,      \* uploads/<job>.wav: the source's sound, cut for recognition
          sound,    \* outputs/<job>_audio.wav: who spoke how many of the lines
          told,     \* what the job says of its voice
          bed,      \* the background that goes under the voice
          stage,    \* stage[k]: its status on the page
          out,      \* the job's file, its output_url and subtitles
          first     \* the run that is voiced again: what it sounded like
vars == <<opts, at, again, text, wav, sound, told, bed, stage, out, first>>

Stages == {"asr", "nmt", "tts", "separation", "lipsync", "sync"}
Mute == [by |-> "nobody", cloned |-> FALSE, lines |-> 0]
Unsaid == [engine |-> "simulation", cloned |-> FALSE, real |-> FALSE]
Start ==
  /\ sound' = Mute /\ told' = Unsaid /\ bed' = "none" /\ stage' = [k \in Stages |-> "pending"]
  /\ out' = [file |-> "none", url |-> FALSE, subs |-> "none"]

Init ==
  /\ opts \in [mode : {"speaker", "native", "both"}, fast : BOOLEAN, keep : BOOLEAN, lip : BOOLEAN,
               subs : BOOLEAN, custom : BOOLEAN]
  /\ at = "asr" /\ again = FALSE /\ wav = FALSE
  /\ text = [lines |-> 0, heard |-> "no", said |-> "nothing"]
  /\ sound = Mute /\ told = Unsaid /\ bed = "none" /\ stage = [k \in Stages |-> "pending"]
  /\ out = [file |-> "none", url |-> FALSE, subs |-> "none"]
  /\ first = [run |-> FALSE, cloned |-> FALSE]

\* _stage: a step ends its stage and goes on to the next, or fails the job with it.
Pass(k, next) == at = k /\ at' = next
Ends(k) == stage' = [stage EXCEPT ![k] = "done"]
\* Variant: the job fails, and none of its stages says so.
FailsUntold(k) ==
  at' = "failed" /\ UNCHANGED <<opts, again, text, wav, sound, told, bed, stage, out, first>>
Fails(k) ==
  /\ at' = "failed" /\ stage' = [stage EXCEPT ![k] = "failed"]
  /\ UNCHANGED <<opts, again, text, wav, sound, told, bed, out, first>>

-----------------------------------------------------------------------------
(* Recognition: what Whisper or GigaAM heard, nothing if they failed, or a transcript
   that is used again.  Without a recogniser the demo's lines, marked as such. *)
Hear ==
  /\ Pass("asr", "nmt") /\ Ends("asr")
  /\ \/ again /\ UNCHANGED <<text, wav, told>>
     \/ /\ ~again /\ told' = [told EXCEPT !.real = TRUE]
        /\ \E found \in BOOLEAN, n \in Lengths :       \* found: the sound was extracted
             /\ wav' = found
             /\ text' = [lines |-> IF found THEN n ELSE 0, heard |-> "real", said |-> "nothing"]
     \/ /\ ~again /\ \E n \in Lengths \ {0} : text' = [lines |-> n, heard |-> "demo", said |-> "nothing"]
        /\ UNCHANGED <<wav, told>>
  /\ UNCHANGED <<opts, again, sound, bed, out, first>>
\* Translation, with the repair pass; a model that fails leaves the demo's words.
Translate ==
  /\ Pass("nmt", "navoiy") /\ Ends("nmt")
  /\ \/ again /\ UNCHANGED <<text, told>>
     \/ ~again /\ text' = [text EXCEPT !.said = "translated"] /\ told' = [told EXCEPT !.real = TRUE]
     \/ ~again /\ text' = [text EXCEPT !.said = "demo"] /\ UNCHANGED told
  /\ UNCHANGED <<opts, again, wav, sound, bed, out, first>>

-----------------------------------------------------------------------------
(* The voice: Navoiy for Uzbek, OmniVoice for the speaker's own voice, edge-tts for the
   rest, then a tone.  Each writes the job's sound before it says whether it managed. *)
\* _speaker_ref: the supplied clip, else one cut from the source; its transcript if
\* that was read.  The cut needs the sound that recognition extracted.
SpeakerRefs == {r \in [audio : BOOLEAN, words : BOOLEAN] :
                  /\ r.words => r.audio
                  /\ r.audio => opts.custom \/ (wav /\ text.lines > 0)}
Wants == opts.mode \in {"speaker", "both"}
Says(engine, cloned) == told' = [engine |-> engine, cloned |-> cloned, real |-> TRUE]
Voice(here, by, cloned, next) ==
  /\ at = here
  /\ \/ UNCHANGED <<sound, told>> /\ at' = next                        \* not there, or it raised before writing
     \/ \E n \in 1..text.lines :                                       \* some lines at least
          sound' = [by |-> by, cloned |-> cloned, lines |-> n] /\ Says(by, cloned) /\ at' = "voiced"
     \/ sound' = [by |-> by, cloned |-> cloned, lines |-> 0] /\ UNCHANGED told /\ at' = next
  /\ UNCHANGED <<opts, again, text, wav, bed, stage, out, first>>
Navoiy == text.lines > 0 /\ \E r \in SpeakerRefs : Voice("navoiy", "Navoiy", Wants /\ r.audio, "omnivoice")
NoNavoiy ==
  /\ Pass("navoiy", "omnivoice") /\ text.lines = 0
  /\ UNCHANGED <<opts, again, text, wav, sound, told, bed, stage, out, first>>
\* OmniVoice clones only with the reference's words, says it did with the reference, and
\* counts as voiced even when it had to drop every line.
Omnivoice ==
  /\ at = "omnivoice" /\ opts.mode = "speaker"
  /\ \E r \in SpeakerRefs, n \in 0..text.lines :
       /\ sound' = [by |-> "OmniVoice", cloned |-> r.words, lines |-> n] /\ Says("OmniVoice", r.audio)
  /\ at' = "voiced" /\ UNCHANGED <<opts, again, text, wav, bed, stage, out, first>>
NoOmnivoice ==
  /\ Pass("omnivoice", "edge") /\ UNCHANGED <<opts, again, text, wav, sound, told, bed, stage, out, first>>
Edge == text.lines > 0 /\ Voice("edge", "edge-tts", FALSE, "tone")
\* The tone colour of the speaker on the voice of edge-tts.
Convert ==
  /\ at = "voiced" /\ told.engine = "edge-tts" /\ ~told.cloned /\ opts.mode = "both" /\ ~opts.fast
  /\ \E r \in SpeakerRefs : r.audio
  /\ sound' = [sound EXCEPT !.cloned = TRUE] /\ told' = [told EXCEPT !.cloned = TRUE]
  /\ UNCHANGED <<opts, at, again, text, wav, bed, stage, out, first>>
\* Variant: the tone is written before the engines are asked how they did.
ToneOver == sound' = [by |-> "tone", cloned |-> FALSE, lines |-> 0]
Keep == UNCHANGED sound
Voiced ==
  /\ Pass("voiced", "separation") /\ Ends("tts") /\ Keep
  /\ UNCHANGED <<opts, again, text, wav, told, bed, out, first>>
\* The stage is done whether or not the tone was written; one that was not leaves nothing
\* there, or what an engine had written.
Tone ==
  /\ at = "tone" \/ (at = "edge" /\ text.lines = 0)
  /\ \/ /\ at' = "separation" /\ Ends("tts")
        /\ sound' \in {[by |-> "tone", cloned |-> FALSE, lines |-> 0], Mute, sound}
        /\ UNCHANGED <<opts, again, text, wav, told, bed, out, first>>
     \/ Fails("tts")

-----------------------------------------------------------------------------
(* The background: separated, measured for speech, gated where somebody spoke, and
   checked; what cannot be made clean is left out. *)
Separate ==
  /\ at = "separation" /\ UNCHANGED <<opts, again, text, wav, sound, told, out, first>>
  /\ \/ /\ opts.keep /\ ~opts.fast /\ at' = "gate" /\ UNCHANGED stage
        /\ bed' \in {"none", "leaking"}   \* the stem the separator kept may still carry words
     \/ at' = "lipsync" /\ stage' = [stage EXCEPT !["separation"] = "skipped"] /\ UNCHANGED bed
\* Variant: a bed whose gate failed is mixed as it is.
GatedAnyway == bed' \in {bed, "gated", "none"}
\* suppress_original_speech: the band or the whole of it cut and checked, or dropped;
\* with nothing to gate, no line and no speech found in the vocals, it is kept.
Gated == \/ bed' = "none" \/ (bed # "none" /\ bed' = "gated")
         \/ (bed # "none" /\ text.lines = 0 /\ bed' = bed)
Gate ==
  /\ Pass("gate", "lipsync") /\ Ends("separation") /\ Gated
  /\ UNCHANGED <<opts, again, text, wav, sound, told, out, first>>
\* Lip sync: an extra; the video stays as it is if it is not there or did not work.
LipSync ==
  /\ at = "lipsync"
  /\ \/ /\ at' = "sync" /\ stage' = [stage EXCEPT !["lipsync"] = IF opts.lip THEN @ ELSE "skipped"]
        /\ ~opts.lip /\ UNCHANGED <<opts, again, text, wav, sound, told, bed, out, first>>
     \/ /\ opts.lip /\ at' = "sync" /\ \E st \in {"done", "skipped"} : stage' = [stage EXCEPT !["lipsync"] = st]
        /\ UNCHANGED <<opts, again, text, wav, sound, told, bed, out, first>>
     \/ opts.lip /\ Fails("lipsync")

-----------------------------------------------------------------------------
(* Mixing and muxing.  A bed that cannot be mixed is left out. *)
Mix ==
  /\ Pass("sync", "mux") /\ bed' \in {bed, "none"}
  /\ UNCHANGED <<opts, again, text, wav, sound, told, stage, out, first>>
\* Variant: without a dubbed track the source's own is passed through.
MuxSource == out' = [out EXCEPT !.file = "source"] /\ at' = "subtitles" /\ UNCHANGED stage
MuxFails == UNCHANGED out /\ at' = "failed" /\ stage' = [stage EXCEPT !["sync"] = "failed"]
\* Synchronizer.run: one track, the dubbed one if there is one, or MuxFailed and no file.
Mux ==
  /\ at = "mux" /\ \/ /\ sound.by # "nobody" /\ out' = [out EXCEPT !.file = "dub"]
                      /\ at' = "subtitles" /\ UNCHANGED stage
                   \/ MuxFails
  /\ UNCHANGED <<opts, again, text, wav, sound, told, bed, first>>
\* An .srt and a .vtt from the lines, burned in if ffmpeg can; a disk that is full
\* raises out of the stage.
Subtitle ==
  /\ at = "subtitles" /\ UNCHANGED <<opts, again, text, wav, sound, told, bed, first>>
  /\ \/ at' = "finish" /\ Ends("sync")
        /\ out' = [out EXCEPT !.subs = IF opts.subs /\ text.lines > 0 THEN "track" ELSE "none"]
     \/ opts.subs /\ text.lines > 0 /\ at' = "finish" /\ Ends("sync") /\ out' = [out EXCEPT !.subs = "burned"]
     \/ opts.subs /\ text.lines > 0 /\ at' = "failed" /\ stage' = [stage EXCEPT !["sync"] = "failed"] /\ UNCHANGED out
Finish ==
  /\ Pass("finish", "done") /\ out' = [out EXCEPT !.url = TRUE]
  /\ UNCHANGED <<opts, again, text, wav, sound, told, bed, stage, first>>
\* A finished dub is voiced again, under a job id of its own (main.py revoice_job).
Revoice ==
  /\ at = "done" /\ ~again /\ text.lines > 0 /\ at' = "asr" /\ again' = TRUE
  /\ first' = [run |-> TRUE, cloned |-> sound.cloned] /\ wav' = FALSE /\ Start
  /\ text' = [text EXCEPT !.said = "corrected"] /\ UNCHANGED opts

Next == Hear \/ Translate \/ Navoiy \/ NoNavoiy \/ Omnivoice \/ NoOmnivoice \/ Edge \/ Convert \/ Voiced \/ Tone
        \/ Separate \/ Gate \/ LipSync \/ Mix \/ Mux \/ Subtitle \/ Finish \/ Revoice
Spec == Init /\ [][Next]_vars

-----------------------------------------------------------------------------
(* Properties *)
Served == out.url
\* The run's state has its type, and the page's stages agree with the run: a job is
\* done when each stage was done or skipped, and a failed one says in which it failed.
TypeOK ==
  /\ at \in Stages \cup {"navoiy", "omnivoice", "edge", "voiced", "tone", "gate", "mux", "subtitles", "finish", "done", "failed"}
  /\ text \in [lines : Lengths, heard : {"no", "real", "demo"}, said : {"nothing", "translated", "demo", "corrected"}]
  /\ sound \in [by : {"nobody", "Navoiy", "OmniVoice", "edge-tts", "tone"}, cloned : BOOLEAN, lines : 0..text.lines]
  /\ bed \in {"none", "leaking", "gated"} /\ wav \in BOOLEAN /\ again \in BOOLEAN
  /\ told \in [engine : {"simulation", "Navoiy", "OmniVoice", "edge-tts"}, cloned : BOOLEAN, real : BOOLEAN]
  /\ at = "done" => \A k \in Stages : stage[k] \in {"done", "skipped"}
  /\ at = "failed" => Cardinality({k \in Stages : stage[k] = "failed"}) = 1
\* "Anything this pipeline does hand back has the dubbed audio on it", spoken by the
\* engine the job names, if it names one, whichever of them failed half-way before: and a
\* failed job hands back nothing (sync.py:22-35, orchestrator.py:714-719, 406-548).
ServedIsDub ==
  /\ Served => out.file = "dub" /\ sound.by # "nobody"
  /\ Served /\ told.engine # "simulation" => sound.by = told.engine
  /\ at = "failed" => ~Served
\* The original language is not heard under the dub: a bed in which lines were found is
\* gated wherever they are, and left out when that fails (bleed.py:176-232, orchestrator.py:616-643).
NoOriginalSpeech == at \notin {"separation", "gate"} /\ bed = "leaking" => text.lines = 0
\* "Transcribing exactly what was trimmed makes the two agree": a dub that says it has
\* the speaker's voice has it (orchestrator.py:112-117, 476-478).
ClonedAsSaid == Served => told.cloned = sound.cloned
\* "Everything downstream ... runs exactly as it does for a first pass": a dub voiced
\* again can be cloned whenever the first one was (orchestrator.py:174-178).
RevoicedAlike == again /\ first.cloned /\ at = "omnivoice" => \E r \in SpeakerRefs : r.audio
\* "UI flags simulation mode" (nmt.py simulate): made-up words are marked as such.
SimulatedIsSaid == Served /\ text.said = "demo" => ~told.real
\* "The dub above is already written and verified, and nothing here can undo it"
\* (orchestrator.py:724-726).
SubtitlesUndoNothing == at = "failed" => out.file = "none"
\* Speech that counts as voiced is heard in at least one line (tts_edge.py:117-133).
SomethingIsVoiced == Served /\ told.engine # "simulation" => sound.lines > 0
=============================================================================
