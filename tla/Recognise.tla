----------------------------- MODULE Recognise -----------------------------
(* Turning the speech of a video into lines: which engine hears it, how the *)
(* stretches of speech are cut for it, and what of its answers is kept.     *)
(* Times are in units of half a second.                                     *)
EXTENDS Integers, Sequences, FiniteSets

CONSTANTS None, Blank,   \* no answer; a text without a letter in it
          Texts,         \* what may be heard in a line
          Target, MaxChunk, Search, RepeatRun,  \* stt_gigaam.py, and _REPEAT_RUN
          Configured, Detectable,               \* languages of GigaAM: given, and detected
          Given, Detected,                      \* what a user gives, what Whisper detects
          Spans, MaxRegions, MaxLines           \* bounds: stretches of speech, lines

VARIABLES phase, source,   \* the language the user gave
          giga,            \* GigaAM can be loaded on this machine
          engine, detected,
          regions,         \* lengths of the stretches of speech; None: nothing looks for them
          piece,           \* GigaAM: the stretch it is at, its next cut, the cut before
          heard,           \* lines decoded: the text, the stretch it is in, how long it is
          kept             \* lines of the transcript
vars == <<phase, source, giga, engine, detected, regions, piece, heard, kept>>

Larger(a, b) == IF a > b THEN a ELSE b
First == [of |-> 1, cut |-> 1, from |-> 0]
Init == /\ phase = "route" /\ source \in Given /\ giga \in BOOLEAN
        /\ engine = None /\ detected = None /\ regions = None /\ piece = First
        /\ heard = <<>> /\ kept = <<>>

-----------------------------------------------------------------------------
Supports(lang) == lang \in Configured
\* The detector takes one Turkic language for another, but never for Turkish.
SupportsDetected(lang) == lang \in Configured \cup Detectable /\ lang # "tr"
Hears(lang, byGiga) == engine' = (IF byGiga THEN "gigaam" ELSE "whisper") /\ detected' = lang
Route ==
  /\ phase = "route" /\ phase' = "listen"
  /\ \/ source # "auto" /\ Hears(source, giga /\ Supports(source))
     \/ source = "auto" /\ giga /\ \E lang \in Detected :
          Hears(IF lang = None THEN "auto" ELSE lang, lang # None /\ SupportsDetected(lang))
     \/ source = "auto" /\ ~giga /\ Hears("auto", FALSE)
  /\ UNCHANGED <<source, giga, regions, piece, heard, kept>>

\* Voice activity: not installed or failing, or the stretches of speech in order.
SpeechRegions == {<<>>} \cup UNION {[1 .. n -> Spans] : n \in 1 .. MaxRegions}
Listen ==
  /\ phase = "listen" /\ regions' \in SpeechRegions \cup {None}
  /\ phase' = IF engine = "whisper" /\ regions' = <<>> THEN "done" ELSE "decode"
  /\ UNCHANGED <<source, giga, engine, detected, piece, heard, kept>>

-----------------------------------------------------------------------------
(* Whisper decodes the whole file. *)
\* Lines Whisper takes for silence itself, or that no stretch overlaps, are dropped.
Overlaps(l) == regions = None \/ l.in # 0
Decode ==
  /\ phase = "decode" /\ engine = "whisper" /\ Len(heard) < MaxLines
  /\ \E text \in Texts \cup {Blank}, in \in {0} \cup (IF regions = None THEN {} ELSE DOMAIN regions) :
       heard' = Append(heard, [text |-> text, in |-> in, len |-> 0])
  /\ UNCHANGED <<phase, source, giga, engine, detected, regions, piece, kept>>
\* The lines at the places given, in order.
Nth(at, n) == CHOOSE k \in at : Cardinality({j \in at : j <= k}) = n
Compact(s, at) == [n \in 1 .. Cardinality(at) |-> s[Nth(at, n)]]
\* Lines in a row with one text, around line k.
Run(s, k) == {j \in DOMAIN s : \A i \in j .. k \cup k .. j : s[i].text = s[k].text}
\* A run of three or more is a loop of the decoder: its first line is kept.
Stays(s, k) == \/ s[k].text = Blank \/ Cardinality(Run(s, k)) < RepeatRun
               \/ \A j \in Run(s, k) : k <= j
Collapse(s) == Compact(s, {k \in DOMAIN s : Stays(s, k)})
Sifted(s) == Compact(s, {k \in DOMAIN s : Overlaps(s[k])})
\* Variant: loops are looked for among all that was decoded.
TranscriptUnsifted == Sifted(Collapse(heard))
Transcript == Collapse(Sifted(heard))
Transcribed ==
  /\ phase = "decode" /\ engine = "whisper" /\ phase' = "done" /\ kept' = Transcript
  /\ UNCHANGED <<source, giga, engine, detected, regions, piece, heard>>

-----------------------------------------------------------------------------
(* GigaAM decodes one piece at a time. *)
\* With no stretches to cut along, the whole file is one.
Stretches == IF regions \in {None, <<>>} THEN <<2 * Target>> ELSE regions
\* Python rounds a half to the even number.
Rounded(n, d) == LET q == n \div d
                 IN IF 2 * (n % d) > d \/ (2 * (n % d) = d /\ q % 2 = 1) THEN q + 1 ELSE q
\* Variant: a stretch is cut only where the model would refuse it.
PartsByCeiling(span) == Larger(2, (span + MaxChunk - 1) \div MaxChunk)
Parts(span) == Larger(2, Rounded(span, Target))
Whole(span) == span <= MaxChunk /\ 5 * span <= 7 * Target
\* The quietest moment near where an equal part would end.
QuietPoints(span, k) ==
  LET around == (k * span) \div Parts(span) IN (around - Search) .. (around + Search)
Span == Stretches[piece.of]
NextCut == IF Whole(Span) \/ piece.cut = Parts(Span) THEN {Span} ELSE QuietPoints(Span, piece.cut)
Cut ==
  /\ phase = "decode" /\ engine = "gigaam" /\ piece.of <= Len(Stretches)
  /\ \E at \in NextCut :
       /\ piece' = IF at = Span THEN [First EXCEPT !.of = piece.of + 1]
                   ELSE [piece EXCEPT !.cut = @ + 1, !.from = at]
       \* Nothing is heard in the piece, or decoding it failed; or it becomes a line.
       \* What it says does not matter here, and the model keeps the last line only.
       /\ \/ UNCHANGED kept
          \/ kept' = <<[text |-> Blank, in |-> piece.of, len |-> at - piece.from]>>
  /\ UNCHANGED <<phase, source, giga, engine, detected, regions, heard>>
Decoded ==
  /\ phase = "decode" /\ engine = "gigaam" /\ piece.of > Len(Stretches) /\ phase' = "done"
  /\ UNCHANGED <<source, giga, engine, detected, regions, piece, heard, kept>>

Next == Route \/ Listen \/ Decode \/ Transcribed \/ Cut \/ Decoded
Spec == Init /\ [][Next]_vars

-----------------------------------------------------------------------------
Line == [text : Texts \cup {Blank}, in : 0 .. MaxRegions, len : Int]
TypeOK ==
  /\ phase \in {"route", "listen", "decode", "done"} /\ source \in Given /\ giga \in BOOLEAN
  /\ engine \in {None, "gigaam", "whisper"} /\ detected \in Given \cup Detected \cup {None}
  /\ regions = None \/ regions \in SpeechRegions
  /\ heard \in Seq(Line) /\ kept \in Seq(Line)

\* A phrase the decoder loops on is neither translated nor voiced three times in a row;
\* and of the lines where somebody spoke, in their order, nothing else is lost: each that
\* was said once, or twice in a row, is there as often ("No. No."), and the first of each
\* loop with its own timing (stt.py:212-262).
NoLoops ==
  LET spoken == Sifted(heard) IN
  engine = "whisper" /\ phase = "done" =>
    /\ \A k \in DOMAIN kept : kept[k].text # Blank => Cardinality(Run(kept, k)) < RepeatRun
    /\ \E at \in SUBSET DOMAIN spoken :
         /\ kept = Compact(spoken, at)
         /\ \A k \in DOMAIN spoken :
              /\ spoken[k].text = Blank \/ Cardinality(Run(spoken, k)) < RepeatRun => k \in at
              /\ \E j \in Run(spoken, k) \cap at : \A l \in Run(spoken, k) : j <= l
\* A piece is one the model decodes, inside its stretch of speech, and made once
\* (stt_gigaam.py:55-72, 186-211).
PiecesFit == /\ \A k \in DOMAIN kept : engine = "gigaam" => kept[k].len \in 1 .. MaxChunk
             /\ engine = "gigaam" /\ piece.of <= Len(Stretches) => piece.from \in 0 .. Span - 1
=============================================================================
