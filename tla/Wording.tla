------------------------------ MODULE Wording ------------------------------
(* What each line of a dub says and how it is said: translated in batches,  *)
(* repaired where the translation looks broken, given a delivery, and, when *)
(* its user corrects a line, voiced again.                                  *)
EXTENDS Naturals, FiniteSets

CONSTANTS None,
          Lines,        \* how many there are
          NmtBatch, RepairBatch,
          Presets, Calm,        \* deliveries the voice was trained on, and the one by default
          MaxVoiced             \* bound: times the dub is voiced

\* A translation is missing, is the source, is broken otherwise, or reads well; and a
\* line may hold what its user wrote.
Broken == {None, "source", "looped"}
Texts == Broken \cup {"fine", "repaired", "user"}

VARIABLES step, text,
          at,         \* lines before it are through the step
          suspects,   \* lines found broken, for repair
          translated, \* what each line was when repair began
          revised,    \* repairs counted
          mood,       \* the delivery of each line
          said,       \* how each line was ever said, and whether that had been chosen
          edited,     \* lines the user wrote
          voiced
vars == <<step, text, at, suspects, translated, revised, mood, said, edited, voiced>>

All == 1 .. Lines
Blank == [i \in All |-> None]
Init == /\ step = "translate" /\ text = Blank /\ at = 0 /\ suspects = {} /\ translated = Blank
        /\ revised = 0 /\ mood = Blank /\ said = [i \in All |-> {}] /\ edited = {} /\ voiced = 0

-----------------------------------------------------------------------------
Batch(size) == (at + 1) .. (IF at + size < Lines THEN at + size ELSE Lines)
ToRepair == /\ step' = "repair" /\ at' = 0 /\ translated' = text'
            /\ suspects' = {i \in All : text'[i] \in Broken}
Translate ==
  /\ step = "translate" /\ at < Lines
  /\ \E new \in [Batch(NmtBatch) -> Broken \cup {"fine"}] :
       text' = [i \in All |-> IF i \in Batch(NmtBatch) THEN new[i] ELSE text[i]]
  /\ IF at + NmtBatch < Lines THEN at' = at + NmtBatch /\ UNCHANGED <<step, suspects, translated>>
     ELSE ToRepair
  /\ UNCHANGED <<revised, mood, said, edited, voiced>>
\* When the model fails, all lines fall back: to a canned translation or to the source.
TranslateFails ==
  /\ step = "translate"
  /\ \E canned \in 0 .. Lines : text' = [i \in All |-> IF i <= canned THEN "fine" ELSE "source"]
  /\ ToRepair /\ UNCHANGED <<revised, mood, said, edited, voiced>>

\* What of a reply is taken: broken lines that come back whole.
\* Variant: the reply is believed about any line.
TakenAnywhere(reply) == {i \in DOMAIN reply : reply[i] \notin Broken}
Taken(reply) == {i \in DOMAIN reply : i \in suspects /\ reply[i] \notin Broken}
Order(i) == Cardinality({j \in suspects : j <= i})
Sent == {i \in suspects : Order(i) > at /\ Order(i) <= at + RepairBatch}
Repair ==
  /\ step = "repair" /\ Sent # {} /\ at' = at + RepairBatch
  /\ \/ UNCHANGED <<text, revised>>       \* no answer, or one that cannot be read
     \/ \E ids \in SUBSET All : \E reply \in [ids -> Broken \cup {"repaired"}] :
          /\ text' = [i \in All |-> IF i \in Taken(reply) THEN reply[i] ELSE text[i]]
          /\ revised' = revised + Cardinality(Taken(reply))
  /\ UNCHANGED <<step, suspects, translated, mood, said, edited, voiced>>
\* Also when there is no provider to ask.
Repaired == /\ step = "repair" /\ step' = "direct"
            /\ UNCHANGED <<text, at, suspects, translated, revised, mood, said, edited, voiced>>

\* The delivery: of the audio model alone, or a preset of the chat model's.
\* Variant: the lines that have one are given a new one too.
DeliveryAnew(i, new) == new[i]
Delivery(i, new) == IF mood[i] = None THEN new[i] ELSE mood[i]
Direct ==
  /\ step = "direct" /\ step' = "voice"
  /\ \E new \in [All -> Presets] : mood' = [i \in All |-> Delivery(i, new)]
  /\ UNCHANGED <<text, at, suspects, translated, revised, said, edited, voiced>>
DirectOff ==
  /\ step = "direct" /\ step' = "voice"
  /\ mood' = [i \in All |-> IF mood[i] = None THEN Calm ELSE mood[i]]
  /\ UNCHANGED <<text, at, suspects, translated, revised, said, edited, voiced>>
\* An engine that takes no delivery, or choosing them went wrong.
Undirected == /\ step = "direct" /\ step' = "voice"
              /\ UNCHANGED <<text, at, suspects, translated, revised, mood, said, edited, voiced>>
\* A line for which none was chosen is said calm; another engine than Navoiy takes none.
Said(i) == IF mood[i] = None THEN [as |-> Calm, chosen |-> FALSE] ELSE [as |-> mood[i], chosen |-> TRUE]
Voice ==
  /\ step = "voice" /\ step' = "done" /\ voiced' = voiced + 1
  /\ said' \in {[i \in All |-> said[i] \cup {Said(i)}], said}
  /\ UNCHANGED <<text, at, suspects, translated, revised, mood, edited>>

\* A corrected dub, a job of its own that the module follows from there: the lines are
\* reused as they are, and neither translated nor repaired again.  Nothing in the code
\* makes it wait until the job it corrects is done.
\* Variant: it goes through repair like any other.
AgainAt == "repair"
Again == "direct"
Revoice(i) ==
  /\ voiced < MaxVoiced /\ step' = Again
  /\ text' = [text EXCEPT ![i] = "user"] /\ edited' = edited \cup {i}
  /\ translated' = IF step = "translate" THEN text ELSE translated
  /\ at' = 0 /\ revised' = 0 /\ UNCHANGED <<suspects, mood, said, voiced>>

Next == \/ Translate \/ TranslateFails \/ Repair \/ Repaired
        \/ Direct \/ DirectOff \/ Undirected \/ Voice \/ \E i \in All : Revoice(i)
Spec == Init /\ [][Next]_vars

-----------------------------------------------------------------------------
TypeOK ==
  /\ step \in {"translate", "repair", "direct", "voice", "done"}
  /\ text \in [All -> Texts] /\ at \in 0 .. Lines + RepairBatch
  /\ suspects \subseteq All /\ translated \in [All -> Texts] /\ revised \in Nat
  /\ mood \in [All -> Presets \cup {None}] /\ said \in [All -> SUBSET [as : Presets, chosen : BOOLEAN]]
  /\ edited \subseteq All /\ voiced \in 0 .. MaxVoiced

\* "This stage can only improve a segment or leave it alone" (refine.py:13-16), whatever
\* the provider answers; and a line its user wrote stays as written (orchestrator.py:314-318).
RepairOnlyImproves ==
  step # "translate" => \A i \in All :
    IF i \in edited THEN text[i] = "user"
    ELSE text[i] # translated[i] => translated[i] \in Broken /\ text[i] \notin Broken
\* "Presets already on a segment are kept: on a re-voice they are what the first dub used":
\* the delivery that was once chosen for a line is the one it is said with whenever it is
\* voiced again (emotion.py:152-154).
DeliveryKept == \A i \in All : \A s \in said[i] : s.chosen => s.as = mood[i]
\* Not run, and false: a line that was said calm because choosing went wrong is given a
\* delivery when it is voiced again (tts_navoiy.py:159, orchestrator.py:416-428).
DeliveryLasts == \A i \in All : \A s \in said[i] : mood[i] # None => s.as = mood[i]
\* Not run, and false: "Re-voice a finished job" (main.py:373).
RevoicesFinished == [][edited' # edited => step = "done"]_vars
\* Not run, and false: a line another batch answers for is counted twice.
RevisedOnce == revised <= Cardinality(suspects)
=============================================================================
