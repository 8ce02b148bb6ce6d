------------------------------ MODULE MCLibrary ------------------------------
(* A dub and what is kept of it, small instances side by side, each behaviour one of
   theirs: where its lines are laid (Placement), what its pipeline serves (Pipeline), how
   corrected lines are laid into it (Splice), its record in the libraries of two tabs, of
   one browser or of two (Works), the timeline it is cut on (Timeline) and the lines it is
   corrected by (LineEditor). *)
EXTENDS Placement, TLC

CONSTANTS None,
          Scenes,                           \* the components that may move
          Found,                            \* lines a recogniser may find
          Count, Space, Takes, MaxSplices,  \* lines, and the sound they are laid into
          Users, Tabs, Browsers, Jobs, Owner, MaxClock, MaxLists, MaxPuts,   \* of the library
          Media, Durations, Videos, Sounds, TextMax, MaxTime, Points, MaxEdits,   \* of the timeline
          Span, Snap, MinLine, MaxMoves, MaxVersions   \* of the line editor
Sym == Permutations(Tabs)
Home == CHOOSE b \in Browsers : TRUE
OneOwner == [j \in Jobs |-> CHOOSE u \in Users : TRUE]
CONSTANTS vid, snd, click         \* files of the editor, one of them too short for a clip
MCDurations == (vid :> 12) @@ (snd :> 6) @@ (click :> 1)

VARIABLES active,   \* the component that moves
  opts, runAt, again, text, wav, runSound, told, bed, stage, out, first,
  transcript, laidSound, laidFirst, changedIn, version,
  browser, user, works, shownWorks, drawn, dirty, timers, cache, puts, deletes, lists, rows, clock, added, removed, kept,
  doc, past, future, edits,
  spokenAt, segments, made, drafts, row, submitting, sent, shown, typed, moves, versions

ASSUME ScenesAssumption == Scenes \subseteq {"placement", "pipeline", "splice", "works", "timeline", "lines"}
\* Lines are numbered, and what they take is whole slots.
ASSUME SpliceAssumption == Count \in Nat /\ Space \in Nat /\ Takes \subseteq Nat \ {0} /\ MaxSplices \in Nat
\* A recogniser may find nothing.
ASSUME PipelineAssumption == 0 \in Found /\ Found \subseteq Nat
\* Every file has a picture or a sound; it may be as short, and a clip as late, as they come.
ASSUME TimelineAssumption ==
  /\ Points \subseteq Nat /\ MaxEdits \in Nat /\ TextMax \in Nat /\ Media \subseteq Videos \cup Sounds
  /\ \A a \in Media : Durations[a] \in Nat
Run == INSTANCE Pipeline WITH
    at <- runAt, sound <- runSound, Lengths <- Found
Laid == INSTANCE Splice WITH
    sound <- laidSound, first <- laidFirst, Length <- Space, Lengths <- Takes, MaxVersions <- MaxSplices
Library == INSTANCE Works WITH
    shown <- shownWorks, Nobody <- None, NoWork <- None
\* A dub is one account's, and none is no account and no record.
ASSUME WorksAssumption == MaxClock \in Nat /\ Owner \in [Jobs -> Users] /\ None \notin Users /\ None \notin Library!Work
Cut == INSTANCE Timeline WITH
    Assets <- Media, NoAsset <- None, Duration <- Durations
Spoken == INSTANCE LineEditor WITH
    at <- spokenAt, Total <- Span
\* Times are numbers of units, and none is no time and no text.
ASSUME LinesAssumption ==
  /\ Span \in Nat /\ Snap \in Nat \ {0} /\ MinLine \in Nat /\ MaxMoves \in Nat /\ MaxVersions \in Nat
  /\ None \notin Int /\ None \notin Spoken!Texts

PlacedVars == <<engine, line, cursor, placed, left>>
RunVars == <<opts, runAt, again, text, wav, runSound, told, bed, stage, out, first>>
LaidVars == <<transcript, laidSound, laidFirst, changedIn, version>>
LibraryVars == <<browser, user, works, shownWorks, drawn, dirty, timers, cache, puts, deletes, lists, rows, clock, added, removed, kept>>
CutVars == <<doc, past, future, edits>>
SpokenVars == <<spokenAt, segments, made, drafts, row, submitting, sent, shown, typed, moves, versions>>
allVars == <<active, PlacedVars, RunVars, LaidVars, LibraryVars, CutVars, SpokenVars>>

HarnessInit ==
  /\ active \in Scenes
  /\ IF active = "placement" THEN TRUE ELSE engine = "edge" /\ line = [start |-> 0, end |-> 0]
  /\ Init
  /\ IF active = "pipeline" THEN TRUE ELSE opts = [mode |-> "both", fast |-> FALSE, keep |-> FALSE, lip |-> FALSE, subs |-> FALSE, custom |-> FALSE]
  /\ Run!Init
  /\ IF active = "splice" THEN TRUE ELSE transcript = (CHOOSE t \in Laid!Transcripts : TRUE) /\ laidSound = [s \in Laid!Slots |-> {}]
  /\ Laid!Init
  /\ Library!Init
  /\ IF active = "works" THEN \E t \in Tabs : browser[t] = Home ELSE \A t \in Tabs : browser[t] = Home
  /\ Cut!Init
  /\ IF active = "lines" THEN TRUE ELSE made = CHOOSE d \in Spoken!Dubs : TRUE
  /\ Spoken!Init

PlacedMoves ==
  /\ active = "placement" /\ Next
  /\ UNCHANGED <<active, RunVars, LaidVars, LibraryVars, CutVars, SpokenVars>>
RunMoves ==
  /\ active = "pipeline" /\ Run!Next
  /\ UNCHANGED <<active, PlacedVars, LaidVars, LibraryVars, CutVars, SpokenVars>>
LaidMoves ==
  /\ active = "splice" /\ Laid!Next
  /\ UNCHANGED <<active, PlacedVars, RunVars, LibraryVars, CutVars, SpokenVars>>
LibraryMoves ==
  /\ active = "works" /\ Library!Next
  /\ UNCHANGED <<active, PlacedVars, RunVars, LaidVars, CutVars, SpokenVars>>
CutMoves ==
  /\ active = "timeline" /\ Cut!Next
  /\ UNCHANGED <<active, PlacedVars, RunVars, LaidVars, LibraryVars, SpokenVars>>
SpokenMoves ==
  /\ active = "lines" /\ Spoken!Next
  /\ UNCHANGED <<active, PlacedVars, RunVars, LaidVars, LibraryVars, CutVars>>

HarnessNext == PlacedMoves \/ RunMoves \/ LaidMoves \/ LibraryMoves \/ CutMoves \/ SpokenMoves
HarnessSpec == HarnessInit /\ [][HarnessNext]_allVars


\* A dub a page has drawn and stored, and that nobody removed, is in the account, or still
\* there unsaved: on that page while it stays with its account, and in its browser's storage
\* if no other tab writes there; and a record shown as synced is one the API has, however
\* saves and lists overtake one another (works.tsx:72, 148-186).
WorksKept == Library!WorksKept
\* What is heard is right: the file that is served is the dub, without the original speech;
\* the time of a line that was corrected has its newest recording, and the time of a line
\* never corrected the sound it had, a neighbour's that ran into it included
\* (sync.py:22-35, bleed.py:176-232, edits.ts:102-228).
SoundRight == Run!ServedIsDub /\ Run!NoOriginalSpeech /\ Laid!SpliceKeepsRight
\* What was arranged is what is stored and drawn: clips of files, however they are placed,
\* cut, trimmed and dragged, are stored as the page shows them, if their file is as long as
\* the shortest clip and they end within the three hours a project may last; and lines that
\* are only dragged stay apart (timeline.ts:133-179, SpeechEditor.tsx:668-670, 724-757).
ArrangedAsShown == Cut!FilesAreStored /\ Spoken!DragsKeepApart
\* An edit does what the page showed: a clip cut in two plays as before, a re-dub gives the
\* lines on show (VideoEditor.tsx:550-578, SpeechEditor.tsx:276-301).
DoneAsShown == Cut!SplitKeepsPlaying /\ Spoken!RedubAsShown
\* The state of the component that moves has its type; a job that failed shows one stage that did,
\* one that is done shows none that is not (orchestrator.py:801-825).
StatesOK == CASE active = "placement" -> TypeOK
              [] active = "pipeline" -> Run!TypeOK
              [] active = "splice" -> Laid!TypeOK
              [] active = "works" -> Library!TypeOK
              [] active = "timeline" -> Cut!TypeOK
              [] active = "lines" -> Spoken!TypeOK

=============================================================================
