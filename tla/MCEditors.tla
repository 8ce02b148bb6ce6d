------------------------------ MODULE MCEditors ------------------------------
(* The two editors, small instances side by side, each behaviour one of theirs: the
   speech edits of a dub and its pages (SpeechEdits), the voicing of one edit and the
   subtitles of a clip (Voicing), a page of the video editor (EditorPage) and the
   project the API keeps for it (EditorProject). *)
EXTENDS SpeechEdits, FiniteSets

CONSTANTS None,
          Words, CallTicks, Deadline, RunTicks,    \* lines to voice, and how long that may last
          Changes, MaxSaves, MaxExports,           \* of the page
          Files, Requests, Outputs,                \* of the project
          MaxDown                                  \* bound: restarts of the API and of the pipeline

ASSUME VoicingAssumption ==
  Words \in Nat /\ CallTicks \in Nat /\ Deadline \in Nat /\ RunTicks \in Nat /\ MaxDown \in Nat
\* None is neither a drag nor a timeline.
ASSUME PageAssumption ==
  /\ MaxSaves \in Nat /\ MaxExports \in Nat
  /\ None \notin [edit : Changes, before : SUBSET Changes, moved : BOOLEAN] /\ \A s \in SUBSET Changes : s # None
\* An export is written to a file of its own, which is none of the media files.
ASSUME ProjectAssumption == Files \cap Outputs = {} /\ None \notin Files \cup Outputs

VARIABLES active,   \* the component that moves
  edit, voiceSent, task, charged, shows, waited, spent, kept, work, out, sub, voiceHeard, wav, voiceRestarts,
  doc, past, future, drag, loose, deskHeard, open, dirty, timer, label, flight, stored, deskSent, trouble, made, render,
  row, disk, op, queue, export, live, unwritten, added, projectRestarts

Voice == INSTANCE Voicing WITH
    sent <- voiceSent, heard <- voiceHeard, restarts <- voiceRestarts, Lines <- Words,
    MaxRestarts <- MaxDown
Desk == INSTANCE EditorPage WITH
    heard <- deskHeard, sent <- deskSent, Edits <- Changes
Project == INSTANCE EditorProject WITH
    restarts <- projectRestarts, Assets <- Files, Ops <- Requests,
    Exports <- Outputs, NoExport <- None, MaxRestarts <- MaxDown

EditsVars == <<rows, page, restarts>>
VoiceVars == <<edit, voiceSent, task, charged, shows, waited, spent, kept, work, out, sub, voiceHeard, wav, voiceRestarts>>
DeskVars == <<doc, past, future, drag, loose, deskHeard, open, dirty, timer, label, flight, stored, deskSent, trouble, made, render>>
ProjectVars == <<row, disk, op, queue, export, live, unwritten, added, projectRestarts>>
allVars == <<active, EditsVars, VoiceVars, DeskVars, ProjectVars>>

HarnessInit ==
  /\ active \in {"edits", "voicing", "page", "project"}
  /\ Init
  /\ Voice!Init
  /\ Desk!Init
  /\ Project!Init

EditsMoves ==
  /\ active = "edits" /\ Next
  /\ UNCHANGED <<active, VoiceVars, DeskVars, ProjectVars>>
VoiceMoves ==
  /\ active = "voicing" /\ Voice!Next
  /\ UNCHANGED <<active, EditsVars, DeskVars, ProjectVars>>
DeskMoves ==
  /\ active = "page" /\ Desk!Next
  /\ UNCHANGED <<active, EditsVars, VoiceVars, ProjectVars>>
ProjectMoves ==
  /\ active = "project" /\ Project!Next
  /\ UNCHANGED <<active, EditsVars, VoiceVars, DeskVars>>

HarnessNext == EditsMoves \/ VoiceMoves \/ DeskMoves \/ ProjectMoves
HarnessSpec == HarnessInit /\ [][HarnessNext]_allVars
\* What is fair of a component that does not move is disabled from the start.
HarnessFairSpec == HarnessSpec /\ Fairness /\ Voice!Fairness /\ Desk!Fairness /\ Project!Fairness


\* What a customer made and paid for in the editors is kept: the page that says "saved"
\* shows what the API has, but for what a drag did and did not commit; no write loses
\* another's file, the saved clips play files that are on the disk, and so is the export
\* that is offered; each line a speech edit voices is paid for once, and nothing is left of
\* the sound that was listened to (VideoEditor.tsx:296-313, 1739-1827,
\* editor.service.ts:67-69, 434-436, 447-460, 465-543, speech-edit.service.ts:211-227).
EditingKept == /\ Desk!NothingForgotten /\ Project!NoUploadLost /\ Project!ClipsHaveAssets
               /\ Project!AssetsOnDisk /\ Project!ExportOnDisk
               /\ Voice!LinesPaidOnce /\ Voice!SoundIsGone
\* Nothing in the editors is under way for ever: a page hears how the edit it watches and
\* the export it started ended, a project stops exporting, voicing and subtitles end, each
\* with the exceptions its module names: an end the database did not take is the one of an
\* export (speech-edit.service.ts:59-67, SpeechEditor.tsx:211-240,
\* VideoEditor.tsx:808-818, editor.service.ts:78-104, pipeline.service.ts:256-264).
EditingEnds == WatchEnds /\ Desk!ExportIsToldOrMissed /\ Project!ExportsSettle /\ Voice!VoicingEnds
\* The state of the component that moves has its type; in particular an edit builds on an older
\* version than its own.
StatesOK == CASE active = "edits" -> TypeOK
              [] active = "voicing" -> Voice!TypeOK
              [] active = "page" -> Desk!TypeOK
              [] active = "project" -> Project!TypeOK

=============================================================================
