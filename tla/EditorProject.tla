---------------------------- MODULE EditorProject ----------------------------
(* One project of the video editor as the API keeps it
   (api/src/editor/editor.service.ts): the row with its files and the files its
   timeline plays, the files on disk, and the exports.  Saving the timeline,
   adding a file and removing one go through the project's queue, each as a read
   of the row and a later write; exports and the deletion of the project do not. *)
EXTENDS Naturals, Sequences, FiniteSets, SequencesExt

CONSTANTS Assets,      \* media files, each added at most once
          Ops,         \* requests that write the project, each sent at most once
          Exports,     \* requests to export, each sent at most once
          NoExport,
          MaxRestarts  \* bound: restarts of the API

VARIABLES row,       \* EditorProject: assets, the assets its clips name, the last export
          disk,      \* files under the project's directory
          op, queue, \* requests, and the project's promise chain
          export,    \* exports
          live,      \* the export whose progress the process shows, if any
          unwritten, \* history: the last word on an export could not be written
          added,     \* history: files whose addition was answered and that nobody removed
          restarts
vars == <<row, disk, op, queue, export, live, unwritten, added, restarts>>

Idle == [kind |-> "none", pc |-> "new", assets |-> {}, seen |-> {}, clips |-> {}]
Row0 == [exists |-> TRUE, assets |-> {}, clips |-> {}, status |-> "idle", url |-> NoExport]
Export0 == [pc |-> "new", prev |-> NoExport, files |-> {}]

Init ==
  /\ row = Row0 /\ disk = {}
  /\ op = [o \in Ops |-> Idle] /\ queue = <<>>
  /\ export = [e \in Exports |-> Export0] /\ live = NoExport /\ unwritten = FALSE
  /\ added = {} /\ restarts = 0

-----------------------------------------------------------------------------
(* The requests, in the order assertTool and own let them through.  A save names
   the files its clips play; the other two a file.  A file being added is moved
   into the project's directory and probed before it waits its turn; one with
   nothing playable in it is turned away. *)
Send(o, kind, files) ==
  /\ op[o].pc = "new" /\ row.exists
  /\ op' = [op EXCEPT ![o] = [Idle EXCEPT !.kind = kind, !.pc = "queued", !.assets = files]]
  /\ queue' = Append(queue, o)
  /\ UNCHANGED <<row, export, live, unwritten, added, restarts>>
Known == row.assets \cup disk \cup UNION {op[o].assets : o \in Ops}
Request(o) ==
  \/ \E files \in SUBSET Assets : Send(o, "save", files) /\ UNCHANGED disk
  \/ \E a \in Assets \ Known : Send(o, "add", {a}) /\ disk' = disk \cup {a}
  \/ \E a \in Assets : Send(o, "remove", {a}) /\ UNCHANGED disk

\* Variant: requests do not wait for one another.
MyTurnAlways(o) == Contains(queue, o)
\* serial: the head of the project's promise chain runs.
MyTurn(o) == queue # <<>> /\ Head(queue) = o

Read(o) ==
  /\ op[o].pc = "queued" /\ MyTurn(o) /\ row.exists
  /\ op' = [op EXCEPT ![o].pc = "write", ![o].seen = row.assets, ![o].clips = row.clips]
  /\ UNCHANGED <<row, disk, queue, export, live, unwritten, added, restarts>>
\* It is over, and the next one's turn.
Leave(o) == op' = [op EXCEPT ![o] = [Idle EXCEPT !.pc = "over"]] /\ queue' = Tail(queue)
\* The project is gone, a clip names a file that is not in it, or a clip still uses the file.
Refuses(o) ==
  CASE op[o].kind = "save" -> ~(op[o].assets \subseteq op[o].seen)
    [] op[o].kind = "remove" -> ~(op[o].assets \subseteq op[o].seen) \/ op[o].assets \cap op[o].clips # {}
    [] OTHER -> FALSE
\* The database may fail either await as well.
Refuse(o) ==
  /\ op[o].pc = "write" \/ (op[o].pc = "queued" /\ MyTurn(o))
  /\ Leave(o)
  /\ UNCHANGED <<row, disk, export, live, unwritten, added, restarts>>
Writes(o) == op[o].pc = "write" /\ row.exists /\ ~Refuses(o)
WriteTracks(o) ==
  /\ Writes(o) /\ op[o].kind = "save"
  /\ row' = [row EXCEPT !.clips = op[o].assets] /\ Leave(o)
  /\ UNCHANGED <<disk, export, live, unwritten, added, restarts>>
AddAsset(o) ==
  /\ Writes(o) /\ op[o].kind = "add"
  /\ row' = [row EXCEPT !.assets = op[o].seen \cup op[o].assets] /\ Leave(o)
  /\ added' = added \cup op[o].assets
  /\ UNCHANGED <<disk, export, live, unwritten, restarts>>
\* Variant: the file goes before the row stops naming it.
DropAssetFileFirst(o) ==
  /\ Writes(o) /\ op[o].kind = "remove"
  /\ disk' = disk \ op[o].assets
  /\ op' = [op EXCEPT ![o].pc = "unlink"]
  /\ UNCHANGED <<row, queue, added, export, live, unwritten, restarts>>
DropAsset(o) ==
  /\ Writes(o) /\ op[o].kind = "remove"
  /\ row' = [row EXCEPT !.assets = op[o].seen \ op[o].assets]
  /\ op' = [op EXCEPT ![o].pc = "unlink"] /\ added' = added \ op[o].assets
  /\ UNCHANGED <<disk, queue, export, live, unwritten, restarts>>
Unlink(o) ==
  /\ op[o].pc = "unlink" /\ Leave(o)
  /\ disk' = disk \ op[o].assets
  /\ UNCHANGED <<row, export, live, unwritten, added, restarts>>

-----------------------------------------------------------------------------
(* Exports: the row is read, the filters are asked for, and only then is the
   export marked as running; ffmpeg works outside any lock. *)
ReadForExport(e) ==
  /\ export[e].pc = "new" /\ row.exists /\ live = NoExport /\ row.clips # {}
  /\ export' = [export EXCEPT ![e] = [pc |-> "start", prev |-> row.url, files |-> row.clips]]
  /\ UNCHANGED <<row, disk, op, queue, live, unwritten, added, restarts>>
Show(e) ==
  /\ export[e].pc = "start" /\ live' = e
  /\ export' = [export EXCEPT ![e].pc = "mark"]
  /\ UNCHANGED <<row, disk, op, queue, unwritten, added, restarts>>
\* Variant: the running state is kept off the row.
MarkInMemory(e) ==
  /\ export[e].pc = "mark"
  /\ export' = [export EXCEPT ![e].pc = "encode"]
  /\ UNCHANGED <<row, disk, op, queue, live, unwritten, added, restarts>>
Mark(e) ==
  /\ export[e].pc = "mark" /\ row.exists
  /\ row' = [row EXCEPT !.status = "running", !.url = NoExport]
  /\ export' = [export EXCEPT ![e].pc = "encode"]
  /\ UNCHANGED <<disk, op, queue, live, unwritten, added, restarts>>
\* The row is gone, or the write fails: the request does, and `live` keeps showing an
\* export that never starts.
CannotMark(e) ==
  /\ export[e].pc = "mark"
  /\ export' = [export EXCEPT ![e].pc = "over"] /\ unwritten' = TRUE
  /\ UNCHANGED <<row, disk, op, queue, live, added, restarts>>
Encoded(e) ==
  /\ export[e].pc = "encode" /\ export[e].files \subseteq disk
  /\ disk' = disk \cup {e}
  /\ export' = [export EXCEPT ![e].pc = "encoded"]
  /\ UNCHANGED <<row, op, queue, live, unwritten, added, restarts>>
\* ffmpeg fails; what it wrote so far stays.
EncodeFails(e) ==
  /\ export[e].pc = "encode"
  /\ disk' \in {disk, disk \cup {e}}
  /\ export' = [export EXCEPT ![e].pc = "failed"]
  /\ UNCHANGED <<row, op, queue, live, unwritten, added, restarts>>
DropPrevious(e) ==
  /\ export[e].pc = "encoded"
  /\ disk' = disk \ {export[e].prev}
  /\ export' = [export EXCEPT ![e].pc = "done"]
  /\ UNCHANGED <<row, op, queue, live, unwritten, added, restarts>>
\* Variant: the end of an export is not written to the row.
SettleInMemory(e) ==
  /\ export[e].pc \in {"done", "failed"}
  /\ live' = NoExport /\ export' = [export EXCEPT ![e] = [Export0 EXCEPT !.pc = "over"]]
  /\ UNCHANGED <<row, disk, op, queue, unwritten, added, restarts>>
\* The last write and renders.delete(id), whichever export `live` showed.  The error of
\* a write that fails is dropped, whether the project is gone or the database is.
Ended(e) == [row EXCEPT !.status = export[e].pc, !.url = IF export[e].pc = "done" THEN e ELSE NoExport]
Settle(e) ==
  /\ export[e].pc \in {"done", "failed"}
  /\ \/ row.exists /\ row' = Ended(e) /\ unwritten' = FALSE
     \/ row' = row /\ unwritten' = TRUE
  /\ live' = NoExport /\ export' = [export EXCEPT ![e] = [Export0 EXCEPT !.pc = "over"]]
  /\ UNCHANGED <<disk, op, queue, added, restarts>>

-----------------------------------------------------------------------------
\* remove: outside the queue.  The row first, then the directory.
Delete ==
  /\ row.exists /\ row' = [Row0 EXCEPT !.exists = FALSE, !.status = "deleting"] /\ added' = {}
  /\ UNCHANGED <<disk, op, queue, export, live, unwritten, restarts>>
RemoveDir ==
  /\ row.status = "deleting" /\ row' = [row EXCEPT !.status = "idle"]
  /\ disk' = {} /\ live' = NoExport
  /\ UNCHANGED <<op, queue, export, unwritten, added, restarts>>

\* The process dies: requests, queue and exports are gone.  onModuleInit settles the
\* export the row says is running, unless the database fails it.
Restart ==
  /\ restarts < MaxRestarts /\ restarts' = restarts + 1
  /\ queue' = <<>> /\ live' = NoExport
  /\ op' = [o \in Ops |-> IF op[o].pc = "new" THEN Idle ELSE [Idle EXCEPT !.pc = "over"]]
  /\ export' = [e \in Exports |-> IF export[e].pc = "new" THEN Export0 ELSE [Export0 EXCEPT !.pc = "over"]]
  /\ \/ row.status = "running" /\ row' = [row EXCEPT !.status = "failed"] /\ unwritten' = FALSE
     \/ row' = row /\ unwritten' = (row.status = "running")
  /\ UNCHANGED <<disk, added>>

Queued(o) == Read(o) \/ Refuse(o) \/ WriteTracks(o) \/ AddAsset(o) \/ DropAsset(o) \/ Unlink(o)
Exporting(e) == Show(e) \/ Mark(e) \/ CannotMark(e) \/ Encoded(e) \/ EncodeFails(e) \/ DropPrevious(e) \/ Settle(e)
Next ==
  \/ \E o \in Ops : Request(o) \/ Queued(o)
  \/ \E e \in Exports : ReadForExport(e) \/ Exporting(e)
  \/ Delete \/ RemoveDir \/ Restart
Fairness == \A e \in Exports : WF_vars(Exporting(e))
Spec == Init /\ [][Next]_vars
FairSpec == Spec /\ Fairness

-----------------------------------------------------------------------------
TypeOK ==
  /\ row \in [exists : BOOLEAN, assets : SUBSET Assets, clips : SUBSET Assets,
              status : {"idle", "running", "done", "failed", "deleting"}, url : Exports \cup {NoExport}]
  /\ disk \subseteq Assets \cup Exports
  /\ op \in [Ops -> [kind : {"none", "save", "add", "remove"},
                     pc : {"new", "queued", "write", "unlink", "over"},
                     assets : SUBSET Assets, seen : SUBSET Assets, clips : SUBSET Assets]]
  /\ Range(queue) \subseteq Ops /\ IsInjective(queue)
  /\ export \in [Exports -> [pc : {"new", "start", "mark", "encode", "encoded", "done", "failed", "over"},
                             prev : Exports \cup {NoExport}, files : SUBSET Assets]]
  /\ live \in Exports \cup {NoExport} /\ unwritten \in BOOLEAN
  /\ added \subseteq Assets /\ restarts \in 0 .. MaxRestarts

\* The saved timeline plays only files the project has, however a save and the removal
\* of a file it starts to use interleave (editor.service.ts:67-69, 447).
ClipsHaveAssets == row.clips \subseteq row.assets

\* No write loses another's file: "two autosaves racing an upload would otherwise lose
\* one of them" (editor.service.ts:67-69).
NoUploadLost == added \subseteq row.assets

\* Every file the project lists can be played, across a restart between the write of the
\* row and the removal of the file (editor.service.ts:452-460).
AssetsOnDisk == row.assets \subseteq disk

\* An export offered for download is there, although each export deletes an older one and
\* two may run at once (editor.service.ts:465-543).
ExportOnDisk == row.exists /\ row.status = "done" => row.url \in disk

\* What view answers of the export.
ShownRunning == row.exists /\ (live # NoExport \/ row.status = "running")
\* No project is left as exporting, through failed exports, a restart and two exports at
\* once (editor.service.ts:78-104, 132-144, 465-543), unless the database failed the write
\* of an export's beginning or of its end.
ExportsSettle == []<>(~ShownRunning \/ unwritten)
\* Not run, and false.  ".catch(() => undefined); // deleted mid-render" (editor.service.ts:541):
\* whatever else fails that write is dropped too, and the project is exporting until it is
\* exported again or the API restarts; after a failed first write no other export is
\* begun (468) before that restart.
ExportsAlwaysSettle == []<>~ShownRunning

\* Not run.  One export at a time (editor.service.ts:468-496): the check and the mark are
\* two awaits apart.
OneExport == Cardinality({e \in Exports : export[e].pc \in {"mark", "encode", "encoded", "done", "failed"}}) <= 1
\* Not run.  "Keep the newest export only" (editor.service.ts:513): a failed or a
\* concurrent export leaves files nothing names.
OnlyNewestExport ==
  (\A e \in Exports : export[e].pc \in {"new", "over"}) => disk \cap Exports \subseteq {row.url}
=============================================================================
