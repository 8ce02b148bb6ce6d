------------------------------- MODULE MCDesk --------------------------------
(* What a customer is told and sold, and the words of a dub, small instances side by
   side, each behaviour one of theirs: the plans page (PlansPage), the dubbing form
   (DubForm), the first-run tour (Guide), the report of a finished dub (DubReport), the
   works page (WorksPage), the catalog's script and panel (Seeding, Catalog), the gates of
   the plans (PlanGates), the audit log (Audit), recognition (Recognise) and translation,
   repair and delivery (Wording).  The constants are theirs, under names of their own. *)
EXTENDS PlansPage

CONSTANTS
  FormUsers, Replays, Played, FormChanges,                              \* the form
  Newcomers, Screens, TourClips, FreshFor, LastDay, PageLoads, Clicks,  \* the tour
  ReportLines,                                                          \* the report
  Shelved, Aged, Titled, ShelfChanges,                                  \* the works page
  RowKind, ScriptOrder, Deploys, ScriptChanges,                         \* the script
  SoldPlans, SoldPacks, Products, Staff, Purchases, PanelChanges,       \* the panel
  PlanChanges,                                                          \* the gates
  People, Addresses, Calls, Chief, Addressed, AdminTable, Renames,      \* the audit log
  NoWord, Phrases, Aim, Longest, Nearby, LoopLength, SetForGiga,        \* recognition
  HeardByGiga, UserLanguages, WhisperLanguages, SpeechSpans, MaxStretches, MaxPhrases,
  Segments, PerCall, PerRepair, Moods, PlainMood, Takes                 \* wording
MCSold == {<<"PRO", "monthly">>, <<"PRO", "yearly">>}
MCPacks == {<<"pack", "100">>, <<"pack", "2000">>}
Priced(price, per, grants) == [price |-> price, per |-> per, grants |-> grants, link |-> TRUE, active |-> TRUE]
MCCatalog == [i \in MCSold \cup MCPacks |->
  CASE i = <<"PRO", "monthly">> -> Priced(1950, 1200, 1) [] i = <<"PRO", "yearly">> -> Priced(19900, 1200, 12)
    [] i = <<"pack", "100">> -> Priced(119, 100, 1) [] OTHER -> Priced(1799, 2000, 1)]
MCClips == {<<"file", 1>>, <<"link", 1>>}
MCKind == [ann |-> "account", pro |-> "plan", studio |-> "plan", small |-> "pack", uz |-> "language"]
MCQueue == <<"ann", "pro", "studio", "small", "uz">>
MCNames == [ann |-> "first", ada |-> "second"]
MCAdmins == [ann |-> "third", ada |-> None]

VARIABLES active,   \* the component that moves
  who, plan, known, wallet, lips, form, replay, formPlans, run, formMoves,
  tourSeen, registered, born, day, pages, tourLeft, page,
  reportAt, opts, reportText, reportSaid, voice, silent, real, reportKept, issues, panel,
  work, filter, sort, view, wide, selected, drawer, overflow, menu, opened, shelfMoves,
  row, scriptAsked, scriptAt, scriptSeen, word, runs, scriptEdits,
  sold, link, made, gone, edit, order, raced, panelEdits,
  tier, wants, gatesStep, refusal, refused, changes,
  email, held, req, rows, feed, names,
  phase, source, giga, engine, detected, regions, piece, heard, earKept,
  wordsStep, wordsText, wordsAt, suspects, translated, revised, mood, wordsSaid, edited, voiced

Form == INSTANCE DubForm WITH
    plans <- formPlans, moves <- formMoves, Accounts <- FormUsers, Runs <- Replays,
    Controls <- Played, MaxMoves <- FormChanges
Tour == INSTANCE Guide WITH
    seen <- tourSeen, left <- tourLeft, Accounts <- Newcomers, Tabs <- Screens,
    Clips <- TourClips, FreshDays <- FreshFor, MaxDay <- LastDay, MaxPages <- PageLoads,
    MaxMoves <- Clicks
Report == INSTANCE DubReport WITH
    at <- reportAt, text <- reportText, said <- reportSaid, kept <- reportKept,
    Lines <- ReportLines
Shelf == INSTANCE WorksPage WITH
    moves <- shelfMoves, Works <- Shelved, Old <- Aged, Named <- Titled, MaxMoves <- ShelfChanges
Script == INSTANCE Seeding WITH
    asked <- scriptAsked, at <- scriptAt, seen <- scriptSeen, edits <- scriptEdits,
    Kind <- RowKind, Queue <- ScriptOrder, MaxRuns <- Deploys, MaxEdits <- ScriptChanges
Panel == INSTANCE Catalog WITH
    edits <- panelEdits, Plans <- SoldPlans, Packs <- SoldPacks, Variants <- Products,
    Admins <- Staff, Orders <- Purchases, MaxEdits <- PanelChanges
Gates == INSTANCE PlanGates WITH
    step <- gatesStep, MaxTiers <- PlanChanges
Log == INSTANCE Audit WITH
    Accounts <- People, Emails <- Addresses, Requests <- Calls, Admin <- Chief,
    Names0 <- Addressed, Elsewhere <- AdminTable, MaxNames <- Renames
Ear == INSTANCE Recognise WITH
    kept <- earKept, Blank <- NoWord, Texts <- Phrases, Target <- Aim, MaxChunk <- Longest,
    Search <- Nearby, RepeatRun <- LoopLength, Configured <- SetForGiga, Detectable <- HeardByGiga,
    Given <- UserLanguages, Detected <- WhisperLanguages, Spans <- SpeechSpans,
    MaxRegions <- MaxStretches, MaxLines <- MaxPhrases
Words == INSTANCE Wording WITH
    step <- wordsStep, text <- wordsText, at <- wordsAt, said <- wordsSaid, Lines <- Segments,
    NmtBatch <- PerCall, RepairBatch <- PerRepair, Presets <- Moods, Calm <- PlainMood,
    MaxVoiced <- Takes

ASSUME WordingAssumption ==
  /\ Segments \in Nat /\ PerCall \in Nat \ {0} /\ PerRepair \in Nat /\ Takes \in Nat \ {0}
  /\ PlainMood \in Moods /\ None \notin Moods
\* The catalog that was seeded has whole prices, a pack is of one grant, and None is no
\* row and no number.
ShopRow == [price : Nat, per : Nat, grants : Nat, link : BOOLEAN, active : BOOLEAN]
ASSUME ShopAssumption ==
  /\ Catalog0 \in [Sold \cup Packs -> ShopRow] /\ (\A p \in Packs : Catalog0[p].grants = 1)
  /\ IsFiniteSet(Packs) /\ Packs # {} /\ None \notin ShopRow /\ None \notin Nat
\* None is no plan, and what is played with are options of a dub.
ASSUME FormAssumption ==
  /\ FormChanges \in Nat /\ None \notin {"FREE", "STUDIO"}
  /\ Played \subseteq {"studio", "language", "voice", "reference", "background", "lipsync", "subtitles"}
ASSUME TourAssumption == LastDay \in Nat /\ PageLoads \in Nat /\ None \notin {"running", "over"}
ASSUME ShelfAssumption == None \notin Shelved /\ ShelfChanges \in Nat
\* None is no row of a table.
ASSUME ScriptAssumption ==
  /\ None \notin [link : {None, "seed", "own"}, variant : DOMAIN RowKind \cup {None}, terms : {"seed", "own"},
                  active : BOOLEAN]
  /\ RowKind \in [DOMAIN RowKind -> {"account", "plan", "pack", "language"}]
  /\ ScriptOrder \in Seq(DOMAIN RowKind) /\ ScriptOrder # <<>>
\* None is no variant, nothing that is being saved and no order.
ASSUME PanelAssumption ==
  /\ PanelChanges \in Nat /\ None \notin Products
  /\ None \notin [row : SoldPlans \cup SoldPacks, variant : Products \cup {None}, new : BOOLEAN, late : BOOLEAN]
  /\ None \notin [row : SoldPlans \cup SoldPacks, variant : Products, got : SoldPlans \cup SoldPacks \cup {None},
                  moved : BOOLEAN]
\* The sizes of stt_gigaam.py leave room around a cut for where it is looked for, and a loop is
\* of two lines or more.
ASSUME EarAssumption ==
  /\ Aim \in Nat /\ Longest \in Nat /\ Nearby \in Nat /\ LoopLength \in Nat \ {0, 1}
  /\ 3 * Aim >= 8 * Nearby + 7 /\ 7 * Aim >= 20 * Nearby + 14 /\ 5 * Aim + 8 * Nearby + 4 <= 4 * Longest
  /\ SpeechSpans \subseteq Nat \ {0} /\ MaxStretches \in Nat \ {0} /\ None \notin UserLanguages
  /\ None \notin UNION {[1 .. n -> SpeechSpans] : n \in 0 .. MaxStretches}
ASSUME GatesAssumption == PlanChanges \in Nat
\* No account and no request goes by None, and each account starts with an address.
ASSUME LogAssumption ==
  /\ None \notin People \cup Addresses /\ Addressed \in [People -> Addresses]
  /\ AdminTable \in [People -> Addresses \cup {None}]

ShopVars == <<catalog, keyed, sub, plans, packs, mine, cycle, asked, left, canceling, open, moves>>
FormVars == <<who, plan, known, wallet, lips, form, replay, formPlans, run, formMoves>>
TourVars == <<tourSeen, registered, born, day, pages, tourLeft, page>>
ReportVars == <<reportAt, opts, reportText, reportSaid, voice, silent, real, reportKept, issues, panel>>
ShelfVars == <<work, filter, sort, view, wide, selected, drawer, overflow, menu, opened, shelfMoves>>
ScriptVars == <<row, scriptAsked, scriptAt, scriptSeen, word, runs, scriptEdits>>
PanelVars == <<sold, link, made, gone, edit, order, raced, panelEdits>>
GatesVars == <<tier, wants, gatesStep, refusal, refused, changes>>
LogVars == <<email, held, req, rows, feed, names>>
EarVars == <<phase, source, giga, engine, detected, regions, piece, heard, earKept>>
WordsVars == <<wordsStep, wordsText, wordsAt, suspects, translated, revised, mood, wordsSaid, edited, voiced>>
allVars == <<active, ShopVars, FormVars, TourVars, ReportVars, ShelfVars, ScriptVars, PanelVars, GatesVars, LogVars, EarVars, WordsVars>>

HarnessInit ==
  /\ active \in {"plans", "form", "guide", "report", "works", "seeding", "catalog", "gates", "audit", "recognise", "wording"}
  /\ IF active = "plans" THEN TRUE ELSE keyed = TRUE /\ sub = None
  /\ Init
  /\ IF active = "form" THEN TRUE ELSE plan = [a \in FormUsers |-> [tier |-> "FREE", late |-> FALSE]] /\ lips = FALSE
  /\ Form!Init
  /\ Tour!Init
  /\ IF active = "report" THEN TRUE ELSE opts = CHOOSE o \in Report!Options : TRUE
  /\ Report!Init
  /\ IF active = "works" THEN TRUE ELSE work = [w \in Shelved |-> None]
  /\ Shelf!Init
  /\ IF active = "seeding" THEN TRUE ELSE scriptAsked = FALSE
  /\ Script!Init
  /\ IF active = "catalog" THEN TRUE ELSE made = SoldPlans
  /\ Panel!Init
  /\ IF active = "gates" THEN TRUE ELSE wants = {}
  /\ Gates!Init
  /\ Log!Init
  /\ IF active = "recognise" THEN TRUE ELSE source = "auto" /\ giga = FALSE
  /\ Ear!Init
  /\ Words!Init

ShopMoves ==
  /\ active = "plans" /\ Next
  /\ UNCHANGED <<active, FormVars, TourVars, ReportVars, ShelfVars, ScriptVars, PanelVars, GatesVars, LogVars, EarVars, WordsVars>>
FormMoves ==
  /\ active = "form" /\ Form!Next
  /\ UNCHANGED <<active, ShopVars, TourVars, ReportVars, ShelfVars, ScriptVars, PanelVars, GatesVars, LogVars, EarVars, WordsVars>>
TourMoves ==
  /\ active = "guide" /\ Tour!Next
  /\ UNCHANGED <<active, ShopVars, FormVars, ReportVars, ShelfVars, ScriptVars, PanelVars, GatesVars, LogVars, EarVars, WordsVars>>
ReportMoves ==
  /\ active = "report" /\ Report!Next
  /\ UNCHANGED <<active, ShopVars, FormVars, TourVars, ShelfVars, ScriptVars, PanelVars, GatesVars, LogVars, EarVars, WordsVars>>
ShelfMoves ==
  /\ active = "works" /\ Shelf!Next
  /\ UNCHANGED <<active, ShopVars, FormVars, TourVars, ReportVars, ScriptVars, PanelVars, GatesVars, LogVars, EarVars, WordsVars>>
ScriptMoves ==
  /\ active = "seeding" /\ Script!Next
  /\ UNCHANGED <<active, ShopVars, FormVars, TourVars, ReportVars, ShelfVars, PanelVars, GatesVars, LogVars, EarVars, WordsVars>>
PanelMoves ==
  /\ active = "catalog" /\ Panel!Next
  /\ UNCHANGED <<active, ShopVars, FormVars, TourVars, ReportVars, ShelfVars, ScriptVars, GatesVars, LogVars, EarVars, WordsVars>>
GatesMoves ==
  /\ active = "gates" /\ Gates!Next
  /\ UNCHANGED <<active, ShopVars, FormVars, TourVars, ReportVars, ShelfVars, ScriptVars, PanelVars, LogVars, EarVars, WordsVars>>
LogMoves ==
  /\ active = "audit" /\ Log!Next
  /\ UNCHANGED <<active, ShopVars, FormVars, TourVars, ReportVars, ShelfVars, ScriptVars, PanelVars, GatesVars, EarVars, WordsVars>>
EarMoves ==
  /\ active = "recognise" /\ Ear!Next
  /\ UNCHANGED <<active, ShopVars, FormVars, TourVars, ReportVars, ShelfVars, ScriptVars, PanelVars, GatesVars, LogVars, WordsVars>>
WordsMoves ==
  /\ active = "wording" /\ Words!Next
  /\ UNCHANGED <<active, ShopVars, FormVars, TourVars, ReportVars, ShelfVars, ScriptVars, PanelVars, GatesVars, LogVars, EarVars>>

HarnessNext == ShopMoves \/ FormMoves \/ TourMoves \/ ReportMoves \/ ShelfMoves \/ ScriptMoves \/ PanelMoves \/ GatesMoves \/ LogMoves \/ EarMoves \/ WordsMoves
HarnessSpec == HarnessInit /\ [][HarnessNext]_allVars


\* The dubbing form and the works page do what they show: nothing is sent that the form
\* does not show or the plan refuses, a replayed dub keeps its settings, and a drawer is
\* open only on the dub its user opened (Studio.tsx:237-238, MyWorks.tsx:97).
FormsKept == Form!NeverSent /\ Form!ReplayKeeps /\ Shelf!OpenedByUser
\* What the customer is told is so: a report names what the dub lacks and nothing it does
\* not lack, an upgrade that is offered helps, a tour that was left is not due again, and
\* a tool is shown for a clip that is there or a run that is on screen
\* (orchestrator.py:527-529, plan-features.ts:157-177, 216-229, onboarding.ts:18-19,
\* Studio.tsx:759-770).
ToldTheTruth == /\ Report!TellsTheTruth /\ Report!MissingTold /\ Gates!UpgradeHelps
                /\ Tour!SkippingSticks /\ Tour!ToolsHaveClip
\* What is sold and written down is right: a checkout is of what the page showed, an order
\* credits what was sold, the script keeps what the panel decided, and a row of the audit
\* log that is labelled, by what the answer says or by what is looked up in the table the
\* route acted on, names what was acted on (Plans.tsx:91, admin-billing.service.ts:104-105,
\* 359-361, seed.ts:134-141, 184-190, 278-280, audit.target.ts:9-29, 72-78).
RecordsRight == SoldAsShown /\ Panel!CreditsWhatWasSold /\ Script!PanelKept /\ Log!RowsNameTheTarget
\* The words of a dub are right: the lines kept are those heard less the loops of the
\* recogniser, the pieces of its speech are ones it can take, repairs only improve, and a
\* delivery once chosen lasts from voicing to voicing (stt.py:203-262, stt_gigaam.py:55-72,
\* 186-211, refine.py:13-16, emotion.py:152-154).
WordsRight == /\ Ear!NoLoops /\ Ear!PiecesFit
              /\ Words!RepairOnlyImproves /\ Words!DeliveryKept
\* The state of the component that moves has its type.
StatesOK == CASE active = "plans" -> TypeOK
              [] active = "form" -> Form!TypeOK
              [] active = "guide" -> Tour!TypeOK
              [] active = "report" -> Report!TypeOK
              [] active = "works" -> Shelf!TypeOK
              [] active = "seeding" -> Script!TypeOK
              [] active = "catalog" -> Panel!TypeOK
              [] active = "gates" -> Gates!TypeOK
              [] active = "audit" -> Log!TypeOK
              [] active = "recognise" -> Ear!TypeOK
              [] active = "wording" -> Words!TypeOK

=============================================================================
