# TH Labs: formal models

TH Labs dubs videos. A visitor registers with the account API (`src/api`,
NestJS over Postgres), buys tokens (the code says credits) through Lemon
Squeezy (LS), and has the studio backend (`src/backend`, FastAPI) dub a clip; the
backend asks the account API what the balance covers and charges it before any
work is done. The web client (`src/frontend`) follows the job, keeps a library of
dubs, and opens a finished one in a speech editor or a video editor. This directory
holds TLA+ models of these parts, the TLC configurations that check them, and
TLAPS proofs about them.

Paths are relative to the repository. `PS` is
`src/api/src/payment/payment.service.ts`, `CR` `payment.cron.ts` and `LS:`
`lemonsqueezy.service.ts` beside it. `PROJECT.json` maps every definition to the
lines it models.

To check: `tlc -config X.cfg M` for each run in `PROJECT.json`; `tlapm` on
`CreditLedgerProofs`, `OrderClaimsProofs`, `SubscriptionsProofs`, `DubJobsProofs`
(also of `Tariff`), and on the proofs of the four groups of section 3: `PagesProofs`,
`EditorsProofs`, `LibraryProofs`, `DeskProofs` (a quarter of an hour each at most).

## 1. Inventory

| component | state | operations | hard part | correct when |
|---|---|---|---|---|
| credit ledger, `PS`, `users.service.ts`, `prisma.service.ts` | `User.credits`, `CreditEntry`, `Payment` | register, delete, grant, commitDub | concurrent charges at READ COMMITTED; retried transactions; a lost COMMIT answer | balance = sum of rows, never negative; one row per request; receipts pay once |
| order claiming, `PS`, `LS:`, `CR` | `Payment`, `Subscription`, the store id's memo | success page, webhook, every-minute sweep; plan and pack grants | three claimers of one order; LS outages; restart; the cancel after the COMMIT | every paid order credited once, and eventually |
| subscription lifecycle, `PS`, `CR` | the `Subscription` row, LS's own subscription | renewal sync, drip, expiry, cancel | every read-then-write by row id across LS calls; a plan switch under way | allocations never exceed what was paid; renewals in order; the period covers what was paid |
| tariff, `quality-cost.ts`, `canDub` | none | cost, affordable seconds, quote | rounding up and down | the quote can be charged; the cut is tight |
| job admission, `backend/app/main.py`, `billing.py`, `media.py` | request in flight, credits | create_job, revoice_job | gate, cut and charge are three steps; answers get lost | only what was paid for runs |
| worker and stream, `backend/app/jobs.py`; `frontend/src/lib/api.ts` | jobs, queue, worker, subscribers; what a page shows | create, run, emit, subscribe; follow, poll | a job ending between snapshot and events; a broken stream; restart | one job at a time; what is shown never goes back; the end is told |
| sessions, `api/src/auth`, `lib/http.ts`, `lib/auth.tsx` | `RefreshToken`, `HandoffCode`, the tab's token | login, rotate, revoke, handoff, refresh | reuse detection against concurrent refreshes; single use | a code opens one session; nobody is signed out by refreshing |
| studio page, `pages/Studio.tsx` | the chosen source, its quote, the run followed | choose, probe, start, follow, record | answers for a source that is no longer chosen | what is sent is what was quoted; a result reaches the library |
| options, tour, report (Studio) | form, step deck, tour, issues | plan gates in the form, steps, panels | a plan that loads late, a stored form, a layout that moves | nothing is asked that the plan forbids; reports are true |
| buying, `Plans.tsx`, `PlansSuccess.tsx`, `wallet.tsx` | checkout mark, the wallet shown | checkout, return, claim, refresh | claims of several tabs against late orders | "credited" is said of what is credited, and the balance asked for then counts it |
| catalog and seeding, `admin-billing.service.ts`, `prisma/seed.ts` | `Plan`, `CreditPack` | attach, change, delete; seed at deploy | a check over two tables, then a write to one | an order credits what was sold |
| plan gates, `plan-features.ts` | none | effective tier, gate, upgrade offered | ties between the table and the offer | the offered plan helps |
| works, `works.service.ts`, `works.tsx`; `MyWorks.tsx` | `Work`, a local list; the drawer | save, list, sync, remove | local and server copies, late lists, two tabs, sign-out | what was stored is not lost; "saved" is so |
| video editor, `api/src/editor`, `VideoEditor.tsx` | `EditorProject`, files, renders; timeline and undo on the page | edit, upload, save, render | a queue that exports and deletion do not take; debounced saves | no upload lost; clips have files; what is shown as saved is stored |
| speech editor, `api/src/speech-edit`, `SpeechEditor.tsx` | `SpeechEdit` versions; drafts | apply, list, undo; voice, splice | check then create across awaits; deadlines of calls under way | one active edit; versions build on one another; a line is paid once |
| text to speech, `backend/app/speech.py`, its page | tasks in memory | start, run, poll | rendered before it is charged | what is served was paid |
| pipeline, `backend/app/pipeline` | the job's stages and transcript | recognise, translate, place, voice, mix, mux | engines that fail and fall back; lines that do not fit | one voice at a time, in sync; failures are told |
| audit, `api/src/audit` | `AuditLog` | label before, label after | accounts renamed or deleted meanwhile | a label is of whom it was done to |
| admin, community, feedback, languages, price tokens, mail, health | single rows | CRUD | - | - |
| other pages, thumbnails, deployment, promo, docs | - | - | - | - |

How they interact: the backend calls the account API (`can-dub`, `commit-dub`)
with the user's own token; the account API asks LS and is poked by its
webhooks; crons of the account API share its database with requests; pages poll
or stream from the backend and call the account API. Nobody holds a lock across
any of these calls: what keeps the parts together are UNIQUE columns, guarded
updates, in-process queues and retries.

## 2. Plan

Done: the five modules about money and jobs (`CreditLedger`, `OrderClaims` with
the abstract `Payout`, `Subscriptions`, `DubJobs`, `Tariff`) and the pages, editors,
library and desk of section 3 are modelled and checked; every safety property that a
passing run checks is proved (section 6).

Next, in this order, as theorems: in `Subscriptions`, that a credited renewal never
moves the row's period back within one subscription; in `DubJobs`, that a page that
shows an end shows the job's own. In the models: two subtitles' jobs of one
project at once (Voicing has one), and a second account in the run of Works,
which the proof covers and the run does not.

Each module declares its parameters as CONSTANTS with a named ASSUME, has one
action per operation, and avoids RECURSIVE.

## 3. The modules

A definition whose comment starts with "Variant" is the next definition with
one plausible mistake in it. No specification uses it; substituting it must
make a property fail, which is how each property is shown to say something
about the code.

### CreditLedger

`credits` is `User.credits`, `ledger` the account's `CreditEntry` rows in commit
order, `payments` the receipts with a `Payment` row, `call` what each
`POST /payments/commit-dub` has done. `MoveCredits` is `applyCredits`.
`GrantReceipt` is the money part of the three grants: their `payment.create`
has a UNIQUE order or invoice id and shares their transaction, so it is one
step. `commitDub` is three (`FindExisting`, `FindUser`, then `ReplyExisting`,
`WriteMarker`, `Charge` or `RefuseShort`): at READ COMMITTED other transactions
commit between its statements, and the guarded `updateMany` is atomic with the
COMMIT because it holds the row lock. `Rollback` and `LoseAck` are the two ways
a transient code comes about, before the COMMIT or after it;
`PrismaService.transaction` runs the body again either way.
Left out: the plan gate's reason for a refusal, the admin's manual grant (the
same `applyCredits`), `spendCredits` (nobody calls it).

### OrderClaims and Payout

Lemon Squeezy (`order`, `lsSub`), the catalog (`attached`), the database
(`payments`, `grants`, `subs`), the service's memory (`store`, `claim`).
A claimer is a page, a webhook delivery (both `Begin`) or the sweep. A claim is
`List`, `ReadKnown`, then `Take` in order of creation, and for each order the
grant's transaction: `FindSub`, `Upsert` (row locks), `Grant` or `Conflict`
(the UNIQUE order id), `Transient`, `Acknowledge`, `CancelOld`. A pack's grant
needs only its last step. `StoreFails` is what a failed `getStoreId` leaves.
Approximations: rows are ordered by commit, the code orders by `createdAt`,
which differs only for rows of overlapping transactions; orders created before
the account are as if they were another account's; the receipt mail and
`rememberCustomer` (which swallows its errors) are left out.

`Payout` is the promise: an order is paid out at most once, after its payment
was confirmed, never taken back. `OrderClaims` implements it with `confirmed`
read as the orders LS calls paid or refunded and `paid` as those with a Payment row.

### Subscriptions

One account's row (`row`), LS's subscriptions and their renewal invoices (`ls`,
`invoices`), the renewals credited (`payments`), and a clock. `sync` holds each
`syncRenewals` under way (webhooks' and the cron's), `drip` each overlapping `grantDueSubscriptions`: `Load`, `FetchStatus`,
`FetchInvoices`, `ReadKnown`, `GrantRenewal`/`Conflict` oldest first,
`ApplyRead`, `ApplyWrite`. `DripRead`/`DripWrite`, `ExpireRead`/`ExpireWrite` and
`CancelRead`/`CancelAtLs`/`CancelWrite` are the other jobs, each split where the
code awaits. `Repoint` is a plan order's grant (OrderClaims) seen from here.
`alloc` and `period` are history: allocations per paid period, and the period
the row stands for. Approximations: the row is the account's only one, so
CANCELED is absent; LS bills within one period of `renewsAt`; the
hourly job's look one hour ahead is below the clock's unit; portal resume and
portal plan changes are left out; `unpaid` is one with `past_due`.

### DubJobs

`request` is a `create_job` in flight, cut at its awaits: `Fetch`, `Preflight`
(can-dub), `Cut` (trim_to_seconds), `Charge` or `Unheard` (commit-dub),
`Create`. `job`, `pending` and `workers` are JobManager's; `Start`, `Progress` and
`Finish` the worker's steps, with the event each emits; `page` is a browser
following a job by stream (`Subscribe`, `Snapshot`, `Receive`, `Drop`) and polling
(`Poll`). `Restart` loses everything in memory and cuts requests off. Lengths are in
milliseconds and priced by `Tariff`, which DubJobs extends; `Frame` is how much
longer a cut may be than what was asked for. The charge is one step here
(CreditLedger shows what makes it one). Left out: the mode without an account
API, keep-alives, ownership (one user).

### Tariff

The arithmetic of `quality-cost.ts` and of `canDub`'s quote on integers:
milliseconds and credits. No state and no constants: operators that `DubJobs`, `PlansPage` and the
gates compute with. `DubJobs` states what a quote is worth (`QuoteIsRight`) over the
inputs in `Balances` and `Clips`; the proof is in DubJobsProofs. The code
computes with doubles: a product `seconds * rate / 60` that is an integer is
computed exactly for the lengths in question, and one that is not is at least
1/6000 away from the nearest integer, so the roundings agree.

### The pages (MCPages)

- **Sessions** - rotating refresh tokens with the reuse alarm, single-use handoff
  codes, and pages that share a browser's cookie but not the promise of a refresh.
  `excused` are the tokens that may legally be seen twice (an answer was lost, they
  had expired, they were signed out); `NoFalseAlarm` says the alarm rings for no other.
- **Studio** - choice of a file, a link or a dub, the probe and the quote that answer
  for it later, the Start click with its upload, following the run, its record.
- **Speech** - `speech.py` with its page: estimate, render by the first engine that
  manages, write, then charge. `Commit` is the backend's call to the ledger.
- **Buying** - the mark a checkout leaves in the browser, the order becoming paid, the
  claims of the success page and of every tab, and the balance shown, over a clock. A page
  is `warm` once it has a balance: `Invalidate` asks for it anew and drops what was on its
  way, as TanStack Query does, but leaves the first request of a cold page alone, whose
  answer may be from before the claim. `ToldIsCredited` promises the balance where it is
  asked for `anew`.
- **Spotlight** - the tour's hole and card, placed by the last measurement of an
  element that moves, in a window that changes.

The proofs of all five are in PagesProofs, those of the next three groups in
EditorsProofs, LibraryProofs and DeskProofs.

### The editors (MCEditors)

- **SpeechEdits** - versions of one finished dub: check that none is active, create,
  make in the background; pages that ask, watch and undo; a restart.
- **Voicing** - the server's calls while it makes one version, or subtitles of an editor
  project: extract, voice line by line with a deadline each, pay, splice, clean up.
- **EditorPage** - the timeline on screen with its undo history, the debounced
  autosave, a drag, an export being followed. A drag may be cancelled by the browser: it
  then neither moves nor ends, and the next one takes `drag.current` over. What it had
  moved is `loose` until some change is committed, and excused by `NothingForgotten`.
- **EditorProject** - the project's row, its files on disk, its exports. Saves, uploads
  and removals go through the in-process queue as a read and a later write; exports
  and deletion do not. The database may fail any write; where the code drops the error (the
  end of an export, the sweep of a start) the row says running, and `unwritten` says so.

### The library (MCLibrary)

- **Placement** - `timeline.py`: the slot of each line (`SlotBudget`), the cut at a silence
  (`CutTo`), `place` and `write_without_overlap` (`Written`, `Kept`) as functions of the lines,
  and one action that lays the next line.
- **Pipeline** - the stages of `orchestrator.py`; which engine is there and whether
  it manages is a choice at every step; the same dub voiced again.
- **Splice** - `edits.ts`: what is silenced and where new speech goes, over slots of time.
  The dub it starts from (`Firsts`) is any the pipeline may have made: a line runs past the
  next one's start, is said early in a merged chunk, or is not heard.
- **Works** - the library's rows and every tab's mirror of them. Tabs of one browser share
  its storage and write over one another; a list that was not drawn yet is not seen by the
  answer that is merged; a browser may refuse to store. `kept` is what is promised: what a
  tab has drawn and stored.
- **Timeline** - placing, moving, trimming, cutting clips on the page and the API's check.
  A file may be shorter than the shortest clip, and a clip moved past the three hours of a
  project (`MaxTime`): those the API refuses, and `FilesAreStored` speaks of the others.
- **LineEditor** - the speech editor's drafts over the newest version it has heard of.

### The desk (MCDesk)

- **PlansPage** - the cards as functions of a catalog that changes after it was read,
  the estimate, checkouts. **PlanGates** - the gates over the plans' feature
  table (in Tariff) and the plan a refusal names; **DubForm** keeps a dub's options in it.
- **Guide** - the step deck and the tour, with a start that waits for its gate (`asking`)
  and its upload (`sending`) while the page goes on; **DubReport** - what is read out of a
  job's stages and shown; **WorksPage** - filters, drawer and player of the library's page.
- **Seeding** - the deploy script, row by row and cut anywhere; **Catalog** - the panel's
  attach and delete beside checkouts, by two admins; `raced` are the variants that both
  were attaching at once; **Audit** - the label before and after a request, by the users'
  routes or by the admins', whose labels are looked up in a table of their own (`Elsewhere`).
- **Recognise** - pieces for the recogniser, repeated phrases dropped; **Wording** -
  translations in batches, repaired, with the delivery of each line: one that was chosen,
  or calm where none was.

Every module's head comment says what it leaves out. A helper whose lines lie within
those of the definitions that use it has no entry of its own in the map.

## 4. What each run checks

Runs named after a group check several components that share nothing. Their MC
module (MCPages, MCEditors, MCLibrary, MCDesk, MCBilling) holds all their variables;
which component (in MCBilling, which scene) a behaviour is of is chosen in the
initial state, the others stay as they began, and fair actions of those are not
required. A run's property such as `PaidAndTold` is the conjunction of properties
of its components, each stated and commented in its module. `StatesOK` is the type
invariant of the component that moves. The modules about money and jobs are run
as they are (`OrderClaims`, `DubJobs`), or by MCCreditLedger and MCBilling.

| run | checks | bounds |
|---|---|---|
| `ledger` | `NeverNegative`, `LedgerAccounts` (the balance is the rows' total, rows carry it), `PaidOnce` (a receipt or a request writes once), `AnswerMatchesLedger` | one account, three calls (two of one job, one free), a receipt, two attempts: the least with a rival charge, a rival grant and a retry |
| `claims` | `GrantedOnce`, `RowsArePaid`, `LiveIsBilled`, refinement `PaysOut` | two plan orders of one account, one of the plans attached later; page and sweep, two attempts, a refund, a restart |
| `billing` | liveness `PaidMeansCredited`: `PaidIsCredited` of OrderClaims (a plan and a pack, the sweep alone, a restart), `RenewalCredited` of Subscriptions (one LS subscription) | two attempts; four ticks |
| `subscriptions` | `AllocationsBounded`, `RenewalsInOrder`, `PaidThrough` | a period of two ticks, an allocation each tick; four ticks with a webhook's and the cron's sync (two renewals, a lapse, a grace), three with a drip, fewer with two LS subscriptions and two overlapping drips (symmetric) |
| `dub_jobs` | `PaidForWhatRuns`, `OneAtATime`, `QuoteIsRight`, `FollowedToTheEnd` (what a page shows never goes back, and it is told the end) | a 3 s clip at Studio and a 12 s clip at Fast, 3 credits (2 each for both), a correction, a page, a restart: one clip is cut, to what is left, or refused; the tariff at two balances and two clips about a boundary |
| `pages` | `SessionsKept`, `SameClip`, `CardBesideHole`, `PaidAndTold`, liveness `WaitsEnd` | two browsers with a tab each, two calls, a code, four tokens, two refreshes; two files; two scripts; two tabs and an order |
| `editors` | `EditingKept`, `CorrectionsKept`, liveness `EditingEnds` | two pages, two files, three queued requests, two exports, three versions, one restart, two changes of a timeline with two saves |
| `library` | `WorksKept`, `OneVoiceAtATime`, `LinesAreHeard`, `SoundRight`, `ArrangedAsShown`, `DoneAsShown` | three lines at any of five times and four lengths; one account with a dub and two tabs, of one browser or of two, one save and one list under way at a time; two languages' worth of engines failing; two versions of spliced slots; a film, a sound and a click too short for a clip; symmetric in the tabs |
| `desk` | `EstimateCovers`, `FormsKept`, `ToldTheTruth`, `RecordsRight`, `WordsRight` | one move of the catalog and one checkout, the PRO plan in its two cycles and two packs; 1.5 minutes to an hour of estimate; two deploys; two admins with three edits; two renames |

Bounds that are not instance sizes are constants of the modules: `MaxAttempts`
(3 in the code; 2 already has a retry and an exhausted one), `MaxRestarts`,
`MaxTime` (the clock stops, nothing else does), `MaxVersion` and `MaxVersions`
(states of a job a page can tell apart, versions of a dub), `MaxMoves`, `MaxAsked`,
`MaxLines`. `CHECK_DEADLOCK FALSE` everywhere: every order settled, every dub
ended, every page closed is a state where the system has nothing to do.

Runs that end in a counterexample. Each checks one sentence of the code's own
comments, and its trace is a behaviour of the code:

| run | sentence | trace |
|---|---|---|
| `job_charged_once` | "Idempotent on jobId ... never charges twice" (`PS:1241`) | two requests of one job pass the lookup together |
| `store_lookup` | "nothing paid is left uncredited" (`PS:559`) | a rejected promise is memoized; no store id configured |
| `two_tabs` | sharing one promise makes it impossible to be signed out by refreshing (`lib/http.ts:82`) | two tabs share the cookie, not the promise |

Other sentences the models contradict. Each is a definition of its module that no
run checks; adding it to a run of that module shows the trace:

| definition | sentence | trace |
|---|---|---|
| `CreditLedger!EveryRowRunning` | each row's running balance is consistent (`PS:1516`) | a zero-length dub's marker row with a balance read before a grant committed |
| `OrderClaims!OneLiveSubscription` | "One live subscription per user" (`PS:714`) | two first plan orders, both find no row |
| `OrderClaims!ReplacedIsStopped` | cancelled, or "logged for support" (`PS:805`) | a lost COMMIT answer turns into a skipped conflict |
| `OrderClaims!NewerPlanIsCurrent` | "the newer one ends up current" (`PS:395`) | two claims share the orders |
| `OrderClaims!AttachedIsCredited` | "the next claim or cron run will credit it" (`PS:427`) | a variant attached after the three-day window |
| `Subscriptions!CancelledStopsBilling` | a row marked cancelled while LS bills is ruled out (`PS:1451`) | a plan order re-points the row during the LS call |
| `Subscriptions!RenewedIsLive` | the sync "reactivates the row instead of racing it" (`CR:108`) | a webhook's renewal between the expiry's read and write |
| `Subscriptions!RowBillsItsPlan` | the row keeps the plan it bills (`PS:395`) | a renewal of a replaced subscription, read before the switch, credited after it, writes its own plan and end |
| `DubJobs!NothingHalfPaid` | "nothing half-paid to clean up" (`main.py:314`) | commit-dub's answer is lost, or the backend restarts after it |
| `DubJobs!StreamTellsTheEnd` | "stream updates until the job ends" (`jobs.py:170`) | the job ends while the snapshot is sent; made good by the page (`PageIsTold`) |
| `DubJobs!RevoicesFinished`, `Wording!RevoicesFinished` | "Re-voice a finished job" (`main.py:373`) | a running job with a transcript |
| `DubJobs!RefusalBuysNothing` | "A refusal means the balance buys nothing at all" (`billing.py:20`) | with one dub: a cut one frame long at the boundary |
| `DubJobs!TrimmedIsShort` | a balance that "cannot cover the whole video" is trimmed (`quality-cost.ts:68`) | with `Clips` holding 1001: 1.001 s at Studio with 1 credit |
| `Sessions!AlarmEndsSessions` | the alarm revokes every token of the account (`refresh-token.service.ts:11`) | a rotation between its check and its issue still issues one |
| `Studio!ResultIsRecorded` (`Studio.tsx:551`), `OneStart` | a dub ends up in the library; one click, one job | nothing else asks for a job, so one the user walked away from stays "Running"; a second click is let through while the first waits for the gate, and both are charged |
| `Speech!FailedCostsNothing` (`speech.py:16`), `NeverStuck` | "So a failed render costs nothing"; a lost task is told | a charge whose answer is lost is reported as failed; a tab that lost a poll shows the task as running for good |
| `SpeechEdits!DraftsKept` | drafts are dropped once they are in a version (`SpeechEditor.tsx:224`) | the page asks how the newest edit ended, which may be another page's |
| `EditorProject!ExportsAlwaysSettle` | ".catch(() => undefined); // deleted mid-render" (`editor.service.ts:541`) | whatever else fails that write is dropped too: the project is exporting until it is exported again or the API restarts and its sweep is written |
| `EditorProject!OneExport`, `OnlyNewestExport` | one export at a time (`editor.service.ts:468`); "Keep the newest export only" (`:513`) | the check and the mark are two awaits apart; a failed or concurrent export leaves files nothing names |
| `EditorPage!DragsAreKept` | "All changes saved" (`VideoEditor.tsx:661`) | a touch drag the browser cancels is never dropped: what it moved stays on screen, uncommitted |
| `EditorPage!ExportIsTold` | "keep the last state; the next tick retries" (`VideoEditor.tsx:814`) | no tick follows |
| `EditorPage!ChangesArrive`, `SavedIsStored` | changes reach the API, "Saved" is true (`VideoEditor.tsx:296`) | leaving within the debounce drops the change and a failed save is not retried; a failed save is covered by an earlier one's answer, or an overtaken one wins |
| `Timeline!EditsAreStored` | what the page allows the API stores (`VideoEditor.tsx:505`) | a sound lands on the subtitles' track; a subtitle shorter than the API takes |
| `Works!EveryWorkIsKept` | the browser holds "anything not yet saved" (`works.tsx:13`) | another tab of the browser stores its list over it; a list that arrives before a new record is drawn is shown without it |
| `Works!OwnWorksOnly` | "never writes one account's list under the other's key" (`works.tsx:200`) | a list asked for before the change of account is merged after it |
| `Works!SavedStaysShown`, `RemovedStaysRemoved` | what is shown is what the account has (`works.tsx:155`) | a record sent before the list was asked for does not stay; a save under way brings a removed dub back, and so does a lost removal |
| `Splice!OldSpeechIsGone` | "that window holds this line and nothing else" (`edits.ts:10`) | the first dub said the line past its window, or a neighbour in it |
| `Buying!ToldIsCounted` | "the wallet pill, the Plans page and My Works all read the balance" (`PlansSuccess.tsx:57`) | the first balance of a page was asked for before the claim, and is not asked for again |
| `Catalog!OneVariantOneThing` | "One variant sells exactly one thing" (`admin-billing.service.ts:100`) | two admins attach it at once |
| `Audit!RowsNameItNow` | the row names what was acted on | the label read before the request may have changed; a DELETE's answer does not say |
| `Audit!AdminsAreNamed` | a deletion's row says whose it was, "where the email matters most" (`audit.target.ts:17-21`) | an admin's account is looked up in the table `Admin`, under another record's number or none |
| `DubForm!BadgeAgrees` | the form's badges agree with the gate (`PS:1347`) | the wallet counts an overdue plan as Free, the gate not until the grace is over |
| `DubForm!KeepsBackground` | options of a plan survive | features kept from the user before clear an option that this plan has |
| `Seeding!TravelTogether`, `VariantsApart` | link and variant "travel together" (`seed.ts:18`) | they are filled one by one; a plan is given a variant that a pack was given meanwhile |
| `Seeding!PanelWins` | the panel has the last word (`seed.ts:30`) | the next deploy fills a link that was cleared, and turns the plan on |
| `DubReport!NoProblemsIsTrue` | "no problems" is said of a dub without (`IssuesPanel.tsx:54`) | it is said before anything was told; a placeholder tone has no issue |
| `DubReport!TroublesTold`, `ExactLines` | troubles are told, by line (`IssuesPanel.tsx:7`) | a skipped clone, a lost background and a failed lip sync leave no message; lines that could not be voiced are not named |
| `Pipeline!ClonedAsSaid` (`orchestrator.py:112`), `RevoicedAlike` (`:174`) | a dub that says it has the speaker's voice has it; a dub voiced again is made as the first time | OmniVoice clones with the reference's words and says so with the reference alone; the second run has no sound to cut a reference from |
| `Pipeline!SimulatedIsSaid`, `SubtitlesUndoNothing` (`:724`), `SomethingIsVoiced` (`tts_edge.py:117`) | "UI flags simulation mode" (`nmt.py`); "nothing here can undo it"; what counts as voiced is heard | a recogniser that worked before a translator that did not; a disk that is full after the dub was written; OmniVoice counts as voiced when it dropped every line |
| `WorksPage!PairIsOffered`, `SideStartsAnew`, `Unlocked` | the filter shows what it filters by (`MyWorks.tsx:65`); the highlight follows playback (`:729`); the page scrolls once no drawer is open | the language of a pair that was chosen is heard; the time is kept over a change of side; two drawers put back what they found |
| `PlansPage!FiveFreeMinutes`, `CoveredByPack`, `MissingIsDisabled` | "enough for the five free minutes" (`Plans.tsx:175`); "Covered by" (`:786`); a plan that cannot be bought is explained (`:317`) | 20 tokens on the page, 100 at the server; the largest pack stands in for one that covers; the button stays |
| `PlansPage!OnlyFreeIsFree`, `NotOfferedTwice` | "Free" is the free plan; one's own plan is not for sale | a plan without a row; a subscription that is loading or overdue |
| `Guide!NeverAgain`, `BackLeads`, `PanelIsThere` | skipped, "it sticks" (`onboarding.ts:18`); Back leads to the picker (`Studio.tsx:736`); a step's panel is there (`TourOverlay.tsx:4`) | the guide is opened by hand and left within the delay of the tour that is due; a run that is over keeps the page at the tools; a tool's step while the page is at the picker |
| `Guide!RunHasClip` | "While a dub runs or is on screen, the clip is fixed" (`Studio.tsx:769`) | it is taken away while the start waits for its gate or its upload |
| `Wording!DeliveryLasts` | presets are "what the first dub used" (`emotion.py:153`) | a line said calm because choosing failed is given a delivery when it is voiced again |
| `Wording!RevisedOnce` | a line is revised once | a line that another batch answers for is counted twice |

Seen while reading, too small for a definition: GigaAM treats an empty VAD answer
like no VAD (`stt_gigaam.py:231`); the claim's answer for one checkout clears the
next one's mark (`queries.ts:271`); the success page may report an older purchase
as "already" credited (`PlansSuccess.tsx:62`); a failed edit's voiced lines are
charged again by its retry (`speech-edit.service.ts`); a request refused by a guard
gets no audit row (`audit.interceptor.ts:84`); below 272 px the tour's card is drawn
narrower than it was placed (`TourOverlay.tsx`).

## 5. Fairness

Timers fire, promises that are answered continue, and a page polls while it is
open; users, LS, engines and networks owe nothing.

- `PaidIsCredited`: the cron ticks every minute for as long as the API runs and
  its steps are taken (weak fairness of `Sweeping`, of a started claim's steps).
  LS and the database fail at any moment but not for ever: what the sweep asks
  again and again succeeds some time (strong fairness of `SweepList`, and of the
  sweep's `List`, `FetchSub`, `FindSub`, `Upsert`, `Grant`). None of it holds for
  pages or webhooks, which may never come. The property excuses orders refunded, or
  older than the sweep's window: `AttachedIsCredited` is what fails without that.
- `RenewalCredited`: the same for the hourly job. It excuses a row that was
  re-pointed, has not run out, or ran out longer ago than the job's 40 days.
- `PageIsTold` (in `FollowedToTheEnd`): the event loop runs every ready task and a
  stage of the pipeline ends (each is a bounded call; `_run` turns exceptions into
  `failed`): weak fairness of `Start`, `Finish`, and of the page's own steps.
  Dropped connections and restarts are unfair.
- `WaitsEnd`: Sessions - a request sent is answered or fails, and a page handles
  it (`Handoff`, `Api`, `Settle`, `Unauthorized`); Studio - the job ends and the page
  hears it (`JobEnds`, `Hear`); Speech - the task's next step, the answer to a start,
  a poll; Buying - the clock (`Tick`) and what the page's timer does (`Page`).
- `EditingEnds`: SpeechEdits - the background edit (`Work`), the page's watch
  (`Watch`, `Refused`); Voicing - the clock, the server's own steps and the deadlines
  of its calls (`Own`, `Expires`, `SubExpires`): the pipeline itself may never answer;
  EditorPage - the render and the poll; EditorProject - an export's steps. An export whose
  end the database did not take is excused: nothing in the code writes it again.

## 6. Proofs

For every value of the constants (any number of accounts, calls, orders,
claimers, attempts, dubs, browsers, pages, lines; any tariff inputs), from the modules'
ASSUMEs. A module that runs only INSTANCE has no ASSUME, for TLC would never evaluate
it: what it takes for granted is an ASSUME of the MC module that gives its constants,
or a hypothesis of its theorems (`World` and `OwnBrowser` of Sessions). Most say that a
bound is a natural number and `None` no one's name. One says more:
`EarAssumption`, that the sizes of a recogniser's pieces leave room around a cut
(3 `Aim` >= 8 `Nearby` + 7, 7 `Aim` >= 20 `Nearby` + 14, 5 `Aim` + 8 `Nearby` + 4 <=
4 `Longest`; the code's are 18, 3 and 50 half seconds).

A group's run moves one component at a time: for each, a lemma says that `HarnessSpec`
implies its specification (`StudioRuns`, `EarRuns`), and its invariant is carried over.

- **CreditLedgerProofs.** `TypeCorrect` first: every step is a `WriteEntry`, a
  call's record, or neither. The money invariant `MoneyInv` is types plus: every
  balance is a natural, it is the total of the rows, and each moving row carries
  the running total. It is inductive because appending leaves the earlier totals
  alone (`ExtendTotal`, `RestrictTotal`, `AppendBalanced`); the guard of `Charge`, on
  the balance at the time of the write, gives `NoOverdraft`. `CallInv` adds what a
  call's program counter means for the ledger: until it is "committed" through a
  write of its own, it has no row; if its lookup found a row, the row is there, at
  the remembered price, or the account is gone. `CallChargesOnce` alone is not
  inductive: a retry could write again if it might have a row and a lookup that
  found none. `ReceiptInv` ties GRANT rows to `payments`. `HistoryIsKept` is the
  action property: rows are only appended.
- **OrderClaimsProofs.** `ClaimInv` is the checked invariants plus: a cancelled LS
  subscription is credited but live in no row (`StoppedWasPaid`), Payment rows are of
  confirmed orders, and what each claimer remembers is true (`Knows`: the orders it
  is about to grant are paid and of its account, the row it locked is there;
  `Replaces`: the subscription it is to cancel is neither the one it grants nor
  live once the grant committed). One lemma per action; `LocalStep` is the frame of
  all steps that touch one claim only. `ClaimsPayOut` maps every step to a
  Confirm, a Pay or a stutter of `Payout`.
- **SubscriptionsProofs.** For any number of LS subscriptions, hooks and drips, and
  any lengths of period, grace and window. Allocations are bounded because a drip
  writes only over the count it read: `Counted` says the row's count is the
  allocations of its period, and that a drip under way found room; `Opened`, that
  whatever this side holds of a subscription LS opened it and its first order was
  granted; `Billed`, that LS bills at a renewal and not before; `UpToDate`, that the
  row's period is the newest credited one of its plan's subscription and, when LS
  billed no later one, runs to LS's next renewal. `Right` is what each sync remembers
  between its awaits: the invoices it has still to credit are charged ones of the
  subscription it loaded, none older than one it credited. `RenewalsInOrder` is
  then a consequence of taking the `Oldest` first *and* of the UNIQUE invoice id that
  sends a rival sync to `Conflict`. The attempt to prove `PaidThrough` refuted its
  first form, which held in the run only because its clock is short: a renewal of
  a subscription that was replaced, credited after the switch, writes its own plan
  and an earlier end. It is now stated of rows whose plan is the one their LS
  subscription bills (`row.plan = row.ls`); what remains is `RowBillsItsPlan` above.
  `PeriodMovesForward`, which an earlier version of the run checked, is false for the
  same reason once `MaxTime` is 6, and was removed.
- **DubJobsProofs.** For any dubs, lengths, qualities, balance and pages. `Priced`:
  between the gate and the job, the request's bill covers its clip up to a `Frame`,
  whichever of gate, cut and charge came last; `Booked`: a job's source is a request
  that created it, once, and only jobs that exist wait for the worker; `Alone`: there
  is one worker or none, and one job runs or none - also over a restart, which
  forgets workers and jobs together. `PaidForWhatRuns` and `OneAtATime` follow.
  `Follows` says what a page shows is no newer than what is on its way to it, in
  order, and that no newer than the job; hence the action property `NeverGoesBack`
  (`OnlyForward`). That the end arrives (`PageIsTold`) is liveness and stays with TLC.
  The roundings of the tariff are, per rate, linear arithmetic over `\div`: what is
  quoted can be charged and a cut is tight (`QuotesAreRight`), for any balance and clip.
- **PagesProofs.** Of Sessions, for any browsers, tabs, calls and codes and any bound on
  tokens and requests. `OneSession`: a code opens one session at most; a page that is
  about to open one holds a code that is used and was opened by nobody (`Opened`).
  `SessionsAreKept` adds, where each tab has a browser of its own (`OwnBrowser`), that
  the alarm rings only for tokens with an excuse: a token on its way to a page is in no
  cookie and was sent with nothing (`OnTheWay`); one in a cookie is sent once, by the page
  that waits for it (`Spent`); and what was revoked was revoked by the refresh it was sent
  with (`Revoked`). Run `two_tabs` refutes it without `OwnBrowser`. Proving it
  found an error of the model, out of reach of the run's bounds: tokens that an excused
  alarm revokes must be excused themselves. Of Spotlight, `CardBeside`: the tour's card
  never covers the hole, for any window, element and card, wherever there is room at all.
  Of Studio, `SameClipSent`: while the length quoted is not the chosen file's, a measuring
  that still counts is under way, and such a one is always of that file (`ProbeInv`). Of Speech and Buying, `PaidAndToldKept`: `Costs` says of each state of
  a task what it has cost and left on the disk, `Asking` that a page asks only where
  there is an engine; `Heard` bounds what a tab heard, read and shows by what is
  credited, and stays true because orders only go forward (`Forward`); where
  the balance was asked for anew when the page was told, the answer counts what was due.
  `StatesTypeCorrect` is the type invariant of all five. Of Sessions it needs that the
  model's limits suffice: whatever is under way keeps the tokens and refreshes it may still
  ask for (`Enough`), so none is refused halfway for want of room. Of Speech, that what is missing from
  the wallet was paid for scripts: the sum over the scripts exists (`Balanced`), grows with a charge by
  its price (`TotalGrows`), and there is one only, since two that differ would differ first on
  a smallest set (`TotalsAgree`).
- **LibraryProofs.** Of Placement, for any number of lines, times and lengths: two lines
  never sound at once and every line is heard. The invariant ties the part already laid to
  the cursor (`Chronological`, `Neighbours`, `Front`) and bounds how late a line starts
  (`InSync`); `SlotBudget` and `CutTo` get lemmas
  on what they bound. Of Works, `RecordsAreKept` for any accounts, tabs, browsers and dubs, if a
  dub is one account's (`WorksAssumption`): of the dubs nobody removed, whatever is marked as
  saved, was listed by the API, or is held for another account than the dub's, is stored in the
  dub's account (`Marked`, `Tabled`, `Listed`, `Sent`). With two accounts
  `SyncedIsStored` needed that last clause, which the run's single account cannot show. What
  a tab has drawn and stored stays on its page and, if it is the browser's only tab, in the
  storage, unsaved, until the API has it or somebody removes it (`Keeping`).
  Of Pipeline and Splice, `ServedSoundIsRight`: `RunInv` says which engine a name stands
  for (`Named`), that there is a file from the mux on and an address at the end (`HandedBack`),
  and which stages are over (`StagesAre`); an edit of a dub mutes only what the lines it
  changes own, which no other line's time is part of, wherever the first sounds lie. Of
  Timeline and LineEditor, `ArrangementIsKept`:
  in every layout of the undo history a clip lies within its file, and ends no later
  than the edits made could move it (`CutInv`); the lines on show, drafts over a version, are
  apart, long enough and within the dub (`DragsRight`); and what is made is what was asked
  for (`AskedFor`), hence the action property `EditsDoAsShown`. The attempt
  refuted an earlier `DragsKeepApart`, which the run's bounds kept: drafts made over a version
  older than the one on show (`SpeechEditor.tsx:228`) may overlap. It now excuses them.
- **EditorsProofs.** Of SpeechEdits, `CorrectionsAreKept`, for any pages, versions and restarts: the look for
  an active edit and the creation of a row are apart, and what closes the gap is the
  UNIQUE key. An edit has ended before a newer one is there (`Settled`); as long as the
  version a page is about to create is not there, every older one has ended and the
  page builds on the newest that worked (`Looked`), so a second creator is refused.
  `EditingIsKept` joins three invariants. EditorProject: what a queued change read is still
  the row (`InLine`, `ReadIsTrue`), an upload under way adds a file of its own (`AddsApart`)
  and one being deleted is listed no more (`Unlisted`), an export replaces only one that
  had ended (`ExportsInv`). EditorPage: with no save due and no drag left loose, the newest of
  those under way carries what is on screen, and the API has it when none is (`Numbered`,
  `UpToDate`). Voicing: what a task has paid follows
  from where it stands (`TasksCharged`, `InOrder`).
- **DeskProofs.** PlansPage: `EstimateIsEnough`, that the tokens asked for the minutes
  typed pay for them at the server's tariff; and a checkout is of what was shown as long
  as the catalog has not changed since it was read (`PlansFresh`, `PacksFresh`, `GoodAsk`). DubForm:
  a form is `Within` the plan the page knows, and what a run was let pass on was so too
  (`RunsGood`); a replay repeats what the run recorded (`Repeats`). Guide: which steps and tools a page can
  be at (`GoodPage`), also while a start waits (`WaitingIsGood`).
  DubReport: every lack the pipeline leaves is noted by the stage that met it
  (`VoiceNoted`, `RestNoted`). WorksPage: `ChosenByUser`. Seeding: of a field that the
  script read as empty the panel has promised nothing (`ReadAsEmpty`). Catalog: a variant is
  sold by one row unless two admins raced for it (`OneRow`). Audit: `CallsTold`. Wording:
  `Repairing`. Recognise: the lines kept are those heard, in their order, less all but the
  first of each loop, because the n-th kept one is the n-th heard one that does not repeat
  (`NthIsOrdered`, `NoLoopIsLeft`), and every
  piece lies in its stretch, since two cuts cannot meet (`CutsApart`, `PieceFits`).
  Two things in the models came out of these proofs: `Seeding` filled
  a row by a CASE whose guards overlapped, and `Catalog` left out the two-admin race
  that its own `OneVariantOneThing` is about; `raced` now says where it happened.

Model-checked only: the liveness properties (`PaidMeansCredited`, `PageIsTold`, `WaitsEnd`,
`EditingEnds`), which are out of the prover's reach: tlapm has no rule for fairness
beyond propositional temporal logic and none for ENABLED.

## 7. Not modelled

Media work itself (what a recogniser hears, a synthesiser says, ffmpeg muxes):
its results are choices. CRUD records without a protocol (admin lists, community,
feedback, languages, price tokens), mail, health, stateless guards and the backend's
token check, thumbnails, markup and playback of pages, deployment, promo videos and
documents. Within modelled components: passwords, verification mail and Google
sign-in; portal resume and portal plan changes of a subscription; the admin's
manual grant; lip sync's model; ffmpeg's arguments. The reasons are in
`PROJECT.json` per component.
