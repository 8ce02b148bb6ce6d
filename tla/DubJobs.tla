------------------------------ MODULE DubJobs ------------------------------
(* The studio backend: how a dub is admitted, run and watched.             *)
(*                                                                         *)
(* create_job asks the account API how much of the clip the balance        *)
(* covers, cuts the clip to that, charges for what the cut produced, and   *)
(* only then registers a job.  One worker runs the jobs in the order they  *)
(* were registered.  A page follows a job over a stream of events          *)
(* (JobManager.subscribe) and, once the stream has ended, by polling.      *)
(* A finished job can be voiced again, for free, with corrected text.      *)
(*                                                                         *)
(* Everything is in the backend's memory and gone when it restarts.  A     *)
(* step here is what one coroutine does between two awaits.  Lengths are   *)
(* in milliseconds and priced by Tariff; the charge is one step here:      *)
(* CreditLedger is what the account API does to make it one.               *)
EXTENDS Tariff, Sequences, FiniteSets

CONSTANTS
    Dubs,        \* POST /api/jobs requests; the id a request reserves
    Voicings,    \* POST /api/jobs/{id}/revoice requests
    Pages,       \* browser pages that follow a job
    Length,      \* of the clip a dub request brings
    Quality,     \* it is to be dubbed at
    Frame,       \* by which a cut may be longer than what was asked for
    Balance,     \* credits of the one account at the start
    MaxVersion,  \* bound: states of a job a page can tell apart
    MaxRestarts, \* bound: restarts of the backend
    Balances, Clips, \* balances, and lengths of clips, to quote
    None

Jobs == Dubs \cup Voicings

ASSUME DubJobsAssumption ==
    /\ Dubs \cap Voicings = {}
    /\ None \notin Jobs
    /\ Length \in [Dubs -> Nat \ {0}]
    /\ Quality \in [Dubs -> Qualities]
    /\ Frame \in Nat
    /\ Balance \in Nat
    /\ MaxVersion \in Nat /\ MaxRestarts \in Nat
    /\ Balances \subseteq Nat /\ Clips \subseteq Nat
(* Small instances: one short clip at the dearest quality, the others long  *)
(* at the cheapest.                                                        *)
ShortDub    == CHOOSE d \in Dubs : TRUE
OneShort    == [d \in Dubs |-> IF d = ShortDub THEN 3000 ELSE 12000]
OneAtStudio == [d \in Dubs |-> IF d = ShortDub THEN "studio" ELSE "fast"]

VARIABLES
    credits,  \* the account's balance
    charged,  \* credits the account API charged under a job id
    request,  \* what each create_job has done so far
    job,      \* JobManager._jobs
    pending,  \* JobManager._pending
    workers,  \* worker tasks alive
    page,     \* what each page has open
    restarts

vars == <<credits, charged, request, job, pending, workers, page, restarts>>

-----------------------------------------------------------------------------

(* "refused": 402, the account API said the balance is short; "error": any *)
(* other answer that is not a job.                                         *)
Request == [pc : {"new", "gate", "cut", "charge", "create", "created",
                  "refused", "error"},
            length : Nat,   \* of the file that will be dubbed
            billed : Nat]   \* duration_seconds, what the charge is for

Statuses == {"none", "queued", "running", "completed", "failed", "lost"}

Job == [status : Statuses,
        file   : Dubs \cup {None}, \* the request that brought the source
        length : Nat,              \* of that file
        texts  : BOOLEAN,          \* job.result.segments is not empty
        old    : BOOLEAN,          \* history: voiced again from a finished job
        ver    : Nat]              \* counts what can be seen to change

Event == [ver : Nat, final : BOOLEAN]

(* "sent": the first snapshot is on its way, the generator is suspended at *)
(* its first yield.                                                        *)
Page == [pc     : {"idle", "sent", "open", "poll", "told"},
         job    : Jobs \cup {None},
         events : Seq(Event),  \* on their way, the queue of the stream
         seen   : Nat,         \* the version the page shows
         closed : BOOLEAN]     \* history: it was the server that ended it

NoJob  == [status |-> "none", file |-> None, length |-> 0, texts |-> FALSE,
           old |-> FALSE, ver |-> 0]
NoPage == [pc |-> "idle", job |-> None, events |-> << >>, seen |-> 0,
           closed |-> FALSE]

Init ==
    /\ credits  = Balance
    /\ charged  = [d \in Dubs |-> 0]
    /\ request  = [d \in Dubs |-> [pc |-> "new", length |-> 0, billed |-> 0]]
    /\ job      = [j \in Jobs |-> NoJob]
    /\ pending  = << >>
    /\ workers  = 0
    /\ page     = [p \in Pages |-> NoPage]
    /\ restarts = 0

Ended(j) == job[j].status \in {"completed", "failed"}

-----------------------------------------------------------------------------
(* create_job.                                                             *)

Goto(d, pc) == request' = [request EXCEPT ![d].pc = pc]

(* The source is on disk and its length known, or the request is refused.  *)
Fetch(d) ==
    /\ request[d].pc = "new"
    /\ Goto(d, "gate") \/ Goto(d, "error")
    /\ UNCHANGED <<credits, charged, job, pending, workers, page, restarts>>

(* can-dub: how much of the clip the balance covers now.  An API that does *)
(* not answer denies the dub.                                              *)
Preflight(d) ==
    LET trimmed == Trimmed(credits, Length[d], Quality[d])
        covered == Billable(credits, Length[d], Quality[d])
    IN
    /\ request[d].pc = "gate"
    /\ \/ Goto(d, "error")
       \/ ~ Allowed(credits, Length[d], Quality[d]) /\ Goto(d, "refused")
       \/ /\ Allowed(credits, Length[d], Quality[d])
          /\ request' = [request EXCEPT ![d] =
                [pc |-> IF trimmed THEN "cut" ELSE "charge",
                 length |-> Length[d], billed |-> covered]]
    /\ UNCHANGED <<credits, charged, job, pending, workers, page, restarts>>

(* Definitions marked "Variant" are the next definition with one plausible *)
(* mistake in it, to see that a property notices.                          *)

(* Variant: when the cut fails the whole clip is dubbed for what is left.  *)
CutOrNot(d) ==
    /\ request[d].pc = "cut"
    /\ \/ Goto(d, "charge")
       \/ \E over \in {0, Frame} :
             request' = [request EXCEPT ![d].pc = "charge",
                                        ![d].length = request[d].billed + over]
    /\ UNCHANGED <<credits, charged, job, pending, workers, page, restarts>>

(* trim_to_seconds: the cut agrees with what was asked for to within a     *)
(* frame, or fails and refuses the dub.  The length billed is probed, or,  *)
(* when it cannot be, the one that was asked for.                          *)
Cut(d) ==
    /\ request[d].pc = "cut"
    /\ \/ Goto(d, "error")
       \/ \E over \in {0, Frame}, probed \in BOOLEAN :
             LET length == request[d].billed + over IN
             request' = [request EXCEPT ![d] =
                [pc |-> "charge", length |-> length,
                 billed |-> IF probed THEN length ELSE request[d].billed]]
    /\ UNCHANGED <<credits, charged, job, pending, workers, page, restarts>>

(* Variant: what the preflight said is relied on, and the charge made.     *)
ChargeAnyway(d) ==
    LET cost == CostForDub(request[d].billed, Quality[d]) IN
    /\ request[d].pc = "charge"
    /\ \/ /\ credits' = credits - cost
          /\ charged' = [charged EXCEPT ![d] = cost]
          /\ Goto(d, "create")
       \/ Goto(d, "error") /\ UNCHANGED <<credits, charged>>
    /\ UNCHANGED <<job, pending, workers, page, restarts>>

(* commit-dub: the charge for that length under the reserved id.  It is    *)
(* refused when credits are short, and may not reach the account API.      *)
Charge(d) ==
    LET cost == CostForDub(request[d].billed, Quality[d]) IN
    /\ request[d].pc = "charge"
    /\ \/ /\ credits >= cost
          /\ credits' = credits - cost
          /\ charged' = [charged EXCEPT ![d] = cost]
          /\ Goto(d, "create")
       \/ /\ credits < cost
          /\ Goto(d, "refused")
          /\ UNCHANGED <<credits, charged>>
       \/ Goto(d, "error") /\ UNCHANGED <<credits, charged>>
    /\ UNCHANGED <<job, pending, workers, page, restarts>>

(* The account API has charged, but its answer does not arrive within      *)
(* billing_timeout: 503.                                                   *)
Unheard(d) ==
    /\ request[d].pc = "create"
    /\ Goto(d, "error")
    /\ UNCHANGED <<credits, charged, job, pending, workers, page, restarts>>

(* Variant: a task is started for every job.                               *)
EnsureWorkerAlways == workers' = workers + 1

EnsureWorker == workers' = IF workers = 0 THEN 1 ELSE workers

(* JobManager.create.                                                      *)
Register(j, file, length, old) ==
    /\ job' = [job EXCEPT ![j] =
                  [status |-> "queued", file |-> file, length |-> length,
                   texts |-> FALSE, old |-> old, ver |-> 1]]
    /\ pending' = Append(pending, j)
    /\ EnsureWorker

Create(d) ==
    /\ request[d].pc = "create"
    /\ Register(d, d, request[d].length, TRUE)
    /\ Goto(d, "created")
    /\ UNCHANGED <<credits, charged, page, restarts>>

(* revoice_job: a new job on the stored source of another one, which need  *)
(* only have a transcript.                                                 *)
Revoice(v) ==
    /\ job[v].status = "none"
    /\ \E j \in Jobs :
          /\ job[j].status \notin {"none", "lost"} /\ job[j].texts
          /\ Register(v, job[j].file, job[j].length, Ended(j))
    /\ UNCHANGED <<credits, charged, request, page, restarts>>

-----------------------------------------------------------------------------
(* The worker and the events it emits.                                     *)

Running == {j \in Jobs : job[j].status = "running"}

(* Every stream open on the job gets its new state.                        *)
Emit(j, final) ==
    page' = [p \in Pages |->
               IF page[p].job = j /\ page[p].pc \in {"sent", "open"}
               THEN [page[p] EXCEPT !.events =
                        Append(@, [ver |-> job'[j].ver, final |-> final])]
               ELSE page[p]]

Start ==
    /\ pending # << >> /\ Cardinality(Running) < workers
    /\ pending' = Tail(pending)
    /\ LET j == Head(pending) IN
          /\ job' = [job EXCEPT ![j].status = "running", ![j].ver = @ + 1]
          /\ Emit(j, FALSE)
    /\ UNCHANGED <<credits, charged, request, workers, restarts>>

(* A stage progresses; the first ones write the transcript.                *)
Progress(j) ==
    /\ j \in Running
    /\ job[j].ver < MaxVersion
    /\ \E texts \in {job[j].texts, TRUE} :
          job' = [job EXCEPT ![j].ver = @ + 1, ![j].texts = texts]
    /\ Emit(j, FALSE)
    /\ UNCHANGED <<credits, charged, request, pending, workers, restarts>>

(* Variant: a failure is not announced.                                    *)
FinishQuiet(j) ==
    /\ j \in Running
    /\ \/ job' = [job EXCEPT ![j].status = "completed", ![j].ver = @ + 1]
          /\ Emit(j, TRUE)
       \/ job' = [job EXCEPT ![j].status = "failed", ![j].ver = @ + 1]
          /\ UNCHANGED page
    /\ UNCHANGED <<credits, charged, request, pending, workers, restarts>>

Finish(j) ==
    /\ j \in Running
    /\ \E status \in {"completed", "failed"} :
          job' = [job EXCEPT ![j].status = status, ![j].ver = @ + 1]
    /\ Emit(j, TRUE)
    /\ UNCHANGED <<credits, charged, request, pending, workers, restarts>>

-----------------------------------------------------------------------------
(* A page: subscribeJob, then pollJob.                                     *)

Turn(p, rec) ==
    /\ page' = [page EXCEPT ![p] = rec]
    /\ UNCHANGED <<credits, charged, request, job, pending, workers, restarts>>

(* subscribe: the queue is registered and the snapshot taken at once.      *)
Subscribe(p, j) ==
    /\ page[p].pc = "idle"
    /\ job[j].status # "none"
    /\ Turn(p, IF job[j].status = "lost"
               THEN [NoPage EXCEPT !.pc = "poll", !.job = j]
               ELSE [NoPage EXCEPT !.pc = "sent", !.job = j, !.events =
                        <<[ver |-> job[j].ver, final |-> Ended(j)]>>])

(* The snapshot arrives and the generator goes on: it returns if the job   *)
(* has ended by now.                                                       *)
Snapshot(p) ==
    LET s     == page[p]
        first == Head(s.events)
    IN
    /\ s.pc = "sent"
    /\ Turn(p, [s EXCEPT !.seen = first.ver,
                         !.pc = IF first.final THEN "told"
                                ELSE IF Ended(s.job) THEN "poll" ELSE "open",
                         !.closed = ~ first.final /\ Ended(s.job),
                         !.events = IF first.final \/ Ended(s.job)
                                    THEN << >> ELSE Tail(@)])

(* An event arrives.  The page closes the stream on the final one.         *)
Receive(p) ==
    LET s     == page[p]
        first == Head(s.events)
    IN
    /\ s.pc = "open" /\ s.events # << >>
    /\ Turn(p, [s EXCEPT !.seen = first.ver,
                         !.pc = IF first.final THEN "told" ELSE "open",
                         !.events = IF first.final THEN << >> ELSE Tail(@)])

(* Variant: the stream is left open when it reports an error, and what it  *)
(* still brings is shown beside the polling's answers.                     *)
DropOpen(p) ==
    /\ page[p].pc \in {"sent", "open"}
    /\ Turn(p, IF page[p].seen > 0 /\ page[p].events # << >>
               THEN [page[p] EXCEPT !.seen = job[page[p].job].ver]
               ELSE [page[p] EXCEPT !.pc = "poll", !.events = << >>])

(* The connection breaks: the page closes the stream and polls.            *)
Drop(p) ==
    /\ page[p].pc \in {"sent", "open"}
    /\ Turn(p, [page[p] EXCEPT !.pc = "poll", !.events = << >>])

(* GET /api/jobs/{id} is answered; without a job, or without an answer, it *)
(* is asked again.                                                         *)
Poll(p) ==
    LET s == page[p] IN
    /\ s.pc = "poll"
    /\ job[s.job].status # "lost"
    /\ Turn(p, [s EXCEPT !.seen = job[s.job].ver,
                         !.pc = IF Ended(s.job) THEN "told" ELSE "poll"])

-----------------------------------------------------------------------------

(* The backend restarts: jobs, queue, requests and streams are gone.       *)
Restart ==
    /\ restarts < MaxRestarts
    /\ restarts' = restarts + 1
    /\ request' = [d \in Dubs |->
                      IF request[d].pc \in {"new", "created", "refused", "error"}
                      THEN request[d] ELSE [request[d] EXCEPT !.pc = "error"]]
    /\ job' = [j \in Jobs |-> IF job[j].status = "none" THEN job[j]
                              ELSE [job[j] EXCEPT !.status = "lost"]]
    /\ pending' = << >>
    /\ workers' = 0
    /\ page' = [p \in Pages |->
                  IF page[p].pc \in {"sent", "open"}
                  THEN [page[p] EXCEPT !.pc = "poll", !.events = << >>]
                  ELSE page[p]]
    /\ UNCHANGED <<credits, charged>>

CreateJob(d) == \/ Fetch(d) \/ Preflight(d) \/ Cut(d) \/ Charge(d)
                \/ Unheard(d) \/ Create(d)

Worker == Start \/ (\E j \in Jobs : Progress(j) \/ Finish(j))

Follow(p) == Snapshot(p) \/ Receive(p) \/ Poll(p)

Next ==
    \/ \E d \in Dubs : CreateJob(d)
    \/ \E v \in Voicings : Revoice(v)
    \/ Worker
    \/ \E p \in Pages : \/ \E j \in Jobs : Subscribe(p, j)
                        \/ Follow(p) \/ Drop(p)
    \/ Restart

Spec == Init /\ [][Next]_vars

(* The event loop gives every task its turn, a job's stages end, and a     *)
(* page's connection moves what is sent over it.                           *)
Fairness ==
    /\ WF_vars(Start)
    /\ \A j \in Jobs : WF_vars(Finish(j))
    /\ \A p \in Pages : WF_vars(Follow(p))

FairSpec == Spec /\ Fairness

-----------------------------------------------------------------------------
(* Properties.                                                             *)

TypeOK ==
    /\ credits \in Nat
    /\ charged \in [Dubs -> Nat]
    /\ request \in [Dubs -> Request]
    /\ job \in [Jobs -> Job]
    /\ pending \in Seq(Jobs)
    /\ workers \in Nat
    /\ page \in [Pages -> Page]
    /\ restarts \in Nat

(* The pipeline only ever processes what has been paid for: every job, a   *)
(* re-voiced one too, runs on a file that was charged for, to within the   *)
(* frame a cut may be off.                                                 *)
PaidForWhatRuns ==
    \A j \in Jobs : job[j].status # "none" =>
        /\ charged[job[j].file] > 0
        /\ CostForDub(job[j].length - Frame, Quality[job[j].file])
              <= charged[job[j].file]

(* Jobs execute one at a time, across restarts and however many requests   *)
(* register one at once: two pipelines in one process corrupt each other.  *)
OneAtATime == Cardinality(Running) <= 1

(* What a page shows of a job never goes back to an earlier state, through *)
(* the snapshot, the events and the switch to polling.                     *)
NeverGoesBack == [][\A p \in Pages : page'[p].seen >= page[p].seen]_page

(* A page that follows a job learns that it ended, unless the backend lost *)
(* the job.                                                                *)
PageIsTold ==
    \A p \in Pages, j \in Jobs :
        page[p].job = j ~> (page[p].pc = "told" \/ job[j].status = "lost")

(* A page that follows a job sees it go forward, to its end (api.ts:238-310). *)
FollowedToTheEnd == NeverGoesBack /\ PageIsTold

(* What canDub says the balance pays for, commitDub can charge: the quote  *)
(* never exceeds the balance, and is at least a credit for any dub at all. *)
QuoteIsAffordable ==
    \A b \in Balances, ms \in Clips, q \in Qualities :
        /\ BillableCost(b, ms, q) <= b
        /\ Allowed(b, ms, q) => BillableCost(b, ms, q) > 0

(* A clip is cut no further than it has to be: a second more would cost    *)
(* more than the balance.                                                  *)
CutNoMoreThanNeeded ==
    \A b \in Balances, ms \in Clips, q \in Qualities :
        Trimmed(b, ms, q) => CostForDub(Billable(b, ms, q) + 1000, q) > b

(* The quote is what the balance pays for: no more, and hardly less        *)
(* (canDub, payment.service.ts:1200-1234).                                 *)
QuoteIsRight == QuoteIsAffordable /\ CutNoMoreThanNeeded

(* What affordableSeconds' comment says the trim is for: a balance that    *)
(* cannot cover the whole video (quality-cost.ts:68).                      *)
TrimmedIsShort ==
    \A b \in Balances, ms \in Clips, q \in Qualities :
        Trimmed(b, ms, q) => CostForDub(ms, q) > b

(* What create_job's comment says of a refused charge: no job is created,  *)
(* so there is nothing half-paid to clean up (main.py:313).                *)
NothingHalfPaid ==
    \A d \in Dubs : request[d].pc = "error" => charged[d] = 0

(* What the gate's module says: a short balance buys the front of the      *)
(* video, a refusal means it buys nothing at all (billing.py:20).  Only    *)
(* for one request: nobody but the request itself spends.                  *)
RefusalBuysNothing ==
    \A d \in Dubs : request[d].pc = "refused" =>
        ~ Allowed(credits, Length[d], Quality[d])

(* What subscribe promises: updates until the job ends (jobs.py:170).  A   *)
(* stream that the server ends has shown the job's last state.             *)
StreamTellsTheEnd ==
    \A p \in Pages : page[p].closed /\ page[p].job # None /\ Ended(page[p].job)
        => page[p].seen = job[page[p].job].ver \/ page[p].pc = "told"

(* What revoice_job promises: it re-voices a finished job (main.py:374).   *)
RevoicesFinished == \A v \in Voicings : job[v].status # "none" => job[v].old
=============================================================================
