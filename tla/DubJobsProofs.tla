--------------------------- MODULE DubJobsProofs ---------------------------
(* Proofs about DubJobs and the tariff it charges by, for any number of    *)
(* dubs, voicings and pages, clips of any length, any balance, and any     *)
(* number of restarts.                                                     *)
EXTENDS DubJobs, FiniteSetTheorems, TLAPS

-----------------------------------------------------------------------------
(* The inductive invariant.                                                *)

(* Once it is through the gate a request is for something, and bills all   *)
(* that will be dubbed but a frame; when it creates its job that is paid.  *)
Priced ==
    \A d \in Dubs :
        /\ request[d].pc \in {"cut", "charge", "create"} => request[d].billed > 0
        /\ request[d].pc \in {"charge", "create"} =>
              request[d].length <= request[d].billed + Frame
        /\ request[d].pc = "create" =>
              charged[d] = CostForDub(request[d].billed, Quality[d])

(* A job's source was brought by a request that is done, and a request     *)
(* creates its job once; only jobs that exist wait for the worker.         *)
Booked ==
    /\ \A d \in Dubs : request[d].pc # "created" => job[d].status = "none"
    /\ \A j \in Jobs : job[j].status # "none" =>
          job[j].file \in Dubs /\ request[job[j].file].pc = "created"
    /\ \A i \in DOMAIN pending : job[pending[i]].status # "none"

(* There is one worker or none, and one job runs or none.                  *)
Alone ==
    /\ workers \in {0, 1}
    /\ \A i, j \in Running : i = j

(* A page follows a job that exists.  What it shows is no newer than what  *)
(* is on its way to it, and that, in order, no newer than the job.         *)
Follows(s) ==
    /\ s.pc = "idle" => s = NoPage
    /\ s.pc = "sent" => s.events # << >>
    /\ s.pc = "poll" => s.events = << >>
    /\ s.pc # "idle" => s.job \in Jobs /\ job[s.job].status # "none"
    /\ s.job \in Jobs =>
          /\ s.seen <= job[s.job].ver
          /\ \A i \in DOMAIN s.events :
                /\ s.seen <= s.events[i].ver
                /\ s.events[i].ver <= job[s.job].ver
                /\ \A k \in DOMAIN s.events : i <= k => s.events[i].ver <= s.events[k].ver

IInv ==
    /\ TypeOK
    /\ Priced /\ Booked /\ Alone /\ PaidForWhatRuns
    /\ \A p \in Pages : Follows(page[p])

-----------------------------------------------------------------------------
(* Prices.                                                                 *)

LEMMA Rates == ASSUME NEW q \in Qualities PROVE RateFor(q) \in {10, 20, 40}
BY DEF Qualities, RateFor, CreditsPerMinute

(* Rounding up: the price is within the balance exactly when the unrounded *)
(* price is.                                                               *)
LEMMA CostWithin ==
    ASSUME NEW q \in Qualities, NEW ms \in Nat, NEW b \in Nat
    PROVE  CostForDub(ms, q) <= b <=> (ms = 0 \/ (b > 0 /\ ms * RateFor(q) <= 60000 * b))
<1> DEFINE r == RateFor(q)
<1>1. r \in {10, 20, 40}
  BY Rates
<1>2. CASE r = 10
  BY <1>2 DEF CostForDub
<1>3. CASE r = 20
  BY <1>3 DEF CostForDub
<1>4. CASE r = 40
  BY <1>4 DEF CostForDub
<1>5. QED
  BY <1>1, <1>2, <1>3, <1>4

(* A dub of any length costs a credit or more.                             *)
LEMMA CostPositive ==
    ASSUME NEW q \in Qualities, NEW ms \in Nat
    PROVE  CostForDub(ms, q) \in Nat /\ (ms > 0 => CostForDub(ms, q) > 0)
<1> DEFINE r == RateFor(q)
<1>1. r \in {10, 20, 40}
  BY Rates
<1>2. CASE r = 10
  BY <1>2 DEF CostForDub
<1>3. CASE r = 20
  BY <1>3 DEF CostForDub
<1>4. CASE r = 40
  BY <1>4 DEF CostForDub
<1>5. QED
  BY <1>1, <1>2, <1>3, <1>4

(* The seconds a balance affords are the whole seconds it pays for.        *)
LEMMA SecondsWithin ==
    ASSUME NEW q \in Qualities, NEW n \in Nat, NEW b \in Nat
    PROVE  /\ AffordableSeconds(b, q) \in Nat
           /\ n <= AffordableSeconds(b, q) <=> (n = 0 \/ n * RateFor(q) <= 60 * b)
<1> DEFINE r == RateFor(q)
<1>1. r \in {10, 20, 40}
  BY Rates
<1>2. CASE r = 10
  BY <1>2 DEF AffordableSeconds
<1>3. CASE r = 20
  BY <1>3 DEF AffordableSeconds
<1>4. CASE r = 40
  BY <1>4 DEF AffordableSeconds
<1>5. QED
  BY <1>1, <1>2, <1>3, <1>4

(* A longer clip does not cost less; one of no length costs nothing.       *)
LEMMA CostMonotone ==
  ASSUME NEW q \in Qualities, NEW a \in Int, NEW b \in Nat, a <= b
  PROVE  CostForDub(a, q) <= CostForDub(b, q)
<1> DEFINE cost == CostForDub(b, q)
           r    == RateFor(q)
<1>1. r \in {10, 20, 40}
  BY Rates
<1>2. cost \in Nat
  BY CostPositive
<1>3. CASE a <= 0
  BY <1>2, <1>3 DEF CostForDub
<1>4. CASE a > 0
  <2>1. a \in Nat /\ b # 0
    BY <1>4
  <2>2. cost > 0 /\ b * r <= 60000 * cost
    BY <1>2, <2>1, CostWithin
  <2> HIDE DEF cost
  <2>3. a * r <= 60000 * cost
    <3>1. CASE r = 10
      BY <1>2, <2>1, <2>2, <3>1
    <3>2. CASE r = 20
      BY <1>2, <2>1, <2>2, <3>2
    <3>3. CASE r = 40
      BY <1>2, <2>1, <2>2, <3>3
    <3> QED BY <1>1, <3>1, <3>2, <3>3
  <2> QED BY <1>2, <2>1, <2>2, <2>3, CostWithin DEF cost
<1> QED BY <1>3, <1>4

(* What canDub covers is a part of the clip, and all of it when it is not  *)
(* to be cut.                                                              *)
LEMMA BillableIsPart ==
  ASSUME NEW b \in Nat, NEW ms \in Nat, NEW q \in Qualities
  PROVE  /\ Billable(b, ms, q) \in Nat
         /\ Allowed(b, ms, q) /\ ~ Trimmed(b, ms, q) => ms <= Billable(b, ms, q)
<1>1. AffordableSeconds(b, q) \in Nat
  BY SecondsWithin
<1> QED BY <1>1 DEF Billable, Allowed, Trimmed

-----------------------------------------------------------------------------
(* create_job up to its job.                                               *)

PricedAt(r, d, paid) ==
    /\ r.pc \in {"cut", "charge", "create"} => r.billed > 0
    /\ r.pc \in {"charge", "create"} => r.length <= r.billed + Frame
    /\ r.pc = "create" => paid = CostForDub(r.billed, Quality[d])

(* A step of a request that has not created its job, to where it still has *)
(* not; it may charge.                                                     *)
LEMMA RequestMoves ==
  ASSUME IInv, NEW d \in Dubs, NEW r \in Request,
         request[d].pc # "created", r.pc # "created",
         request' = [request EXCEPT ![d] = r],
         credits' \in Nat, charged' \in [Dubs -> Nat],
         \A e \in Dubs : e # d => charged'[e] = charged[e],
         PricedAt(r, d, charged'[d]),
         UNCHANGED <<job, pending, workers, page, restarts>>
  PROVE  IInv'
<1>1. /\ request \in [Dubs -> Request] /\ request'[d] = r
      /\ \A e \in Dubs : e # d => request'[e] = request[e]
  BY DEF IInv, TypeOK
<1>2. TypeOK'
  BY DEF IInv, TypeOK
<1>3. Priced'
  BY <1>1 DEF IInv, Priced, PricedAt
<1>4. Booked' /\ Alone'
  BY <1>1 DEF IInv, Booked, Alone, Running
<1>5. PaidForWhatRuns'
  BY <1>1 DEF IInv, PaidForWhatRuns, Booked
<1>6. \A p \in Pages : Follows(page[p])'
  BY DEF IInv, Follows
<1> QED BY <1>2, <1>3, <1>4, <1>5, <1>6 DEF IInv

\* What a request and its clip are made of.
LEMMA RequestTypes ==
  ASSUME IInv, NEW d \in Dubs
  PROVE  /\ request[d] \in Request /\ request[d].length \in Nat /\ request[d].billed \in Nat
         /\ credits \in Nat /\ charged \in [Dubs -> Nat] /\ Quality[d] \in Qualities
         /\ Length[d] \in Nat \ {0} /\ Frame \in Nat
BY DubJobsAssumption DEF IInv, TypeOK, Request

\* A request that only moves on keeps its length and its bill.
LEMMA Moved ==
  ASSUME NEW r \in Request,
         NEW pc \in {"new", "gate", "cut", "charge", "create", "created", "refused", "error"}
  PROVE  /\ [r EXCEPT !.pc = pc] \in Request /\ [r EXCEPT !.pc = pc].pc = pc
         /\ [r EXCEPT !.pc = pc].length = r.length /\ [r EXCEPT !.pc = pc].billed = r.billed
BY DEF Request

(* A request that ends, or goes to the gate, owes nothing.                 *)
LEMMA RequestStops ==
  ASSUME IInv, NEW d \in Dubs, request[d].pc # "created",
         NEW pc \in {"gate", "refused", "error"}, Goto(d, pc),
         UNCHANGED <<credits, charged, job, pending, workers, page, restarts>>
  PROVE  IInv'
<1> DEFINE r == [request[d] EXCEPT !.pc = pc]
<1>0. request' = [request EXCEPT ![d] = r]
  BY DEF Goto
<1>1. r \in Request /\ r.pc = pc
  BY RequestTypes DEF Request
<1> HIDE DEF r
<1>2. PricedAt(r, d, charged'[d])
  BY <1>1 DEF PricedAt
<1> QED BY <1>0, <1>1, <1>2, RequestTypes, RequestMoves

\* The gate prices the clip for the balance it reads.
LEMMA PreflightKeeps == ASSUME IInv, NEW d \in Dubs, Preflight(d) PROVE IInv'
<1> DEFINE trimmed == Trimmed(credits, Length[d], Quality[d])
           covered == Billable(credits, Length[d], Quality[d])
           r == [pc |-> IF trimmed THEN "cut" ELSE "charge",
                 length |-> Length[d], billed |-> covered]
<1>1. /\ request[d].pc = "gate"
      /\ UNCHANGED <<credits, charged, job, pending, workers, page, restarts>>
  BY DEF Preflight
<1>2. CASE Goto(d, "error") \/ Goto(d, "refused")
  BY <1>1, <1>2, RequestStops
<1>3. CASE Allowed(credits, Length[d], Quality[d]) /\ request' = [request EXCEPT ![d] = r]
  <2>1. /\ covered \in Nat /\ covered > 0
        /\ ~ trimmed => Length[d] <= covered
    BY <1>3, RequestTypes, BillableIsPart DEF Allowed
  <2>2. /\ r \in Request /\ r.length = Length[d] /\ r.billed = covered
        /\ r.pc = IF trimmed THEN "cut" ELSE "charge"
    BY <2>1, RequestTypes DEF Request
  <2>3. request' = [request EXCEPT ![d] = r]
    BY <1>3
  <2> HIDE DEF trimmed, covered, r
  <2>4. PricedAt(r, d, charged'[d])
    BY <2>1, <2>2, RequestTypes DEF PricedAt
  <2>5. r.pc # "created"
    BY <2>2
  <2> QED BY <1>1, <2>2, <2>3, <2>4, <2>5, RequestTypes, RequestMoves
<1> QED BY <1>2, <1>3 DEF Preflight

\* The cut file is within a frame of what was priced.
LEMMA CutKeeps == ASSUME IInv, NEW d \in Dubs, Cut(d) PROVE IInv'
<1>1. /\ request[d].pc = "cut"
      /\ UNCHANGED <<credits, charged, job, pending, workers, page, restarts>>
  BY DEF Cut
<1>2. CASE Goto(d, "error")
  BY <1>1, <1>2, RequestStops
<1>3. ASSUME NEW over \in {0, Frame}, NEW probed \in BOOLEAN,
             request' = [request EXCEPT ![d] =
                [pc |-> "charge", length |-> request[d].billed + over,
                 billed |-> IF probed THEN request[d].billed + over ELSE request[d].billed]]
      PROVE  IInv'
  <2> DEFINE length == request[d].billed + over
             billed == IF probed THEN length ELSE request[d].billed
             r == [pc |-> "charge", length |-> length, billed |-> billed]
  <2>1. request[d].billed > 0
    BY <1>1 DEF IInv, Priced
  <2>2. length \in Nat /\ billed \in Nat /\ billed > 0 /\ length <= billed + Frame
    BY <2>1, RequestTypes
  <2>3. request' = [request EXCEPT ![d] = r]
    BY <1>3
  <2> HIDE DEF length, billed
  <2>4. r \in Request /\ r.pc = "charge" /\ r.length = length /\ r.billed = billed
    BY <2>2 DEF Request
  <2> HIDE DEF r
  <2>5. PricedAt(r, d, charged'[d])
    BY <2>2, <2>4 DEF PricedAt
  <2> QED BY <1>1, <2>3, <2>4, <2>5, RequestTypes, RequestMoves
<1> QED BY <1>2, <1>3 DEF Cut

\* The charge takes what the price of the length says.
LEMMA ChargeKeeps == ASSUME IInv, NEW d \in Dubs, Charge(d) PROVE IInv'
<1> DEFINE cost == CostForDub(request[d].billed, Quality[d])
<1>1. request[d].pc = "charge" /\ UNCHANGED <<job, pending, workers, page, restarts>>
  BY DEF Charge
<1>2. CASE (Goto(d, "refused") \/ Goto(d, "error")) /\ UNCHANGED <<credits, charged>>
  BY <1>1, <1>2, RequestStops
<1>3. CASE /\ credits >= cost /\ credits' = credits - cost
           /\ charged' = [charged EXCEPT ![d] = cost]
           /\ Goto(d, "create")
  <2> DEFINE r == [request[d] EXCEPT !.pc = "create"]
  <2>1. cost \in Nat
    BY RequestTypes, CostPositive
  <2>2. /\ credits' \in Nat /\ charged' \in [Dubs -> Nat] /\ charged'[d] = cost
        /\ \A e \in Dubs : e # d => charged'[e] = charged[e]
    BY <1>3, <2>1, RequestTypes
  <2>3. /\ r \in Request /\ r.pc = "create"
        /\ r.length = request[d].length /\ r.billed = request[d].billed
        /\ request' = [request EXCEPT ![d] = r]
    BY <1>3, RequestTypes, Moved DEF Goto
  <2>4. request[d].billed > 0 /\ request[d].length <= request[d].billed + Frame
    BY <1>1 DEF IInv, Priced
  <2> HIDE DEF r
  <2>5. PricedAt(r, d, charged'[d])
    BY <2>2, <2>3, <2>4 DEF PricedAt
  <2> QED BY <1>1, <2>2, <2>3, <2>5, RequestMoves
<1> QED BY <1>2, <1>3 DEF Charge

\* The source is on disk, or the request is refused.
LEMMA FetchKeeps == ASSUME IInv, NEW d \in Dubs, Fetch(d) PROVE IInv'
BY RequestStops DEF Fetch

\* The answer of the charge is lost: no job.
LEMMA UnheardKeeps == ASSUME IInv, NEW d \in Dubs, Unheard(d) PROVE IInv'
BY RequestStops DEF Unheard

-----------------------------------------------------------------------------
(* Jobs.                                                                   *)

(* A job is registered: nobody follows it yet, and its source is paid for. *)
LEMMA RegisterKeeps ==
  ASSUME IInv, NEW j \in Jobs, job[j].status = "none",
         NEW file \in Dubs, NEW length \in Nat, NEW old \in BOOLEAN,
         Register(j, file, length, old),
         request' \in [Dubs -> Request], Priced', request'[file].pc = "created",
         \A e \in Dubs : request[e].pc = "created" => request'[e].pc = "created",
         \A e \in Dubs : request'[e].pc # "created" => e # j /\ request[e].pc # "created",
         charged[file] > 0,
         CostForDub(length - Frame, Quality[file]) <= charged[file],
         UNCHANGED <<credits, charged, page, restarts>>
  PROVE  IInv'
<1> DEFINE r == [status |-> "queued", file |-> file, length |-> length,
                 texts |-> FALSE, old |-> old, ver |-> 1]
<1>1. /\ r \in Job /\ r.status = "queued" /\ r.file = file /\ r.length = length
      /\ job' = [job EXCEPT ![j] = r] /\ pending' = Append(pending, j)
      /\ workers' = IF workers = 0 THEN 1 ELSE workers
      /\ job \in [Jobs -> Job] /\ pending \in Seq(Jobs)
  BY DEF Register, EnsureWorker, Job, Statuses, IInv, TypeOK
<1> HIDE DEF r
<1>2. /\ job'[j] = r /\ \A i \in Jobs : i # j => job'[i] = job[i]
      /\ job' \in [Jobs -> Job] /\ pending' \in Seq(Jobs)
  BY <1>1
<1>3. TypeOK'
  BY <1>1, <1>2 DEF IInv, TypeOK
<1>4. Booked'
  <2>1. \A i \in DOMAIN pending' : job'[pending'[i]].status # "none"
    BY <1>1, <1>2 DEF IInv, Booked
  <2>2. \A d \in Dubs : request'[d].pc # "created" => job'[d].status = "none"
    BY <1>2 DEF IInv, Booked, Jobs
  <2>3. \A i \in Jobs : job'[i].status # "none" =>
          job'[i].file \in Dubs /\ request'[job'[i].file].pc = "created"
    BY <1>1, <1>2 DEF IInv, Booked
  <2> QED BY <2>1, <2>2, <2>3 DEF Booked
<1>5. Alone'
  BY <1>1, <1>2 DEF IInv, Alone, Running
<1>6. PaidForWhatRuns'
  BY <1>1, <1>2 DEF IInv, PaidForWhatRuns
<1>7. ASSUME NEW p \in Pages PROVE Follows(page[p])'
  <2>1. Follows(page[p]) /\ None \notin Jobs
    BY DubJobsAssumption DEF IInv
  <2>2. page[p].job \in Jobs => page[p].job # j
    BY <2>1 DEF Follows, NoPage
  <2> QED BY <1>2, <2>1, <2>2 DEF Follows
<1> QED BY <1>3, <1>4, <1>5, <1>6, <1>7 DEF IInv

\* A paid request becomes a job.
LEMMA CreateKeeps == ASSUME IInv, NEW d \in Dubs, Create(d) PROVE IInv'
<1> DEFINE r == [request[d] EXCEPT !.pc = "created"]
<1>1. /\ request[d].pc = "create" /\ UNCHANGED <<credits, charged, page, restarts>>
      /\ Register(d, d, request[d].length, TRUE)
      /\ request' = [request EXCEPT ![d] = r]
  BY DEF Create, Goto
<1>2. r \in Request /\ r.pc = "created"
  BY RequestTypes, Moved
<1> HIDE DEF r
<1>3. /\ request'[d].pc = "created" /\ request' \in [Dubs -> Request]
      /\ \A e \in Dubs : e # d => request'[e] = request[e]
  BY <1>1, <1>2 DEF IInv, TypeOK
<1>4. Priced'
  BY <1>1, <1>3 DEF IInv, Priced
<1>5. /\ request[d].billed > 0 /\ request[d].length <= request[d].billed + Frame
      /\ charged[d] = CostForDub(request[d].billed, Quality[d])
  BY <1>1 DEF IInv, Priced
<1>6. charged[d] > 0
  BY <1>5, RequestTypes, CostPositive
<1>7. CostForDub(request[d].length - Frame, Quality[d]) <= charged[d]
  <2>1. request[d].length - Frame \in Int /\ request[d].length - Frame <= request[d].billed
    BY <1>5, RequestTypes
  <2> QED BY <1>5, <2>1, RequestTypes, CostMonotone
<1>8. d \in Jobs /\ job[d].status = "none"
  BY <1>1 DEF IInv, Booked, Jobs
<1> QED BY <1>1, <1>3, <1>4, <1>6, <1>7, <1>8, RequestTypes, RegisterKeeps

\* A re-voicing runs on the file its job ran on.
LEMMA RevoiceKeeps == ASSUME IInv, NEW v \in Voicings, Revoice(v) PROVE IInv'
<1>1. /\ job[v].status = "none" /\ v \in Jobs /\ v \notin Dubs
      /\ UNCHANGED <<credits, charged, request, page, restarts>>
  BY DubJobsAssumption DEF Revoice, Jobs
<1>2. PICK j \in Jobs : /\ job[j].status # "none"
                        /\ Register(v, job[j].file, job[j].length, Ended(j))
  BY DEF Revoice
<1>3. job[j].file \in Dubs /\ request[job[j].file].pc = "created" /\ job[j].length \in Nat
  BY <1>2 DEF IInv, Booked, TypeOK, Job
<1>4. /\ charged[job[j].file] > 0
      /\ CostForDub(job[j].length - Frame, Quality[job[j].file]) <= charged[job[j].file]
  BY <1>2 DEF IInv, PaidForWhatRuns
<1>5. request' \in [Dubs -> Request] /\ Priced' /\ Ended(j) \in BOOLEAN
  BY <1>1 DEF IInv, TypeOK, Priced, Ended
<1> QED BY <1>1, <1>2, <1>3, <1>4, <1>5, RegisterKeeps

(* A page that a job's new state is sent to.                               *)
LEMMA EmitTypes ==
  ASSUME IInv, NEW j \in Jobs, NEW final \in BOOLEAN, Emit(j, final), job'[j].ver \in Nat
  PROVE  page' \in [Pages -> Page]
<1> SUFFICES ASSUME NEW p \in Pages
             PROVE (IF page[p].job = j /\ page[p].pc \in {"sent", "open"}
                    THEN [page[p] EXCEPT !.events =
                            Append(@, [ver |-> job'[j].ver, final |-> final])]
                    ELSE page[p]) \in Page
  BY DEF Emit
<1> DEFINE ev == [ver |-> job'[j].ver, final |-> final]
           more == Append(page[p].events, ev)
<1>1. page[p] \in Page /\ page[p].events \in Seq(Event)
  BY DEF IInv, TypeOK, Page
<1>2. ev \in Event
  BY DEF Event
<1> HIDE DEF ev
<1>3. more \in Seq(Event)
  BY <1>1, <1>2
<1> HIDE DEF more
<1>4. [page[p] EXCEPT !.events = more] \in Page
  BY <1>1, <1>3 DEF Page
<1> QED BY <1>1, <1>4 DEF more, ev, Page

(* What one page sees of it.                                               *)
LEMMA EmitFollows ==
  ASSUME IInv, NEW j \in Jobs, NEW final \in BOOLEAN, Emit(j, final),
         job \in [Jobs -> Job], job' \in [Jobs -> Job],
         \A i \in Jobs : i # j => job'[i] = job[i],
         job'[j].status # "none", job'[j].ver = job[j].ver + 1,
         NEW p \in Pages
  PROVE  Follows(page[p])'
<1> DEFINE s == page[p]
           ev == [ver |-> job'[j].ver, final |-> final]
<1>1. /\ s \in Page /\ s.events \in Seq(Event) /\ Follows(s) /\ s.seen \in Nat
      /\ \A i \in DOMAIN s.events : s.events[i].ver \in Nat
      /\ \A i \in Jobs : job[i].ver \in Nat /\ job'[i].ver \in Nat
  <2>1. s \in Page /\ Follows(s)
    BY DEF IInv, TypeOK
  <2>2. s.events \in Seq(Event) /\ s.seen \in Nat
    BY <2>1 DEF Page
  <2>3. \A i \in DOMAIN s.events : s.events[i] \in Event
    BY <2>2
  <2>4. \A e \in Event : e.ver \in Nat
    BY DEF Event
  <2>5. \A i \in Jobs : job[i].ver \in Nat /\ job'[i].ver \in Nat
    BY DEF Job
  <2> QED BY <2>1, <2>2, <2>3, <2>4, <2>5
<1>2. page'[p] = IF s.job = j /\ s.pc \in {"sent", "open"}
                 THEN [s EXCEPT !.events = Append(s.events, ev)] ELSE s
  BY <1>1 DEF Emit, Page
<1>3. CASE s.job = j /\ s.pc \in {"sent", "open"}
  <2> DEFINE more == Append(s.events, ev)
  <2>1. /\ page'[p].pc = s.pc /\ page'[p].job = j /\ page'[p].seen = s.seen
        /\ page'[p].events = more
    BY <1>1, <1>2, <1>3 DEF Page
  <2>2. ev.ver = job[j].ver + 1
    OBVIOUS
  <2>3. ev \in Event /\ Len(more) = Len(s.events) + 1
    BY <1>1 DEF Event
  <2> HIDE DEF ev
  <2>4. /\ DOMAIN more = 1 .. Len(s.events) + 1 /\ DOMAIN s.events = 1 .. Len(s.events)
        /\ \A i \in DOMAIN s.events : more[i] = s.events[i]
        /\ more[Len(s.events) + 1] = ev
        /\ Len(s.events) \in Nat
    BY <1>1, <2>3
  <2>5. /\ s.seen <= job[j].ver
        /\ \A i \in DOMAIN s.events :
              /\ s.seen <= s.events[i].ver
              /\ s.events[i].ver <= job[j].ver
              /\ \A k \in DOMAIN s.events : i <= k => s.events[i].ver <= s.events[k].ver
    BY <1>1, <1>3 DEF Follows
  <2> HIDE DEF more, s
  <2>6. \A i \in DOMAIN more :
              /\ s.seen <= more[i].ver
              /\ more[i].ver <= job[j].ver + 1
              /\ \A k \in DOMAIN more : i <= k => more[i].ver <= more[k].ver
    <3> SUFFICES ASSUME NEW i \in DOMAIN more, NEW k \in DOMAIN more
                 PROVE  /\ s.seen <= more[i].ver
                        /\ more[i].ver <= job[j].ver + 1
                        /\ i <= k => more[i].ver <= more[k].ver
      OBVIOUS
    <3>1. CASE i \in DOMAIN s.events /\ k \in DOMAIN s.events
      BY <1>1, <2>4, <2>5, <3>1
    <3>2. CASE i \in DOMAIN s.events /\ k = Len(s.events) + 1
      BY <1>1, <2>2, <2>4, <2>5, <3>2
    <3>3. CASE i = Len(s.events) + 1
      <4>1. more[i].ver = job[j].ver + 1 /\ s.seen <= job[j].ver + 1
        BY <1>1, <2>2, <2>4, <2>5, <3>3
      <4>2. i <= k => k = i
        BY <2>4, <3>3
      <4> QED BY <1>1, <4>1, <4>2
    <3> QED BY <2>4, <3>1, <3>2, <3>3
  <2>7. more # << >>
    BY <2>3, <2>4
  <2> QED BY <1>1, <1>3, <2>1, <2>5, <2>6, <2>7 DEF Follows
<1>4. CASE ~ (s.job = j /\ s.pc \in {"sent", "open"})
  <2>1. page'[p] = s
    BY <1>2, <1>4
  <2>2. \A i \in Jobs : /\ job[i].ver <= job'[i].ver
                        /\ job[i].status # "none" => job'[i].status # "none"
    <3>1. j \in Jobs /\ job[j].ver <= job'[j].ver
      BY <1>1
    <3> QED BY <1>1, <3>1
  <2> HIDE DEF s
  <2>3. s.job \in Jobs =>
          /\ s.seen <= job'[s.job].ver
          /\ \A i \in DOMAIN s.events : s.events[i].ver <= job'[s.job].ver
    BY <1>1, <2>2 DEF Follows
  <2> QED BY <1>1, <2>1, <2>2, <2>3 DEF Follows
<1> QED BY <1>3, <1>4

(* The worker takes a job on.  Nothing else runs beside it.                *)
LEMMA JobGoesOn ==
  ASSUME IInv, NEW j \in Jobs, NEW r \in Job, NEW final \in BOOLEAN,
         job[j].status # "none", r.status \in {"running", "completed", "failed"},
         r.file = job[j].file, r.length = job[j].length, r.ver = job[j].ver + 1,
         \A i \in Running : i = j,
         job' = [job EXCEPT ![j] = r], Emit(j, final),
         pending' \in Seq(Jobs),
         \A i \in DOMAIN pending' : job[pending'[i]].status # "none",
         UNCHANGED <<credits, charged, request, workers, restarts>>
  PROVE  IInv'
<1>1. /\ job'[j] = r /\ \A i \in Jobs : i # j => job'[i] = job[i]
      /\ job \in [Jobs -> Job] /\ job' \in [Jobs -> Job] /\ r.status # "none"
      /\ r.ver \in Nat
  BY DEF IInv, TypeOK, Job
<1>2. page' \in [Pages -> Page]
  BY <1>1, EmitTypes
<1>3. TypeOK'
  BY <1>1, <1>2 DEF IInv, TypeOK
<1>4. Priced'
  BY DEF IInv, Priced
<1>5. Booked'
  <2>1. \A i \in DOMAIN pending' : job'[pending'[i]].status # "none"
    BY <1>1
  <2>2. \A d \in Dubs : request'[d].pc # "created" => job'[d].status = "none"
    BY <1>1 DEF IInv, Booked, Jobs
  <2>3. \A i \in Jobs : job'[i].status # "none" =>
          job'[i].file \in Dubs /\ request'[job'[i].file].pc = "created"
    BY <1>1 DEF IInv, Booked
  <2> QED BY <2>1, <2>2, <2>3 DEF Booked
<1>6. Alone'
  BY <1>1 DEF IInv, Alone, Running
<1>7. PaidForWhatRuns'
  BY <1>1 DEF IInv, PaidForWhatRuns
<1>8. \A p \in Pages : Follows(page[p])'
  BY <1>1, EmitFollows
<1> QED BY <1>3, <1>4, <1>5, <1>6, <1>7, <1>8 DEF IInv

\* The worker runs one job or none.
LEMMA AtMostOne ==
  ASSUME IInv
  PROVE  /\ Cardinality(Running) <= 1
         /\ Cardinality(Running) < workers => Running = {}
<1>1. workers \in {0, 1} /\ \A i, j \in Running : i = j
  BY DEF IInv, Alone
<1>2. CASE Running = {}
  BY <1>1, <1>2, FS_EmptySet
<1>3. ASSUME NEW j \in Running PROVE Running = {j} /\ Cardinality(Running) = 1
  <2>1. Running = {j}
    BY <1>1
  <2> QED BY <2>1, FS_Singleton
<1> QED BY <1>1, <1>2, <1>3

\* The worker takes the next job.
LEMMA StartKeeps == ASSUME IInv, Start PROVE IInv'
<1> DEFINE j == Head(pending)
           r == [job[j] EXCEPT !.status = "running", !.ver = job[j].ver + 1]
<1>1. /\ pending # << >> /\ Running = {} /\ pending' = Tail(pending)
      /\ UNCHANGED <<credits, charged, request, workers, restarts>>
      /\ Emit(j, FALSE) /\ pending \in Seq(Jobs)
  BY AtMostOne DEF Start, IInv, TypeOK
<1>2. /\ j \in Jobs /\ pending' \in Seq(Jobs) /\ job[j].status # "none"
      /\ \A i \in DOMAIN pending' : job[pending'[i]].status # "none"
  <2>1. /\ DOMAIN pending = 1 .. Len(pending) /\ Len(pending) \in Nat \ {0}
        /\ j = pending[1] /\ 1 \in DOMAIN pending
    BY <1>1
  <2>2. /\ pending' \in Seq(Jobs) /\ Len(pending') = Len(pending) - 1
        /\ \A i \in DOMAIN pending' : pending'[i] = pending[i + 1] /\ i + 1 \in DOMAIN pending
    BY <1>1, <2>1
  <2>3. \A i \in DOMAIN pending : pending[i] \in Jobs /\ job[pending[i]].status # "none"
    BY <1>1 DEF IInv, Booked
  <2> QED BY <2>1, <2>2, <2>3
<1>3. job[j] \in Job /\ job[j].ver + 1 \in Nat
  BY <1>2 DEF IInv, TypeOK, Job
<1>4. job' = [job EXCEPT ![j] = r]
  BY DEF Start
<1> HIDE DEF j
<1>5. /\ r \in Job /\ r.status = "running" /\ r.file = job[j].file
      /\ r.length = job[j].length /\ r.ver = job[j].ver + 1
  <2> DEFINE next == job[j].ver + 1
  <2>1. next \in Nat /\ r = [job[j] EXCEPT !.status = "running", !.ver = next]
    BY <1>3
  <2> HIDE DEF next, r
  <2>2. /\ r \in Job /\ r.status = "running" /\ r.file = job[j].file
        /\ r.length = job[j].length /\ r.ver = next
    BY <1>3, <2>1 DEF Job, Statuses
  <2> QED BY <2>2 DEF next
<1> HIDE DEF r
<1> QED BY <1>1, <1>2, <1>4, <1>5, JobGoesOn

\* Whatever the running job does next, its page hears of in order.
LEMMA RunningGoesOn ==
  ASSUME IInv, NEW j \in Running, NEW final \in BOOLEAN,
         NEW status \in {"running", "completed", "failed"}, NEW texts \in BOOLEAN,
         job' = [job EXCEPT ![j] = [job[j] EXCEPT !.status = status, !.ver = job[j].ver + 1,
                                                  !.texts = texts]],
         Emit(j, final),
         UNCHANGED <<credits, charged, request, pending, workers, restarts>>
  PROVE  IInv'
<1> DEFINE next == job[j].ver + 1
           r == [job[j] EXCEPT !.status = status, !.ver = next, !.texts = texts]
<1>1. /\ j \in Jobs /\ job[j] \in Job /\ job[j].status # "none" /\ next \in Nat
      /\ \A i \in Running : i = j
      /\ pending \in Seq(Jobs) /\ \A i \in DOMAIN pending : job[pending[i]].status # "none"
  BY DEF Running, IInv, TypeOK, Job, Alone, Booked
<1>2. job' = [job EXCEPT ![j] = r]
  OBVIOUS
<1> HIDE DEF next
<1>3. /\ r \in Job /\ r.status = status /\ r.file = job[j].file
      /\ r.length = job[j].length /\ r.ver = next
  BY <1>1 DEF Job, Statuses
<1> HIDE DEF r
<1>4. r.ver = job[j].ver + 1
  BY <1>3 DEF next
<1> QED BY <1>1, <1>2, <1>3, <1>4, JobGoesOn

\* The running job reports.
LEMMA ProgressKeeps == ASSUME IInv, NEW j \in Jobs, Progress(j) PROVE IInv'
<1>1. j \in Running /\ job \in [Jobs -> Job] /\ job[j] \in Job /\ job[j].status = "running"
  BY DEF Progress, Running, IInv, TypeOK
<1>2. PICK texts \in {job[j].texts, TRUE} : job' = [job EXCEPT ![j].ver = @ + 1, ![j].texts = texts]
  BY DEF Progress
<1>3. texts \in BOOLEAN
  BY <1>1 DEF Job
<1>4. job' = [job EXCEPT ![j] = [job[j] EXCEPT !.ver = job[j].ver + 1, !.texts = texts]]
  BY <1>2
<1>5. [job[j] EXCEPT !.ver = job[j].ver + 1, !.texts = texts]
        = [job[j] EXCEPT !.status = "running", !.ver = job[j].ver + 1, !.texts = texts]
  BY <1>1 DEF Job
<1> QED BY <1>1, <1>3, <1>4, <1>5, RunningGoesOn DEF Progress

\* The running job ends.
LEMMA FinishKeeps == ASSUME IInv, NEW j \in Jobs, Finish(j) PROVE IInv'
<1>1. j \in Running /\ job[j] \in Job
  BY DEF Finish, Running, IInv, TypeOK
<1>2. PICK status \in {"completed", "failed"} : job' = [job EXCEPT ![j].status = status, ![j].ver = @ + 1]
  BY DEF Finish
<1>3. job[j].texts \in BOOLEAN
  BY <1>1 DEF Job
<1>4. job' = [job EXCEPT ![j] = [job[j] EXCEPT !.status = status, !.ver = job[j].ver + 1]]
  BY <1>2
<1>5. [job[j] EXCEPT !.status = status, !.ver = job[j].ver + 1]
        = [job[j] EXCEPT !.status = status, !.ver = job[j].ver + 1, !.texts = job[j].texts]
  BY <1>1 DEF Job
<1> QED BY <1>1, <1>3, <1>4, <1>5, RunningGoesOn DEF Finish

-----------------------------------------------------------------------------
(* Pages.                                                                  *)

NoneGoesBack == \A p \in Pages : page'[p].seen >= page[p].seen

(* A step of one page, to where it shows nothing older.                    *)
LEMMA PageMoves ==
  ASSUME IInv, NEW p \in Pages, NEW s \in Page, Follows(s), s.seen >= page[p].seen,
         Turn(p, s)
  PROVE  IInv' /\ NoneGoesBack
<1>1. /\ page' = [page EXCEPT ![p] = s] /\ page \in [Pages -> Page]
      /\ UNCHANGED <<credits, charged, request, job, pending, workers, restarts>>
  BY DEF Turn, IInv, TypeOK
<1>2. /\ page'[p] = s /\ \A r \in Pages : r # p => page'[r] = page[r]
      /\ page' \in [Pages -> Page]
  BY <1>1
<1>3. TypeOK'
  BY <1>1, <1>2 DEF IInv, TypeOK
<1>4. Priced' /\ Booked' /\ Alone' /\ PaidForWhatRuns'
  BY <1>1 DEF IInv, Priced, Booked, Alone, Running, PaidForWhatRuns
<1>5. \A r \in Pages : Follows(page'[r])
  BY <1>2 DEF IInv
<1>6. \A r \in Pages : Follows(page[r])'
  BY <1>1, <1>5 DEF Follows
<1>7. \A r \in Pages : page[r].seen \in Nat
  BY <1>1 DEF Page
<1>8. NoneGoesBack
  BY <1>2, <1>7 DEF NoneGoesBack
<1> QED BY <1>3, <1>4, <1>6, <1>8 DEF IInv

\* Nothing is on its way.
LEMMA EmptyIsSeq == << >> \in Seq(Event)
OBVIOUS

\* What a page and the jobs it may follow are made of.
LEMMA PageTypes ==
  ASSUME IInv, NEW p \in Pages
  PROVE  /\ page[p] \in Page /\ Follows(page[p]) /\ page[p].seen \in Nat
         /\ page[p].events \in Seq(Event)
         /\ \A j \in Jobs : job[j] \in Job /\ job[j].ver \in Nat
         /\ None \notin Jobs
<1>1. page[p] \in Page /\ Follows(page[p]) /\ \A j \in Jobs : job[j] \in Job
  BY DEF IInv, TypeOK
<1>2. page[p].seen \in Nat /\ page[p].events \in Seq(Event)
  BY <1>1 DEF Page
<1>3. \A j \in Jobs : job[j].ver \in Nat
  BY <1>1 DEF Job
<1> QED BY <1>1, <1>2, <1>3, DubJobsAssumption

\* A page opens the stream.
LEMMA SubscribeKeeps ==
  ASSUME IInv, NEW p \in Pages, NEW j \in Jobs, Subscribe(p, j)
  PROVE  IInv' /\ NoneGoesBack
<1>1. page[p] = NoPage /\ job[j].status # "none"
  BY PageTypes DEF Subscribe, Follows
<1>2. page[p].seen = 0 /\ NoPage.seen = 0 /\ NoPage.events = << >>
  BY <1>1 DEF NoPage
<1>3. CASE Turn(p, [NoPage EXCEPT !.pc = "poll", !.job = j])
  <2> DEFINE q == [NoPage EXCEPT !.pc = "poll", !.job = j]
  <2>1. /\ q \in Page /\ q.pc = "poll" /\ q.job = j /\ q.seen = 0 /\ q.events = << >>
    BY EmptyIsSeq DEF NoPage, Page
  <2>2. Turn(p, q)
    BY <1>3
  <2> HIDE DEF q
  <2>3. Follows(q)
    BY <1>1, <2>1, PageTypes DEF Follows
  <2> QED BY <1>2, <2>1, <2>2, <2>3, PageMoves
<1>4. CASE Turn(p, [NoPage EXCEPT !.pc = "sent", !.job = j,
                                  !.events = <<[ver |-> job[j].ver, final |-> Ended(j)]>>])
  <2> DEFINE ev  == [ver |-> job[j].ver, final |-> Ended(j)]
             evs == <<ev>>
             q   == [NoPage EXCEPT !.pc = "sent", !.job = j, !.events = evs]
  <2>1. ev \in Event /\ ev.ver = job[j].ver
    BY PageTypes DEF Event, Ended
  <2>2. Turn(p, q)
    BY <1>4
  <2> HIDE DEF ev
  <2>3. evs \in Seq(Event) /\ evs # << >> /\ DOMAIN evs = {1} /\ evs[1] = ev
    BY <2>1
  <2> HIDE DEF evs
  <2>4. q \in Page /\ q.pc = "sent" /\ q.job = j /\ q.seen = 0 /\ q.events = evs
    BY <2>3 DEF NoPage, Page
  <2> HIDE DEF q
  <2>5. Follows(q)
    BY <1>1, <2>1, <2>3, <2>4, PageTypes DEF Follows
  <2> QED BY <1>2, <2>2, <2>4, <2>5, PageMoves
<1> QED BY <1>3, <1>4 DEF Subscribe

(* The first event on its way is shown, and the stream goes on or ends.    *)
LEMMA Shows ==
  ASSUME IInv, NEW p \in Pages, page[p].events # << >>, page[p].job \in Jobs,
         page[p].pc # "idle",
         NEW pc \in {"told", "poll", "open"}, NEW closed \in BOOLEAN,
         NEW evs \in {<< >>, Tail(page[p].events)}, pc = "poll" => evs = << >>,
         Turn(p, [page[p] EXCEPT !.seen = Head(page[p].events).ver, !.pc = pc,
                                 !.closed = closed, !.events = evs])
  PROVE  IInv' /\ NoneGoesBack
<1> DEFINE first == Head(page[p].events).ver
           q == [page[p] EXCEPT !.seen = first, !.pc = pc, !.closed = closed, !.events = evs]
           old == page[p].events
<1>1. /\ old \in Seq(Event) /\ Len(old) \in Nat \ {0} /\ DOMAIN old = 1 .. Len(old)
      /\ Head(old) = old[1] /\ 1 \in DOMAIN old /\ Tail(old) \in Seq(Event)
      /\ DOMAIN Tail(old) = 1 .. Len(old) - 1
      /\ \A i \in 1 .. Len(old) - 1 : Tail(old)[i] = old[i + 1]
  BY PageTypes
<1>2. \A i \in DOMAIN old : old[i].ver \in Nat
  <2>1. \A e \in Event : e.ver \in Nat
    BY DEF Event
  <2> QED BY <1>1, <2>1
<1>3. first \in Nat /\ first = old[1].ver
  BY <1>1, <1>2
<1>4. evs \in Seq(Event)
  BY <1>1, EmptyIsSeq
<1>5. /\ page[p].seen <= old[1].ver
      /\ old[1].ver <= job[page[p].job].ver
      /\ \A i \in DOMAIN old :
            /\ old[1].ver <= old[i].ver
            /\ old[i].ver <= job[page[p].job].ver
            /\ \A k \in DOMAIN old : i <= k => old[i].ver <= old[k].ver
      /\ job[page[p].job].status # "none"
  BY <1>1, PageTypes DEF Follows
<1>6. \A i \in DOMAIN evs :
            /\ first <= evs[i].ver
            /\ evs[i].ver <= job[page[p].job].ver
            /\ \A k \in DOMAIN evs : i <= k => evs[i].ver <= evs[k].ver
  <2>1. CASE evs = << >>
    BY <2>1
  <2>2. CASE evs = Tail(old)
    <3> SUFFICES ASSUME NEW i \in 1 .. Len(old) - 1, NEW k \in 1 .. Len(old) - 1
                 PROVE  /\ first <= old[i + 1].ver
                        /\ old[i + 1].ver <= job[page[p].job].ver
                        /\ i <= k => old[i + 1].ver <= old[k + 1].ver
      BY <1>1, <2>2
    <3>1. i + 1 \in DOMAIN old /\ k + 1 \in DOMAIN old /\ (i <= k => i + 1 <= k + 1)
      BY <1>1
    <3> HIDE DEF old
    <3> QED BY <1>3, <1>5, <3>1
  <2> QED BY <2>1, <2>2
<1>7. Turn(p, q)
  OBVIOUS
<1> HIDE DEF first
<1>8. /\ q \in Page /\ q.seen = first /\ q.pc = pc /\ q.job = page[p].job /\ q.events = evs
  BY <1>3, <1>4, PageTypes DEF Page
<1> HIDE DEF q
<1>9. Follows(q)
  BY <1>3, <1>5, <1>6, <1>8 DEF Follows
<1>10. q.seen >= page[p].seen
  BY <1>3, <1>5, <1>8
<1> QED BY <1>7, <1>8, <1>9, <1>10, PageMoves

\* The stream begins with a snapshot.
LEMMA SnapshotKeeps == ASSUME IInv, NEW p \in Pages, Snapshot(p) PROVE IInv' /\ NoneGoesBack
<1> DEFINE s      == page[p]
           final  == Head(s.events).final
           pc     == IF final THEN "told" ELSE IF Ended(s.job) THEN "poll" ELSE "open"
           closed == ~ final /\ Ended(s.job)
           evs    == IF final \/ Ended(s.job) THEN << >> ELSE Tail(s.events)
<1>1. s.pc = "sent" /\ s.events # << >> /\ s.job \in Jobs
  BY PageTypes DEF Snapshot, Follows
<1>2. Turn(p, [s EXCEPT !.seen = Head(s.events).ver, !.pc = pc, !.closed = closed, !.events = evs])
  BY DEF Snapshot
<1>3. /\ pc \in {"told", "poll", "open"} /\ closed \in BOOLEAN
      /\ evs \in {<< >>, Tail(s.events)} /\ (pc = "poll" => evs = << >>)
  OBVIOUS
<1> HIDE DEF pc, closed, evs
<1> QED BY <1>1, <1>2, <1>3, Shows

\* An event arrives.
LEMMA ReceiveKeeps == ASSUME IInv, NEW p \in Pages, Receive(p) PROVE IInv' /\ NoneGoesBack
<1> DEFINE s      == page[p]
           final  == Head(s.events).final
           pc     == IF final THEN "told" ELSE "open"
           evs    == IF final THEN << >> ELSE Tail(s.events)
<1>1. s.pc = "open" /\ s.events # << >> /\ s.job \in Jobs /\ s.closed \in BOOLEAN
  BY PageTypes DEF Receive, Follows, Page
<1>2. Turn(p, [s EXCEPT !.seen = Head(s.events).ver, !.pc = pc, !.events = evs])
  BY DEF Receive
<1>3. [s EXCEPT !.seen = Head(s.events).ver, !.pc = pc, !.events = evs]
        = [s EXCEPT !.seen = Head(s.events).ver, !.pc = pc, !.closed = s.closed, !.events = evs]
  BY PageTypes DEF Page
<1>4. /\ pc \in {"told", "poll", "open"}
      /\ evs \in {<< >>, Tail(s.events)} /\ (pc = "poll" => evs = << >>)
  OBVIOUS
<1> HIDE DEF pc, evs
<1> QED BY <1>1, <1>2, <1>3, <1>4, Shows

\* The connection breaks: the page polls.
LEMMA DropKeeps == ASSUME IInv, NEW p \in Pages, Drop(p) PROVE IInv' /\ NoneGoesBack
<1> DEFINE q == [page[p] EXCEPT !.pc = "poll", !.events = << >>]
<1>1. page[p].pc \in {"sent", "open"} /\ Turn(p, q)
  BY DEF Drop
<1>2. /\ q \in Page /\ q.pc = "poll" /\ q.events = << >>
      /\ q.job = page[p].job /\ q.seen = page[p].seen
  BY EmptyIsSeq, PageTypes DEF Page
<1> HIDE DEF q
<1>3. Follows(q)
  BY <1>1, <1>2, PageTypes DEF Follows
<1>4. q.seen >= page[p].seen
  BY <1>2, PageTypes
<1> QED BY <1>1, <1>2, <1>3, <1>4, PageMoves

\* A poll is answered.
LEMMA PollKeeps == ASSUME IInv, NEW p \in Pages, Poll(p) PROVE IInv' /\ NoneGoesBack
<1> DEFINE now == job[page[p].job].ver
           pc  == IF Ended(page[p].job) THEN "told" ELSE "poll"
           q   == [page[p] EXCEPT !.seen = now, !.pc = pc]
<1>1. page[p].pc = "poll" /\ Turn(p, q)
  BY DEF Poll
<1>2. /\ page[p].job \in Jobs /\ job[page[p].job].status # "none" /\ page[p].events = << >>
      /\ now \in Nat /\ page[p].seen <= now
  BY <1>1, PageTypes DEF Follows
<1>3. pc \in {"told", "poll"}
  OBVIOUS
<1> HIDE DEF now, pc
<1>4. q \in Page /\ q.pc = pc /\ q.events = << >> /\ q.job = page[p].job /\ q.seen = now
  BY <1>2, <1>3, PageTypes DEF Page
<1> HIDE DEF q
<1>5. Follows(q)
  BY <1>2, <1>3, <1>4 DEF Follows, now
<1>6. q.seen >= page[p].seen
  BY <1>2, <1>4, PageTypes
<1> QED BY <1>1, <1>4, <1>5, <1>6, PageMoves

-----------------------------------------------------------------------------
(* The backend restarts.                                                   *)

LEMMA RestartKeeps == ASSUME IInv, Restart PROVE IInv' /\ NoneGoesBack
<1>1. /\ restarts' \in Nat /\ pending' = << >> /\ workers' = 0
      /\ UNCHANGED <<credits, charged>>
      /\ job \in [Jobs -> Job] /\ request \in [Dubs -> Request] /\ page \in [Pages -> Page]
  <2>1. restarts \in Nat /\ restarts' = restarts + 1
    BY DEF Restart, IInv, TypeOK
  <2>2. pending' = << >> /\ workers' = 0 /\ UNCHANGED <<credits, charged>>
    BY DEF Restart
  <2>3. job \in [Jobs -> Job] /\ request \in [Dubs -> Request] /\ page \in [Pages -> Page]
    BY DEF IInv, TypeOK
  <2> QED BY <2>1, <2>2, <2>3
<1>2. \A j \in Jobs : /\ job'[j] \in Job /\ job'[j].ver = job[j].ver
                      /\ job'[j].file = job[j].file /\ job'[j].length = job[j].length
                      /\ job'[j].status = "none" <=> job[j].status = "none"
                      /\ job'[j].status # "running"
  <2> TAKE j \in Jobs
  <2>1. job'[j] = IF job[j].status = "none" THEN job[j] ELSE [job[j] EXCEPT !.status = "lost"]
    BY DEF Restart
  <2>2. job[j] \in Job
    BY <1>1
  <2> QED BY <2>1, <2>2 DEF Job, Statuses
<1>3. job' \in [Jobs -> Job]
  BY <1>2 DEF Restart
<1>4. \A d \in Dubs : /\ request'[d] \in Request
                      /\ request'[d].pc = "created" <=> request[d].pc = "created"
                      /\ request'[d].pc \notin {"cut", "charge", "create"}
  <2> TAKE d \in Dubs
  <2>1. request'[d] = IF request[d].pc \in {"new", "created", "refused", "error"}
                      THEN request[d] ELSE [request[d] EXCEPT !.pc = "error"]
    BY DEF Restart
  <2>2. request[d] \in Request
    BY <1>1
  <2> QED BY <2>1, <2>2 DEF Request
<1>5. request' \in [Dubs -> Request]
  BY <1>4 DEF Restart
<1>6. \A p \in Pages :
        \/ page'[p] = page[p] /\ page[p].pc \notin {"sent", "open"}
        \/ /\ page[p].pc \in {"sent", "open"}
           /\ page'[p] \in Page /\ page'[p].pc = "poll" /\ page'[p].events = << >>
           /\ page'[p].job = page[p].job /\ page'[p].seen = page[p].seen
  <2> TAKE p \in Pages
  <2>1. page'[p] = IF page[p].pc \in {"sent", "open"}
                   THEN [page[p] EXCEPT !.pc = "poll", !.events = << >>] ELSE page[p]
    BY DEF Restart
  <2>2. page[p] \in Page
    BY <1>1
  <2>3. CASE page[p].pc \in {"sent", "open"}
    <3> DEFINE q == [page[p] EXCEPT !.pc = "poll", !.events = << >>]
    <3>1. page'[p] = q
      BY <2>1, <2>3
    <3>2. /\ q \in Page /\ q.pc = "poll" /\ q.events = << >>
          /\ q.job = page[p].job /\ q.seen = page[p].seen
      BY <2>2, EmptyIsSeq DEF Page
    <3> QED BY <2>3, <3>1, <3>2
  <2> QED BY <2>1, <2>3
<1>7. page' \in [Pages -> Page]
  BY <1>1, <1>6 DEF Restart
<1>8. TypeOK'
  BY <1>1, <1>3, <1>5, <1>7 DEF IInv, TypeOK
<1>9. Priced'
  BY <1>4 DEF Priced
<1>10. Booked'
  BY <1>1, <1>2, <1>4 DEF IInv, Booked, Jobs
<1>11. Alone'
  BY <1>1, <1>2 DEF Alone, Running
<1>12. PaidForWhatRuns'
  BY <1>1, <1>2 DEF IInv, PaidForWhatRuns
<1>13. ASSUME NEW p \in Pages PROVE Follows(page[p])'
  <2>1. Follows(page[p])
    BY DEF IInv
  <2>2. CASE page'[p] = page[p] /\ page[p].pc \notin {"sent", "open"}
    BY <1>2, <2>1, <2>2 DEF Follows
  <2>3. CASE page'[p].pc = "poll" /\ page[p].pc \in {"sent", "open"}
    BY <1>2, <1>6, <2>1, <2>3 DEF Follows
  <2> QED BY <1>6, <2>2, <2>3
<1>14. NoneGoesBack
  <2>1. \A p \in Pages : page[p].seen \in Nat /\ page'[p].seen = page[p].seen
    BY <1>6, PageTypes
  <2> QED BY <2>1 DEF NoneGoesBack
<1> QED BY <1>8, <1>9, <1>10, <1>11, <1>12, <1>13, <1>14 DEF IInv

-----------------------------------------------------------------------------
(* The specification keeps the invariant.                                  *)

LEMMA InitHolds == Init => IInv
<1> SUFFICES ASSUME Init PROVE IInv
  OBVIOUS
<1>1. /\ NoJob \in Job /\ NoJob.status = "none"
      /\ NoPage \in Page /\ NoPage.pc = "idle" /\ NoPage.job = None
  BY EmptyIsSeq DEF NoJob, Job, Statuses, NoPage, Page
<1> DEFINE r == [pc |-> "new", length |-> 0, billed |-> 0]
<1>2. r \in Request /\ r.pc = "new"
  BY DEF Request
<1>3. /\ request = [d \in Dubs |-> r] /\ job = [j \in Jobs |-> NoJob]
      /\ page = [p \in Pages |-> NoPage] /\ credits \in Nat
      /\ charged = [d \in Dubs |-> 0] /\ pending = << >> /\ workers = 0 /\ restarts = 0
  BY DubJobsAssumption DEF Init
<1> HIDE DEF r
<1>4. TypeOK
  <2>1. pending \in Seq(Jobs)
    BY <1>3
  <2>2. request \in [Dubs -> Request] /\ job \in [Jobs -> Job] /\ page \in [Pages -> Page]
    BY <1>1, <1>2, <1>3
  <2>3. charged \in [Dubs -> Nat] /\ workers \in Nat /\ restarts \in Nat
    BY <1>3
  <2> QED BY <1>3, <2>1, <2>2, <2>3 DEF TypeOK
<1>5. Priced
  BY <1>2, <1>3 DEF Priced
<1>6. Booked
  BY <1>1, <1>3 DEF Booked, Jobs
<1>7. Alone
  BY <1>1, <1>3 DEF Alone, Running
<1>8. PaidForWhatRuns
  BY <1>1, <1>3 DEF PaidForWhatRuns
<1>9. \A p \in Pages : Follows(page[p])
  BY <1>1, <1>3, DubJobsAssumption DEF Follows
<1> QED BY <1>4, <1>5, <1>6, <1>7, <1>8, <1>9 DEF IInv

\* A step of the backend changes nothing a page shows.
LEMMA SameShown ==
  ASSUME IInv, UNCHANGED page \/ \E j \in Jobs, final \in BOOLEAN : Emit(j, final)
  PROVE  NoneGoesBack
<1> SUFFICES ASSUME NEW p \in Pages PROVE page'[p].seen >= page[p].seen
  BY DEF NoneGoesBack
<1>1. page[p] \in Page /\ page[p].seen \in Nat
  BY PageTypes
<1>2. page'[p].seen = page[p].seen
  <2>1. ASSUME NEW j \in Jobs, NEW final \in BOOLEAN, Emit(j, final)
        PROVE  page'[p].seen = page[p].seen
    <3> DEFINE more == Append(page[p].events, [ver |-> job'[j].ver, final |-> final])
    <3>1. page'[p] = [page[p] EXCEPT !.events = more] \/ page'[p] = page[p]
      BY <2>1, <1>1 DEF Emit, Page
    <3> HIDE DEF more
    <3> QED BY <1>1, <3>1 DEF Page
  <2> QED BY <2>1
<1> QED BY <1>1, <1>2

\* The pages are not moved by a request.
LEMMA CreateJobKeeps ==
  ASSUME IInv, NEW d \in Dubs, CreateJob(d)
  PROVE  IInv' /\ NoneGoesBack
<1>1. IInv'
  BY FetchKeeps, PreflightKeeps, CutKeeps, ChargeKeeps, UnheardKeeps, CreateKeeps DEF CreateJob
<1>2. UNCHANGED page
  BY DEF CreateJob, Fetch, Preflight, Cut, Charge, Unheard, Create
<1> QED BY <1>1, <1>2, SameShown

\* The pages are not moved by the worker.
LEMMA WorkerKeeps == ASSUME IInv, Worker PROVE IInv' /\ NoneGoesBack
<1>1. IInv'
  BY StartKeeps, ProgressKeeps, FinishKeeps DEF Worker
<1>2. \E j \in Jobs, final \in BOOLEAN : Emit(j, final)
  <2>1. CASE Start
    <3>1. Head(pending) \in Jobs
      BY <2>1 DEF Start, IInv, TypeOK
    <3> QED BY <2>1, <3>1 DEF Start
  <2>2. ASSUME NEW j \in Jobs, Progress(j) \/ Finish(j)
        PROVE \E i \in Jobs, final \in BOOLEAN : Emit(i, final)
    BY <2>2 DEF Progress, Finish
  <2> QED BY <2>1, <2>2 DEF Worker
<1> QED BY <1>1, <1>2, SameShown

\* One case per action.
LEMMA StepKeeps == IInv /\ [Next]_vars => IInv' /\ NoneGoesBack
<1> SUFFICES ASSUME IInv, [Next]_vars PROVE IInv' /\ NoneGoesBack
  OBVIOUS
<1>1. CASE UNCHANGED vars
  <2>1. IInv'
    BY <1>1 DEF vars, IInv, TypeOK, Priced, Booked, Alone, Running, PaidForWhatRuns, Follows
  <2> QED BY <1>1, <2>1, SameShown DEF vars
<1>2. ASSUME NEW d \in Dubs, CreateJob(d) PROVE IInv' /\ NoneGoesBack
  BY <1>2, CreateJobKeeps
<1>3. ASSUME NEW v \in Voicings, Revoice(v) PROVE IInv' /\ NoneGoesBack
  BY <1>3, RevoiceKeeps, SameShown DEF Revoice
<1>4. CASE Worker
  BY <1>4, WorkerKeeps
<1>5. ASSUME NEW p \in Pages, (\E j \in Jobs : Subscribe(p, j)) \/ Follow(p) \/ Drop(p)
      PROVE IInv' /\ NoneGoesBack
  BY <1>5, SubscribeKeeps, SnapshotKeeps, ReceiveKeeps, PollKeeps, DropKeeps DEF Follow
<1>6. CASE Restart
  BY <1>6, RestartKeeps
<1> QED BY <1>1, <1>2, <1>3, <1>4, <1>5, <1>6 DEF Next

\* The invariant, in every behaviour.
LEMMA Invariant == Spec => []IInv
<1>1. IInv /\ [Next]_vars => IInv'
  BY StepKeeps
<1> QED BY <1>1, InitHolds, PTL DEF Spec

(* The variables of DubJobs keep their types.                              *)
THEOREM TypeCorrect == Spec => []TypeOK
<1>1. IInv => TypeOK
  BY DEF IInv
<1> QED BY <1>1, Invariant, PTL

(* Whatever is cut, charged, lost on the way, voiced again or lost in a    *)
(* restart, every job runs on a file that was paid for, to within a frame  *)
(* (main.py:283-336).                                                      *)
THEOREM PaidForRuns == Spec => []PaidForWhatRuns
<1>1. IInv => PaidForWhatRuns
  BY DEF IInv
<1> QED BY <1>1, Invariant, PTL

(* However many requests register jobs at once, one runs at a time         *)
(* (jobs.py:97-112).                                                       *)
THEOREM NeverTwoAtOnce == Spec => []OneAtATime
<1>1. IInv => OneAtATime
  BY AtMostOne DEF OneAtATime
<1> QED BY <1>1, Invariant, PTL

(* Through its snapshot, its events, and the switch to polling, whenever   *)
(* the connection breaks, a page never shows an older state of its job     *)
(* (api.ts:238-310).                                                       *)
THEOREM OnlyForward == Spec => NeverGoesBack
<1>1. IInv /\ [Next]_vars => [NoneGoesBack]_page
  BY StepKeeps
<1>2. NoneGoesBack => \A p \in Pages : page'[p].seen >= page[p].seen
  BY DEF NoneGoesBack
<1>3. IInv /\ [Next]_vars => [\A p \in Pages : page'[p].seen >= page[p].seen]_page
  BY <1>1, <1>2
<1> QED BY <1>3, Invariant, PTL DEF Spec, NeverGoesBack

-----------------------------------------------------------------------------
(* The quote.                                                              *)

(* What canDub says a balance pays for, commitDub can charge, whatever the *)
(* balance, the clip and the quality.                                      *)
THEOREM QuotesAreAffordable == QuoteIsAffordable
<1> SUFFICES ASSUME NEW b \in Balances, NEW length \in Clips, NEW q \in Qualities
             PROVE  /\ BillableCost(b, length, q) <= b
                    /\ Allowed(b, length, q) => BillableCost(b, length, q) > 0
  BY DEF QuoteIsAffordable
<1> DEFINE n == AffordableSeconds(b, q)
           r == RateFor(q)
<1>1. b \in Nat /\ length \in Nat
  BY DubJobsAssumption
<1>2. r \in {10, 20, 40}
  BY Rates
<1>3. n \in Nat /\ (n = 0 \/ n * r <= 60 * b)
  BY <1>1, <1>2, SecondsWithin
<1> DEFINE ms == Billable(b, length, q)
<1>4. ms \in Nat /\ ms <= 1000 * n
  BY <1>1, <1>3 DEF Billable
<1> HIDE DEF ms
<1>5. ms = 0 \/ (b > 0 /\ ms * r <= 60000 * b)
  <2>1. CASE r = 10
    BY <1>1, <1>3, <1>4, <2>1
  <2>2. CASE r = 20
    BY <1>1, <1>3, <1>4, <2>2
  <2>3. CASE r = 40
    BY <1>1, <1>3, <1>4, <2>3
  <2>4. QED
    BY <1>2, <2>1, <2>2, <2>3
<1>6. CostForDub(ms, q) <= b
  BY <1>1, <1>4, <1>5, CostWithin
<1>7. ms > 0 => CostForDub(ms, q) > 0
  BY <1>1, <1>4, CostPositive
<1>8. QED
  BY <1>6, <1>7 DEF ms, BillableCost, Allowed

(* A clip is never cut a second shorter than the balance allows.           *)
THEOREM CutsAreTight == CutNoMoreThanNeeded
<1> SUFFICES ASSUME NEW b \in Balances, NEW length \in Clips, NEW q \in Qualities,
                    Trimmed(b, length, q)
             PROVE  CostForDub(Billable(b, length, q) + 1000, q) > b
  BY DEF CutNoMoreThanNeeded
<1> DEFINE n == AffordableSeconds(b, q)
           r == RateFor(q)
<1>1. b \in Nat /\ length \in Nat
  BY DubJobsAssumption
<1>2. r \in {10, 20, 40}
  BY Rates
<1>3. n \in Nat
  BY <1>1, SecondsWithin
<1>4. Billable(b, length, q) = 1000 * n
  BY <1>1, <1>3 DEF Trimmed, Billable
<1>5. (n + 1) * r > 60 * b
  <2>1. n + 1 \in Nat /\ ~ (n + 1 <= n) /\ n + 1 # 0
    BY <1>3
  <2>2. (n + 1) * r \in Nat /\ 60 * b \in Nat
    BY <1>1, <1>2, <1>3
  <2>3. ~ ((n + 1) * r <= 60 * b)
    BY <1>1, <2>1, SecondsWithin
  <2>4. QED
    BY <2>2, <2>3
<1> DEFINE ms == 1000 * n + 1000
<1>6. ms \in Nat /\ ms # 0 /\ ms * r > 60000 * b
  <2>1. CASE r = 10
    BY <1>1, <1>3, <1>5, <2>1
  <2>2. CASE r = 20
    BY <1>1, <1>3, <1>5, <2>2
  <2>3. CASE r = 40
    BY <1>1, <1>3, <1>5, <2>3
  <2>4. QED
    BY <1>2, <2>1, <2>2, <2>3
<1>7. ~ (ms * r <= 60000 * b)
  BY <1>1, <1>2, <1>6
<1>8. ~ (CostForDub(ms, q) <= b)
  BY <1>1, <1>6, <1>7, CostWithin
<1>9. CostForDub(ms, q) \in Nat
  BY <1>1, <1>6, CostPositive
<1>10. QED
  BY <1>1, <1>4, <1>8, <1>9

(* The two together, as the run checks them.                               *)
THEOREM QuotesAreRight == QuoteIsRight
<1> QED
  BY QuotesAreAffordable, CutsAreTight DEF QuoteIsRight
=============================================================================
