--------------------------- MODULE Subscriptions ---------------------------
(* The life of one account's Subscription row: Lemon Squeezy bills, fails  *)
(* to bill, cancels and expires its subscriptions; this side learns of it  *)
(* only by asking.  syncRenewals (from webhooks and from the hourly cron)  *)
(* credits the paid renewal invoices and mirrors LS's status,              *)
(* grantDueSubscriptions drips the allocations of a long period,           *)
(* expireLapsedSubscriptions puts lapsed rows on Free, the owner may       *)
(* cancel, and a claim of another plan order (see OrderClaims) may         *)
(* re-point the row to a new LS subscription at any moment.                *)
(*                                                                         *)
(* Every query, LS call and COMMIT is a step of its own; time passes       *)
(* between any two.                                                        *)
EXTENDS Integers, Sequences, FiniteSets

CONSTANTS
    LsSubs,          \* Lemon Squeezy subscriptions of the account
    First,           \* the one the row starts with
    Hooks,           \* webhook deliveries handled at once
    Cron,            \* the hourly job
    Drips,           \* runs of grantDueSubscriptions that overlap
    Period,          \* a billing period (cyclePeriodEnd)
    GrantEvery,      \* grantDays
    GrantsPerPeriod, \* allocations one paid period is worth
    Grace,           \* LS_RENEWAL_GRACE_MS
    Window,          \* how long past its period the cron looks at a row
    MaxTime,         \* bound: when the clock stops
    None

Syncs == Hooks \cup {Cron}

ASSUME SubscriptionsAssumption ==
    /\ First \in LsSubs /\ None \notin LsSubs
    /\ Cron \notin Hooks
    /\ Period \in Nat \ {0} /\ GrantEvery \in Nat \ {0}
    /\ GrantsPerPeriod \in Nat \ {0}
    /\ Grace \in Nat /\ Window \in Nat /\ MaxTime \in Nat

VARIABLES
    now,
    ls,       \* what LS has on each subscription
    invoices, \* when LS was paid each renewal of a subscription
    row,      \* the Subscription row
    payments, \* renewals with a Payment row: <<subscription, n>>
    alloc,    \* history: allocations granted to each paid period
    period,   \* history: the paid period the row stands for
    sync,     \* what each syncRenewals is doing
    drip,     \* the row as each grantDueSubscriptions read it, or None
    lapsed,   \* expireLapsedSubscriptions has found the row lapsed
    cancel    \* cancelSubscription: the LS subscription it is about, or None

lsVars   == <<ls, invoices>>
dbVars   == <<row, payments, alloc, period>>
jobVars  == <<sync, drip, lapsed, cancel>>
vars     == <<now, lsVars, dbVars, jobVars>>

-----------------------------------------------------------------------------

LsSub == [status    : {"none", "active", "past_due", "expired"},
          cancelled : BOOLEAN,
          renewsAt  : Nat]

Row == [ls        : LsSubs,   \* lsSubscriptionId
        plan      : LsSubs,   \* planId: the plan this LS subscription bills
        status    : {"ACTIVE", "PAST_DUE", "EXPIRED"},
        end       : Nat,      \* currentPeriodEnd
        leaving   : BOOLEAN,  \* cancelAtPeriodEnd
        lastGrant : Nat,
        issued    : Nat]      \* grantsIssued

Renewals == LsSubs \X (Nat \ {0})

Periods == LsSubs \X (0 .. MaxTime)

SyncPCs == {"idle", "status", "invoices", "known", "grant", "read", "write"}

Sync == [pc    : SyncPCs,
         sub   : LsSubs \cup {None}, \* lsSubscriptionId of the row it loaded
         said  : LsSub,              \* what LS said of it
         todo  : SUBSET (1 .. MaxTime), \* renewals to credit
         next  : {"ACTIVE", "PAST_DUE", "EXPIRED"} \cup {None}, \* status to write
         leave : BOOLEAN]            \* cancelAtPeriodEnd to write

NoSub == [status |-> "none", cancelled |-> FALSE, renewsAt |-> 0]

Idle == [pc |-> "idle", sub |-> None, said |-> NoSub, todo |-> {},
         next |-> None, leave |-> FALSE]

(* Just after the claim of the first plan order.                           *)
Fresh(s, end) == [ls |-> s, plan |-> s, status |-> "ACTIVE", end |-> end,
                  leaving |-> FALSE, lastGrant |-> now, issued |-> 1]

Init ==
    /\ now      = 0
    /\ ls       = [s \in LsSubs |->
                     IF s = First THEN [NoSub EXCEPT !.status = "active",
                                                     !.renewsAt = Period]
                                  ELSE NoSub]
    /\ invoices = [s \in LsSubs |-> << >>]
    /\ row      = Fresh(First, Period)
    /\ payments = {}
    /\ alloc    = [p \in Periods |-> IF p = <<First, 0>> THEN 1 ELSE 0]
    /\ period   = <<First, 0>>
    /\ sync     = [c \in Syncs |-> Idle]
    /\ drip     = [d \in Drips |-> None]
    /\ lapsed   = FALSE
    /\ cancel   = None

-----------------------------------------------------------------------------
(* The clock and Lemon Squeezy.                                            *)

Advance ==
    /\ now < MaxTime
    /\ now' = now + 1
    /\ UNCHANGED <<lsVars, dbVars, jobVars>>

Alive(s) == ls[s].status \in {"active", "past_due"}

(* LS charges the renewal: an invoice with billing_reason 'renewal'.  It   *)
(* gives a failing card up before another period has passed.               *)
Bill(s) ==
    /\ Alive(s) /\ ~ ls[s].cancelled
    /\ ls[s].renewsAt <= now /\ now < ls[s].renewsAt + Period
    /\ invoices' = [invoices EXCEPT ![s] = Append(@, now)]
    /\ ls' = [ls EXCEPT ![s].status = "active",
                        ![s].renewsAt = @ + Period]
    /\ UNCHANGED <<now, dbVars, jobVars>>

CardFails(s) ==
    /\ ls[s].status = "active" /\ ~ ls[s].cancelled /\ now >= ls[s].renewsAt
    /\ ls' = [ls EXCEPT ![s].status = "past_due"]
    /\ UNCHANGED <<now, invoices, dbVars, jobVars>>

(* The card was given up on, or a cancelled period has ended.              *)
LsExpires(s) ==
    /\ Alive(s) /\ now >= ls[s].renewsAt
    /\ ls[s].status = "past_due" \/ ls[s].cancelled
    /\ ls' = [ls EXCEPT ![s].status = "expired"]
    /\ UNCHANGED <<now, invoices, dbVars, jobVars>>

(* In LS's customer portal, or by claimOrders when a plan was replaced.    *)
CancelledAtLs(s) ==
    /\ Alive(s) /\ ~ ls[s].cancelled
    /\ ls' = [ls EXCEPT ![s].cancelled = TRUE]
    /\ UNCHANGED <<now, invoices, dbVars, jobVars>>

(* Another plan is bought; LS opens a subscription for it.                 *)
Buy(s) ==
    /\ ls[s].status = "none"
    /\ ls' = [ls EXCEPT ![s] = [NoSub EXCEPT !.status = "active",
                                             !.renewsAt = now + Period]]
    /\ UNCHANGED <<now, invoices, dbVars, jobVars>>

(* grantPlanOrder commits the order that opened s (see OrderClaims).       *)
Repoint(s) ==
    /\ ls[s].status # "none" /\ alloc[<<s, 0>>] = 0
    /\ row' = Fresh(s, ls[s].renewsAt)
    /\ alloc' = [alloc EXCEPT ![<<s, 0>>] = 1]
    /\ period' = <<s, 0>>
    /\ UNCHANGED <<now, lsVars, payments, jobVars>>

-----------------------------------------------------------------------------
(* syncRenewals.                                                           *)

Set(c, rec) == sync' = [sync EXCEPT ![c] = rec]

(* Definitions marked "Variant" are the next definition with one plausible *)
(* mistake in it, to see that a property notices.                          *)

(* Variant: rows already EXPIRED are not looked at again.                  *)
DueForSyncLive ==
    /\ row.status # "EXPIRED"
    /\ row.end <= now /\ now <= row.end + Window

(* The rows the cron asks LS about: at or past the end of their period,    *)
(* but not for longer than a card is retried.                              *)
DueForSync == row.end <= now /\ now <= row.end + Window

(* A webhook looks the row up by the LS subscription the event is about.   *)
Load(c) ==
    /\ sync[c].pc = "idle"
    /\ c = Cron => DueForSync
    /\ Set(c, [Idle EXCEPT !.pc = "status", !.sub = row.ls])
    /\ UNCHANGED <<now, lsVars, dbVars, drip, lapsed, cancel>>

FetchStatus(c) ==
    /\ sync[c].pc = "status"
    /\ Set(c, [sync[c] EXCEPT !.pc = "invoices", !.said = ls[sync[c].sub]])
    /\ UNCHANGED <<now, lsVars, dbVars, drip, lapsed, cancel>>

FetchInvoices(c) ==
    /\ sync[c].pc = "invoices"
    /\ Set(c, [sync[c] EXCEPT !.pc = "known",
                              !.todo = DOMAIN invoices[sync[c].sub]])
    /\ UNCHANGED <<now, lsVars, dbVars, drip, lapsed, cancel>>

ReadKnown(c) ==
    LET s == sync[c] IN
    /\ s.pc = "known"
    /\ Set(c, [s EXCEPT !.pc = "grant",
                        !.todo = {n \in s.todo : <<s.sub, n>> \notin payments}])
    /\ UNCHANGED <<now, lsVars, dbVars, drip, lapsed, cancel>>

(* Variant: newest invoice first.                                          *)
OldestNewest(c, n) == \A m \in sync[c].todo : m <= n

Oldest(c, n) == \A m \in sync[c].todo : n <= m

(* Variant: the end is always what LS said before the invoices were listed.*)
PeriodEndSaid(c, n) == sync[c].said.renewsAt

(* periodEndFor: LS's renews_at if it is after the invoice, else one       *)
(* period from the invoice.                                                *)
PeriodEnd(c, n) ==
    LET at == invoices[sync[c].sub][n] IN
    IF sync[c].said.renewsAt > at THEN sync[c].said.renewsAt ELSE at + Period

(* Variant: no UNIQUE column behind payment.create.                        *)
GrantRenewalAgain(c) ==
    LET s == sync[c] IN
    /\ s.pc = "grant"
    /\ \E n \in s.todo :
          /\ Oldest(c, n)
          /\ payments' = payments \cup {<<s.sub, n>>}
          /\ row' = [row EXCEPT !.plan = s.sub, !.status = "ACTIVE",
                                !.end = PeriodEnd(c, n),
                                !.lastGrant = now, !.issued = 1]
          /\ alloc' = [alloc EXCEPT ![<<s.sub, n>>] = @ + 1]
          /\ period' = <<s.sub, n>>
          /\ Set(c, [s EXCEPT !.todo = @ \ {n}])
    /\ UNCHANGED <<now, lsVars, drip, lapsed, cancel>>

(* grantRenewal's transaction: Payment row, new period, first allocation.  *)
(* It writes by the row's id: whatever the row has become meanwhile.       *)
GrantRenewal(c) ==
    LET s == sync[c] IN
    /\ s.pc = "grant"
    /\ \E n \in s.todo :
          /\ Oldest(c, n)
          /\ <<s.sub, n>> \notin payments
          /\ payments' = payments \cup {<<s.sub, n>>}
          /\ row' = [row EXCEPT !.plan = s.sub, !.status = "ACTIVE",
                                !.end = PeriodEnd(c, n),
                                !.lastGrant = now, !.issued = 1]
          /\ alloc' = [alloc EXCEPT ![<<s.sub, n>>] = @ + 1]
          /\ period' = <<s.sub, n>>
          /\ Set(c, [s EXCEPT !.todo = @ \ {n}])
    /\ UNCHANGED <<now, lsVars, drip, lapsed, cancel>>

(* The UNIQUE lsInvoiceId: a concurrent sync has credited it.              *)
Conflict(c) ==
    LET s == sync[c] IN
    /\ s.pc = "grant"
    /\ \E n \in s.todo : /\ Oldest(c, n) /\ <<s.sub, n>> \in payments
                         /\ Set(c, [s EXCEPT !.todo = @ \ {n}])
    /\ UNCHANGED <<now, lsVars, dbVars, drip, lapsed, cancel>>

(* Variant: LS's word for the status is written as it is.                  *)
ApplyReadRaw(c) ==
    LET s == sync[c] IN
    /\ s.pc = "grant" /\ s.todo = {}
    /\ Set(c, [s EXCEPT !.pc = "write", !.next = s.said.status])
    /\ UNCHANGED <<now, lsVars, dbVars, drip, lapsed, cancel>>

(* applyLsStatus reads the row and settles what to write,                  *)
ApplyRead(c) ==
    LET s == sync[c]
        next == IF s.said.status = "expired" /\ row.status # "EXPIRED"
                THEN "EXPIRED"
                ELSE IF s.said.status = "past_due" /\ row.status = "ACTIVE"
                THEN "PAST_DUE" ELSE None
        leave == s.said.cancelled /\ ~ row.leaving
    IN
    /\ s.pc = "grant" /\ s.todo = {}
    /\ Set(c, IF next = None /\ ~ leave THEN Idle
              ELSE [s EXCEPT !.pc = "write", !.said = NoSub, !.next = next,
                             !.leave = leave])
    /\ UNCHANGED <<now, lsVars, dbVars, drip, lapsed, cancel>>

(* and then writes it, again by the row's id.                              *)
ApplyWrite(c) ==
    LET s == sync[c] IN
    /\ s.pc = "write"
    /\ row' = [row EXCEPT !.status  = IF s.next = None THEN @ ELSE s.next,
                          !.leaving = @ \/ s.leave]
    /\ Set(c, Idle)
    /\ UNCHANGED <<now, lsVars, payments, alloc, period, drip, lapsed, cancel>>

(* LS or the database fails, or the API restarts: the sync is given up.    *)
GiveUp(c) ==
    /\ sync[c].pc # "idle"
    /\ Set(c, Idle)
    /\ UNCHANGED <<now, lsVars, dbVars, drip, lapsed, cancel>>

-----------------------------------------------------------------------------
(* The other jobs.                                                         *)

(* grantDueSubscriptions reads the row,                                    *)
DripRead(d) ==
    /\ drip[d] = None
    /\ row.status = "ACTIVE" /\ row.end > now
    /\ row.issued < GrantsPerPeriod
    /\ row.lastGrant + GrantEvery <= now
    /\ drip' = [drip EXCEPT ![d] = [lastGrant |-> row.lastGrant,
                                    issued |-> row.issued, at |-> now]]
    /\ UNCHANGED <<now, lsVars, dbVars, sync, lapsed, cancel>>

(* Variant: the stamp is not compared with what was read.                  *)
DripWriteBlind(d) ==
    /\ drip[d] # None
    /\ row' = [row EXCEPT !.lastGrant = drip[d].at, !.issued = @ + 1]
    /\ alloc' = [alloc EXCEPT ![period] = @ + 1]
    /\ drip' = [drip EXCEPT ![d] = None]
    /\ UNCHANGED <<now, lsVars, payments, period, sync, lapsed, cancel>>

(* and grants in a transaction that re-checks the stamp it read.           *)
DripWrite(d) ==
    /\ drip[d] # None
    /\ IF row.lastGrant = drip[d].lastGrant /\ row.issued = drip[d].issued
       THEN /\ row' = [row EXCEPT !.lastGrant = drip[d].at, !.issued = @ + 1]
            /\ alloc' = [alloc EXCEPT ![period] = @ + 1]
       ELSE UNCHANGED <<row, alloc>>
    /\ drip' = [drip EXCEPT ![d] = None]
    /\ UNCHANGED <<now, lsVars, payments, period, sync, lapsed, cancel>>

Live == row.status \in {"ACTIVE", "PAST_DUE"}

(* isLapsed: with the grace of a plan that is still billing.               *)
Lapsed == row.end + (IF row.leaving THEN 0 ELSE Grace) <= now

(* expireLapsedSubscriptions finds the row,                                *)
ExpireRead ==
    /\ ~ lapsed
    /\ Live /\ Lapsed
    /\ lapsed' = TRUE
    /\ UNCHANGED <<now, lsVars, dbVars, sync, drip, cancel>>

(* and updates it by id and status.                                        *)
ExpireWrite ==
    /\ lapsed
    /\ row' = IF Live THEN [row EXCEPT !.status = "EXPIRED"] ELSE row
    /\ lapsed' = FALSE
    /\ UNCHANGED <<now, lsVars, payments, alloc, period, sync, drip, cancel>>

(* cancelSubscription: find the row, stop LS first, mark the row.          *)
CancelRead ==
    /\ cancel = None /\ Live
    /\ cancel' = [sub |-> row.ls, stopped |-> FALSE]
    /\ UNCHANGED <<now, lsVars, dbVars, sync, drip, lapsed>>

CancelAtLs ==
    /\ cancel # None /\ ~ cancel.stopped
    /\ \/ /\ Alive(cancel.sub)
          /\ ls' = [ls EXCEPT ![cancel.sub].cancelled = TRUE]
          /\ cancel' = [cancel EXCEPT !.stopped = TRUE]
       \/ cancel' = None /\ UNCHANGED ls
    /\ UNCHANGED <<now, invoices, dbVars, sync, drip, lapsed>>

CancelWrite ==
    /\ cancel # None /\ cancel.stopped
    /\ row' = [row EXCEPT !.leaving = TRUE]
    /\ cancel' = None
    /\ UNCHANGED <<now, lsVars, payments, alloc, period, sync, drip, lapsed>>

(* A failed transaction, or a restart.                                     *)
JobFails ==
    /\ \/ /\ \E d \in Drips : /\ drip[d] # None
                               /\ drip' = [drip EXCEPT ![d] = None]
          /\ UNCHANGED <<lapsed, cancel>>
       \/ lapsed /\ lapsed' = FALSE /\ UNCHANGED <<drip, cancel>>
       \/ cancel # None /\ cancel' = None /\ UNCHANGED <<drip, lapsed>>
    /\ UNCHANGED <<now, lsVars, dbVars, sync>>

-----------------------------------------------------------------------------

LemonSqueezy == \E s \in LsSubs : \/ Bill(s) \/ CardFails(s) \/ LsExpires(s)
                                  \/ CancelledAtLs(s) \/ Buy(s) \/ Repoint(s)

SyncStep(c) ==
    \/ Load(c) \/ FetchStatus(c) \/ FetchInvoices(c) \/ ReadKnown(c)
    \/ GrantRenewal(c) \/ Conflict(c) \/ ApplyRead(c) \/ ApplyWrite(c)
    \/ GiveUp(c)

Jobs == \/ \E d \in Drips : DripRead(d) \/ DripWrite(d)
        \/ ExpireRead \/ ExpireWrite
        \/ CancelRead \/ CancelAtLs \/ CancelWrite \/ JobFails

Next == Advance \/ LemonSqueezy \/ (\E c \in Syncs : SyncStep(c)) \/ Jobs

Spec == Init /\ [][Next]_vars

(* The hourly job keeps running, and what it asks of LS and of the         *)
(* database succeeds if it is asked again and again.                       *)
Fairness ==
    /\ WF_vars(Load(Cron))
    /\ SF_vars(FetchStatus(Cron)) /\ SF_vars(FetchInvoices(Cron))
    /\ SF_vars(ReadKnown(Cron))
    /\ SF_vars(GrantRenewal(Cron)) /\ SF_vars(Conflict(Cron))
    /\ SF_vars(ApplyRead(Cron)) /\ SF_vars(ApplyWrite(Cron))

FairSpec == Spec /\ Fairness

-----------------------------------------------------------------------------
(* Properties.                                                             *)

TypeOK ==
    /\ now \in 0 .. MaxTime
    /\ ls \in [LsSubs -> LsSub]
    /\ invoices \in [LsSubs -> Seq(Nat)]
    /\ row \in Row
    /\ payments \subseteq Renewals
    /\ alloc \in [Periods -> Nat]
    /\ period \in Periods
    /\ sync \in [Syncs -> Sync]
    /\ drip \in [Drips ->
                   [lastGrant : Nat, issued : Nat, at : Nat] \cup {None}]
    /\ lapsed \in BOOLEAN
    /\ cancel \in [sub : LsSubs, stopped : BOOLEAN] \cup {None}

(* However syncs, drips and plan switches interleave, a period that was    *)
(* paid for hands out at most the allocations it is worth, and one that    *)
(* was not paid for hands out none.                                        *)
AllocationsBounded ==
    \A p \in Periods :
        /\ alloc[p] <= GrantsPerPeriod
        /\ p[2] > 0 => (alloc[p] > 0 <=> p \in payments)
        /\ p \in payments => p[2] <= Len(invoices[p[1]])

(* Renewals of a subscription are credited in the order LS charged them,   *)
(* whoever credits them, so the newest always sets the period.             *)
RenewalsInOrder ==
    \A p \in payments : \A n \in 1 .. p[2] : <<p[1], n>> \in payments

(* With every charged renewal credited, a row whose plan is the one its    *)
(* LS subscription bills (see RowBillsItsPlan) runs at least as long as LS  *)
(* has been paid for, whatever a sync's answer from LS was worth by the    *)
(* time it was used.                                                       *)
PaidThrough ==
    /\ row.plan = row.ls
    /\ \A n \in DOMAIN invoices[row.ls] : <<row.ls, n>> \in payments
    => row.end >= ls[row.ls].renewsAt

(* What claimOrders' comment says of a plan bought after another: the newer *)
(* one ends up current (payment.service.ts:395).  A renewal of the replaced *)
(* subscription that is credited after the switch undoes it.               *)
RowBillsItsPlan == row.plan = row.ls

(* A charged renewal is credited, unless the row was re-pointed, has not   *)
(* run out yet, or ran out longer than Window ago.                         *)
Owed(s, n) == row.ls = s /\ n \in DOMAIN invoices[s] /\ <<s, n>> \notin payments

RanOut == row.end <= now /\ now <= row.end + Window

RenewalCredited ==
    \A s \in LsSubs, n \in 1 .. MaxTime :
        Owed(s, n) /\ RanOut ~> (~ Owed(s, n) \/ ~ RanOut)

(* What the hourly job's comment says: a renewal charged in the last hour  *)
(* reactivates the row instead of racing the expiry (payment.cron.ts:108). *)
RenewedIsLive ==
    row.status = "EXPIRED" =>
        ~ (period[2] > 0 /\ now < row.end /\ ls[row.ls].status = "active")

(* What cancelSubscription's comment rules out: a row marked cancelled     *)
(* while LS keeps billing the card (payment.service.ts:1451).              *)
CancelledStopsBilling ==
    row.leaving => ls[row.ls].cancelled \/ ~ Alive(row.ls)
=============================================================================
