---------------------------- MODULE OrderClaims ----------------------------
(***************************************************************************)
(* How a Lemon Squeezy order becomes credits.  Three callers share one     *)
(* grant path, claimOrders: the success page, the webhook (both are Pages  *)
(* here) and the cron's sweep of the store.  Each asks LS for the orders   *)
(* of an account, then grants the paid ones that have no Payment row, the  *)
(* oldest first.  A plan also opens or re-points the account's             *)
(* Subscription row, and the LS subscription it replaces is cancelled      *)
(* after the transaction has committed.                                    *)
(*                                                                         *)
(* What a claim has learned (the listing, the known payments, the existing *)
(* subscription) is old when it is used: every LS call, every query and    *)
(* every COMMIT is a step of its own, and LS may not answer, the database  *)
(* may roll back or lose the answer to a COMMIT, and the API may restart   *)
(* between any two.                                                        *)
(***************************************************************************)
EXTENDS Integers, Sequences, FiniteSets

CONSTANTS
    Users,           \* accounts
    Orders,          \* Lemon Squeezy orders
    OrderUser,       \* the account with the order's email, or None
    Plans,           \* the orders that bought a plan; the others bought a pack
    Recurring,       \* the plan orders LS opened a subscription for
    Attached0,       \* orders whose variant is in the catalog from the start
    Pages,           \* success pages and webhook deliveries
    Sweep,           \* the every-minute cron
    StoreConfigured, \* LEMONSQUEEZY_STORE_ID is set
    MaxAttempts,     \* attempts of PrismaService.transaction
    MaxRestarts,     \* bound: how often the API restarts
    None

Claimers == Pages \cup {Sweep}

ASSUME ClaimsAssumption ==
    /\ IsFiniteSet(Orders)
    /\ OrderUser \in [Orders -> Users \cup {None}]
    /\ Recurring \subseteq Plans /\ Plans \subseteq Orders
    /\ Attached0 \subseteq Orders
    /\ Sweep \notin Pages
    /\ None \notin Users /\ None \notin Orders
    /\ StoreConfigured \in BOOLEAN
    /\ MaxAttempts \in Nat \ {0}
    /\ MaxRestarts \in Nat
(* Small instances: every order is of one account.                         *)
OneBuyer == [o \in Orders |-> CHOOSE u \in Users : TRUE]

VARIABLES
    order,     \* an order's status at LS
    created,   \* when an order was created, 0 before that
    aged,      \* orders older than SWEEP_WINDOW_MS
    lsSub,     \* the LS subscription an order opened
    attached,  \* orders whose variant is attached to a catalog row
    store,     \* LemonSqueezyService.storeId / storeLookup
    payments,  \* orders with a Payment row
    grants,    \* how many times an order's credits were added to the ledger
    subs,      \* an account's Subscription rows, the newest last
    logged,    \* LS subscriptions support was asked to cancel
    claim,     \* what each claimer is doing
    restarts

lsVars == <<order, created, aged, lsSub>>
dbVars == <<payments, grants, subs>>
vars   == <<order, created, aged, lsSub, attached, store, payments, grants,
            subs, logged, claim, restarts>>

-----------------------------------------------------------------------------

(* A Subscription row: the order whose fields it carries (so also the LS   *)
(* subscription, when there is one) and whether it is ACTIVE.              *)
Row == [order : Orders, live : BOOLEAN]

PCs == {"idle", "sweep", "swept", "account", "list", "known", "take", "sub",
        "find", "upsert", "write", "committed", "cancel"}

Claim == [pc : PCs,
          user     : Users \cup {None},
          queue    : SUBSET Users,    \* accounts the sweep has yet to claim
          seen     : SUBSET Orders,   \* paid, in the last listing
          todo     : SUBSET Orders,   \* yet to grant
          at       : Orders \cup {None}, \* being granted
          existing : Nat,             \* the row found, 0 for none
          replaced : Orders \cup {None}, \* LS subscription to be cancelled
          others   : SUBSET Nat,      \* rows the transaction retires
          tries    : Nat]

Idle == [pc |-> "idle", user |-> None, queue |-> {}, seen |-> {},
         todo |-> {}, at |-> None, existing |-> 0, replaced |-> None,
         others |-> {}, tries |-> 0]

Store0 == IF StoreConfigured THEN "known" ELSE "unknown"

Init ==
    /\ order    = [o \in Orders |-> "none"]
    /\ created  = [o \in Orders |-> 0]
    /\ aged     = {}
    /\ lsSub    = [o \in Orders |-> "none"]
    /\ attached = Attached0
    /\ store    = Store0
    /\ payments = {}
    /\ grants   = [o \in Orders |-> 0]
    /\ subs     = [u \in Users |-> << >>]
    /\ logged   = {}
    /\ claim    = [c \in Claimers |-> Idle]
    /\ restarts = 0

-----------------------------------------------------------------------------
(* Lemon Squeezy and the admin panel.                                      *)

Checkout(o) ==
    /\ order[o] = "none"
    /\ order' = [order EXCEPT ![o] = "pending"]
    /\ created' = [created EXCEPT ![o] =
                      1 + Cardinality({p \in Orders : created[p] # 0})]
    /\ UNCHANGED <<aged, lsSub, attached, store, dbVars, logged, claim, restarts>>

(* The payment clears, or not.                                             *)
Confirm(o) ==
    /\ order[o] = "pending"
    /\ \/ /\ order' = [order EXCEPT ![o] = "paid"]
          /\ lsSub' = IF o \in Recurring THEN [lsSub EXCEPT ![o] = "active"]
                                         ELSE lsSub
       \/ order' = [order EXCEPT ![o] = "failed"] /\ UNCHANGED lsSub
    /\ UNCHANGED <<created, aged, attached, store, dbVars, logged, claim, restarts>>

Refund(o) ==
    /\ order[o] = "paid"
    /\ order' = [order EXCEPT ![o] = "refunded"]
    /\ UNCHANGED <<created, aged, lsSub, attached, store, dbVars, logged, claim,
                   restarts>>

(* Three days pass after the order was created.                            *)
AgeOut(o) ==
    /\ order[o] # "none" /\ o \notin aged
    /\ aged' = aged \cup {o}
    /\ UNCHANGED <<order, created, lsSub, attached, store, dbVars, logged, claim,
                   restarts>>

(* An admin sets lsVariantId on the catalog row that sells it.             *)
AttachVariant(o) ==
    /\ o \notin attached
    /\ attached' = attached \cup {o}
    /\ UNCHANGED <<lsVars, store, dbVars, logged, claim, restarts>>

-----------------------------------------------------------------------------
(* A claimer's own steps.                                                  *)

Set(c, rec) == claim' = [claim EXCEPT ![c] = rec]
Goto(c, pc) == Set(c, [claim[c] EXCEPT !.pc = pc])

(* The claim is over: the page gets its answer; the sweep, which catches   *)
(* what a claim throws, goes on with the next account.                     *)
Finish(c) ==
    IF c = Sweep /\ claim[c].pc # "sweep"
    THEN Set(c, [Idle EXCEPT !.pc = "account", !.queue = claim[c].queue])
    ELSE Set(c, Idle)

(* On to the next order of the loop in claimOrders.                        *)
NextOrder(c) ==
    Set(c, [Idle EXCEPT !.pc = "take", !.user = claim[c].user,
                        !.queue = claim[c].queue,
                        !.todo = claim[c].todo \ {claim[c].at}])

(* The success page loads, or LS delivers a webhook for the account.       *)
Begin(c, u) ==
    /\ claim[c].pc = "idle"
    /\ Set(c, [Idle EXCEPT !.pc = "list", !.user = u])
    /\ UNCHANGED <<lsVars, attached, store, dbVars, logged, restarts>>

(* The cron ticks; a sweep that is still running is not stacked upon.      *)
Tick ==
    /\ claim[Sweep].pc = "idle"
    /\ Goto(Sweep, "sweep")
    /\ UNCHANGED <<lsVars, attached, store, dbVars, logged, restarts>>

(* getStoreId: looked up once.  A lookup LS does not answer leaves its     *)
(* rejected promise behind, and every later call awaits that one; one that *)
(* finds more than one store forgets itself; and when it is the listing    *)
(* after it that LS does not answer, the store stays known.                *)
StoreAnswers == store \in {"known", "unknown"} /\ store' = "known"
StoreFails   == store' \in IF store = "unknown"
                           THEN {"unknown", "known", "rejected"} ELSE {store}

(* Definitions marked "Variant" are the next definition with one plausible *)
(* mistake in it, to see that a property notices.                          *)

(* Variant: an order that is still pending counts as paid.                 *)
PaidOrPending == {o \in Orders : order[o] \in {"paid", "pending"}}

PaidOrders == {o \in Orders : order[o] = "paid"}

(* listRecentOrders: the paid orders of the last three days.               *)
SweepList ==
    /\ claim[Sweep].pc = "sweep"
    /\ StoreAnswers
    /\ Set(Sweep, [claim[Sweep] EXCEPT !.pc = "swept",
                                       !.seen = PaidOrders \ aged])
    /\ UNCHANGED <<lsVars, attached, dbVars, logged, restarts>>

(* Variant: accounts that have bought before are not looked at.            *)
SweepNewcomers ==
    LET open == claim[Sweep].seen IN
    /\ claim[Sweep].pc = "swept"
    /\ Set(Sweep, [Idle EXCEPT !.pc = "account",
                   !.queue = {OrderUser[o] : o \in open}
                             \ ({OrderUser[o] : o \in payments} \cup {None})])
    /\ UNCHANGED <<lsVars, attached, store, dbVars, logged, restarts>>

(* The accounts with an order that has no Payment row yet, found by email. *)
SweepOpen ==
    LET open == claim[Sweep].seen \ payments IN
    /\ claim[Sweep].pc = "swept"
    /\ Set(Sweep, [Idle EXCEPT !.pc = "account",
                               !.queue = {OrderUser[o] : o \in open} \ {None}])
    /\ UNCHANGED <<lsVars, attached, store, dbVars, logged, restarts>>

SweepAccount ==
    LET s == claim[Sweep] IN
    /\ s.pc = "account"
    /\ \/ s.queue = {} /\ Set(Sweep, Idle)
       \/ \E u \in s.queue :
             Set(Sweep, [Idle EXCEPT !.pc = "list", !.user = u,
                                     !.queue = s.queue \ {u}])
    /\ UNCHANGED <<lsVars, attached, store, dbVars, logged, restarts>>

(* listOrdersByEmail.                                                      *)
List(c) ==
    /\ claim[c].pc = "list"
    /\ StoreAnswers
    /\ Set(c, [claim[c] EXCEPT !.pc = "known",
                  !.seen = {o \in PaidOrders : OrderUser[o] = claim[c].user}])
    /\ UNCHANGED <<lsVars, attached, dbVars, logged, restarts>>

(* LS cannot be asked: 503, nothing changes but the memo of the store.     *)
LsUnreachable(c) ==
    /\ claim[c].pc \in {"sweep", "list", "sub"}
    /\ IF claim[c].pc = "sub" THEN UNCHANGED store ELSE StoreFails
    /\ Finish(c)
    /\ UNCHANGED <<lsVars, attached, dbVars, logged, restarts>>

(* The listed orders that have no Payment row.                             *)
ReadKnown(c) ==
    /\ claim[c].pc = "known"
    /\ Set(c, [claim[c] EXCEPT !.pc = "take", !.seen = {},
                               !.todo = claim[c].seen \ payments])
    /\ UNCHANGED <<lsVars, attached, store, dbVars, logged, restarts>>

(* The loop, oldest order first: resolveVariant, and on to the grant of a  *)
(* plan or a pack.  An order whose variant is in no catalog row is logged  *)
(* and left.                                                               *)
Take(c) ==
    LET todo == claim[c].todo IN
    /\ claim[c].pc = "take"
    /\ \/ todo = {} /\ Finish(c)
       \/ \E o \in todo :
             /\ \A p \in todo : created[o] <= created[p]
             /\ \/ /\ o \notin attached
                   /\ Set(c, [claim[c] EXCEPT !.todo = todo \ {o}])
                \/ /\ o \in attached
                   /\ Set(c, [claim[c] EXCEPT !.at = o,
                             !.pc = IF o \in Plans THEN "sub" ELSE "write"])
    /\ UNCHANGED <<lsVars, attached, store, dbVars, logged, restarts>>

(* getSubscriptionForOrder, before the transaction.                        *)
FetchSub(c) ==
    /\ claim[c].pc = "sub"
    /\ Goto(c, "find")
    /\ UNCHANGED <<lsVars, attached, store, dbVars, logged, restarts>>

-----------------------------------------------------------------------------
(* The transaction of a grant.  READ COMMITTED: the row found may change   *)
(* before it is updated; rows updated stay locked until the COMMIT; a row  *)
(* inserted is invisible to others until then.                             *)

(* findFirst of the newest row, and the LS subscription it would leave.    *)
FindSub(c) ==
    LET rows == subs[claim[c].user]
        last == rows[Len(rows)]
    IN
    /\ claim[c].pc = "find"
    /\ Set(c, [claim[c] EXCEPT !.pc = "upsert", !.existing = Len(rows),
                  !.replaced = IF rows # << >> /\ last.live
                                  /\ last.order \in Recurring
                               THEN last.order ELSE None])
    /\ UNCHANGED <<lsVars, attached, store, dbVars, logged, restarts>>

Locked(c) == IF claim[c].pc = "write" THEN {claim[c].existing} \cup claim[c].others
                                      ELSE {}

(* The update (or create) of the row and the updateMany of the others; it  *)
(* waits for transactions that hold one of the rows.                       *)
Upsert(c) ==
    LET rows   == subs[claim[c].user]
        others == {i \in DOMAIN rows : i # claim[c].existing /\ rows[i].live}
        mine   == ({claim[c].existing} \ {0}) \cup others
    IN
    /\ claim[c].pc = "upsert"
    /\ \A d \in Claimers \ {c} : claim[d].user = claim[c].user =>
                                    Locked(d) \cap mine = {}
    /\ Set(c, [claim[c] EXCEPT !.pc = "write", !.others = others])
    /\ UNCHANGED <<lsVars, attached, store, dbVars, logged, restarts>>

(* Variant: the update leaves lsSubscriptionId as it was.                  *)
RowsAfterStale(c) ==
    LET s    == claim[c]
        rows == subs[s.user]
        new  == [order |-> s.replaced, live |-> TRUE]
    IN  IF s.existing = 0 THEN Append(rows, new)
                          ELSE [rows EXCEPT ![s.existing] = new]

(* The account's rows once the claim's transaction has committed.          *)
RowsAfter(c) ==
    LET s    == claim[c]
        rows == subs[s.user]
        new  == [order |-> s.at, live |-> TRUE]
        kept == [i \in DOMAIN rows |->
                    IF i = s.existing THEN new
                    ELSE IF i \in s.others THEN [rows[i] EXCEPT !.live = FALSE]
                    ELSE rows[i]]
    IN  IF s.existing = 0 THEN Append(kept, new) ELSE kept

(* Variant: no UNIQUE column behind payment.create.                        *)
GrantAgain(c) ==
    LET o == claim[c].at IN
    /\ claim[c].pc = "write"
    /\ payments' = payments \cup {o}
    /\ grants'   = [grants EXCEPT ![o] = @ + 1]
    /\ subs' = IF o \in Plans THEN [subs EXCEPT ![claim[c].user] = RowsAfter(c)]
                              ELSE subs
    /\ Goto(c, "committed")
    /\ UNCHANGED <<lsVars, attached, store, logged, restarts>>

(* payment.create, applyCredits and COMMIT.                                *)
Grant(c) ==
    LET o == claim[c].at IN
    /\ claim[c].pc = "write"
    /\ o \notin payments
    /\ payments' = payments \cup {o}
    /\ grants'   = [grants EXCEPT ![o] = @ + 1]
    /\ subs' = IF o \in Plans THEN [subs EXCEPT ![claim[c].user] = RowsAfter(c)]
                              ELSE subs
    /\ Goto(c, "committed")
    /\ UNCHANGED <<lsVars, attached, store, logged, restarts>>

(* Variant: the subscription is written outside the transaction.           *)
ConflictKeepsPlan(c) ==
    LET o == claim[c].at IN
    /\ claim[c].pc = "write"
    /\ o \in payments
    /\ subs' = IF o \in Plans THEN [subs EXCEPT ![claim[c].user] = RowsAfter(c)]
                              ELSE subs
    /\ NextOrder(c)
    /\ UNCHANGED <<lsVars, attached, store, payments, grants, logged, restarts>>

(* The UNIQUE lsOrderId: everything is rolled back, the loop goes on.      *)
Conflict(c) ==
    /\ claim[c].pc = "write"
    /\ claim[c].at \in payments
    /\ NextOrder(c)
    /\ UNCHANGED <<lsVars, attached, store, dbVars, logged, restarts>>

(* A transient code, before the COMMIT or instead of its answer: run the   *)
(* body again, or give the whole claim up.                                 *)
Transient(c) ==
    LET s == claim[c] IN
    /\ s.pc \in {"find", "upsert", "write", "committed"}
    /\ IF s.tries + 1 < MaxAttempts
       THEN Set(c, [s EXCEPT !.pc = IF s.at \in Plans THEN "find" ELSE "write",
                             !.existing = 0, !.replaced = None,
                             !.others = {}, !.tries = s.tries + 1])
       ELSE Finish(c)
    /\ UNCHANGED <<lsVars, attached, store, dbVars, logged, restarts>>

Acknowledge(c) ==
    /\ claim[c].pc = "committed"
    /\ IF claim[c].replaced = None THEN NextOrder(c) ELSE Goto(c, "cancel")
    /\ UNCHANGED <<lsVars, attached, store, dbVars, logged, restarts>>

(* Variant: it reads the subscription to stop after it was re-pointed.     *)
CancelCurrent(c) ==
    LET rows == subs[claim[c].user] IN
    /\ claim[c].pc = "cancel"
    /\ lsSub' = [lsSub EXCEPT ![rows[Len(rows)].order] = "cancelled"]
    /\ NextOrder(c)
    /\ UNCHANGED <<order, created, aged, attached, store, dbVars, logged, restarts>>

(* Stop the replaced LS subscription, or tell support that it was not.     *)
CancelOld(c) ==
    LET old == claim[c].replaced IN
    /\ claim[c].pc = "cancel"
    /\ \/ lsSub' = [lsSub EXCEPT ![old] = "cancelled"] /\ UNCHANGED logged
       \/ logged' = logged \cup {old} /\ UNCHANGED lsSub
    /\ NextOrder(c)
    /\ UNCHANGED <<order, created, aged, attached, store, dbVars, restarts>>

(* The API process restarts: claims and the memo of the store are gone.    *)
Restart ==
    /\ restarts < MaxRestarts
    /\ restarts' = restarts + 1
    /\ claim' = [c \in Claimers |-> Idle]
    /\ store' = Store0
    /\ UNCHANGED <<lsVars, attached, dbVars, logged>>

-----------------------------------------------------------------------------

LemonSqueezy == \E o \in Orders : \/ Checkout(o) \/ Confirm(o) \/ Refund(o)
                                  \/ AgeOut(o) \/ AttachVariant(o)

Sweeping == Tick \/ SweepList \/ SweepOpen \/ SweepAccount

ClaimStep(c) ==
    \/ List(c) \/ LsUnreachable(c) \/ ReadKnown(c) \/ Take(c) \/ FetchSub(c)
    \/ FindSub(c) \/ Upsert(c) \/ Grant(c) \/ Conflict(c) \/ Transient(c)
    \/ Acknowledge(c) \/ CancelOld(c)

Next ==
    \/ LemonSqueezy
    \/ Sweeping
    \/ \E c \in Pages, u \in Users : Begin(c, u)
    \/ \E c \in Claimers : ClaimStep(c)
    \/ Restart

Spec == Init /\ [][Next]_vars

(* The cron keeps ticking and its steps are taken; a request that has      *)
(* started ends.  Outages end: an LS call or a COMMIT that is tried again  *)
(* and again succeeds once.                                                *)
Fairness ==
    /\ WF_vars(Sweeping)
    /\ SF_vars(SweepList)
    /\ \A c \in Claimers : WF_vars(ClaimStep(c))
    /\ SF_vars(List(Sweep))
    /\ SF_vars(FetchSub(Sweep))
    /\ SF_vars(FindSub(Sweep))
    /\ SF_vars(Upsert(Sweep))
    /\ SF_vars(Grant(Sweep))

FairSpec == Spec /\ Fairness

-----------------------------------------------------------------------------
(* Properties.                                                             *)

TypeOK ==
    /\ order    \in [Orders -> {"none", "pending", "paid", "failed", "refunded"}]
    /\ created  \in [Orders -> Nat]
    /\ aged     \subseteq Orders
    /\ lsSub    \in [Orders -> {"none", "active", "cancelled"}]
    /\ attached \subseteq Orders
    /\ store    \in {"unknown", "known", "rejected"}
    /\ payments \subseteq Orders
    /\ grants   \in [Orders -> Nat]
    /\ subs     \in [Users -> Seq(Row)]
    /\ logged   \subseteq Orders
    /\ claim    \in [Claimers -> Claim]
    /\ restarts \in Nat

(* Page, webhook and sweep together credit an order at most once, and the  *)
(* credits and the Payment row are never one without the other.            *)
GrantedOnce ==
    \A o \in Orders : grants[o] = IF o \in payments THEN 1 ELSE 0

(* The rows of an account carry different, credited plan orders of that    *)
(* account: a rolled-back grant leaves no plan behind.                     *)
RowsArePaid ==
    \A u \in Users : \A i \in DOMAIN subs[u] :
        /\ subs[u][i].order \in payments \cap Plans
        /\ OrderUser[subs[u][i].order] = u
        /\ \A j \in DOMAIN subs[u] : subs[u][j].order = subs[u][i].order => i = j

(* Switching plans never stops the billing of the plan the account has.    *)
LiveIsBilled ==
    \A u \in Users : \A i \in DOMAIN subs[u] :
        subs[u][i].live => lsSub[subs[u][i].order] # "cancelled"

(* What claims promise: see Payout.                                        *)
Payouts == INSTANCE Payout WITH
               confirmed <- {o \in Orders : order[o] \in {"paid", "refunded"}},
               paid      <- payments
PaysOut == Payouts!Spec

(* A paid order of an account, with its variant in the catalog, is         *)
(* credited, unless it is refunded or grows too old for the sweep first.   *)
Creditable(o) == order[o] = "paid" /\ o \in attached /\ OrderUser[o] # None

PaidIsCredited ==
    \A o \in Orders :
        Creditable(o) ~> (o \in payments \/ order[o] = "refunded" \/ o \in aged)

(* What the log of an unmatched order says: attach the variant, and the    *)
(* next cron run will credit it (payment.service.ts:428).                  *)
AttachedIsCredited ==
    \A o \in Orders :
        Creditable(o) ~> (o \in payments \/ order[o] = "refunded")

(* What grantPlanOrder's comment says: one live subscription per user      *)
(* (payment.service.ts:714).                                               *)
OneLiveSubscription ==
    \A u \in Users : Cardinality({i \in DOMAIN subs[u] : subs[u][i].live}) <= 1

(* What claimOrders' comment says: if two plans were bought, the newer one *)
(* ends up current (payment.service.ts:395).                               *)
NewerPlanIsCurrent ==
    \A u \in Users : subs[u] # << >> =>
        \A o \in payments \cap Plans :
            OrderUser[o] = u =>
                created[o] <= created[subs[u][Len(subs[u])].order]

(* What grantPlanOrder's comment says of a replaced LS subscription: it is *)
(* cancelled, or the failure is logged for support (payment.service.ts:806).*)
ReplacedIsStopped ==
    (\A c \in Claimers : claim[c].pc = "idle") =>
        \A o \in payments \cap Recurring :
            \/ lsSub[o] = "cancelled" \/ o \in logged
            \/ \E i \in DOMAIN subs[OrderUser[o]] :
                  subs[OrderUser[o]][i].order = o /\ subs[OrderUser[o]][i].live
=============================================================================
