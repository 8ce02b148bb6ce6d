---------------------------- MODULE CreditLedger ----------------------------
(***************************************************************************)
(* The wallet of the account API: every account has a cached balance       *)
(* (User.credits) and an append-only ledger (CreditEntry).  Credits arrive *)
(* with the sign-up bonus and with receipts (a Lemon Squeezy order or      *)
(* renewal invoice, each behind a UNIQUE column of Payment) and leave with *)
(* commitDub, the charge for one dub.                                      *)
(*                                                                         *)
(* Transactions run at Postgres' READ COMMITTED.  commitDub is therefore   *)
(* three steps here: it looks for its earlier ledger row, reads the        *)
(* balance, and writes.  Between them other transactions may commit; the   *)
(* row lock of the guarded decrement makes the last step atomic up to its  *)
(* COMMIT.  PrismaService.transaction runs the whole body again when   *)
(* the database answers with a transient code, whether the transaction     *)
(* rolled back (Rollback) or committed and only its answer was lost        *)
(* (LoseAck).                                                              *)
(***************************************************************************)
EXTENDS Integers, Sequences

CONSTANTS
    Users,          \* account ids
    Calls,          \* POST /payments/commit-dub requests
    Receipts,       \* paid orders and paid renewal invoices
    CallUser,       \* whose bearer token a call carries
    CallJob,        \* the jobId it names, its idempotency key
    CallCost,       \* costForDub of the length it asks to be charged for
    ReceiptUser,    \* the account a receipt belongs to
    ReceiptCredits, \* what the catalog row it bought is worth
    SignupBonus,    \* SIGNUP_BONUS_CREDITS
    MaxAttempts,    \* attempts of PrismaService.transaction (3 in the code)
    None            \* a null column

ASSUME LedgerAssumption ==
    /\ CallUser \in [Calls -> Users]
    /\ CallCost \in [Calls -> Nat]
    /\ ReceiptUser \in [Receipts -> Users]
    /\ ReceiptCredits \in [Receipts -> Nat]
    /\ SignupBonus \in Nat
    /\ MaxAttempts \in Nat \ {0}
    /\ None \notin Calls

VARIABLES
    account,    \* "none" before registration, "open", "deleted"
    credits,    \* User.credits, the cached balance
    ledger,     \* CreditEntry rows of an account in the order they were written
    payments,   \* receipts that have a Payment row
    call        \* what each commit-dub request has done so far

vars == <<account, credits, ledger, payments, call>>

-----------------------------------------------------------------------------

Reasons == {"SIGNUP_BONUS", "GRANT", "DUB_SPEND"}
Jobs    == {CallJob[c] : c \in Calls}
Refs    == Jobs \cup Receipts \cup {None}

(* One CreditEntry row.  "by" is not a column: it remembers the request    *)
(* that wrote the row.                                                     *)
Entry == [delta : Int, balance : Int, reason : Reasons, ref : Refs,
          by : Calls \cup {None}]

(* The requests' program counter.  "lookup": the transaction is about to   *)
(* look for the job's row; "read": to read the balance; "decide": to       *)
(* write.  "committed": the database has committed, the request does not   *)
(* know yet.                                                               *)
PCs == {"idle", "lookup", "read", "decide", "committed", "done", "refused",
        "failed"}

CallState == [pc : PCs, found : BOOLEAN, cost : Int, seen : Int, tries : Nat]

Init ==
    /\ account  = [u \in Users |-> "none"]
    /\ credits  = [u \in Users |-> 0]
    /\ ledger   = [u \in Users |-> << >>]
    /\ payments = {}
    /\ call = [c \in Calls |-> [pc |-> "idle", found |-> FALSE, cost |-> 0,
                                seen |-> 0, tries |-> 0]]

-----------------------------------------------------------------------------
(* The ledger primitives.                                                  *)

(* Definitions marked "Variant" are the next definition with one plausible *)
(* mistake in it; no specification uses them.  TLC is run with each in the *)
(* definition's place, to see that the property it breaks notices.         *)

(* Variant: an upsert keyed on the reference overwrites the earlier row.   *)
WriteEntryUpsert(u, delta, balance, reason, ref, by) ==
    ledger' = [ledger EXCEPT ![u] =
                  Append(SelectSeq(@, LAMBDA e : e.ref # ref),
                         [delta |-> delta, balance |-> balance,
                          reason |-> reason, ref |-> ref, by |-> by])]

(* tx.creditEntry.create: append one row.                                  *)
WriteEntry(u, delta, balance, reason, ref, by) ==
    ledger' = [ledger EXCEPT ![u] =
                  Append(@, [delta |-> delta, balance |-> balance,
                             reason |-> reason, ref |-> ref, by |-> by])]

(* Variant: the row carries the balance before the move.                   *)
MoveCreditsBefore(u, delta, reason, ref, by) ==
    /\ credits' = [credits EXCEPT ![u] = @ + delta]
    /\ WriteEntry(u, delta, credits[u], reason, ref, by)

(* applyCredits, and the decrement of commitDub: move the cached balance   *)
(* and write the row that accounts for it, in one transaction.             *)
MoveCredits(u, delta, reason, ref, by) ==
    /\ credits' = [credits EXCEPT ![u] = @ + delta]
    /\ WriteEntry(u, delta, credits[u] + delta, reason, ref, by)

(* The rows that say a job has been charged already.                       *)
RowsOf(u, job) ==
    {i \in DOMAIN ledger[u] : /\ ledger[u][i].reason = "DUB_SPEND"
                              /\ ledger[u][i].ref = job}

(* The running total of a ledger, as reconcile() accumulates it.           *)
RunningTotal(entries) ==
    LET total[i \in 0 .. Len(entries)] ==
            IF i = 0 THEN 0 ELSE total[i - 1] + entries[i].delta
    IN  total

-----------------------------------------------------------------------------
(* Accounts and receipts.                                                  *)

(* UsersService.create: the account and its SIGNUP_BONUS row together.     *)
CreateUser(u) ==
    /\ account[u] = "none"
    /\ account' = [account EXCEPT ![u] = "open"]
    /\ credits' = [credits EXCEPT ![u] = SignupBonus]
    /\ WriteEntry(u, SignupBonus, SignupBonus, "SIGNUP_BONUS", None, None)
    /\ UNCHANGED <<payments, call>>

(* UsersService.remove: deleting the row cascades to the account's ledger  *)
(* and payments.  Ids are serial, so a deleted account never comes back.   *)
RemoveUser(u) ==
    /\ account[u] = "open"
    /\ account'  = [account EXCEPT ![u] = "deleted"]
    /\ credits'  = [credits EXCEPT ![u] = 0]
    /\ ledger'   = [ledger EXCEPT ![u] = << >>]
    /\ payments' = {r \in payments : ReceiptUser[r] # u}
    /\ UNCHANGED call

(* Variant: no UNIQUE column behind the receipt.                           *)
GrantReceiptAgain(r) ==
    LET u == ReceiptUser[r] IN
    /\ account[u] = "open"
    /\ Len(ledger[u]) < 4
    /\ payments' = payments \cup {r}
    /\ MoveCredits(u, ReceiptCredits[r], "GRANT", r, None)
    /\ UNCHANGED <<account, call>>

(* grantPackOrder, grantPlanOrder and grantRenewal as the wallet sees      *)
(* them.  Their transaction starts or ends with payment.create, whose      *)
(* UNIQUE lsOrderId / lsInvoiceId rolls a second grant of the same receipt *)
(* back whole: a repeated attempt changes nothing.                         *)
GrantReceipt(r) ==
    LET u == ReceiptUser[r] IN
    /\ account[u] = "open"
    /\ r \notin payments
    /\ payments' = payments \cup {r}
    /\ MoveCredits(u, ReceiptCredits[r], "GRANT", r, None)
    /\ UNCHANGED <<account, call>>

-----------------------------------------------------------------------------
(* commitDub.                                                              *)

Goto(c, pc) == call' = [call EXCEPT ![c].pc = pc]

(* assertPlanAllows passes and the transaction starts, or it answers 402   *)
(* PLAN_UPGRADE_REQUIRED.  What the plan allows is not modelled here.      *)
BeginCommit(c) ==
    /\ call[c].pc = "idle"
    /\ account[CallUser[c]] = "open"
    /\ Goto(c, "lookup") \/ Goto(c, "refused")
    /\ UNCHANGED <<account, credits, ledger, payments>>

(* What findFirst told the transaction: is there a row, and what is the    *)
(* price.                                                                  *)
Found(c, found, cost) ==
    call' = [call EXCEPT ![c] = [call[c] EXCEPT !.pc = "read", !.found = found,
                                                !.cost = cost]]

(* Variant: the transaction does not look for its own earlier row.         *)
FindExistingBlind(c) ==
    /\ call[c].pc = "lookup"
    /\ Found(c, FALSE, CallCost[c])
    /\ UNCHANGED <<account, credits, ledger, payments>>

(* Variant: the reply carries the row's delta, not what it cost.           *)
FindExistingSigned(c) ==
    LET rows == RowsOf(CallUser[c], CallJob[c]) IN
    /\ call[c].pc = "lookup"
    /\ \/ rows = {} /\ Found(c, FALSE, CallCost[c])
       \/ \E i \in rows : Found(c, TRUE, ledger[CallUser[c]][i].delta)
    /\ UNCHANGED <<account, credits, ledger, payments>>

(* findFirst of the job's own row.                                         *)
FindExisting(c) ==
    LET rows == RowsOf(CallUser[c], CallJob[c]) IN
    /\ call[c].pc = "lookup"
    /\ \/ rows = {} /\ Found(c, FALSE, CallCost[c])
       \/ \E i \in rows : Found(c, TRUE, -ledger[CallUser[c]][i].delta)
    /\ UNCHANGED <<account, credits, ledger, payments>>

(* Variant: the balance is not selected.                                   *)
FindUserNoBalance(c) ==
    /\ call[c].pc = "read"
    /\ call' = [call EXCEPT ![c].pc = "decide", ![c].seen = None]
    /\ UNCHANGED <<account, credits, ledger, payments>>

(* findUnique of the account: 404 when it is gone.                         *)
FindUser(c) ==
    LET u == CallUser[c]
        s == call[c]
    IN
    /\ s.pc = "read"
    /\ \/ account[u] # "open" /\ Goto(c, "refused")
       \/ /\ account[u] = "open"
          /\ call' = [call EXCEPT ![c] = [s EXCEPT !.pc = "decide",
                                                   !.seen = credits[u]]]
    /\ UNCHANGED <<account, credits, ledger, payments>>

(* An earlier row exists: answer with what it charged.                     *)
ReplyExisting(c) ==
    /\ call[c].pc = "decide"
    /\ call[c].found
    /\ Goto(c, "committed")
    /\ UNCHANGED <<account, credits, ledger, payments>>

(* A zero-length dub: a marker row that carries the balance read earlier.  *)
(* On a deleted account the foreign key refuses it.                        *)
WriteMarker(c) ==
    LET u == CallUser[c] IN
    /\ call[c].pc = "decide"
    /\ ~call[c].found
    /\ call[c].cost = 0
    /\ \/ /\ account[u] = "open"
          /\ WriteEntry(u, 0, call[c].seen, "DUB_SPEND", CallJob[c], c)
          /\ Goto(c, "committed")
       \/ /\ account[u] # "open"
          /\ Goto(c, "refused")
          /\ UNCHANGED ledger
    /\ UNCHANGED <<account, credits, payments>>

(* Variants: the decrement is guarded by the balance read earlier; it      *)
(* writes back that balance less the cost.                                 *)
ChargeOnStaleCheck(c) ==
    LET u == CallUser[c] IN
    /\ call[c].pc = "decide"
    /\ ~call[c].found
    /\ call[c].cost > 0
    /\ account[u] = "open"
    /\ call[c].seen >= call[c].cost
    /\ MoveCredits(u, -call[c].cost, "DUB_SPEND", CallJob[c], c)
    /\ Goto(c, "committed")
    /\ UNCHANGED <<account, payments>>

ChargeLostUpdate(c) ==
    LET u == CallUser[c]
        left == call[c].seen - call[c].cost
    IN
    /\ call[c].pc = "decide"
    /\ ~call[c].found
    /\ call[c].cost > 0
    /\ account[u] = "open"
    /\ left >= 0
    /\ credits' = [credits EXCEPT ![u] = left]
    /\ WriteEntry(u, -call[c].cost, left, "DUB_SPEND", CallJob[c], c)
    /\ Goto(c, "committed")
    /\ UNCHANGED <<account, payments>>

(* The guarded decrement found the row with enough credits in it.          *)
Charge(c) ==
    LET u == CallUser[c] IN
    /\ call[c].pc = "decide"
    /\ ~call[c].found
    /\ call[c].cost > 0
    /\ account[u] = "open"
    /\ credits[u] >= call[c].cost
    /\ MoveCredits(u, -call[c].cost, "DUB_SPEND", CallJob[c], c)
    /\ Goto(c, "committed")
    /\ UNCHANGED <<account, payments>>

(* It matched no row: 402 INSUFFICIENT_CREDITS.                            *)
RefuseShort(c) ==
    LET u == CallUser[c] IN
    /\ call[c].pc = "decide"
    /\ ~call[c].found
    /\ call[c].cost > 0
    /\ account[u] # "open" \/ credits[u] < call[c].cost
    /\ Goto(c, "refused")
    /\ UNCHANGED <<account, credits, ledger, payments>>

(* PrismaService.transaction: run the body again, up to MaxAttempts times. *)
Retry(c) ==
    LET s == call[c] IN
    call' = [call EXCEPT ![c] =
                IF s.tries + 1 < MaxAttempts
                THEN [s EXCEPT !.pc = "lookup", !.tries = s.tries + 1]
                ELSE [s EXCEPT !.pc = "failed"]]

(* A transient failure before COMMIT: nothing was written.                 *)
Rollback(c) ==
    /\ call[c].pc \in {"lookup", "read", "decide"}
    /\ Retry(c)
    /\ UNCHANGED <<account, credits, ledger, payments>>

(* The connection closed after COMMIT: the same transient code, but the    *)
(* rows are there.                                                         *)
LoseAck(c) ==
    /\ call[c].pc = "committed"
    /\ Retry(c)
    /\ UNCHANGED <<account, credits, ledger, payments>>

Acknowledge(c) ==
    /\ call[c].pc = "committed"
    /\ Goto(c, "done")
    /\ UNCHANGED <<account, credits, ledger, payments>>

Commit(c) ==
    \/ BeginCommit(c) \/ FindExisting(c) \/ FindUser(c)
    \/ ReplyExisting(c) \/ WriteMarker(c) \/ Charge(c) \/ RefuseShort(c)
    \/ Rollback(c) \/ LoseAck(c) \/ Acknowledge(c)

Next ==
    \/ \E u \in Users : CreateUser(u) \/ RemoveUser(u)
    \/ \E r \in Receipts : GrantReceipt(r)
    \/ \E c \in Calls : Commit(c)

Spec == Init /\ [][Next]_vars

-----------------------------------------------------------------------------
(* Properties.                                                             *)

TypeOK ==
    /\ account  \in [Users -> {"none", "open", "deleted"}]
    /\ credits  \in [Users -> Int]
    /\ ledger   \in [Users -> Seq(Entry)]
    /\ payments \subseteq Receipts
    /\ call     \in [Calls -> CallState]

(* No interleaving of charges, grants and retries overdraws an account:    *)
(* the balance two requests both read can be spent by one of them only.    *)
NeverNegative == \A u \in Users : credits[u] >= 0

(* The ledger is the truth and User.credits its cache: the deltas of an    *)
(* account's rows always add up to the cached balance (reconcile's inSync).*)
CacheMatchesLedger ==
    \A u \in Users : RunningTotal(ledger[u])[Len(ledger[u])] = credits[u]

(* Every row that moves credits carries the balance they left, whatever    *)
(* committed between its transaction's reads and its write.                *)
RunningBalances ==
    \A u \in Users : \A i \in DOMAIN ledger[u] :
        ledger[u][i].delta # 0 =>
            ledger[u][i].balance = RunningTotal(ledger[u])[i]

(* A receipt pays out once however often it is seen, and a Payment row and *)
(* its credits are never one without the other.                            *)
ReceiptPaysOnce ==
    \A u \in Users : \A i \in DOMAIN ledger[u] :
        ledger[u][i].reason = "GRANT" =>
            /\ ledger[u][i].ref \in payments
            /\ \A j \in DOMAIN ledger[u] :
                  /\ ledger[u][j].reason = "GRANT"
                  /\ ledger[u][j].ref = ledger[u][i].ref
                  => j = i

(* One request writes at most one ledger row, through every retry of its   *)
(* transaction: a commit whose answer was lost is found, not repeated.     *)
CallChargesOnce ==
    \A c \in Calls : \A i, j \in DOMAIN ledger[CallUser[c]] :
        /\ ledger[CallUser[c]][i].by = c
        /\ ledger[CallUser[c]][j].by = c
        => i = j

(* The rows account for the balance: its total, and where each row left it *)
(* (applyCredits, payment.service.ts:1103-1137, and reconcile, 1516-1540). *)
LedgerAccounts == CacheMatchesLedger /\ RunningBalances

(* Nothing is charged and nothing is paid out twice for one request or one *)
(* receipt (payment.service.ts:1241-1330, 750-770).                        *)
PaidOnce == CallChargesOnce /\ ReceiptPaysOnce

(* A request that was answered with a charge finds it in the ledger, at    *)
(* the price it was told; one that was refused has charged nothing.        *)
AnswerMatchesLedger ==
    \A c \in Calls :
        LET rows == ledger[CallUser[c]] IN
        /\ call[c].pc \in {"committed", "done"} /\ account[CallUser[c]] = "open"
           => \E i \in RowsOf(CallUser[c], CallJob[c]) :
                 rows[i].delta = -call[c].cost
        /\ call[c].pc = "refused" => \A i \in DOMAIN rows : rows[i].by # c

(* Rows are only ever appended, except by the cascade of a deleted         *)
(* account.                                                                *)
LedgerAppendOnly ==
    [][\A u \in Users :
          \/ account'[u] = "deleted"
          \/ /\ Len(ledger'[u]) \in {Len(ledger[u]), Len(ledger[u]) + 1}
             /\ SubSeq(ledger'[u], 1, Len(ledger[u])) = ledger[u]]_vars

(* What commitDub's comment promises of a retried request: a job is        *)
(* charged at most once (payment.service.ts:1241).                         *)
JobChargedOnce ==
    \A u \in Users : \A i, j \in DOMAIN ledger[u] :
        /\ ledger[u][i].reason = "DUB_SPEND" /\ ledger[u][i].delta < 0
        /\ ledger[u][j].reason = "DUB_SPEND" /\ ledger[u][j].delta < 0
        /\ ledger[u][i].ref = ledger[u][j].ref
        => i = j

(* What reconcile's comment asks of every row, markers included            *)
(* (payment.service.ts:1516).                                              *)
EveryRowRunning ==
    \A u \in Users : \A i \in DOMAIN ledger[u] :
        ledger[u][i].balance = RunningTotal(ledger[u])[i]
=============================================================================
