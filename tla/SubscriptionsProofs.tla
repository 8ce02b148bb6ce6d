------------------------ MODULE SubscriptionsProofs ------------------------
(* Proofs about Subscriptions, for any number of Lemon Squeezy             *)
(* subscriptions, webhooks and overlapping drips, any lengths of periods,  *)
(* graces and windows, and a clock that stops at any time.                 *)
EXTENDS Subscriptions, TLAPS

-----------------------------------------------------------------------------
(* The inductive invariant.                                                *)

(* LS bills a subscription at its renewal and not before: fewer times than *)
(* there were moments, and never a period or more ahead of its last invoice.*)
Billed ==
    \A s \in LsSubs :
        /\ ls[s].status = "none" => Len(invoices[s]) = 0
        /\ ls[s].status # "none" => Len(invoices[s]) < ls[s].renewsAt
        /\ Len(invoices[s]) <= MaxTime
        /\ Len(invoices[s]) > 0 =>
              ls[s].renewsAt <= invoices[s][Len(invoices[s])] + Period

(* Whatever this side holds of a subscription, LS has opened it and its    *)
(* first order was granted.                                                *)
Granted(s) == s \in LsSubs /\ alloc[<<s, 0>>] > 0

Opened ==
    /\ \A s \in LsSubs : Granted(s) => ls[s].status # "none"
    /\ Granted(row.ls) /\ Granted(period[1])
    /\ \A p \in payments : Granted(p[1])

(* The row counts the allocations of the period it stands for; a drip that *)
(* is under way has found room for one more.                               *)
Counted ==
    /\ alloc[period] = row.issued
    /\ row.issued \in 1 .. GrantsPerPeriod
    /\ \A d \in Drips : drip[d] # None => drip[d].issued < GrantsPerPeriod

(* What a syncRenewals remembers is right.  What LS said of its            *)
(* subscription is what it would say now, or is short of that by a period  *)
(* or more; the renewals it is to credit were charged, and there is no gap *)
(* before them.                                                            *)
Right(s) ==
    /\ s.pc # "idle" => Granted(s.sub)
    /\ s.pc \in {"invoices", "known", "grant"} =>
          \/ s.said.renewsAt = ls[s.sub].renewsAt
          \/ s.said.renewsAt + Period <= ls[s.sub].renewsAt
    /\ s.pc \in {"known", "grant"} =>
          /\ s.todo \subseteq DOMAIN invoices[s.sub]
          /\ \A n \in s.todo : \A m \in 1 .. n :
                m \in s.todo \/ <<s.sub, m>> \in payments

(* The period of the row is the newest credited one of its plan's          *)
(* subscription; when LS has billed no later one, the row runs to LS's     *)
(* next renewal.                                                           *)
UpToDate ==
    /\ row.plan = period[1]
    /\ \A n \in Nat : <<period[1], n>> \in payments => n <= period[2]
    /\ period[2] = Len(invoices[period[1]]) =>
          row.end >= ls[period[1]].renewsAt

IInv ==
    /\ TypeOK
    /\ Billed /\ Opened /\ Counted /\ UpToDate
    /\ AllocationsBounded /\ RenewalsInOrder
    /\ \A c \in Syncs : Right(sync[c])

-----------------------------------------------------------------------------
(* A step that leaves alone what LS has and what was credited: it moves    *)
(* what the jobs remember, the clock, or the standing of the row.          *)
LEMMA QuietStep ==
  ASSUME IInv,
         UNCHANGED <<lsVars, payments, alloc, period>>,
         now' \in 0 .. MaxTime,
         row' \in Row, row'.ls = row.ls, row'.plan = row.plan,
         row'.end = row.end, row'.issued = row.issued,
         sync' \in [Syncs -> Sync],
         \A c \in Syncs : Right(sync'[c]),
         drip' \in [Drips -> [lastGrant : Nat, issued : Nat, at : Nat] \cup {None}],
         \A d \in Drips : drip'[d] # None => drip'[d].issued < GrantsPerPeriod,
         lapsed' \in BOOLEAN,
         cancel' \in [sub : LsSubs, stopped : BOOLEAN] \cup {None}
  PROVE  IInv'
<1>1. TypeOK'
  BY DEF IInv, TypeOK, lsVars
<1>2. Billed' /\ Opened' /\ Counted' /\ UpToDate'
  BY DEF IInv, Billed, Opened, Granted, Counted, UpToDate, lsVars
<1>3. AllocationsBounded' /\ RenewalsInOrder'
  BY DEF IInv, AllocationsBounded, RenewalsInOrder, lsVars
<1>4. \A c \in Syncs : Right(sync[c])'
  BY DEF Right, Granted, lsVars
<1> QED BY <1>1, <1>2, <1>3, <1>4 DEF IInv

(* A step of LS that neither bills nor opens a subscription.               *)
LEMMA LsStep ==
  ASSUME IInv,
         UNCHANGED <<invoices, dbVars, now, sync, drip, lapsed>>,
         ls' \in [LsSubs -> LsSub],
         \A s \in LsSubs : /\ ls'[s].renewsAt = ls[s].renewsAt
                           /\ ls'[s].status = "none" <=> ls[s].status = "none",
         cancel' \in [sub : LsSubs, stopped : BOOLEAN] \cup {None}
  PROVE  IInv'
<1>1. TypeOK'
  BY DEF IInv, TypeOK, dbVars
<1>2. Billed'
  BY DEF IInv, Billed
<1>3. Opened' /\ Counted'
  BY DEF IInv, Opened, Granted, Counted, dbVars
<1>4. UpToDate'
  BY DEF IInv, Opened, Granted, UpToDate, dbVars
<1>5. AllocationsBounded' /\ RenewalsInOrder'
  BY DEF IInv, AllocationsBounded, RenewalsInOrder, dbVars
<1>6. \A c \in Syncs : Right(sync[c])'
  BY DEF IInv, Right, Granted, dbVars
<1> QED BY <1>1, <1>2, <1>3, <1>4, <1>5, <1>6 DEF IInv

-----------------------------------------------------------------------------
(* Lemon Squeezy's steps.                                                  *)

LEMMA Amended ==
  ASSUME NEW r \in LsSub, NEW st \in {"none", "active", "past_due", "expired"}, NEW at \in Nat
  PROVE  /\ [r EXCEPT !.status = st, !.renewsAt = at] \in LsSub
         /\ [r EXCEPT !.status = st, !.renewsAt = at].status = st
         /\ [r EXCEPT !.status = st, !.renewsAt = at].renewsAt = at
BY DEF LsSub

(* The row stands for a period LS has billed.                              *)
LEMMA PeriodBilled ==
  ASSUME IInv
  PROVE  /\ period \in Periods /\ period = <<period[1], period[2]>>
         /\ period[1] \in LsSubs /\ period[2] \in Nat
         /\ Len(invoices[period[1]]) \in Nat
         /\ period[2] <= Len(invoices[period[1]])
<1>1. /\ period \in Periods /\ period = <<period[1], period[2]>>
      /\ period[1] \in LsSubs /\ period[2] \in Nat
      /\ invoices[period[1]] \in Seq(Nat)
  BY SubscriptionsAssumption DEF IInv, TypeOK, Periods
<1>2. Len(invoices[period[1]]) \in Nat
  BY <1>1
<1>3. alloc[period] > 0
  BY SubscriptionsAssumption DEF IInv, Counted
<1>4. period[2] > 0 => period[2] <= Len(invoices[period[1]])
  BY <1>1, <1>3 DEF IInv, AllocationsBounded
<1> QED BY <1>1, <1>2, <1>4

\* LS bills a renewal when it is due.
LEMMA BillKeeps ==
  ASSUME IInv, NEW s \in LsSubs, Bill(s)
  PROVE  IInv'
<1> DEFINE at  == ls[s].renewsAt
           old == invoices[s]
<1>1. /\ ls \in [LsSubs -> LsSub] /\ invoices \in [LsSubs -> Seq(Nat)]
      /\ now \in 0 .. MaxTime /\ Period \in Nat \ {0} /\ MaxTime \in Nat
      /\ old \in Seq(Nat) /\ at \in Nat /\ ls[s] \in LsSub
  BY SubscriptionsAssumption DEF IInv, TypeOK, LsSub
<1>2. /\ ls[s].status # "none" /\ at <= now
      /\ invoices' = [invoices EXCEPT ![s] = Append(old, now)]
      /\ ls' = [ls EXCEPT ![s] = [ls[s] EXCEPT !.status = "active", !.renewsAt = at + Period]]
      /\ UNCHANGED <<now, row, payments, alloc, period, sync, drip, lapsed, cancel>>
  BY DEF Bill, Alive, dbVars, jobVars
<1>3. /\ \A r \in LsSubs : r # s => ls'[r] = ls[r] /\ invoices'[r] = invoices[r]
      /\ ls'[s].status = "active" /\ ls'[s].renewsAt = at + Period
      /\ ls' \in [LsSubs -> LsSub]
      /\ invoices'[s] = Append(old, now)
  <2> DEFINE next == at + Period
  <2>1. next \in Nat /\ ls' = [ls EXCEPT ![s] = [ls[s] EXCEPT !.status = "active", !.renewsAt = next]]
    BY <1>1, <1>2
  <2>2. next = at + Period
    OBVIOUS
  <2> HIDE DEF next
  <2>3. /\ [ls[s] EXCEPT !.status = "active", !.renewsAt = next] \in LsSub
        /\ [ls[s] EXCEPT !.status = "active", !.renewsAt = next].status = "active"
        /\ [ls[s] EXCEPT !.status = "active", !.renewsAt = next].renewsAt = next
    BY <1>1, <2>1, Amended
  <2> QED BY <1>1, <1>2, <2>1, <2>2, <2>3
<1>4. /\ Len(invoices'[s]) = Len(old) + 1
      /\ invoices'[s][Len(old) + 1] = now
      /\ DOMAIN old \subseteq DOMAIN invoices'[s]
      /\ invoices' \in [LsSubs -> Seq(Nat)]
  BY <1>1, <1>2, <1>3
<1> HIDE DEF at, old
<1>5. TypeOK'
  BY <1>2, <1>3, <1>4 DEF IInv, TypeOK
<1>6. Len(old) < at /\ Len(old) \in Nat
  BY <1>1, <1>2 DEF IInv, Billed, at, old
<1>7. Billed'
  <2>1. ASSUME NEW r \in LsSubs, r # s PROVE Billed!(r)'
    BY <1>3, <2>1 DEF IInv, Billed
  <2>2. Billed!(s)'
    BY <1>1, <1>2, <1>3, <1>4, <1>6
  <2> QED BY <2>1, <2>2 DEF Billed
<1>8. Opened' /\ Counted'
  BY <1>2, <1>3 DEF IInv, Opened, Granted, Counted
<1>9. UpToDate'
  <2>2. CASE period[1] = s
    BY <1>2, <1>4, <1>6, PeriodBilled, <2>2 DEF IInv, UpToDate, old
  <2>3. CASE period[1] # s
    BY <1>2, <1>3, PeriodBilled, <2>3 DEF IInv, UpToDate
  <2> QED BY <2>2, <2>3
<1>10. AllocationsBounded' /\ RenewalsInOrder'
  BY <1>2, <1>3, <1>4, <1>6 DEF IInv, AllocationsBounded, RenewalsInOrder, Periods, old
<1>11. ASSUME NEW q \in Sync, Right(q) PROVE Right(q)'
  <2>1. q.said.renewsAt \in Nat
    BY DEF Sync, LsSub
  <2>2. CASE q.sub # s
    BY <1>2, <1>3, <1>11, <2>1, <2>2 DEF Right, Granted
  <2>3. CASE q.sub = s
    BY <1>1, <1>2, <1>3, <1>4, <1>11, <2>1, <2>3 DEF Right, Granted, at, old
  <2> QED BY <2>2, <2>3
<1>12. \A c \in Syncs : Right(sync[c])'
  BY <1>2, <1>11 DEF IInv, TypeOK
<1> QED BY <1>5, <1>7, <1>8, <1>9, <1>10, <1>12 DEF IInv

\* Another subscription is opened at LS.
LEMMA BuyKeeps ==
  ASSUME IInv, NEW s \in LsSubs, Buy(s)
  PROVE  IInv'
<1>1. /\ ls' = [ls EXCEPT ![s] = [NoSub EXCEPT !.status = "active", !.renewsAt = now + Period]]
      /\ ls[s].status = "none"
      /\ UNCHANGED <<now, invoices, row, payments, alloc, period, sync, drip, lapsed, cancel>>
      /\ now \in Nat /\ Period \in Nat \ {0} /\ ls \in [LsSubs -> LsSub]
  BY SubscriptionsAssumption DEF Buy, IInv, TypeOK, dbVars, jobVars
<1>2. /\ \A r \in LsSubs : r # s => ls'[r] = ls[r]
      /\ ls'[s].status = "active" /\ ls'[s].renewsAt = now + Period
      /\ ls' \in [LsSubs -> LsSub]
  <2> DEFINE next == now + Period
  <2>1. next \in Nat /\ ls' = [ls EXCEPT ![s] = [NoSub EXCEPT !.status = "active", !.renewsAt = next]]
    BY <1>1
  <2>2. next = now + Period /\ NoSub \in LsSub
    BY DEF NoSub, LsSub
  <2> HIDE DEF next
  <2>3. /\ [NoSub EXCEPT !.status = "active", !.renewsAt = next] \in LsSub
        /\ [NoSub EXCEPT !.status = "active", !.renewsAt = next].status = "active"
        /\ [NoSub EXCEPT !.status = "active", !.renewsAt = next].renewsAt = next
    BY <2>1 DEF NoSub, LsSub
  <2> QED BY <1>1, <2>1, <2>2, <2>3
<1>3. ~ Granted(s)
  BY <1>1 DEF IInv, Opened
<1>4. TypeOK'
  BY <1>1, <1>2 DEF IInv, TypeOK
<1>5. Billed'
  BY <1>1, <1>2 DEF IInv, Billed
<1>6. Opened' /\ Counted' /\ UpToDate'
  BY <1>1, <1>2, <1>3 DEF IInv, Opened, Granted, Counted, UpToDate
<1>7. AllocationsBounded' /\ RenewalsInOrder'
  BY <1>1 DEF IInv, AllocationsBounded, RenewalsInOrder
<1>8. ASSUME NEW c \in Syncs PROVE Right(sync[c])'
  BY <1>1, <1>2, <1>3 DEF IInv, Right, Granted, TypeOK, Sync
<1> QED BY <1>4, <1>5, <1>6, <1>7, <1>8 DEF IInv

(* Nothing was credited of a subscription whose first order was not.       *)
LEMMA RepointKeeps ==
  ASSUME IInv, NEW s \in LsSubs, Repoint(s)
  PROVE  IInv'
<1>1. /\ row' = Fresh(s, ls[s].renewsAt) /\ alloc[<<s, 0>>] = 0 /\ ls[s].status # "none"
      /\ alloc' = [alloc EXCEPT ![<<s, 0>>] = 1]
      /\ period' = <<s, 0>>
      /\ UNCHANGED <<now, ls, invoices, payments, sync, drip, lapsed, cancel>>
      /\ now \in 0 .. MaxTime /\ MaxTime \in Nat /\ ls \in [LsSubs -> LsSub]
      /\ GrantsPerPeriod \in Nat \ {0}
      /\ <<s, 0>> \in Periods /\ alloc \in [Periods -> Nat]
  BY SubscriptionsAssumption DEF Repoint, IInv, TypeOK, lsVars, jobVars, Periods
<1>2. /\ \A p \in Periods : p # <<s, 0>> => alloc'[p] = alloc[p]
      /\ alloc'[<<s, 0>>] = 1 /\ alloc' \in [Periods -> Nat]
  BY <1>1
<1>3. /\ row' \in Row /\ row'.ls = s /\ row'.plan = s /\ row'.end = ls[s].renewsAt
      /\ row'.issued = 1
  BY <1>1 DEF Fresh, Row, LsSub
<1>4. \A r : Granted(r) => Granted(r)'
  BY <1>1, <1>2 DEF Granted, Periods
<1>5. \A n : <<s, n>> \notin payments
  BY <1>1 DEF IInv, Opened, Granted
<1>6. TypeOK'
  BY <1>1, <1>2, <1>3 DEF IInv, TypeOK
<1>7. Billed'
  BY <1>1 DEF IInv, Billed
<1>8. Opened'
  BY <1>1, <1>2, <1>3, <1>4 DEF IInv, Opened, Granted, Periods
<1>9. Counted' /\ UpToDate'
  <2>1. Counted'
    BY <1>1, <1>2, <1>3 DEF IInv, Counted
  <2>2. ls[s].renewsAt \in Nat
    BY <1>1 DEF LsSub
  <2>3. UpToDate'
    BY <1>1, <1>3, <1>5, <2>2 DEF UpToDate
  <2> QED BY <2>1, <2>3
<1>10. AllocationsBounded' /\ RenewalsInOrder'
  BY <1>1, <1>2 DEF IInv, AllocationsBounded, RenewalsInOrder
<1>11. ASSUME NEW c \in Syncs PROVE Right(sync[c])'
  BY <1>1, <1>4 DEF IInv, Right
<1> QED BY <1>6, <1>7, <1>8, <1>9, <1>10, <1>11 DEF IInv

-----------------------------------------------------------------------------
(* syncRenewals.                                                           *)

(* A step that moves one sync only.                                        *)
LEMMA SyncMoves ==
  ASSUME IInv, NEW c \in Syncs, NEW q \in Sync, Right(q), Set(c, q),
         UNCHANGED <<now, lsVars, dbVars, drip, lapsed, cancel>>
  PROVE  IInv'
<1>1. /\ sync \in [Syncs -> Sync] /\ now \in 0 .. MaxTime /\ row \in Row
      /\ sync' = [sync EXCEPT ![c] = q]
      /\ \A d \in Syncs : Right(sync[d])
      /\ drip \in [Drips -> [lastGrant : Nat, issued : Nat, at : Nat] \cup {None}]
      /\ \A d \in Drips : drip[d] # None => drip[d].issued < GrantsPerPeriod
      /\ lapsed \in BOOLEAN
      /\ cancel \in [sub : LsSubs, stopped : BOOLEAN] \cup {None}
  BY DEF IInv, TypeOK, Counted, Set
<1>2. /\ sync' \in [Syncs -> Sync]
      /\ \A d \in Syncs : Right(sync'[d])
  BY <1>1
<1> QED BY <1>1, <1>2, QuietStep DEF dbVars

\* A sync that has read nothing is right about everything.
LEMMA IdleIsRight == Idle \in Sync /\ Right(Idle)
BY DEF Idle, NoSub, Sync, SyncPCs, LsSub, Right

(* What a running sync holds.                                              *)
LEMMA SyncHolds ==
  ASSUME IInv, NEW c \in Syncs
  PROVE  /\ sync[c] \in Sync /\ Right(sync[c])
         /\ Granted(row.ls) /\ row.ls \in LsSubs
         /\ sync[c].pc # "idle" => /\ Granted(sync[c].sub) /\ sync[c].sub \in LsSubs
                                   /\ ls[sync[c].sub] \in LsSub
                                   /\ DOMAIN invoices[sync[c].sub] \subseteq 1 .. MaxTime
<1>1. sync[c] \in Sync /\ Right(sync[c]) /\ Granted(row.ls)
  BY DEF IInv, TypeOK, Opened
<1>2. ASSUME NEW s \in LsSubs PROVE ls[s] \in LsSub /\ DOMAIN invoices[s] \subseteq 1 .. MaxTime
  BY SubscriptionsAssumption DEF IInv, TypeOK, Billed
<1> QED BY <1>1, <1>2 DEF Right, Granted

\* A sync reads the row.
LEMMA LoadKeeps == ASSUME IInv, NEW c \in Syncs, Load(c) PROVE IInv'
<1> DEFINE q == [Idle EXCEPT !.pc = "status", !.sub = row.ls]
<1>1. q \in Sync /\ Right(q)
  BY SyncHolds DEF Idle, NoSub, Sync, SyncPCs, LsSub, Right
<1>2. Set(c, q) /\ UNCHANGED <<now, lsVars, dbVars, drip, lapsed, cancel>>
  BY DEF Load
<1> QED BY <1>1, <1>2, SyncMoves

\* A sync asks LS how the subscription is.
LEMMA FetchStatusKeeps == ASSUME IInv, NEW c \in Syncs, FetchStatus(c) PROVE IInv'
<1> DEFINE q == [sync[c] EXCEPT !.pc = "invoices", !.said = ls[sync[c].sub]]
<1>1. Set(c, q) /\ UNCHANGED <<now, lsVars, dbVars, drip, lapsed, cancel>> /\ sync[c].pc = "status"
  BY DEF FetchStatus
<1>2. q \in Sync
  BY <1>1, SyncHolds DEF Sync, SyncPCs
<1>3. q.sub = sync[c].sub /\ q.said = ls[sync[c].sub] /\ q.pc = "invoices"
  BY SyncHolds DEF Sync
<1> HIDE DEF q
<1>4. Right(q)
  BY <1>1, <1>3, SyncHolds DEF Right
<1> QED BY <1>1, <1>2, <1>4, SyncMoves

\* A sync asks LS for the invoices.
LEMMA FetchInvoicesKeeps == ASSUME IInv, NEW c \in Syncs, FetchInvoices(c) PROVE IInv'
<1> DEFINE q == [sync[c] EXCEPT !.pc = "known", !.todo = DOMAIN invoices[sync[c].sub]]
<1>1. Set(c, q) /\ UNCHANGED <<now, lsVars, dbVars, drip, lapsed, cancel>> /\ sync[c].pc = "invoices"
  BY DEF FetchInvoices
<1>2. q \in Sync
  BY <1>1, SyncHolds DEF Sync, SyncPCs
<1>3. /\ q.sub = sync[c].sub /\ q.said = sync[c].said /\ q.pc = "known"
      /\ q.todo = DOMAIN invoices[sync[c].sub]
  BY SyncHolds DEF Sync
<1>4. invoices[q.sub] \in Seq(Nat)
  BY <1>1, <1>3, SyncHolds DEF IInv, TypeOK
<1> HIDE DEF q
<1>5. Right(q)
  BY <1>1, <1>3, <1>4, SyncHolds DEF Right
<1> QED BY <1>1, <1>2, <1>5, SyncMoves

\* A sync reads which renewals are credited.
LEMMA ReadKnownKeeps == ASSUME IInv, NEW c \in Syncs, ReadKnown(c) PROVE IInv'
<1> DEFINE left == {n \in sync[c].todo : <<sync[c].sub, n>> \notin payments}
           q == [sync[c] EXCEPT !.pc = "grant", !.todo = left]
<1>1. Set(c, q) /\ UNCHANGED <<now, lsVars, dbVars, drip, lapsed, cancel>> /\ sync[c].pc = "known"
  BY DEF ReadKnown
<1>2. q \in Sync
  BY SyncHolds DEF Sync, SyncPCs
<1>3. q.sub = sync[c].sub /\ q.said = sync[c].said /\ q.pc = "grant" /\ q.todo = left
  BY SyncHolds DEF Sync
<1> HIDE DEF q
<1>4. Right(q)
  BY <1>1, <1>3, SyncHolds DEF Right
<1> QED BY <1>1, <1>2, <1>4, SyncMoves

\* A renewal somebody else credited meanwhile.
LEMMA ConflictKeeps == ASSUME IInv, NEW c \in Syncs, Conflict(c) PROVE IInv'
<1>1. /\ sync[c].pc = "grant"
      /\ UNCHANGED <<now, lsVars, dbVars, drip, lapsed, cancel>>
  BY DEF Conflict
<1>2. PICK n \in sync[c].todo : /\ <<sync[c].sub, n>> \in payments
                                /\ Set(c, [sync[c] EXCEPT !.todo = @ \ {n}])
  BY DEF Conflict
<1> DEFINE q == [sync[c] EXCEPT !.todo = sync[c].todo \ {n}]
<1>3. q \in Sync
  BY SyncHolds DEF Sync
<1>4. q.sub = sync[c].sub /\ q.said = sync[c].said /\ q.pc = "grant" /\ q.todo = sync[c].todo \ {n}
  BY <1>1, SyncHolds DEF Sync
<1>5. Set(c, q)
  BY <1>2, SyncHolds DEF Sync
<1> HIDE DEF q
<1>6. Right(q)
  BY <1>1, <1>2, <1>4, SyncHolds DEF Right
<1> QED BY <1>1, <1>3, <1>5, <1>6, SyncMoves

\* A sync reads the row once more.
LEMMA ApplyReadKeeps == ASSUME IInv, NEW c \in Syncs, ApplyRead(c) PROVE IInv'
<1>1. /\ sync[c].pc = "grant"
      /\ UNCHANGED <<now, lsVars, dbVars, drip, lapsed, cancel>>
  BY DEF ApplyRead
<1>2. PICK next \in {"EXPIRED", "PAST_DUE", None}, leave \in BOOLEAN :
        \/ Set(c, Idle)
        \/ Set(c, [sync[c] EXCEPT !.pc = "write", !.said = NoSub, !.next = next,
                                  !.leave = leave])
  BY SyncHolds DEF ApplyRead, Sync, LsSub, IInv, TypeOK, Row
<1> DEFINE q == [sync[c] EXCEPT !.pc = "write", !.said = NoSub, !.next = next, !.leave = leave]
<1>3. q \in Sync
  BY SyncHolds DEF Sync, SyncPCs, NoSub, LsSub
<1>4. q.sub = sync[c].sub /\ q.pc = "write"
  BY SyncHolds DEF Sync
<1>5. Set(c, Idle) \/ Set(c, q)
  BY <1>2
<1> HIDE DEF q
<1>6. Right(q)
  BY <1>1, <1>4, SyncHolds DEF Right
<1> QED BY <1>1, <1>3, <1>5, <1>6, IdleIsRight, SyncMoves

\* A sync stops half way.
LEMMA GiveUpKeeps == ASSUME IInv, NEW c \in Syncs, GiveUp(c) PROVE IInv'
BY IdleIsRight, SyncMoves DEF GiveUp

\* A sync mirrors what LS said.
LEMMA ApplyWriteKeeps == ASSUME IInv, NEW c \in Syncs, ApplyWrite(c) PROVE IInv'
<1>1. /\ UNCHANGED <<now, lsVars, payments, alloc, period, drip, lapsed, cancel>>
      /\ sync' = [sync EXCEPT ![c] = Idle]
      /\ row' = [row EXCEPT !.status  = IF sync[c].next = None THEN @ ELSE sync[c].next,
                            !.leaving = @ \/ sync[c].leave]
  BY DEF ApplyWrite, Set
<1>2. /\ sync' \in [Syncs -> Sync]
      /\ \A d \in Syncs : Right(sync'[d])
  BY <1>1, IdleIsRight DEF IInv, TypeOK
<1>3. /\ row' \in Row /\ row'.ls = row.ls /\ row'.plan = row.plan
      /\ row'.end = row.end /\ row'.issued = row.issued
  BY <1>1, SyncHolds DEF IInv, TypeOK, Row, Sync
<1> QED BY <1>1, <1>2, <1>3, QuietStep DEF IInv, TypeOK, Counted

(* A credited renewal is the newest of its subscription: none before it is *)
(* missing, and none after it has been credited.  Its period runs to where *)
(* LS would bill next, or no later one has been billed.                    *)
LEMMA NewestCredited ==
  ASSUME IInv, NEW c \in Syncs, sync[c].pc = "grant",
         NEW n \in sync[c].todo, Oldest(c, n),
         <<sync[c].sub, n>> \notin payments
  PROVE  /\ n \in 1 .. MaxTime /\ n <= Len(invoices[sync[c].sub])
         /\ \A m \in 1 .. n : m = n \/ <<sync[c].sub, m>> \in payments
         /\ \A m \in Nat : <<sync[c].sub, m>> \in payments => m < n
         /\ PeriodEnd(c, n) \in Nat
         /\ n = Len(invoices[sync[c].sub]) => PeriodEnd(c, n) >= ls[sync[c].sub].renewsAt
<1> DEFINE sub == sync[c].sub
<1>1. /\ sub \in LsSubs /\ invoices[sub] \in Seq(Nat) /\ ls[sub].renewsAt \in Nat
      /\ sync[c].said.renewsAt \in Nat /\ sync[c].todo \subseteq 1 .. MaxTime
      /\ Period \in Nat \ {0} /\ MaxTime \in Nat
  BY SyncHolds, SubscriptionsAssumption DEF IInv, TypeOK, LsSub, Sync
<1>2. /\ sync[c].todo \subseteq DOMAIN invoices[sub]
      /\ \A m \in 1 .. n : m \in sync[c].todo \/ <<sub, m>> \in payments
      /\ \/ sync[c].said.renewsAt = ls[sub].renewsAt
         \/ sync[c].said.renewsAt + Period <= ls[sub].renewsAt
  BY SyncHolds DEF Right
<1> HIDE DEF sub
<1>3. n \in 1 .. MaxTime /\ n <= Len(invoices[sub]) /\ invoices[sub][n] \in Nat
  BY <1>1, <1>2
<1>4. \A m \in 1 .. n : m = n \/ <<sub, m>> \in payments
  BY <1>1, <1>2, <1>3 DEF Oldest
<1>5. \A m \in Nat : <<sub, m>> \in payments => m < n
  BY <1>1, <1>3 DEF IInv, RenewalsInOrder, sub
<1>6. n = Len(invoices[sub]) => ls[sub].renewsAt <= invoices[sub][n] + Period
  BY <1>1, <1>3 DEF IInv, Billed
<1>7. /\ PeriodEnd(c, n) \in Nat
      /\ n = Len(invoices[sub]) => PeriodEnd(c, n) >= ls[sub].renewsAt
  <2>1. PeriodEnd(c, n) = IF sync[c].said.renewsAt > invoices[sub][n]
                          THEN sync[c].said.renewsAt ELSE invoices[sub][n] + Period
    BY DEF PeriodEnd, sub
  <2> DEFINE said == sync[c].said.renewsAt
             at   == invoices[sub][n]
             next == ls[sub].renewsAt
             end  == PeriodEnd(c, n)
  <2>2. /\ said \in Nat /\ at \in Nat /\ next \in Nat /\ Period \in Nat
        /\ said = next \/ said + Period <= next
        /\ n = Len(invoices[sub]) => next <= at + Period
        /\ end = IF said > at THEN said ELSE at + Period
    BY <1>1, <1>2, <1>3, <1>6, <2>1
  <2> HIDE DEF said, at, next, end
  <2>3. end \in Nat /\ (n = Len(invoices[sub]) => end >= next)
    BY <2>2
  <2> QED BY <2>3 DEF next, end
<1> QED BY <1>3, <1>4, <1>5, <1>7 DEF sub

\* A sync credits the oldest renewal that is not.
LEMMA GrantRenewalKeeps == ASSUME IInv, NEW c \in Syncs, GrantRenewal(c) PROVE IInv'
<1> DEFINE sub == sync[c].sub
<1>1. sync[c].pc = "grant" /\ UNCHANGED <<now, lsVars, drip, lapsed, cancel>>
  BY DEF GrantRenewal
<1>2. PICK n \in sync[c].todo :
        /\ Oldest(c, n) /\ <<sub, n>> \notin payments
        /\ payments' = payments \cup {<<sub, n>>}
        /\ row' = [row EXCEPT !.plan = sub, !.status = "ACTIVE", !.end = PeriodEnd(c, n),
                              !.lastGrant = now, !.issued = 1]
        /\ alloc' = [alloc EXCEPT ![<<sub, n>>] = @ + 1]
        /\ period' = <<sub, n>>
        /\ Set(c, [sync[c] EXCEPT !.todo = @ \ {n}])
  BY DEF GrantRenewal
<1>3. /\ n \in 1 .. MaxTime /\ n <= Len(invoices[sub])
      /\ \A m \in 1 .. n : m = n \/ <<sub, m>> \in payments
      /\ \A m \in Nat : <<sub, m>> \in payments => m < n
      /\ PeriodEnd(c, n) \in Nat
      /\ n = Len(invoices[sub]) => PeriodEnd(c, n) >= ls[sub].renewsAt
  BY <1>1, <1>2, NewestCredited
<1>4. /\ sub \in LsSubs /\ Granted(sub) /\ n \in Nat \ {0} /\ MaxTime \in Nat
      /\ GrantsPerPeriod \in Nat \ {0}
  BY <1>1, <1>3, SyncHolds, SubscriptionsAssumption
<1> HIDE DEF sub
<1>5. /\ <<sub, n>> \in Periods /\ <<sub, n>> \in Renewals /\ alloc \in [Periods -> Nat]
  BY <1>3, <1>4 DEF Periods, Renewals, IInv, TypeOK
<1>6. /\ \A p \in Periods : p # <<sub, n>> => alloc'[p] = alloc[p]
      /\ alloc'[<<sub, n>>] = 1 /\ alloc' \in [Periods -> Nat]
  <2>1. alloc[<<sub, n>>] = 0
    BY <1>2, <1>4, <1>5 DEF IInv, AllocationsBounded
  <2> QED BY <1>2, <1>5, <2>1
<1>7. \A r : Granted(r) => Granted(r)'
  BY <1>4, <1>6 DEF Granted, Periods
<1>8. /\ row' \in Row /\ row'.ls = row.ls /\ row'.plan = sub
      /\ row'.end = PeriodEnd(c, n) /\ row'.issued = 1
  <2> DEFINE end == PeriodEnd(c, n)
  <2>1. end \in Nat /\ now \in Nat /\ row \in Row
    BY <1>3, <1>4 DEF IInv, TypeOK
  <2>2. row' = [row EXCEPT !.plan = sub, !.status = "ACTIVE", !.end = end,
                           !.lastGrant = now, !.issued = 1]
    BY <1>2
  <2> HIDE DEF end
  <2>3. row' \in Row /\ row'.ls = row.ls /\ row'.plan = sub /\ row'.end = end /\ row'.issued = 1
    BY <1>4, <2>1, <2>2 DEF Row
  <2> QED BY <2>3 DEF end
<1>9. PICK q \in Sync : /\ sync' = [sync EXCEPT ![c] = q]
                        /\ q.sub = sub /\ q.said = sync[c].said /\ q.pc = "grant"
                        /\ q.todo = sync[c].todo \ {n}
  <2> DEFINE r == [sync[c] EXCEPT !.todo = sync[c].todo \ {n}]
  <2>1. /\ r \in Sync /\ r.sub = sub /\ r.said = sync[c].said /\ r.pc = "grant"
        /\ r.todo = sync[c].todo \ {n}
    BY <1>1, SyncHolds DEF Sync, sub
  <2>2. sync' = [sync EXCEPT ![c] = r]
    BY <1>2, SyncHolds DEF Set, Sync
  <2> QED BY <2>1, <2>2
<1>10. TypeOK'
  BY <1>1, <1>2, <1>5, <1>6, <1>8, <1>9 DEF IInv, TypeOK, lsVars
<1>11. Billed'
  BY <1>1 DEF IInv, Billed, lsVars
<1>12. Opened'
  BY <1>1, <1>2, <1>4, <1>5, <1>7, <1>8 DEF IInv, Opened, Granted, lsVars, Periods
<1>13. Counted'
  BY <1>1, <1>2, <1>4, <1>6, <1>8 DEF IInv, Counted
<1>14. UpToDate'
  BY <1>1, <1>2, <1>3, <1>4, <1>8 DEF UpToDate, lsVars
<1>15. AllocationsBounded'
  BY <1>1, <1>2, <1>3, <1>4, <1>5, <1>6 DEF IInv, AllocationsBounded, lsVars
<1>16. RenewalsInOrder'
  <2> SUFFICES ASSUME NEW p \in payments', NEW m \in 1 .. p[2] PROVE <<p[1], m>> \in payments'
    BY DEF RenewalsInOrder
  <2>1. CASE p \in payments
    BY <1>2, <2>1 DEF IInv, RenewalsInOrder
  <2>2. CASE p = <<sub, n>>
    BY <1>2, <1>3, <2>2
  <2> QED BY <1>2, <2>1, <2>2
<1>17. ASSUME NEW r \in Sync, Right(r) PROVE Right(r)'
  BY <1>1, <1>2, <1>7, <1>17 DEF Right, lsVars
<1>18. Right(q)'
  <2>1. Right(sync[c])
    BY DEF IInv
  <2> QED BY <1>1, <1>2, <1>4, <1>7, <1>9, <2>1 DEF Right, lsVars, sub
<1>19. \A d \in Syncs : Right(sync[d])'
  BY <1>9, <1>17, <1>18 DEF IInv, TypeOK
<1> QED BY <1>10, <1>11, <1>12, <1>13, <1>14, <1>15, <1>16, <1>19 DEF IInv

-----------------------------------------------------------------------------
(* The other jobs.                                                         *)

DripRecord == [lastGrant : Nat, issued : Nat, at : Nat]

(* A step of the jobs that moves neither the row nor a sync.               *)
LEMMA JobMoves ==
  ASSUME IInv, UNCHANGED <<lsVars, dbVars, sync>>,
         now' \in 0 .. MaxTime,
         drip' \in [Drips -> DripRecord \cup {None}],
         \A d \in Drips : drip'[d] # None => drip'[d].issued < GrantsPerPeriod,
         lapsed' \in BOOLEAN,
         cancel' \in [sub : LsSubs, stopped : BOOLEAN] \cup {None}
  PROVE  IInv'
<1>1. /\ UNCHANGED <<lsVars, payments, alloc, period>>
      /\ row' \in Row /\ row' = row /\ sync' \in [Syncs -> Sync]
      /\ \A c \in Syncs : Right(sync'[c])
  BY DEF IInv, TypeOK, dbVars
<1> QED BY <1>1, QuietStep DEF DripRecord

(* A step that changes the standing of the row, and of jobs but no sync.   *)
LEMMA StandingMoves ==
  ASSUME IInv, UNCHANGED <<now, lsVars, payments, alloc, period, sync, drip>>,
         NEW st \in {"ACTIVE", "PAST_DUE", "EXPIRED"}, NEW lv \in BOOLEAN,
         row' = [row EXCEPT !.status = st, !.leaving = lv],
         lapsed' \in BOOLEAN,
         cancel' \in [sub : LsSubs, stopped : BOOLEAN] \cup {None}
  PROVE  IInv'
<1>1. row \in Row /\ now \in 0 .. MaxTime /\ sync \in [Syncs -> Sync]
  BY DEF IInv, TypeOK
<1>2. /\ row' \in Row /\ row'.ls = row.ls /\ row'.plan = row.plan
      /\ row'.end = row.end /\ row'.issued = row.issued
  BY <1>1 DEF Row
<1>3. /\ now' \in 0 .. MaxTime /\ sync' \in [Syncs -> Sync]
      /\ \A c \in Syncs : Right(sync'[c])
      /\ drip' \in [Drips -> DripRecord \cup {None}]
      /\ \A d \in Drips : drip'[d] # None => drip'[d].issued < GrantsPerPeriod
  BY DEF IInv, TypeOK, Counted, DripRecord
<1> QED BY <1>2, <1>3, QuietStep DEF DripRecord

\* What the clock and the jobs are made of.
LEMMA JobTypes ==
  ASSUME IInv
  PROVE  /\ now \in 0 .. MaxTime /\ row \in Row
         /\ drip \in [Drips -> DripRecord \cup {None}]
         /\ \A d \in Drips : drip[d] # None => drip[d].issued < GrantsPerPeriod
         /\ lapsed \in BOOLEAN
         /\ cancel \in [sub : LsSubs, stopped : BOOLEAN] \cup {None}
         /\ row.issued \in 1 .. GrantsPerPeriod
         /\ row.ls \in LsSubs
BY DEF IInv, TypeOK, Counted, DripRecord, Row

\* Time passes.
LEMMA AdvanceKeeps == ASSUME IInv, Advance PROVE IInv'
<1>1. UNCHANGED <<lsVars, dbVars, jobVars>> /\ now' = now + 1 /\ now < MaxTime
  BY DEF Advance
<1>2. now' \in 0 .. MaxTime
  BY <1>1, JobTypes, SubscriptionsAssumption
<1> QED BY <1>1, <1>2, JobTypes, JobMoves DEF jobVars

\* A drip reads the row.
LEMMA DripReadKeeps == ASSUME IInv, NEW d \in Drips, DripRead(d) PROVE IInv'
<1> DEFINE q == [lastGrant |-> row.lastGrant, issued |-> row.issued, at |-> now]
<1>1. /\ row.issued < GrantsPerPeriod
      /\ drip' = [drip EXCEPT ![d] = q]
      /\ UNCHANGED <<now, lsVars, dbVars, sync, lapsed, cancel>>
  BY DEF DripRead
<1>2. q \in DripRecord /\ q.issued = row.issued
  BY JobTypes, SubscriptionsAssumption DEF DripRecord, Row
<1> HIDE DEF q
<1>3. /\ drip' \in [Drips -> DripRecord \cup {None}]
      /\ \A e \in Drips : drip'[e] # None => drip'[e].issued < GrantsPerPeriod
  BY <1>1, <1>2, JobTypes
<1> QED BY <1>1, <1>3, JobTypes, JobMoves

\* A drip record is dropped.
LEMMA DripStops ==
  ASSUME IInv, NEW d \in Drips, drip' = [drip EXCEPT ![d] = None]
  PROVE  /\ drip' \in [Drips -> DripRecord \cup {None}]
         /\ \A e \in Drips : drip'[e] # None => drip'[e].issued < GrantsPerPeriod
BY JobTypes

(* The stamp of the row is the one that was read, so there is still room   *)
(* for one more allocation in the period the row stands for now.           *)
LEMMA DripWriteKeeps == ASSUME IInv, NEW d \in Drips, DripWrite(d) PROVE IInv'
<1>1. /\ drip[d] # None
      /\ UNCHANGED <<now, lsVars, payments, period, sync, lapsed, cancel>>
      /\ drip' = [drip EXCEPT ![d] = None]
  BY DEF DripWrite
<1>2. CASE UNCHANGED <<row, alloc>>
  BY <1>1, <1>2, JobTypes, DripStops, JobMoves DEF dbVars
<1>3. CASE /\ row.issued = drip[d].issued
           /\ row' = [row EXCEPT !.lastGrant = drip[d].at, !.issued = @ + 1]
           /\ alloc' = [alloc EXCEPT ![period] = @ + 1]
  <2>1. /\ drip[d].issued < GrantsPerPeriod /\ drip[d].at \in Nat
        /\ row.issued \in 1 .. GrantsPerPeriod /\ GrantsPerPeriod \in Nat
        /\ period \in Periods /\ alloc \in [Periods -> Nat] /\ alloc[period] = row.issued
    BY <1>1, JobTypes, SubscriptionsAssumption DEF DripRecord, IInv, TypeOK, Counted
  <2>2. /\ \A p \in Periods : p # period => alloc'[p] = alloc[p]
        /\ alloc'[period] = row.issued + 1
        /\ alloc' \in [Periods -> Nat]
        /\ row.issued + 1 \in 1 .. GrantsPerPeriod
    BY <1>3, <2>1
  <2> DEFINE more == row.issued + 1
  <2>3. /\ row' = [row EXCEPT !.lastGrant = drip[d].at, !.issued = more]
        /\ more \in Nat
    BY <1>3, <2>2
  <2> HIDE DEF more
  <2>4. /\ row' \in Row /\ row'.ls = row.ls /\ row'.plan = row.plan
        /\ row'.end = row.end /\ row'.issued = more
    BY <2>1, <2>3, JobTypes DEF Row
  <2>5. \A s : Granted(s) => Granted(s)'
    BY <2>1, <2>2, SubscriptionsAssumption DEF Granted, Periods
  <2>6. TypeOK'
    BY <1>1, <2>2, <2>4, DripStops DEF IInv, TypeOK, lsVars, DripRecord
  <2>7. Billed' /\ RenewalsInOrder'
    BY <1>1 DEF IInv, Billed, RenewalsInOrder, lsVars
  <2>8. Opened'
    <3>1. \A s \in LsSubs : Granted(s)' => Granted(s)
      BY <2>1, <2>2, SubscriptionsAssumption DEF Granted, Periods
    <3>2. \A s \in LsSubs : Granted(s)' => ls'[s].status # "none"
      BY <1>1, <3>1 DEF IInv, Opened, lsVars
    <3>3. Granted(row.ls)' /\ Granted(period[1])' /\ \A p \in payments : Granted(p[1])'
      BY <1>1, <2>4, <2>5 DEF IInv, Opened
    <3> QED BY <1>1, <3>2, <3>3 DEF Opened
  <2>9. Counted'
    BY <1>1, <2>2, <2>4, DripStops DEF Counted, more
  <2>10. UpToDate'
    BY <1>1, <2>4 DEF IInv, UpToDate, lsVars
  <2>11. AllocationsBounded'
    BY <1>1, <2>1, <2>2 DEF IInv, AllocationsBounded, lsVars
  <2>12. ASSUME NEW q, Right(q) PROVE Right(q)'
    BY <1>1, <2>5, <2>12 DEF Right, lsVars
  <2>13. \A c \in Syncs : Right(sync[c])'
    BY <1>1, <2>12 DEF IInv
  <2> QED BY <2>6, <2>7, <2>8, <2>9, <2>10, <2>11, <2>13 DEF IInv
<1> QED BY <1>2, <1>3 DEF DripWrite

\* The expiry reads the row.
LEMMA ExpireReadKeeps == ASSUME IInv, ExpireRead PROVE IInv'
BY JobTypes, JobMoves DEF ExpireRead

\* The expiry ends a row that is overdue.
LEMMA ExpireWriteKeeps == ASSUME IInv, ExpireWrite PROVE IInv'
<1>1. PICK st \in {"ACTIVE", "PAST_DUE", "EXPIRED"}, lv \in BOOLEAN :
        row' = [row EXCEPT !.status = st, !.leaving = lv]
  <2>1. CASE Live
    <3>1. row' = [row EXCEPT !.status = "EXPIRED", !.leaving = row.leaving]
      BY <2>1, JobTypes DEF ExpireWrite, Row
    <3> QED BY <3>1, JobTypes DEF Row
  <2>2. CASE ~ Live
    <3>1. row' = [row EXCEPT !.status = row.status, !.leaving = row.leaving]
      BY <2>2, JobTypes DEF ExpireWrite, Row
    <3> QED BY <3>1, JobTypes DEF Row
  <2> QED BY <2>1, <2>2
<1> QED BY <1>1, JobTypes, StandingMoves DEF ExpireWrite

\* A cancellation reads the row.
LEMMA CancelReadKeeps == ASSUME IInv, CancelRead PROVE IInv'
BY JobTypes, JobMoves DEF CancelRead

\* A cancellation marks the row.
LEMMA CancelWriteKeeps == ASSUME IInv, CancelWrite PROVE IInv'
<1>1. row' = [row EXCEPT !.status = row.status, !.leaving = TRUE]
  BY JobTypes DEF CancelWrite, Row
<1>2. row.status \in {"ACTIVE", "PAST_DUE", "EXPIRED"}
  BY JobTypes DEF Row
<1> QED BY <1>1, <1>2, JobTypes, StandingMoves DEF CancelWrite

\* A job fails between its steps.
LEMMA JobFailsKeeps == ASSUME IInv, JobFails PROVE IInv'
<1>1. UNCHANGED <<now, lsVars, dbVars, sync>>
  BY DEF JobFails
<1>2. /\ drip' \in [Drips -> DripRecord \cup {None}]
      /\ \A e \in Drips : drip'[e] # None => drip'[e].issued < GrantsPerPeriod
  BY JobTypes, DripStops DEF JobFails
<1>3. lapsed' \in BOOLEAN /\ cancel' \in [sub : LsSubs, stopped : BOOLEAN] \cup {None}
  BY JobTypes DEF JobFails
<1> QED BY <1>1, <1>2, <1>3, JobTypes, JobMoves

(* The card's standing at LS and the owner's wish to leave.                *)
LEMMA LsAmends ==
  ASSUME IInv, NEW s \in LsSubs, ls[s].status # "none",
         NEW st \in {"active", "past_due", "expired"}, NEW cl \in BOOLEAN,
         ls' = [ls EXCEPT ![s] = [ls[s] EXCEPT !.status = st, !.cancelled = cl]],
         UNCHANGED <<invoices, dbVars, now, sync, drip, lapsed>>,
         cancel' \in [sub : LsSubs, stopped : BOOLEAN] \cup {None}
  PROVE  IInv'
<1> DEFINE q == [ls[s] EXCEPT !.status = st, !.cancelled = cl]
<1>1. q \in LsSub /\ q.status # "none" /\ q.renewsAt = ls[s].renewsAt
  BY DEF IInv, TypeOK, LsSub
<1>2. ls \in [LsSubs -> LsSub] /\ ls' = [ls EXCEPT ![s] = q]
  BY DEF IInv, TypeOK
<1> HIDE DEF q
<1>3. /\ ls' \in [LsSubs -> LsSub]
      /\ \A r \in LsSubs : /\ ls'[r].renewsAt = ls[r].renewsAt
                           /\ ls'[r].status = "none" <=> ls[r].status = "none"
  BY <1>1, <1>2
<1> QED BY <1>3, LsStep

\* A card is refused.
LEMMA CardFailsKeeps == ASSUME IInv, NEW s \in LsSubs, CardFails(s) PROVE IInv'
<1>1. ls[s] \in LsSub
  BY DEF IInv, TypeOK
<1>2. ls' = [ls EXCEPT ![s] = [ls[s] EXCEPT !.status = "past_due", !.cancelled = ls[s].cancelled]]
  BY <1>1 DEF CardFails, LsSub, IInv, TypeOK
<1>3. ls[s].cancelled \in BOOLEAN
  BY <1>1 DEF LsSub
<1> QED BY <1>2, <1>3, JobTypes, LsAmends DEF CardFails, jobVars

\* LS gives a subscription up.
LEMMA LsExpiresKeeps == ASSUME IInv, NEW s \in LsSubs, LsExpires(s) PROVE IInv'
<1>1. ls[s] \in LsSub
  BY DEF IInv, TypeOK
<1>2. ls' = [ls EXCEPT ![s] = [ls[s] EXCEPT !.status = "expired", !.cancelled = ls[s].cancelled]]
  BY <1>1 DEF LsExpires, LsSub, IInv, TypeOK
<1>3. ls[s].cancelled \in BOOLEAN
  BY <1>1 DEF LsSub
<1> QED BY <1>2, <1>3, JobTypes, LsAmends DEF LsExpires, Alive, jobVars

\* The customer cancels at LS.
LEMMA CancelledAtLsKeeps == ASSUME IInv, NEW s \in LsSubs, CancelledAtLs(s) PROVE IInv'
<1>1. ls[s] \in LsSub
  BY DEF IInv, TypeOK
<1>2. ls' = [ls EXCEPT ![s] = [ls[s] EXCEPT !.status = ls[s].status, !.cancelled = TRUE]]
  BY <1>1 DEF CancelledAtLs, LsSub, IInv, TypeOK
<1> QED BY <1>2, JobTypes, LsAmends DEF CancelledAtLs, Alive, jobVars

\* This side cancels at LS.
LEMMA CancelAtLsKeeps == ASSUME IInv, CancelAtLs PROVE IInv'
<1>1. /\ cancel # None /\ cancel \in [sub : LsSubs, stopped : BOOLEAN]
      /\ UNCHANGED <<now, invoices, dbVars, sync, drip, lapsed>>
  BY JobTypes DEF CancelAtLs
<1>2. CASE cancel' = None /\ UNCHANGED ls
  BY <1>1, <1>2, JobTypes, JobMoves DEF lsVars
<1>3. CASE /\ Alive(cancel.sub)
           /\ ls' = [ls EXCEPT ![cancel.sub].cancelled = TRUE]
           /\ cancel' = [cancel EXCEPT !.stopped = TRUE]
  <2> DEFINE s == cancel.sub
  <2>1. s \in LsSubs /\ ls[s] \in LsSub /\ cancel' \in [sub : LsSubs, stopped : BOOLEAN]
    BY <1>1, <1>3 DEF IInv, TypeOK
  <2>2. ls' = [ls EXCEPT ![s] = [ls[s] EXCEPT !.status = ls[s].status, !.cancelled = TRUE]]
    BY <1>3, <2>1 DEF LsSub, IInv, TypeOK
  <2>3. ls[s].status \in {"active", "past_due", "expired"} /\ ls[s].status # "none"
    BY <1>3 DEF Alive
  <2> HIDE DEF s
  <2> QED BY <1>1, <2>1, <2>2, <2>3, LsAmends
<1> QED BY <1>2, <1>3 DEF CancelAtLs

-----------------------------------------------------------------------------
(* The specification keeps the invariant.                                  *)

LEMMA InitHolds == Init => IInv
<1> SUFFICES ASSUME Init PROVE IInv
  OBVIOUS
<1>1. First \in LsSubs /\ Period \in Nat \ {0} /\ GrantsPerPeriod \in Nat \ {0} /\ MaxTime \in Nat
  BY SubscriptionsAssumption
<1>2. <<First, 0>> \in Periods
  BY <1>1 DEF Periods
<1> DEFINE opened == [NoSub EXCEPT !.status = "active", !.renewsAt = Period]
<1>3. NoSub \in LsSub /\ NoSub.status = "none"
  BY DEF NoSub, LsSub
<1>4. opened \in LsSub /\ opened.status = "active" /\ opened.renewsAt = Period
  BY <1>1 DEF NoSub, LsSub
<1>5. ls = [s \in LsSubs |-> IF s = First THEN opened ELSE NoSub]
  BY DEF Init
<1> HIDE DEF opened
<1>6. /\ row \in Row /\ row.ls = First /\ row.plan = First /\ row.end = Period /\ row.issued = 1
  BY <1>1 DEF Init, Fresh, Row
<1>7. /\ now = 0 /\ invoices = [s \in LsSubs |-> << >>] /\ payments = {}
      /\ alloc = [p \in Periods |-> IF p = <<First, 0>> THEN 1 ELSE 0]
      /\ period = <<First, 0>> /\ sync = [c \in Syncs |-> Idle]
      /\ drip = [d \in Drips |-> None] /\ lapsed = FALSE /\ cancel = None
  BY DEF Init
<1>8. TypeOK
  <2>1. ls \in [LsSubs -> LsSub] /\ invoices \in [LsSubs -> Seq(Nat)]
    BY <1>3, <1>4, <1>5, <1>7
  <2>2. alloc \in [Periods -> Nat] /\ sync \in [Syncs -> Sync]
    BY <1>7, IdleIsRight
  <2>3. drip \in [Drips -> [lastGrant : Nat, issued : Nat, at : Nat] \cup {None}]
    BY <1>7
  <2>4. now \in 0 .. MaxTime /\ payments \subseteq Renewals /\ period \in Periods
    BY <1>1, <1>2, <1>7
  <2>5. lapsed \in BOOLEAN /\ cancel \in [sub : LsSubs, stopped : BOOLEAN] \cup {None}
    BY <1>7
  <2> QED BY <1>6, <2>1, <2>2, <2>3, <2>4, <2>5 DEF TypeOK
<1>9. Billed
  BY <1>1, <1>3, <1>4, <1>5, <1>7 DEF Billed
<1>10. Opened
  BY <1>1, <1>2, <1>4, <1>5, <1>6, <1>7 DEF Opened, Granted, Periods
<1>11. Counted /\ UpToDate
  BY <1>1, <1>2, <1>4, <1>5, <1>6, <1>7 DEF Counted, UpToDate
<1>12. AllocationsBounded /\ RenewalsInOrder
  BY <1>1, <1>2, <1>7 DEF AllocationsBounded, RenewalsInOrder, Periods
<1>13. \A c \in Syncs : Right(sync[c])
  BY <1>7, IdleIsRight
<1> QED BY <1>8, <1>9, <1>10, <1>11, <1>12, <1>13 DEF IInv

\* One case per action.
LEMMA StepKeeps == IInv /\ [Next]_vars => IInv'
<1> SUFFICES ASSUME IInv, [Next]_vars PROVE IInv'
  OBVIOUS
<1>1. CASE UNCHANGED vars
  BY <1>1, JobTypes, JobMoves DEF vars, jobVars
<1>2. CASE Advance
  BY <1>2, AdvanceKeeps
<1>3. CASE LemonSqueezy
  <2> PICK s \in LsSubs : \/ Bill(s) \/ CardFails(s) \/ LsExpires(s)
                          \/ CancelledAtLs(s) \/ Buy(s) \/ Repoint(s)
    BY <1>3 DEF LemonSqueezy
  <2> QED BY BillKeeps, CardFailsKeeps, LsExpiresKeeps, CancelledAtLsKeeps, BuyKeeps, RepointKeeps
<1>4. ASSUME NEW c \in Syncs, SyncStep(c) PROVE IInv'
  BY <1>4, LoadKeeps, FetchStatusKeeps, FetchInvoicesKeeps, ReadKnownKeeps, GrantRenewalKeeps,
     ConflictKeeps, ApplyReadKeeps, ApplyWriteKeeps, GiveUpKeeps DEF SyncStep
<1>5. CASE Jobs
  BY <1>5, DripReadKeeps, DripWriteKeeps, ExpireReadKeeps, ExpireWriteKeeps, CancelReadKeeps,
     CancelAtLsKeeps, CancelWriteKeeps, JobFailsKeeps DEF Jobs
<1> QED BY <1>1, <1>2, <1>3, <1>4, <1>5 DEF Next

\* The invariant, in every behaviour.
LEMMA Invariant == Spec => []IInv
<1> QED BY InitHolds, StepKeeps, PTL DEF Spec

(* The variables of Subscriptions keep their types.                        *)
THEOREM TypeCorrect == Spec => []TypeOK
<1>1. IInv => TypeOK
  BY DEF IInv
<1> QED BY <1>1, Invariant, PTL

(* No interleaving of webhooks, the hourly job, overlapping drips, plan    *)
(* switches and LS hands out more than a paid period is worth, or anything *)
(* for a period that was not paid (payment.service.ts:1008, 1163).         *)
THEOREM BoundedAllocations == Spec => []AllocationsBounded
<1>1. IInv => AllocationsBounded
  BY DEF IInv
<1> QED BY <1>1, Invariant, PTL

(* Whoever credits them, a subscription's renewals are credited in the     *)
(* order they were charged (payment.service.ts:929).                       *)
THEOREM RenewalsOrdered == Spec => []RenewalsInOrder
<1>1. IInv => RenewalsInOrder
  BY DEF IInv
<1> QED BY <1>1, Invariant, PTL

(* Once everything charged is credited, the row runs as long as LS has     *)
(* been paid for, however old LS's answers were when they were used, as    *)
(* long as the row is of the plan its LS subscription bills.               *)
THEOREM PaidFor == Spec => []PaidThrough
<1>1. IInv => PaidThrough
  <2> SUFFICES ASSUME IInv, row.plan = row.ls,
                      \A n \in DOMAIN invoices[row.ls] : <<row.ls, n>> \in payments
               PROVE  row.end >= ls[row.ls].renewsAt
    BY DEF PaidThrough
  <2>1. /\ row.ls = period[1] /\ period[2] \in Nat /\ invoices[row.ls] \in Seq(Nat)
        /\ period[2] <= Len(invoices[row.ls]) /\ Len(invoices[row.ls]) \in Nat
    BY PeriodBilled DEF IInv, UpToDate, TypeOK
  <2>2. \A n \in Nat : <<period[1], n>> \in payments => n <= period[2]
    BY DEF IInv, UpToDate
  <2>3. period[2] = Len(invoices[row.ls])
    <3>1. CASE Len(invoices[row.ls]) = 0
      BY <2>1, <3>1
    <3>2. CASE Len(invoices[row.ls]) > 0
      <4>1. Len(invoices[row.ls]) \in DOMAIN invoices[row.ls]
        BY <2>1, <3>2
      <4>2. <<row.ls, Len(invoices[row.ls])>> \in payments
        BY <4>1
      <4>3. <<period[1], Len(invoices[row.ls])>> \in payments
        BY <2>1, <4>2
      <4> QED BY <2>1, <2>2, <4>3
    <3> QED BY <2>1, <3>1, <3>2
  <2> QED BY <2>1, <2>3 DEF IInv, UpToDate
<1> QED BY <1>1, Invariant, PTL
=============================================================================
