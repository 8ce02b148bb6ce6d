------------------------- MODULE OrderClaimsProofs -------------------------
(* Proofs about OrderClaims, for any accounts, orders and claimers: claims *)
(* are well typed, credit an order at most once and only after it was      *)
(* confirmed, leave no plan behind when they roll back, and never stop the *)
(* billing of a plan that is live.                                         *)
EXTENDS OrderClaims, FiniteSetTheorems, TLAPS

-----------------------------------------------------------------------------
(* The inductive invariant.  GrantedOnce is inductive as it stands, since  *)
(* the UNIQUE column is in Grant's guard.  The others need what a claim    *)
(* has learned to still be true when it acts on it.                        *)

Confirmed == {o \in Orders : order[o] \in {"paid", "refunded"}}

(* With an order at hand; and with an account at hand.                     *)
Granting == {"sub", "find", "upsert", "write", "committed", "cancel"}
Claiming == {"list", "known", "take"} \cup Granting

(* Whatever a claim holds from a listing was paid, and is the account's.   *)
Knows(s) ==
    /\ s.seen \cup s.todo \subseteq Confirmed
    /\ s.pc \in Claiming => /\ s.user \in Users
                            /\ \A o \in s.seen \cup s.todo : OrderUser[o] = s.user
    /\ s.pc \in Granting => /\ s.at \in Confirmed
                            /\ OrderUser[s.at] = s.user
    /\ s.pc \in {"sub", "find", "upsert"} => s.at \in Plans
    /\ s.pc = "cancel" => s.replaced # None

(* The order whose LS subscription a claim replaces was credited, so it    *)
(* can never be granted again, and no row but the one being re-pointed can *)
(* carry it; after the COMMIT none does.                                   *)
Replaces(s) ==
    s.replaced # None =>
        /\ s.pc \in {"upsert", "write", "committed", "cancel"}
        /\ s.at \in Plans
        /\ s.user \in Users
        /\ s.replaced \in payments
        /\ OrderUser[s.replaced] = s.user
        /\ \A i \in DOMAIN subs[s.user] :
              subs[s.user][i].order = s.replaced =>
                  s.pc \in {"upsert", "write"} /\ i = s.existing

(* Only the subscription of a credited order is ever stopped.              *)
StoppedWasPaid == \A o \in Orders : lsSub[o] = "cancelled" => o \in payments

PaymentsConfirmed == payments \subseteq Confirmed

ClaimInv ==
    /\ TypeOK
    /\ GrantedOnce
    /\ RowsArePaid
    /\ LiveIsBilled
    /\ StoppedWasPaid
    /\ PaymentsConfirmed
    /\ \A c \in Claimers : Knows(claim[c]) /\ Replaces(claim[c])

-----------------------------------------------------------------------------
(* Helpers.                                                                *)

(* What a step of one claimer does to the others: nothing.                 *)
LEMMA SetStep ==
    ASSUME NEW c \in Claimers, NEW rec \in Claim,
           claim \in [Claimers -> Claim], Set(c, rec)
    PROVE  /\ claim' \in [Claimers -> Claim]
           /\ claim'[c] = rec
           /\ \A d \in Claimers \ {c} : claim'[d] = claim[d]
BY DEF Set

(* A step that only moves one claim, and the memo of the store.            *)
LEMMA LocalStep ==
    ASSUME ClaimInv, NEW c \in Claimers, NEW rec \in Claim,
           Set(c, rec), Knows(rec), Replaces(rec),
           store' \in {"unknown", "known", "rejected"},
           UNCHANGED <<lsVars, attached, dbVars, logged, restarts>>
    PROVE  ClaimInv'
<1>1. /\ claim' \in [Claimers -> Claim]
      /\ \A d \in Claimers : claim'[d] = rec \/ claim'[d] = claim[d]
  BY SetStep DEF ClaimInv, TypeOK
<1>2. Confirmed' = Confirmed
  BY DEF Confirmed, lsVars
<1>3. TypeOK'
  BY <1>1 DEF ClaimInv, TypeOK, lsVars, dbVars
<1>4. GrantedOnce' /\ RowsArePaid' /\ LiveIsBilled' /\ StoppedWasPaid'
  BY DEF ClaimInv, GrantedOnce, RowsArePaid, LiveIsBilled, StoppedWasPaid,
         lsVars, dbVars
<1>5. PaymentsConfirmed'
  BY <1>2 DEF ClaimInv, PaymentsConfirmed, dbVars
<1>6. ASSUME NEW d \in Claimers PROVE Knows(claim[d])'
  <2>1. Knows(claim'[d])
    BY <1>1 DEF ClaimInv
  <2>2. QED BY <2>1, <1>2 DEF Knows
<1>7. ASSUME NEW d \in Claimers PROVE Replaces(claim[d])'
  <2>1. Replaces(claim'[d])
    BY <1>1 DEF ClaimInv
  <2>2. QED BY <2>1 DEF Replaces, dbVars
<1>8. QED BY <1>3, <1>4, <1>5, <1>6, <1>7 DEF ClaimInv

(* The claim records a step may leave behind.                              *)
LEMMA IdleOK == Idle \in Claim /\ Knows(Idle) /\ Replaces(Idle)
BY DEF Idle, Claim, PCs, Knows, Replaces, Claiming, Granting

(* The sweep between two accounts.                                         *)
LEMMA AccountOK ==
    ASSUME NEW q \in SUBSET Users
    PROVE  LET rec == [Idle EXCEPT !.pc = "account", !.queue = q] IN
           rec \in Claim /\ Knows(rec) /\ Replaces(rec)
BY DEF Idle, Claim, PCs, Knows, Replaces, Claiming, Granting

(* A claim that starts on an account.                                      *)
LEMMA ListOK ==
    ASSUME NEW q \in SUBSET Users, NEW u \in Users
    PROVE  LET rec == [Idle EXCEPT !.pc = "list", !.user = u, !.queue = q] IN
           rec \in Claim /\ Knows(rec) /\ Replaces(rec)
BY DEF Idle, Claim, PCs, Knows, Replaces, Claiming, Granting

(* A claim between two orders of its loop.                                 *)
LEMMA TakeOK ==
    ASSUME NEW s \in Claim, NEW t \in SUBSET s.todo, Knows(s),
           s.pc \in Claiming
    PROVE  LET rec == [Idle EXCEPT !.pc = "take", !.user = s.user,
                                   !.queue = s.queue, !.todo = t] IN
           rec \in Claim /\ Knows(rec) /\ Replaces(rec)
BY DEF Idle, Claim, PCs, Knows, Replaces, Claiming, Granting

-----------------------------------------------------------------------------
(* Steps that only move one claim.                                         *)

(* A claim that ends, or goes on with the next order, forgets the rest.    *)
LEMMA FinishOK ==
    ASSUME ClaimInv, NEW c \in Claimers, Finish(c),
           store' \in {"unknown", "known", "rejected"},
           UNCHANGED <<lsVars, attached, dbVars, logged, restarts>>
    PROVE  ClaimInv'
<1> DEFINE rec == [Idle EXCEPT !.pc = "account", !.queue = claim[c].queue]
<1>1. claim[c].queue \in SUBSET Users
  BY DEF ClaimInv, TypeOK, Claim
<1>2. rec \in Claim /\ Knows(rec) /\ Replaces(rec)
  BY <1>1, AccountOK
<1>3. Set(c, rec) \/ Set(c, Idle)
  BY DEF Finish
<1> HIDE DEF rec
<1>4. QED BY <1>2, <1>3, IdleOK, LocalStep

(* NextOrder, as a record the claim may hold.                              *)
LEMMA NextOrderOK ==
    ASSUME NEW c \in Claimers, claim \in [Claimers -> Claim],
           Knows(claim[c]), claim[c].pc \in Claiming, NextOrder(c)
    PROVE  \E rec \in Claim : Set(c, rec) /\ Knows(rec) /\ Replaces(rec)
                              /\ rec.replaced = None
<1> DEFINE s   == claim[c]
           t   == s.todo \ {s.at}
           rec == [Idle EXCEPT !.pc = "take", !.user = s.user,
                               !.queue = s.queue, !.todo = t]
<1>1. s \in Claim /\ t \in SUBSET s.todo
  OBVIOUS
<1>2. rec \in Claim /\ Knows(rec) /\ Replaces(rec)
  BY <1>1, TakeOK
<1>3. Set(c, rec)
  BY DEF NextOrder
<1>4. rec.replaced = None
  BY DEF Idle
<1> HIDE DEF rec
<1>5. QED BY <1>2, <1>3, <1>4

\* A page starts a claim: it knows nothing yet.
LEMMA BeginInv ==
    ASSUME ClaimInv, NEW c \in Pages, NEW u \in Users, Begin(c, u)
    PROVE  ClaimInv'
<1> DEFINE rec == [Idle EXCEPT !.pc = "list", !.user = u]
<1>1. rec \in Claim /\ Knows(rec) /\ Replaces(rec)
  BY DEF Idle, Claim, PCs, Knows, Replaces, Claiming, Granting
<1>2. Set(c, rec)
  BY DEF Begin
<1>3. store' \in {"unknown", "known", "rejected"}
  BY DEF Begin, ClaimInv, TypeOK
<1>4. UNCHANGED <<lsVars, attached, dbVars, logged, restarts>>
  BY DEF Begin
<1> HIDE DEF rec
<1>5. QED BY <1>1, <1>2, <1>3, <1>4, LocalStep DEF Claimers

\* The sweep chooses its next account, or ends.
LEMMA SweepingInv ==
    ASSUME ClaimInv, Sweeping
    PROVE  ClaimInv'
<1> DEFINE s == claim[Sweep]
<1>1. Sweep \in Claimers /\ s \in Claim /\ Knows(s) /\ Replaces(s)
  BY DEF ClaimInv, TypeOK, Claimers
<1>2. /\ UNCHANGED <<lsVars, attached, dbVars, logged, restarts>>
      /\ store' \in {"unknown", "known", "rejected"}
  BY DEF Sweeping, Tick, SweepList, SweepOpen, SweepAccount, StoreAnswers,
         ClaimInv, TypeOK
<1>3. \E rec \in Claim : Set(Sweep, rec) /\ Knows(rec) /\ Replaces(rec)
  <2>1. CASE Tick
    <3> DEFINE rec == [s EXCEPT !.pc = "sweep"]
    <3>1. Set(Sweep, rec)
      BY <2>1 DEF Tick, Goto
    <3>2. s.pc = "idle"
      BY <2>1 DEF Tick
    <3> HIDE DEF s
    <3>3. rec \in Claim /\ Knows(rec) /\ Replaces(rec)
      BY <1>1, <3>2 DEF Claim, PCs, Knows, Replaces, Claiming, Granting
    <3> HIDE DEF rec
    <3>4. QED BY <3>1, <3>3
  <2>2. CASE SweepList
    <3> DEFINE w   == PaidOrders \ aged
               rec == [s EXCEPT !.pc = "swept", !.seen = w]
    <3>1. Set(Sweep, rec)
      BY <2>2 DEF SweepList
    <3>2. s.pc = "sweep"
      BY <2>2 DEF SweepList
    <3>3. w \subseteq Confirmed /\ w \subseteq Orders
      BY DEF PaidOrders, Confirmed
    <3> HIDE DEF s, w
    <3>4. rec \in Claim /\ Knows(rec) /\ Replaces(rec)
      BY <1>1, <3>2, <3>3 DEF Claim, PCs, Knows, Replaces, Claiming, Granting
    <3> HIDE DEF rec
    <3>5. QED BY <3>1, <3>4
  <2>3. CASE SweepOpen
    <3> DEFINE q   == {OrderUser[o] : o \in s.seen \ payments} \ {None}
               rec == [Idle EXCEPT !.pc = "account", !.queue = q]
    <3>1. Set(Sweep, rec)
      BY <2>3 DEF SweepOpen
    <3>2. s.seen \subseteq Orders
      BY <1>1 DEF Claim
    <3>3. q \in SUBSET Users
      BY <3>2, ClaimsAssumption
    <3> HIDE DEF q
    <3>4. rec \in Claim /\ Knows(rec) /\ Replaces(rec)
      BY <3>3, AccountOK
    <3> HIDE DEF rec
    <3>5. QED BY <3>1, <3>4
  <2>4. CASE SweepAccount
    <3>1. CASE s.queue = {} /\ Set(Sweep, Idle)
      BY <3>1, IdleOK
    <3>2. ASSUME NEW u \in s.queue,
                 Set(Sweep, [Idle EXCEPT !.pc = "list", !.user = u,
                                         !.queue = s.queue \ {u}])
          PROVE  \E rec \in Claim : Set(Sweep, rec) /\ Knows(rec) /\ Replaces(rec)
      <4> DEFINE q   == s.queue \ {u}
                 rec == [Idle EXCEPT !.pc = "list", !.user = u, !.queue = q]
      <4>1. u \in Users /\ q \in SUBSET Users
        BY <1>1 DEF Claim
      <4>2. rec \in Claim /\ Knows(rec) /\ Replaces(rec)
        BY <4>1, ListOK
      <4>3. Set(Sweep, rec)
        BY <3>2
      <4> HIDE DEF rec
      <4>4. QED BY <4>2, <4>3
    <3>3. QED BY <2>4, <3>1, <3>2 DEF SweepAccount
  <2>5. QED BY <2>1, <2>2, <2>3, <2>4 DEF Sweeping
<1>4. QED BY <1>1, <1>2, <1>3, LocalStep

(* The reads of a claim: the listing, the known payments, the next order,  *)
(* the order's subscription.                                               *)
LEMMA ReadInv ==
    ASSUME ClaimInv, NEW c \in Claimers,
           List(c) \/ ReadKnown(c) \/ Take(c) \/ FetchSub(c) \/ LsUnreachable(c)
    PROVE  ClaimInv'
<1> DEFINE s == claim[c]
<1>1. s \in Claim /\ Knows(s) /\ Replaces(s)
  BY DEF ClaimInv, TypeOK
<1>2. /\ UNCHANGED <<lsVars, attached, dbVars, logged, restarts>>
      /\ store' \in {"unknown", "known", "rejected"}
  BY DEF List, ReadKnown, Take, FetchSub, LsUnreachable, StoreAnswers,
         StoreFails, ClaimInv, TypeOK
<1>3. \/ Finish(c)
      \/ \E rec \in Claim : Set(c, rec) /\ Knows(rec) /\ Replaces(rec)
  <2>1. CASE List(c)
    <3> DEFINE w   == {o \in PaidOrders : OrderUser[o] = s.user}
               rec == [s EXCEPT !.pc = "known", !.seen = w]
    <3>1. Set(c, rec)
      BY <2>1 DEF List
    <3>2. s.pc = "list"
      BY <2>1 DEF List
    <3>3. /\ w \subseteq Confirmed /\ w \subseteq Orders
          /\ \A o \in w : OrderUser[o] = s.user
      BY DEF PaidOrders, Confirmed
    <3> HIDE DEF s, w
    <3>4. rec \in Claim /\ Knows(rec) /\ Replaces(rec)
      BY <1>1, <3>2, <3>3 DEF Claim, PCs, Knows, Replaces, Claiming, Granting
    <3> HIDE DEF rec
    <3>5. QED BY <3>1, <3>4
  <2>2. CASE ReadKnown(c)
    <3> DEFINE t   == s.seen \ payments
               rec == [s EXCEPT !.pc = "take", !.seen = {}, !.todo = t]
    <3>1. Set(c, rec)
      BY <2>2 DEF ReadKnown
    <3>2. s.pc = "known"
      BY <2>2 DEF ReadKnown
    <3>3. t \subseteq s.seen
      OBVIOUS
    <3> HIDE DEF s, t
    <3>4. rec \in Claim /\ Knows(rec) /\ Replaces(rec)
      BY <1>1, <3>2, <3>3 DEF Claim, PCs, Knows, Replaces, Claiming, Granting
    <3> HIDE DEF rec
    <3>5. QED BY <3>1, <3>4
  <2>3. CASE Take(c)
    <3> DEFINE skip(o) == [s EXCEPT !.todo = s.todo \ {o}]
               at(o)   == [s EXCEPT !.at = o,
                                    !.pc = IF o \in Plans THEN "sub" ELSE "write"]
    <3>1. s.pc = "take"
      BY <2>3 DEF Take
    <3>2. \/ Finish(c)
          \/ \E o \in s.todo : Set(c, skip(o)) \/ Set(c, at(o))
      BY <2>3 DEF Take
    <3> HIDE DEF s
    <3>3. ASSUME NEW o \in s.todo
          PROVE  skip(o) \in Claim /\ Knows(skip(o)) /\ Replaces(skip(o))
      BY <1>1, <3>1 DEF Claim, PCs, Knows, Replaces, Claiming, Granting
    <3>4. ASSUME NEW o \in s.todo
          PROVE  at(o) \in Claim /\ Knows(at(o)) /\ Replaces(at(o))
      <4> DEFINE pc  == IF o \in Plans THEN "sub" ELSE "write"
                 rec == [s EXCEPT !.at = o, !.pc = pc]
      <4>1. pc \in {"sub", "write"} /\ (pc = "sub" => o \in Plans)
        OBVIOUS
      <4> HIDE DEF pc
      <4>2. o \in Orders /\ o \in Confirmed /\ OrderUser[o] = s.user /\ s.user \in Users
        BY <1>1, <3>1 DEF Claim, Knows, Claiming
      <4>3. rec \in Claim
        BY <1>1, <4>1, <4>2 DEF Claim, PCs
      <4>4. Knows(rec)
        BY <1>1, <3>1, <4>1, <4>2 DEF Claim, Knows, Claiming, Granting
      <4>5. Replaces(rec)
        BY <1>1, <3>1, <4>1, <4>2 DEF Claim, Replaces
      <4>6. QED BY <4>3, <4>4, <4>5 DEF pc
    <3> HIDE DEF skip, at
    <3>5. QED BY <3>2, <3>3, <3>4
  <2>4. CASE FetchSub(c)
    <3> DEFINE rec == [s EXCEPT !.pc = "find"]
    <3>1. Set(c, rec)
      BY <2>4 DEF FetchSub, Goto
    <3>2. s.pc = "sub"
      BY <2>4 DEF FetchSub
    <3> HIDE DEF s
    <3>3. rec \in Claim /\ Knows(rec) /\ Replaces(rec)
      BY <1>1, <3>2 DEF Claim, PCs, Knows, Replaces, Claiming, Granting
    <3> HIDE DEF rec
    <3>4. QED BY <3>1, <3>3
  <2>5. CASE LsUnreachable(c)
    BY <2>5 DEF LsUnreachable
  <2>6. QED BY <2>1, <2>2, <2>3, <2>4, <2>5
<1>4. QED BY <1>2, <1>3, FinishOK, LocalStep

(* Inside the transaction, before its COMMIT, and after a rollback.  The   *)
(* row found is the account's newest, and rows carry different orders: so  *)
(* only that row carries the order whose LS subscription will be replaced. *)
LEMMA TransactionInv ==
    ASSUME ClaimInv, NEW c \in Claimers,
           \/ FindSub(c) \/ Upsert(c) \/ Conflict(c) \/ Transient(c)
           \/ Acknowledge(c)
    PROVE  ClaimInv'
<1> DEFINE s == claim[c]
<1>1. s \in Claim /\ Knows(s) /\ Replaces(s)
  BY DEF ClaimInv, TypeOK
<1>2. /\ UNCHANGED <<lsVars, attached, dbVars, logged, restarts>>
      /\ store' \in {"unknown", "known", "rejected"}
  BY DEF FindSub, Upsert, Conflict, Transient, Acknowledge, ClaimInv, TypeOK
<1>3. \/ Finish(c)
      \/ \E rec \in Claim : Set(c, rec) /\ Knows(rec) /\ Replaces(rec)
  <2>1. CASE FindSub(c)
    <3> DEFINE rows == subs[s.user]
               n    == Len(rows)
               r    == IF rows # << >> /\ rows[n].live /\ rows[n].order \in Recurring
                       THEN rows[n].order ELSE None
               rec  == [s EXCEPT !.pc = "upsert", !.existing = n, !.replaced = r]
    <3>1. Set(c, rec)
      BY <2>1 DEF FindSub
    <3>2. s.pc = "find"
      BY <2>1 DEF FindSub
    <3>3. s.user \in Users
      BY <1>1, <3>2 DEF Knows, Claiming, Granting
    <3>4. rows \in Seq(Row)
      BY <3>3 DEF ClaimInv, TypeOK
    <3>5. n \in Nat /\ (rows # << >> => n \in DOMAIN rows)
      BY <3>4
    <3>6. \A i \in DOMAIN rows :
             /\ rows[i].order \in payments \cap Plans
             /\ OrderUser[rows[i].order] = s.user
             /\ \A j \in DOMAIN rows : rows[j].order = rows[i].order => i = j
      BY <3>3 DEF ClaimInv, RowsArePaid
    <3>7. /\ r \in Orders \cup {None}
          /\ r # None => /\ r \in payments
                         /\ OrderUser[r] = s.user
                         /\ \A i \in DOMAIN rows : rows[i].order = r => i = n
      BY <3>5, <3>6, ClaimsAssumption
    <3> HIDE DEF n, r
    <3>8. rec \in Claim
      <4> HIDE DEF s
      <4>1. QED BY <1>1, <3>5, <3>7 DEF Claim, PCs
    <3>9. Knows(rec)
      <4> HIDE DEF s
      <4>1. QED BY <1>1, <3>2 DEF Claim, Knows, Claiming, Granting
    <3>10. /\ rec.user = s.user /\ rec.pc = "upsert" /\ rec.at = s.at
           /\ rec.existing = n /\ rec.replaced = r
      <4> HIDE DEF s
      <4>1. QED BY <1>1 DEF Claim
    <3> HIDE DEF rec
    <3>11. Replaces(rec)
      BY <1>1, <3>2, <3>3, <3>7, <3>10 DEF Knows, Replaces
    <3>12. QED BY <3>1, <3>8, <3>9, <3>11
  <2>2. CASE Upsert(c)
    <3> DEFINE rows   == subs[s.user]
               others == {i \in DOMAIN rows : i # s.existing /\ rows[i].live}
               rec    == [s EXCEPT !.pc = "write", !.others = others]
    <3>1. Set(c, rec)
      BY <2>2 DEF Upsert
    <3>2. s.pc = "upsert"
      BY <2>2 DEF Upsert
    <3>3. s.user \in Users
      BY <1>1, <3>2 DEF Knows, Claiming, Granting
    <3>4. rows \in Seq(Row)
      BY <3>3 DEF ClaimInv, TypeOK
    <3>5. others \subseteq Nat
      BY <3>4
    <3> HIDE DEF s, others
    <3>6. rec \in Claim /\ Knows(rec) /\ Replaces(rec)
      BY <1>1, <3>2, <3>5 DEF Claim, PCs, Knows, Replaces, Claiming, Granting
    <3> HIDE DEF rec
    <3>7. QED BY <3>1, <3>6
  <2>3. CASE Conflict(c)
    <3>1. NextOrder(c) /\ s.pc \in Claiming
      BY <2>3 DEF Conflict, Claiming, Granting
    <3>2. QED BY <1>1, <3>1, NextOrderOK DEF ClaimInv, TypeOK
  <2>4. CASE Transient(c)
    <3> DEFINE pc  == IF s.at \in Plans THEN "find" ELSE "write"
               rec == [s EXCEPT !.pc = pc, !.existing = 0, !.replaced = None,
                                !.others = {}, !.tries = s.tries + 1]
    <3>1. Set(c, rec) \/ Finish(c)
      BY <2>4 DEF Transient
    <3>2. s.pc \in {"find", "upsert", "write", "committed"}
      BY <2>4 DEF Transient
    <3>3. pc \in {"find", "write"} /\ (pc = "find" => s.at \in Plans)
      OBVIOUS
    <3> HIDE DEF s, pc
    <3>4. s.tries + 1 \in Nat
      BY <1>1 DEF Claim
    <3>5. rec \in Claim
      BY <1>1, <3>3, <3>4 DEF Claim, PCs
    <3>6. /\ rec.pc = pc /\ rec.user = s.user /\ rec.at = s.at
          /\ rec.seen = s.seen /\ rec.todo = s.todo /\ rec.replaced = None
      BY <1>1 DEF Claim
    <3> HIDE DEF rec
    <3>7. Knows(rec) /\ Replaces(rec)
      BY <1>1, <3>2, <3>3, <3>6 DEF Knows, Replaces, Claiming, Granting
    <3>8. QED BY <3>1, <3>5, <3>7
  <2>5. CASE Acknowledge(c)
    <3>1. s.pc = "committed"
      BY <2>5 DEF Acknowledge
    <3>2. CASE s.replaced = None
      BY <1>1, <2>5, <3>1, <3>2, NextOrderOK
         DEF Acknowledge, ClaimInv, TypeOK, Claiming, Granting
    <3>3. CASE s.replaced # None
      <4> DEFINE rec == [s EXCEPT !.pc = "cancel"]
      <4>1. Set(c, rec)
        BY <2>5, <3>3 DEF Acknowledge, Goto
      <4> HIDE DEF s
      <4>2. rec \in Claim /\ Knows(rec) /\ Replaces(rec)
        BY <1>1, <3>1, <3>3 DEF Claim, PCs, Knows, Replaces, Claiming, Granting
      <4> HIDE DEF rec
      <4>3. QED BY <4>1, <4>2
    <3>4. QED BY <3>2, <3>3
  <2>6. QED BY <2>1, <2>2, <2>3, <2>4, <2>5
<1>4. QED BY <1>2, <1>3, FinishOK, LocalStep

-----------------------------------------------------------------------------
(* Steps of Lemon Squeezy, the COMMIT of a grant, and what follows it.     *)

(* LS and the admin never take a confirmation back, and leave claims alone.*)
LEMMA LemonSqueezyInv ==
    ASSUME ClaimInv, LemonSqueezy
    PROVE  ClaimInv'
<1> PICK o \in Orders : \/ Checkout(o) \/ Confirm(o) \/ Refund(o)
                        \/ AgeOut(o) \/ AttachVariant(o)
  BY DEF LemonSqueezy
<1>1. UNCHANGED <<store, dbVars, logged, claim, restarts>>
  BY DEF Checkout, Confirm, Refund, AgeOut, AttachVariant
<1>2. /\ order' \in [Orders -> {"none", "pending", "paid", "failed", "refunded"}]
      /\ Confirmed \subseteq Confirmed'
  BY DEF Checkout, Confirm, Refund, AgeOut, AttachVariant, lsVars, Confirmed,
         ClaimInv, TypeOK
<1>3. created' \in [Orders -> Nat]
  <2>1. CASE Checkout(o)
    <3> DEFINE n == Cardinality({p \in Orders : created[p] # 0})
    <3>1. n \in Nat
      BY ClaimsAssumption, FS_Subset, FS_CardinalityType
    <3> HIDE DEF n
    <3>2. 1 + n \in Nat
      BY <3>1
    <3>3. created' = [created EXCEPT ![o] = 1 + n]
      BY <2>1 DEF Checkout, n
    <3>4. QED BY <3>2, <3>3 DEF ClaimInv, TypeOK
  <2>2. CASE ~ Checkout(o)
    BY <2>2 DEF Confirm, Refund, AgeOut, AttachVariant, lsVars, ClaimInv, TypeOK
  <2>3. QED BY <2>1, <2>2
<1>4. aged' \subseteq Orders /\ attached' \subseteq Orders
  BY DEF Checkout, Confirm, Refund, AgeOut, AttachVariant, lsVars, ClaimInv, TypeOK
<1>5. /\ lsSub' \in [Orders -> {"none", "active", "cancelled"}]
      /\ \A p \in Orders : lsSub'[p] = "cancelled" => lsSub[p] = "cancelled"
  BY DEF Checkout, Confirm, Refund, AgeOut, AttachVariant, lsVars, ClaimInv, TypeOK
<1>6. TypeOK'
  BY <1>1, <1>2, <1>3, <1>4, <1>5 DEF ClaimInv, TypeOK, dbVars
<1>7. GrantedOnce' /\ RowsArePaid'
  BY <1>1 DEF ClaimInv, GrantedOnce, RowsArePaid, dbVars
<1>8. StoppedWasPaid'
  BY <1>1, <1>5 DEF ClaimInv, StoppedWasPaid, dbVars
<1>9. LiveIsBilled'
  <2>1. \A u \in Users : \A i \in DOMAIN subs[u] : subs[u][i].order \in Orders
    <3> TAKE u \in Users
    <3>1. subs[u] \in Seq(Row)
      BY DEF ClaimInv, TypeOK
    <3>2. TAKE i \in DOMAIN subs[u]
    <3>3. subs[u][i] \in Row
      BY <3>1
    <3>4. QED BY <3>3 DEF Row
  <2>2. QED BY <1>1, <1>5, <2>1 DEF ClaimInv, LiveIsBilled, dbVars
<1>10. PaymentsConfirmed'
  BY <1>1, <1>2 DEF ClaimInv, PaymentsConfirmed, dbVars
<1>11. ASSUME NEW d \in Claimers PROVE Knows(claim[d])' /\ Replaces(claim[d])'
  <2>1. Knows(claim[d]) /\ Replaces(claim[d]) /\ claim'[d] = claim[d]
    BY <1>1 DEF ClaimInv
  <2>2. Knows(claim[d])'
    BY <2>1, <1>2 DEF Knows
  <2>3. Replaces(claim[d])'
    BY <2>1, <1>1 DEF Replaces, dbVars
  <2>4. QED BY <2>2, <2>3
<1>12. QED BY <1>6, <1>7, <1>8, <1>9, <1>10, <1>11 DEF ClaimInv

(* The rows a committed grant leaves: the new order in its row, and the    *)
(* others' orders where they were, none of them revived.                   *)
LEMMA RowsAfterShape ==
    ASSUME NEW c \in Claimers, claim[c] \in Claim,
           NEW rows, rows = subs[claim[c].user], rows \in Seq(Row),
           claim[c].at \in Orders
    PROVE  /\ RowsAfter(c) \in Seq(Row)
           /\ \A i \in DOMAIN RowsAfter(c) :
                 \/ /\ RowsAfter(c)[i].order = claim[c].at
                    /\ i = IF claim[c].existing = 0 THEN Len(rows) + 1
                                                    ELSE claim[c].existing
                 \/ /\ i \in DOMAIN rows \ {claim[c].existing}
                    /\ RowsAfter(c)[i].order = rows[i].order
                    /\ RowsAfter(c)[i].live => rows[i].live
<1> DEFINE s    == claim[c]
           new  == [order |-> s.at, live |-> TRUE]
           kept == [i \in DOMAIN rows |->
                      IF i = s.existing THEN new
                      ELSE IF i \in s.others THEN [rows[i] EXCEPT !.live = FALSE]
                      ELSE rows[i]]
<1>1. RowsAfter(c) = IF s.existing = 0 THEN Append(kept, new) ELSE kept
  BY DEF RowsAfter
<1>2. new \in Row /\ new.order = s.at /\ s.existing \in Nat
  BY DEF Row, Claim
<1> HIDE DEF s, new
<1>3. ASSUME NEW i \in DOMAIN rows
      PROVE  /\ kept[i] \in Row
             /\ i = s.existing => kept[i].order = s.at
             /\ i # s.existing => /\ kept[i].order = rows[i].order
                                  /\ kept[i].live => rows[i].live
  <2>1. rows[i] \in Row
    OBVIOUS
  <2> DEFINE r == rows[i]
  <2>2. [r EXCEPT !.live = FALSE] \in Row
    BY <2>1 DEF Row
  <2>3. /\ [r EXCEPT !.live = FALSE].order = r.order
        /\ ~ [r EXCEPT !.live = FALSE].live
    BY <2>1 DEF Row
  <2>4. QED BY <1>2, <2>1, <2>2, <2>3
<1>4. DOMAIN kept = 1 .. Len(rows) /\ Len(rows) \in Nat
  OBVIOUS
<1>5. kept \in Seq(Row)
  <2>1. kept \in [1 .. Len(rows) -> Row]
    BY <1>3, <1>4
  <2> HIDE DEF kept
  <2>2. QED BY <1>4, <2>1
<1>6. Len(kept) = Len(rows)
  BY <1>4, <1>5
<1> HIDE DEF kept
<1>7. CASE s.existing = 0
  <2>1. RowsAfter(c) = Append(kept, new)
    BY <1>1, <1>7
  <2>2. RowsAfter(c) \in Seq(Row)
    BY <2>1, <1>2, <1>5
  <2>3. ASSUME NEW i \in DOMAIN RowsAfter(c)
        PROVE  \/ i = Len(rows) + 1 /\ RowsAfter(c)[i] = new
               \/ i \in DOMAIN rows /\ i # 0 /\ RowsAfter(c)[i] = kept[i]
    BY <2>1, <1>2, <1>4, <1>5, <1>6
  <2>4. QED BY <2>2, <2>3, <1>2, <1>3, <1>7 DEF s
<1>8. CASE s.existing # 0
  <2>1. RowsAfter(c) = kept
    BY <1>1, <1>8
  <2>2. QED BY <2>1, <1>3, <1>4, <1>5, <1>8 DEF s
<1>9. QED BY <1>7, <1>8

(* The COMMIT of a grant: the guard on payments is what keeps the order    *)
(* from being credited or carried by a row before.                         *)
LEMMA GrantInv ==
    ASSUME ClaimInv, NEW c \in Claimers, Grant(c)
    PROVE  ClaimInv'
<1> DEFINE s    == claim[c]
           o    == s.at
           u    == s.user
           rows == subs[u]
           done == [s EXCEPT !.pc = "committed"]
<1>1. s \in Claim /\ Knows(s) /\ Replaces(s)
  BY DEF ClaimInv, TypeOK
<1>2. s.pc = "write"
  BY DEF Grant
<1>3. /\ o \in Orders /\ o \in Confirmed /\ OrderUser[o] = u
      /\ u \in Users /\ o \notin payments
  BY <1>1, <1>2 DEF Knows, Claiming, Granting, Confirmed, Grant
<1>4. rows \in Seq(Row)
  BY <1>3 DEF ClaimInv, TypeOK
<1>5. /\ payments' = payments \cup {o}
      /\ grants' = [grants EXCEPT ![o] = grants[o] + 1]
      /\ subs' = IF o \in Plans THEN [subs EXCEPT ![u] = RowsAfter(c)] ELSE subs
      /\ Set(c, done)
      /\ UNCHANGED <<lsVars, attached, store, logged, restarts>>
  BY DEF Grant, Goto
<1>6. done \in Claim
  <2> HIDE DEF s
  <2>1. QED BY <1>1 DEF Claim, PCs
<1>7. /\ claim' \in [Claimers -> Claim]
      /\ claim'[c] = done
      /\ \A d \in Claimers \ {c} : claim'[d] = claim[d]
  <2> HIDE DEF done
  <2>1. QED BY <1>5, <1>6, SetStep DEF ClaimInv, TypeOK
<1>8. Confirmed' = Confirmed
  BY <1>5 DEF Confirmed, lsVars
<1>9. /\ RowsAfter(c) \in Seq(Row)
      /\ \A i \in DOMAIN RowsAfter(c) :
            \/ /\ RowsAfter(c)[i].order = o
               /\ i = IF s.existing = 0 THEN Len(rows) + 1 ELSE s.existing
            \/ /\ i \in DOMAIN rows \ {s.existing}
               /\ RowsAfter(c)[i].order = rows[i].order
               /\ RowsAfter(c)[i].live => rows[i].live
  BY <1>1, <1>3, <1>4, RowsAfterShape
<1>10. subs' \in [Users -> Seq(Row)]
  BY <1>5, <1>9 DEF ClaimInv, TypeOK
<1>11. TypeOK'
  BY <1>3, <1>5, <1>7, <1>10 DEF ClaimInv, TypeOK, lsVars
<1>12. GrantedOnce'
  BY <1>3, <1>5 DEF ClaimInv, TypeOK, GrantedOnce
<1>13. StoppedWasPaid' /\ PaymentsConfirmed'
  BY <1>3, <1>5, <1>8 DEF ClaimInv, StoppedWasPaid, PaymentsConfirmed, lsVars
(* Each row of each account is as before, or carries the new order.        *)
<1>14. ASSUME NEW v \in Users, NEW i \in DOMAIN subs'[v]
       PROVE  \/ /\ v = u /\ o \in Plans /\ subs'[v][i].order = o
                 /\ i = IF s.existing = 0 THEN Len(rows) + 1 ELSE s.existing
              \/ /\ i \in DOMAIN subs[v]
                 /\ v = u /\ o \in Plans => i # s.existing
                 /\ subs'[v][i].order = subs[v][i].order
                 /\ subs'[v][i].live => subs[v][i].live
  <2>1. CASE v = u /\ o \in Plans
    <3>1. subs'[v] = RowsAfter(c)
      BY <1>3, <1>5, <2>1 DEF ClaimInv, TypeOK
    <3>2. QED BY <3>1, <2>1, <1>9
  <2>2. CASE ~ (v = u /\ o \in Plans)
    <3>1. subs'[v] = subs[v]
      BY <1>3, <1>5, <2>2 DEF ClaimInv, TypeOK
    <3>2. QED BY <3>1, <2>2
  <2>3. QED BY <2>1, <2>2
<1>15. \A v \in Users : \A i \in DOMAIN subs[v] :
          /\ subs[v][i].order \in payments \cap Plans
          /\ OrderUser[subs[v][i].order] = v
          /\ \A j \in DOMAIN subs[v] : subs[v][j].order = subs[v][i].order => i = j
  BY DEF ClaimInv, RowsArePaid
<1> HIDE DEF s, o, u, rows, done
<1>16. RowsArePaid'
  <2> SUFFICES ASSUME NEW v \in Users, NEW i \in DOMAIN subs'[v]
               PROVE  /\ subs'[v][i].order \in payments' \cap Plans
                      /\ OrderUser[subs'[v][i].order] = v
                      /\ \A j \in DOMAIN subs'[v] :
                            subs'[v][j].order = subs'[v][i].order => i = j
    BY DEF RowsArePaid
  <2>1. subs'[v][i].order \in payments' \cap Plans /\ OrderUser[subs'[v][i].order] = v
    BY <1>3, <1>5, <1>14, <1>15
  <2>2. ASSUME NEW j \in DOMAIN subs'[v], subs'[v][j].order = subs'[v][i].order
        PROVE  i = j
    BY <1>3, <1>14, <1>15, <2>2
  <2>3. QED BY <2>1, <2>2
<1>17. LiveIsBilled'
  <2> SUFFICES ASSUME NEW v \in Users, NEW i \in DOMAIN subs'[v], subs'[v][i].live
               PROVE  lsSub'[subs'[v][i].order] # "cancelled"
    BY DEF LiveIsBilled
  <2>1. lsSub' = lsSub
    BY <1>5 DEF lsVars
  <2>2. lsSub[o] # "cancelled"
    BY <1>3 DEF ClaimInv, StoppedWasPaid
  <2>3. QED BY <1>14, <2>1, <2>2 DEF ClaimInv, LiveIsBilled
<1>18. ASSUME NEW d \in Claimers PROVE Knows(claim[d])'
  <2>1. Knows(done)
    BY <1>1, <1>2, <1>6 DEF done, Claim, Knows, Claiming, Granting
  <2>2. Knows(claim'[d])
    BY <1>7, <2>1 DEF ClaimInv
  <2>3. QED BY <2>2, <1>8 DEF Knows
<1>19. ASSUME NEW d \in Claimers PROVE Replaces(claim[d])'
  <2> DEFINE t == claim'[d]
  <2>1. CASE d # c
    <3>1. Replaces(t)
      BY <1>7, <2>1 DEF ClaimInv
    <3>2. ASSUME t.replaced # None, NEW i \in DOMAIN subs'[t.user],
                 subs'[t.user][i].order = t.replaced
          PROVE  t.pc \in {"upsert", "write"} /\ i = t.existing
      BY <3>1, <3>2, <1>3, <1>14 DEF Replaces
    <3>3. QED BY <3>1, <3>2, <1>5 DEF Replaces
  <2>2. CASE d = c
    <3>1. /\ t.replaced = s.replaced /\ t.user = s.user
          /\ t.at = s.at /\ t.pc = "committed"
      BY <1>1, <1>7, <2>2 DEF done, Claim
    <3>2. s.replaced # None => o \in Plans
      BY <1>1 DEF Replaces, o
    <3>3. ASSUME s.replaced # None, NEW i \in DOMAIN subs'[u],
                 subs'[u][i].order = s.replaced
          PROVE  FALSE
      BY <1>1, <1>2, <1>3, <1>14, <3>2, <3>3 DEF Replaces, u
    <3>4. QED BY <1>1, <1>5, <3>1, <3>3 DEF Replaces, u
  <2>3. QED BY <2>1, <2>2
<1>20. QED BY <1>11, <1>12, <1>13, <1>16, <1>17, <1>18, <1>19 DEF ClaimInv

(* The LS subscription that is stopped belonged to a row of this account   *)
(* that has been re-pointed: no row of any account carries its order now.  *)
LEMMA CancelOldInv ==
    ASSUME ClaimInv, NEW c \in Claimers, CancelOld(c)
    PROVE  ClaimInv'
<1> DEFINE s   == claim[c]
           old == s.replaced
<1>1. s \in Claim /\ Knows(s) /\ Replaces(s) /\ s.pc = "cancel"
  BY DEF ClaimInv, TypeOK, CancelOld
<1>2. /\ old \in Orders /\ old \in payments /\ OrderUser[old] = s.user
      /\ s.user \in Users
      /\ \A i \in DOMAIN subs[s.user] : subs[s.user][i].order # old
  BY <1>1 DEF Claim, Knows, Replaces
<1>3. PICK rec \in Claim : /\ Set(c, rec) /\ Knows(rec) /\ Replaces(rec)
                           /\ rec.replaced = None
  <2>1. NextOrder(c) /\ s.pc \in Claiming
    BY <1>1 DEF CancelOld, Claiming, Granting
  <2>2. QED BY <1>1, <2>1, NextOrderOK DEF ClaimInv, TypeOK
<1>4. /\ UNCHANGED <<order, created, aged, attached, store, dbVars, restarts>>
      /\ \/ lsSub' = [lsSub EXCEPT ![old] = "cancelled"] /\ UNCHANGED logged
         \/ logged' = logged \cup {old} /\ UNCHANGED lsSub
  BY DEF CancelOld
<1>5. /\ claim' \in [Claimers -> Claim]
      /\ \A d \in Claimers : claim'[d] = rec \/ claim'[d] = claim[d]
  BY <1>3, SetStep DEF ClaimInv, TypeOK
<1> HIDE DEF s, old
<1>6. /\ lsSub' \in [Orders -> {"none", "active", "cancelled"}]
      /\ \A o \in Orders : lsSub'[o] = "cancelled" =>
                              lsSub[o] = "cancelled" \/ o = old
  BY <1>2, <1>4 DEF ClaimInv, TypeOK
<1>7. logged' \subseteq Orders
  BY <1>2, <1>4 DEF ClaimInv, TypeOK
<1>8. TypeOK'
  BY <1>4, <1>5, <1>6, <1>7 DEF ClaimInv, TypeOK, dbVars
<1>9. GrantedOnce' /\ RowsArePaid'
  BY <1>4 DEF ClaimInv, GrantedOnce, RowsArePaid, dbVars
<1>10. Confirmed' = Confirmed
  BY <1>4 DEF Confirmed
<1>11. StoppedWasPaid' /\ PaymentsConfirmed'
  BY <1>2, <1>4, <1>6, <1>10 DEF ClaimInv, StoppedWasPaid, PaymentsConfirmed, dbVars
<1>12. LiveIsBilled'
  <2> SUFFICES ASSUME NEW v \in Users, NEW i \in DOMAIN subs'[v], subs'[v][i].live
               PROVE  lsSub'[subs'[v][i].order] # "cancelled"
    BY DEF LiveIsBilled
  <2>1. subs' = subs
    BY <1>4 DEF dbVars
  <2>2. /\ subs[v][i].order \in payments /\ OrderUser[subs[v][i].order] = v
        /\ lsSub[subs[v][i].order] # "cancelled"
    BY <2>1 DEF ClaimInv, RowsArePaid, LiveIsBilled
  <2>3. subs[v][i].order # old
    BY <1>2, <2>1, <2>2
  <2>4. QED BY <1>6, <2>1, <2>2, <2>3 DEF ClaimInv, TypeOK
<1>13. ASSUME NEW d \in Claimers PROVE Knows(claim[d])' /\ Replaces(claim[d])'
  <2>1. Knows(claim'[d]) /\ Replaces(claim'[d])
    BY <1>3, <1>5 DEF ClaimInv
  <2>2. Knows(claim[d])'
    BY <2>1, <1>10 DEF Knows
  <2>3. Replaces(claim[d])'
    BY <2>1, <1>4 DEF Replaces, dbVars
  <2>4. QED BY <2>2, <2>3
<1>14. QED BY <1>8, <1>9, <1>11, <1>12, <1>13 DEF ClaimInv

(* A restart loses every claim, and nothing else the invariant speaks of.  *)
LEMMA RestartInv ==
    ASSUME ClaimInv, Restart
    PROVE  ClaimInv'
<1>1. UNCHANGED <<lsVars, attached, dbVars, logged>> /\ restarts' \in Nat
  BY DEF Restart, ClaimInv, TypeOK
<1>2. claim' \in [Claimers -> Claim] /\ \A d \in Claimers : claim'[d] = Idle
  BY IdleOK DEF Restart
<1>3. store' \in {"unknown", "known", "rejected"}
  BY DEF Restart, Store0
<1>4. Confirmed' = Confirmed
  BY <1>1 DEF Confirmed, lsVars
<1>5. TypeOK'
  BY <1>1, <1>2, <1>3 DEF ClaimInv, TypeOK, lsVars, dbVars
<1>6. GrantedOnce' /\ RowsArePaid' /\ LiveIsBilled' /\ StoppedWasPaid'
  BY <1>1 DEF ClaimInv, GrantedOnce, RowsArePaid, LiveIsBilled, StoppedWasPaid,
              lsVars, dbVars
<1>7. PaymentsConfirmed'
  BY <1>1, <1>4 DEF ClaimInv, PaymentsConfirmed, dbVars
<1>8. ASSUME NEW d \in Claimers PROVE Knows(claim[d])' /\ Replaces(claim[d])'
  <2>1. Knows(claim'[d]) /\ Replaces(claim'[d])
    BY <1>2, IdleOK
  <2>2. Knows(claim[d])'
    BY <2>1, <1>4 DEF Knows
  <2>3. Replaces(claim[d])'
    BY <2>1, <1>1 DEF Replaces, dbVars
  <2>4. QED BY <2>2, <2>3
<1>9. QED BY <1>5, <1>6, <1>7, <1>8 DEF ClaimInv

-----------------------------------------------------------------------------
(* The invariant, and what follows from it.                                *)

LEMMA InitInv == Init => ClaimInv
<1> SUFFICES ASSUME Init PROVE ClaimInv
  OBVIOUS
<1>1. claim \in [Claimers -> Claim] /\ \A c \in Claimers : claim[c] = Idle
  BY IdleOK DEF Init
<1>2. subs \in [Users -> Seq(Row)] /\ \A u \in Users : subs[u] = << >>
  BY DEF Init
<1>3. TypeOK
  BY <1>1, <1>2, ClaimsAssumption DEF Init, TypeOK, Store0
<1>4. \A u \in Users : DOMAIN subs[u] = {}
  BY <1>2
<1>5. RowsArePaid /\ LiveIsBilled
  BY <1>4 DEF RowsArePaid, LiveIsBilled
<1>6. GrantedOnce /\ StoppedWasPaid /\ PaymentsConfirmed
  BY DEF Init, GrantedOnce, StoppedWasPaid, PaymentsConfirmed
<1>7. \A c \in Claimers : Knows(claim[c]) /\ Replaces(claim[c])
  BY <1>1, IdleOK
<1>8. QED BY <1>3, <1>5, <1>6, <1>7 DEF ClaimInv

\* Nothing moves.
LEMMA StutterInv ==
    ASSUME ClaimInv, UNCHANGED vars
    PROVE  ClaimInv'
<1>1. UNCHANGED <<lsVars, attached, store, dbVars, logged, claim, restarts>>
  BY DEF vars, lsVars, dbVars
<1>2. Confirmed' = Confirmed
  BY <1>1 DEF Confirmed, lsVars
<1>3. TypeOK'
  BY <1>1 DEF ClaimInv, TypeOK, lsVars, dbVars
<1>4. GrantedOnce' /\ RowsArePaid' /\ LiveIsBilled' /\ StoppedWasPaid'
  BY <1>1 DEF ClaimInv, GrantedOnce, RowsArePaid, LiveIsBilled, StoppedWasPaid,
              lsVars, dbVars
<1>5. PaymentsConfirmed'
  BY <1>1, <1>2 DEF ClaimInv, PaymentsConfirmed, dbVars
<1>6. ASSUME NEW d \in Claimers PROVE Knows(claim[d])' /\ Replaces(claim[d])'
  <2>1. Knows(claim[d]) /\ Replaces(claim[d]) /\ claim'[d] = claim[d]
    BY <1>1 DEF ClaimInv
  <2>2. Knows(claim[d])'
    BY <2>1, <1>2 DEF Knows
  <2>3. Replaces(claim[d])'
    BY <2>1, <1>1 DEF Replaces, dbVars
  <2>4. QED BY <2>2, <2>3
<1>7. QED BY <1>3, <1>4, <1>5, <1>6 DEF ClaimInv

\* One case per action.
LEMMA NextInv == ClaimInv /\ [Next]_vars => ClaimInv'
<1> SUFFICES ASSUME ClaimInv, [Next]_vars PROVE ClaimInv'
  OBVIOUS
<1>1. CASE LemonSqueezy
  BY <1>1, LemonSqueezyInv
<1>2. CASE Sweeping
  BY <1>2, SweepingInv
<1>3. ASSUME NEW c \in Pages, NEW u \in Users, Begin(c, u) PROVE ClaimInv'
  BY <1>3, BeginInv
<1>4. ASSUME NEW c \in Claimers, ClaimStep(c) PROVE ClaimInv'
  BY <1>4, ReadInv, TransactionInv, GrantInv, CancelOldInv DEF ClaimStep
<1>5. CASE Restart
  BY <1>5, RestartInv
<1>6. CASE UNCHANGED vars
  BY <1>6, StutterInv
<1>7. QED BY <1>1, <1>2, <1>3, <1>4, <1>5, <1>6 DEF Next

\* The invariant, in every behaviour.
LEMMA Invariance == Spec => []ClaimInv
BY InitInv, NextInv, PTL DEF Spec

(* The state of claims, orders and rows keeps its shape.                   *)
THEOREM TypeCorrect == Spec => []TypeOK
<1>1. ClaimInv => TypeOK
  BY DEF ClaimInv
<1>2. QED BY <1>1, Invariance, PTL

(* However pages, webhooks, sweeps, retries and restarts interleave, an    *)
(* order is credited exactly when it has its one Payment row.              *)
THEOREM CreditedOnce == Spec => []GrantedOnce
<1>1. ClaimInv => GrantedOnce
  BY DEF ClaimInv
<1>2. QED BY <1>1, Invariance, PTL

(* No grant that rolled back has left its plan in a Subscription row, and  *)
(* no plan order is carried by two rows.                                   *)
THEOREM NoUnpaidPlan == Spec => []RowsArePaid
<1>1. ClaimInv => RowsArePaid
  BY DEF ClaimInv
<1>2. QED BY <1>1, Invariance, PTL

(* Cancelling the LS subscription a new plan replaces, late and after any  *)
(* number of other switches, never hits the one that is live.              *)
THEOREM LiveKeepsBilling == Spec => []LiveIsBilled
<1>1. ClaimInv => LiveIsBilled
  BY DEF ClaimInv
<1>2. QED BY <1>1, Invariance, PTL

(* Claims implement Payout: every step confirms one order, pays one        *)
(* confirmed order out for the first time, or stutters.                    *)
THEOREM ClaimsPayOut == Spec => PaysOut
<1> DEFINE conf == {o \in Orders : order[o] \in {"paid", "refunded"}}
<1>1. Init => Payouts!Init
  BY DEF Init, Payouts!Init
<1>2. ASSUME ClaimInv, [Next]_vars
      PROVE  [Payouts!Next]_<<conf, payments>>
  <2>1. CASE LemonSqueezy
    <3>1. PICK o \in Orders : \/ Checkout(o) \/ Confirm(o) \/ Refund(o)
                              \/ AgeOut(o) \/ AttachVariant(o)
      BY <2>1 DEF LemonSqueezy
    <3>2. payments' = payments
      BY <3>1 DEF Checkout, Confirm, Refund, AgeOut, AttachVariant, dbVars
    <3>3. CASE Confirm(o) /\ order' = [order EXCEPT ![o] = "paid"]
      <4>1. o \notin conf /\ conf' = conf \cup {o}
        BY <3>3, <1>2 DEF Confirm, ClaimInv, TypeOK
      <4>2. QED BY <3>2, <4>1 DEF Payouts!Next, Payouts!Confirm
    <3>4. CASE ~ (Confirm(o) /\ order' = [order EXCEPT ![o] = "paid"])
      <4>1. conf' = conf
        BY <3>1, <3>4, <1>2 DEF Checkout, Confirm, Refund, AgeOut, AttachVariant,
                                lsVars, ClaimInv, TypeOK
      <4>2. QED BY <3>2, <4>1
    <3>5. QED BY <3>3, <3>4
  <2>2. ASSUME NEW c \in Claimers, Grant(c)
        PROVE  [Payouts!Next]_<<conf, payments>>
    <3> DEFINE o == claim[c].at
    <3>1. o \in Orders /\ o \in conf
      BY <1>2, <2>2 DEF ClaimInv, Knows, Grant, Granting, Confirmed
    <3>2. o \notin payments /\ payments' = payments \cup {o} /\ conf' = conf
      BY <2>2 DEF Grant, lsVars
    <3>3. QED BY <3>1, <3>2 DEF Payouts!Next, Payouts!Pay
  <2>3. CASE \/ Sweeping \/ Restart \/ UNCHANGED vars
             \/ \E c \in Pages, u \in Users : Begin(c, u)
             \/ \E c \in Claimers : ClaimStep(c) /\ ~ Grant(c)
    <3>1. payments' = payments /\ order' = order
      BY <2>3 DEF Sweeping, Tick, SweepList, SweepOpen, SweepAccount, Restart,
                  Begin, ClaimStep, List, LsUnreachable, ReadKnown, Take,
                  FetchSub, FindSub, Upsert, Conflict, Transient, Acknowledge,
                  CancelOld, vars, lsVars, dbVars
    <3>2. QED BY <3>1
  <2>4. QED BY <1>2, <2>1, <2>2, <2>3 DEF Next
<1>3. QED BY <1>1, <1>2, Invariance, PTL DEF Spec, PaysOut, Payouts!Spec
=============================================================================
