------------------------- MODULE CreditLedgerProofs -------------------------
(* Theorems about CreditLedger, for any accounts, requests, receipts,      *)
(* prices and number of attempts.                                          *)
EXTENDS CreditLedger, TLAPS

(* Writing a well-typed row keeps every ledger well-typed.                 *)
LEMMA WriteEntryType ==
    ASSUME ledger \in [Users -> Seq(Entry)],
           NEW u \in Users, NEW delta \in Int, NEW balance \in Int,
           NEW reason \in Reasons, NEW ref \in Refs,
           NEW by \in Calls \cup {None},
           WriteEntry(u, delta, balance, reason, ref, by)
    PROVE  ledger' \in [Users -> Seq(Entry)]
<1> DEFINE e == [delta |-> delta, balance |-> balance, reason |-> reason,
                 ref |-> ref, by |-> by]
<1>1. e \in Entry
  BY DEF Entry
<1>2. ledger' = [ledger EXCEPT ![u] = Append(ledger[u], e)]
  BY DEF WriteEntry
<1> HIDE DEF e
<1> QED
  BY <1>1, <1>2

(* A step of one request's program counter keeps the requests well-typed.  *)
LEMMA CallType ==
    ASSUME TypeOK, NEW c \in Calls, CallUser[c] \in Users,
           \/ \E pc \in PCs : Goto(c, pc)
           \/ Retry(c)
           \/ \E f \in BOOLEAN, n \in Int : Found(c, f, n)
           \/ call' = [call EXCEPT ![c] = [call[c] EXCEPT
                          !.pc = "decide", !.seen = credits[CallUser[c]]]]
    PROVE  call' \in [Calls -> CallState]
<1> DEFINE s == call[c]
<1>0. s \in CallState
  BY DEF TypeOK
<1>1. CASE \E pc \in PCs : Goto(c, pc)
  BY <1>1 DEF TypeOK, Goto, CallState
<1>2. CASE Retry(c)
  <2> DEFINE again == [s EXCEPT !.pc = "lookup", !.tries = s.tries + 1]
             over  == [s EXCEPT !.pc = "failed"]
  <2>1. again \in CallState /\ over \in CallState
    <3> HIDE DEF s
    <3>1. s.tries + 1 \in Nat
      BY <1>0 DEF CallState
    <3>2. \A n \in Nat : [s EXCEPT !.pc = "lookup", !.tries = n] \in CallState
      BY <1>0 DEF CallState, PCs
    <3>3. over \in CallState
      BY <1>0 DEF CallState, PCs
    <3> QED
      BY <3>1, <3>2, <3>3
  <2>2. \/ call' = [call EXCEPT ![c] = again]
        \/ call' = [call EXCEPT ![c] = over]
    BY <1>2 DEF Retry
  <2> HIDE DEF again, over
  <2> QED
    BY <2>1, <2>2 DEF TypeOK
<1>3. CASE \E f \in BOOLEAN, n \in Int : Found(c, f, n)
  <2>1. PICK f \in BOOLEAN, n \in Int : Found(c, f, n)
    BY <1>3
  <2> DEFINE new == [s EXCEPT !.pc = "read", !.found = f, !.cost = n]
  <2>2. new \in CallState
    <3> HIDE DEF s
    <3> QED
      BY <1>0 DEF CallState, PCs
  <2>3. call' = [call EXCEPT ![c] = new]
    BY <2>1 DEF Found
  <2> HIDE DEF new
  <2> QED
    BY <2>2, <2>3 DEF TypeOK
<1>4. CASE call' = [call EXCEPT ![c] =
                       [call[c] EXCEPT !.pc = "decide",
                                       !.seen = credits[CallUser[c]]]]
  <2> DEFINE new == [s EXCEPT !.pc = "decide", !.seen = credits[CallUser[c]]]
  <2>1. credits[CallUser[c]] \in Int
    BY DEF TypeOK
  <2>2. new \in CallState
    <3> HIDE DEF s
    <3> QED
      BY <1>0, <2>1 DEF CallState, PCs
  <2>3. call' = [call EXCEPT ![c] = new]
    BY <1>4
  <2> HIDE DEF new
  <2> QED
    BY <2>2, <2>3 DEF TypeOK
<1> QED
  BY <1>1, <1>2, <1>3, <1>4

(* The jobs, receipts and costs the constants name are of the right type.  *)
LEMMA ConstantTypes ==
    /\ \A c \in Calls : /\ CallUser[c] \in Users
                        /\ CallCost[c] \in Int
                        /\ CallJob[c] \in Refs
    /\ \A r \in Receipts : /\ ReceiptUser[r] \in Users
                           /\ ReceiptCredits[r] \in Int
                           /\ r \in Refs
    /\ SignupBonus \in Int
    /\ None \in Refs
BY LedgerAssumption DEF Refs, Jobs

(* Type correctness: no step of a sign-up, a grant, a charge or a retry    *)
(* leaves the columns of User, CreditEntry and Payment ill-typed.          *)
THEOREM TypeCorrect == Spec => []TypeOK
<1>1. Init => TypeOK
  BY LedgerAssumption DEF Init, TypeOK, CallState, PCs
<1>2. TypeOK /\ [Next]_vars => TypeOK'
  <2> SUFFICES ASSUME TypeOK, [Next]_vars PROVE TypeOK'
    OBVIOUS
  <2> USE ConstantTypes
  <2>1. ASSUME NEW u \in Users, CreateUser(u) PROVE TypeOK'
    <3>1. ledger' \in [Users -> Seq(Entry)]
      BY <2>1, WriteEntryType DEF CreateUser, TypeOK, Reasons
    <3> QED
      BY <2>1, <3>1 DEF CreateUser, TypeOK
  <2>2. ASSUME NEW u \in Users, RemoveUser(u) PROVE TypeOK'
    BY <2>2 DEF RemoveUser, TypeOK
  <2>3. ASSUME NEW r \in Receipts, GrantReceipt(r) PROVE TypeOK'
    <3>1. ledger' \in [Users -> Seq(Entry)]
      BY <2>3, WriteEntryType DEF GrantReceipt, MoveCredits, TypeOK, Reasons
    <3>2. credits[ReceiptUser[r]] + ReceiptCredits[r] \in Int
      BY DEF TypeOK
    <3> QED
      BY <2>3, <3>1, <3>2 DEF GrantReceipt, MoveCredits, TypeOK
  <2>4. ASSUME NEW c \in Calls, Commit(c) PROVE TypeOK'
    <3> DEFINE u == CallUser[c]
    <3>1. CASE BeginCommit(c)
      <4>1. call' \in [Calls -> CallState]
        BY <3>1, CallType DEF BeginCommit, PCs
      <4> QED
        BY <3>1, <4>1 DEF BeginCommit, TypeOK
    <3>2. CASE FindExisting(c)
      <4>1. \A i \in RowsOf(u, CallJob[c]) : -ledger[u][i].delta \in Int
        <5>1. ledger[u] \in Seq(Entry)
          BY DEF TypeOK
        <5>2. \A i \in DOMAIN ledger[u] : ledger[u][i] \in Entry
          BY <5>1
        <5> QED
          BY <5>2 DEF RowsOf, Entry
      <4>2. call' \in [Calls -> CallState]
        BY <3>2, <4>1, CallType DEF FindExisting
      <4> QED
        BY <3>2, <4>2 DEF FindExisting, TypeOK
    <3>9. CASE FindUser(c)
      <4>1. call' \in [Calls -> CallState]
        BY <3>9, CallType DEF FindUser, PCs
      <4> QED
        BY <3>9, <4>1 DEF FindUser, TypeOK
    <3>3. CASE ReplyExisting(c)
      <4>1. call' \in [Calls -> CallState]
        BY <3>3, CallType DEF ReplyExisting, PCs
      <4> QED
        BY <3>3, <4>1 DEF ReplyExisting, TypeOK
    <3>4. CASE WriteMarker(c)
      <4>1. call' \in [Calls -> CallState]
        BY <3>4, CallType DEF WriteMarker, PCs
      <4>2. call[c].seen \in Int
        BY DEF TypeOK, CallState
      <4>3. ledger' \in [Users -> Seq(Entry)]
        BY <3>4, <4>2, WriteEntryType DEF WriteMarker, TypeOK, Reasons
      <4> QED
        BY <3>4, <4>1, <4>3 DEF WriteMarker, TypeOK
    <3>5. CASE Charge(c)
      <4>1. call' \in [Calls -> CallState]
        BY <3>5, CallType DEF Charge, PCs
      <4>2. credits[u] \in Int /\ call[c].cost \in Int
        BY DEF TypeOK, CallState
      <4>3. ledger' \in [Users -> Seq(Entry)]
        BY <3>5, <4>2, WriteEntryType DEF Charge, MoveCredits, TypeOK, Reasons
      <4>4. credits[u] + (-call[c].cost) \in Int
        BY <4>2
      <4> QED
        BY <3>5, <4>1, <4>3, <4>4 DEF Charge, MoveCredits, TypeOK
    <3>6. CASE RefuseShort(c)
      <4>1. call' \in [Calls -> CallState]
        BY <3>6, CallType DEF RefuseShort, PCs
      <4> QED
        BY <3>6, <4>1 DEF RefuseShort, TypeOK
    <3>7. CASE Rollback(c) \/ LoseAck(c)
      <4>1. call' \in [Calls -> CallState]
        BY <3>7, CallType DEF Rollback, LoseAck
      <4> QED
        BY <3>7, <4>1 DEF Rollback, LoseAck, TypeOK
    <3>8. CASE Acknowledge(c)
      <4>1. call' \in [Calls -> CallState]
        BY <3>8, CallType DEF Acknowledge, PCs
      <4> QED
        BY <3>8, <4>1 DEF Acknowledge, TypeOK
    <3> QED
      BY <2>4, <3>1, <3>2, <3>3, <3>4, <3>5, <3>6, <3>7, <3>8, <3>9
         DEF Commit
  <2>5. CASE UNCHANGED vars
    BY <2>5 DEF vars, TypeOK
  <2> QED
    BY <2>1, <2>2, <2>3, <2>4, <2>5 DEF Next
<1> QED
  BY <1>1, <1>2, PTL DEF Spec

-----------------------------------------------------------------------------
(* The running total of a ledger.  RunningTotal is a recursive function,   *)
(* and what it sums to follows here without induction over data: the       *)
(* invariant below says that a running total exists and that every one     *)
(* ends at the cached balance, and appending a row extends it by one       *)
(* value.                                                                  *)

IsTotal(t, s) ==
    t = [i \in 0 .. Len(s) |-> IF i = 0 THEN 0 ELSE t[i - 1] + s[i].delta]

(* RunningTotal is a running total as soon as there is one.                *)
LEMMA RunningTotalIsTotal ==
    ASSUME NEW s, \E t : IsTotal(t, s)
    PROVE  IsTotal(RunningTotal(s), s)
BY DEF RunningTotal, IsTotal

(* The empty ledger totals zero.                                           *)
LEMMA EmptyTotal ==
    /\ \E t : IsTotal(t, << >>)
    /\ \A t : IsTotal(t, << >>) => t[0] = 0
<1>1. IsTotal([i \in 0 .. 0 |-> 0], << >>)
  BY DEF IsTotal
<1>2. ASSUME NEW t, IsTotal(t, << >>) PROVE t[0] = 0
  <2>1. t = [i \in 0 .. 0 |-> IF i = 0 THEN 0 ELSE t[i - 1] + << >>[i].delta]
    BY <1>2 DEF IsTotal
  <2> QED
    BY <2>1
<1> QED
  BY <1>1, <1>2

(* A running total of s that ends in an integer extends to Append(s, e).   *)
LEMMA ExtendTotal ==
    ASSUME NEW s \in Seq(Entry), NEW e \in Entry, NEW t, IsTotal(t, s)
    PROVE  \E t2 : IsTotal(t2, Append(s, e))
<1> DEFINE n  == Len(s)
           t2 == [i \in 0 .. (n + 1) |->
                     IF i <= n THEN t[i] ELSE t[n] + e.delta]
<1>1. n \in Nat /\ Len(Append(s, e)) = n + 1
  OBVIOUS
<1>2. \A i \in 1 .. n : Append(s, e)[i] = s[i]
  OBVIOUS
<1>3. Append(s, e)[n + 1] = e
  OBVIOUS
<1>4. \A i \in 0 .. n : t[i] = IF i = 0 THEN 0 ELSE t[i - 1] + s[i].delta
  BY DEF IsTotal
<1>5. ASSUME NEW i \in 0 .. (n + 1)
      PROVE  t2[i] = IF i = 0 THEN 0
                     ELSE t2[i - 1] + Append(s, e)[i].delta
  <2>1. CASE i = 0
    BY <1>1, <1>4, <2>1
  <2>2. CASE i \in 1 .. n
    BY <1>1, <1>2, <1>4, <2>2
  <2>3. CASE i = n + 1
    BY <1>1, <1>3, <2>3
  <2> QED
    BY <1>1, <2>1, <2>2, <2>3
<1>6. t2 = [i \in 0 .. (n + 1) |->
               IF i = 0 THEN 0 ELSE t2[i - 1] + Append(s, e)[i].delta]
  BY <1>5
<1> QED
  BY <1>1, <1>6 DEF IsTotal

(* Any running total of Append(s, e) is one of s and ends one row later.   *)
LEMMA RestrictTotal ==
    ASSUME NEW s \in Seq(Entry), NEW e \in Entry, NEW t2,
           IsTotal(t2, Append(s, e))
    PROVE  \E t : /\ IsTotal(t, s)
                  /\ \A i \in 0 .. Len(s) : t2[i] = t[i]
                  /\ t2[Len(s) + 1] = t[Len(s)] + e.delta
<1> DEFINE n == Len(s)
           t == [i \in 0 .. n |-> t2[i]]
<1>1. n \in Nat /\ Len(Append(s, e)) = n + 1
  OBVIOUS
<1>2. \A i \in 1 .. n : Append(s, e)[i] = s[i]
  OBVIOUS
<1>3. Append(s, e)[n + 1] = e
  OBVIOUS
<1>4. \A i \in 0 .. (n + 1) :
          t2[i] = IF i = 0 THEN 0 ELSE t2[i - 1] + Append(s, e)[i].delta
  BY <1>1 DEF IsTotal
<1>5. \A i \in 0 .. n : t[i] = IF i = 0 THEN 0 ELSE t[i - 1] + s[i].delta
  BY <1>1, <1>2, <1>4
<1>6. IsTotal(t, s)
  <2>1. t = [i \in 0 .. n |-> IF i = 0 THEN 0 ELSE t[i - 1] + s[i].delta]
    BY <1>5
  <2> QED
    BY <2>1 DEF IsTotal
<1>7. t2[n + 1] = t[n] + e.delta
  BY <1>1, <1>3, <1>4
<1> QED
  BY <1>6, <1>7

-----------------------------------------------------------------------------
(* Money: no overdraft, and a ledger that accounts for every credit.       *)

(* A running total of an account's ledger exists, and any one ends at the  *)
(* cached balance and passes through the balance of every row that moved   *)
(* credits.                                                                *)
Balanced(u) ==
    /\ \E t : IsTotal(t, ledger[u])
    /\ \A t : IsTotal(t, ledger[u]) =>
          /\ t[Len(ledger[u])] = credits[u]
          /\ \A i \in DOMAIN ledger[u] :
                ledger[u][i].delta # 0 => ledger[u][i].balance = t[i]

(* An account that is not open owns nothing.                               *)
NothingWithoutAccount ==
    \A u \in Users :
        account[u] # "open" => ledger[u] = << >> /\ credits[u] = 0

MoneyInv ==
    /\ TypeOK
    /\ NeverNegative
    /\ NothingWithoutAccount
    /\ \A u \in Users : Balanced(u)

(* A row whose delta moves the cached balance by as much, and whose        *)
(* balance is what it moved it to, keeps every account balanced.           *)
LEMMA AppendBalanced ==
    ASSUME TypeOK, \A v \in Users : Balanced(v),
           NEW u \in Users, NEW e \in Entry,
           ledger' = [ledger EXCEPT ![u] = Append(ledger[u], e)],
           credits' = [credits EXCEPT ![u] = credits[u] + e.delta],
           e.delta # 0 => e.balance = credits[u] + e.delta
    PROVE  \A v \in Users : Balanced(v)'
<1> SUFFICES ASSUME NEW v \in Users PROVE Balanced(v)'
  OBVIOUS
<1> DEFINE s == ledger[u]
           n == Len(s)
<1>0. s \in Seq(Entry) /\ n \in Nat
  BY DEF TypeOK
<1>1. CASE v # u
  BY <1>1 DEF Balanced, TypeOK
<1>2. CASE v = u
  <2>1. ledger'[u] = Append(s, e) /\ credits'[u] = credits[u] + e.delta
    BY DEF TypeOK
  <2>2. Len(ledger'[u]) = n + 1 /\ DOMAIN ledger'[u] = 1 .. (n + 1)
    BY <1>0, <2>1
  <2>3. \A i \in 1 .. n : ledger'[u][i] = s[i]
    BY <1>0, <2>1
  <2>4. ledger'[u][n + 1] = e
    BY <1>0, <2>1
  <2>5. \E t : IsTotal(t, ledger'[u])
    BY <1>0, <2>1, ExtendTotal DEF Balanced
  <2>6. ASSUME NEW t2, IsTotal(t2, ledger'[u])
        PROVE  /\ t2[n + 1] = credits'[u]
               /\ \A i \in 1 .. (n + 1) :
                     ledger'[u][i].delta # 0 => ledger'[u][i].balance = t2[i]
    <3>1. PICK t : /\ IsTotal(t, s)
                   /\ \A i \in 0 .. n : t2[i] = t[i]
                   /\ t2[n + 1] = t[n] + e.delta
      BY <1>0, <2>1, <2>6, RestrictTotal
    <3>2. /\ t[n] = credits[u]
          /\ \A i \in 1 .. n : s[i].delta # 0 => s[i].balance = t[i]
      BY <1>0, <3>1 DEF Balanced
    <3>3. t2[n + 1] = credits[u] + e.delta
      BY <3>1, <3>2
    <3>4. ASSUME NEW i \in 1 .. (n + 1), ledger'[u][i].delta # 0
          PROVE  ledger'[u][i].balance = t2[i]
      <4>1. CASE i \in 1 .. n
        BY <1>0, <2>3, <3>1, <3>2, <3>4, <4>1
      <4>2. CASE i = n + 1
        BY <2>4, <3>3, <3>4, <4>2
      <4> QED
        BY <1>0, <4>1, <4>2
    <3> QED
      BY <2>1, <3>3, <3>4
  <2> QED
    BY <1>2, <2>2, <2>5, <2>6 DEF Balanced
<1> QED
  BY <1>1, <1>2

\* Money: the empty ledger.
LEMMA MoneyInit == Init => MoneyInv
<1> SUFFICES ASSUME Init PROVE MoneyInv
  OBVIOUS
<1>1. TypeOK
  BY LedgerAssumption DEF Init, TypeOK, CallState, PCs
<1>2. NeverNegative /\ NothingWithoutAccount
  BY DEF Init, NeverNegative, NothingWithoutAccount
<1>3. ASSUME NEW u \in Users PROVE Balanced(u)
  <2>1. ledger[u] = << >> /\ credits[u] = 0
    BY DEF Init
  <2> QED
    BY <2>1, EmptyTotal DEF Balanced
<1> QED
  BY <1>1, <1>2, <1>3 DEF MoneyInv

(* The steps of a request that write nothing leave all of it alone.        *)
LEMMA MoneyUnchanged ==
    ASSUME MoneyInv, TypeOK', UNCHANGED <<account, credits, ledger>>
    PROVE  MoneyInv'
BY DEF MoneyInv, NeverNegative, NothingWithoutAccount, Balanced

\* Money: one step per operation.
LEMMA MoneyNext == MoneyInv /\ TypeOK' /\ [Next]_vars => MoneyInv'
<1> SUFFICES ASSUME MoneyInv, TypeOK', [Next]_vars PROVE MoneyInv'
  OBVIOUS
<1> USE ConstantTypes
<1>1. ASSUME NEW u \in Users, CreateUser(u) PROVE MoneyInv'
  <2> DEFINE e == [delta |-> SignupBonus, balance |-> SignupBonus,
                   reason |-> "SIGNUP_BONUS", ref |-> None, by |-> None]
  <2>1. e \in Entry
    BY DEF Entry, Reasons
  <2>2. credits[u] = 0
    BY <1>1 DEF CreateUser, MoneyInv, NothingWithoutAccount
  <2>3. /\ ledger' = [ledger EXCEPT ![u] = Append(ledger[u], e)]
        /\ credits' = [credits EXCEPT ![u] = credits[u] + e.delta]
    <3>1. credits[u] + e.delta = SignupBonus
      BY <2>2
    <3>2. /\ ledger' = [ledger EXCEPT ![u] = Append(ledger[u], e)]
          /\ credits' = [credits EXCEPT ![u] = SignupBonus]
      BY <1>1 DEF CreateUser, WriteEntry
    <3> QED
      BY <3>1, <3>2
  <2>4. \A v \in Users : Balanced(v)'
    <3>1. e.delta # 0 => e.balance = credits[u] + e.delta
      BY <2>2
    <3> HIDE DEF e
    <3> QED
      BY <2>1, <2>3, <3>1, AppendBalanced DEF MoneyInv
  <2>5. NeverNegative'
    BY <1>1, LedgerAssumption DEF CreateUser, MoneyInv, NeverNegative, TypeOK
  <2>6. NothingWithoutAccount'
    BY <1>1 DEF CreateUser, WriteEntry, MoneyInv, NothingWithoutAccount, TypeOK
  <2> QED
    BY <2>4, <2>5, <2>6 DEF MoneyInv
<1>2. ASSUME NEW u \in Users, RemoveUser(u) PROVE MoneyInv'
  <2>1. ASSUME NEW v \in Users PROVE Balanced(v)'
    <3>1. CASE v = u
      <4>1. ledger'[u] = << >> /\ credits'[u] = 0
        BY <1>2 DEF RemoveUser, MoneyInv, TypeOK
      <4> QED
        BY <3>1, <4>1, EmptyTotal DEF Balanced
    <3>2. CASE v # u
      BY <1>2, <3>2 DEF RemoveUser, MoneyInv, TypeOK, Balanced
    <3> QED
      BY <3>1, <3>2
  <2>2. NeverNegative'
    BY <1>2 DEF RemoveUser, MoneyInv, NeverNegative, TypeOK
  <2>3. NothingWithoutAccount'
    BY <1>2 DEF RemoveUser, MoneyInv, NothingWithoutAccount, TypeOK
  <2> QED
    BY <2>1, <2>2, <2>3 DEF MoneyInv
<1>3. ASSUME NEW r \in Receipts, GrantReceipt(r) PROVE MoneyInv'
  <2> DEFINE u == ReceiptUser[r]
             e == [delta |-> ReceiptCredits[r],
                   balance |-> credits[u] + ReceiptCredits[r],
                   reason |-> "GRANT", ref |-> r, by |-> None]
  <2>1. credits[u] \in Int /\ credits[u] + ReceiptCredits[r] \in Int
    BY DEF MoneyInv, TypeOK
  <2>2. e \in Entry
    BY <2>1 DEF Entry, Reasons
  <2>3. /\ ledger' = [ledger EXCEPT ![u] = Append(ledger[u], e)]
        /\ credits' = [credits EXCEPT ![u] = credits[u] + e.delta]
    BY <1>3 DEF GrantReceipt, MoveCredits, WriteEntry
  <2>4. \A v \in Users : Balanced(v)'
    BY <2>2, <2>3, AppendBalanced DEF MoneyInv
  <2>5. NeverNegative'
    BY <1>3, <2>1, LedgerAssumption
       DEF GrantReceipt, MoveCredits, MoneyInv, NeverNegative, TypeOK
  <2>6. NothingWithoutAccount'
    BY <1>3 DEF GrantReceipt, MoveCredits, WriteEntry, MoneyInv,
                NothingWithoutAccount, TypeOK
  <2> QED
    BY <2>4, <2>5, <2>6 DEF MoneyInv
<1>4. ASSUME NEW c \in Calls, WriteMarker(c) PROVE MoneyInv'
  <2> DEFINE u == CallUser[c]
             e == [delta |-> 0, balance |-> call[c].seen,
                   reason |-> "DUB_SPEND", ref |-> CallJob[c], by |-> c]
  <2>1. CASE account[u] = "open"
    <3>1. call[c].seen \in Int /\ credits[u] \in Int
      BY DEF MoneyInv, TypeOK, CallState
    <3>2. e \in Entry
      BY <3>1 DEF Entry, Reasons
    <3>3. /\ ledger' = [ledger EXCEPT ![u] = Append(ledger[u], e)]
          /\ credits' = credits /\ account' = account
      BY <1>4, <2>1 DEF WriteMarker, WriteEntry
    <3>4. credits' = [credits EXCEPT ![u] = credits[u] + e.delta]
      BY <3>1, <3>3 DEF MoneyInv, TypeOK
    <3>5. \A v \in Users : Balanced(v)'
      BY <3>2, <3>3, <3>4, AppendBalanced DEF MoneyInv
    <3>6. NeverNegative' /\ NothingWithoutAccount'
      BY <2>1, <3>3 DEF MoneyInv, NeverNegative, NothingWithoutAccount, TypeOK
    <3> QED
      BY <3>5, <3>6 DEF MoneyInv
  <2>2. CASE account[u] # "open"
    BY <1>4, <2>2, MoneyUnchanged DEF WriteMarker
  <2> QED
    BY <2>1, <2>2
<1>5. ASSUME NEW c \in Calls, Charge(c) PROVE MoneyInv'
  <2> DEFINE u == CallUser[c]
             e == [delta |-> -call[c].cost,
                   balance |-> credits[u] + (-call[c].cost),
                   reason |-> "DUB_SPEND", ref |-> CallJob[c], by |-> c]
  <2>1. credits[u] \in Int /\ call[c].cost \in Int
    BY DEF MoneyInv, TypeOK, CallState
  <2>2. e \in Entry
    BY <2>1 DEF Entry, Reasons
  <2>3. /\ ledger' = [ledger EXCEPT ![u] = Append(ledger[u], e)]
        /\ credits' = [credits EXCEPT ![u] = credits[u] + e.delta]
        /\ account' = account /\ account[u] = "open"
        /\ credits[u] >= call[c].cost
    BY <1>5 DEF Charge, MoveCredits, WriteEntry
  <2>4. \A v \in Users : Balanced(v)'
    BY <2>2, <2>3, AppendBalanced DEF MoneyInv
  <2>5. NeverNegative'
    BY <2>1, <2>3 DEF MoneyInv, NeverNegative, TypeOK
  <2>6. NothingWithoutAccount'
    BY <2>3 DEF MoneyInv, NothingWithoutAccount, TypeOK
  <2> QED
    BY <2>4, <2>5, <2>6 DEF MoneyInv
<1>6. ASSUME NEW c \in Calls,
             \/ BeginCommit(c) \/ FindExisting(c) \/ FindUser(c) \/ ReplyExisting(c)
             \/ RefuseShort(c) \/ Rollback(c) \/ LoseAck(c) \/ Acknowledge(c)
      PROVE  MoneyInv'
  BY <1>6, MoneyUnchanged
     DEF BeginCommit, FindExisting, FindUser, ReplyExisting, RefuseShort,
         Rollback, LoseAck, Acknowledge
<1>7. CASE UNCHANGED vars
  BY <1>7, MoneyUnchanged DEF vars
<1> QED
  BY <1>1, <1>2, <1>3, <1>4, <1>5, <1>6, <1>7 DEF Next, Commit

\* Money, in every behaviour.
LEMMA MoneyInvariant == Spec => []MoneyInv
<1>1. Init => MoneyInv
  BY MoneyInit
<1>2. MoneyInv /\ TypeOK' /\ [Next]_vars => MoneyInv'
  BY MoneyNext
<1> QED
  BY <1>1, <1>2, TypeCorrect, PTL DEF Spec

(* Whatever charges, grants, retries and deletions interleave, no account  *)
(* is overdrawn.                                                           *)
THEOREM NoOverdraft == Spec => []NeverNegative
<1>1. MoneyInv => NeverNegative
  BY DEF MoneyInv
<1> QED
  BY <1>1, MoneyInvariant, PTL

(* The deltas of an account's ledger always add up to its cached balance,  *)
(* and every row that moved credits carries the balance it left.           *)
THEOREM LedgerAccountsForBalance ==
    Spec => []LedgerAccounts
<1>1. MoneyInv => CacheMatchesLedger /\ RunningBalances
  BY RunningTotalIsTotal DEF MoneyInv, Balanced, CacheMatchesLedger, RunningBalances
<1>2. MoneyInv => LedgerAccounts
  BY <1>1 DEF LedgerAccounts
<1> QED
  BY <1>2, MoneyInvariant, PTL

-----------------------------------------------------------------------------
(* Requests: what a retried request finds of its own earlier work.         *)

(* The rows a request wrote.                                               *)
Written(c) == {i \in DOMAIN ledger[CallUser[c]] :
                  ledger[CallUser[c]][i].by = c}

(* A request's rows name its job, are charges, and are in its own          *)
(* account's ledger.                                                       *)
RowsNameTheirJob ==
    \A u \in Users : \A i \in DOMAIN ledger[u] :
        LET row == ledger[u][i] IN
        row.by # None => /\ CallUser[row.by] = u
                         /\ row.ref = CallJob[row.by]
                         /\ row.reason = "DUB_SPEND"

(* No request has started without an account.  One that has written a row *)
(* is past its start, was not refused, and finds the row when it looks;    *)
(* whatever it found or wrote is a row at the price it answers with.       *)
Remembers(c) ==
    /\ account[CallUser[c]] = "none" => call[c].pc = "idle"
    /\ Written(c) # {} =>
          /\ call[c].pc \notin {"idle", "refused"}
          /\ call[c].pc \in {"read", "decide"} => call[c].found
    /\ /\ account[CallUser[c]] = "open"
       /\ \/ call[c].pc \in {"read", "decide"} /\ call[c].found
          \/ call[c].pc \in {"committed", "done"}
       => \E i \in RowsOf(CallUser[c], CallJob[c]) :
             ledger[CallUser[c]][i].delta = -call[c].cost

CallInv ==
    /\ MoneyInv
    /\ RowsNameTheirJob
    /\ CallChargesOnce
    /\ \A c \in Calls : Remembers(c)

(* A row appended by nobody, or by a request that has written none, is the *)
(* only change to what requests have written, and every row stays.         *)
LEMMA AppendRow ==
    ASSUME TypeOK, RowsNameTheirJob, CallChargesOnce,
           NEW u \in Users, NEW e \in Entry,
           ledger' = [ledger EXCEPT ![u] = Append(ledger[u], e)],
           e.by # None => /\ CallUser[e.by] = u
                          /\ e.ref = CallJob[e.by]
                          /\ e.reason = "DUB_SPEND"
                          /\ Written(e.by) = {}
    PROVE  /\ RowsNameTheirJob'
           /\ CallChargesOnce'
           /\ \A d \in Calls : d # e.by => Written(d)' = Written(d)
           /\ \A v \in Users : \A i \in DOMAIN ledger[v] :
                 i \in DOMAIN ledger'[v] /\ ledger'[v][i] = ledger[v][i]
           /\ \E i \in DOMAIN ledger'[u] : ledger'[u][i] = e
<1> DEFINE s == ledger[u]
           n == Len(s)
<1>0. s \in Seq(Entry) /\ n \in Nat /\ DOMAIN s = 1 .. n
  BY DEF TypeOK
<1>1. ledger'[u] = Append(s, e)
  BY DEF TypeOK
<1>2. /\ DOMAIN ledger'[u] = 1 .. (n + 1)
      /\ \A i \in 1 .. n : ledger'[u][i] = s[i]
      /\ ledger'[u][n + 1] = e
  BY <1>0, <1>1
<1>3. \A v \in Users : v # u => ledger'[v] = ledger[v]
  BY DEF TypeOK
<1>4. \A v \in Users : \A i \in DOMAIN ledger[v] :
         i \in DOMAIN ledger'[v] /\ ledger'[v][i] = ledger[v][i]
  BY <1>0, <1>2, <1>3
<1>5. RowsNameTheirJob'
  <2> SUFFICES ASSUME NEW v \in Users, NEW i \in DOMAIN ledger'[v],
                      ledger'[v][i].by # None
               PROVE  /\ CallUser[ledger'[v][i].by] = v
                      /\ ledger'[v][i].ref = CallJob[ledger'[v][i].by]
                      /\ ledger'[v][i].reason = "DUB_SPEND"
    BY DEF RowsNameTheirJob
  <2>1. CASE v = u /\ i = n + 1
    BY <1>2, <2>1
  <2>2. CASE ~(v = u /\ i = n + 1)
    <3>1. i \in DOMAIN ledger[v] /\ ledger'[v][i] = ledger[v][i]
      BY <1>0, <1>2, <1>3, <2>2
    <3> QED
      BY <3>1 DEF RowsNameTheirJob
  <2> QED
    BY <2>1, <2>2
<1>6. ASSUME NEW d \in Calls, d # e.by PROVE Written(d)' = Written(d)
  <2>1. CASE CallUser[d] = u
    BY <1>0, <1>2, <1>6, <2>1 DEF Written
  <2>2. CASE CallUser[d] # u
    BY <1>3, <2>2, ConstantTypes DEF Written
  <2> QED
    BY <2>1, <2>2
<1>7. CallChargesOnce'
  <2> SUFFICES ASSUME NEW d \in Calls,
                      NEW i \in Written(d)', NEW j \in Written(d)'
               PROVE  i = j
    BY DEF CallChargesOnce, Written
  <2>1. CASE d # e.by
    BY <1>6, <2>1 DEF CallChargesOnce, Written
  <2>2. CASE d = e.by
    <3>1. d # None
      BY LedgerAssumption
    <3>2. CallUser[d] = u /\ Written(d) = {}
      BY <2>2, <3>1
    <3>3. \A k \in 1 .. n : s[k].by # d
      BY <1>0, <3>2 DEF Written
    <3>4. \A k \in 1 .. (n + 1) : ledger'[u][k].by = d => k = n + 1
      BY <1>0, <1>2, <3>3
    <3>5. /\ i \in 1 .. (n + 1) /\ ledger'[u][i].by = d
          /\ j \in 1 .. (n + 1) /\ ledger'[u][j].by = d
      BY <1>2, <3>2 DEF Written
    <3> QED
      BY <3>4, <3>5
  <2> QED
    BY <2>1, <2>2
<1>8. \E i \in DOMAIN ledger'[u] : ledger'[u][i] = e
  BY <1>0, <1>2
<1> QED
  BY <1>4, <1>5, <1>6, <1>7, <1>8

(* A step of request c that leaves the database alone preserves what the   *)
(* other requests remember.                                                *)
LEMMA CallStep ==
    ASSUME CallInv, MoneyInv', UNCHANGED <<account, ledger>>,
           NEW c \in Calls, Remembers(c)',
           \A d \in Calls : d # c => call'[d] = call[d]
    PROVE  CallInv'
<1>1. RowsNameTheirJob' /\ CallChargesOnce'
  BY DEF CallInv, RowsNameTheirJob, CallChargesOnce
<1>2. ASSUME NEW d \in Calls, d # c PROVE Remembers(d)'
  BY <1>2 DEF CallInv, Remembers, Written, RowsOf
<1> QED
  BY <1>1, <1>2 DEF CallInv

(* A step that appends a row on behalf of nobody does too.                 *)
LEMMA GrantStep ==
    ASSUME CallInv, MoneyInv', UNCHANGED call,
           NEW u \in Users, NEW e \in Entry, e.by = None,
           ledger' = [ledger EXCEPT ![u] = Append(ledger[u], e)],
           \A v \in Users : /\ account[v] # "none" => account'[v] = account[v]
                            /\ account[v] = "none" => account'[v] \in {"none", "open"}
    PROVE  CallInv'
<1>1. /\ RowsNameTheirJob' /\ CallChargesOnce'
      /\ \A d \in Calls : Written(d)' = Written(d)
      /\ \A v \in Users : \A i \in DOMAIN ledger[v] :
            i \in DOMAIN ledger'[v] /\ ledger'[v][i] = ledger[v][i]
  <2>1. TypeOK /\ RowsNameTheirJob /\ CallChargesOnce
    BY DEF CallInv, MoneyInv
  <2>2. /\ RowsNameTheirJob' /\ CallChargesOnce'
        /\ \A d \in Calls : d # e.by => Written(d)' = Written(d)
        /\ \A v \in Users : \A i \in DOMAIN ledger[v] :
              i \in DOMAIN ledger'[v] /\ ledger'[v][i] = ledger[v][i]
    BY <2>1, AppendRow
  <2> QED
    BY <2>2, LedgerAssumption
<1>2. ASSUME NEW d \in Calls PROVE Remembers(d)'
  <2> DEFINE v == CallUser[d]
  <2>0. v \in Users
    BY ConstantTypes
  <2>1. CASE account[v] = "none"
    <3>1. call'[d].pc = "idle" /\ Written(d)' = {}
      BY <1>1, <2>1 DEF CallInv, Remembers
    <3> QED
      BY <3>1 DEF Remembers
  <2>2. CASE account[v] # "none"
    <3>1. account'[v] = account[v]
      BY <2>0, <2>2
    <3>2. \A i \in RowsOf(v, CallJob[d]) :
             i \in RowsOf(v, CallJob[d])' /\ ledger'[v][i] = ledger[v][i]
      BY <1>1, <2>0 DEF RowsOf
    <3>3. Remembers(d) /\ Written(d)' = Written(d) /\ call'[d] = call[d]
      BY <1>1 DEF CallInv
    <3> QED
      BY <2>2, <3>1, <3>2, <3>3 DEF Remembers
  <2> QED
    BY <2>1, <2>2
<1> QED
  BY <1>1, <1>2 DEF CallInv

(* A request that found no row and appends its own remembers it.           *)
LEMMA ChargeStep ==
    ASSUME CallInv, MoneyInv', UNCHANGED account,
           NEW c \in Calls, NEW e \in Entry,
           call[c].pc = "decide", ~call[c].found, Goto(c, "committed"),
           ledger' = [ledger EXCEPT ![CallUser[c]] =
                         Append(ledger[CallUser[c]], e)],
           e.by = c, e.ref = CallJob[c], e.reason = "DUB_SPEND",
           e.delta = -call[c].cost, account[CallUser[c]] = "open"
    PROVE  CallInv'
<1> DEFINE u == CallUser[c]
<1>0. u \in Users /\ c # None
  BY ConstantTypes, LedgerAssumption
<1>1. Written(c) = {}
  BY DEF CallInv, Remembers
<1>2. /\ RowsNameTheirJob' /\ CallChargesOnce'
      /\ \A d \in Calls : d # c => Written(d)' = Written(d)
      /\ \A v \in Users : \A i \in DOMAIN ledger[v] :
            i \in DOMAIN ledger'[v] /\ ledger'[v][i] = ledger[v][i]
      /\ \E i \in DOMAIN ledger'[u] : ledger'[u][i] = e
  <2>1. TypeOK /\ RowsNameTheirJob /\ CallChargesOnce
    BY DEF CallInv, MoneyInv
  <2>2. /\ CallUser[e.by] = u /\ e.ref = CallJob[e.by]
        /\ e.reason = "DUB_SPEND" /\ Written(e.by) = {}
    BY <1>1
  <2> QED
    BY <1>0, <2>1, <2>2, AppendRow
<1>3. /\ call'[c].pc = "committed" /\ call'[c].cost = call[c].cost
      /\ \A d \in Calls : d # c => call'[d] = call[d]
  BY DEF Goto, CallInv, MoneyInv, TypeOK, CallState
<1>4. Remembers(c)'
  <2>1. PICK i \in DOMAIN ledger'[u] : ledger'[u][i] = e
    BY <1>2
  <2>2. i \in RowsOf(u, CallJob[c])' /\ ledger'[u][i].delta = -call'[c].cost
    BY <1>3, <2>1 DEF RowsOf
  <2> QED
    BY <1>3, <2>2 DEF Remembers
<1>5. ASSUME NEW d \in Calls, d # c PROVE Remembers(d)'
  <2> DEFINE v == CallUser[d]
  <2>0. v \in Users
    BY ConstantTypes
  <2>1. call'[d] = call[d] /\ Written(d)' = Written(d)
    BY <1>2, <1>3, <1>5
  <2>2. \A i \in RowsOf(v, CallJob[d]) :
           i \in RowsOf(v, CallJob[d])' /\ ledger'[v][i] = ledger[v][i]
    BY <1>2, <2>0 DEF RowsOf
  <2>3. Remembers(d) /\ account' = account
    BY DEF CallInv
  <2> QED
    BY <2>1, <2>2, <2>3 DEF Remembers
<1> QED
  BY <1>2, <1>4, <1>5 DEF CallInv

(* What the steps of a request do to its own record.                       *)
LEMMA RecordSteps ==
    ASSUME TypeOK, NEW c \in Calls
    PROVE  /\ \A pc : Goto(c, pc) =>
                 /\ call'[c].pc = pc
                 /\ call'[c].cost = call[c].cost
                 /\ call'[c].found = call[c].found
           /\ \A f, n : Found(c, f, n) =>
                 /\ call'[c].pc = "read"
                 /\ call'[c].found = f
                 /\ call'[c].cost = n
           /\ \A n : call' = [call EXCEPT ![c] = [call[c] EXCEPT
                                 !.pc = "decide", !.seen = n]] =>
                 /\ call'[c].pc = "decide"
                 /\ call'[c].cost = call[c].cost
                 /\ call'[c].found = call[c].found
           /\ Retry(c) => call'[c].pc \in {"lookup", "failed"}
<1> DEFINE s == call[c]
<1>1. s \in CallState /\ \A new : [call EXCEPT ![c] = new][c] = new
  BY DEF TypeOK
<1>2. ASSUME NEW pc, Goto(c, pc)
      PROVE  /\ call'[c].pc = pc
             /\ call'[c].cost = s.cost
             /\ call'[c].found = s.found
  <2>1. call'[c] = [s EXCEPT !.pc = pc]
    BY <1>2 DEF Goto, TypeOK
  <2> HIDE DEF s
  <2> QED
    BY <1>1, <2>1 DEF CallState
<1>3. ASSUME NEW f, NEW n, Found(c, f, n)
      PROVE  /\ call'[c].pc = "read"
             /\ call'[c].found = f
             /\ call'[c].cost = n
  <2>1. call'[c] = [s EXCEPT !.pc = "read", !.found = f, !.cost = n]
    BY <1>1, <1>3 DEF Found
  <2> HIDE DEF s
  <2> QED
    BY <1>1, <2>1 DEF CallState
<1>4. ASSUME NEW n, call' = [call EXCEPT ![c] = [call[c] EXCEPT
                                !.pc = "decide", !.seen = n]]
      PROVE  /\ call'[c].pc = "decide"
             /\ call'[c].cost = s.cost
             /\ call'[c].found = s.found
  <2>1. call'[c] = [s EXCEPT !.pc = "decide", !.seen = n]
    BY <1>1, <1>4
  <2> HIDE DEF s
  <2> QED
    BY <1>1, <2>1 DEF CallState
<1>5. ASSUME Retry(c) PROVE call'[c].pc \in {"lookup", "failed"}
  <2>1. \/ call'[c] = [s EXCEPT !.pc = "lookup", !.tries = s.tries + 1]
        \/ call'[c] = [s EXCEPT !.pc = "failed"]
    BY <1>1, <1>5 DEF Retry
  <2> HIDE DEF s
  <2> QED
    BY <1>1, <2>1 DEF CallState
<1> QED
  BY <1>2, <1>3, <1>4, <1>5

\* Requests: nobody has asked for anything.
LEMMA CallInit == Init => CallInv
<1> SUFFICES ASSUME Init PROVE CallInv
  OBVIOUS
<1>1. \A u \in Users : DOMAIN ledger[u] = {}
  <2> TAKE u \in Users
  <2>1. ledger[u] = << >>
    BY DEF Init
  <2> QED
    BY <2>1
<1>2. \A c \in Calls : Written(c) = {} /\ call[c].pc = "idle"
  BY <1>1, ConstantTypes DEF Init, Written
<1>3. RowsNameTheirJob /\ CallChargesOnce
  BY <1>1, ConstantTypes DEF RowsNameTheirJob, CallChargesOnce
<1> QED
  BY <1>2, <1>3, MoneyInit DEF CallInv, Remembers

\* Requests: one step per operation, on top of what is known of the money after it.
LEMMA CallNext == CallInv /\ MoneyInv' /\ [Next]_vars => CallInv'
<1> SUFFICES ASSUME CallInv, MoneyInv', [Next]_vars PROVE CallInv'
  OBVIOUS
<1>0. TypeOK /\ TypeOK'
  BY DEF CallInv, MoneyInv
<1> USE ConstantTypes
<1>1. ASSUME NEW u \in Users, CreateUser(u) PROVE CallInv'
  <2> DEFINE e == [delta |-> SignupBonus, balance |-> SignupBonus,
                   reason |-> "SIGNUP_BONUS", ref |-> None, by |-> None]
  <2>1. e \in Entry /\ e.by = None
    BY DEF Entry, Reasons
  <2>2. ledger' = [ledger EXCEPT ![u] = Append(ledger[u], e)]
    BY <1>1 DEF CreateUser, WriteEntry
  <2>3. \A v \in Users :
           /\ account[v] # "none" => account'[v] = account[v]
           /\ account[v] = "none" => account'[v] \in {"none", "open"}
    BY <1>0, <1>1 DEF CreateUser, TypeOK
  <2>4. UNCHANGED call
    BY <1>1 DEF CreateUser
  <2> HIDE DEF e
  <2> QED
    BY <2>1, <2>2, <2>3, <2>4, GrantStep
<1>2. ASSUME NEW u \in Users, RemoveUser(u) PROVE CallInv'
  <2>1. /\ ledger'[u] = << >> /\ account'[u] = "deleted" /\ call' = call
        /\ \A v \in Users : v # u => /\ ledger'[v] = ledger[v]
                                     /\ account'[v] = account[v]
    BY <1>0, <1>2 DEF RemoveUser, TypeOK
  <2>2. DOMAIN ledger'[u] = {}
    BY <2>1
  <2>3. RowsNameTheirJob'
    BY <2>1, <2>2 DEF CallInv, RowsNameTheirJob
  <2>4. CallChargesOnce'
    BY <2>1, <2>2 DEF CallInv, CallChargesOnce
  <2>5. ASSUME NEW d \in Calls PROVE Remembers(d)'
    <3>1. CASE CallUser[d] = u
      <4>1. Written(d)' = {}
        BY <2>2, <3>1 DEF Written
      <4> QED
        BY <2>1, <3>1, <4>1 DEF Remembers
    <3>2. CASE CallUser[d] # u
      <4>1. /\ Written(d)' = Written(d)
            /\ RowsOf(CallUser[d], CallJob[d])' = RowsOf(CallUser[d], CallJob[d])
        BY <2>1, <3>2 DEF Written, RowsOf
      <4> QED
        BY <2>1, <3>2, <4>1 DEF CallInv, Remembers
    <3> QED
      BY <3>1, <3>2
  <2> QED
    BY <2>3, <2>4, <2>5 DEF CallInv
<1>3. ASSUME NEW r \in Receipts, GrantReceipt(r) PROVE CallInv'
  <2> DEFINE u == ReceiptUser[r]
             e == [delta |-> ReceiptCredits[r],
                   balance |-> credits[u] + ReceiptCredits[r],
                   reason |-> "GRANT", ref |-> r, by |-> None]
  <2>1. credits[u] + ReceiptCredits[r] \in Int
    BY <1>0 DEF TypeOK
  <2>2. e \in Entry /\ e.by = None
    BY <2>1 DEF Entry, Reasons
  <2>3. /\ ledger' = [ledger EXCEPT ![u] = Append(ledger[u], e)]
        /\ UNCHANGED <<account, call>>
    BY <1>3 DEF GrantReceipt, MoveCredits, WriteEntry
  <2>4. \A v \in Users :
           /\ account[v] # "none" => account'[v] = account[v]
           /\ account[v] = "none" => account'[v] \in {"none", "open"}
    BY <2>3
  <2> HIDE DEF e
  <2> QED
    BY <2>2, <2>3, <2>4, GrantStep
<1>4. ASSUME NEW c \in Calls, WriteMarker(c) PROVE CallInv'
  <2> DEFINE u == CallUser[c]
             e == [delta |-> 0, balance |-> call[c].seen,
                   reason |-> "DUB_SPEND", ref |-> CallJob[c], by |-> c]
  <2>1. CASE account[u] = "open"
    <3>1. call[c].seen \in Int
      BY <1>0 DEF TypeOK, CallState
    <3>2. /\ e \in Entry /\ e.by = c /\ e.ref = CallJob[c]
          /\ e.reason = "DUB_SPEND" /\ e.delta = 0
      BY <3>1 DEF Entry, Reasons
    <3>3. /\ ledger' = [ledger EXCEPT ![u] = Append(ledger[u], e)]
          /\ account' = account /\ Goto(c, "committed")
          /\ call[c].pc = "decide" /\ ~call[c].found /\ call[c].cost = 0
      BY <1>4, <2>1 DEF WriteMarker, WriteEntry
    <3>4. e.delta = -call[c].cost
      <4>1. call[c].cost \in Int
        BY <1>0 DEF TypeOK, CallState
      <4>2. -call[c].cost = 0 - call[c].cost
        BY <4>1
      <4>3. 0 - call[c].cost = e.delta
        BY <3>2, <3>3
      <4> QED
        BY <4>2, <4>3
    <3> HIDE DEF e
    <3> QED
      BY <2>1, <3>2, <3>3, <3>4, ChargeStep
  <2>2. CASE account[u] # "open"
    <3>1. /\ Goto(c, "refused") /\ UNCHANGED <<account, ledger>>
          /\ call[c].pc = "decide" /\ ~call[c].found
      BY <1>4, <2>2 DEF WriteMarker
    <3>2. /\ call'[c].pc = "refused"
          /\ \A d \in Calls : d # c => call'[d] = call[d]
      BY <1>0, <3>1 DEF Goto, TypeOK, CallState
    <3>3. Written(c)' = Written(c) /\ Written(c) = {}
      BY <3>1 DEF CallInv, Remembers, Written
    <3>4. account[u] # "none"
      BY <3>1 DEF CallInv, Remembers
    <3>5. Remembers(c)'
      BY <3>1, <3>2, <3>3, <3>4 DEF Remembers
    <3> QED
      BY <3>1, <3>2, <3>5, CallStep
  <2> QED
    BY <2>1, <2>2
<1>5. ASSUME NEW c \in Calls, Charge(c) PROVE CallInv'
  <2> DEFINE u == CallUser[c]
             e == [delta |-> -call[c].cost,
                   balance |-> credits[u] + (-call[c].cost),
                   reason |-> "DUB_SPEND", ref |-> CallJob[c], by |-> c]
  <2>1. credits[u] \in Int /\ call[c].cost \in Int
    BY <1>0 DEF TypeOK, CallState
  <2>2. /\ e \in Entry /\ e.by = c /\ e.ref = CallJob[c]
        /\ e.reason = "DUB_SPEND" /\ e.delta = -call[c].cost
    BY <2>1 DEF Entry, Reasons
  <2>3. /\ ledger' = [ledger EXCEPT ![u] = Append(ledger[u], e)]
        /\ account' = account /\ account[u] = "open"
        /\ call[c].pc = "decide" /\ ~call[c].found /\ Goto(c, "committed")
    BY <1>5 DEF Charge, MoveCredits, WriteEntry
  <2> HIDE DEF e
  <2> QED
    BY <2>2, <2>3, ChargeStep
<1>6. ASSUME NEW c \in Calls,
             \/ BeginCommit(c) \/ FindExisting(c) \/ FindUser(c)
             \/ ReplyExisting(c) \/ RefuseShort(c) \/ Rollback(c)
             \/ LoseAck(c) \/ Acknowledge(c)
      PROVE  CallInv'
  <2> DEFINE u == CallUser[c]
  <2>1. UNCHANGED <<account, ledger>>
    BY <1>6 DEF BeginCommit, FindExisting, FindUser, ReplyExisting,
                RefuseShort, Rollback, LoseAck, Acknowledge
  <2>2. /\ Written(c)' = Written(c)
        /\ RowsOf(u, CallJob[c])' = RowsOf(u, CallJob[c])
    BY <2>1 DEF Written, RowsOf
  <2>3. \A d \in Calls : d # c => call'[d] = call[d]
    BY <1>0, <1>6
       DEF BeginCommit, FindExisting, FindUser, ReplyExisting, RefuseShort,
           Rollback, LoseAck, Acknowledge, Goto, Found, Retry, TypeOK
  <2>4. Remembers(c)'
    <3>1. CASE BeginCommit(c)
      BY <1>0, <2>1, <2>2, <3>1
         DEF BeginCommit, Goto, CallInv, Remembers, TypeOK, CallState
    <3>2. CASE FindExisting(c)
      <4>1. call[c].pc = "lookup"
        BY <3>2 DEF FindExisting
      <4>2. CASE RowsOf(u, CallJob[c]) = {} /\ Found(c, FALSE, CallCost[c])
        <5>1. Written(c) = {}
          <6>1. \A i \in Written(c) : i \in RowsOf(u, CallJob[c])
            BY LedgerAssumption
               DEF CallInv, RowsNameTheirJob, Written, RowsOf
          <6> QED
            BY <4>2, <6>1
        <5>2. call'[c].pc = "read" /\ call'[c].found = FALSE
          BY <1>0, <4>2, RecordSteps
        <5> QED
          BY <2>1, <2>2, <4>1, <5>1, <5>2 DEF CallInv, Remembers
      <4>3. CASE \E i \in RowsOf(u, CallJob[c]) :
                    Found(c, TRUE, -ledger[u][i].delta)
        <5>1. PICK i \in RowsOf(u, CallJob[c]) :
                  Found(c, TRUE, -ledger[u][i].delta)
          BY <4>3
        <5>2. /\ call'[c].pc = "read" /\ call'[c].found = TRUE
              /\ call'[c].cost = -ledger[u][i].delta
          <6> DEFINE n == -ledger[u][i].delta
          <6>1. Found(c, TRUE, n)
            BY <5>1
          <6> HIDE DEF n
          <6>2. call'[c].pc = "read" /\ call'[c].found /\ call'[c].cost = n
            BY <1>0, <6>1, RecordSteps
          <6> QED
            BY <6>2 DEF n
        <5>3. ledger[u][i].delta \in Int
          <6>1. ledger[u] \in Seq(Entry) /\ i \in DOMAIN ledger[u]
            BY <1>0 DEF RowsOf, TypeOK
          <6>2. ledger[u][i] \in Entry
            BY <6>1
          <6> QED
            BY <6>2 DEF Entry
        <5>4. i \in RowsOf(u, CallJob[c])'
              /\ ledger'[u][i].delta = -call'[c].cost
          BY <2>1, <2>2, <5>2, <5>3
        <5> QED
          BY <2>1, <2>2, <4>1, <5>2, <5>4 DEF CallInv, Remembers
      <4> QED
        BY <3>2, <4>2, <4>3 DEF FindExisting
    <3>3. CASE FindUser(c)
      <4>1. /\ call[c].pc = "read"
            /\ call'[c].cost = call[c].cost /\ call'[c].found = call[c].found
            /\ \/ account[u] # "open" /\ call'[c].pc = "refused"
               \/ account[u] = "open" /\ call'[c].pc = "decide"
        BY <1>0, <3>3, RecordSteps DEF FindUser
      <4>2. CASE account[u] = "open"
        BY <2>1, <2>2, <4>1, <4>2 DEF CallInv, Remembers
      <4>3. CASE account[u] # "open"
        <5>1. ledger[u] = << >>
          BY <4>3 DEF CallInv, MoneyInv, NothingWithoutAccount
        <5>2. Written(c) = {}
          BY <5>1 DEF Written
        <5> QED
          BY <2>1, <2>2, <4>1, <4>3, <5>2 DEF CallInv, Remembers
      <4> QED
        BY <4>2, <4>3
    <3>4. CASE ReplyExisting(c) \/ RefuseShort(c) \/ Acknowledge(c)
      <4>1. /\ call'[c].cost = call[c].cost
            /\ \/ /\ call[c].pc = "decide" /\ call[c].found
                  /\ call'[c].pc = "committed"
               \/ /\ call[c].pc = "decide" /\ ~call[c].found
                  /\ call'[c].pc = "refused"
               \/ call[c].pc = "committed" /\ call'[c].pc = "done"
        BY <1>0, <3>4, RecordSteps DEF ReplyExisting, RefuseShort, Acknowledge
      <4> QED
        BY <2>1, <2>2, <4>1 DEF CallInv, Remembers
    <3>5. CASE Rollback(c) \/ LoseAck(c)
      <4>1. call[c].pc \in {"lookup", "read", "decide", "committed"}
        BY <3>5 DEF Rollback, LoseAck
      <4>2. call'[c].pc \in {"lookup", "failed"}
        BY <1>0, <3>5, RecordSteps DEF Rollback, LoseAck
      <4> QED
        BY <2>1, <2>2, <4>1, <4>2 DEF CallInv, Remembers
    <3> QED
      BY <1>6, <3>1, <3>2, <3>3, <3>4, <3>5
  <2> QED
    BY <2>1, <2>3, <2>4, CallStep
<1>7. CASE UNCHANGED vars
  BY <1>7 DEF vars, CallInv, RowsNameTheirJob, CallChargesOnce, Remembers,
              Written, RowsOf
<1> QED
  BY <1>1, <1>2, <1>3, <1>4, <1>5, <1>6, <1>7 DEF Next, Commit

\* Requests, in every behaviour.
LEMMA CallInvariant == Spec => []CallInv
<1>1. Init => CallInv
  BY CallInit
<1>2. CallInv /\ MoneyInv' /\ [Next]_vars => CallInv'
  BY CallNext
<1> QED
  BY <1>1, <1>2, MoneyInvariant, PTL DEF Spec

(* However often the transaction of a request is run again, it leaves at   *)
(* most one row.                                                           *)
THEOREM OneRowPerRequest == Spec => []CallChargesOnce
<1>1. CallInv => CallChargesOnce
  BY DEF CallInv
<1> QED
  BY <1>1, CallInvariant, PTL

(* An answer tells the truth about the ledger: a charge it reports is      *)
(* there at that price, and a refusal has charged nothing.                 *)
THEOREM AnswersAreTrue == Spec => []AnswerMatchesLedger
<1>1. CallInv => AnswerMatchesLedger
  BY DEF CallInv, Remembers, Written, AnswerMatchesLedger
<1> QED
  BY <1>1, CallInvariant, PTL

-----------------------------------------------------------------------------
(* Receipts.                                                               *)

(* A grant's row names a receipt of this account that has its Payment row. *)
GrantsArePaid ==
    \A u \in Users : \A i \in DOMAIN ledger[u] :
        ledger[u][i].reason = "GRANT" =>
            /\ ledger[u][i].ref \in payments
            /\ ReceiptUser[ledger[u][i].ref] = u

ReceiptInv == TypeOK /\ GrantsArePaid /\ ReceiptPaysOnce

(* Appending a row that is not a grant, or the first grant of a receipt.   *)
LEMMA AppendGrant ==
    ASSUME ReceiptInv, TypeOK', NEW u \in Users, NEW e \in Entry,
           ledger' = [ledger EXCEPT ![u] = Append(ledger[u], e)],
           payments \subseteq payments',
           e.reason = "GRANT" => /\ e.ref \in payments' \ payments
                                 /\ ReceiptUser[e.ref] = u
    PROVE  ReceiptInv'
<1> DEFINE n == Len(ledger[u])
<1>1. /\ n \in Nat /\ DOMAIN ledger[u] = 1 .. n
      /\ DOMAIN ledger'[u] = 1 .. (n + 1)
      /\ \A i \in 1 .. n : ledger'[u][i] = ledger[u][i]
      /\ ledger'[u][n + 1] = e
  <2>1. ledger[u] \in Seq(Entry) /\ ledger'[u] = Append(ledger[u], e)
    BY DEF ReceiptInv, TypeOK
  <2> QED
    BY <2>1
<1>2. \A v \in Users : v # u => ledger'[v] = ledger[v]
  BY DEF ReceiptInv, TypeOK
<1>3. ASSUME NEW v \in Users, NEW i \in DOMAIN ledger'[v],
             ledger'[v][i].reason = "GRANT"
      PROVE  /\ ledger'[v][i].ref \in payments'
             /\ ReceiptUser[ledger'[v][i].ref] = v
             /\ ~(v = u /\ i = n + 1) => ledger'[v][i].ref \in payments
             /\ v = u /\ i = n + 1 => ledger'[v][i].ref \notin payments
  <2>1. CASE v = u /\ i = n + 1
    BY <1>1, <1>3, <2>1
  <2>2. CASE ~(v = u /\ i = n + 1)
    <3>1. i \in DOMAIN ledger[v] /\ ledger'[v][i] = ledger[v][i]
      BY <1>1, <1>2, <2>2
    <3> QED
      BY <1>3, <2>2, <3>1 DEF ReceiptInv, GrantsArePaid
  <2> QED
    BY <2>1, <2>2
<1>4. ASSUME NEW v \in Users,
             NEW i \in DOMAIN ledger'[v], ledger'[v][i].reason = "GRANT",
             NEW j \in DOMAIN ledger'[v], ledger'[v][j].reason = "GRANT",
             ledger'[v][j].ref = ledger'[v][i].ref
      PROVE  j = i
  <2>1. CASE v # u \/ (i # n + 1 /\ j # n + 1)
    <3>1. /\ i \in DOMAIN ledger[v] /\ ledger'[v][i] = ledger[v][i]
          /\ j \in DOMAIN ledger[v] /\ ledger'[v][j] = ledger[v][j]
      BY <1>1, <1>2, <2>1
    <3> QED
      BY <1>4, <3>1 DEF ReceiptInv, ReceiptPaysOnce
  <2>2. CASE v = u /\ (i = n + 1 \/ j = n + 1)
    BY <1>3, <1>4, <2>2
  <2> QED
    BY <2>1, <2>2
<1> QED
  BY <1>3, <1>4 DEF ReceiptInv, GrantsArePaid, ReceiptPaysOnce

\* Receipts: one step per operation.
LEMMA ReceiptNext == ReceiptInv /\ TypeOK' /\ [Next]_vars => ReceiptInv'
<1> SUFFICES ASSUME ReceiptInv, TypeOK', [Next]_vars PROVE ReceiptInv'
  OBVIOUS
<1>0. TypeOK
  BY DEF ReceiptInv
<1> USE ConstantTypes
<1>1. ASSUME NEW u \in Users, CreateUser(u) PROVE ReceiptInv'
  <2> DEFINE e == [delta |-> SignupBonus, balance |-> SignupBonus,
                   reason |-> "SIGNUP_BONUS", ref |-> None, by |-> None]
  <2>1. e \in Entry /\ e.reason # "GRANT"
    BY DEF Entry, Reasons
  <2>2. /\ ledger' = [ledger EXCEPT ![u] = Append(ledger[u], e)]
        /\ payments' = payments
    BY <1>1 DEF CreateUser, WriteEntry
  <2> HIDE DEF e
  <2> QED
    BY <2>1, <2>2, AppendGrant
<1>2. ASSUME NEW u \in Users, RemoveUser(u) PROVE ReceiptInv'
  <2>1. /\ ledger'[u] = << >>
        /\ \A v \in Users : v # u => ledger'[v] = ledger[v]
        /\ payments' = {r \in payments : ReceiptUser[r] # u}
    BY <1>0, <1>2 DEF RemoveUser, TypeOK
  <2>2. DOMAIN ledger'[u] = {}
    BY <2>1
  <2>3. GrantsArePaid'
    BY <2>1, <2>2 DEF ReceiptInv, GrantsArePaid
  <2>4. ReceiptPaysOnce'
    <3> SUFFICES ASSUME NEW v \in Users, NEW i \in DOMAIN ledger'[v],
                        ledger'[v][i].reason = "GRANT"
                 PROVE  /\ ledger'[v][i].ref \in payments'
                        /\ \A j \in DOMAIN ledger'[v] :
                              /\ ledger'[v][j].reason = "GRANT"
                              /\ ledger'[v][j].ref = ledger'[v][i].ref
                              => j = i
      BY DEF ReceiptPaysOnce
    <3>1. v # u /\ ledger'[v] = ledger[v]
      BY <2>1, <2>2
    <3> QED
      BY <2>3, <3>1 DEF ReceiptInv, ReceiptPaysOnce, GrantsArePaid
  <2> QED
    BY <2>3, <2>4 DEF ReceiptInv
<1>3. ASSUME NEW r \in Receipts, GrantReceipt(r) PROVE ReceiptInv'
  <2> DEFINE u == ReceiptUser[r]
             e == [delta |-> ReceiptCredits[r],
                   balance |-> credits[u] + ReceiptCredits[r],
                   reason |-> "GRANT", ref |-> r, by |-> None]
  <2>1. credits[u] + ReceiptCredits[r] \in Int
    BY <1>0 DEF TypeOK
  <2>2. e \in Entry /\ e.ref = r
    BY <2>1 DEF Entry, Reasons
  <2>3. /\ ledger' = [ledger EXCEPT ![u] = Append(ledger[u], e)]
        /\ r \notin payments /\ payments' = payments \cup {r}
    BY <1>3 DEF GrantReceipt, MoveCredits, WriteEntry
  <2> HIDE DEF e
  <2> QED
    BY <2>2, <2>3, AppendGrant
<1>4. ASSUME NEW c \in Calls, WriteMarker(c) \/ Charge(c)
      PROVE  ReceiptInv'
  <2> DEFINE u == CallUser[c]
  <2>1. CASE UNCHANGED ledger
    BY <1>4, <2>1 DEF WriteMarker, Charge, ReceiptInv, GrantsArePaid,
                      ReceiptPaysOnce
  <2>2. CASE ~UNCHANGED ledger
    <3>1. PICK delta \in Int, balance \in Int :
             WriteEntry(u, delta, balance, "DUB_SPEND", CallJob[c], c)
      <4>1. /\ credits[u] \in Int /\ call[c].cost \in Int
            /\ call[c].seen \in Int
        BY <1>0 DEF TypeOK, CallState
      <4>2. -call[c].cost \in Int /\ credits[u] + (-call[c].cost) \in Int
        BY <4>1
      <4> QED
        BY <1>4, <2>2, <4>1, <4>2 DEF WriteMarker, Charge, MoveCredits
    <3> DEFINE e == [delta |-> delta, balance |-> balance,
                     reason |-> "DUB_SPEND", ref |-> CallJob[c], by |-> c]
    <3>2. e \in Entry /\ e.reason # "GRANT"
      BY DEF Entry, Reasons
    <3>3. /\ ledger' = [ledger EXCEPT ![u] = Append(ledger[u], e)]
          /\ payments' = payments
      BY <1>4, <3>1 DEF WriteEntry, WriteMarker, Charge
    <3> HIDE DEF e
    <3> QED
      BY <3>2, <3>3, AppendGrant
  <2> QED
    BY <2>1, <2>2
<1>5. ASSUME UNCHANGED <<ledger, payments>> PROVE ReceiptInv'
  BY <1>5 DEF ReceiptInv, GrantsArePaid, ReceiptPaysOnce
<1> QED
  BY <1>1, <1>2, <1>3, <1>4, <1>5
     DEF Next, Commit, vars, BeginCommit, FindExisting, FindUser,
         ReplyExisting, RefuseShort, Rollback, LoseAck, Acknowledge

(* A receipt pays out at most once, and never without its Payment row,     *)
(* whatever order the claims, webhooks and sweeps that see it run in.      *)
THEOREM OneGrantPerReceipt == Spec => []ReceiptPaysOnce
<1>1. Init => ReceiptInv
  <2> SUFFICES ASSUME Init PROVE ReceiptInv
    OBVIOUS
  <2>1. TypeOK
    BY MoneyInit DEF MoneyInv
  <2>2. ASSUME NEW u \in Users PROVE DOMAIN ledger[u] = {}
    <3>1. ledger[u] = << >>
      BY DEF Init
    <3> QED
      BY <3>1
  <2> QED
    BY <2>1, <2>2 DEF ReceiptInv, GrantsArePaid, ReceiptPaysOnce
<1>2. ReceiptInv /\ TypeOK' /\ [Next]_vars => ReceiptInv'
  BY ReceiptNext
<1>3. ReceiptInv => ReceiptPaysOnce
  BY DEF ReceiptInv
<1> QED
  BY <1>1, <1>2, <1>3, TypeCorrect, PTL DEF Spec

(* Neither a request nor a receipt moves credits twice, whatever is        *)
(* retried, and by whomever.                                               *)
THEOREM NothingTwice == Spec => []PaidOnce
<1> QED
  BY OneRowPerRequest, OneGrantPerReceipt, PTL DEF PaidOnce

-----------------------------------------------------------------------------
(* History.                                                                *)

LEMMA AppendKeepsRows ==
    ASSUME NEW s \in Seq(Entry), NEW e \in Entry
    PROVE  /\ Len(Append(s, e)) = Len(s) + 1
           /\ SubSeq(Append(s, e), 1, Len(s)) = s
OBVIOUS

\* All of a ledger is a prefix of it.
LEMMA SameKeepsRows ==
    ASSUME NEW s \in Seq(Entry)
    PROVE  SubSeq(s, 1, Len(s)) = s
OBVIOUS

(* The ledger is append-only: short of deleting the account, no step       *)
(* rewrites or drops a row.                                                *)
THEOREM HistoryIsKept == Spec => LedgerAppendOnly
<1> DEFINE Kept(u) ==
        \/ account'[u] = "deleted"
        \/ /\ Len(ledger'[u]) \in {Len(ledger[u]), Len(ledger[u]) + 1}
           /\ SubSeq(ledger'[u], 1, Len(ledger[u])) = ledger[u]
<1>1. TypeOK /\ TypeOK' /\ [Next]_vars => [\A u \in Users : Kept(u)]_vars
  <2> SUFFICES ASSUME TypeOK, TypeOK', Next, NEW u \in Users
               PROVE  Kept(u)
    OBVIOUS
  <2>0. ledger[u] \in Seq(Entry) /\ ledger'[u] \in Seq(Entry)
    BY DEF TypeOK
  <2>1. ASSUME ledger'[u] = ledger[u] PROVE Kept(u)
    BY <2>0, <2>1, SameKeepsRows
  <2>2. ASSUME NEW v \in Users, NEW delta \in Int, NEW balance \in Int,
               NEW reason \in Reasons, NEW ref \in Refs,
               NEW by \in Calls \cup {None},
               WriteEntry(v, delta, balance, reason, ref, by)
        PROVE  Kept(u)
    <3> DEFINE e == [delta |-> delta, balance |-> balance,
                     reason |-> reason, ref |-> ref, by |-> by]
    <3>1. e \in Entry
      BY DEF Entry
    <3>2. ledger' = [ledger EXCEPT ![v] = Append(ledger[v], e)]
      BY <2>2 DEF WriteEntry
    <3> HIDE DEF e
    <3>3. CASE v = u
      <4>1. ledger'[u] = Append(ledger[u], e)
        BY <3>2, <3>3 DEF TypeOK
      <4> QED
        BY <2>0, <3>1, <4>1, AppendKeepsRows
    <3>4. CASE v # u
      <4>1. ledger'[u] = ledger[u]
        BY <3>2, <3>4 DEF TypeOK
      <4> QED
        BY <2>1, <4>1
    <3> QED
      BY <3>3, <3>4
  <2> USE ConstantTypes
  <2>3. ASSUME NEW v \in Users, CreateUser(v) PROVE Kept(u)
    BY <2>2, <2>3 DEF CreateUser, Reasons
  <2>4. ASSUME NEW v \in Users, RemoveUser(v) PROVE Kept(u)
    <3>1. CASE v = u
      <4>1. account'[u] = "deleted"
        BY <2>4, <3>1 DEF RemoveUser, TypeOK
      <4> QED
        BY <4>1
    <3>2. CASE v # u
      <4>1. ledger'[u] = ledger[u]
        BY <2>4, <3>2 DEF RemoveUser, TypeOK
      <4> QED
        BY <2>1, <4>1
    <3> QED
      BY <3>1, <3>2
  <2>5. ASSUME NEW r \in Receipts, GrantReceipt(r) PROVE Kept(u)
    <3>1. credits[ReceiptUser[r]] + ReceiptCredits[r] \in Int
      BY DEF TypeOK
    <3> QED
      BY <2>2, <2>5, <3>1 DEF GrantReceipt, MoveCredits, Reasons
  <2>6. ASSUME NEW c \in Calls, WriteMarker(c) PROVE Kept(u)
    <3>1. call[c].seen \in Int
      BY DEF TypeOK, CallState
    <3>2. CASE UNCHANGED ledger
      BY <2>1, <3>2
    <3>3. CASE ~UNCHANGED ledger
      BY <2>2, <2>6, <3>1, <3>3 DEF WriteMarker, Reasons
    <3> QED
      BY <3>2, <3>3
  <2>7. ASSUME NEW c \in Calls, Charge(c) PROVE Kept(u)
    <3>1. credits[CallUser[c]] \in Int /\ call[c].cost \in Int
      BY DEF TypeOK, CallState
    <3>2. /\ -call[c].cost \in Int
          /\ credits[CallUser[c]] + (-call[c].cost) \in Int
      BY <3>1
    <3> QED
      BY <2>2, <2>7, <3>2 DEF Charge, MoveCredits, Reasons
  <2>8. CASE UNCHANGED ledger
    BY <2>1, <2>8
  <2> QED
    BY <2>3, <2>4, <2>5, <2>6, <2>7, <2>8
       DEF Next, Commit, BeginCommit, FindExisting, FindUser, ReplyExisting,
           RefuseShort, Rollback, LoseAck, Acknowledge
<1> QED
  BY <1>1, TypeCorrect, PTL DEF Spec, LedgerAppendOnly
=============================================================================
