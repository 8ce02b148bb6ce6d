--------------------------- MODULE MCCreditLedger ---------------------------
(* A small instance of CreditLedger: one account, one receipt, and three   *)
(* requests that race on it.                                               *)
EXTENDS CreditLedger, TLC

CONSTANTS u1, c1, c2, c3, order1, jobA, jobB

MCUsers    == {u1}
MCCalls    == {c1, c2, c3}
MCReceipts == {order1}

MCReceiptUser    == order1 :> u1
MCReceiptCredits == order1 :> 2

(* Two requests for one job and one of length zero.  The bonus pays for    *)
(* the job once, the receipt once more: the guarded decrement succeeds and *)
(* fails, and two requests that read the same balance may spend it twice.  *)
MCCallUser == [c \in MCCalls |-> u1]
MCCallJob  == (c1 :> jobA) @@ (c2 :> jobA) @@ (c3 :> jobB)
MCCallCost == (c1 :> 2) @@ (c2 :> 2) @@ (c3 :> 0)
=============================================================================
