------------------------------- MODULE Payout -------------------------------
(* What claiming promises, whoever claims and whatever fails: an order is  *)
(* paid out at most once, only after its payment was confirmed, and never  *)
(* taken back.                                                             *)
CONSTANT Orders

VARIABLES confirmed, paid

Init == confirmed = {} /\ paid = {}

Confirm(o) ==
    /\ o \notin confirmed
    /\ confirmed' = confirmed \cup {o}
    /\ UNCHANGED paid

Pay(o) ==
    /\ o \in confirmed \ paid
    /\ paid' = paid \cup {o}
    /\ UNCHANGED confirmed

Next == \E o \in Orders : Confirm(o) \/ Pay(o)

Spec == Init /\ [][Next]_<<confirmed, paid>>
=============================================================================
