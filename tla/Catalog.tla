------------------------------ MODULE Catalog ------------------------------
(* The catalog of the billing panel: plans and credit packs, the variant of *)
(* the store each is sold as, and what a paid order is found to have        *)
(* bought.  Each table refuses a variant twice; two tables are checked.     *)
EXTENDS Naturals, FiniteSets

CONSTANTS None,
          Plans, Packs,   \* rows of the two tables
          Variants, Admins, Orders,
          MaxEdits        \* bound

Rows == Plans \cup Packs
VARIABLES sold,     \* the variant each row is sold as
          link,     \* rows with a checkout link
          made,     \* rows that exist, or have existed
          gone,     \* packs that are deleted
          edit,     \* what each admin is saving: a row, its variant, whether the row is new, whether
                    \* another row got the variant since the check
          order,    \* what each order was opened for, the variant paid, what was credited
          raced,    \* history: the variants two admins gave to two rows at once
          edits
vars == <<sold, link, made, gone, edit, order, raced, edits>>

Init == /\ sold = [r \in Rows |-> None] /\ link = {} /\ gone = {}
        /\ made \in {Plans \cup some : some \in SUBSET Packs}
        /\ edit = [a \in Admins |-> None] /\ order = [o \in Orders |-> None]
        /\ raced = {} /\ edits = 0

-----------------------------------------------------------------------------
Live == made \ gone
Table(r) == IF r \in Plans THEN Plans ELSE Packs
Of(v) == {r \in Live : sold[r] = v}
\* One variant sells one thing: looked for in both tables.
\* Variant: only in the row's own.
FreeHere(v, row) == Of(v) \cap Table(row) \subseteq {row}
Free(v, row) == v = None \/ Of(v) \subseteq {row}
AssertVariantFree(a, row, v) ==
  /\ edit[a] = None /\ row \notin gone /\ edits < MaxEdits /\ Free(v, row)
  /\ edit' = [edit EXCEPT ![a] = [row |-> row, variant |-> v, new |-> row \notin made, late |-> FALSE]]
  /\ edits' = edits + 1 /\ UNCHANGED <<sold, link, made, gone, order, raced>>
\* The unique index of the row's table refuses what the check let through; a slug is taken
\* once, and a row that was deleted meanwhile cannot be saved.
Unique(row, v) == v = None \/ Of(v) \cap Table(row) \subseteq {row}
Stands(e) == IF e.new THEN e.row \notin made ELSE e.row \in Live
\* Another admin's check of the variant is late: it was made before this save.
Overtaken(a) ==
  [b \in Admins |-> IF b = a THEN None
                    ELSE IF edit[b] # None /\ edit[b].variant = edit[a].variant /\ edit[b].row # edit[a].row
                         THEN [edit[b] EXCEPT !.late = TRUE] ELSE edit[b]]
Save(a) ==
  /\ edit[a] # None
  /\ \/ /\ Stands(edit[a]) /\ Unique(edit[a].row, edit[a].variant)
        /\ edit' = Overtaken(a)
        /\ raced' = IF edit[a].late /\ Of(edit[a].variant) \ {edit[a].row} # {}
                    THEN raced \cup {edit[a].variant} ELSE raced
        /\ made' = made \cup {edit[a].row}
        /\ sold' = [sold EXCEPT ![edit[a].row] = edit[a].variant]
        /\ \E linked \in BOOLEAN : link' = IF linked THEN link \cup {edit[a].row} ELSE link \ {edit[a].row}
     \/ /\ ~Stands(edit[a]) \/ ~Unique(edit[a].row, edit[a].variant)
        /\ edit' = [edit EXCEPT ![a] = None] /\ UNCHANGED <<sold, link, made, raced>>
  /\ UNCHANGED <<gone, order, edits>>
DeleteCreditPack(row) ==
  /\ row \in Packs \cap Live /\ gone' = gone \cup {row}
  /\ UNCHANGED <<sold, link, made, edit, order, raced, edits>>

-----------------------------------------------------------------------------
\* A checkout opens on the link of a row, and the store sells what the link is for: the
\* variant the panel knew then, given that both were copied from one product.
Sellable(row) == row \in Live /\ row \in link /\ sold[row] # None
Checkout(o, row) ==
  /\ order[o] = None /\ Sellable(row)
  /\ order' = [order EXCEPT ![o] = [row |-> row, variant |-> sold[row], got |-> None, moved |-> FALSE]]
  /\ UNCHANGED <<sold, link, made, gone, edit, raced, edits>>
\* What carries the variant now; of both tables, a plan.
Resolve(v) == IF Of(v) \cap Plans # {} THEN Of(v) \cap Plans ELSE Of(v)
Claim(o) ==
  /\ order[o] # None /\ order[o].got = None /\ Resolve(order[o].variant) # {}
  /\ \E row \in Resolve(order[o].variant) :
       order' = [order EXCEPT ![o].got = row, ![o].moved = sold[order[o].row] # order[o].variant]
  /\ UNCHANGED <<sold, link, made, gone, edit, raced, edits>>

Next ==
  \/ \E a \in Admins : Save(a) \/ \E r \in Rows, v \in Variants \cup {None} : AssertVariantFree(a, r, v)
  \/ \E r \in Rows : DeleteCreditPack(r) \/ \E o \in Orders : Checkout(o, r)
  \/ \E o \in Orders : Claim(o)
Spec == Init /\ [][Next]_vars

-----------------------------------------------------------------------------
TypeOK ==
  /\ sold \in [Rows -> Variants \cup {None}] /\ link \subseteq made /\ made \subseteq Rows /\ gone \subseteq Packs \cap made
  /\ edit \in [Admins -> [row : Rows, variant : Variants \cup {None}, new : BOOLEAN, late : BOOLEAN] \cup {None}]
  /\ order \in [Orders -> [row : Rows, variant : Variants, got : Rows \cup {None}, moved : BOOLEAN] \cup {None}]
  /\ raced \subseteq Variants \cup {None} /\ edits \in 0 .. MaxEdits

\* An order is credited with what its buyer was sold, unless an admin has since moved the
\* variant to another row or deleted the pack, or two admins gave it to two rows at once,
\* each checked before the other was saved (admin-billing.service.ts:104-105, 359-361).
CreditsWhatWasSold ==
  \A o \in Orders : order[o] # None /\ order[o].got \notin {None, order[o].row} =>
    order[o].moved \/ order[o].row \in gone \/ order[o].variant \in raced
\* "One variant sells exactly one thing", across both tables, and a "backstop for the
\* same clash racing past" the check (admin-billing.service.ts:100-107, 134).
OneVariantOneThing == \A v \in Variants : Cardinality(Of(v)) <= 1
=============================================================================
