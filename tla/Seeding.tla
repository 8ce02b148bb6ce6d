------------------------------ MODULE Seeding ------------------------------
(* The seed: a script, run at every deploy, that creates the superadmin, the *)
(* plans, the packs and the languages and fills what is empty, row by row and *)
(* without a transaction, while the panel is in use.                         *)
EXTENDS Naturals, Sequences

CONSTANTS None,
          Kind,        \* the table of each row: "account", "plan", "pack" or "language"
          Queue,       \* the rows, in the order of the script
          MaxRuns, MaxEdits   \* bounds

Rows == DOMAIN Kind
VARIABLES row,     \* the tables; None where a row is missing
          asked,   \* SEED_ADMIN_PASSWORD is set
          at,      \* the place in Queue the script is at; 0 when it is not running
          seen,    \* the row as the script read it; None before
          word,    \* history: what the panel said of a column and stands by
          runs, edits
vars == <<row, asked, at, seen, word, runs, edits>>

\* The terms are all a row holds besides: prices and credits, names, the password.
Columns == {"link", "variant", "terms", "active"}
Seed(r) == [link |-> None, variant |-> None, terms |-> "seed", active |-> TRUE]
Linked(r) == Kind[r] \in {"plan", "pack"}
Silent == [c \in Columns |-> None]
Init == /\ row = [r \in Rows |-> None] /\ asked \in BOOLEAN /\ at = 0 /\ seen = None
        /\ word = [r \in Rows |-> Silent] /\ runs = 0 /\ edits = 0

-----------------------------------------------------------------------------
(* The script. *)
Start == /\ at = 0 /\ runs < MaxRuns /\ at' = 1 /\ runs' = runs + 1 /\ UNCHANGED <<row, asked, seen, word, edits>>
Stop == at # 0 /\ at' = 0 /\ seen' = None /\ UNCHANGED <<row, asked, word, runs, edits>>
\* What each table's step leaves of a row it finds: a plan's terms are the script's, and it
\* is on sale; a pack is left alone; a language keeps its switch; a password is written
\* on request.
SeedPlan(old) == [old EXCEPT !.terms = "seed", !.active = TRUE]
\* Variant: a pack is written like a plan.
SeedPackAnew(old) == SeedPlan(old)
SeedCreditPack(old) == old
SeedLanguage(old) == [old EXCEPT !.terms = "seed"]
SeedAdmin(old) == IF asked THEN [old EXCEPT !.terms = "seed"] ELSE old
Seeded(r) ==
  IF row[r] = None THEN Seed(r)
  ELSE CASE Kind[r] = "plan" -> SeedPlan(row[r])
         [] Kind[r] = "pack" -> SeedCreditPack(row[r])
         [] Kind[r] = "language" -> SeedLanguage(row[r])
         [] OTHER -> SeedAdmin(row[r])
\* A row's word that the script is going to overwrite was never promised.
Unheard(r) == [word[r] EXCEPT !.terms = IF Kind[r] = "pack" \/ (Kind[r] = "account" /\ ~asked) THEN @ ELSE None,
                              !.active = IF Kind[r] = "plan" THEN None ELSE @]
Upsert ==
  /\ at # 0 /\ seen = None
  /\ LET r == Queue[at]
     IN /\ row' = [row EXCEPT ![r] = Seeded(r)]
        /\ word' = [word EXCEPT ![r] = Unheard(r)]
        /\ seen' = row'[r]
        /\ UNCHANGED <<asked, at, runs, edits>>
Taken(r, v) == v # None /\ \E s \in Rows \ {r} : Kind[s] = Kind[r] /\ row[s] # None /\ row[s].variant = v
\* Variant: the script does not stop after its last row.
FurtherAlways == at + 1
Further == IF at = Len(Queue) THEN 0 ELSE at + 1
\* Each column that was empty in what was read is filled, on its own; the index of one
\* table stops the script at a variant used twice, and a pack deleted meanwhile does.
FillEmpty ==
  /\ at # 0 /\ seen # None /\ seen' = None
  /\ LET r == Queue[at]
         variant == IF seen.variant = None THEN r ELSE row[r].variant
         fills == Linked(r) /\ (seen.link = None \/ seen.variant = None)
         stands == row[r] # None /\ (seen.variant = None => ~Taken(r, variant))
     IN \/ ~fills /\ at' = Further /\ UNCHANGED row
        \/ /\ fills /\ stands /\ at' = Further
           /\ row' = [row EXCEPT ![r].link = IF seen.link = None THEN "seed" ELSE @, ![r].variant = variant]
        \/ fills /\ ~stands /\ at' = 0 /\ UNCHANGED row
  /\ UNCHANGED <<asked, word, runs, edits>>

-----------------------------------------------------------------------------
(* The panel.  An empty link or variant is a blank to the script, and what is set between
   its read and its write may be lost: of neither is anything promised. *)
Values(r, c) == CASE c = "link" -> {None, "own"} [] c = "variant" -> {None} \cup {s \in Rows : Linked(s)}
                  [] c = "terms" -> {"own"} [] c = "active" -> BOOLEAN
Edits(r) == CASE Linked(r) -> Columns [] Kind[r] = "language" -> {"terms", "active"} [] OTHER -> {"terms"}
Reading(r) == at # 0 /\ Queue[at] = r /\ seen # None
Heard(r, c, v) == IF c \in {"link", "variant"} /\ (v = None \/ Reading(r)) THEN None ELSE v
VariantFree(r, v) == v = None \/ \A s \in Rows \ {r} : row[s] # None => row[s].variant # v
Edit(r, c, v) ==
  /\ row[r] # None /\ edits < MaxEdits /\ c \in Edits(r) /\ (c = "variant" => VariantFree(r, v))
  /\ row' = [row EXCEPT ![r][c] = v] /\ word' = [word EXCEPT ![r][c] = Heard(r, c, v)]
  /\ edits' = edits + 1 /\ UNCHANGED <<asked, at, seen, runs>>
DeletePack(r) ==
  /\ row[r] # None /\ edits < MaxEdits /\ Kind[r] = "pack"
  /\ row' = [row EXCEPT ![r] = None] /\ word' = [word EXCEPT ![r] = Silent]
  /\ edits' = edits + 1 /\ UNCHANGED <<asked, at, seen, runs>>

Next == \/ Start \/ Stop \/ Upsert \/ FillEmpty
        \/ \E r \in Rows : DeletePack(r) \/ \E c \in Columns : \E v \in Values(r, c) : Edit(r, c, v)
Spec == Init /\ [][Next]_vars

-----------------------------------------------------------------------------
Row == [link : {None, "seed", "own"}, variant : Rows \cup {None}, terms : {"seed", "own"}, active : BOOLEAN]
TypeOK ==
  /\ \A r \in Rows : row[r] # None => row[r] \in Row
  /\ asked \in BOOLEAN /\ at \in 0 .. Len(Queue) /\ (seen # None => at # 0 /\ seen \in Row)

\* The script may be run again at any time, and be stopped anywhere: a price, a switch, a
\* password, a link or a variant that was set in the panel stays, but for those it is
\* meant to write (seed.ts:134-141, 184-190, 278-280).
PanelKept == \A r \in Rows, c \in Columns : row[r] # None /\ word[r][c] # None => row[r][c] = word[r][c]

\* Not run, and false: the link and the variant are filled one by one, so that the link of
\* one product stands with the variant of another ("travel together", seed.ts:18-20).
TravelTogether ==
  \A r \in Rows : row[r] # None /\ row[r].link # None /\ row[r].variant # None =>
    (row[r].link = "seed") = (row[r].variant = r)
\* Not run, and false: a plan is given a variant that a pack was given meanwhile, which
\* the panel would refuse (admin-billing.service.ts:100-132).
VariantsApart ==
  \A r, s \in Rows :
    r # s /\ row[r] # None /\ row[s] # None /\ row[r].variant # None => row[r].variant # row[s].variant
\* Violated.  "once an admin sets a value in the panel, the panel wins" (seed.ts:30-31): the
\* usual way to take a plan off sale is to clear its link (admin-billing.service.ts:66-67),
\* and the next deploy fills it in again and turns the plan on.
PanelWins == [][\A r \in Rows : row[r] # None /\ ~row[r].active /\ row'[r] # None /\ row'[r].active => at' = at /\ at = 0]_vars
=============================================================================
