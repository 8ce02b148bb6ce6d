----------------------------- MODULE DeskProofs ------------------------------
(* What holds of the components of MCDesk for all values of their constants: what a
   customer is shown is what is checked out, credited, sent and told; the catalog's script
   keeps what the panel decided; the audit log names the account acted on; a delivery lasts,
   a repair only improves, no loop of the recogniser is left and every piece it is given is
   one it can take.  Each component has an inductive invariant of its own, and HarnessSpec
   has the specification of each, with the others' variables left alone. *)
EXTENDS MCDesk, FiniteSetTheorems, WellFoundedInduction, TLAPS
-----------------------------------------------------------------------------
\* A set of naturals has a least element.
LEMMA LeastOf ==
  ASSUME NEW T \in SUBSET Nat, T # {}
  PROVE  \E x \in T : \A y \in T : x <= y
<1>1. IsWellFoundedOn(OpToRel(<, Nat), Nat)
  BY NatLessThanWellFounded
<1>2. \E x \in T : \A y \in T : ~ (<<y, x>> \in OpToRel(<, Nat))
  BY <1>1, WFMin
<1>3. \A x, y \in Nat : <<y, x>> \notin OpToRel(<, Nat) => x <= y
  BY DEF OpToRel
<1> QED BY <1>2, <1>3
-----------------------------------------------------------------------------
(* The gates (PlanGates): what was refused since the plan was lost is part of the plan,
   or, while a refusal stands, of the plan it names. *)
AllWants == {"studio", "language", "voice", "reference", "background", "lipsync", "subtitles",
             "speechEditor", "videoEditor"}
PaidTiers == {"PRO", "STUDIO"}
GatesInv ==
  /\ tier \in PaidTiers \cup {"FREE"} /\ wants \subseteq AllWants /\ refused \subseteq AllWants
  /\ gatesStep \in {"ask", "refused", "allowed", "charged", "unpaid"} /\ changes \in 0 .. PlanChanges
  /\ gatesStep = "ask" => refused \subseteq Gates!Features(tier)
  /\ gatesStep = "refused" =>
       /\ refusal.required \in PaidTiers /\ Gates!Rank(refusal.required) > Gates!Rank(tier)
       /\ refused \subseteq Gates!Features(refusal.required)

\* The tables of the gates, spelled out: three tiers, seven options and the two editors.
LEMMA GateTables ==
  /\ Gates!Tiers = <<"FREE", "PRO", "STUDIO">> /\ DOMAIN Gates!Tiers = {1, 2, 3}
  /\ DOMAIN Gates!Options = 1 .. 7
  /\ {Gates!Options[n] : n \in DOMAIN Gates!Options} \cup Gates!Tools = AllWants
<1>1. DOMAIN Gates!Options = 1 .. 7 /\ 1 .. 7 = {1, 2, 3, 4, 5, 6, 7} BY DEF Gates!Options
<1>2. {Gates!Options[n] : n \in DOMAIN Gates!Options} \cup Gates!Tools = AllWants
  BY <1>1 DEF Gates!Options, Gates!Tools, AllWants
<1> QED BY <1>1, <1>2 DEF Gates!Tiers

\* A tier's rank is its place in the list.
LEMMA GateRanks == Gates!Rank("FREE") = 1 /\ Gates!Rank("PRO") = 2 /\ Gates!Rank("STUDIO") = 3
<1>1. ASSUME NEW n \in {1, 2, 3} PROVE Gates!Rank(Gates!Tiers[n]) = n
  BY GateTables DEF Gates!Rank
<1> QED BY <1>1, GateTables

\* What each tier has.
LEMMA GateFeatures ==
  /\ Gates!Features("FREE") = {} /\ Gates!Features("STUDIO") = AllWants
  /\ Gates!Features("PRO") = {"language", "voice", "reference", "background", "subtitles"}
  BY GateTables DEF Gates!Features, Gates!Pro

\* The lowest tier that has a feature: Pro, if Pro has it, and Studio otherwise.
LEMMA RequiredHas ==
  ASSUME NEW f \in AllWants
  PROVE  Gates!Required(f) = IF f \in Gates!Features("PRO") THEN "PRO" ELSE "STUDIO"
<1> DEFINE having == {n \in DOMAIN Gates!Tiers : f \in Gates!Features(Gates!Tiers[n])}
<1>1. having = IF f \in Gates!Features("PRO") THEN {2, 3} ELSE {3}
  BY GateTables, GateFeatures DEF AllWants
<1>2. ASSUME NEW T, T = {2, 3} \/ T = {3}
      PROVE  (CHOOSE n \in T : \A k \in T : n <= k) = IF T = {3} THEN 3 ELSE 2
  BY <1>2
<1> HIDE DEF having
<1>3. Gates!Required(f) = Gates!Tiers[CHOOSE n \in having : \A k \in having : n <= k]
  BY DEF Gates!Required, having
<1> QED BY <1>1, <1>2, <1>3, GateTables

\* The feature a refusal names is one that is missing.
LEMMA FirstMissingIsMissing ==
  ASSUME wants \subseteq AllWants, Gates!Missing # {}
  PROVE  Gates!FirstMissing \in Gates!Missing
<1>1. CASE Gates!Missing \subseteq Gates!Tools
  BY <1>1 DEF Gates!FirstMissing
<1>2. CASE ~ (Gates!Missing \subseteq Gates!Tools)
  <2> DEFINE of == {n \in 1 .. 7 : Gates!Options[n] \in Gates!Missing}
  <2>1. of # {} /\ of \in SUBSET Nat
    BY <1>2, GateTables DEF Gates!Missing
  <2>2. PICK n \in of : \A k \in of : n <= k
    BY <2>1, LeastOf
  <2>3. n \in DOMAIN Gates!Options /\ Gates!Options[n] \in Gates!Missing
        /\ \A k \in 1 .. n - 1 : Gates!Options[k] \notin Gates!Missing
    BY <2>2, GateTables
  <2> QED BY <1>2, <2>3 DEF Gates!FirstMissing
<1> QED BY <1>1, <1>2

\* Nothing was refused yet.
LEMMA GatesStart == Gates!Init => GatesInv
<1> SUFFICES ASSUME Gates!Init PROVE GatesInv OBVIOUS
<1>1. wants \subseteq AllWants BY GateTables DEF Gates!Init
<1> QED BY <1>1, GatesAssumption DEF Gates!Init, GatesInv, AllWants, PaidTiers

\* A refusal names a plan above the one held, which has what was refused, so later ones add up.
LEMMA GatesStep == GatesInv /\ [Gates!Next]_(Gates!vars) => GatesInv'
<1> SUFFICES ASSUME GatesInv, [Gates!Next]_(Gates!vars) PROVE GatesInv'
  OBVIOUS
<1> USE GatesAssumption
<1>1. CASE Gates!Gate
  <2>1. CASE Gates!Missing = {}
    BY <1>1, <2>1 DEF Gates!Gate, GatesInv
  <2>2. CASE Gates!Missing # {}
    <3> DEFINE f == Gates!FirstMissing
    <3>1. f \in AllWants /\ f \notin Gates!Features(tier)
      BY <2>2, FirstMissingIsMissing DEF GatesInv, Gates!Missing
    <3> HIDE DEF f
    <3>2. Gates!Required(f) = IF f \in Gates!Features("PRO") THEN "PRO" ELSE "STUDIO"
      BY <3>1, RequiredHas
    <3>3. refusal' = [feature |-> f, required |-> Gates!Required(f)] /\ refused' = refused \cup {f}
          /\ gatesStep = "ask" /\ gatesStep' = "refused" /\ UNCHANGED <<tier, wants, changes>>
      BY <1>1, <2>2 DEF Gates!Gate, f
    <3>4. refusal'.required = Gates!Required(f) BY <3>3
    <3>5. CASE tier = "FREE"
      BY <3>1, <3>2, <3>3, <3>4, <3>5, GateRanks, GateFeatures DEF GatesInv, PaidTiers
    <3>6. CASE tier = "PRO"
      <4>1. Gates!Required(f) = "STUDIO" BY <3>1, <3>2, <3>6
      <4> QED BY <3>1, <3>3, <3>4, <3>6, <4>1, GateRanks, GateFeatures DEF GatesInv, PaidTiers
    <3>7. CASE tier = "STUDIO"
      BY <3>1, <3>7, GateFeatures
    <3> QED BY <3>5, <3>6, <3>7 DEF GatesInv, PaidTiers
  <2> QED BY <2>1, <2>2
<1>2. CASE Gates!Upgrade
  BY <1>2 DEF Gates!Upgrade, GatesInv
<1>3. CASE Gates!Lapse
  BY <1>3, GateFeatures DEF Gates!Lapse, GatesInv
<1>4. CASE Gates!Commit
  BY <1>4 DEF Gates!Commit, GatesInv
<1>5. CASE UNCHANGED Gates!vars
  BY <1>5 DEF Gates!vars, GatesInv
<1> QED BY <1>1, <1>2, <1>3, <1>4, <1>5 DEF Gates!Next

\* The plan that every refusal offers helps.
LEMMA GatesInvariant == Gates!Spec => [](Gates!TypeOK /\ Gates!UpgradeHelps)
<1>1. GatesInv => Gates!TypeOK /\ Gates!UpgradeHelps
  BY GateTables DEF GatesInv, PaidTiers, Gates!TypeOK, Gates!UpgradeHelps
<1> QED BY <1>1, GatesStart, GatesStep, PTL DEF Gates!Spec

-----------------------------------------------------------------------------
(* The audit log (Audit): a label that was read is one its account has had since. *)
Calling == [kind : Log!Kinds \cup {None}, type : Log!Types \cup {None}, target : People \cup {None},
            at : {"idle", "lookup", "handle", "answered", "done"},
            before : Addresses \cup {None}, answer : Addresses \cup {None}, ok : BOOLEAN]
LogTyped ==
  /\ email \in [People -> Addresses \cup {None}] /\ req \in [Calls -> Calling]
  /\ held \in [Calls -> SUBSET Addresses] /\ rows \subseteq Log!Row /\ feed \subseteq rows
CallsTold ==
  \A r \in Calls : req[r].at \in {"lookup", "handle", "answered"} =>
    /\ req[r].kind \in Log!Kinds /\ req[r].type \in Log!Types /\ req[r].target \in People
    /\ req[r].at = "lookup" => req[r].answer = None
    /\ req[r].at # "lookup" /\ Log!HasTarget(req[r].kind) =>
         /\ req[r].type = "user" /\ req[r].before # None => req[r].before \in held[r]
         /\ req[r].answer # None => req[r].answer \in held[r]
LogInv == LogTyped /\ CallsTold /\ Log!RowsNameTheTarget

\* Nothing is logged before the first call.
LEMMA LogStart == Log!Init => LogInv
  BY LogAssumption DEF Log!Init, Log!Idle, LogInv, LogTyped, Calling, CallsTold, Log!RowsNameTheTarget

\* A handler answers: of its own account with the name the account now has, or of none.
LEMMA AnswerStep ==
  ASSUME LogInv, NEW r \in Calls, NEW answered, NEW done \in BOOLEAN, Log!Answers(r, answered, done),
         req[r].at = "handle", email' \in [People -> Addresses \cup {None}],
         \/ held' = held /\ answered = None
         \/ Log!Keep(req[r].target) /\ Log!HasTarget(req[r].kind),
         UNCHANGED <<rows, feed>>
  PROVE  LogInv'
<1> DEFINE t == req[r].target
<1> DEFINE new == [req[r] EXCEPT !.at = "answered", !.ok = done, !.answer = Log!LabelOf(answered, t)]
<1>1. req[r] \in Calling /\ req[r].kind \in Log!Kinds /\ req[r].type \in Log!Types /\ t \in People
  BY DEF LogInv, LogTyped, CallsTold
<1>2. Log!LabelOf(answered, t) \in Addresses \cup {None}
  BY <1>1 DEF Log!LabelOf
<1>3. new \in Calling /\ new.at = "answered" /\ new.kind = req[r].kind /\ new.target = t
      /\ new.type = req[r].type /\ new.before = req[r].before /\ new.answer = Log!LabelOf(answered, t)
  BY <1>1, <1>2 DEF Calling
<1>4. req' = [req EXCEPT ![r] = new]
  BY DEF Log!Answers, LogInv, LogTyped
<1> HIDE DEF new
<1>5. req' \in [Calls -> Calling] /\ req'[r] = new /\ \A q \in Calls \ {r} : req'[q] = req[q]
  BY <1>3, <1>4 DEF LogInv, LogTyped
<1>6. /\ held' \in [Calls -> SUBSET Addresses]
      /\ \A q \in Calls : held[q] \subseteq held'[q]
      /\ Log!HasTarget(req[r].kind) /\ Log!LabelOf(answered, t) # None => Log!LabelOf(answered, t) \in held'[r]
  <2>1. CASE held' = held /\ answered = None
    BY <1>1, <2>1, LogAssumption DEF LogInv, LogTyped, Log!LabelOf
  <2>2. CASE Log!Keep(t)
    BY <1>1, <2>2 DEF Log!Keep, LogInv, LogTyped, Log!LabelOf
  <2> QED BY <2>1, <2>2
<1> QED BY <1>1, <1>3, <1>5, <1>6 DEF LogInv, LogTyped, CallsTold, Log!RowsNameTheTarget

\* A row is written under the name the account had, whatever happens to the account meanwhile.
LEMMA LogStep == LogInv /\ [Log!Next]_(Log!vars) => LogInv'
<1> SUFFICES ASSUME LogInv, [Log!Next]_(Log!vars) PROVE LogInv'
  OBVIOUS
<1> USE LogAssumption
<1>1. ASSUME NEW r \in Calls, NEW k \in Log!Kinds, NEW y \in Log!Types, NEW t \in People, Log!Arrive(r, k, y, t)
      PROVE LogInv'
  <2> DEFINE new == [Log!Idle EXCEPT !.kind = k, !.type = y, !.target = t,
                                     !.at = IF Log!HasTarget(k) THEN "lookup" ELSE "handle"]
  <2>1. new \in Calling /\ new.kind = k /\ new.type = y /\ new.target = t /\ new.before = None /\ new.answer = None
        /\ new.at = IF Log!HasTarget(k) THEN "lookup" ELSE "handle"
    BY DEF Log!Idle, Calling
  <2>2. req' = [req EXCEPT ![r] = new] /\ UNCHANGED <<email, held, rows, feed>>
    BY <1>1 DEF Log!Arrive
  <2> HIDE DEF new
  <2> QED BY <2>1, <2>2 DEF LogInv, LogTyped, CallsTold, Log!RowsNameTheTarget
<1>2. ASSUME NEW r \in Calls, Log!Lookup(r) PROVE LogInv'
  <2>1. PICK label \in {Log!Labelled(r), None} : req' = [req EXCEPT ![r].at = "handle", ![r].before = label]
    BY <1>2 DEF Log!Lookup
  <2> DEFINE new == [req[r] EXCEPT !.at = "handle", !.before = label]
  <2>2. req[r] \in Calling /\ req[r].kind \in Log!Kinds /\ req[r].type \in Log!Types
        /\ req[r].target \in People /\ req[r].at = "lookup"
        /\ held' = [held EXCEPT ![r] = {email[req[r].target]} \ {None}] /\ UNCHANGED <<email, rows, feed>>
    BY <1>2 DEF Log!Lookup, LogInv, LogTyped, CallsTold
  <2>3. label \in Addresses \cup {None} /\ (req[r].type = "user" /\ label # None => label \in held'[r])
    BY <2>1, <2>2 DEF LogInv, LogTyped, Log!Labelled
  <2>4. new \in Calling /\ new.kind = req[r].kind /\ new.type = req[r].type /\ new.target = req[r].target /\ new.before = label
        /\ new.answer = req[r].answer /\ new.at = "handle"
    BY <2>2, <2>3 DEF Calling
  <2>5. req' = [req EXCEPT ![r] = new] BY <2>1 DEF LogInv, LogTyped
  <2> HIDE DEF new
  <2>6. req' \in [Calls -> Calling] /\ held' \in [Calls -> SUBSET Addresses] BY <2>2, <2>4, <2>5 DEF LogInv, LogTyped
  <2>7. CallsTold'
    <3> SUFFICES ASSUME NEW q \in Calls, req'[q].at \in {"lookup", "handle", "answered"}
                 PROVE  /\ req'[q].kind \in Log!Kinds /\ req'[q].type \in Log!Types /\ req'[q].target \in People
                        /\ req'[q].at = "lookup" => req'[q].answer = None
                        /\ req'[q].at # "lookup" /\ Log!HasTarget(req'[q].kind) =>
                             /\ req'[q].type = "user" /\ req'[q].before # None => req'[q].before \in held'[q]
                             /\ req'[q].answer # None => req'[q].answer \in held'[q]
      BY DEF CallsTold, Log!HasTarget
    <3>1. CASE q = r
      <4>1. req'[r] = new BY <2>5 DEF LogInv, LogTyped
      <4>2. new.answer = None
        BY <2>2, <2>4 DEF LogInv, CallsTold
      <4> QED BY <2>2, <2>3, <2>4, <3>1, <4>1, <4>2
    <3>2. CASE q # r
      BY <2>2, <2>5, <3>2 DEF LogInv, LogTyped, CallsTold
    <3> QED BY <3>1, <3>2
  <2> QED BY <2>2, <2>6, <2>7 DEF LogInv, LogTyped, Log!RowsNameTheTarget
<1>3. ASSUME NEW r \in Calls, NEW name \in Addresses, Log!Rename(r, name) PROVE LogInv'
  <2>1. req[r].at = "handle" /\ req[r].kind = "rename" /\ Log!Keep(req[r].target) /\ UNCHANGED <<rows, feed>>
        /\ email' = [email EXCEPT ![req[r].target] = name]
        /\ \E answered \in {req[r].target, Chief, None} : Log!Answers(r, answered, TRUE)
    BY <1>3 DEF Log!Rename
  <2>2. email' \in [People -> Addresses \cup {None}] BY <2>1 DEF LogInv, LogTyped
  <2> QED BY <2>1, <2>2, AnswerStep DEF Log!HasTarget
<1>4. ASSUME NEW r \in Calls, Log!Delete(r) PROVE LogInv'
  <2>1. req[r].at = "handle" /\ req[r].kind = "delete" /\ Log!Keep(req[r].target) /\ UNCHANGED <<rows, feed>>
        /\ email' = [email EXCEPT ![req[r].target] = None]
        /\ \E answered \in {Chief, None} : Log!Answers(r, answered, TRUE)
    BY <1>4 DEF Log!Delete
  <2>2. email' \in [People -> Addresses \cup {None}] BY <2>1 DEF LogInv, LogTyped
  <2> QED BY <2>1, <2>2, AnswerStep DEF Log!HasTarget
<1>5. ASSUME NEW r \in Calls, Log!SignIn(r) PROVE LogInv'
  BY <1>5, AnswerStep DEF Log!SignIn, LogInv, LogTyped
<1>6. ASSUME NEW r \in Calls, Log!Refuse(r) PROVE LogInv'
  BY <1>6, AnswerStep DEF Log!Refuse, LogInv, LogTyped
<1>7. ASSUME NEW r \in Calls, Log!WriteRow(r) PROVE LogInv'
  <2> DEFINE written == [by |-> r, kind |-> req[r].kind, type |-> req[r].type, ok |-> req[r].ok,
                         target |-> req[r].target, label |-> Log!Label(r), read |-> req[r].before # None,
                         said |-> req[r].answer # None, held |-> held[r]]
             new == [Log!Idle EXCEPT !.at = "done"]
  <2>1. req[r] \in Calling /\ req[r].kind \in Log!Kinds /\ req[r].type \in Log!Types
        /\ req[r].target \in People /\ req[r].at = "answered"
    BY <1>7 DEF Log!WriteRow, LogInv, LogTyped, CallsTold
  <2>2. Log!Label(r) \in Addresses \cup {None} BY <2>1 DEF Log!Label, Calling
  <2>3. written \in Log!Row BY <2>1, <2>2 DEF Log!Row, Calling, LogInv, LogTyped
  <2>4. Log!HasTarget(req[r].kind) =>
          /\ (req[r].type = "user" \/ req[r].answer # None) /\ Log!Label(r) # None => Log!Label(r) \in held[r]
          /\ req[r].before # None => Log!Label(r) # None
    BY <2>1 DEF Log!Label, LogInv, CallsTold
  <2>5. written.kind = req[r].kind /\ written.label = Log!Label(r) /\ written.held = held[r]
        /\ written.type = req[r].type /\ written.said = (req[r].answer # None)
        /\ written.read = (req[r].before # None)
    OBVIOUS
  <2>6. new \in Calling /\ new.at = "done" BY DEF Log!Idle, Calling
  <2>7. /\ (rows' = rows \cup {written} /\ feed' = feed \cup {written}) \/ UNCHANGED <<rows, feed>>
        /\ req' = [req EXCEPT ![r] = new] /\ held' = [held EXCEPT ![r] = {}] /\ UNCHANGED email
    BY <1>7 DEF Log!WriteRow
  <2> HIDE DEF written, new
  <2>8. LogTyped' BY <2>3, <2>6, <2>7 DEF LogInv, LogTyped
  <2>9. CallsTold' BY <2>6, <2>7 DEF LogInv, LogTyped, CallsTold
  <2>10. Log!RowsNameTheTarget' BY <2>4, <2>5, <2>7 DEF LogInv, Log!RowsNameTheTarget
  <2> QED BY <2>8, <2>9, <2>10 DEF LogInv
<1>8. CASE UNCHANGED Log!vars
  BY <1>8 DEF Log!vars, LogInv, LogTyped, CallsTold, Log!RowsNameTheTarget
<1> QED BY <1>1, <1>2, <1>3, <1>4, <1>5, <1>6, <1>7, <1>8 DEF Log!Next

\* The rows of the log name the account acted on.
LEMMA LogInvariant == Log!Spec => [](Log!TypeOK /\ Log!RowsNameTheTarget)
<1>1. LogInv => Log!TypeOK /\ Log!RowsNameTheTarget
  BY DEF LogInv, LogTyped, Calling, Log!TypeOK
<1> QED BY <1>1, LogStart, LogStep, PTL DEF Log!Spec
-----------------------------------------------------------------------------
(* The words of a dub (Wording): while lines are repaired none has been written by its
   user, and those suspected are those that were broken when repair began. *)
Repairing ==
  /\ wordsStep \in {"translate", "repair"} => edited = {}
  /\ wordsStep # "translate" => \A i \in suspects : translated[i] \in Words!Broken
  /\ wordsStep = "translate" => suspects = {}
  /\ wordsStep # "done" => voiced < Takes
WordsInv == Words!TypeOK /\ Repairing /\ Words!RepairOnlyImproves /\ Words!DeliveryKept

\* No line is translated yet.
LEMMA WordsStart == Words!Init => WordsInv
  BY WordingAssumption DEF Words!Init, Words!Blank, Words!All, WordsInv, Words!TypeOK, Repairing,
     Words!RepairOnlyImproves, Words!DeliveryKept, Words!Texts, Words!Broken

\* The module's own copy of Cardinality is the library's.
LEMMA WordsCardinality == \A S : Words!Cardinality(S) = Cardinality(S)
  BY DEF Words!Cardinality, Cardinality

\* A suspect's place in the order of repair is one of the places.
LEMMA OrderedWithin ==
  ASSUME suspects \subseteq Words!All, NEW i \in Words!All
  PROVE  Words!Order(i) \in 0 .. Segments
<1>1. IsFiniteSet(1 .. Segments) /\ Cardinality(1 .. Segments) = Segments
  BY FS_Interval, WordingAssumption
<1>2. {j \in suspects : j <= i} \subseteq 1 .. Segments
  BY DEF Words!All
<1> DEFINE before == {j \in suspects : j <= i}
<1>3. IsFiniteSet(before) /\ Cardinality(before) <= Segments /\ Cardinality(before) \in Nat
  BY <1>1, <1>2, FS_Subset, FS_CardinalityType
<1> HIDE DEF before
<1>4. Words!Order(i) = Cardinality(before) BY WordsCardinality DEF Words!Order, before
<1> QED BY <1>3, <1>4, WordingAssumption

\* The batches are through, and the suspects are taken up.
LEMMA RepairBegins ==
  ASSUME WordsInv, wordsStep = "translate", Words!ToRepair, wordsText' \in [Words!All -> Words!Texts],
         UNCHANGED <<revised, mood, wordsSaid, edited, voiced>>
  PROVE  WordsInv'
  BY WordingAssumption DEF WordsInv, Words!TypeOK, Repairing, Words!RepairOnlyImproves, Words!DeliveryKept,
     Words!ToRepair

\* A repair replaces a line by a better one or not at all, and a delivery is only added.
LEMMA WordsStep == WordsInv /\ [Words!Next]_(Words!vars) => WordsInv'
<1> SUFFICES ASSUME WordsInv, [Words!Next]_(Words!vars) PROVE WordsInv'
  OBVIOUS
<1> USE WordingAssumption
<1>1. CASE Words!Translate
  <2>1. PICK new \in [Words!Batch(PerCall) -> Words!Broken \cup {"fine"}] :
          wordsText' = [i \in Words!All |-> IF i \in Words!Batch(PerCall) THEN new[i] ELSE wordsText[i]]
    BY <1>1 DEF Words!Translate
  <2>2. wordsText' \in [Words!All -> Words!Texts]
    BY <2>1 DEF WordsInv, Words!TypeOK, Words!Texts
  <2>3. CASE wordsAt + PerCall < Segments
    <3>1. wordsStep = "translate" /\ wordsAt' = wordsAt + PerCall
          /\ UNCHANGED <<wordsStep, suspects, translated, revised, mood, wordsSaid, edited, voiced>>
      BY <1>1, <2>3 DEF Words!Translate
    <3> QED BY <2>2, <2>3, <3>1 DEF WordsInv, Words!TypeOK, Repairing, Words!RepairOnlyImproves, Words!DeliveryKept
  <2>4. CASE ~ (wordsAt + PerCall < Segments)
    BY <1>1, <2>2, <2>4, RepairBegins DEF Words!Translate
  <2> QED BY <2>3, <2>4
<1>2. CASE Words!TranslateFails
  <2>1. wordsText' \in [Words!All -> Words!Texts]
    BY <1>2 DEF Words!TranslateFails, Words!Texts, Words!Broken
  <2> QED BY <1>2, <2>1, RepairBegins DEF Words!TranslateFails
<1>3. CASE Words!Repair
  <2>1. wordsStep = "repair" /\ wordsStep' = "repair" /\ edited = {} /\ edited' = {}
        /\ UNCHANGED <<suspects, translated, mood, wordsSaid, voiced>>
    BY <1>3 DEF Words!Repair, WordsInv, Repairing
  <2>2. wordsAt' \in 0 .. Segments + PerRepair
    <3>1. PICK i \in suspects : Words!Order(i) > wordsAt
      BY <1>3 DEF Words!Repair, Words!Sent
    <3>2. Words!Order(i) \in 0 .. Segments
      BY OrderedWithin, <3>1 DEF WordsInv, Words!TypeOK
    <3> QED BY <1>3, <3>1, <3>2 DEF Words!Repair, WordsInv, Words!TypeOK
  <2>3. wordsText' \in [Words!All -> Words!Texts] /\ revised' \in Nat
        /\ \A i \in Words!All : wordsText'[i] = wordsText[i] \/ (i \in suspects /\ wordsText'[i] \notin Words!Broken)
    <3>1. CASE UNCHANGED <<wordsText, revised>>
      BY <3>1 DEF WordsInv, Words!TypeOK
    <3>2. ASSUME NEW ids \in SUBSET Words!All, NEW reply \in [ids -> Words!Broken \cup {"repaired"}],
                 wordsText' = [i \in Words!All |-> IF i \in Words!Taken(reply) THEN reply[i] ELSE wordsText[i]],
                 revised' = revised + Cardinality(Words!Taken(reply))
          PROVE  wordsText' \in [Words!All -> Words!Texts] /\ revised' \in Nat
                 /\ \A i \in Words!All : wordsText'[i] = wordsText[i]
                                          \/ (i \in suspects /\ wordsText'[i] \notin Words!Broken)
      <4>1. Words!Taken(reply) = {i \in ids : i \in suspects /\ reply[i] \notin Words!Broken}
        BY <3>2 DEF Words!Taken
      <4>2. Cardinality(Words!Taken(reply)) \in Nat
        <5>1. IsFiniteSet(1 .. Segments) BY FS_Interval
        <5>2. Words!Taken(reply) \subseteq 1 .. Segments BY <4>1 DEF Words!All
        <5> QED BY <5>1, <5>2, FS_Subset, FS_CardinalityType
      <4>3. wordsText' \in [Words!All -> Words!Texts]
        BY <3>2, <4>1 DEF WordsInv, Words!TypeOK, Words!Texts
      <4> QED BY <3>2, <4>1, <4>2, <4>3 DEF WordsInv, Words!TypeOK
    <3> QED BY <1>3, <3>1, <3>2, WordsCardinality DEF Words!Repair
  <2> QED BY <2>1, <2>2, <2>3 DEF WordsInv, Words!TypeOK, Repairing, Words!RepairOnlyImproves, Words!DeliveryKept
<1>4. CASE Words!Repaired
  BY <1>4 DEF Words!Repaired, WordsInv, Words!TypeOK, Repairing, Words!RepairOnlyImproves, Words!DeliveryKept
<1>5. ASSUME NEW new \in [Words!All -> Moods], wordsStep = "direct", wordsStep' = "voice",
             mood' = [i \in Words!All |-> IF mood[i] = None THEN new[i] ELSE mood[i]],
             UNCHANGED <<wordsText, wordsAt, suspects, translated, revised, wordsSaid, edited, voiced>>
      PROVE  WordsInv'
  <2>1. \A i \in Words!All : \A s \in wordsSaid[i] : s.chosen => s.as = mood[i] /\ mood[i] # None
    <3> TAKE i \in Words!All
    <3> TAKE s \in wordsSaid[i]
    <3>1. wordsSaid \in [Words!All -> SUBSET [as : Moods, chosen : BOOLEAN]] BY DEF WordsInv, Words!TypeOK
    <3>2. s \in [as : Moods, chosen : BOOLEAN] BY <3>1
    <3>3. s.as \in Moods BY <3>2
    <3>4. s.chosen => s.as = mood[i] BY DEF WordsInv, Words!DeliveryKept
    <3> QED BY <3>3, <3>4, WordingAssumption
  <2>2. \A i \in Words!All : mood[i] # None => mood'[i] = mood[i] BY <1>5
  <2>3. Words!DeliveryKept' BY <1>5, <2>1, <2>2 DEF Words!DeliveryKept
  <2>4. mood' \in [Words!All -> Moods \cup {None}] BY <1>5 DEF WordsInv, Words!TypeOK
  <2> QED BY <1>5, <2>3, <2>4 DEF WordsInv, Words!TypeOK, Repairing, Words!RepairOnlyImproves
<1>6. CASE Words!Direct
  BY <1>5, <1>6 DEF Words!Direct, Words!Delivery
<1>7. CASE Words!DirectOff
  <2>1. [i \in Words!All |-> PlainMood] \in [Words!All -> Moods]
    OBVIOUS
  <2> QED BY <1>5, <1>7, <2>1 DEF Words!DirectOff
<1>8. CASE Words!Undirected
  BY <1>8 DEF Words!Undirected, WordsInv, Words!TypeOK, Repairing, Words!RepairOnlyImproves, Words!DeliveryKept
<1>9. CASE Words!Voice
  <2>1. \A i \in Words!All : Words!Said(i) \in [as : Moods, chosen : BOOLEAN]
                             /\ (Words!Said(i).chosen => Words!Said(i).as = mood[i])
    BY DEF Words!Said, WordsInv, Words!TypeOK
  <2>2. wordsStep' = "done" /\ voiced' = voiced + 1 /\ voiced < Takes
        /\ wordsSaid' \in {[i \in Words!All |-> wordsSaid[i] \cup {Words!Said(i)}], wordsSaid}
        /\ UNCHANGED <<wordsText, wordsAt, suspects, translated, revised, mood, edited>>
    BY <1>9 DEF Words!Voice, WordsInv, Repairing
  <2>3. wordsSaid' \in [Words!All -> SUBSET [as : Moods, chosen : BOOLEAN]] /\ Words!DeliveryKept'
    BY <2>1, <2>2 DEF WordsInv, Words!TypeOK, Words!DeliveryKept
  <2> QED BY <1>9, <2>2, <2>3 DEF Words!Voice, WordsInv, Words!TypeOK, Repairing, Words!RepairOnlyImproves
<1>10. ASSUME NEW i \in Words!All, Words!Revoice(i) PROVE WordsInv'
  BY <1>10 DEF Words!Revoice, Words!Again, WordsInv, Words!TypeOK, Repairing, Words!RepairOnlyImproves,
     Words!DeliveryKept, Words!Texts
<1>11. CASE UNCHANGED Words!vars
  BY <1>11 DEF Words!vars, WordsInv, Words!TypeOK, Repairing, Words!RepairOnlyImproves, Words!DeliveryKept
<1> QED BY <1>1, <1>2, <1>3, <1>4, <1>6, <1>7, <1>8, <1>9, <1>10, <1>11 DEF Words!Next

\* The invariant of Wording.
LEMMA WordsInvariant == Words!Spec => []WordsInv
  BY WordsStart, WordsStep, PTL DEF Words!Spec
-----------------------------------------------------------------------------
(* The deploy script beside the panel (Seeding): of a link or a variant the script read as
   empty nothing is promised until it has written, nor of a row that is not there. *)
ScriptTyped ==
  /\ row \in [Script!Rows -> Script!Row \cup {None}] /\ scriptAsked \in BOOLEAN
  /\ scriptAt \in 0 .. Len(ScriptOrder) /\ (scriptSeen # None => scriptAt # 0 /\ scriptSeen \in Script!Row)
  /\ word \in [Script!Rows -> [Script!Columns -> {None, "seed", "own"} \cup Script!Rows \cup BOOLEAN]]
NoWordOfNothing == \A s \in Script!Rows, c \in Script!Columns : row[s] = None => word[s][c] = None
ReadAsEmpty ==
  scriptSeen # None =>
    /\ scriptSeen.link = None => word[ScriptOrder[scriptAt]]["link"] = None
    /\ scriptSeen.variant = None => word[ScriptOrder[scriptAt]]["variant"] = None
ScriptInv == ScriptTyped /\ NoWordOfNothing /\ ReadAsEmpty /\ Script!PanelKept

\* The script has not begun.
LEMMA ScriptStart == Script!Init => ScriptInv
  BY ScriptAssumption DEF Script!Init, Script!Silent, Script!Rows, ScriptInv, ScriptTyped, NoWordOfNothing,
     ReadAsEmpty, Script!PanelKept

\* A row that is there is not None.
LEMMA RowIsThere == None \notin Script!Row
  BY ScriptAssumption DEF Script!Row, Script!Rows

\* The row the script is at is one of the table.
LEMMA ScriptAtRow ==
  ASSUME scriptAt \in 0 .. Len(ScriptOrder), scriptAt # 0
  PROVE  ScriptOrder[scriptAt] \in Script!Rows
  BY ScriptAssumption DEF Script!Rows

\* What the script leaves of a row: all but what it may write stays as it was.
LEMMA SeededRow ==
  ASSUME ScriptTyped, NEW r \in Script!Rows
  PROVE  /\ Script!Seeded(r) \in Script!Row
         /\ row[r] # None =>
              /\ Script!Seeded(r).link = row[r].link /\ Script!Seeded(r).variant = row[r].variant
              /\ Script!Seeded(r).terms = row[r].terms
                   \/ ~ (RowKind[r] = "pack" \/ (RowKind[r] = "account" /\ ~scriptAsked))
              /\ Script!Seeded(r).active = row[r].active \/ RowKind[r] = "plan"
<1>1. row[r] \in Script!Row \cup {None} /\ RowKind[r] \in {"account", "plan", "pack", "language"}
  BY ScriptAssumption DEF ScriptTyped, Script!Rows
<1>2. CASE row[r] = None
  BY <1>2 DEF Script!Seeded, Script!Seed, Script!Row
<1>3. CASE row[r] # None
  <2> DEFINE sold2 == [row[r] EXCEPT !.terms = "seed", !.active = TRUE]
             told == [row[r] EXCEPT !.terms = "seed"]
  <2>1. /\ sold2 \in Script!Row /\ sold2.link = row[r].link /\ sold2.variant = row[r].variant
        /\ told \in Script!Row /\ told.link = row[r].link /\ told.variant = row[r].variant
        /\ told.active = row[r].active
    BY <1>1, <1>3 DEF Script!Row
  <2>2. Script!Seeded(r) = CASE RowKind[r] = "plan" -> sold2 [] RowKind[r] = "pack" -> row[r]
                             [] RowKind[r] = "language" -> told
                             [] OTHER -> IF scriptAsked THEN told ELSE row[r]
    BY <1>1, <1>3 DEF Script!Seeded, Script!SeedPlan, Script!SeedCreditPack, Script!SeedLanguage, Script!SeedAdmin
  <2> HIDE DEF sold2, told
  <2>3. CASE RowKind[r] = "plan" BY <1>1, <1>3, <2>1, <2>2, <2>3
  <2>4. CASE RowKind[r] = "pack" BY <1>1, <1>3, <2>1, <2>2, <2>4
  <2>5. CASE RowKind[r] = "language" BY <1>1, <1>3, <2>1, <2>2, <2>5
  <2>6. CASE RowKind[r] = "account" BY <1>1, <1>3, <2>1, <2>2, <2>6
  <2> QED BY <1>1, <2>3, <2>4, <2>5, <2>6
<1> QED BY <1>2, <1>3

\* The script writes the row it is at: all of it when there is none, what it owns otherwise.
LEMMA UpsertStep == ScriptInv /\ Script!Upsert => ScriptInv'
<1> SUFFICES ASSUME ScriptInv, Script!Upsert PROVE ScriptInv'
  OBVIOUS
<1> DEFINE r == ScriptOrder[scriptAt]
<1>1. scriptAt # 0 /\ row' = [row EXCEPT ![r] = Script!Seeded(r)] /\ word' = [word EXCEPT ![r] = Script!Unheard(r)]
      /\ scriptSeen' = row'[r] /\ UNCHANGED <<scriptAsked, scriptAt>>
  BY DEF Script!Upsert
<1>2. r \in Script!Rows
  BY <1>1, ScriptAtRow DEF ScriptInv, ScriptTyped
<1> HIDE DEF r
<1> DEFINE new == Script!Seeded(r)
           told == Script!Unheard(r)
<1>3. /\ told \in [Script!Columns -> {None, "seed", "own"} \cup Script!Rows \cup BOOLEAN]
      /\ told["link"] = word[r]["link"] /\ told["variant"] = word[r]["variant"]
      /\ told["terms"] = None \/ (told["terms"] = word[r]["terms"]
            /\ (RowKind[r] = "pack" \/ (RowKind[r] = "account" /\ ~scriptAsked)))
      /\ told["active"] = None \/ (told["active"] = word[r]["active"] /\ RowKind[r] # "plan")
  <2> DEFINE old == word[r]
             Words0 == {None, "seed", "own"} \cup Script!Rows \cup BOOLEAN
             heard1 == IF RowKind[r] = "pack" \/ (RowKind[r] = "account" /\ ~scriptAsked) THEN old["terms"] ELSE None
             heard2 == IF RowKind[r] = "plan" THEN None ELSE old["active"]
  <2>1. old \in [Script!Columns -> Words0] /\ None \in Words0
    BY <1>2 DEF ScriptInv, ScriptTyped
  <2>2. told = [[old EXCEPT !["terms"] = heard1] EXCEPT !["active"] = heard2]
    BY <2>1 DEF Script!Unheard, Script!Columns
  <2>3. "link" \in Script!Columns /\ "variant" \in Script!Columns /\ "terms" \in Script!Columns
        /\ "active" \in Script!Columns
    BY DEF Script!Columns
  <2> HIDE DEF told, old, Words0
  <2>4. told \in [Script!Columns -> Words0] /\ told["link"] = old["link"] /\ told["variant"] = old["variant"]
        /\ told["terms"] = heard1 /\ told["active"] = heard2
    BY <2>1, <2>2, <2>3
  <2> QED BY <2>4 DEF old, Words0
<1>4. /\ new \in Script!Row
      /\ row[r] # None =>
           /\ new.link = row[r].link /\ new.variant = row[r].variant
           /\ new.terms = row[r].terms \/ ~ (RowKind[r] = "pack" \/ (RowKind[r] = "account" /\ ~scriptAsked))
           /\ new.active = row[r].active \/ RowKind[r] = "plan"
  BY <1>2, SeededRow DEF ScriptInv
<1> HIDE DEF new, told
<1>5. /\ row' = [row EXCEPT ![r] = new] /\ word' = [word EXCEPT ![r] = told] BY <1>1 DEF new, told
<1>6. row'[r] = new /\ word'[r] = told /\ scriptSeen' = new
  BY <1>1, <1>2, <1>5 DEF ScriptInv, ScriptTyped
<1>7. ScriptTyped'
  BY <1>1, <1>2, <1>3, <1>4, <1>5, <1>6 DEF ScriptInv, ScriptTyped
<1>8. ASSUME NEW c \in Script!Columns, told[c] # None PROVE row[r] # None /\ new[c] = told[c]
  <2>1. told[c] = word[r][c] BY <1>3, <1>8 DEF Script!Columns
  <2>2. row[r] # None BY <1>2, <1>8, <2>1 DEF ScriptInv, NoWordOfNothing
  <2>3. row[r][c] = word[r][c] BY <1>2, <1>8, <2>1, <2>2 DEF ScriptInv, Script!PanelKept
  <2>4. CASE c = "link" BY <1>4, <2>1, <2>2, <2>3, <2>4
  <2>5. CASE c = "variant" BY <1>4, <2>1, <2>2, <2>3, <2>5
  <2>6. CASE c = "terms" BY <1>3, <1>4, <1>8, <2>1, <2>2, <2>3, <2>6
  <2>7. CASE c = "active" BY <1>3, <1>4, <1>8, <2>1, <2>2, <2>3, <2>7
  <2> QED BY <2>2, <2>4, <2>5, <2>6, <2>7 DEF Script!Columns
<1>9. Script!PanelKept'
  BY <1>2, <1>5, <1>6, <1>8 DEF ScriptInv, ScriptTyped, Script!PanelKept
<1>10. NoWordOfNothing'
  BY <1>2, <1>4, <1>5, <1>6, RowIsThere DEF ScriptInv, ScriptTyped, NoWordOfNothing
<1>11. ReadAsEmpty'
  <2>1. ScriptOrder[scriptAt'] = r BY <1>1 DEF r
  <2> QED BY <1>3, <1>6, <1>8, <2>1 DEF ReadAsEmpty, Script!Columns
<1> QED BY <1>7, <1>9, <1>10, <1>11 DEF ScriptInv

\* The link and the variant are filled where they are empty.
LEMMA FillEmptyStep == ScriptInv /\ Script!FillEmpty => ScriptInv'
<1> SUFFICES ASSUME ScriptInv, Script!FillEmpty PROVE ScriptInv'
  OBVIOUS
<1> DEFINE r == ScriptOrder[scriptAt]
<1>1. scriptAt # 0 /\ scriptSeen # None /\ scriptSeen' = None /\ UNCHANGED <<scriptAsked, word>>
      /\ scriptAt' \in {0, Script!Further}
  BY DEF Script!FillEmpty
<1>2. r \in Script!Rows /\ scriptAt' \in 0 .. Len(ScriptOrder)
  BY <1>1, ScriptAtRow, ScriptAssumption DEF ScriptInv, ScriptTyped, Script!Further
<1>3. CASE UNCHANGED row
  BY <1>1, <1>2, <1>3 DEF ScriptInv, ScriptTyped, NoWordOfNothing, ReadAsEmpty, Script!PanelKept
<1>4. CASE row' # row
  <2> DEFINE variant == IF scriptSeen.variant = None THEN r ELSE row[r].variant
             linked == IF scriptSeen.link = None THEN "seed" ELSE row[r].link
             new == [row[r] EXCEPT !.link = linked, !.variant = variant]
  <2>1. row[r] # None /\ row' = [row EXCEPT ![r].link = IF scriptSeen.link = None THEN "seed" ELSE @, ![r].variant = variant]
    BY <1>4 DEF Script!FillEmpty
  <2>2. row' = [row EXCEPT ![r] = new]
    BY <1>2, <2>1 DEF ScriptInv, ScriptTyped
  <2>3. new \in Script!Row /\ new.link = linked /\ new.variant = variant /\ new.terms = row[r].terms
        /\ new.active = row[r].active
    BY <1>2, <2>1 DEF ScriptInv, ScriptTyped, Script!Row
  <2>4. /\ word[r]["link"] # None => linked = row[r].link
        /\ word[r]["variant"] # None => variant = row[r].variant
    BY <1>1 DEF ScriptInv, ReadAsEmpty
  <2> HIDE DEF new, r, variant, linked
  <2>5. row'[r] = new /\ \A s \in Script!Rows \ {r} : row'[s] = row[s]
    BY <1>2, <2>2 DEF ScriptInv, ScriptTyped
  <2>6. \A c \in Script!Columns : word[r][c] # None => new[c] = word[r][c]
    <3> SUFFICES ASSUME NEW c \in Script!Columns, word[r][c] # None PROVE new[c] = word[r][c]
      OBVIOUS
    <3>1. row[r][c] = word[r][c] BY <1>2, <2>1 DEF ScriptInv, Script!PanelKept
    <3> QED BY <2>3, <2>4, <3>1 DEF Script!Columns
  <2>7. ScriptTyped' BY <1>1, <1>2, <2>2, <2>3 DEF ScriptInv, ScriptTyped
  <2>8. Script!PanelKept' BY <1>1, <1>2, <2>5, <2>6 DEF ScriptInv, Script!PanelKept
  <2>9. NoWordOfNothing' BY <1>1, <1>2, <2>3, <2>5, RowIsThere DEF ScriptInv, NoWordOfNothing
  <2>10. ReadAsEmpty' BY <1>1 DEF ReadAsEmpty
  <2> QED BY <2>7, <2>8, <2>9, <2>10 DEF ScriptInv
<1> QED BY <1>3, <1>4

\* An admin changes a column, between two steps of the script or before it.
LEMMA PanelEditStep ==
  ASSUME ScriptInv, NEW r \in Script!Rows, NEW c \in Script!Columns, NEW v \in Script!Values(r, c), Script!Edit(r, c, v)
  PROVE  ScriptInv'
<1> DEFINE new == [row[r] EXCEPT ![c] = v]
           said2 == [word[r] EXCEPT ![c] = Script!Heard(r, c, v)]
<1>1. row[r] # None /\ row' = [row EXCEPT ![r] = new] /\ word' = [word EXCEPT ![r] = said2]
      /\ UNCHANGED <<scriptAsked, scriptAt, scriptSeen>>
  BY DEF Script!Edit, ScriptInv, ScriptTyped
<1>2. new \in Script!Row /\ new[c] = v /\ \A d \in Script!Columns \ {c} : new[d] = row[r][d]
  <2>1. row[r] \in Script!Row BY <1>1 DEF ScriptInv, ScriptTyped
  <2>2. CASE c = "link" BY <2>1, <2>2 DEF Script!Values, Script!Row, Script!Columns
  <2>3. CASE c = "variant" BY <2>1, <2>3 DEF Script!Values, Script!Row, Script!Columns
  <2>4. CASE c = "terms" BY <2>1, <2>4 DEF Script!Values, Script!Row, Script!Columns
  <2>5. CASE c = "active" BY <2>1, <2>5 DEF Script!Values, Script!Row, Script!Columns
  <2> QED BY <2>2, <2>3, <2>4, <2>5 DEF Script!Columns
<1>3. v \in {None, "seed", "own"} \cup Script!Rows \cup BOOLEAN /\ Script!Heard(r, c, v) \in {None, v}
  BY DEF Script!Values, Script!Columns, Script!Linked, Script!Heard
<1>4. /\ said2 \in [Script!Columns -> {None, "seed", "own"} \cup Script!Rows \cup BOOLEAN]
      /\ said2[c] = Script!Heard(r, c, v) /\ \A d \in Script!Columns \ {c} : said2[d] = word[r][d]
  BY <1>3 DEF ScriptInv, ScriptTyped
<1> HIDE DEF new, said2
<1>5. row'[r] = new /\ word'[r] = said2 /\ \A s \in Script!Rows \ {r} : row'[s] = row[s] /\ word'[s] = word[s]
  BY <1>1 DEF ScriptInv, ScriptTyped
<1>6. ScriptTyped' BY <1>1, <1>2, <1>4 DEF ScriptInv, ScriptTyped
<1>7. Script!PanelKept' BY <1>1, <1>2, <1>3, <1>4, <1>5 DEF ScriptInv, Script!PanelKept
<1>8. NoWordOfNothing'
  <2>1. CASE new # None BY <1>5, <2>1 DEF ScriptInv, NoWordOfNothing
  <2>2. new # None BY <1>2, RowIsThere
  <2> QED BY <2>1, <2>2
<1>9. ReadAsEmpty'
  <2> SUFFICES ASSUME scriptSeen # None
               PROVE  /\ scriptSeen.link = None => word'[ScriptOrder[scriptAt]]["link"] = None
                      /\ scriptSeen.variant = None => word'[ScriptOrder[scriptAt]]["variant"] = None
    BY <1>1 DEF ReadAsEmpty
  <2>1. ScriptOrder[scriptAt] \in Script!Rows /\ scriptAt # 0 BY ScriptAtRow DEF ScriptInv, ScriptTyped
  <2>2. CASE ScriptOrder[scriptAt] # r BY <1>5, <2>1, <2>2 DEF ScriptInv, ReadAsEmpty
  <2>3. CASE ScriptOrder[scriptAt] = r
    <3>1. c \in {"link", "variant"} => Script!Heard(r, c, v) = None
      BY <2>1, <2>3 DEF Script!Heard, Script!Reading
    <3> QED BY <1>4, <1>5, <2>3, <3>1 DEF ScriptInv, ReadAsEmpty, Script!Columns
  <2> QED BY <2>2, <2>3
<1> QED BY <1>6, <1>7, <1>8, <1>9 DEF ScriptInv

\* A column an admin set is not written over by the script.
LEMMA ScriptStep == ScriptInv /\ [Script!Next]_(Script!vars) => ScriptInv'
<1> SUFFICES ASSUME ScriptInv, [Script!Next]_(Script!vars) PROVE ScriptInv'
  OBVIOUS
<1>1. CASE Script!Start
  <2>1. 1 \in 0 .. Len(ScriptOrder) BY ScriptAssumption
  <2>2. scriptSeen = None BY <1>1 DEF Script!Start, ScriptInv, ScriptTyped
  <2> QED BY <1>1, <2>1, <2>2 DEF Script!Start, ScriptInv, ScriptTyped, NoWordOfNothing, ReadAsEmpty, Script!PanelKept
<1>2. CASE Script!Stop
  BY <1>2 DEF Script!Stop, ScriptInv, ScriptTyped, NoWordOfNothing, ReadAsEmpty, Script!PanelKept
<1>3. CASE Script!Upsert BY <1>3, UpsertStep
<1>4. CASE Script!FillEmpty BY <1>4, FillEmptyStep
<1>5. ASSUME NEW r \in Script!Rows, Script!DeletePack(r) PROVE ScriptInv'
  <2>1. row' = [row EXCEPT ![r] = None] /\ word' = [word EXCEPT ![r] = Script!Silent]
        /\ UNCHANGED <<scriptAsked, scriptAt, scriptSeen>>
    BY <1>5 DEF Script!DeletePack
  <2>2. Script!Silent \in [Script!Columns -> {None}] BY DEF Script!Silent
  <2>3. \A s \in Script!Rows, c \in Script!Columns : word'[s][c] = IF s = r THEN None ELSE word[s][c]
    BY <2>1, <2>2 DEF ScriptInv, ScriptTyped
  <2>4. ScriptTyped' BY <2>1, <2>2 DEF ScriptInv, ScriptTyped
  <2>5. Script!PanelKept' /\ NoWordOfNothing' BY <2>1, <2>3 DEF ScriptInv, ScriptTyped, Script!PanelKept, NoWordOfNothing
  <2>6. ReadAsEmpty'
    BY <2>1, <2>3, ScriptAtRow DEF ScriptInv, ScriptTyped, ReadAsEmpty, Script!Columns
  <2> QED BY <2>4, <2>5, <2>6 DEF ScriptInv
<1>6. CASE UNCHANGED Script!vars
  BY <1>6 DEF Script!vars, ScriptInv, ScriptTyped, NoWordOfNothing, ReadAsEmpty, Script!PanelKept
<1> QED BY <1>1, <1>2, <1>3, <1>4, <1>5, <1>6, PanelEditStep DEF Script!Next

\* The script keeps what the panel decided.
LEMMA ScriptInvariant == Script!Spec => [](Script!TypeOK /\ Script!PanelKept)
<1>1. ScriptInv => Script!TypeOK /\ Script!PanelKept
  BY DEF ScriptInv, ScriptTyped, Script!TypeOK
<1> QED BY <1>1, ScriptStart, ScriptStep, PTL DEF Script!Spec
-----------------------------------------------------------------------------
(* The panel (Catalog): a variant that was not given twice at once is sold by one row, and
   a check that is not late still holds. *)
Editing == [row : Panel!Rows, variant : Products \cup {None}, new : BOOLEAN, late : BOOLEAN]
Ordering == [row : Panel!Rows, variant : Products, got : Panel!Rows \cup {None}, moved : BOOLEAN]
OneRow == \A v \in Products \ raced : \A r, s \in Panel!Of(v) : r = s
CheckHolds ==
  \A a \in Staff : edit[a] # None /\ edit[a].variant \in Products \ raced /\ ~edit[a].late =>
    Panel!Of(edit[a].variant) \subseteq {edit[a].row}
OrderedMade == \A o \in Purchases : order[o] # None => order[o].row \in made
PanelInv == Panel!TypeOK /\ OneRow /\ CheckHolds /\ OrderedMade /\ Panel!CreditsWhatWasSold

SoldAfter(v) == {r \in made' \ gone' : sold'[r] = v}

\* None is nobody and no product.
LEMMA PanelNone == None \notin Products /\ None \notin Editing /\ None \notin Ordering
  BY PanelAssumption DEF Editing, Ordering, Panel!Rows

\* Nobody has saved or bought anything yet.
LEMMA PanelStart == Panel!Init => PanelInv
<1> SUFFICES ASSUME Panel!Init PROVE PanelInv OBVIOUS
<1>1. made \subseteq Panel!Rows BY DEF Panel!Init, Panel!Rows
<1>2. \A v \in Products : Panel!Of(v) = {}
  BY <1>1, PanelNone DEF Panel!Init, Panel!Of, Panel!Live
<1>3. Panel!TypeOK BY <1>1, PanelAssumption DEF Panel!Init, Panel!TypeOK
<1> QED BY <1>2, <1>3 DEF Panel!Init, PanelInv, OneRow, CheckHolds, OrderedMade, Panel!CreditsWhatWasSold, Panel!TypeOK

\* A save writes the variant that was checked: free then, and raced if it is taken by now.
LEMMA SaveStep == ASSUME PanelInv, NEW a \in Staff, Panel!Save(a) PROVE PanelInv'
<1> DEFINE e == edit[a]
           r == edit[a].row
           v == edit[a].variant
<1>1. e \in Editing /\ e # None /\ UNCHANGED <<gone, order, panelEdits>>
  BY DEF Panel!Save, PanelInv, Panel!TypeOK, Editing
<1>2. CASE /\ edit' = [edit EXCEPT ![a] = None] /\ UNCHANGED <<sold, link, made, raced>>
  BY <1>1, <1>2 DEF PanelInv, Panel!TypeOK, OneRow, CheckHolds, OrderedMade, Panel!CreditsWhatWasSold, Panel!Of, Panel!Live
<1>3. CASE /\ edit' = Panel!Overtaken(a) /\ made' = made \cup {r} /\ sold' = [sold EXCEPT ![r] = v]
           /\ raced' = IF e.late /\ Panel!Of(v) \ {r} # {} THEN raced \cup {v} ELSE raced
           /\ link' \in {link \cup {r}, link \ {r}}
  <2>1. r \in Panel!Rows /\ v \in Products \cup {None} /\ e.late \in BOOLEAN BY <1>1 DEF Editing
  <2>2. \A b \in Staff : edit'[b] # None => /\ b # a /\ edit[b] \in Editing /\ edit'[b] \in Editing
          /\ edit'[b].row = edit[b].row /\ edit'[b].variant = edit[b].variant
          /\ edit'[b].late = (edit[b].late \/ (edit[b].variant = v /\ edit[b].row # r))
    <3> SUFFICES ASSUME NEW b \in Staff, edit'[b] # None
                 PROVE  /\ b # a /\ edit[b] \in Editing /\ edit'[b] \in Editing
                        /\ edit'[b].row = edit[b].row /\ edit'[b].variant = edit[b].variant
                        /\ edit'[b].late = (edit[b].late \/ (edit[b].variant = v /\ edit[b].row # r))
      OBVIOUS
    <3> DEFINE told == [edit[b] EXCEPT !.late = TRUE]
    <3>1. b # a /\ edit[b] # None /\ edit'[b] = IF edit[b].variant = v /\ edit[b].row # r THEN told ELSE edit[b]
      BY <1>3 DEF Panel!Overtaken
    <3>2. edit[b] \in Editing BY <3>1 DEF PanelInv, Panel!TypeOK, Editing
    <3>3. told \in Editing /\ told.row = edit[b].row /\ told.variant = edit[b].variant /\ told.late = TRUE
      BY <3>2 DEF Editing
    <3>4. edit[b].late \in BOOLEAN BY <3>2 DEF Editing
    <3> HIDE DEF told
    <3> QED BY <3>1, <3>2, <3>3, <3>4
  <2>3. edit' \in [Staff -> Editing \cup {None}]
    <3>1. \A b \in Staff : edit'[b] \in Editing \cup {None} BY <2>2
    <3>2. edit' = [b \in Staff |-> edit'[b]] BY <1>3 DEF Panel!Overtaken
    <3> QED BY <3>1, <3>2
  <2> HIDE DEF e
  <2>4. Panel!TypeOK'
    BY <1>1, <1>3, <2>1, <2>3 DEF PanelInv, Panel!TypeOK, Editing
  <2>5. /\ SoldAfter(v) \subseteq Panel!Of(v) \cup {r}
        /\ \A w : w # v => SoldAfter(w) \subseteq Panel!Of(w)
    BY <1>1, <1>3, <2>1 DEF PanelInv, Panel!TypeOK, Panel!Of, Panel!Live, SoldAfter
  <2>6. v \in Products \ raced' => Panel!Of(v) \subseteq {r}
    <3> SUFFICES ASSUME v \in Products \ raced' PROVE Panel!Of(v) \subseteq {r} OBVIOUS
    <3>1. CASE e.late BY <1>3, <3>1
    <3>2. CASE ~e.late BY <1>1, <1>3, <3>2 DEF PanelInv, CheckHolds, e
    <3> QED BY <3>1, <3>2
  <2>7. raced \subseteq raced' BY <1>3
  <2>8. OneRow'
    <3> SUFFICES ASSUME NEW w \in Products \ raced', NEW x \in SoldAfter(w), NEW y \in SoldAfter(w) PROVE x = y
      BY DEF OneRow, SoldAfter, Panel!Of, Panel!Live
    <3>1. CASE w = v BY <2>5, <2>6, <3>1
    <3>2. CASE w # v BY <2>5, <2>7, <3>2 DEF PanelInv, OneRow
    <3> QED BY <3>1, <3>2
  <2>9. CheckHolds'
    <3> SUFFICES ASSUME NEW b \in Staff, edit'[b] # None, edit'[b].variant \in Products \ raced', ~edit'[b].late
                 PROVE  SoldAfter(edit'[b].variant) \subseteq {edit'[b].row}
      BY DEF CheckHolds, SoldAfter, Panel!Of, Panel!Live
    <3>1. edit[b] \in Editing /\ edit'[b].row = edit[b].row /\ edit'[b].variant = edit[b].variant
          /\ ~edit[b].late /\ (edit[b].variant = v => edit[b].row = r)
      BY <2>2
    <3>2. edit[b] # None BY <3>1, PanelNone
    <3>3. Panel!Of(edit[b].variant) \subseteq {edit[b].row}
      BY <2>7, <3>1, <3>2 DEF PanelInv, CheckHolds
    <3> DEFINE w == edit[b].variant
    <3>4. SoldAfter(w) \subseteq Panel!Of(w) \cup (IF w = v THEN {r} ELSE {})
      BY <2>5
    <3>5. SoldAfter(w) \subseteq {edit[b].row} BY <3>1, <3>3, <3>4
    <3>6. edit'[b].variant = w /\ edit'[b].row = edit[b].row BY <3>1
    <3> HIDE DEF w
    <3> QED BY <3>5, <3>6
  <2>10. OrderedMade' /\ Panel!CreditsWhatWasSold'
    BY <1>1, <1>3, <2>7 DEF PanelInv, OrderedMade, Panel!CreditsWhatWasSold
  <2> QED BY <2>4, <2>8, <2>9, <2>10 DEF PanelInv
<1> QED BY <1>2, <1>3 DEF Panel!Save

\* A claim credits the row its order's variant resolves to.
LEMMA ClaimStep == ASSUME PanelInv, NEW o \in Purchases, Panel!Claim(o) PROVE PanelInv'
<1>1. PICK r \in Panel!Resolve(order[o].variant) :
        order' = [order EXCEPT ![o].got = r, ![o].moved = sold[order[o].row] # order[o].variant]
  BY DEF Panel!Claim
<1> DEFINE was == order[o]
           new == [was EXCEPT !.got = r, !.moved = sold[was.row] # was.variant]
<1>2. order[o] # None /\ order[o] \in Ordering /\ order' = [order EXCEPT ![o] = new]
      /\ UNCHANGED <<sold, link, made, gone, edit, raced, panelEdits>>
  BY <1>1 DEF Panel!Claim, PanelInv, Panel!TypeOK, Ordering
<1>3. r \in Panel!Of(was.variant) /\ r \in Panel!Rows
  BY <1>1 DEF Panel!Resolve, Panel!Of, Panel!Live, PanelInv, Panel!TypeOK
<1>4. new \in Ordering /\ new.row = was.row /\ new.variant = was.variant /\ new.got = r
      /\ new.moved = (sold[was.row] # was.variant)
  BY <1>2, <1>3 DEF Ordering
<1>5. new.moved \/ was.row \in gone \/ was.variant \in raced \/ r = was.row
  <2> SUFFICES ASSUME sold[was.row] = was.variant, was.row \notin gone, was.variant \notin raced PROVE r = was.row
    BY <1>4
  <2>1. was.row \in Panel!Of(was.variant) /\ was.variant \in Products
    BY <1>2 DEF PanelInv, OrderedMade, Panel!Of, Panel!Live, Ordering
  <2> QED BY <1>3, <2>1 DEF PanelInv, OneRow
<1> HIDE DEF new
<1>6. order'[o] = new /\ \A q \in Purchases \ {o} : order'[q] = order[q]
  BY <1>2 DEF PanelInv, Panel!TypeOK
<1>7. Panel!TypeOK' BY <1>2, <1>4 DEF PanelInv, Panel!TypeOK, Ordering
<1>8. OneRow' /\ CheckHolds' BY <1>2 DEF PanelInv, OneRow, CheckHolds, Panel!Of, Panel!Live
<1>9. OrderedMade' /\ Panel!CreditsWhatWasSold'
  BY <1>2, <1>4, <1>5, <1>6 DEF PanelInv, OrderedMade, Panel!CreditsWhatWasSold
<1> QED BY <1>7, <1>8, <1>9 DEF PanelInv

\* Every step of a form, of a checkout and of the catalog keeps the invariant.
LEMMA PanelStep == PanelInv /\ [Panel!Next]_(Panel!vars) => PanelInv'
<1> SUFFICES ASSUME PanelInv, [Panel!Next]_(Panel!vars) PROVE PanelInv'
  OBVIOUS
<1>1. ASSUME NEW a \in Staff, NEW r \in Panel!Rows, NEW v \in Products \cup {None}, Panel!AssertVariantFree(a, r, v)
      PROVE  PanelInv'
  <2> DEFINE new == [row |-> r, variant |-> v, new |-> r \notin made, late |-> FALSE]
  <2>1. /\ edit' = [edit EXCEPT ![a] = new] /\ panelEdits < PanelChanges /\ panelEdits' = panelEdits + 1
        /\ UNCHANGED <<sold, link, made, gone, order, raced>>
        /\ v = None \/ Panel!Of(v) \subseteq {r}
    BY <1>1 DEF Panel!AssertVariantFree, Panel!Free
  <2>2. new \in Editing /\ new.variant = v /\ new.row = r BY DEF Editing
  <2> HIDE DEF new
  <2>3. Panel!TypeOK' BY <2>1, <2>2, PanelAssumption DEF PanelInv, Panel!TypeOK, Editing
  <2>4. OneRow' /\ OrderedMade' /\ Panel!CreditsWhatWasSold'
    BY <2>1 DEF PanelInv, OneRow, OrderedMade, Panel!CreditsWhatWasSold, Panel!Of, Panel!Live
  <2>5. \A w : SoldAfter(w) = Panel!Of(w) BY <2>1 DEF Panel!Of, Panel!Live, SoldAfter
  <2>6. CheckHolds'
    <3> SUFFICES ASSUME NEW b \in Staff, edit'[b] # None, edit'[b].variant \in Products \ raced', ~edit'[b].late
                 PROVE  SoldAfter(edit'[b].variant) \subseteq {edit'[b].row}
      BY DEF CheckHolds, SoldAfter, Panel!Of, Panel!Live
    <3>1. CASE b = a
      <4>1. edit'[b] = new BY <2>1, <3>1 DEF PanelInv, Panel!TypeOK
      <4>2. v # None BY <2>2, <4>1, PanelNone
      <4>3. SoldAfter(v) \subseteq {r} BY <2>1, <2>5, <4>2
      <4>4. edit'[b].variant = v /\ edit'[b].row = r BY <2>2, <4>1
      <4> QED BY <4>3, <4>4
    <3>2. CASE b # a
      <4>1. edit'[b] = edit[b] BY <2>1, <3>2 DEF PanelInv, Panel!TypeOK
      <4>2. Panel!Of(edit[b].variant) \subseteq {edit[b].row} BY <2>1, <4>1 DEF PanelInv, CheckHolds
      <4> QED BY <2>1, <4>1, <4>2, <2>5
    <3> QED BY <3>1, <3>2
  <2> QED BY <2>3, <2>4, <2>6 DEF PanelInv
<1>2. ASSUME NEW r \in Panel!Rows, Panel!DeleteCreditPack(r) PROVE PanelInv'
  <2>1. gone' = gone \cup {r} /\ r \in SoldPacks /\ r \in made /\ UNCHANGED <<sold, link, made, edit, order, raced, panelEdits>>
    BY <1>2 DEF Panel!DeleteCreditPack, Panel!Live
  <2>2. \A w : Panel!Of(w)' \subseteq Panel!Of(w) BY <2>1 DEF Panel!Of, Panel!Live
  <2>3. Panel!TypeOK' BY <2>1 DEF PanelInv, Panel!TypeOK
  <2>4. OneRow' BY <2>1, <2>2 DEF PanelInv, OneRow
  <2>5. CheckHolds'
    <3> SUFFICES ASSUME NEW b \in Staff, edit[b] # None, edit[b].variant \in Products \ raced, ~edit[b].late,
                        NEW x \in SoldAfter(edit[b].variant)
                 PROVE  x = edit[b].row
      BY <2>1 DEF CheckHolds, SoldAfter, Panel!Of, Panel!Live
    <3>1. x \in Panel!Of(edit[b].variant) BY <2>1 DEF Panel!Of, Panel!Live, SoldAfter
    <3> QED BY <3>1 DEF PanelInv, CheckHolds
  <2>6. OrderedMade' /\ Panel!CreditsWhatWasSold' BY <2>1 DEF PanelInv, OrderedMade, Panel!CreditsWhatWasSold
  <2> QED BY <2>3, <2>4, <2>5, <2>6 DEF PanelInv
<1>3. ASSUME NEW o \in Purchases, NEW r \in Panel!Rows, Panel!Checkout(o, r) PROVE PanelInv'
  <2> DEFINE new == [row |-> r, variant |-> sold[r], got |-> None, moved |-> FALSE]
  <2>1. order' = [order EXCEPT ![o] = new] /\ r \in made /\ sold[r] # None
        /\ UNCHANGED <<sold, link, made, gone, edit, raced, panelEdits>>
    BY <1>3 DEF Panel!Checkout, Panel!Sellable, Panel!Live
  <2>2. new \in Ordering /\ new.row = r /\ new.got = None BY <2>1 DEF Ordering, PanelInv, Panel!TypeOK
  <2> HIDE DEF new
  <2>3. Panel!TypeOK' BY <2>1, <2>2 DEF PanelInv, Panel!TypeOK, Ordering
  <2>4. OneRow' /\ CheckHolds' BY <2>1 DEF PanelInv, OneRow, CheckHolds, Panel!Of, Panel!Live
  <2>5. OrderedMade' /\ Panel!CreditsWhatWasSold'
    BY <2>1, <2>2 DEF PanelInv, Panel!TypeOK, OrderedMade, Panel!CreditsWhatWasSold
  <2> QED BY <2>3, <2>4, <2>5 DEF PanelInv
<1>4. CASE UNCHANGED Panel!vars
  BY <1>4 DEF Panel!vars, PanelInv, Panel!TypeOK, OneRow, CheckHolds, OrderedMade, Panel!CreditsWhatWasSold, Panel!Of, Panel!Live
<1> QED BY <1>1, <1>2, <1>3, <1>4, SaveStep, ClaimStep DEF Panel!Next

\* An order credits what was sold.
LEMMA PanelInvariant == Panel!Spec => [](Panel!TypeOK /\ Panel!CreditsWhatWasSold)
<1>1. PanelInv => Panel!TypeOK /\ Panel!CreditsWhatWasSold BY DEF PanelInv
<1> QED BY <1>1, PanelStart, PanelStep, PTL DEF Panel!Spec
-----------------------------------------------------------------------------
(* The works page (WorksPage): a drawer that is not leaving is on what is chosen, and what
   is chosen is what the user opened. *)
Drawer == [leaving : BOOLEAN, side : {"source", "dubbed"}, time : {0, 1}, found : {"", "hidden"}]
Filters == [status : {"all", "processing", "failed"}, pair : {"all", "auto", "heard"}, range : {"any", "7d"},
            query : {"", "words"}]
ShelfTyped ==
  /\ work \in [Shelved -> Shelf!Work \cup {None}] /\ filter \in Filters
  /\ selected \in Shelved \cup {None} /\ menu \subseteq Shelved /\ overflow \in {"", "hidden"}
  /\ drawer \in [Shelved -> Drawer \cup {None}]
ChosenByUser ==
  /\ \A w \in Shelved : Shelf!OnDrawer(w) => selected = w
  /\ selected # None => opened = selected
ShelfInv == ShelfTyped /\ ChosenByUser

\* The page begins with a filter it has.
LEMMA AllIsFilter == Shelf!All \in Filters
  BY DEF Shelf!All, Filters

\* The page is empty, with no drawer open.
LEMMA ShelfStart == Shelf!Init => ShelfInv
<1> SUFFICES ASSUME Shelf!Init PROVE ShelfInv OBVIOUS
<1>1. filter \in Filters BY AllIsFilter DEF Shelf!Init
<1>2. work \in [Shelved -> Shelf!Work \cup {None}]
  <2>1. [status |-> "processing", pair |-> "auto"] \in Shelf!Work BY DEF Shelf!Work
  <2>2. [status |-> "completed", pair |-> "heard"] \in Shelf!Work BY DEF Shelf!Work
  <2> QED BY <2>1, <2>2 DEF Shelf!Init
<1>3. /\ selected = None /\ drawer = [w \in Shelved |-> None] /\ overflow = "" /\ menu = {} /\ opened = None
  BY DEF Shelf!Init
<1> QED BY <1>1, <1>2, <1>3, ShelfAssumption DEF ShelfInv, ShelfTyped, ChosenByUser, Shelf!OnDrawer

\* What is chosen is drawn if it is there, and every other drawer leaves.
LEMMA DrawnStep ==
  ASSUME ShelfInv, NEW w \in Shelved \cup {None}, NEW present, Shelf!Drawn(w, present),
         work' \in [Shelved -> Shelf!Work \cup {None}], filter' = filter, menu' \subseteq Shelved,
         w # None => opened' = w
  PROVE  ShelfInv'
<1> DEFINE kept(v) == [drawer[v] EXCEPT !.leaving = FALSE]
           going(v) == [drawer[v] EXCEPT !.leaving = TRUE]
<1>1. Shelf!Fresh \in Drawer BY DEF Shelf!Fresh, Drawer, ShelfInv, ShelfTyped
<1>2. ASSUME NEW v \in Shelved, drawer[v] # None
      PROVE  kept(v) \in Drawer /\ going(v) \in Drawer /\ going(v).leaving = TRUE
  <2>1. drawer[v] \in Drawer BY <1>2 DEF ShelfInv, ShelfTyped
  <2> QED BY <2>1 DEF Drawer
<1>3. /\ selected' = w /\ overflow' \in {"hidden", overflow}
      /\ drawer' = [v \in Shelved |->
           IF v = w /\ v \in present THEN (IF drawer[v] = None THEN Shelf!Fresh ELSE kept(v))
           ELSE IF drawer[v] = None THEN None ELSE going(v)]
  BY DEF Shelf!Drawn
<1> HIDE DEF kept, going
<1>4. drawer' \in [Shelved -> Drawer \cup {None}] BY <1>1, <1>2, <1>3
<1>5. \A v \in Shelved : drawer'[v] # None /\ ~drawer'[v].leaving => v = w
  BY <1>2, <1>3
<1>6. ShelfTyped' BY <1>3, <1>4 DEF ShelfInv, ShelfTyped
<1>7. ChosenByUser' BY <1>3, <1>5 DEF ChosenByUser, Shelf!OnDrawer
<1> QED BY <1>6, <1>7 DEF ShelfInv

\* One drawer is changed, and what of it leaves or was away does not come back.
LEMMA OneDrawerStep ==
  ASSUME ShelfInv, NEW w \in Shelved, NEW d \in Drawer \cup {None}, drawer' = [drawer EXCEPT ![w] = d],
         d = None \/ (Shelf!OnDrawer(w) \/ d.leaving), overflow' \in {"", "hidden"},
         UNCHANGED <<work, filter, selected, menu, opened>>
  PROVE  ShelfInv'
<1>1. ShelfTyped' BY DEF ShelfInv, ShelfTyped
<1>2. \A v \in Shelved : Shelf!OnDrawer(v)' => Shelf!OnDrawer(v)
  BY DEF ShelfInv, ShelfTyped, Shelf!OnDrawer
<1>3. ChosenByUser' BY <1>2 DEF ShelfInv, ChosenByUser, Shelf!OnDrawer
<1> QED BY <1>1, <1>3 DEF ShelfInv

\* A step of the list, the filter or a menu, which touches no drawer.
LEMMA ListingStep ==
  ASSUME ShelfInv, Shelf!Listing, UNCHANGED <<selected, drawer, overflow, opened>>
  PROVE  ShelfInv'
<1>1. work' = work /\ menu' \subseteq menu
  BY DEF Shelf!Listing, Shelf!ToggleSort
<1>2. filter' \in Filters
  <2>1. filter \in Filters BY DEF ShelfInv, ShelfTyped
  <2>2. ASSUME NEW f \in {"all", "processing", "failed"}, Shelf!StatusFilter(f) PROVE filter' \in Filters
    BY <2>1, <2>2 DEF Shelf!StatusFilter, Filters
  <2>3. ASSUME NEW f \in {"all", "auto", "heard"}, Shelf!PairFilter(f) PROVE filter' \in Filters
    BY <2>1, <2>3 DEF Shelf!PairFilter, Filters
  <2>4. ASSUME NEW f \in {"any", "7d"}, Shelf!RangeFilter(f) PROVE filter' \in Filters
    BY <2>1, <2>4 DEF Shelf!RangeFilter, Filters
  <2>5. ASSUME NEW f \in {"", "words"}, Shelf!Search(f) PROVE filter' \in Filters
    BY <2>1, <2>5 DEF Shelf!Search, Filters
  <2>6. Shelf!ClearFilters => filter' \in Filters BY AllIsFilter DEF Shelf!ClearFilters
  <2>7. filter' = filter => filter' \in Filters BY <2>1
  <2> QED BY <2>2, <2>3, <2>4, <2>5, <2>6, <2>7 DEF Shelf!Listing, Shelf!ToggleSort
<1>3. ShelfTyped' BY <1>1, <1>2 DEF ShelfInv, ShelfTyped
<1>4. ChosenByUser' BY DEF ShelfInv, ChosenByUser, Shelf!OnDrawer
<1> QED BY <1>3, <1>4 DEF ShelfInv

\* Every step of the page keeps the invariant.
LEMMA ShelfStep == ShelfInv /\ [Shelf!Next]_(Shelf!vars) => ShelfInv'
<1> SUFFICES ASSUME ShelfInv, [Shelf!Next]_(Shelf!vars) PROVE ShelfInv'
  OBVIOUS
<1> USE ShelfAssumption
<1>1. CASE Shelf!Listing /\ Shelf!Moves /\ UNCHANGED <<selected, drawer, overflow, opened>>
  BY <1>1, ListingStep
<1>2. CASE Shelf!Close
  BY <1>2, DrawnStep DEF Shelf!Close, Shelf!listing, ShelfInv, ShelfTyped
<1>3. ASSUME NEW w \in Shelved, Shelf!Open(w) PROVE ShelfInv'
  BY <1>3, DrawnStep DEF Shelf!Open, Shelf!listing, ShelfInv, ShelfTyped
<1>4. ASSUME NEW w \in Shelved, Shelf!Left(w) PROVE ShelfInv'
  <2>1. drawer[w].found \in {"", "hidden"} BY <1>4 DEF Shelf!Left, ShelfInv, ShelfTyped, Drawer
  <2> QED BY <1>4, <2>1, OneDrawerStep DEF Shelf!Left, Shelf!listing
<1>5. ASSUME NEW w \in Shelved, Shelf!Kebab(w) PROVE ShelfInv'
  BY <1>5 DEF Shelf!Kebab, Shelf!listing, ShelfInv, ShelfTyped, ChosenByUser, Shelf!OnDrawer
<1>6. ASSUME NEW w \in Shelved, Shelf!OnDelete(w) PROVE ShelfInv'
  <2>1. work' \in [Shelved -> Shelf!Work \cup {None}] BY <1>6 DEF Shelf!OnDelete, ShelfInv, ShelfTyped
  <2>2. Shelf!Deselected(w) \in Shelved \cup {None}
        /\ (Shelf!Deselected(w) # None => Shelf!Deselected(w) = selected /\ selected # w /\ opened = selected)
    BY DEF Shelf!Deselected, ShelfInv, ShelfTyped, ChosenByUser
  <2>3. Shelf!Deselected(w) # None => opened' = Shelf!Deselected(w)
    BY <1>6, <2>2 DEF Shelf!OnDelete
  <2> QED BY <1>6, <2>1, <2>2, <2>3, DrawnStep DEF Shelf!OnDelete, Shelf!listing, ShelfInv, ShelfTyped
<1>7. ASSUME NEW w \in Shelved, NEW s \in {"source", "dubbed"}, Shelf!Side(w, s) PROVE ShelfInv'
  <2> DEFINE d == [drawer[w] EXCEPT !.side = s]
  <2>1. Shelf!OnDrawer(w) /\ drawer[w] \in Drawer /\ drawer' = [drawer EXCEPT ![w] = d]
        /\ UNCHANGED <<work, filter, selected, overflow, menu, opened>>
    BY <1>7 DEF Shelf!Side, Shelf!OnDrawer, Shelf!listing, ShelfInv, ShelfTyped
  <2>2. d \in Drawer BY <2>1 DEF Drawer
  <2> HIDE DEF d
  <2>3. overflow' \in {"", "hidden"} BY <2>1 DEF ShelfInv, ShelfTyped
  <2> QED BY <2>1, <2>2, <2>3, OneDrawerStep
<1>8. ASSUME NEW w \in Shelved, NEW t \in {0, 1}, Shelf!Plays(w, t) PROVE ShelfInv'
  <2> DEFINE d == [drawer[w] EXCEPT !.time = t]
  <2>1. Shelf!OnDrawer(w) /\ drawer[w] \in Drawer /\ drawer' = [drawer EXCEPT ![w] = d]
        /\ UNCHANGED <<work, filter, selected, overflow, menu, opened>>
    BY <1>8 DEF Shelf!Plays, Shelf!OnDrawer, Shelf!listing, ShelfInv, ShelfTyped
  <2>2. d \in Drawer BY <2>1 DEF Drawer
  <2> HIDE DEF d
  <2>3. overflow' \in {"", "hidden"} BY <2>1 DEF ShelfInv, ShelfTyped
  <2> QED BY <2>1, <2>2, <2>3, OneDrawerStep
<1>9. ASSUME NEW w \in Shelved, NEW new \in Shelf!Work \cup {None}, Shelf!Arrives(w, new) PROVE ShelfInv'
  <2>1. work' \in [Shelved -> Shelf!Work \cup {None}] /\ menu' \subseteq Shelved
    BY <1>9 DEF Shelf!Arrives, ShelfInv, ShelfTyped
  <2>2. Shelf!Drawn(selected, Shelf!Present') /\ filter' = filter /\ opened' = opened
    BY <1>9 DEF Shelf!Arrives, Shelf!listing
  <2>3. selected # None => opened' = selected BY <2>2 DEF ShelfInv, ChosenByUser
  <2>4. selected \in Shelved \cup {None} BY DEF ShelfInv, ShelfTyped
  <2> DEFINE present == Shelf!Present'
  <2>5. Shelf!Drawn(selected, present) BY <2>2
  <2> HIDE DEF present
  <2> QED BY <2>1, <2>2, <2>3, <2>4, <2>5, DrawnStep
<1>10. CASE UNCHANGED Shelf!vars
  BY <1>10 DEF Shelf!vars, ShelfInv, ShelfTyped, ChosenByUser, Shelf!OnDrawer
<1> QED BY <1>1, <1>2, <1>3, <1>4, <1>5, <1>6, <1>7, <1>8, <1>9, <1>10 DEF Shelf!Next

\* What the run checks follows from the invariant.
LEMMA ShelfInvIsEnough == ShelfInv => Shelf!TypeOK /\ Shelf!OpenedByUser
<1> SUFFICES ASSUME ShelfInv PROVE Shelf!TypeOK /\ Shelf!OpenedByUser OBVIOUS
<1>1. Shelf!OpenedByUser BY ShelfAssumption DEF ShelfInv, ChosenByUser, Shelf!OpenedByUser
<1> DEFINE shown == {w \in Shelved : Shelf!OnDrawer(w)}
<1>2. shown \subseteq {selected} BY DEF ShelfInv, ChosenByUser
<1> HIDE DEF shown
<1>3. Cardinality(shown) <= 1
  <2>1. IsFiniteSet({selected}) /\ Cardinality({selected}) = 1 BY FS_Singleton
  <2>2. Cardinality(shown) <= Cardinality({selected}) /\ Cardinality(shown) \in Nat
    BY <1>2, <2>1, FS_Subset, FS_CardinalityType
  <2> QED BY <2>1, <2>2
<1>4. Shelf!Cardinality(shown) = Cardinality(shown) BY DEF Shelf!Cardinality, Cardinality
<1> QED BY <1>1, <1>3, <1>4 DEF ShelfInv, ShelfTyped, Filters, Shelf!TypeOK, shown

\* The drawer shown is the one the user opened.
LEMMA ShelfInvariant == Shelf!Spec => [](Shelf!TypeOK /\ Shelf!OpenedByUser)
  BY ShelfStart, ShelfStep, ShelfInvIsEnough, PTL DEF Shelf!Spec
-----------------------------------------------------------------------------
(* The tour (Guide): a page that is opened late, after its account left the tour, is of an
   account that has seen it, and the tour is due on no such page; a page that left the picker, or is
   on its way to the tools, has a clip. *)
Pages == [on : Newcomers \cup {None}, clip : TourClips \cup {None}, picking : BOOLEAN,
          open : Tour!Steps \cup {None}, touched : SUBSET Tour!Tools, moving : BOOLEAN,
          job : {None, "running", "over"}, tour : BOOLEAN, at : 1 .. 9, auto : BOOLEAN, due : BOOLEAN,
          asking : Nat, sending : Nat, busy : BOOLEAN, stray : BOOLEAN, late : BOOLEAN, moves : Nat]
GoodPage(p, known_) ==
  /\ p \in Pages /\ (p.late => p.on \in known_ /\ ~p.due)
  /\ (p.moving => p.clip # None) /\ (~p.picking => p.clip # None)
TourTyped ==
  /\ tourSeen \subseteq Newcomers /\ tourLeft \subseteq tourSeen /\ day \in 0 .. LastDay /\ pages \in 0 .. PageLoads
  /\ registered \in [Newcomers -> 0 .. LastDay \cup {None}] /\ born \in [Newcomers -> 0 .. LastDay \cup {None}]
TourInv == TourTyped /\ page \in [Screens -> Pages] /\ \A t \in Screens : GoodPage(page[t], tourSeen)

\* A page that is just loaded.
LEMMA NewPageIsGood == GoodPage(Tour!NoPage, tourSeen)
<1>1. Tour!NoPage \in Pages
  BY DEF Tour!NoPage, Pages, Tour!Steps
<1> QED BY <1>1 DEF Tour!NoPage, GoodPage, Tour!InTools

\* No page has been opened yet.
LEMMA TourStart == Tour!Init => TourInv
<1> SUFFICES ASSUME Tour!Init PROVE TourInv OBVIOUS
<1>1. TourTyped BY TourAssumption DEF Tour!Init, TourTyped
<1>2. page = [t \in Screens |-> Tour!NoPage] BY DEF Tour!Init
<1> QED BY <1>1, <1>2, NewPageIsGood DEF TourInv, GoodPage

\* Entering a step changes where the tour is and what is open.
LEMMA EnteredIsGood ==
  ASSUME NEW p, NEW s, GoodPage(p, s), NEW n \in 1 .. 9
  PROVE  GoodPage(Tour!Entered(p, n), s)
<1> DEFINE o == IF Tour!TourSteps[n] \in Tour!Steps THEN Tour!TourSteps[n] ELSE p.open
           q == [p EXCEPT !.at = n, !.open = o]
<1>1. o \in Tour!Steps \cup {None} BY DEF GoodPage, Pages
<1>2. Tour!Entered(p, n) = q BY DEF Tour!Entered
<1> HIDE DEF o
<1>3. q \in Pages BY <1>1 DEF GoodPage, Pages
<1>4. /\ q.late = p.late /\ q.on = p.on /\ q.due = p.due /\ q.moving = p.moving /\ q.clip = p.clip
      /\ q.picking = p.picking /\ q.job = p.job
  BY DEF GoodPage, Pages
<1> HIDE DEF q
<1> QED BY <1>2, <1>3, <1>4 DEF GoodPage, Tour!InTools

\* The tour is due on no page that is late.
LEMMA AutoStartIsGood ==
  ASSUME NEW p, GoodPage(p, tourSeen)
  PROVE  GoodPage(Tour!AutoStart(p), tourSeen)
<1> DEFINE q == [p EXCEPT !.auto = TRUE, !.due = TRUE]
<1>1. q \in Pages BY DEF GoodPage, Pages
<1>2. /\ q.late = p.late /\ q.on = p.on /\ q.moving = p.moving /\ q.clip = p.clip
      /\ q.picking = p.picking /\ q.job = p.job
  BY DEF GoodPage, Pages
<1>3. Tour!ShouldAutoStartTour(p.on) => ~p.late
  BY DEF Tour!ShouldAutoStartTour, GoodPage
<1>4. Tour!AutoStart(p) = p \/ (Tour!AutoStart(p) = q /\ Tour!ShouldAutoStartTour(p.on))
  BY DEF Tour!AutoStart
<1> HIDE DEF q
<1>5. ~p.late => GoodPage(q, tourSeen) BY <1>1, <1>2 DEF GoodPage, Tour!InTools
<1> QED BY <1>3, <1>4, <1>5

\* From the picker to the tools, with a clip.
LEMMA GoToToolsIsGood ==
  ASSUME NEW p, NEW s, GoodPage(p, s), p.clip # None
  PROVE  GoodPage(Tour!GoToTools(p), s) /\ Tour!GoToTools(p).clip # None
<1> DEFINE o == IF p.open \in {"source", None} THEN "languages" ELSE p.open
           q == [p EXCEPT !.picking = FALSE, !.open = o]
<1>1. o \in Tour!Steps \cup {None} BY DEF GoodPage, Pages, Tour!Steps, Tour!Tools
<1>2. Tour!GoToTools(p) = q BY DEF Tour!GoToTools, GoodPage, Pages
<1> HIDE DEF o
<1>3. q \in Pages BY <1>1 DEF GoodPage, Pages
<1>4. q.late = p.late /\ q.on = p.on /\ q.due = p.due /\ q.clip = p.clip
  BY DEF GoodPage, Pages
<1> HIDE DEF q
<1> QED BY <1>2, <1>3, <1>4 DEF GoodPage

\* With no clip the page is at the picker.
LEMMA ChosenIsGood ==
  ASSUME NEW p, NEW s, GoodPage(p, s), NEW c \in TourClips \cup {None}
  PROVE  GoodPage(Tour!Chosen(p, c), s)
<1> DEFINE q == [p EXCEPT !.clip = None, !.picking = TRUE, !.moving = FALSE]
           r == [p EXCEPT !.clip = c, !.moving = TRUE]
<1>1. CASE c = None
  <2>1. Tour!Chosen(p, c) = q BY <1>1 DEF Tour!Chosen
  <2>2. q \in Pages BY DEF GoodPage, Pages
  <2>3. q.late = p.late /\ q.on = p.on /\ q.due = p.due /\ q.moving = FALSE /\ q.picking = TRUE /\ q.job = p.job
    BY DEF GoodPage, Pages
  <2> HIDE DEF q
  <2> QED BY <2>1, <2>2, <2>3 DEF GoodPage, Tour!InTools
<1>2. CASE c # None
  <2>1. Tour!Chosen(p, c) = r BY <1>2 DEF Tour!Chosen
  <2>2. r \in Pages BY DEF GoodPage, Pages
  <2>3. r.late = p.late /\ r.on = p.on /\ r.due = p.due /\ r.clip = c
    BY DEF GoodPage, Pages
  <2> HIDE DEF r
  <2> QED BY <1>2, <2>1, <2>2, <2>3 DEF GoodPage
<1> QED BY <1>1, <1>2

\* One page is changed, and what is remembered of accounts only grows.
LEMMA PageStep ==
  ASSUME TourInv, NEW t \in Screens, NEW q, GoodPage(q, tourSeen'), page' = [page EXCEPT ![t] = q],
         TourTyped', tourSeen \subseteq tourSeen'
  PROVE  TourInv'
<1>1. page' \in [Screens -> Pages] BY DEF TourInv, GoodPage
<1>2. \A v \in Screens : GoodPage(page'[v], tourSeen')
  <2> TAKE v \in Screens
  <2>1. CASE v = t BY <2>1 DEF TourInv
  <2>2. CASE v # t
    <3>1. page'[v] = page[v] /\ GoodPage(page[v], tourSeen) BY <2>2 DEF TourInv
    <3> QED BY <3>1 DEF GoodPage
  <2> QED BY <2>1, <2>2
<1> QED BY <1>1, <1>2 DEF TourInv

\* Steps that leave what the browser stores.
LEMMA StoredStep ==
  ASSUME TourInv, UNCHANGED Tour!store
  PROVE  TourTyped' /\ tourSeen' = tourSeen
  BY DEF Tour!store, TourInv, TourTyped

\* A step of one page within its bound of moves.
LEMMA BecomesStep ==
  ASSUME TourInv, NEW t \in Screens, NEW p, GoodPage(p, tourSeen), Tour!Becomes(t, p)
  PROVE  TourInv'
<1> DEFINE q == [p EXCEPT !.moves = p.moves + 1]
<1>1. page' = [page EXCEPT ![t] = q] /\ UNCHANGED Tour!store BY DEF Tour!Becomes, GoodPage, Pages
<1>2. q \in Pages BY DEF GoodPage, Pages
<1>3. /\ q.late = p.late /\ q.on = p.on /\ q.due = p.due /\ q.moving = p.moving /\ q.clip = p.clip
      /\ q.picking = p.picking /\ q.job = p.job
  BY DEF GoodPage, Pages
<1> HIDE DEF q
<1>4. GoodPage(q, tourSeen) BY <1>2, <1>3 DEF GoodPage, Tour!InTools
<1>5. TourTyped' /\ tourSeen' = tourSeen BY <1>1, StoredStep
<1> QED BY <1>1, <1>4, <1>5, PageStep

\* Whoever leaves has seen it.
LEMMA LeavesStep ==
  ASSUME TourInv, NEW t \in Screens, Tour!Live(t), Tour!Leaves(t)
  PROVE  TourInv'
<1> DEFINE p == page[t]
           q == [p EXCEPT !.tour = FALSE, !.at = 1, !.moves = p.moves + 1]
<1>1. p \in Pages /\ GoodPage(p, tourSeen) /\ p.on # None BY DEF TourInv, Tour!Live
<1>2. /\ page' = [page EXCEPT ![t] = q] /\ tourSeen' = tourSeen \cup {p.on} /\ tourLeft' = tourLeft \cup {p.on}
      /\ UNCHANGED <<registered, born, day, pages>>
  BY <1>1 DEF Tour!Leaves, Tour!Finish, TourInv, Pages
<1>3. ASSUME NEW x \in Pages, NEW n \in 1 .. 9, NEW m \in Nat
      PROVE  [x EXCEPT !.tour = FALSE, !.at = n, !.moves = m] \in Pages
  BY DEF Pages
<1>3b. p.moves + 1 \in Nat /\ 1 \in 1 .. 9 BY <1>1 DEF Pages
<1>3a. q \in Pages BY <1>1, <1>3, <1>3b
<1>4. /\ q.late = p.late /\ q.on = p.on /\ q.due = p.due /\ q.moving = p.moving /\ q.clip = p.clip
      /\ q.picking = p.picking /\ q.job = p.job
  BY <1>1 DEF Pages
<1>5. p.on \in Newcomers BY <1>1 DEF Pages
<1> HIDE DEF q, p
<1>6. GoodPage(q, tourSeen') BY <1>1, <1>2, <1>3a, <1>4 DEF GoodPage, Tour!InTools
<1>7. TourTyped' /\ tourSeen \subseteq tourSeen' BY <1>2, <1>5 DEF TourInv, TourTyped
<1> QED BY <1>2, <1>6, <1>7, PageStep

\* An account is made, or handed over to this browser.
LEMMA AccountStep ==
  ASSUME TourInv, NEW a \in Newcomers, Tour!Register(a) \/ Tour!HandedOver(a)
  PROVE  TourInv'
<1>1. page' = page /\ tourSeen' = tourSeen /\ TourTyped'
  BY DEF Tour!Register, Tour!HandedOver, TourInv, TourTyped
<1> QED BY <1>1 DEF TourInv, GoodPage

\* A page is loaded for an account.
LEMMA MountStep ==
  ASSUME TourInv, NEW t \in Screens, NEW a \in Newcomers, Tour!Mount(t, a)
  PROVE  TourInv'
<1> DEFINE after == a \in tourLeft
           new == [Tour!NoPage EXCEPT !.on = a, !.late = after]
<1>0. after \in BOOLEAN OBVIOUS
<1> HIDE DEF after
<1>1. Tour!NoPage \in Pages BY NewPageIsGood DEF GoodPage
<1>2. new \in Pages BY <1>0, <1>1 DEF Pages
<1>3a. /\ new.late = after /\ new.on = a /\ ~new.due /\ ~new.moving /\ new.picking /\ new.job = None
  BY DEF Tour!NoPage
<1>3. /\ new.late = (a \in tourLeft) /\ new.on = a /\ ~new.due /\ ~new.moving /\ new.picking /\ new.job = None
  BY <1>3a DEF after
<1>4. page' = [page EXCEPT ![t] = Tour!AutoStart(new)] /\ pages < PageLoads /\ pages' = pages + 1
      /\ UNCHANGED <<tourSeen, registered, born, day, tourLeft>>
  BY DEF Tour!Mount, after
<1> HIDE DEF new
<1>5. GoodPage(new, tourSeen) BY <1>2, <1>3 DEF GoodPage, Tour!InTools, TourInv, TourTyped
<1>6. GoodPage(Tour!AutoStart(new), tourSeen') BY <1>4, <1>5, AutoStartIsGood
<1>7. TourTyped' /\ tourSeen' = tourSeen BY <1>4, TourAssumption DEF TourInv, TourTyped
<1> QED BY <1>4, <1>6, <1>7, PageStep

\* What is set on a page by one field or two.
LEMMA FieldsAreGood ==
  ASSUME NEW p, NEW s, GoodPage(p, s)
  PROVE  /\ GoodPage([p EXCEPT !.due = FALSE, !.tour = TRUE], s) /\ GoodPage([p EXCEPT !.tour = TRUE], s)
         /\ GoodPage([p EXCEPT !.moving = FALSE], s)
         /\ GoodPage([p EXCEPT !.picking = TRUE, !.open = "source"], s) 
         /\ \A o \in Tour!Steps \cup {None} : GoodPage([p EXCEPT !.open = o], s)
         /\ \A o \in Tour!Tools : GoodPage([p EXCEPT !.touched = @ \cup {o}], s)
<1> USE DEF GoodPage, Pages, Tour!InTools
<1>1. GoodPage([p EXCEPT !.due = FALSE, !.tour = TRUE], s) OBVIOUS
<1>2. GoodPage([p EXCEPT !.tour = TRUE], s) OBVIOUS
<1>3. GoodPage([p EXCEPT !.moving = FALSE], s) OBVIOUS
<1>4. GoodPage([p EXCEPT !.picking = TRUE, !.open = "source"], s) BY DEF Tour!Steps
<1>5. \A o \in Tour!Steps \cup {None} : GoodPage([p EXCEPT !.open = o], s) OBVIOUS
<1>6. \A o \in Tour!Tools : GoodPage([p EXCEPT !.touched = @ \cup {o}], s) OBVIOUS
<1> QED BY <1>1, <1>2, <1>3, <1>4, <1>5, <1>6

\* A run is shown, and cleared.
LEMMA JobIsGood ==
  ASSUME NEW p, NEW s, GoodPage(p, s)
  PROVE  /\ \A st \in {"running", "over"} : GoodPage([p EXCEPT !.job = st, !.due = FALSE], s)
         /\ GoodPage([p EXCEPT !.job = "over"], s)
         /\ GoodPage([p EXCEPT !.job = None], s) /\ GoodPage([p EXCEPT !.job = None, !.due = FALSE], s)
<1> USE DEF GoodPage, Pages
<1>1. \A st \in {"running", "over"} : GoodPage([p EXCEPT !.job = st, !.due = FALSE], s) OBVIOUS
<1>2. GoodPage([p EXCEPT !.job = "over"], s) OBVIOUS
<1>3. GoodPage([p EXCEPT !.job = None], s) OBVIOUS
<1>4. GoodPage([p EXCEPT !.job = None, !.due = FALSE], s) OBVIOUS
<1> QED BY <1>1, <1>2, <1>3, <1>4

\* A start that waits for its gate, then for its upload.
LEMMA WaitingIsGood ==
  ASSUME NEW p, NEW s, GoodPage(p, s)
  PROVE  /\ \A n \in Nat : GoodPage([p EXCEPT !.asking = n], s)
         /\ \A n, m \in Nat : GoodPage([p EXCEPT !.asking = n, !.sending = m, !.busy = TRUE, !.stray = FALSE], s)
         /\ \A n \in Nat : GoodPage([p EXCEPT !.sending = n, !.busy = FALSE], s)
         /\ \A n \in Nat, v \in BOOLEAN : GoodPage([p EXCEPT !.sending = n, !.busy = FALSE, !.stray = v], s)
<1> USE DEF GoodPage, Pages
<1>1. \A n \in Nat : GoodPage([p EXCEPT !.asking = n], s) OBVIOUS
<1>2. \A n, m \in Nat : GoodPage([p EXCEPT !.asking = n, !.sending = m, !.busy = TRUE, !.stray = FALSE], s) OBVIOUS
<1>3. \A n \in Nat : GoodPage([p EXCEPT !.sending = n, !.busy = FALSE], s) OBVIOUS
<1>4. \A n \in Nat, v \in BOOLEAN : GoodPage([p EXCEPT !.sending = n, !.busy = FALSE, !.stray = v], s) OBVIOUS
<1> QED BY <1>1, <1>2, <1>3, <1>4

\* What comes of a start, and of the runs.
LEMMA RunsStep ==
  ASSUME TourInv, NEW t \in Screens,
         \/ Tour!Refused(t) \/ Tour!Allowed(t) \/ Tour!NotSent(t) \/ Tour!Sent(t)
         \/ Tour!RunEnds(t) \/ Tour!StrayShown(t)
  PROVE  TourInv'
<1> DEFINE p == page[t]
<1>1. GoodPage(p, tourSeen) /\ p \in Pages BY DEF TourInv
<1>a. p.asking \in Nat /\ p.sending \in Nat /\ p.stray \in BOOLEAN BY <1>1 DEF Pages
<1>2. ASSUME NEW q, GoodPage(q, tourSeen), page' = [page EXCEPT ![t] = q], UNCHANGED Tour!store PROVE TourInv'
  BY <1>2, StoredStep, PageStep
<1>3. CASE Tour!Refused(t)
  <2>1. page' = [page EXCEPT ![t] = [p EXCEPT !.asking = p.asking - 1]] /\ UNCHANGED Tour!store /\ p.asking - 1 \in Nat
    BY <1>3, <1>a DEF Tour!Refused, TourInv
  <2> QED BY <1>1, <1>2, <2>1, WaitingIsGood
<1>4. CASE Tour!Allowed(t)
  <2> DEFINE w == [p EXCEPT !.asking = p.asking - 1, !.sending = p.sending + 1, !.busy = TRUE, !.stray = FALSE]
  <2>1. page' = [page EXCEPT ![t] = Tour!PutAway(w)] /\ UNCHANGED Tour!store
        /\ p.asking - 1 \in Nat /\ p.sending + 1 \in Nat
    BY <1>4, <1>a DEF Tour!Allowed, TourInv
  <2>2. GoodPage(w, tourSeen) BY <1>1, <2>1, WaitingIsGood
  <2> HIDE DEF w
  <2>3. GoodPage(Tour!PutAway(w), tourSeen) BY <2>2, JobIsGood, AutoStartIsGood DEF Tour!PutAway
  <2> QED BY <1>2, <2>1, <2>3
<1>5. CASE Tour!NotSent(t)
  <2>1. page' = [page EXCEPT ![t] = [p EXCEPT !.sending = p.sending - 1, !.busy = FALSE]]
        /\ UNCHANGED Tour!store /\ p.sending - 1 \in Nat
    BY <1>5, <1>a DEF Tour!NotSent, TourInv
  <2> QED BY <1>1, <1>2, <2>1, WaitingIsGood
<1>6. CASE Tour!Sent(t)
  <2> DEFINE v == p.stray \/ p.job # None
             w == [p EXCEPT !.sending = p.sending - 1, !.busy = FALSE, !.stray = v]
  <2>1. page' = [page EXCEPT ![t] = [w EXCEPT !.job = "running", !.due = FALSE]]
        /\ UNCHANGED Tour!store /\ p.sending - 1 \in Nat /\ v \in BOOLEAN
    BY <1>6, <1>a DEF Tour!Sent, TourInv
  <2> HIDE DEF v
  <2>2. GoodPage(w, tourSeen) BY <1>1, <2>1, WaitingIsGood
  <2> HIDE DEF w
  <2> QED BY <1>2, <2>1, <2>2, JobIsGood
<1>7. CASE Tour!RunEnds(t)
  <2>1. page' = [page EXCEPT ![t] = [p EXCEPT !.job = "over"]] /\ UNCHANGED Tour!store
    BY <1>7 DEF Tour!RunEnds, TourInv
  <2> QED BY <1>1, <1>2, <2>1, JobIsGood
<1>8. CASE Tour!StrayShown(t)
  <2>1. PICK st \in {"running", "over"} : page' = [page EXCEPT ![t] = [p EXCEPT !.job = st, !.due = FALSE]]
    BY <1>8 DEF Tour!StrayShown, TourInv
  <2>2. UNCHANGED Tour!store BY <1>8 DEF Tour!StrayShown
  <2> QED BY <1>1, <1>2, <2>1, <2>2, JobIsGood
<1> QED BY <1>3, <1>4, <1>5, <1>6, <1>7, <1>8

\* What a person does at the deck.
LEMMA DeckStep ==
  ASSUME TourInv, NEW t \in Screens,
         \/ Tour!Continue(t) \/ Tour!BackToSource(t) \/ Tour!Start(t) \/ Tour!Reset(t)
         \/ Tour!NextTool(t, "languages", "options") \/ Tour!NextTool(t, "options", "quality")
         \/ \E c \in TourClips \cup {None} : Tour!Choose(t, c)
         \/ \E s \in Tour!Steps : Tour!ToggleStep(t, s) \/ Tour!Touch(t, s)
         \/ \E s \in Tour!Tools : Tour!PickTool(t, s)
  PROVE  TourInv'
<1>1. GoodPage(page[t], tourSeen) BY DEF TourInv
<1> SUFFICES \E p : GoodPage(p, tourSeen) /\ Tour!Becomes(t, p) BY BecomesStep
<1>2. CASE Tour!Continue(t)
  BY <1>1, <1>2, GoToToolsIsGood DEF Tour!Continue
<1>3. CASE Tour!BackToSource(t)
  BY <1>1, <1>3, FieldsAreGood DEF Tour!BackToSource
<1>4. CASE Tour!Start(t)
  <2>1. page[t].asking + 1 \in Nat /\ Tour!Becomes(t, [page[t] EXCEPT !.asking = page[t].asking + 1])
    BY <1>1, <1>4 DEF Tour!Start, GoodPage, Pages
  <2> QED BY <1>1, <2>1, WaitingIsGood
<1>5. CASE Tour!Reset(t)
  BY <1>1, <1>5, JobIsGood, AutoStartIsGood DEF Tour!Reset
<1>6. ASSUME NEW s \in Tour!Tools, NEW n \in Tour!Tools, Tour!NextTool(t, s, n)
      PROVE  \E p : GoodPage(p, tourSeen) /\ Tour!Becomes(t, p)
  <2> DEFINE m == Tour!MarkTouched(page[t], s)
  <2>1. GoodPage(m, tourSeen) BY <1>1, FieldsAreGood DEF Tour!MarkTouched
  <2>2. Tour!Becomes(t, [m EXCEPT !.open = n]) BY <1>6 DEF Tour!NextTool
  <2> HIDE DEF m
  <2>3. n \in Tour!Steps \cup {None} BY DEF Tour!Steps
  <2>4. GoodPage([m EXCEPT !.open = n], tourSeen) BY <2>1, <2>3, FieldsAreGood
  <2> QED BY <2>2, <2>4
<1>7. ASSUME NEW c \in TourClips \cup {None}, Tour!Choose(t, c)
      PROVE  \E p : GoodPage(p, tourSeen) /\ Tour!Becomes(t, p)
  <2>1. Tour!Becomes(t, Tour!Chosen(page[t], c))
    BY <1>7 DEF Tour!Choose
  <2> QED BY <1>1, <2>1, ChosenIsGood
<1>8. ASSUME NEW s \in Tour!Steps, Tour!ToggleStep(t, s)
      PROVE  \E p : GoodPage(p, tourSeen) /\ Tour!Becomes(t, p)
  <2> DEFINE o == IF page[t].open = s THEN None ELSE s
  <2>1. Tour!Becomes(t, [page[t] EXCEPT !.open = o]) /\ o \in Tour!Steps \cup {None}
    BY <1>1, <1>8 DEF Tour!ToggleStep, GoodPage, Pages
  <2> HIDE DEF o
  <2> QED BY <1>1, <2>1, FieldsAreGood
<1>9. ASSUME NEW s \in Tour!Steps, Tour!Touch(t, s)
      PROVE  \E p : GoodPage(p, tourSeen) /\ Tour!Becomes(t, p)
  BY <1>1, <1>9, FieldsAreGood DEF Tour!Touch, Tour!MarkTouched
<1>10. ASSUME NEW s \in Tour!Tools, Tour!PickTool(t, s)
      PROVE  \E p : GoodPage(p, tourSeen) /\ Tour!Becomes(t, p)
  BY <1>1, <1>10, FieldsAreGood DEF Tour!PickTool, Tour!Steps
<1>11. {"languages", "options", "quality"} \subseteq Tour!Tools BY DEF Tour!Tools
<1> QED BY <1>2, <1>3, <1>4, <1>5, <1>6, <1>7, <1>8, <1>9, <1>10, <1>11

\* What the tour does, and what comes by itself.
LEMMA TourMovesStep ==
  ASSUME TourInv, NEW t \in Screens,
         \/ Tour!Unmount(t) \/ Tour!TourDue(t) \/ Tour!OpenGuide(t) \/ Tour!NextStep(t) \/ Tour!Back(t) \/ Tour!Skip(t)
         \/ Tour!MovesOn(t) \/ \E n \in 1 .. 9 : Tour!Jump(t, n)
  PROVE  TourInv'
<1>1. GoodPage(page[t], tourSeen) /\ page[t] \in Pages BY DEF TourInv
<1>2. ASSUME NEW q, GoodPage(q, tourSeen), page' = [page EXCEPT ![t] = q], UNCHANGED Tour!store PROVE TourInv'
  BY <1>2, StoredStep, PageStep
<1>3. CASE Tour!Unmount(t)
  BY <1>2, <1>3, NewPageIsGood DEF Tour!Unmount
<1>4. CASE Tour!TourDue(t)
  <2> DEFINE p == [page[t] EXCEPT !.due = FALSE, !.tour = TRUE]
             n == IF page[t].tour THEN page[t].at ELSE 1
  <2>1. page' = [page EXCEPT ![t] = Tour!Entered(p, n)] /\ UNCHANGED Tour!store
    BY <1>4 DEF Tour!TourDue, TourInv
  <2>2. GoodPage(p, tourSeen) BY <1>1, FieldsAreGood
  <2>3. n \in 1 .. 9 BY <1>1 DEF Pages
  <2> HIDE DEF p, n
  <2> QED BY <1>2, <2>1, <2>2, <2>3, EnteredIsGood
<1>5. CASE Tour!OpenGuide(t)
  <2> DEFINE p == [page[t] EXCEPT !.tour = TRUE]
  <2>1. Tour!Becomes(t, Tour!Entered(p, 1)) BY <1>5 DEF Tour!OpenGuide
  <2>2. GoodPage(p, tourSeen) BY <1>1, FieldsAreGood
  <2> HIDE DEF p
  <2>3. GoodPage(Tour!Entered(p, 1), tourSeen) BY <2>2, EnteredIsGood
  <2> QED BY <2>1, <2>3, BecomesStep
<1>6. ASSUME NEW n \in 1 .. 9, Tour!Goes(t, n) PROVE TourInv'
  BY <1>1, <1>6, EnteredIsGood, BecomesStep DEF Tour!Goes
<1>7. CASE Tour!NextStep(t)
  <2>1. CASE page[t].at = 9
    BY <1>7, <2>1, LeavesStep DEF Tour!NextStep, Tour!InTour, Tour!Last
  <2>2. CASE page[t].at # 9
    <3>1. page[t].at + 1 \in 1 .. 9 BY <1>1, <2>2 DEF Pages
    <3> QED BY <1>6, <1>7, <2>2, <3>1 DEF Tour!NextStep, Tour!Last
  <2> QED BY <2>1, <2>2
<1>8. CASE Tour!Back(t)
  <2>1. page[t].at - 1 \in 1 .. 9 BY <1>1, <1>8 DEF Pages, Tour!Back
  <2> QED BY <1>6, <1>8, <2>1 DEF Tour!Back
<1>9. CASE Tour!Skip(t)
  BY <1>9, LeavesStep DEF Tour!Skip, Tour!InTour
<1>10. CASE Tour!MovesOn(t)
  <2> DEFINE g == Tour!GoToTools(page[t])
  <2>1. page' = [page EXCEPT ![t] = [g EXCEPT !.moving = FALSE]] /\ UNCHANGED Tour!store /\ page[t].moving
    BY <1>10 DEF Tour!MovesOn, TourInv
  <2>2. GoodPage(g, tourSeen) BY <1>1, <2>1, GoToToolsIsGood DEF GoodPage
  <2> HIDE DEF g
  <2> QED BY <1>2, <2>1, <2>2, FieldsAreGood
<1>12. ASSUME NEW n \in 1 .. 9, Tour!Jump(t, n) PROVE TourInv'
  BY <1>6, <1>12 DEF Tour!Jump
<1> QED BY <1>3, <1>4, <1>5, <1>7, <1>8, <1>9, <1>10, <1>12

\* Every step keeps the invariant.
LEMMA TourStep == TourInv /\ [Tour!Next]_(Tour!vars) => TourInv'
<1> SUFFICES ASSUME TourInv, [Tour!Next]_(Tour!vars) PROVE TourInv' OBVIOUS
<1>1. CASE Tour!Day
  <2>1. page' = page /\ tourSeen' = tourSeen /\ TourTyped'
    BY <1>1, TourAssumption DEF Tour!Day, TourInv, TourTyped
  <2> QED BY <2>1 DEF TourInv, GoodPage
<1>2. CASE UNCHANGED Tour!vars
  <2>1. page' = page /\ tourSeen' = tourSeen /\ TourTyped'
    BY <1>2 DEF Tour!vars, TourInv, TourTyped
  <2> QED BY <2>1 DEF TourInv, GoodPage
<1> QED BY <1>1, <1>2, AccountStep, MountStep, DeckStep, TourMovesStep, RunsStep DEF Tour!Next, Tour!Last

\* What the run checks follows from the invariant.
LEMMA TourInvIsEnough == TourInv => Tour!TypeOK /\ Tour!SkippingSticks /\ Tour!ToolsHaveClip
<1> SUFFICES ASSUME TourInv PROVE Tour!TypeOK /\ Tour!SkippingSticks /\ Tour!ToolsHaveClip OBVIOUS
<1>1. Tour!SkippingSticks /\ Tour!ToolsHaveClip
  BY DEF TourInv, GoodPage, Tour!SkippingSticks, Tour!ToolsHaveClip, Tour!InTools
<1>2. ASSUME NEW p \in Pages PROVE Tour!StepsDone(p) \in 0 .. 4
  <2>1. IsFiniteSet(Tour!Tools) /\ Cardinality(Tour!Tools) <= 3
    <3>1. IsFiniteSet({}) /\ Cardinality({}) = 0 BY FS_EmptySet
    <3>2. IsFiniteSet({"quality"}) /\ Cardinality({"quality"}) = 1 BY FS_Singleton
    <3>3. {"quality", "options"} = {"quality"} \cup {"options"} OBVIOUS
    <3>4. IsFiniteSet({"quality", "options"}) /\ Cardinality({"quality", "options"}) = 2
      BY <3>2, <3>3, FS_AddElement
    <3>5. Tour!Tools = {"quality", "options"} \cup {"languages"} BY DEF Tour!Tools
    <3> QED BY <3>4, <3>5, FS_AddElement
  <2>2. p.touched \subseteq Tour!Tools BY DEF Pages
  <2>3. Cardinality(p.touched) \in Nat /\ Cardinality(p.touched) <= 3
    BY <2>1, <2>2, FS_Subset, FS_CardinalityType
  <2>4. Tour!Cardinality(p.touched) = Cardinality(p.touched) BY DEF Tour!Cardinality, Cardinality
  <2> QED BY <2>3, <2>4 DEF Tour!StepsDone
<1>3. TourTyped /\ page \in [Screens -> Pages] BY DEF TourInv
<1>4. ASSUME NEW t \in Screens
      PROVE  LET p == page[t] IN
             /\ p.on \in Newcomers \cup {None} /\ p.clip \in TourClips \cup {None} /\ p.open \in Tour!Steps \cup {None}
             /\ p.touched \subseteq Tour!Tools /\ p.job \in {None, "running", "over"} /\ p.at \in 1 .. Tour!Last
             /\ Tour!StepsDone(p) \in 0 .. 4 /\ p.asking \in Nat /\ p.sending \in Nat
  <2>1. page[t] \in Pages BY <1>3
  <2>2. Tour!StepsDone(page[t]) \in 0 .. 4 BY <1>2, <2>1
  <2> QED BY <2>1, <2>2 DEF Pages, Tour!Last
<1>5. Tour!TypeOK BY <1>3, <1>4 DEF Tour!TypeOK, TourTyped
<1> QED BY <1>1, <1>5

\* A tour that was skipped does not start by itself again; the tools have a clip.
LEMMA TourInvariant == Tour!Spec => [](Tour!TypeOK /\ Tour!SkippingSticks /\ Tour!ToolsHaveClip)
  BY TourStart, TourStep, TourInvIsEnough, PTL DEF Tour!Spec
-----------------------------------------------------------------------------
(* The dubbing form (DubForm): once the page knows a plan, what is on the form is within
   it; a run whose page knew what its user has is let pass as long as that holds; and what
   is on the form of a run repeated is what the run recorded, as far as the plan goes. *)
Chosen == {"studio", "language", "voice", "reference", "background", "lipsync", "subtitles"}
PlansKnown == {None, "FREE", "STUDIO"}
Started == [at : {"gate", "created", "refused"}, o : Form!Form, asked : SUBSET Chosen, same : BOOLEAN, fresh : BOOLEAN]
GoodRun(x) ==
  /\ x \in Started /\ x.same /\ (x.at = "refused" => ~x.fresh)
  /\ x.o.wants \subseteq Form!Recorded /\ x.o.voice \in {"native", "both"}
  /\ x.at = "gate" /\ x.fresh => who # None /\ x.asked \subseteq Form!Features(Form!Tier(plan[who]))
FormTyped ==
  /\ who \in FormUsers \cup {None} /\ plan \in [FormUsers -> Form!Plan] /\ lips \in BOOLEAN
  /\ formMoves \in 0 .. FormChanges /\ known \in PlansKnown /\ wallet \in PlansKnown
Within(o) ==
  known # None =>
    /\ o.wants \subseteq Form!Features(known) /\ ("subtitles" \in o.wants => Form!CanSubtitles(wallet))
    /\ o.voice # "both" => "voice" \in Form!Features(known)
RunsGood == run \in [Replays -> Started \cup {None}] /\ \A r \in Replays : run[r] # None => GoodRun(run[r])
Repeats ==
  /\ replay \in Replays \cup {None} /\ (replay # None => run[replay] # None /\ run[replay].at = "created")
  /\ form # None => (replay # None => known \in formPlans) /\ (known = None => formPlans \subseteq {None})
FormWithin == form # None => form \in Form!Form /\ Within(form)
FormInv == FormTyped /\ RunsGood /\ Repeats /\ FormWithin /\ Form!ReplayKeeps

\* The form's options are the gates' ones.
LEMMA ChosenAreOptions == Form!Option0 = Chosen
<1>1. Form!Options = <<"studio", "language", "voice", "reference", "background", "lipsync", "subtitles">>
  BY DEF Form!Options
<1>2. DOMAIN Form!Options = 1 .. 7 BY <1>1
<1>3. Form!Option0 = {Form!Options[n] : n \in 1 .. 7} BY <1>2 DEF Form!Option0
<1>4. 1 .. 7 = {1, 2, 3, 4, 5, 6, 7} OBVIOUS
<1> QED BY <1>1, <1>3, <1>4 DEF Chosen

\* The free plan has no option, the largest has them all.
LEMMA FeaturesKnown ==
  /\ Form!Features("FREE") = {} /\ Chosen \subseteq Form!Features("STUDIO")
<1>1. {Form!Options[n] : n \in DOMAIN Form!Options} = Chosen BY ChosenAreOptions DEF Form!Option0
<1> QED BY <1>1 DEF Form!Features

\* What is settled is a form within the plan, and keeps of it what the plan has.
LEMMA SettledIsGood ==
  ASSUME NEW o \in Form!Form, NEW k \in PlansKnown, NEW w \in PlansKnown
  PROVE  LET s == Form!Settled(o, k, w) IN
         /\ s \in Form!Form
         /\ k = None => s = o
         /\ k # None => /\ s.wants = (o.wants \cap Form!Features(k)) \ (IF Form!CanSubtitles(w) THEN {} ELSE {"subtitles"})
                        /\ s.voice = IF "voice" \in Form!Features(k) THEN o.voice ELSE "both"
<1> DEFINE ws == (o.wants \cap Form!Features(k)) \ (IF Form!CanSubtitles(w) THEN {} ELSE {"subtitles"})
           v == IF "voice" \in Form!Features(k) THEN o.voice ELSE "both"
           s == [o EXCEPT !.wants = ws, !.voice = v]
<1>1. o.wants \subseteq Chosen /\ o.voice \in {"both", "speaker", "native"} BY ChosenAreOptions DEF Form!Form
<1>2. ws \subseteq Chosen /\ v \in {"both", "speaker", "native"} BY <1>1
<1>3. Form!Settled(o, k, w) = IF k = None THEN o ELSE s BY DEF Form!Settled, Form!Form
<1> HIDE DEF ws, v
<1>4. s \in Form!Form /\ s.wants = ws /\ s.voice = v BY <1>2, ChosenAreOptions DEF Form!Form
<1> HIDE DEF s
<1> QED BY <1>3, <1>4 DEF ws, v

\* No form is open and nothing runs.
LEMMA FormStart == Form!Init => FormInv
<1> SUFFICES ASSUME Form!Init PROVE FormInv OBVIOUS
<1>1. plan \in [FormUsers -> Form!Plan]
  <2>1. [tier |-> "FREE", late |-> FALSE] \in Form!Plan /\ [tier |-> "STUDIO", late |-> FALSE] \in Form!Plan
    BY DEF Form!Plan
  <2> QED BY <2>1 DEF Form!Init
<1>2. /\ who = None /\ known = None /\ wallet = None /\ lips \in BOOLEAN /\ form = None /\ replay = None /\ formPlans = {}
      /\ run = [r \in Replays |-> None] /\ formMoves = 0
  BY DEF Form!Init
<1> QED BY <1>1, <1>2, FormAssumption DEF FormInv, FormTyped, RunsGood, Repeats, FormWithin, PlansKnown, Form!ReplayKeeps

\* A settled form asks for nothing its page knows to be forbidden.
LEMMA SettledIsWithin ==
  ASSUME NEW o \in Form!Form, FormTyped
  PROVE  Form!Settled(o, known, wallet) \in Form!Form /\ Within(Form!Settled(o, known, wallet))
<1> DEFINE s == Form!Settled(o, known, wallet)
<1>1. s \in Form!Form
      /\ (known # None => /\ s.wants = (o.wants \cap Form!Features(known)) \ (IF Form!CanSubtitles(wallet) THEN {} ELSE {"subtitles"})
                          /\ s.voice = IF "voice" \in Form!Features(known) THEN o.voice ELSE "both")
  BY SettledIsGood DEF FormTyped
<1> HIDE DEF s
<1>2. Within(s) BY <1>1 DEF Within
<1> QED BY <1>1, <1>2 DEF s

\* A change of the form is brought within the plan, and ends that a run is repeated.
LEMMA ChangedStep ==
  ASSUME FormInv, form # None, NEW o \in Form!Form, Form!Changed(o)
  PROVE  FormInv'
<1>1. /\ form' = Form!Settled(o, known, wallet) /\ replay' = None
      /\ UNCHANGED <<who, plan, known, wallet, lips, formPlans, run, formMoves>>
  BY DEF Form!Changed, Form!account
<1>2. form' \in Form!Form /\ Within(form') BY <1>1, SettledIsWithin DEF FormInv
<1>3. FormWithin' BY <1>1, <1>2 DEF FormWithin, Within, Form!CanSubtitles
<1>4. FormTyped' /\ RunsGood' BY <1>1 DEF FormInv, FormTyped, RunsGood, GoodRun
<1>5. Repeats' /\ Form!ReplayKeeps' BY <1>1 DEF FormInv, Repeats, Form!ReplayKeeps
<1> QED BY <1>2, <1>3, <1>4, <1>5 DEF FormInv

\* What the user does with the options.
LEMMA FormingStep ==
  ASSUME FormInv, Form!Forming
  PROVE  FormInv'
<1>1. ASSUME form # None, NEW w \in SUBSET Chosen, NEW v \in {"both", "speaker", "native"},
             NEW f \in {"auto", "turkic", "other"}
      PROVE  [form EXCEPT !.wants = w, !.voice = v, !.from = f] \in Form!Form
  BY <1>1, ChosenAreOptions DEF FormInv, FormWithin, Form!Form
<1>2. form # None => /\ form \in Form!Form /\ form.wants \subseteq Chosen /\ form.voice \in {"both", "speaker", "native"}
                     /\ form.from \in {"auto", "turkic", "other"}
  BY ChosenAreOptions DEF FormInv, FormWithin, Form!Form
<1>3. ASSUME form # None, NEW w \in SUBSET Chosen, Form!Changed([form EXCEPT !.wants = w]) PROVE FormInv'
  <2>1. [form EXCEPT !.wants = w] \in Form!Form BY <1>2, <1>3, ChosenAreOptions DEF Form!Form
  <2> QED BY <1>3, <2>1, ChangedStep
<1>4. ASSUME form # None, NEW f \in Chosen, Form!Toggle(f) PROVE FormInv'
  <2> DEFINE w == IF f \in form.wants THEN form.wants \ {f} ELSE form.wants \cup {f}
  <2>1. w \in SUBSET Chosen BY <1>2, <1>4
  <2>2. Form!Changed([form EXCEPT !.wants = w]) BY <1>2, <1>4 DEF Form!Toggle, Form!Form
  <2> HIDE DEF w
  <2> QED BY <1>3, <1>4, <2>1, <2>2
<1>5. ASSUME NEW f \in Played, Form!Option(f) PROVE FormInv'
  <2>1. f \in Chosen BY FormAssumption DEF Chosen
  <2> QED BY <1>4, <1>5, <2>1 DEF Form!Option
<1>6. ASSUME NEW m \in {"both", "speaker", "native"}, Form!Voice(m) PROVE FormInv'
  <2> DEFINE w == IF m = "native" THEN form.wants \ {"reference"} ELSE form.wants
             o == [form EXCEPT !.voice = m, !.wants = w]
  <2>1. form # None BY <1>6 DEF Form!Voice
  <2>2. w \in SUBSET Chosen BY <1>2, <2>1
  <2>3. Form!Changed(o) BY <1>2, <1>6, <2>1 DEF Form!Voice, Form!Form
  <2> HIDE DEF w
  <2>4. o \in Form!Form BY <1>2, <2>1, <2>2, ChosenAreOptions DEF Form!Form
  <2> HIDE DEF o
  <2> QED BY <2>1, <2>3, <2>4, ChangedStep
<1>7. CASE Form!Target
  <2>1. "language" \in Chosen BY DEF Chosen
  <2> QED BY <1>4, <1>7, <2>1 DEF Form!Target
<1>8. ASSUME NEW l \in {"auto", "turkic", "other"}, Form!From(l) PROVE FormInv'
  <2>1. form # None /\ Form!Changed([form EXCEPT !.from = l]) BY <1>8 DEF Form!From
  <2>2. [form EXCEPT !.from = l] \in Form!Form BY <1>2, <2>1, ChosenAreOptions DEF Form!Form
  <2> QED BY <2>1, <2>2, ChangedStep
<1>9. CASE Form!SwapLangs
  <2> DEFINE f == IF "language" \in form.wants THEN "other" ELSE "turkic"
             w == IF form.from = "other" THEN form.wants \cup {"language"} ELSE form.wants \ {"language"}
             o == [form EXCEPT !.from = f, !.wants = w]
  <2>1. form # None BY <1>9 DEF Form!SwapLangs
  <2>2. w \in SUBSET Chosen /\ f \in {"auto", "turkic", "other"} BY <1>2, <2>1 DEF Chosen
  <2>3. Form!Changed(o) BY <1>2, <1>9, <2>1 DEF Form!SwapLangs, Form!Form
  <2> HIDE DEF w, f
  <2>4. o \in Form!Form BY <1>2, <2>1, <2>2, ChosenAreOptions DEF Form!Form
  <2> HIDE DEF o
  <2> QED BY <2>1, <2>3, <2>4, ChangedStep
<1>10. ASSUME NEW o \in Form!Form, Form!Opened(o), replay' \in Replays \cup {None},
              replay' # None => /\ run[replay'] # None /\ run[replay'].at = "created" /\ o = run[replay'].o
       PROVE  FormInv'
  <2>1. /\ form' = Form!Settled(o, known, wallet) /\ formPlans' = {known}
        /\ UNCHANGED <<who, plan, known, wallet, lips, run, formMoves>>
    BY <1>10 DEF Form!Opened, Form!account
  <2>2. form' \in Form!Form /\ Within(form') BY <2>1, SettledIsWithin DEF FormInv
  <2>3. FormWithin' BY <2>1, <2>2 DEF FormWithin, Within, Form!CanSubtitles
  <2>4. FormTyped' /\ RunsGood' BY <2>1 DEF FormInv, FormTyped, RunsGood, GoodRun
  <2>5. Repeats' BY <1>10, <2>1 DEF FormInv, Repeats
  <2>6. Form!ReplayKeeps'
    <3> SUFFICES ASSUME replay' # None
                 PROVE  /\ form'.wants = o.wants \cap (IF known = None THEN Form!Recorded ELSE Form!Features(known))
                        /\ (form'.voice = "native") = (o.voice = "native" /\ (known = None \/ "voice" \in Form!Features(known)))
      BY <1>10, <2>1 DEF Form!ReplayKeeps
    <3>1. o.wants \subseteq Form!Recorded /\ o.voice \in {"native", "both"}
      BY <1>10 DEF FormInv, RunsGood, GoodRun
    <3>2. "subtitles" \notin o.wants BY <3>1 DEF Form!Recorded
    <3>3. CASE known = None BY <2>1, <3>1, <3>3, SettledIsGood DEF FormInv, FormTyped
    <3>4. CASE known # None
      <4>1. /\ form'.wants = (o.wants \cap Form!Features(known)) \ (IF Form!CanSubtitles(wallet) THEN {} ELSE {"subtitles"})
            /\ form'.voice = IF "voice" \in Form!Features(known) THEN o.voice ELSE "both"
        BY <2>1, <3>4, SettledIsGood DEF FormInv, FormTyped
      <4> QED BY <3>1, <3>2, <3>4, <4>1
    <3> QED BY <3>3, <3>4
  <2> QED BY <2>3, <2>4, <2>5, <2>6 DEF FormInv
<1>11. CASE Form!Open
  <2>1. Form!Default \in Form!Form BY ChosenAreOptions DEF Form!Default, Form!Form, Chosen
  <2> QED BY <1>10, <1>11, <2>1 DEF Form!Open
<1>12. ASSUME NEW r \in Replays, Form!Duplicate(r) PROVE FormInv'
  <2>1. run[r] # None /\ run[r].at = "created" /\ Form!Opened(run[r].o) /\ replay' = r
    BY <1>12 DEF Form!Duplicate, Form!DuplicateState
  <2>2. run[r].o \in Form!Form BY <2>1 DEF FormInv, RunsGood, GoodRun, Started
  <2> QED BY <1>10, <2>1, <2>2
<1>13. CASE Form!Close
  <2>1. form' = None /\ replay' = None /\ UNCHANGED <<who, plan, known, wallet, lips, run, formMoves>>
    BY <1>13 DEF Form!Close, Form!account
  <2> QED BY <2>1 DEF FormInv, FormTyped, RunsGood, GoodRun, Repeats, FormWithin, Form!ReplayKeeps
<1> QED BY <1>5, <1>6, <1>7, <1>8, <1>9, <1>11, <1>12, <1>13 DEF Form!Forming

\* What the page is told is of a plan; the form is brought within it.
LEMMA ToldStep ==
  ASSUME FormInv, NEW k \in PlansKnown, k # None \/ k = known, NEW w \in PlansKnown, Form!Told(k, w),
         UNCHANGED <<who, plan, lips, replay, run, formMoves>>
  PROVE  FormInv'
<1>1. /\ known' = k /\ wallet' = w /\ form' = (IF form = None THEN None ELSE Form!Settled(form, k, w))
      /\ formPlans' = (IF form = None THEN {} ELSE formPlans \cup {k})
  BY DEF Form!Told
<1>2. FormTyped' /\ RunsGood' BY <1>1 DEF FormInv, FormTyped, RunsGood, GoodRun
<1>3. CASE form = None
  BY <1>1, <1>2, <1>3 DEF FormInv, Repeats, FormWithin, Form!ReplayKeeps
<1>4. CASE form # None
  <2> DEFINE s == Form!Settled(form, k, w)
  <2>1. form' = s /\ formPlans' = formPlans \cup {k} /\ form \in Form!Form BY <1>1, <1>4 DEF FormInv, FormWithin
  <2>2. /\ s \in Form!Form /\ (k = None => s = form)
        /\ k # None => /\ s.wants = (form.wants \cap Form!Features(k)) \ (IF Form!CanSubtitles(w) THEN {} ELSE {"subtitles"})
                       /\ s.voice = IF "voice" \in Form!Features(k) THEN form.voice ELSE "both"
    BY <2>1, SettledIsGood
  <2> HIDE DEF s
  <2>3. FormWithin' BY <1>1, <2>1, <2>2 DEF FormWithin, Within, Form!CanSubtitles
  <2>4. Repeats' BY <1>1, <1>4, <2>1 DEF FormInv, Repeats
  <2>5. Form!ReplayKeeps'
    <3> SUFFICES ASSUME replay # None, formPlans' \subseteq {None, k}
                 PROVE  /\ s.wants = run[replay].o.wants \cap (IF k = None THEN Form!Recorded ELSE Form!Features(k))
                        /\ (s.voice = "native") = (run[replay].o.voice = "native" /\ (k = None \/ "voice" \in Form!Features(k)))
      BY <1>1, <2>1 DEF Form!ReplayKeeps
    <3>1. run[replay].o.wants \subseteq Form!Recorded /\ run[replay].o.voice \in {"native", "both"}
      BY DEF FormInv, Repeats, RunsGood, GoodRun
    <3>2. known \in {None, k} /\ formPlans \subseteq {None, known}
      BY <1>4, <2>1 DEF FormInv, Repeats
    <3>3. /\ form.wants = run[replay].o.wants \cap (IF known = None THEN Form!Recorded ELSE Form!Features(known))
          /\ (form.voice = "native") = (run[replay].o.voice = "native" /\ (known = None \/ "voice" \in Form!Features(known)))
      BY <1>4, <3>2 DEF FormInv, Form!ReplayKeeps
    <3>4. "subtitles" \notin form.wants BY <3>1, <3>3 DEF Form!Recorded
    <3>5. CASE k = None BY <2>2, <3>2, <3>3, <3>5
    <3>6. CASE k # None
      <4>1. s.wants = form.wants \cap Form!Features(k) BY <2>2, <3>4, <3>6
      <4>2. (s.voice = "native") = (form.voice = "native" /\ "voice" \in Form!Features(k)) BY <2>2, <3>6
      <4>3. CASE known = None
        <5>1. form.wants = run[replay].o.wants BY <3>1, <3>3, <4>3
        <5> QED BY <3>3, <3>6, <4>1, <4>2, <4>3, <5>1
      <4>4. CASE known = k BY <3>3, <3>6, <4>1, <4>2, <4>4
      <4> QED BY <3>2, <4>3, <4>4
    <3> QED BY <3>5, <3>6
  <2> QED BY <1>2, <2>3, <2>4, <2>5 DEF FormInv
<1> QED BY <1>3, <1>4

\* One run is changed, and the form is left alone.
LEMMA RunStep ==
  ASSUME FormInv, NEW r \in Replays, NEW x \in Started, GoodRun(x), run' = [run EXCEPT ![r] = x],
         run[r] = None \/ run[r].at = "gate", UNCHANGED <<Form!account, form, replay, formPlans, formMoves>>
  PROVE  FormInv'
<1>1. UNCHANGED <<who, plan, known, wallet, lips, form, replay, formPlans, formMoves>> BY DEF Form!account
<1>2. FormTyped' /\ FormWithin' BY <1>1 DEF FormInv, FormTyped, FormWithin, Within, Form!CanSubtitles
<1>3. RunsGood'
  <2>1. run' \in [Replays -> Started \cup {None}] BY DEF FormInv, RunsGood
  <2>2. \A s \in Replays : run'[s] = x \/ (s # r /\ run'[s] = run[s]) BY DEF FormInv, RunsGood
  <2>3. \A s \in Replays : run'[s] # None => GoodRun(run'[s]) BY <2>2 DEF FormInv, RunsGood
  <2> QED BY <1>1, <2>1, <2>3 DEF RunsGood, GoodRun
<1>4. replay # None => run'[replay] = run[replay] BY DEF FormInv, Repeats, RunsGood
<1>5. Repeats' BY <1>1, <1>4 DEF FormInv, Repeats
<1>6. Form!ReplayKeeps' BY <1>1, <1>4 DEF FormInv, Form!ReplayKeeps
<1> QED BY <1>2, <1>3, <1>5, <1>6 DEF FormInv

\* Start sends the form as settled, so what is sent is what was asked for.
LEMMA StartStep ==
  ASSUME FormInv, NEW r \in Replays, Form!Start(r)
  PROVE  FormInv'
<1> DEFINE same == known # None => Form!Sent(form) = Form!Asked(form, wallet)
           fresh == known = Form!Tier(plan[who]) /\ wallet = Form!WalletOf(plan[who])
           sends == Form!Asked(form, wallet)
           o == Form!Record(form)
           x == [at |-> "gate", o |-> o, asked |-> sends, same |-> same, fresh |-> fresh]
<1>1. /\ form # None /\ who # None /\ run[r] = None /\ run' = [run EXCEPT ![r] = x]
      /\ UNCHANGED <<Form!account, form, replay, formPlans, formMoves>>
  BY DEF Form!Start
<1>2. form \in Form!Form /\ form.wants \subseteq Chosen /\ form.voice \in {"both", "speaker", "native"} /\ Within(form)
  BY <1>1, ChosenAreOptions DEF FormInv, FormWithin, Form!Form
<1>3. o \in Form!Form /\ o.wants \subseteq Form!Recorded /\ o.voice \in {"native", "both"}
  BY <1>2, ChosenAreOptions DEF Form!Record, Form!Form
<1>4. Form!Needs(form) \subseteq Chosen BY <1>2 DEF Form!Needs, Chosen
<1>5. sends \subseteq Chosen BY <1>4 DEF Form!Asked
<1>6. known # None => Form!Needs(form) \subseteq Form!Features(known)
  BY <1>2 DEF Within, Form!Needs
<1>7. same
  BY <1>2 DEF Within, Form!Sent, Form!Asked, Form!Needs
<1>8. fresh => sends \subseteq Form!Features(Form!Tier(plan[who]))
  <2> SUFFICES ASSUME fresh PROVE sends \subseteq Form!Features(Form!Tier(plan[who])) OBVIOUS
  <2>1. plan[who] \in Form!Plan BY <1>1 DEF FormInv, FormTyped
  <2>2. known # None BY <2>1, FormAssumption DEF Form!Plan, Form!Tier
  <2> QED BY <1>6, <2>2 DEF Form!Asked
<1>9. fresh \in BOOLEAN /\ same \in BOOLEAN OBVIOUS
<1>10. FormTyped BY DEF FormInv
<1> HIDE DEF same, fresh, sends, o
<1>11. x \in Started /\ GoodRun(x)
  BY <1>1, <1>3, <1>5, <1>7, <1>8, <1>9 DEF Started, GoodRun
<1> QED BY <1>1, <1>11, RunStep

\* The server's gate lets through what its own plan of the account allows.
LEMMA GateStep ==
  ASSUME FormInv, NEW r \in Replays, Form!Gate(r)
  PROVE  FormInv'
<1> DEFINE passes == who # None /\ run[r].asked \subseteq Form!Features(Form!Tier(plan[who]))
           to == IF passes THEN "created" ELSE "refused"
           x == [run[r] EXCEPT !.at = to, !.asked = {}]
<1>1. /\ run[r] # None /\ run[r].at = "gate" /\ run' = [run EXCEPT ![r] = x]
      /\ UNCHANGED <<Form!account, form, replay, formPlans, formMoves>>
  BY DEF Form!Gate, FormInv, RunsGood
<1>2. run[r] \in Started /\ GoodRun(run[r]) BY <1>1 DEF FormInv, RunsGood, GoodRun
<1>3. to \in {"created", "refused"} /\ (to = "refused" => ~run[r].fresh)
  BY <1>1, <1>2 DEF GoodRun
<1> HIDE DEF to
<1>4. x \in Started /\ x.at = to /\ x.o = run[r].o /\ x.same = run[r].same /\ x.fresh = run[r].fresh
  BY <1>2, <1>3 DEF Started
<1> HIDE DEF x
<1>5. GoodRun(x) BY <1>2, <1>3, <1>4 DEF GoodRun
<1> QED BY <1>1, <1>4, <1>5, RunStep

\* What the account does leaves no run the page knew the plan of.
LEMMA StaleRuns ==
  ASSUME FormInv, run' = Form!Stale
  PROVE  /\ RunsGood' /\ \A r \in Replays : run[r] # None /\ run[r].at = "created" => run'[r] = run[r]
<1>1. \A r \in Replays : run'[r] = IF run[r] # None /\ run[r].at = "gate" THEN [run[r] EXCEPT !.fresh = FALSE] ELSE run[r]
  BY DEF Form!Stale
<1>2. ASSUME NEW r \in Replays
      PROVE  /\ run'[r] \in Started \cup {None}
             /\ run'[r] # None => GoodRun(run'[r]) /\ ~(run'[r].at = "gate" /\ run'[r].fresh)
  <2>1. CASE run[r] # None /\ run[r].at = "gate"
    <3> DEFINE x == [run[r] EXCEPT !.fresh = FALSE]
    <3>1. run'[r] = x /\ run[r] \in Started /\ GoodRun(run[r]) BY <1>1, <2>1 DEF FormInv, RunsGood, GoodRun
    <3>2. x \in Started /\ ~x.fresh /\ x.at = "gate" /\ x.same = run[r].same /\ x.o = run[r].o
      BY <2>1, <3>1 DEF Started
    <3> HIDE DEF x
    <3> QED BY <3>1, <3>2 DEF GoodRun
  <2>2. CASE ~(run[r] # None /\ run[r].at = "gate")
    <3>1. run'[r] = run[r] BY <1>1, <2>2
    <3> QED BY <2>2, <3>1 DEF FormInv, RunsGood, GoodRun
  <2> QED BY <2>1, <2>2
<1>3. run' \in [Replays -> Started \cup {None}]
  BY <1>2 DEF Form!Stale
<1>4. RunsGood' BY <1>2, <1>3 DEF RunsGood, GoodRun
<1> QED BY <1>1, <1>4

\* Sign-in, sign-out and changes of the plan.
LEMMA AccountMovesStep ==
  ASSUME FormInv,
         \/ Form!SignOut
         \/ \E a \in FormUsers : Form!SignIn(a) \/ \E p \in Form!Plan : Form!PlanMoves(a, p)
  PROVE  FormInv'
<1>1. formMoves < FormChanges /\ formMoves' = formMoves + 1 /\ run' = Form!Stale
  BY DEF Form!SignOut, Form!SignIn, Form!PlanMoves, Form!Moves
<1>2. RunsGood' /\ \A r \in Replays : run[r] # None /\ run[r].at = "created" => run'[r] = run[r]
  BY <1>1, StaleRuns
<1>3. CASE Form!SignOut
  <2>1. /\ who' = None /\ wallet' = None /\ form' = None /\ replay' = None /\ formPlans' = {}
        /\ UNCHANGED <<plan, known, lips>>
    BY <1>3 DEF Form!SignOut
  <2>2. FormTyped' BY <1>1, <2>1, FormAssumption DEF FormInv, FormTyped, PlansKnown
  <2> QED BY <1>2, <2>1, <2>2 DEF FormInv, Repeats, FormWithin, Form!ReplayKeeps
<1>4. ASSUME UNCHANGED <<known, wallet, lips, form, replay, formPlans>>, form = None \/ who' = who, FormTyped' PROVE FormInv'
  <2>1. FormWithin' BY <1>4 DEF FormInv, FormWithin, Within, Form!CanSubtitles
  <2>2. replay # None => run'[replay] = run[replay] BY <1>2 DEF FormInv, Repeats
  <2>3. Repeats' BY <1>4, <2>2 DEF FormInv, Repeats
  <2>4. Form!ReplayKeeps' BY <1>4, <2>2 DEF FormInv, Form!ReplayKeeps
  <2> QED BY <1>2, <1>4, <2>1, <2>3, <2>4 DEF FormInv
<1>5. ASSUME NEW a \in FormUsers, Form!SignIn(a) PROVE FormInv'
  <2>1. form = None /\ who' = a /\ UNCHANGED <<plan, known, wallet, lips, form, replay, formPlans>>
    BY <1>5 DEF Form!SignIn
  <2>2. FormTyped' BY <1>1, <2>1, FormAssumption DEF FormInv, FormTyped
  <2> QED BY <1>4, <2>1, <2>2
<1>6. ASSUME NEW a \in FormUsers, NEW p \in Form!Plan, Form!PlanMoves(a, p) PROVE FormInv'
  <2>1. plan' = [plan EXCEPT ![a] = p] /\ UNCHANGED <<who, known, wallet, lips, form, replay, formPlans>>
    BY <1>6 DEF Form!PlanMoves
  <2>2. FormTyped' BY <1>1, <2>1, FormAssumption DEF FormInv, FormTyped
  <2> QED BY <1>4, <2>1, <2>2
<1> QED BY <1>3, <1>5, <1>6

\* Every step keeps the invariant.
LEMMA FormStep == FormInv /\ [Form!Next]_(Form!vars) => FormInv'
<1> SUFFICES ASSUME FormInv, [Form!Next]_(Form!vars) PROVE FormInv' OBVIOUS
<1>1. who # None => plan[who] \in Form!Plan BY DEF FormInv, FormTyped
<1>2. CASE Form!GetEntitlements
  <2>1. Form!Tier(plan[who]) \in PlansKnown /\ Form!Tier(plan[who]) # None
    BY <1>1, <1>2, FormAssumption DEF Form!GetEntitlements, Form!Plan, Form!Tier, PlansKnown
  <2>2. wallet \in PlansKnown BY DEF FormInv, FormTyped
  <2> QED BY <1>2, <2>1, <2>2, ToldStep DEF Form!GetEntitlements
<1>3. CASE Form!GetSubscription
  <2>1. Form!WalletOf(plan[who]) \in PlansKnown
    BY <1>1, <1>3 DEF Form!GetSubscription, Form!Plan, Form!WalletOf, PlansKnown
  <2>2. known \in PlansKnown BY DEF FormInv, FormTyped
  <2> QED BY <1>3, <2>1, <2>2, ToldStep DEF Form!GetSubscription
<1>4. CASE UNCHANGED Form!vars
  BY <1>4 DEF Form!vars, FormInv, FormTyped, RunsGood, GoodRun, Repeats, FormWithin, Within, Form!CanSubtitles, Form!ReplayKeeps
<1> QED BY <1>2, <1>3, <1>4, FormingStep, StartStep, GateStep, AccountMovesStep DEF Form!Next

\* What the run checks follows from the invariant.
LEMMA FormInvIsEnough == FormInv => Form!TypeOK /\ Form!NeverSent /\ Form!ReplayKeeps
<1> SUFFICES ASSUME FormInv PROVE Form!TypeOK /\ Form!NeverSent BY DEF FormInv
<1>1. \A r \in Replays : run[r] # None => GoodRun(run[r]) BY DEF FormInv, RunsGood
<1>2. Form!NeverSent BY <1>1 DEF GoodRun, Form!NeverSent
<1>3. Form!TypeOK BY <1>1 DEF FormInv, FormTyped, FormWithin, PlansKnown, GoodRun, Started, Form!TypeOK
<1> QED BY <1>2, <1>3

\* Nothing is sent that the plan forbids, and a replay keeps its options.
LEMMA FormInvariant == Form!Spec => [](Form!TypeOK /\ Form!NeverSent /\ Form!ReplayKeeps)
  BY FormStart, FormStep, FormInvIsEnough, PTL DEF Form!Spec
-----------------------------------------------------------------------------
(* The report of a dub (DubReport): each message is left for what it says, a lost line of
   an engine that counts is noted, and what was answered is what the reading of a run that
   is over answers. *)
Noted == {"cloned", "clone skipped", "unavailable", "fast", "missing", "could not", "skipped"}
Engines == {"tone", "Navoiy", "OmniVoice", "edge-tts"}
ReportTyped ==
  /\ reportAt \in Report!Stages \cup Report!Over /\ opts \in Report!Options
  /\ Report!Heard \subseteq ReportLines /\ silent \subseteq Report!Heard /\ real \in BOOLEAN
  /\ reportSaid \in [Report!Stages -> SUBSET Noted] /\ reportKept \in [background : BOOLEAN, lips : BOOLEAN]
  /\ voice \in [engine : Engines, cloned : BOOLEAN, near : {"low", "high", None}]
VoiceNoted ==
  /\ reportAt \in {"asr", "tts"} => reportSaid["tts"] = {} /\ silent = {} /\ voice.engine = "tone"
  /\ reportSaid["tts"] \cap {"unavailable", "fast"} # {} => ~voice.cloned /\ opts.mode # "native"
  /\ "missing" \in reportSaid["tts"] => silent \ Report!Wordless # {}
  /\ reportAt \in {"separation", "lipsync", "completed"} /\ voice.engine \in {"Navoiy", "edge-tts"}
       /\ silent \ Report!Wordless # {} => "missing" \in reportSaid["tts"]
RestNoted ==
  /\ "could not" \in reportSaid["separation"] => opts.background /\ ~reportKept.background
  /\ "skipped" \in reportSaid["lipsync"] => ~reportKept.lips
Answered == issues # None => reportAt \in Report!Over /\ \E part \in BOOLEAN : issues = Report!Analyse(part)
PanelsTyped == panel \in [{"studio", "editor"} -> (SUBSET Report!Codes) \cup {None}]
ReportInv == ReportTyped /\ VoiceNoted /\ RestNoted /\ Answered /\ PanelsTyped

\* The job has not said anything yet.
LEMMA ReportStart == Report!Init => ReportInv
<1> SUFFICES ASSUME Report!Init PROVE ReportInv OBVIOUS
<1>1. /\ reportAt = "asr" /\ opts \in Report!Options /\ reportText \in [ReportLines -> {"fits"}]
      /\ reportSaid = [s \in Report!Stages |-> {}] /\ voice = [engine |-> "tone", cloned |-> FALSE, near |-> None]
      /\ silent = {} /\ real = FALSE /\ reportKept = [background |-> FALSE, lips |-> FALSE]
      /\ issues = None /\ panel = [p \in {"studio", "editor"} |-> None]
  BY DEF Report!Init
<1>2. Report!Heard = ReportLines BY <1>1 DEF Report!Heard
<1>3. {"asr", "tts", "separation", "lipsync"} = Report!Stages BY DEF Report!Stages
<1>4. ReportTyped BY <1>1, <1>2, <1>3 DEF ReportTyped, Noted, Engines
<1>5. VoiceNoted /\ RestNoted BY <1>1, <1>3 DEF VoiceNoted, RestNoted
<1>6. Answered BY <1>1 DEF Answered
<1>7. PanelsTyped BY <1>1 DEF PanelsTyped
<1> QED BY <1>4, <1>5, <1>6, <1>7 DEF ReportInv

\* Nothing was answered of a run that is not over.
LEMMA NoAnswerYet ==
  ASSUME ReportInv, reportAt \in Report!Stages
  PROVE  issues = None
  BY DEF ReportInv, Answered, Report!Stages, Report!Over

\* What a voice leaves: the count of lost lines beside what it says of the clone.
LEMMA VoicedStep ==
  ASSUME ReportInv, NEW lost \in SUBSET (Report!Heard \ Report!Wordless), NEW eng \in Engines, NEW cl \in BOOLEAN,
         NEW near \in {"low", "high", None}, NEW note \in SUBSET Noted, Report!Voiced(eng, cl, near, note, lost),
         note \cap {"unavailable", "fast"} # {} => ~cl /\ opts.mode # "native",
         "missing" \in note => lost # {}, eng \in {"Navoiy", "edge-tts"} /\ lost # {} => "missing" \in note
  PROVE  ReportInv'
<1>1. /\ reportAt = "tts" /\ reportAt' = "separation" /\ voice' = [engine |-> eng, cloned |-> cl, near |-> near]
      /\ silent' = lost \cup Report!Wordless /\ reportSaid' = [reportSaid EXCEPT !["tts"] = note] /\ real' = TRUE
      /\ UNCHANGED <<opts, reportText, reportKept, issues, panel>>
  BY DEF Report!Voiced
<1>2. issues' = None BY <1>1, NoAnswerYet DEF Report!Stages
<1>3. Report!Heard' = Report!Heard /\ Report!Wordless' = Report!Wordless
  BY <1>1 DEF Report!Heard, Report!Wordless
<1>4. /\ reportSaid' \in [Report!Stages -> SUBSET Noted] /\ reportSaid'["tts"] = note
      /\ reportSaid'["separation"] = reportSaid["separation"] /\ reportSaid'["lipsync"] = reportSaid["lipsync"]
  BY <1>1 DEF ReportInv, ReportTyped, Report!Stages
<1>5. Report!Wordless \subseteq Report!Heard BY DEF Report!Wordless
<1>6. ReportTyped'
  BY <1>1, <1>3, <1>4, <1>5 DEF ReportInv, ReportTyped, Report!Stages
<1>7. silent' \ Report!Wordless' = lost BY <1>1, <1>3
<1>8. VoiceNoted' BY <1>1, <1>4, <1>7 DEF VoiceNoted
<1>9. RestNoted' BY <1>1, <1>4 DEF ReportInv, RestNoted
<1>10. Answered' /\ PanelsTyped' BY <1>1, <1>2 DEF ReportInv, Answered, PanelsTyped
<1> QED BY <1>6, <1>8, <1>9, <1>10 DEF ReportInv

\* The note of missing lines, as against the others.
LEMMA GapSays ==
  ASSUME NEW lost, NEW note \in SUBSET (Noted \ {"missing"})
  PROVE  /\ Report!Gap(lost, note) \in SUBSET Noted
         /\ "missing" \in Report!Gap(lost, note) <=> lost # {}
         /\ \A s \in Noted \ {"missing"} : s \in Report!Gap(lost, note) <=> s \in note
  BY DEF Report!Gap, Noted

\* Each engine notes what it did with the voice and the lines.
LEMMA EnginesStep ==
  ASSUME ReportInv, Report!Navoiy \/ Report!OmniVoice \/ Report!EdgeTTS
  PROVE  ReportInv'
<1> DEFINE said == Noted \ {"missing"}
<1>1. opts.mode \in {"speaker", "both", "native"} BY DEF ReportInv, ReportTyped, Report!Options
<1>2. ASSUME NEW lost \in SUBSET (Report!Heard \ Report!Wordless), NEW eng \in {"Navoiy", "edge-tts"}, NEW cl \in BOOLEAN,
             NEW near \in {"low", "high", None}, NEW note \in SUBSET said,
             Report!Voiced(eng, cl, near, Report!Gap(lost, note), lost),
             note \cap {"unavailable", "fast"} # {} => ~cl /\ opts.mode # "native"
      PROVE  ReportInv'
  <2> DEFINE g == Report!Gap(lost, note)
  <2>1. /\ g \in SUBSET Noted /\ ("missing" \in g <=> lost # {}) /\ ("unavailable" \in g <=> "unavailable" \in note)
        /\ "fast" \in g <=> "fast" \in note
    BY GapSays DEF Noted
  <2>2. Report!Voiced(eng, cl, near, g, lost) BY <1>2
  <2> HIDE DEF g
  <2>3. eng \in Engines BY DEF Engines
  <2>4. g \cap {"unavailable", "fast"} # {} => ~cl /\ opts.mode # "native" BY <1>2, <2>1
  <2>5. g \in SUBSET Noted /\ ("missing" \in g => lost # {}) /\ (lost # {} => "missing" \in g) BY <2>1
  <2>6. eng \in {"Navoiy", "edge-tts"} /\ lost # {} => "missing" \in g BY <2>5
  <2>7. cl \in BOOLEAN /\ near \in {"low", "high", None} /\ lost \in SUBSET (Report!Heard \ Report!Wordless) BY <1>2
  <2> HIDE <1>2, <2>1
  <2> QED BY <2>2, <2>3, <2>4, <2>5, <2>6, <2>7, VoicedStep
<1>3. /\ {} \in SUBSET said /\ {"cloned"} \in SUBSET said /\ {"clone skipped"} \in SUBSET said
      /\ {"unavailable"} \in SUBSET said /\ {"fast"} \in SUBSET said
  BY DEF Noted
<1> HIDE DEF said
<1>4. CASE Report!Navoiy
  BY <1>2, <1>3, <1>4 DEF Report!Navoiy
<1>5. CASE Report!OmniVoice
  <2>1. PICK lost \in SUBSET (Report!Heard \ Report!Wordless), cl \in BOOLEAN : Report!Voiced("OmniVoice", cl, None, {}, lost)
    BY <1>5 DEF Report!OmniVoice
  <2>2. {} \in SUBSET Noted /\ "OmniVoice" \in Engines BY DEF Engines
  <2> QED BY <2>1, <2>2, VoicedStep
<1>6. CASE Report!EdgeTTS
  <2>1. PICK lost \in SUBSET (Report!Heard \ Report!Wordless) :
          \/ /\ opts.mode = "both" /\ ~opts.fast
             /\ \/ \E near \in {"low", "high"} : Report!Voiced("edge-tts", TRUE, near, Report!Gap(lost, {"cloned"}), lost)
                \/ \E note \in {{}, {"clone skipped"}, {"unavailable"}} :
                     Report!Voiced("edge-tts", FALSE, None, Report!Gap(lost, note), lost)
          \/ opts.mode = "both" /\ opts.fast /\ Report!Voiced("edge-tts", FALSE, None, Report!Gap(lost, {"fast"}), lost)
          \/ opts.mode = "speaker" /\ Report!Voiced("edge-tts", FALSE, None, Report!Gap(lost, {"unavailable"}), lost)
          \/ opts.mode = "native" /\ Report!Voiced("edge-tts", FALSE, None, Report!Gap(lost, {}), lost)
    BY <1>6 DEF Report!EdgeTTS
  <2>2. CASE \E near \in {"low", "high"} : Report!Voiced("edge-tts", TRUE, near, Report!Gap(lost, {"cloned"}), lost)
    <3>1. PICK near \in {"low", "high"} : Report!Voiced("edge-tts", TRUE, near, Report!Gap(lost, {"cloned"}), lost) BY <2>2
    <3>2. {"cloned"} \cap {"unavailable", "fast"} = {} OBVIOUS
    <3> QED BY <1>2, <1>3, <3>1, <3>2
  <2>3. ASSUME NEW note \in SUBSET said, Report!Voiced("edge-tts", FALSE, None, Report!Gap(lost, note), lost),
               opts.mode # "native" \/ note = {}
        PROVE  ReportInv'
    <3>1. note \cap {"unavailable", "fast"} # {} => ~FALSE /\ opts.mode # "native" BY <2>3
    <3> QED BY <1>2, <2>3, <3>1
  <2> QED BY <1>3, <2>1, <2>2, <2>3
<1> QED BY <1>4, <1>5, <1>6

\* A stage before or after the voice.
LEMMA StageStep ==
  ASSUME ReportInv, Report!Fails \/ Report!Transcribe \/ Report!Tone \/ Report!Separate \/ Report!SyncLips
  PROVE  ReportInv'
<1>0. issues = None /\ issues' = None /\ panel' = panel
  BY NoAnswerYet DEF Report!Fails, Report!Transcribe, Report!Tone, Report!Separate, Report!SyncLips, Report!Stages
<1>1. Answered' /\ PanelsTyped' BY <1>0 DEF ReportInv, Answered, PanelsTyped
<1>2. CASE Report!Fails
  <2>1. /\ reportAt \in Report!Stages /\ reportAt' = "failed"
        /\ UNCHANGED <<opts, reportText, reportSaid, voice, silent, real, reportKept>>
    BY <1>2 DEF Report!Fails
  <2>2. Report!Heard' = Report!Heard /\ Report!Wordless' = Report!Wordless BY <2>1 DEF Report!Heard, Report!Wordless
  <2>3. ReportTyped' BY <2>1, <2>2 DEF ReportInv, ReportTyped, Report!Over
  <2>4. VoiceNoted' /\ RestNoted' BY <2>1, <2>2 DEF ReportInv, VoiceNoted, RestNoted
  <2> QED BY <1>1, <2>3, <2>4 DEF ReportInv
<1>3. CASE Report!Transcribe
  <2>1. /\ reportAt = "asr" /\ reportAt' = "tts" /\ real' \in {real, TRUE}
        /\ UNCHANGED <<opts, reportSaid, voice, silent, reportKept>>
    BY <1>3 DEF Report!Transcribe
  <2>2. Report!Heard' \subseteq ReportLines BY <1>3 DEF Report!Transcribe, Report!Heard
  <2>3. silent = {} /\ reportSaid["tts"] = {} BY <2>1 DEF ReportInv, VoiceNoted
  <2>4. ReportTyped' BY <2>1, <2>2, <2>3 DEF ReportInv, ReportTyped, Report!Stages
  <2>5. VoiceNoted' /\ RestNoted' BY <2>1, <2>3 DEF ReportInv, VoiceNoted, RestNoted
  <2> QED BY <1>1, <2>4, <2>5 DEF ReportInv
<1>4. CASE Report!Tone
  <2>1. /\ reportAt = "tts" /\ reportAt' = "separation" /\ silent' = Report!Heard
        /\ UNCHANGED <<opts, reportText, reportSaid, voice, real, reportKept>>
    BY <1>4 DEF Report!Tone
  <2>2. Report!Heard' = Report!Heard /\ Report!Wordless' = Report!Wordless BY <2>1 DEF Report!Heard, Report!Wordless
  <2>3. ReportTyped' BY <2>1, <2>2 DEF ReportInv, ReportTyped, Report!Stages
  <2>4. VoiceNoted' /\ RestNoted' BY <2>1, <2>2 DEF ReportInv, VoiceNoted, RestNoted
  <2> QED BY <1>1, <2>3, <2>4 DEF ReportInv
<1>5. CASE Report!Separate
  <2>1. PICK bed \in BOOLEAN, note \in {{}, {"could not"}} :
          /\ bed => opts.background /\ ~opts.fast /\ note = {}
          /\ note # {} => opts.background /\ ~opts.fast
          /\ reportKept' = [reportKept EXCEPT !.background = bed]
          /\ reportSaid' = [reportSaid EXCEPT !["separation"] = note]
    BY <1>5 DEF Report!Separate
  <2>2. /\ reportAt = "separation" /\ reportAt' = "lipsync" /\ UNCHANGED <<opts, reportText, voice, silent, real>>
    BY <1>5 DEF Report!Separate
  <2>3. Report!Heard' = Report!Heard /\ Report!Wordless' = Report!Wordless BY <2>2 DEF Report!Heard, Report!Wordless
  <2>4. /\ reportSaid' \in [Report!Stages -> SUBSET Noted] /\ reportSaid'["separation"] = note
        /\ reportSaid'["tts"] = reportSaid["tts"] /\ reportSaid'["lipsync"] = reportSaid["lipsync"]
    BY <2>1 DEF ReportInv, ReportTyped, Report!Stages, Noted
  <2>5. /\ reportKept' \in [background : BOOLEAN, lips : BOOLEAN] /\ reportKept'.background = bed
        /\ reportKept'.lips = reportKept.lips
    BY <2>1 DEF ReportInv, ReportTyped
  <2>6. ReportTyped' BY <2>2, <2>3, <2>4, <2>5 DEF ReportInv, ReportTyped, Report!Stages
  <2>7. VoiceNoted' BY <2>2, <2>3, <2>4 DEF ReportInv, VoiceNoted
  <2>8. RestNoted' BY <2>1, <2>2, <2>4, <2>5 DEF ReportInv, RestNoted
  <2> QED BY <1>1, <2>6, <2>7, <2>8 DEF ReportInv
<1>6. CASE Report!SyncLips
  <2>1. PICK done \in BOOLEAN, eng \in BOOLEAN :
          /\ done => eng /\ opts.lips
          /\ reportKept' = [reportKept EXCEPT !.lips = done]
          /\ reportSaid' = [reportSaid EXCEPT !["lipsync"] = IF opts.lips /\ eng THEN {} ELSE {"skipped"}]
    BY <1>6 DEF Report!SyncLips
  <2>2. /\ reportAt = "lipsync" /\ reportAt' = "completed" /\ UNCHANGED <<opts, reportText, voice, silent, real>>
    BY <1>6 DEF Report!SyncLips
  <2>3. Report!Heard' = Report!Heard /\ Report!Wordless' = Report!Wordless BY <2>2 DEF Report!Heard, Report!Wordless
  <2> DEFINE skip == IF opts.lips /\ eng THEN {} ELSE {"skipped"}
  <2>4. skip \in SUBSET Noted /\ ("skipped" \in skip => ~done) BY <2>1 DEF Noted
  <2>5. reportSaid' = [reportSaid EXCEPT !["lipsync"] = skip] BY <2>1
  <2> HIDE DEF skip
  <2>6. /\ reportSaid' \in [Report!Stages -> SUBSET Noted] /\ reportSaid'["lipsync"] = skip
        /\ reportSaid'["tts"] = reportSaid["tts"] /\ reportSaid'["separation"] = reportSaid["separation"]
    BY <2>4, <2>5 DEF ReportInv, ReportTyped, Report!Stages
  <2>7. /\ reportKept' \in [background : BOOLEAN, lips : BOOLEAN] /\ reportKept'.lips = done
        /\ reportKept'.background = reportKept.background
    BY <2>1 DEF ReportInv, ReportTyped
  <2>8. ReportTyped' BY <2>2, <2>3, <2>6, <2>7 DEF ReportInv, ReportTyped, Report!Over
  <2>9. VoiceNoted' BY <2>2, <2>3, <2>6 DEF ReportInv, VoiceNoted
  <2>10. RestNoted' BY <2>2, <2>4, <2>6, <2>7 DEF ReportInv, RestNoted
  <2> QED BY <1>1, <2>8, <2>9, <2>10 DEF ReportInv
<1> QED BY <1>2, <1>3, <1>4, <1>5, <1>6

\* What a run that is over answers of each issue the properties are about.
LEMMA AnalyseSays ==
  ASSUME NEW part \in BOOLEAN
  PROVE  LET a == Report!Analyse(part) IN
         /\ a \subseteq Report!Codes
         /\ "clone_unavailable" \in a => "unavailable" \in reportSaid["tts"]
         /\ "clone_fast" \in a => "fast" \in reportSaid["tts"]
         /\ "low_similarity" \in a => voice.cloned
         /\ "background_lost" \in a => "could not" \in reportSaid["separation"]
         /\ "lipsync_skipped" \in a => opts.lips /\ "skipped" \in reportSaid["lipsync"]
         /\ "missing_lines" \in a => "missing" \in reportSaid["tts"]
         /\ reportAt = "completed" /\ Report!Heard # {} /\ "missing" \in reportSaid["tts"] => "missing_lines" \in a
<1> DEFINE a == Report!Analyse(part)
           stopped == Report!JobFailed \cup Report!NoSpeech
           found == UNION {Report!Simulated, Report!Untranslated, Report!NotTranslated, Report!MissingLines, Report!RushedLines,
                           Report!Clone, Report!LowSimilarity, Report!BackgroundLost, Report!LipsyncSkipped, Report!Trimmed(part)}
<1>1. stopped \subseteq {"job_failed", "no_speech"}
      /\ (reportAt = "completed" /\ Report!Heard # {} => stopped = {})
  BY DEF Report!JobFailed, Report!NoSpeech, Report!When
<1>2. a = IF stopped # {} THEN stopped ELSE found BY DEF Report!Analyse
<1>3. found = Report!Simulated \cup Report!Untranslated \cup Report!NotTranslated \cup Report!MissingLines \cup Report!RushedLines
              \cup Report!Clone \cup Report!LowSimilarity \cup Report!BackgroundLost \cup Report!LipsyncSkipped \cup Report!Trimmed(part)
  OBVIOUS
<1>4. /\ Report!Simulated \subseteq {"simulated"} /\ Report!Untranslated \subseteq {"untranslated"}
      /\ Report!NotTranslated \subseteq {"not_translated"} /\ Report!RushedLines \subseteq {"rushed_lines"}
      /\ Report!Trimmed(part) \subseteq {"trimmed"}
  BY DEF Report!Simulated, Report!Untranslated, Report!NotTranslated, Report!RushedLines, Report!Trimmed, Report!When
<1>5. /\ Report!MissingLines \subseteq {"missing_lines"}
      /\ "missing_lines" \in Report!MissingLines <=> "missing" \in reportSaid["tts"]
  BY DEF Report!MissingLines, Report!When
<1>6. /\ Report!Clone \subseteq {"clone_unavailable", "clone_fast"}
      /\ "clone_unavailable" \in Report!Clone => "unavailable" \in reportSaid["tts"]
      /\ "clone_fast" \in Report!Clone => "fast" \in reportSaid["tts"]
  BY DEF Report!Clone, Report!When
<1>7. /\ Report!LowSimilarity \subseteq {"low_similarity"}
      /\ "low_similarity" \in Report!LowSimilarity => voice.cloned
  BY DEF Report!LowSimilarity, Report!When
<1>8. /\ Report!BackgroundLost \subseteq {"background_lost"}
      /\ "background_lost" \in Report!BackgroundLost => "could not" \in reportSaid["separation"]
  BY DEF Report!BackgroundLost, Report!When
<1>9. /\ Report!LipsyncSkipped \subseteq {"lipsync_skipped"}
      /\ "lipsync_skipped" \in Report!LipsyncSkipped => opts.lips /\ "skipped" \in reportSaid["lipsync"]
  BY DEF Report!LipsyncSkipped, Report!When
<1> HIDE DEF a, stopped, found
<1>10. a \subseteq Report!Codes
  BY <1>1, <1>2, <1>3, <1>4, <1>5, <1>6, <1>7, <1>8, <1>9 DEF Report!Codes, Report!Severe, Report!Notes
<1>11. /\ "clone_unavailable" \in a => "clone_unavailable" \in Report!Clone
       /\ "clone_fast" \in a => "clone_fast" \in Report!Clone
  BY <1>1, <1>2, <1>3, <1>4, <1>5, <1>7, <1>8, <1>9
<1>12. /\ "low_similarity" \in a => "low_similarity" \in Report!LowSimilarity
       /\ "background_lost" \in a => "background_lost" \in Report!BackgroundLost
       /\ "lipsync_skipped" \in a => "lipsync_skipped" \in Report!LipsyncSkipped
  BY <1>1, <1>2, <1>3, <1>4, <1>5, <1>6, <1>7, <1>8, <1>9
<1>13. "missing_lines" \in a => "missing_lines" \in Report!MissingLines
  BY <1>1, <1>2, <1>3, <1>4, <1>6, <1>7, <1>8, <1>9
<1>14. stopped = {} /\ "missing_lines" \in Report!MissingLines => "missing_lines" \in a BY <1>2, <1>3
<1> QED BY <1>1, <1>5, <1>6, <1>7, <1>8, <1>9, <1>10, <1>11, <1>12, <1>13, <1>14 DEF a

\* The report is asked for and shown.
LEMMA AnsweringStep ==
  ASSUME ReportInv, Report!GetIssues \/ Report!StudioShows \/ Report!EditorShows \/ Report!EditorHears
  PROVE  ReportInv'
<1>1. UNCHANGED <<reportAt, opts, reportText, reportSaid, voice, silent, real, reportKept>>
  BY DEF Report!GetIssues, Report!StudioShows, Report!EditorShows, Report!EditorHears, Report!Show
<1>2. ReportTyped' /\ VoiceNoted' /\ RestNoted'
  BY <1>1 DEF ReportInv, ReportTyped, VoiceNoted, RestNoted, Report!Heard, Report!Wordless
<1>3. \A part \in BOOLEAN : Report!Analyse(part)' = Report!Analyse(part)
  BY <1>1 DEF Report!Analyse, Report!JobFailed, Report!NoSpeech, Report!Simulated, Report!Untranslated, Report!NotTranslated,
     Report!MissingLines, Report!RushedLines, Report!Clone, Report!LowSimilarity, Report!BackgroundLost, Report!LipsyncSkipped,
     Report!Trimmed, Report!When, Report!Of, Report!Heard
<1>4. issues # None => issues \subseteq Report!Codes BY AnalyseSays DEF ReportInv, Answered
<1>5. CASE Report!GetIssues
  BY <1>1, <1>2, <1>3, <1>5 DEF Report!GetIssues, ReportInv, Answered, PanelsTyped
<1>6. CASE issues' = issues
  <2>1. Answered' BY <1>1, <1>3, <1>6 DEF ReportInv, Answered
  <2>2. PanelsTyped'
    BY <1>4, <1>6 DEF ReportInv, PanelsTyped, Report!GetIssues, Report!StudioShows, Report!EditorShows, Report!EditorHears, Report!Show
  <2> QED BY <1>2, <2>1, <2>2 DEF ReportInv
<1> QED BY <1>5, <1>6 DEF Report!StudioShows, Report!EditorShows, Report!EditorHears, Report!Show

\* Every step keeps the invariant.
LEMMA ReportStep == ReportInv /\ [Report!Next]_(Report!vars) => ReportInv'
<1> SUFFICES ASSUME ReportInv, [Report!Next]_(Report!vars) PROVE ReportInv' OBVIOUS
<1>1. CASE UNCHANGED Report!vars
  <2>1. UNCHANGED <<reportAt, opts, reportText, reportSaid, voice, silent, real, reportKept, issues, panel>>
    BY <1>1 DEF Report!vars
  <2>2. \A part \in BOOLEAN : Report!Analyse(part)' = Report!Analyse(part)
    BY <2>1 DEF Report!Analyse, Report!JobFailed, Report!NoSpeech, Report!Simulated, Report!Untranslated, Report!NotTranslated,
       Report!MissingLines, Report!RushedLines, Report!Clone, Report!LowSimilarity, Report!BackgroundLost, Report!LipsyncSkipped,
       Report!Trimmed, Report!When, Report!Of, Report!Heard
  <2>3. ReportTyped' /\ VoiceNoted' /\ RestNoted'
    BY <2>1 DEF ReportInv, ReportTyped, VoiceNoted, RestNoted, Report!Heard, Report!Wordless
  <2>4. Answered' /\ PanelsTyped' BY <2>1, <2>2 DEF ReportInv, Answered, PanelsTyped
  <2> QED BY <2>3, <2>4 DEF ReportInv
<1> QED BY <1>1, EnginesStep, StageStep, AnsweringStep DEF Report!Next

\* What the run checks follows from the invariant.
LEMMA ReportInvIsEnough == ReportInv => Report!TypeOK /\ Report!TellsTheTruth /\ Report!MissingTold
<1> SUFFICES ASSUME ReportInv PROVE Report!TypeOK /\ Report!TellsTheTruth /\ Report!MissingTold OBVIOUS
<1>1. Report!TellsTheTruth
  <2> SUFFICES ASSUME issues # None PROVE Report!TellsTheTruth BY DEF Report!TellsTheTruth
  <2>1. PICK part \in BOOLEAN : issues = Report!Analyse(part) BY DEF ReportInv, Answered
  <2> QED BY <2>1, AnalyseSays DEF ReportInv, VoiceNoted, RestNoted, Report!TellsTheTruth
<1>2. Report!MissingTold
  <2> SUFFICES ASSUME issues # None, voice.engine \in {"Navoiy", "edge-tts"}, reportAt = "completed", silent \ Report!Wordless # {}
               PROVE  "missing_lines" \in issues
    BY DEF Report!MissingTold
  <2>1. PICK part \in BOOLEAN : issues = Report!Analyse(part) BY DEF ReportInv, Answered
  <2>2. "missing" \in reportSaid["tts"] /\ Report!Heard # {} BY DEF ReportInv, VoiceNoted, ReportTyped
  <2> QED BY <2>1, <2>2, AnalyseSays
<1>3. issues # None => issues \subseteq Report!Codes BY AnalyseSays DEF ReportInv, Answered
<1>4. Report!TypeOK BY <1>3 DEF ReportInv, ReportTyped, PanelsTyped, Report!TypeOK
<1> QED BY <1>1, <1>2, <1>4

\* What a report says happened, and lines that are missing are told.
LEMMA ReportInvariant == Report!Spec => [](Report!TypeOK /\ Report!TellsTheTruth /\ Report!MissingTold)
  BY ReportStart, ReportStep, ReportInvIsEnough, PTL DEF Report!Spec
-----------------------------------------------------------------------------
(* The plans page (PlansPage): what was sent as of a change of the server is what the server
   has as long as nothing changed since; so a checkout asked for is of the row there is. *)
Sale == [price : Int, credits : Int]
SaleOf(r) == [price |-> r.price, credits |-> r.per * r.grants]
Checkout == [item : Items, shown : Sale, asOf : Nat \cup {None}, here : BOOLEAN]
SubOf == [item : Sold, status : Statuses, ends : BOOLEAN]
RowOf(i) == IF catalog[i].active THEN catalog[i] ELSE None
ServerTyped ==
  /\ catalog \in [Items -> ShopRow] /\ (\A p \in Packs : catalog[p].grants = 1)
  /\ keyed \in BOOLEAN /\ sub \in SubOf \cup {None} /\ moves \in Nat
PlansFresh ==
  plans # None =>
    /\ plans.asOf \in 0 .. moves /\ \A i \in Sold : plans.rows[i] \in ShopRow \cup {None}
    /\ plans.asOf = moves => \A i \in Sold : plans.rows[i] = RowOf(i)
PacksFresh ==
  packs # None =>
    /\ packs.asOf \in 0 .. moves \cup {None} /\ \A p \in Packs : packs.rows[p] \in ShopRow \cup {None}
    /\ \E p \in Packs : packs.rows[p] # None
    /\ packs.asOf = moves => \A p \in Packs : packs.rows[p] = RowOf(p)
GoodAsk(a) ==
  /\ a \in Checkout /\ (a.asOf # None => a.asOf <= moves)
  /\ a.asOf = moves /\ catalog[a.item].active => a.shown = SaleOf(catalog[a.item])
ShopInv ==
  /\ ServerTyped /\ PlansFresh /\ PacksFresh /\ (\A a \in asked : GoodAsk(a))
  /\ (left # None /\ left.same => left.shown = left.sold)
  /\ cycle \in Cycles /\ canceling \in BOOLEAN /\ open \in BOOLEAN

\* The page has read nothing yet.
LEMMA ShopStart == Init => ShopInv
<1> SUFFICES ASSUME Init PROVE ShopInv OBVIOUS
<1>1. sub \in SubOf \cup {None} BY DEF Init, SubOf, Statuses
<1>2. ServerTyped BY <1>1, ShopAssumption DEF Init, ServerTyped, Items
<1>3. /\ plans = None /\ packs = None /\ asked = {} /\ left = None /\ cycle = "monthly" /\ canceling = FALSE /\ open = TRUE
  BY DEF Init
<1> QED BY <1>2, <1>3 DEF ShopInv, PlansFresh, PacksFresh, Cycles

\* A change at the server is newer than all that was sent.
LEMMA ServerStep ==
  ASSUME ShopInv, moves' = moves + 1, ServerTyped', UNCHANGED <<sent, cycle, asked, left, canceling, open>>
  PROVE  ShopInv'
<1>1. moves \in Nat /\ moves' \in Nat /\ moves < moves' BY DEF ShopInv, ServerTyped
<1>2. UNCHANGED <<plans, packs, cycle, asked, left, canceling, open>> BY DEF sent
<1>3. PlansFresh' BY <1>1, <1>2 DEF ShopInv, PlansFresh
<1>4. PacksFresh' BY <1>1, <1>2, ShopAssumption DEF ShopInv, PacksFresh
<1>5. \A a \in asked' : GoodAsk(a)' BY <1>1, <1>2, ShopAssumption DEF ShopInv, GoodAsk, Checkout
<1> QED BY <1>2, <1>3, <1>4, <1>5 DEF ShopInv

\* The catalog is edited.
LEMMA EditStep ==
  ASSUME ShopInv, NEW i \in Items, Edit(i)
  PROVE  ShopInv'
<1>1. PICK r \in Edits(catalog[i]) : catalog' = [catalog EXCEPT ![i] = r] BY DEF Edit
<1>2. catalog[i] \in ShopRow BY DEF ShopInv, ServerTyped
<1>3. r \in ShopRow /\ r.grants = catalog[i].grants
  <2> DEFINE c == catalog[i]
  <2>1. ASSUME NEW x \in ShopRow
        PROVE  /\ [x EXCEPT !.price = x.price + 1] \in ShopRow /\ [x EXCEPT !.price = x.price + 1].grants = x.grants
               /\ [x EXCEPT !.per = x.per + 1] \in ShopRow /\ [x EXCEPT !.per = x.per + 1].grants = x.grants
               /\ [x EXCEPT !.link = ~x.link] \in ShopRow /\ [x EXCEPT !.link = ~x.link].grants = x.grants
               /\ [x EXCEPT !.active = ~x.active] \in ShopRow /\ [x EXCEPT !.active = ~x.active].grants = x.grants
    <3> DEFINE l == ~x.link
               v == ~x.active
    <3>1. l \in BOOLEAN /\ v \in BOOLEAN OBVIOUS
    <3> HIDE DEF l, v
    <3>2. [x EXCEPT !.price = x.price + 1] \in ShopRow /\ [x EXCEPT !.price = x.price + 1].grants = x.grants BY DEF ShopRow
    <3>3. [x EXCEPT !.per = x.per + 1] \in ShopRow /\ [x EXCEPT !.per = x.per + 1].grants = x.grants BY DEF ShopRow
    <3>4. [x EXCEPT !.link = l] \in ShopRow /\ [x EXCEPT !.link = l].grants = x.grants BY <3>1 DEF ShopRow
    <3>5. [x EXCEPT !.active = v] \in ShopRow /\ [x EXCEPT !.active = v].grants = x.grants BY <3>1 DEF ShopRow
    <3> QED BY <3>2, <3>3, <3>4, <3>5 DEF l, v
  <2>2. \/ r = [c EXCEPT !.price = c.price + 1] \/ r = [c EXCEPT !.per = c.per + 1]
        \/ r = [c EXCEPT !.link = ~c.link] \/ r = [c EXCEPT !.active = ~c.active]
    BY <1>1, <1>2 DEF Edits, ShopRow
  <2> QED BY <1>2, <2>1, <2>2
<1>4. /\ moves' = moves + 1 /\ UNCHANGED <<keyed, sub, sent, cycle, asked, left, canceling, open>>
  BY DEF Edit, Moved
<1>5. ServerTyped'
  <2>1. catalog' \in [Items -> ShopRow] BY <1>1, <1>3 DEF ShopInv, ServerTyped
  <2>2. \A p \in Packs : catalog'[p].grants = 1 BY <1>1, <1>3 DEF ShopInv, ServerTyped, Items
  <2> QED BY <1>4, <2>1, <2>2 DEF ShopInv, ServerTyped
<1> QED BY <1>4, <1>5, ServerStep

\* The subscription moves.
LEMMA SubMovesStep ==
  ASSUME ShopInv, SubMoves
  PROVE  ShopInv'
<1>1. sub \in SubOf BY DEF SubMoves, ShopInv, ServerTyped
<1>2. sub' \in SubOf
  <2>1. \A st \in Statuses : [sub EXCEPT !.status = st] \in SubOf BY <1>1 DEF SubOf
  <2>2. [sub EXCEPT !.ends = TRUE] \in SubOf BY <1>1 DEF SubOf
  <2> QED BY <2>1, <2>2 DEF SubMoves
<1>3. moves' = moves + 1 /\ UNCHANGED <<catalog, keyed, sent, cycle, asked, left, canceling, open>>
  BY DEF SubMoves, Moved
<1>4. ServerTyped' BY <1>2, <1>3 DEF ShopInv, ServerTyped
<1> QED BY <1>3, <1>4, ServerStep

\* What was asked for is as it was when only the rest of the page changes.
LEMMA AsksStay ==
  ASSUME ShopInv, UNCHANGED <<catalog, moves>>, asked' = asked
  PROVE  \A a \in asked' : GoodAsk(a)'
  BY DEF ShopInv, GoodAsk

\* A read of the catalog is as of now.
LEMMA FetchStep ==
  ASSUME ShopInv, FetchPlans \/ FetchPacks \/ FetchSubscription
  PROVE  ShopInv'
<1>1. UNCHANGED <<catalog, keyed, sub, moves, cycle, asked, left, canceling, open>>
  BY DEF FetchPlans, FetchPacks, FetchSubscription, server
<1>2. ServerTyped' /\ \A a \in asked' : GoodAsk(a)' BY <1>1, AsksStay DEF ShopInv, ServerTyped
<1>3. \A i \in Items : RowOf(i) \in ShopRow \cup {None} BY DEF RowOf, ShopInv, ServerTyped
<1>4. CASE FetchPlans
  <2>1. packs' = packs /\ plans' = [rows |-> [i \in Sold |-> RowOf(i)], keyed |-> keyed, asOf |-> moves]
    BY <1>4 DEF FetchPlans, GetPlans, Active, RowOf
  <2>2. PlansFresh' BY <1>1, <1>3, <2>1 DEF PlansFresh, RowOf, Items, ShopInv, ServerTyped
  <2>3. PacksFresh' BY <1>1, <2>1 DEF ShopInv, PacksFresh, RowOf
  <2> QED BY <1>1, <1>2, <2>2, <2>3 DEF ShopInv
<1>5. CASE FetchPacks
  <2> DEFINE sentRows == [p \in Packs |-> RowOf(p)]
             answer == [rows |-> sentRows, keyed |-> keyed, asOf |-> moves]
  <2>1. Active(Packs) = sentRows /\ GetCreditPacks = answer BY DEF GetCreditPacks, Active, RowOf
  <2>2. plans' = plans /\ (packs' = Default \/ (packs' = answer /\ \E p \in Packs : sentRows[p] # None))
    BY <1>5, <2>1 DEF FetchPacks
  <2>3. PlansFresh' BY <1>1, <2>2 DEF ShopInv, PlansFresh, RowOf
  <2>4. PacksFresh'
    <3>1. CASE packs' = Default
      <4>1. packs'.rows = Catalog0 /\ packs'.asOf = None BY <3>1 DEF Default
      <4>2. packs'.asOf # moves' BY <1>1, <4>1, ShopAssumption DEF ShopInv, ServerTyped
      <4>3. PICK p \in Packs : TRUE BY ShopAssumption
      <4>4. \A q \in Packs : packs'.rows[q] \in ShopRow BY <4>1, ShopAssumption
      <4>5. packs'.rows[p] # None BY <4>3, <4>4, ShopAssumption
      <4> QED BY <4>1, <4>2, <4>4, <4>5 DEF PacksFresh
    <3>2. CASE packs' = answer /\ \E p \in Packs : sentRows[p] # None
      <4>1. packs'.rows = sentRows /\ packs'.asOf = moves BY <3>2
      <4>2. \A p \in Packs : sentRows[p] = RowOf(p) /\ sentRows[p] = RowOf(p)' BY <1>1 DEF RowOf
      <4>3. moves' \in Nat /\ moves' = moves BY <1>1 DEF ShopInv, ServerTyped
      <4>4. \E p \in Packs : packs'.rows[p] # None BY <3>2, <4>1
      <4>5. \A p \in Packs : packs'.rows[p] \in ShopRow \cup {None} BY <1>3, <4>1, <4>2 DEF Items
      <4> HIDE DEF sentRows, answer
      <4>6. packs'.asOf \in 0 .. moves' /\ \A p \in Packs : packs'.rows[p] = RowOf(p)' BY <4>1, <4>2, <4>3
      <4> QED BY <4>4, <4>5, <4>6 DEF PacksFresh
    <3> QED BY <2>2, <3>1, <3>2
  <2> QED BY <1>1, <1>2, <2>3, <2>4 DEF ShopInv
<1>6. CASE FetchSubscription
  <2>1. plans' = plans /\ packs' = packs BY <1>6 DEF FetchSubscription
  <2>2. PlansFresh' /\ PacksFresh' BY <1>1, <2>1 DEF ShopInv, PlansFresh, PacksFresh, RowOf
  <2> QED BY <1>1, <1>2, <2>2 DEF ShopInv
<1> QED BY <1>4, <1>5, <1>6

\* Of finitely many numbers one is the greatest: fewest are above it.
LEMMA GreatestOf ==
  ASSUME NEW S, IsFiniteSet(S), S # {}, NEW f \in [S -> Nat]
  PROVE  \E p \in S : \A o \in S : f[o] <= f[p]
<1> DEFINE above(p) == {o \in S : f[o] > f[p]}
           T == {Cardinality(above(p)) : p \in S}
<1>1. ASSUME NEW p \in S PROVE IsFiniteSet(above(p)) /\ Cardinality(above(p)) \in Nat
  <2>1. above(p) \subseteq S OBVIOUS
  <2> HIDE DEF above
  <2> QED BY <2>1, FS_Subset, FS_CardinalityType
<1>2. T \in SUBSET Nat /\ T # {} BY <1>1
<1>3. PICK n \in T : \A m \in T : n <= m BY <1>2, LeastOf
<1>4. PICK p \in S : n = Cardinality(above(p)) OBVIOUS
<1>5. ASSUME NEW o \in S, f[o] > f[p] PROVE FALSE
  <2>1. above(o) \subseteq above(p) /\ o \in above(p) /\ o \notin above(o) BY <1>5
  <2>2. Cardinality(above(o)) <= Cardinality(above(p)) /\ Cardinality(above(o)) # Cardinality(above(p))
    <3> HIDE DEF above
    <3> QED BY <1>1, <2>1, FS_Subset
  <2>3. Cardinality(above(o)) \in T OBVIOUS
  <2>4. Cardinality(above(o)) \in Nat /\ Cardinality(above(p)) \in Nat BY <1>1
  <2>5. Cardinality(above(p)) <= Cardinality(above(o)) BY <1>3, <1>4, <2>3
  <2> HIDE DEF above, T
  <2> QED BY <2>2, <2>4, <2>5
<1> QED BY <1>5

\* The pack the estimator names is one that is shown.
LEMMA PackForIsShown ==
  ASSUME ShopInv, packs # None, NEW n \in Nat
  PROVE  PackFor(n) \in Packs /\ packs.rows[PackFor(n)] # None
<1> DEFINE per(p) == packs.rows[p].per
           covers == {p \in Shown : per(p) >= n}
<1>1. /\ Shown \subseteq Packs /\ Shown # {} /\ \A p \in Shown : packs.rows[p] # None /\ per(p) \in Nat
  BY DEF Shown, ShopInv, PacksFresh, ShopRow
<1>2. PackFor(n) = IF covers # {} THEN CHOOSE p \in covers : \A o \in covers : per(p) <= per(o)
                   ELSE CHOOSE p \in Shown : \A o \in Shown : per(o) <= per(p)
  BY DEF PackFor
<1>3. covers \subseteq Shown OBVIOUS
<1> HIDE DEF per, covers
<1>4. CASE covers # {}
  <2> DEFINE T == {per(p) : p \in covers}
  <2>1. T \in SUBSET Nat /\ T # {} BY <1>1, <1>3, <1>4
  <2>2. PICK x \in T : \A y \in T : x <= y BY <2>1, LeastOf
  <2>3. \E p \in covers : \A o \in covers : per(p) <= per(o) BY <2>2
  <2>4. PackFor(n) \in covers BY <1>2, <1>4, <2>3
  <2> QED BY <1>1, <1>3, <2>4
<1>5. CASE covers = {}
  <2> DEFINE f == [p \in Shown |-> per(p)]
  <2>1. f \in [Shown -> Nat] BY <1>1
  <2>2. IsFiniteSet(Shown) BY <1>1, FS_Subset, ShopAssumption
  <2>3. \E p \in Shown : \A o \in Shown : f[o] <= f[p]
    <3> HIDE DEF f
    <3> QED BY <1>1, <2>1, <2>2, GreatestOf
  <2>4. \E p \in Shown : \A o \in Shown : per(o) <= per(p) BY <2>3
  <2>5. PackFor(n) \in Shown BY <1>2, <1>5, <2>4
  <2> QED BY <1>1, <2>5
<1> QED BY <1>4, <1>5

\* A checkout that is asked for is of what the page shows; those before it are no longer
\* the last of the page.
LEMMA AskStep ==
  ASSUME ShopInv, NEW i \in Items, NEW s \in Sale, NEW asOf \in 0 .. moves \cup {None}, Ask(i, s, asOf),
         asOf = moves /\ catalog[i].active => s = SaleOf(catalog[i]), UNCHANGED open
  PROVE  ShopInv'
<1>1. UNCHANGED <<catalog, keyed, sub, moves, plans, packs, mine, cycle, left, canceling, open>> BY DEF Ask, server, sent
<1>2. moves \in Nat BY DEF ShopInv, ServerTyped
<1> DEFINE here(a) == a.here /\ (a.item \in Sold) # (i \in Sold)
           new == [item |-> i, shown |-> s, asOf |-> asOf, here |-> TRUE]
<1>3. asked' = {[a EXCEPT !.here = here(a)] : a \in asked} \cup {new}
  BY DEF Ask, ShopInv, GoodAsk, Checkout
<1>4. GoodAsk(new)'
  <2>1. new \in Checkout /\ new.asOf = asOf /\ new.shown = s /\ new.item = i
    BY <1>2 DEF Checkout
  <2> HIDE DEF new
  <2> QED BY <1>1, <1>2, <2>1, ShopAssumption DEF GoodAsk, SaleOf
<1>5. ASSUME NEW a \in asked PROVE GoodAsk([a EXCEPT !.here = here(a)])'
  <2> DEFINE b == here(a)
             x == [a EXCEPT !.here = b]
  <2>1. b \in BOOLEAN OBVIOUS
  <2>2. GoodAsk(a) /\ a \in Checkout BY DEF ShopInv, GoodAsk
  <2> HIDE DEF b
  <2>3. x \in Checkout /\ x.item = a.item /\ x.shown = a.shown /\ x.asOf = a.asOf BY <2>1, <2>2 DEF Checkout
  <2> HIDE DEF x
  <2>4. GoodAsk(x)' BY <1>1, <2>2, <2>3 DEF GoodAsk, SaleOf
  <2> QED BY <2>4 DEF x, b
<1>6. \A a \in asked' : GoodAsk(a)' BY <1>3, <1>4, <1>5
<1>7. ServerTyped' /\ PlansFresh' /\ PacksFresh' BY <1>1 DEF ShopInv, ServerTyped, PlansFresh, PacksFresh, RowOf
<1> QED BY <1>1, <1>6, <1>7 DEF ShopInv

\* A plan's button asks at the terms on its card.
LEMMA StartCheckoutStep ==
  ASSUME ShopInv, NEW t, StartCheckout(t)
  PROVE  ShopInv'
<1> DEFINE i == <<t, cycle>>
           s == [price |-> Price(i), credits |-> Credits(i)]
<1>1. i \in Sold /\ plans # None /\ Ask(i, s, plans.asOf) /\ open /\ UNCHANGED open
  BY DEF StartCheckout, Loaded, Ask, ShopInv
<1> HIDE DEF i
<1>2. plans.rows[i] \in ShopRow \cup {None} /\ plans.asOf \in 0 .. moves /\ (plans.asOf = moves => plans.rows[i] = RowOf(i))
  BY <1>1 DEF ShopInv, PlansFresh
<1>3. i \in Items /\ catalog[i] \in ShopRow BY <1>1 DEF Items, ShopInv, ServerTyped
<1>4. s \in Sale BY <1>2 DEF Sale, Price, Credits, Row, ShopRow
<1>5. plans.asOf = moves /\ catalog[i].active => s = SaleOf(catalog[i])
  BY <1>2, <1>3, ShopAssumption DEF RowOf, SaleOf, Price, Credits, Row
<1> HIDE DEF s
<1> QED BY <1>1, <1>2, <1>3, <1>4, <1>5, AskStep

\* A pack's button asks at the terms on its card.
LEMMA BuyStep ==
  ASSUME ShopInv, NEW p \in Packs, packs # None, packs.rows[p] # None, BuyCredits(p), UNCHANGED open
  PROVE  ShopInv'
<1> DEFINE s == [price |-> packs.rows[p].price, credits |-> packs.rows[p].per]
<1>1. Ask(p, s, packs.asOf) BY DEF BuyCredits
<1>2. /\ packs.rows[p] \in ShopRow /\ packs.asOf \in 0 .. moves \cup {None}
      /\ packs.asOf = moves => packs.rows[p] = RowOf(p)
  BY DEF ShopInv, PacksFresh
<1>3. p \in Items /\ catalog[p] \in ShopRow /\ catalog[p].grants = 1 BY DEF Items, ShopInv, ServerTyped
<1>4. s \in Sale BY <1>2 DEF Sale, ShopRow
<1>5. packs.asOf = moves /\ catalog[p].active => s = SaleOf(catalog[p])
  BY <1>2, <1>3, ShopAssumption DEF RowOf, SaleOf, ShopRow
<1> HIDE DEF s
<1> QED BY <1>1, <1>2, <1>3, <1>4, <1>5, AskStep

\* The estimate is a whole number of tokens.
LEMMA CreditsAreWhole ==
  ASSUME NEW h \in HalfMinutes, NEW q
  PROVE  CreditsForHalfMinutes(h, q) \in Nat
<1>1. h \in Nat BY PlansPageAssumption
<1>2. RateFor(q) \in {10, 20, 40} BY DEF RateFor, CreditsPerMinute
<1> DEFINE tens == ((h * RateFor(q) + 10) \div 20) * 10
<1>3. tens \in Int
  <2>1. CASE RateFor(q) = 10 BY <1>1, <2>1
  <2>2. CASE RateFor(q) = 20 BY <1>1, <2>2
  <2>3. CASE RateFor(q) = 40 BY <1>1, <2>3
  <2> QED BY <1>2, <2>1, <2>2, <2>3
<1>4. CreditsForHalfMinutes(h, q) = IF tens > 10 THEN tens ELSE 10 BY DEF CreditsForHalfMinutes
<1> HIDE DEF tens
<1> QED BY <1>3, <1>4

\* The checkout the browser goes to: the row is on sale, so what was shown as of now is it.
LEMMA CheckoutUrlStep ==
  ASSUME ShopInv, NEW a \in asked, CheckoutUrl(a)
  PROVE  ShopInv'
<1>1. UNCHANGED <<catalog, keyed, sub, moves, cycle>> BY DEF CheckoutUrl, server
<1>2. GoodAsk(a) BY DEF ShopInv
<1>3. CASE Url(a.item)
  <2>1. /\ left'.same = (a.asOf = moves) /\ left'.shown = a.shown /\ left'.sold = SaleOf(catalog[a.item])
        /\ asked' = {} /\ open' = FALSE /\ plans' = None /\ packs' = None /\ canceling' = FALSE
    BY <1>3 DEF CheckoutUrl, Item, SaleOf
  <2>2. left'.same => left'.shown = left'.sold BY <1>2, <1>3, <2>1 DEF Url, GoodAsk
  <2> QED BY <1>1, <2>1, <2>2 DEF ShopInv, ServerTyped, PlansFresh, PacksFresh
<1>4. CASE ~Url(a.item)
  <2>1. asked' = asked \ {a} /\ UNCHANGED <<left, plans, packs, mine, canceling, open>>
    BY <1>4 DEF CheckoutUrl, Item, sent
  <2>2. \A b \in asked' : GoodAsk(b)' BY <1>1, <2>1 DEF ShopInv, GoodAsk
  <2> QED BY <1>1, <2>1, <2>2 DEF ShopInv, ServerTyped, PlansFresh, PacksFresh, RowOf
<1> QED BY <1>3, <1>4

\* The page is closed or opened again.
LEMMA LeaveStep ==
  ASSUME ShopInv, Leave
  PROVE  ShopInv'
<1>1. /\ UNCHANGED <<catalog, keyed, sub, moves, plans, packs, left>> /\ open' = ~open /\ canceling' = FALSE
      /\ cycle' = "monthly" /\ asked' = {[a EXCEPT !.here = FALSE] : a \in asked}
  BY DEF Leave, server, sent
<1>2. ASSUME NEW a \in asked PROVE GoodAsk([a EXCEPT !.here = FALSE])'
  <2> DEFINE x == [a EXCEPT !.here = FALSE]
  <2>1. GoodAsk(a) /\ a \in Checkout BY DEF ShopInv, GoodAsk
  <2>2. x \in Checkout /\ x.item = a.item /\ x.shown = a.shown /\ x.asOf = a.asOf BY <2>1 DEF Checkout
  <2> HIDE DEF x
  <2>3. GoodAsk(x)' BY <1>1, <2>1, <2>2 DEF GoodAsk, SaleOf
  <2> QED BY <2>3 DEF x
<1>3. \A a \in asked' : GoodAsk(a)' BY <1>1, <1>2
<1>4. ServerTyped' /\ PlansFresh' /\ PacksFresh' BY <1>1 DEF ShopInv, ServerTyped, PlansFresh, PacksFresh, RowOf
<1>5. open' \in BOOLEAN BY <1>1
<1> QED BY <1>1, <1>3, <1>4, <1>5 DEF ShopInv, Cycles

\* The other clicks.
LEMMA RestOfPageStep ==
  ASSUME ShopInv, OnCancel \/ Canceled \/ (\E c \in Cycles : SwitchCycle(c)) \/ UNCHANGED vars
  PROVE  ShopInv'
<1>1. UNCHANGED <<catalog, keyed, moves, plans, packs, asked, left, open>>
  BY DEF OnCancel, Canceled, SwitchCycle, vars, server, sent
<1>2. cycle' \in Cycles /\ canceling' \in BOOLEAN
  BY DEF ShopInv, OnCancel, Canceled, SwitchCycle, vars
<1>3. sub' \in SubOf \cup {None}
  <2>1. sub \in SubOf \cup {None} BY DEF ShopInv, ServerTyped
  <2>2. sub # None => [sub EXCEPT !.ends = TRUE] \in SubOf BY <2>1 DEF SubOf
  <2> QED BY <2>1, <2>2 DEF OnCancel, Canceled, SwitchCycle, vars, server
<1>4. ServerTyped' /\ PlansFresh' /\ PacksFresh' /\ \A a \in asked' : GoodAsk(a)'
  BY <1>1, <1>3, AsksStay DEF ShopInv, ServerTyped, PlansFresh, PacksFresh, RowOf
<1> QED BY <1>1, <1>2, <1>4 DEF ShopInv

\* Every step keeps the invariant.
LEMMA ShopStep == ShopInv /\ [Next]_vars => ShopInv'
<1> SUFFICES ASSUME ShopInv, [Next]_vars PROVE ShopInv' OBVIOUS
<1>1. ASSUME NEW p \in Packs, Buy(p) PROVE ShopInv'
  <2>1. packs # None /\ packs.rows[p] # None /\ BuyCredits(p) /\ UNCHANGED open
    BY <1>1 DEF Buy, Shown, BuyCredits, Ask
  <2> QED BY <2>1, BuyStep
<1>2. ASSUME NEW h \in HalfMinutes, NEW q \in {"fast", "balanced", "studio"}, BuyEstimated(h, q) PROVE ShopInv'
  <2> DEFINE p == PackFor(CreditsForHalfMinutes(h, q))
  <2>1. packs # None /\ BuyCredits(p) /\ UNCHANGED open BY <1>2 DEF BuyEstimated, BuyCredits, Ask
  <2>2. p \in Packs /\ packs.rows[p] # None BY <2>1, PackForIsShown, CreditsAreWhole
  <2> HIDE DEF p
  <2> QED BY <2>1, <2>2, BuyStep
<1> QED BY <1>1, <1>2, EditStep, SubMovesStep, FetchStep, StartCheckoutStep, CheckoutUrlStep, LeaveStep, RestOfPageStep DEF Next

\* What the page promises of each plan by name is what the gates let it do.
LEMMA ComparedAsGated ==
  \A f \in DOMAIN CompareRows : CompareRows[f] = {Tiers[n] : n \in {m \in DOMAIN Tiers : f \in Features(Tiers[m])}}
<1>1. Tiers = <<"FREE", "PRO", "STUDIO">> /\ DOMAIN Tiers = {1, 2, 3} BY DEF Tiers
<1>2. DOMAIN Options = 1 .. 7 /\ 1 .. 7 = {1, 2, 3, 4, 5, 6, 7} BY DEF Options
<1>3. {Options[n] : n \in DOMAIN Options} =
        {"studio", "language", "voice", "reference", "background", "lipsync", "subtitles"}
  BY <1>2 DEF Options
<1>4. DOMAIN CompareRows = {"language", "voice", "reference", "background", "lipsync", "studio"} BY DEF CompareRows
<1>5. /\ Features("FREE") = {} /\ Features("PRO") = Pro
      /\ {"studio", "language", "voice", "reference", "background", "lipsync", "subtitles"} \subseteq Features("STUDIO")
  BY <1>3 DEF Features
<1>6. ASSUME NEW f \in DOMAIN CompareRows
      PROVE  CompareRows[f] = {Tiers[n] : n \in {m \in DOMAIN Tiers : f \in Features(Tiers[m])}}
  <2>1. {Tiers[n] : n \in {m \in DOMAIN Tiers : f \in Features(Tiers[m])}} =
          {t \in {"FREE", "PRO", "STUDIO"} : f \in Features(t)}
    BY <1>1
  <2>2. f \notin Features("FREE") /\ f \in Features("STUDIO") BY <1>4, <1>5
  <2>3. f \in Features("PRO") <=> f \notin {"lipsync", "studio"} BY <1>4, <1>5 DEF Pro
  <2>4. CompareRows[f] = IF f \in {"lipsync", "studio"} THEN {"STUDIO"} ELSE {"PRO", "STUDIO"} BY <1>4 DEF CompareRows
  <2>5. CASE f \in {"lipsync", "studio"} BY <2>1, <2>2, <2>3, <2>4, <2>5
  <2>6. CASE f \notin {"lipsync", "studio"} BY <2>1, <2>2, <2>3, <2>4, <2>6
  <2> QED BY <2>5, <2>6
<1> QED BY <1>6

\* What the run checks follows from the invariant.
LEMMA ShopInvIsEnough == ShopInv => TypeOK /\ SoldAsShown
<1> SUFFICES ASSUME ShopInv PROVE TypeOK /\ SoldAsShown OBVIOUS
<1>1. SoldAsShown BY ComparedAsGated DEF ShopInv, SoldAsShown
<1>2. TypeOK BY DEF ShopInv, ServerTyped, ShopRow, SubOf, GoodAsk, Checkout, TypeOK
<1> QED BY <1>1, <1>2

\* What is sold is what was shown.
LEMMA ShopInvariant == Spec => [](TypeOK /\ SoldAsShown)
  BY ShopStart, ShopStep, ShopInvIsEnough, PTL DEF Spec
-----------------------------------------------------------------------------
(* Recognition (Recognise).  The places of a line are kept in their order: Nth counts
   through them. *)
Upto(at, k) == {j \in at : j <= k}
Place(at, k) == Cardinality(Upto(at, k))

\* The module's own copy of Cardinality is the library's.
LEMMA EarCardinality == \A S : Ear!Cardinality(S) = Cardinality(S)
  BY DEF Ear!Cardinality, Cardinality

\* Places in a list are numbers within it.
LEMMA PlacesAreNumbers ==
  ASSUME NEW N \in Nat, NEW at \in SUBSET (1 .. N)
  PROVE  \A j \in at : j \in Nat /\ 1 <= j /\ j <= N
<1>1. \A j \in at : j \in 1 .. N OBVIOUS
<1> QED BY <1>1

\* There are finitely many, and as many up to any of them.
LEMMA PlacesAreFinite ==
  ASSUME NEW N \in Nat, NEW at \in SUBSET (1 .. N)
  PROVE  /\ IsFiniteSet(at) /\ Cardinality(at) \in Nat
         /\ \A k \in Nat : IsFiniteSet(Upto(at, k)) /\ Place(at, k) \in Nat /\ Place(at, k) <= Cardinality(at)
<1>0. IsFiniteSet(1 .. N) BY FS_Interval
<1>1. IsFiniteSet(at) BY <1>0, FS_Subset
<1>2. \A k \in Nat : Upto(at, k) \subseteq at BY DEF Upto
<1> QED BY <1>1, <1>2, FS_Subset, FS_CardinalityType DEF Place

\* A later place has more places before it.
LEMMA PlaceGrows ==
  ASSUME NEW N \in Nat, NEW at \in SUBSET (1 .. N), NEW k \in at, NEW l \in Nat, l < k
  PROVE  Place(at, l) < Place(at, k) /\ Place(at, k) >= 1
<1>0. \A j \in at : j \in Nat BY PlacesAreNumbers
<1>1. Upto(at, l) \subseteq Upto(at, k) /\ k \in Upto(at, k) /\ k \notin Upto(at, l)
  <2>1. k \in Nat BY <1>0
  <2>2. \A j \in at : j <= l => j <= k BY <1>0, <2>1
  <2>3. k <= k /\ ~(k <= l) BY <2>1
  <2> QED BY <2>2, <2>3 DEF Upto
<1>2. k \in Nat BY <1>0
<1>3. /\ IsFiniteSet(Upto(at, k)) /\ Place(at, k) \in Nat /\ Place(at, l) \in Nat
  BY <1>2, PlacesAreFinite
<1>4. Place(at, l) <= Place(at, k) /\ Place(at, l) # Place(at, k)
  BY <1>1, <1>3, FS_Subset DEF Place
<1> QED BY <1>3, <1>4

\* There is an n-th place, for every n up to their number.
LEMMA NthIsThere ==
  ASSUME NEW N \in Nat, NEW at \in SUBSET (1 .. N), NEW n \in 1 .. Cardinality(at)
  PROVE  Ear!Nth(at, n) \in at /\ Place(at, Ear!Nth(at, n)) = n
<1> DEFINE T == {m \in 0 .. N : Place(at, m) >= n}
<1>0. \A j \in at : j \in Nat /\ 1 <= j /\ j <= N BY PlacesAreNumbers
<1>1. Cardinality(at) \in Nat /\ \A k \in Nat : Place(at, k) \in Nat /\ IsFiniteSet(Upto(at, k)) BY PlacesAreFinite
<1>2. n \in Nat /\ n >= 1 /\ n <= Cardinality(at) BY <1>1
<1>3. Place(at, N) = Cardinality(at)
  <2>1. Upto(at, N) = at BY <1>0 DEF Upto
  <2> QED BY <2>1 DEF Place
<1>4. N \in T BY <1>2, <1>3
<1>5. PICK m \in T : \A l \in T : m <= l
  <2>1. T \in SUBSET Nat /\ T # {} BY <1>4
  <2> HIDE DEF T
  <2> QED BY <2>1, LeastOf
<1>6. Place(at, 0) = 0
  <2>0. \A j \in at : ~(j <= 0) BY <1>0
  <2>1. Upto(at, 0) = {} BY <2>0 DEF Upto
  <2> QED BY <2>1, FS_EmptySet DEF Place
<1>7. m \in 1 .. N BY <1>2, <1>6
<1>8. m - 1 \in 0 .. N /\ Place(at, m - 1) < n
  <2>1. m - 1 \in 0 .. N /\ m - 1 \notin T BY <1>5, <1>7
  <2>2. Place(at, m - 1) \in Nat BY <1>1, <2>1
  <2> QED BY <1>2, <2>1, <2>2
<1>9. m \in at /\ Place(at, m) = n
  <2>0. \A j \in at : j <= m <=> j <= m - 1 \/ j = m BY <1>0, <1>7
  <2>1. m - 1 < m BY <1>7
  <2>2. m \notin at => Upto(at, m) = Upto(at, m - 1) BY <2>0 DEF Upto
  <2>a. Place(at, m) \in Nat /\ Place(at, m - 1) \in Nat /\ Place(at, m) >= n
    BY <1>1, <1>5, <1>7, <1>8
  <2>3. m \in at
    <3>1. m \notin at => Place(at, m) = Place(at, m - 1) BY <2>2 DEF Place
    <3> QED BY <1>2, <1>8, <2>a, <3>1
  <2>b. m \in Nat /\ ~(m <= m - 1) BY <1>7
  <2>4. Upto(at, m) = Upto(at, m - 1) \cup {m} /\ m \notin Upto(at, m - 1) BY <2>0, <2>3, <2>b DEF Upto
  <2>5. Place(at, m) = Place(at, m - 1) + 1
    <3>1. IsFiniteSet(Upto(at, m - 1)) BY <1>1, <1>8
    <3>2. Cardinality(Upto(at, m - 1) \cup {m}) = Cardinality(Upto(at, m - 1)) + 1 BY <2>4, <3>1, FS_AddElement
    <3> QED BY <2>4, <3>2 DEF Place
  <2> QED BY <1>2, <1>8, <2>3, <2>5, <2>a
<1>10. Ear!Nth(at, n) = CHOOSE k \in at : Place(at, k) = n BY EarCardinality DEF Ear!Nth, Place, Upto
<1> QED BY <1>9, <1>10

\* The places are counted in their order, all of them.
LEMMA NthIsOrdered ==
  ASSUME NEW N \in Nat, NEW at \in SUBSET (1 .. N)
  PROVE  /\ Cardinality(at) \in Nat
         /\ \A k \in 1 .. Cardinality(at) : Ear!Nth(at, k) \in at
         /\ \A k, l \in 1 .. Cardinality(at) : k < l <=> Ear!Nth(at, k) < Ear!Nth(at, l)
         /\ \A i \in at : \E k \in 1 .. Cardinality(at) : Ear!Nth(at, k) = i
<1> DEFINE n == Cardinality(at)
           e(k) == Ear!Nth(at, k)
<1>1. n \in Nat BY PlacesAreFinite
<1>3. \A k \in 1 .. n : e(k) \in at /\ Place(at, e(k)) = k BY NthIsThere
<1>4. (\A j \in at : j \in Nat /\ 1 <= j /\ j <= N) /\ \A k \in 1 .. n : e(k) \in Nat BY <1>3, PlacesAreNumbers
<1> HIDE DEF e
<1>5. ASSUME NEW k \in 1 .. n, NEW l \in 1 .. n, e(k) < e(l) PROVE k < l
  BY <1>1, <1>3, <1>4, <1>5, PlaceGrows
<1>6. ASSUME NEW k \in 1 .. n, NEW l \in 1 .. n, k < l PROVE e(k) < e(l)
  <2>1. ~(e(l) < e(k)) BY <1>1, <1>5, <1>6
  <2>2. e(l) # e(k) BY <1>1, <1>3, <1>6
  <2> QED BY <1>4, <2>1, <2>2
<1>7. ASSUME NEW i \in at PROVE \E k \in 1 .. n : e(k) = i
  <2> DEFINE r == Place(at, i)
  <2>1. i \in Nat /\ 0 < i BY <1>4, <1>7
  <2>0. r \in Nat /\ r <= n BY <2>1, PlacesAreFinite
  <2>a. r >= 1 BY <1>7, <2>1, PlaceGrows
  <2>2. r \in 1 .. n BY <1>1, <2>0, <2>a
  <2>3. e(r) \in at /\ Place(at, e(r)) = r /\ e(r) \in Nat BY <1>3, <1>4, <2>2
  <2>4. ~(e(r) < i) /\ ~(i < e(r))
    <3>1. ASSUME e(r) < i PROVE FALSE
      <4>1. Place(at, e(r)) < Place(at, i) BY <1>7, <2>3, <3>1, PlaceGrows
      <4> QED BY <2>0, <2>3, <4>1
    <3>2. ASSUME i < e(r) PROVE FALSE
      <4>1. Place(at, i) < Place(at, e(r)) BY <2>1, <2>3, <3>2, PlaceGrows
      <4> QED BY <2>0, <2>3, <4>1
    <3> QED BY <3>1, <3>2
  <2>5. e(r) = i BY <2>1, <2>3, <2>4
  <2> QED BY <2>2, <2>5
<1> QED BY <1>1, <1>3, <1>5, <1>6, <1>7 DEF e

\* Between two lines of a row every line is of it.
LEMMA RunWithin ==
  ASSUME NEW N \in Nat, NEW s, DOMAIN s = 1 .. N, NEW k \in 1 .. N, NEW j \in Ear!Run(s, k)
  PROVE  /\ j \in 1 .. N
         /\ \A i \in Nat : (j <= i /\ i <= k) \/ (k <= i /\ i <= j) => s[i].text = s[k].text
         /\ s[j].text = s[k].text
<1>1. j \in 1 .. N /\ \A i \in j .. k \cup k .. j : s[i].text = s[k].text BY DEF Ear!Run
<1>2. \A i \in Nat : (j <= i /\ i <= k) \/ (k <= i /\ i <= j) => i \in j .. k \cup k .. j BY <1>1
<1>3. j \in j .. k \cup k .. j BY <1>1
<1> QED BY <1>1, <1>2, <1>3

\* Lines of one text between two places are of one run.
LEMMA InRun ==
  ASSUME NEW N \in Nat, NEW s, DOMAIN s = 1 .. N, NEW k \in 1 .. N, NEW j \in 1 .. N,
         \A i \in 1 .. N : (j <= i /\ i <= k) \/ (k <= i /\ i <= j) => s[i].text = s[k].text
  PROVE  j \in Ear!Run(s, k)
<1>1. ASSUME NEW i \in j .. k \cup k .. j PROVE s[i].text = s[k].text
  <2>1. i \in 1 .. N /\ ((j <= i /\ i <= k) \/ (k <= i /\ i <= j)) OBVIOUS
  <2> QED BY <2>1
<1> QED BY <1>1 DEF Ear!Run

\* The lines of a row have one row.
LEMMA OneRun ==
  ASSUME NEW N \in Nat, NEW s, DOMAIN s = 1 .. N, NEW k \in 1 .. N, NEW j \in Ear!Run(s, k)
  PROVE  Ear!Run(s, j) = Ear!Run(s, k) /\ k \in Ear!Run(s, j)
<1>1. ASSUME NEW a \in 1 .. N, NEW b \in Ear!Run(s, a), NEW l \in Ear!Run(s, a) PROVE l \in Ear!Run(s, b)
  <2>1. b \in 1 .. N /\ s[b].text = s[a].text
        /\ \A i \in Nat : (b <= i /\ i <= a) \/ (a <= i /\ i <= b) => s[i].text = s[a].text
    BY RunWithin
  <2>2. l \in 1 .. N /\ \A i \in Nat : (l <= i /\ i <= a) \/ (a <= i /\ i <= l) => s[i].text = s[a].text
    BY RunWithin
  <2>3. ASSUME NEW i \in 1 .. N, (l <= i /\ i <= b) \/ (b <= i /\ i <= l) PROVE s[i].text = s[b].text
    <3>1. i \in Nat BY <2>3
    <3>2. \/ (b <= i /\ i <= a) \/ (a <= i /\ i <= b) \/ (l <= i /\ i <= a) \/ (a <= i /\ i <= l)
      BY <2>1, <2>2, <2>3
    <3> QED BY <2>1, <2>2, <3>1, <3>2
  <2> QED BY <2>1, <2>2, <2>3, InRun
<1>2. j \in 1 .. N BY RunWithin
<1>3. k \in Ear!Run(s, k)
  <2>1. \A i \in 1 .. N : (k <= i /\ i <= k) \/ (k <= i /\ i <= k) => s[i].text = s[k].text
    <3> TAKE i \in 1 .. N
    <3>1. k <= i /\ i <= k => i = k OBVIOUS
    <3> QED BY <3>1
  <2> QED BY <2>1, InRun
<1>4. k \in Ear!Run(s, j) BY <1>1, <1>3
<1>5. Ear!Run(s, k) \subseteq Ear!Run(s, j) BY <1>1
<1>6. Ear!Run(s, j) \subseteq Ear!Run(s, k) BY <1>1, <1>2, <1>4
<1> QED BY <1>4, <1>5, <1>6

\* The first line of a row stays, so no text goes.
LEMMA FirstOfRunStays ==
  ASSUME NEW N \in Nat, NEW s, DOMAIN s = 1 .. N, NEW k \in 1 .. N
  PROVE  \E j \in Ear!Run(s, k) : Ear!Stays(s, j) /\ \A l \in Ear!Run(s, k) : j <= l
<1>1. Ear!Run(s, k) \in SUBSET Nat BY DEF Ear!Run
<1>2. k \in Ear!Run(s, k)
  <2>1. ASSUME NEW i \in 1 .. N, (k <= i /\ i <= k) \/ (k <= i /\ i <= k) PROVE s[i].text = s[k].text
    <3>1. i = k BY <2>1
    <3> QED BY <3>1
  <2> QED BY <2>1, InRun
<1>3. PICK j \in Ear!Run(s, k) : \A l \in Ear!Run(s, k) : j <= l BY <1>1, <1>2, LeastOf
<1>4. Ear!Run(s, j) = Ear!Run(s, k) BY OneRun
<1>5. Ear!Stays(s, j) BY <1>3, <1>4 DEF Ear!Stays
<1> QED BY <1>3, <1>5

\* Of what was collapsed no row is a loop: what stays of a row is its first line alone, or
\* the whole of a row that is none.
LEMMA NoLoopIsLeft ==
  ASSUME NEW N \in Nat, NEW s, DOMAIN s = 1 .. N, NEW k \in DOMAIN Ear!Collapse(s),
         Ear!Collapse(s)[k].text # NoWord
  PROVE  Ear!Cardinality(Ear!Run(Ear!Collapse(s), k)) < LoopLength
<1> DEFINE at == {i \in DOMAIN s : Ear!Stays(s, i)}
           c == Ear!Collapse(s)
           n == Cardinality(at)
           e(j) == Ear!Nth(at, j)
<1>1. at \in SUBSET (1 .. N) /\ c = Ear!Compact(s, at) BY DEF Ear!Collapse
<1>2. \A i \in 1 .. N : i \in at <=> Ear!Stays(s, i) OBVIOUS
<1> HIDE DEF at
<1>a. c = [j \in 1 .. n |-> s[e(j)]] BY <1>1, EarCardinality DEF Ear!Compact
<1>b. n \in Nat /\ \A j \in 1 .. n : e(j) \in at BY <1>1, NthIsOrdered
<1>c. \A j, l \in 1 .. n : j < l <=> e(j) < e(l) BY <1>1, NthIsOrdered
<1>d. \A i \in at : \E j \in 1 .. n : e(j) = i BY <1>1, NthIsOrdered
<1> HIDE DEF c, n, e
<1>3. /\ n \in Nat /\ DOMAIN c = 1 .. n /\ (\A j \in 1 .. n : e(j) \in at /\ c[j] = s[e(j)])
      /\ (\A j, l \in 1 .. n : j < l <=> e(j) < e(l)) /\ \A i \in at : \E j \in 1 .. n : e(j) = i
  BY <1>a, <1>b, <1>c, <1>d
<1>e. \A x \in at : x \in 1 .. N /\ x \in Nat
  <2>1. \A x \in at : x \in 1 .. N BY <1>1
  <2>2. \A x \in 1 .. N : x \in Nat OBVIOUS
  <2> QED BY <2>1, <2>2
<1>4. \A j \in 1 .. n : e(j) \in 1 .. N /\ e(j) \in Nat BY <1>b, <1>e
<1>5. k \in 1 .. n /\ c[k].text = s[e(k)].text /\ s[e(k)].text # NoWord BY <1>3 DEF c
<1> DEFINE t == s[e(k)].text
           row_ == Ear!Run(c, k)
\* From one line of the row to another nothing else was said.
<1>6. ASSUME NEW a \in 1 .. n, NEW b \in 1 .. n, a <= b, \A j \in 1 .. n : a <= j /\ j <= b => c[j].text = t
      PROVE  \A i \in 1 .. N : e(a) <= i /\ i <= e(b) => s[i].text = t
  <2> SUFFICES ASSUME NEW i0 \in 1 .. N, e(a) <= i0, i0 <= e(b), s[i0].text # t PROVE FALSE OBVIOUS
  <2> DEFINE T == {i \in 1 .. N : e(a) <= i /\ i <= e(b) /\ s[i].text # t}
  <2>1. T \in SUBSET Nat /\ i0 \in T OBVIOUS
  <2>2. PICK i \in T : \A l \in T : i <= l
    <3> HIDE DEF T
    <3> QED BY <2>1, LeastOf
  <2>3. i \in 1 .. N /\ e(a) <= i /\ i <= e(b) /\ s[i].text # t OBVIOUS
  <2>4. s[e(a)].text = t BY <1>3, <1>6
  <2>5. e(a) \in Nat /\ e(a) < i BY <1>4, <2>3, <2>4
  <2>6. i - 1 \in 1 .. N /\ e(a) <= i - 1 /\ i - 1 <= e(b) /\ i - 1 < i BY <1>4, <2>3, <2>5
  <2>7. s[i - 1].text = t
    <3>1. i - 1 \notin T BY <2>2, <2>6
    <3> QED BY <2>6, <3>1
  <2> HIDE DEF T
  <2>8. i \notin at
    <3> SUFFICES ASSUME i \in at PROVE FALSE OBVIOUS
    <3>1. PICK j \in 1 .. n : e(j) = i BY <1>3
    <3>2. ~(j < a) /\ ~(b < j) BY <1>3, <1>4, <2>3, <3>1
    <3>3. c[j].text = t BY <1>3, <1>6, <3>2
    <3> QED BY <1>3, <2>3, <3>1, <3>3
  <2>9. ~Ear!Stays(s, i) BY <1>2, <2>3, <2>8
  <2>10. PICK j \in Ear!Run(s, i) : ~(i <= j) BY <2>9 DEF Ear!Stays
  <2>11. j \in 1 .. N /\ \A m \in Nat : (j <= m /\ m <= i) \/ (i <= m /\ m <= j) => s[m].text = s[i].text
    BY <2>3, RunWithin
  <2>12. i - 1 \in Nat /\ j <= i - 1 BY <2>3, <2>6, <2>10, <2>11
  <2>b. j <= i - 1 /\ i - 1 <= i /\ i - 1 \in Nat BY <2>3, <2>12
  <2> DEFINE l == i - 1
  <2>c. l \in Nat /\ j <= l /\ l <= i BY <2>b
  <2> HIDE DEF l
  <2>d. s[l].text = s[i].text BY <2>11, <2>c
  <2>13. s[i - 1].text = s[i].text BY <2>d DEF l
  <2> QED BY <2>3, <2>7, <2>13
<1>7. ASSUME NEW j \in row_ PROVE j \in 1 .. n /\ e(j) \in Ear!Run(s, e(k))
  <2>1. /\ j \in 1 .. n /\ c[j].text = c[k].text
        /\ \A i \in Nat : (j <= i /\ i <= k) \/ (k <= i /\ i <= j) => c[i].text = c[k].text
    BY <1>3, <1>5, RunWithin
  <2>2. \A i \in 1 .. N : (e(j) <= i /\ i <= e(k)) \/ (e(k) <= i /\ i <= e(j)) => s[i].text = t
    <3>1. CASE j <= k
      <4>1. \A i \in 1 .. n : j <= i /\ i <= k => c[i].text = t BY <1>5, <2>1
      <4>2. \A i \in 1 .. N : e(j) <= i /\ i <= e(k) => s[i].text = t BY <1>5, <1>6, <2>1, <3>1, <4>1
      <4>3. e(j) <= e(k) BY <1>3, <1>4, <1>5, <2>1, <3>1
      <4>4. \A i \in 1 .. N : e(k) <= i /\ i <= e(j) => e(j) <= i /\ i <= e(k) BY <1>4, <1>5, <2>1, <4>3
      <4> QED BY <4>2, <4>4
    <3>2. CASE k <= j
      <4>1. \A i \in 1 .. n : k <= i /\ i <= j => c[i].text = t BY <1>5, <2>1
      <4>2. \A i \in 1 .. N : e(k) <= i /\ i <= e(j) => s[i].text = t BY <1>5, <1>6, <2>1, <3>2, <4>1
      <4>3. e(k) <= e(j) BY <1>3, <1>4, <1>5, <2>1, <3>2
      <4>4. \A i \in 1 .. N : e(j) <= i /\ i <= e(k) => e(k) <= i /\ i <= e(j) BY <1>4, <1>5, <2>1, <4>3
      <4> QED BY <4>2, <4>4
    <3> QED BY <1>5, <2>1, <3>1, <3>2
  <2> QED BY <1>4, <1>5, <2>1, <2>2, InRun
<1>8. \A j, l \in 1 .. n : e(j) = e(l) => j = l BY <1>3, <1>4
<1>9. Ear!Stays(s, e(k)) /\ e(k) \in 1 .. N BY <1>1, <1>2, <1>3, <1>4, <1>5
<1>10. CASE Ear!Cardinality(Ear!Run(s, e(k))) < LoopLength
  <2> DEFINE f == [j \in row_ |-> e(j)]
             R == Ear!Run(s, e(k))
  <2>1. IsFiniteSet(R) /\ Cardinality(R) \in Nat
    <3>1. R \subseteq 1 .. N /\ IsFiniteSet(1 .. N) BY FS_Interval DEF Ear!Run
    <3> QED BY <3>1, FS_Subset, FS_CardinalityType
  <2>2. f \in [row_ -> R] /\ \A j, l \in row_ : f[j] = f[l] => j = l BY <1>7, <1>8
  <2> HIDE DEF f, row_, R
  <2>3. f \in Injection(row_, R) BY <2>2 DEF Injection, IsInjective
  <2>4. IsFiniteSet(row_) /\ Cardinality(row_) <= Cardinality(R) /\ Cardinality(row_) \in Nat
    BY <2>1, <2>3, FS_Injection, FS_CardinalityType
  <2>5. Cardinality(row_) < LoopLength BY <1>10, <2>1, <2>4, EarAssumption, EarCardinality DEF R
  <2> QED BY <2>5, EarCardinality DEF row_, c
<1>11. CASE ~(Ear!Cardinality(Ear!Run(s, e(k))) < LoopLength)
  <2>0. \A j \in Ear!Run(s, e(k)) : e(k) <= j BY <1>5, <1>9, <1>11 DEF Ear!Stays
  <2>1. ASSUME NEW j \in row_ PROVE j = k
    <3>1. j \in 1 .. n /\ e(j) \in Ear!Run(s, e(k)) BY <1>7
    <3>2. Ear!Run(s, e(j)) = Ear!Run(s, e(k)) /\ e(k) \in Ear!Run(s, e(j)) BY <1>9, <3>1, OneRun
    <3>a. e(j) \in at /\ e(j) \in 1 .. N BY <1>b, <1>4, <3>1
    <3>b. s[e(j)].text = s[e(k)].text
      <4> DEFINE x == e(j)
                 y == e(k)
      <4>1. y \in 1 .. N /\ x \in Ear!Run(s, y) BY <1>9, <3>1
      <4> HIDE DEF x, y
      <4>2. s[x].text = s[y].text BY <4>1, RunWithin
      <4> QED BY <4>2 DEF x, y
    <3>3. Ear!Stays(s, e(j)) /\ s[e(j)].text # NoWord BY <1>2, <1>5, <3>a, <3>b
    <3>4. CASE \A l \in Ear!Run(s, e(j)) : e(j) <= l
      <4>1. e(j) <= e(k) /\ e(k) <= e(j) BY <2>0, <3>1, <3>2, <3>4
      <4>2. e(j) = e(k) BY <1>4, <1>5, <3>1, <4>1
      <4> QED BY <1>5, <1>8, <3>1, <4>2
    <3> QED BY <1>11, <3>2, <3>3, <3>4 DEF Ear!Stays
  <2>2. row_ \subseteq {k} BY <2>1
  <2> HIDE DEF row_
  <2>3. IsFiniteSet({k}) /\ Cardinality({k}) = 1 BY FS_Singleton
  <2>4. Cardinality(row_) <= 1 /\ Cardinality(row_) \in Nat BY <2>2, <2>3, FS_Subset, FS_CardinalityType
  <2>5. Cardinality(row_) < LoopLength BY <2>4, EarAssumption
  <2> QED BY <2>5, EarCardinality DEF row_, c
<1> QED BY <1>10, <1>11
-----------------------------------------------------------------------------
\* The quotient and its remainder.
LEMMA WholePart ==
  ASSUME NEW a \in Nat, NEW p \in Nat \ {0}
  PROVE  a \div p \in Nat /\ p * (a \div p) <= a /\ a < p * (a \div p) + p
OBVIOUS

\* A positive factor is dropped from an inequality.
LEMMA Cancelled ==
  ASSUME NEW p \in Nat \ {0}, NEW a \in Int, NEW b \in Int
  PROVE  (p * a < p * b => a < b) /\ (p * a <= p * b => a <= b)
<1>1. p * b - p * a = p * (b - a) OBVIOUS
<1>2. b - a <= 0 => p * (b - a) <= 0 OBVIOUS
<1>3. b - a < 0 => p * (b - a) < 0 OBVIOUS
<1> QED BY <1>1, <1>2, <1>3

\* A factor is put before an inequality.
LEMMA Scaled ==
  ASSUME NEW p \in Nat, NEW a \in Int, NEW b \in Int, a <= b
  PROVE  p * a <= p * b
OBVIOUS

\* Rounding is off by half at most.
LEMMA RoundedIsNear ==
  ASSUME NEW n \in Nat, NEW d \in Nat \ {0}
  PROVE  /\ Ear!Rounded(n, d) \in Nat
         /\ 2 * (d * Ear!Rounded(n, d)) <= 2 * n + d /\ 2 * n <= 2 * (d * Ear!Rounded(n, d)) + d
<1> DEFINE q == n \div d
           r == n % d
<1>1. q \in Nat /\ r \in Nat /\ r < d /\ n = d * q + r OBVIOUS
<1>2. Ear!Rounded(n, d) = IF 2 * r > d \/ (2 * r = d /\ q % 2 = 1) THEN q + 1 ELSE q
  BY DEF Ear!Rounded
<1> HIDE DEF q, r
<1>3. d * (q + 1) = d * q + d BY <1>1
<1>4. d * q \in Nat BY <1>1
<1>5. CASE 2 * r > d \/ (2 * r = d /\ q % 2 = 1)
  <2>1. Ear!Rounded(n, d) = q + 1 /\ 2 * r >= d BY <1>1, <1>2, <1>5
  <2> QED BY <2>1, <1>1, <1>3, <1>4
<1>6. CASE ~(2 * r > d \/ (2 * r = d /\ q % 2 = 1))
  <2>1. Ear!Rounded(n, d) = q /\ 2 * r <= d BY <1>1, <1>2, <1>6
  <2> QED BY <2>1, <1>1, <1>4
<1> QED BY <1>5, <1>6

\* A stretch that is cut is cut in parts with room around each cut, and of what the model takes.
LEMMA PartsFit ==
  ASSUME NEW S \in Nat \ {0}, ~Ear!Whole(S)
  PROVE  /\ Ear!Parts(S) \in Nat /\ Ear!Parts(S) >= 2 /\ S \div Ear!Parts(S) \in Nat
         /\ 2 * Nearby + 1 <= S \div Ear!Parts(S) /\ S \div Ear!Parts(S) + 1 + 2 * Nearby <= Longest
<1> DEFINE R == Ear!Rounded(S, Aim)
           P == Ear!Parts(S)
           q == S \div P
<1>0. Aim \in Nat \ {0} /\ Longest \in Nat /\ Nearby \in Nat BY EarAssumption
<1>a. /\ 3 * Aim >= 8 * Nearby + 7 /\ 7 * Aim >= 20 * Nearby + 14
      /\ 5 * Aim + 8 * Nearby + 4 <= 4 * Longest
  BY EarAssumption
<1>1. S > Longest \/ 5 * S > 7 * Aim BY <1>0 DEF Ear!Whole
<1>2. R \in Nat /\ 2 * (Aim * R) <= 2 * S + Aim /\ 2 * S <= 2 * (Aim * R) + Aim BY <1>0, RoundedIsNear
<1>3. P = IF 2 > R THEN 2 ELSE R BY DEF Ear!Parts, Ear!Larger
<1>4. P \in Nat /\ P >= 2 BY <1>2, <1>3
<1>5. q \in Nat /\ P * q <= S /\ S < P * q + P BY <1>4, WholePart
<1> HIDE DEF P, q, R
<1>6. CASE R >= 2
  <2>1. P = R BY <1>2, <1>3, <1>6
  <2>2. Aim * P \in Nat /\ 2 * Aim <= Aim * P BY <1>0, <1>4
  <2>3. 3 * (Aim * P) <= 4 * S /\ 4 * S <= 5 * (Aim * P) BY <1>0, <1>2, <2>1, <2>2
  <2>4. P * (4 * q) <= P * (5 * Aim)
    <3>1. P * (4 * q) = 4 * (P * q) /\ P * (5 * Aim) = 5 * (Aim * P) /\ P * q \in Nat BY <1>0, <1>4, <1>5
    <3> QED BY <3>1, <2>2, <2>3, <1>5
  <2>5. P * (3 * Aim) < P * (4 * (q + 1))
    <3>1. P * (4 * (q + 1)) = 4 * (P * q + P) /\ P * (3 * Aim) = 3 * (Aim * P) /\ P * q \in Nat BY <1>0, <1>4, <1>5
    <3> QED BY <3>1, <2>2, <2>3, <1>4, <1>5
  <2>6. 4 * q <= 5 * Aim BY <2>4, <1>0, <1>4, <1>5, Cancelled
  <2>7. 3 * Aim < 4 * (q + 1) BY <2>5, <1>0, <1>4, <1>5, Cancelled
  <2> QED BY <1>0, <1>a, <1>4, <1>5, <2>6, <2>7 DEF P, q
<1>7. CASE R < 2
  <2>1. P = 2 BY <1>2, <1>3, <1>7
  <2>2. 2 * S <= 3 * Aim
    <3>1. Aim * R <= Aim BY <1>0, <1>2, <1>7
    <3>2. Aim * R \in Nat BY <1>0, <1>2
    <3> QED BY <1>0, <1>2, <3>1, <3>2
  <2>3. 2 * q <= S /\ S < 2 * q + 2 BY <1>5, <2>1
  <2>4. q + 1 + 2 * Nearby <= Longest BY <1>0, <1>a, <1>5, <2>2, <2>3
  <2>5. 2 * Nearby + 1 <= q BY <1>0, <1>a, <1>1, <1>5, <2>3
  <2> QED BY <1>4, <1>5, <2>4, <2>5 DEF P, q
<1> QED BY <1>2, <1>6, <1>7

\* Where the cuts of a stretch are looked for.
Near(S, k) == (k * S) \div Ear!Parts(S)
\* Cuts are a part's length apart, up to the rounding.
LEMMA CutsApart ==
  ASSUME NEW S \in Nat \ {0}, ~Ear!Whole(S), NEW k \in Nat \ {0}, k <= Ear!Parts(S)
  PROVE  /\ Near(S, k) \in Nat /\ Near(S, k - 1) \in Nat
         /\ Near(S, k) - Near(S, k - 1) >= S \div Ear!Parts(S)
         /\ Near(S, k) - Near(S, k - 1) <= S \div Ear!Parts(S) + 1
         /\ Near(S, k) <= S
         /\ (k = 1 => Near(S, k - 1) = 0) /\ (k = Ear!Parts(S) => Near(S, k) = S)
         /\ (k # 1 => Near(S, k - 1) >= S \div Ear!Parts(S))
<1> DEFINE P == Ear!Parts(S)
           q == S \div P
           d == Near(S, k)
           c == Near(S, k - 1)
<1>0. P \in Nat \ {0} BY PartsFit
<1>1. q \in Nat /\ P * q <= S /\ S < P * q + P BY <1>0, WholePart
<1>2. k * S \in Nat /\ (k - 1) * S \in Nat /\ k * S = (k - 1) * S + S OBVIOUS
<1> DEFINE u == k * S
           v == (k - 1) * S
<1>3. d = u \div P /\ c = v \div P BY DEF Near
<1>4. u \in Nat /\ v \in Nat /\ u = v + S BY <1>2
<1>a. k - 1 >= 1 => v >= S OBVIOUS
<1>b. k = 1 => v = 0 OBVIOUS
<1>c. u <= P * S /\ (k = P => u = P * S) BY <1>0
<1> HIDE DEF P, q, d, c, u, v
<1>5. d \in Nat /\ P * d <= u /\ u < P * d + P BY <1>0, <1>3, <1>4, WholePart
<1>6. c \in Nat /\ P * c <= v /\ v < P * c + P BY <1>0, <1>3, <1>4, WholePart
<1>7. P * q \in Nat /\ P * c \in Nat /\ P * d \in Nat /\ P * S \in Nat BY <1>0, <1>1, <1>5, <1>6
<1>8. q <= d - c
  <2>1. P * (c + q) < P * (d + 1)
    <3>1. P * (c + q) = P * c + P * q /\ P * (d + 1) = P * d + P BY <1>0, <1>1, <1>5, <1>6
    <3> QED BY <3>1, <1>0, <1>1, <1>4, <1>5, <1>6, <1>7
  <2>2. c + q < d + 1 BY <2>1, <1>0, <1>1, <1>5, <1>6, Cancelled
  <2> QED BY <2>2, <1>1, <1>5, <1>6
<1>9. d - c <= q + 1
  <2>1. P * d < P * (c + q + 2)
    <3>1. P * (c + q + 2) = P * c + P * q + 2 * P BY <1>0, <1>1, <1>6
    <3> QED BY <3>1, <1>0, <1>1, <1>4, <1>5, <1>6, <1>7
  <2>2. d < c + q + 2 BY <2>1, <1>0, <1>1, <1>5, <1>6, Cancelled
  <2> QED BY <2>2, <1>1, <1>5, <1>6
<1>10. d <= S
  <2>1. P * d <= P * S BY <1>4, <1>5, <1>7, <1>c
  <2> QED BY <2>1, <1>0, <1>5, Cancelled
<1>11. k = 1 => c = 0
  <2>1. k = 1 => P * c <= P * 0 BY <1>b, <1>0, <1>6
  <2>2. k = 1 => c <= 0 BY <2>1, <1>0, <1>6, Cancelled
  <2> QED BY <2>2, <1>6
<1>12. k = P => d = S
  <2>1. k = P => P * S < P * (d + 1)
    <3>1. P * (d + 1) = P * d + P BY <1>0, <1>5
    <3> QED BY <3>1, <1>5, <1>7, <1>c
  <2>2. k = P => S < d + 1 BY <2>1, <1>0, <1>5, Cancelled
  <2> QED BY <2>2, <1>5, <1>10
<1>13. k # 1 => c >= q
  <2>1. k # 1 => P * q < P * (c + 1)
    <3>1. P * (c + 1) = P * c + P BY <1>0, <1>6
    <3>2. k # 1 => k - 1 >= 1 OBVIOUS
    <3> QED BY <3>1, <3>2, <1>a, <1>0, <1>1, <1>4, <1>6, <1>7
  <2>2. k # 1 => q < c + 1 BY <2>1, <1>0, <1>1, <1>6, Cancelled
  <2> QED BY <2>2, <1>1, <1>6
<1> QED BY <1>5, <1>6, <1>8, <1>9, <1>10, <1>11, <1>12, <1>13 DEF P, q, d, c
-----------------------------------------------------------------------------
\* The piece a stretch is at: where it was cut last was looked for there.
AtPiece(S, k, from) ==
  /\ k \in Nat \ {0}
  /\ IF Ear!Whole(S) THEN k = 1 /\ from = 0
     ELSE k <= Ear!Parts(S) /\ IF k = 1 THEN from = 0 ELSE from \in Ear!QuietPoints(S, k - 1)

\* A piece begins inside its stretch, near the cut before it.
LEMMA FromInside ==
  ASSUME NEW S \in Nat \ {0}, NEW k, NEW from, AtPiece(S, k, from)
  PROVE  /\ from \in 0 .. S - 1
         /\ ~Ear!Whole(S) => /\ Near(S, k - 1) \in Nat
                             /\ from >= Near(S, k - 1) - Nearby /\ from <= Near(S, k - 1) + Nearby
                             /\ k = 1 => from = Near(S, k - 1)
<1>0. Nearby \in Nat BY EarAssumption
<1>1. CASE Ear!Whole(S)
  BY <1>1 DEF AtPiece
<1>2. CASE ~Ear!Whole(S)
  <2>1. k \in Nat \ {0} /\ k <= Ear!Parts(S) /\ IF k = 1 THEN from = 0 ELSE from \in Ear!QuietPoints(S, k - 1)
    BY <1>2 DEF AtPiece
  <2>2. /\ Ear!Parts(S) \in Nat /\ S \div Ear!Parts(S) \in Nat /\ 2 * Nearby + 1 <= S \div Ear!Parts(S)
    BY <1>2, PartsFit
  <2>3. /\ Near(S, k) \in Nat /\ Near(S, k - 1) \in Nat
        /\ Near(S, k) - Near(S, k - 1) >= S \div Ear!Parts(S)
        /\ Near(S, k) <= S /\ (k = 1 => Near(S, k - 1) = 0)
        /\ (k # 1 => Near(S, k - 1) >= S \div Ear!Parts(S))
    BY <1>2, <2>1, CutsApart
  <2>4. CASE k = 1 BY <1>0, <1>2, <2>1, <2>3, <2>4
  <2>5. CASE k # 1
    <3> DEFINE c == Near(S, k - 1)
    <3>1. from \in (c - Nearby) .. (c + Nearby) BY <2>1, <2>5 DEF Ear!QuietPoints, Near
    <3>2. c \in Nat BY <2>3
    <3>3. c >= S \div Ear!Parts(S) /\ Near(S, k) - c >= S \div Ear!Parts(S) BY <2>3, <2>5
    <3> HIDE DEF c
    <3>4. from \in Int /\ from >= c - Nearby /\ from <= c + Nearby BY <1>0, <3>1, <3>2
    <3>5. from >= 0 /\ from <= S - 1 BY <1>0, <2>2, <2>3, <3>2, <3>3, <3>4
    <3>6. from \in 0 .. S - 1 BY <3>4, <3>5
    <3> QED BY <2>5, <3>2, <3>4, <3>6 DEF c
  <2> QED BY <2>4, <2>5
<1> QED BY <1>1, <1>2

\* A piece is one the model takes, and the next starts where it was cut.
LEMMA PieceFits ==
  ASSUME NEW S \in Nat \ {0}, NEW k, NEW from, AtPiece(S, k, from), NEW at,
         at \in IF Ear!Whole(S) \/ k = Ear!Parts(S) THEN {S} ELSE Ear!QuietPoints(S, k)
  PROVE  /\ at \in Int /\ at - from \in 1 .. Longest
         /\ at # S => AtPiece(S, k + 1, at)
<1>0. Nearby \in Nat /\ Longest \in Nat BY EarAssumption
<1>a. from \in 0 .. S - 1 BY FromInside
<1>1. CASE Ear!Whole(S)
  <2>1. at = S /\ from = 0 /\ S <= Longest BY <1>1 DEF AtPiece, Ear!Whole
  <2> QED BY <1>0, <2>1
<1>2. CASE ~Ear!Whole(S)
  <2>1. k \in Nat \ {0} /\ k <= Ear!Parts(S) BY <1>2 DEF AtPiece
  <2> DEFINE q == S \div Ear!Parts(S)
             c == Near(S, k - 1)
             d == Near(S, k)
  <2>2. /\ Ear!Parts(S) \in Nat /\ q \in Nat /\ 2 * Nearby + 1 <= q /\ q + 1 + 2 * Nearby <= Longest
    BY <1>2, PartsFit
  <2>3. /\ d \in Nat /\ c \in Nat /\ d - c >= q /\ d - c <= q + 1 /\ d <= S /\ (k = Ear!Parts(S) => d = S)
    BY <1>2, <2>1, CutsApart
  <2>4. from >= c - Nearby /\ from <= c + Nearby BY <1>2, FromInside
  <2>5. k # Ear!Parts(S) => at \in (d - Nearby) .. (d + Nearby) BY <1>2 DEF Ear!QuietPoints, Near
  <2>6. k = Ear!Parts(S) => at = S BY <1>2
  <2> HIDE DEF q, c, d
  <2>7. at \in Int /\ at >= d - Nearby /\ at <= d + Nearby BY <1>0, <2>3, <2>5, <2>6
  <2>8. from \in Int BY <1>a
  <2>9. at - from \in Int /\ at - from >= 1 /\ at - from <= Longest BY <1>0, <2>2, <2>3, <2>4, <2>7, <2>8
  <2>10. at # S => AtPiece(S, k + 1, at)
    <3>1. at # S => k + 1 <= Ear!Parts(S) /\ k # Ear!Parts(S) BY <2>1, <2>2, <2>6
    <3>2. k + 1 \in Nat \ {0} /\ k + 1 # 1 /\ (k + 1) - 1 = k BY <2>1
    <3>3. k # Ear!Parts(S) => at \in Ear!QuietPoints(S, k) BY <1>2
    <3> QED BY <1>2, <3>1, <3>2, <3>3 DEF AtPiece
  <2> QED BY <1>0, <2>7, <2>9, <2>10
<1> QED BY <1>1, <1>2

\* A stretch just come to is at its first piece.
LEMMA AtFirstPiece ==
  ASSUME NEW S \in Nat \ {0}
  PROVE  AtPiece(S, 1, 0)
BY PartsFit DEF AtPiece
-----------------------------------------------------------------------------
EarLine == [text : Phrases \cup {NoWord}, in : 0 .. MaxStretches, len : Int]
Stretched(R) == IF R \in {None, <<>>} THEN <<2 * Aim>> ELSE R
EarStretches == Stretched(regions)
EarTypes ==
  /\ phase \in {"route", "listen", "decode", "done"} /\ source \in UserLanguages /\ giga \in BOOLEAN
  /\ engine \in {None, "gigaam", "whisper"} /\ detected \in UserLanguages \cup WhisperLanguages \cup {None}
  /\ regions = None \/ regions \in Ear!SpeechRegions
  /\ heard \in Seq(EarLine) /\ earKept \in Seq(EarLine)
EarFresh ==
  /\ phase \in {"route", "listen"} => piece = Ear!First /\ earKept = <<>> /\ heard = <<>>
  /\ engine # "gigaam" => piece = Ear!First
  /\ engine # "gigaam" /\ phase # "done" => earKept = <<>>
\* The transcript depends on what was decoded and on the stretches of speech.
Heard(h, R) == Ear!Collapse(Ear!Compact(h, {k \in DOMAIN h : R = None \/ h[k].in # 0}))
\* The transcript, as a function of what was heard and where there is speech.
LEMMA TranscriptIs == Ear!Transcript = Heard(heard, regions)
BY DEF Heard, Ear!Transcript, Ear!Sifted, Ear!Overlaps

EarHeard ==
  engine = "whisper" /\ phase = "done" => earKept = Heard(heard, regions) \/ (earKept = <<>> /\ heard = <<>>)
EarPieces ==
  /\ piece \in [of : Nat \ {0}, cut : Nat, from : Int]
  /\ piece.of <= Len(EarStretches) => AtPiece(EarStretches[piece.of], piece.cut, piece.from)
  /\ piece.of <= Len(EarStretches) + 1
EarLens ==
  engine = "gigaam" => \A k \in DOMAIN earKept : earKept[k].len \in 1 .. Longest
EarInv == EarTypes /\ EarFresh /\ EarHeard /\ EarPieces /\ EarLens

\* There are stretches, of some length each.
LEMMA StretchesAre ==
  ASSUME NEW R, R = None \/ R \in Ear!SpeechRegions
  PROVE  /\ Len(Stretched(R)) \in Nat \ {0} /\ Len(Stretched(R)) <= MaxStretches
         /\ \A i \in 1 .. Len(Stretched(R)) : Stretched(R)[i] \in Nat \ {0}
         /\ R # None => DOMAIN R \subseteq 1 .. MaxStretches
<1>0. Aim \in Nat /\ 2 * Aim \in Nat \ {0} /\ MaxStretches \in Nat \ {0} /\ SpeechSpans \subseteq Nat \ {0}
  BY EarAssumption
<1>2. CASE R \in {None, <<>>}
  <2>1. Stretched(R) = <<2 * Aim>> BY <1>2 DEF Stretched
  <2>2. R # None => R = <<>> BY <1>2
  <2>3. R # None => DOMAIN R = {} BY <2>2
  <2>4. Len(Stretched(R)) = 1 /\ Stretched(R)[1] = 2 * Aim BY <2>1
  <2> QED BY <1>0, <2>3, <2>4
<1>3. CASE R \notin {None, <<>>}
  <2>1. Stretched(R) = R BY <1>3 DEF Stretched
  <2>2. PICK n \in 1 .. MaxStretches : R \in [1 .. n -> SpeechSpans]
    BY <1>3 DEF Ear!SpeechRegions
  <2>3. R \in Seq(SpeechSpans) /\ Len(R) = n
    <3>1. n \in Nat BY <1>0, <2>2
    <3> QED BY <2>2, <3>1
  <2>4. \A i \in 1 .. n : R[i] \in SpeechSpans BY <2>2
  <2>5. DOMAIN R = 1 .. n /\ n \in Nat \ {0} /\ n <= MaxStretches BY <1>0, <2>2
  <2>6. \A i \in 1 .. n : i \in 1 .. MaxStretches BY <1>0, <2>5
  <2> QED BY <1>0, <2>1, <2>3, <2>4, <2>5, <2>6
<1> QED BY <1>2, <1>3
-----------------------------------------------------------------------------
\* What is compacted of a sequence: of the same lines, and with their texts.
LEMMA CompactIsSeq ==
  ASSUME NEW s \in Seq(EarLine), NEW at \in SUBSET (1 .. Len(s))
  PROVE  Ear!Compact(s, at) \in Seq(EarLine)
<1> DEFINE n == Cardinality(at)
           e(k) == Ear!Nth(at, k)
<1>1. Ear!Compact(s, at) = [k \in 1 .. n |-> s[e(k)]] BY EarCardinality DEF Ear!Compact
<1>2. n \in Nat /\ \A k \in 1 .. n : e(k) \in at
  <2> DEFINE N == Len(s)
  <2>1. N \in Nat /\ at \in SUBSET (1 .. N) OBVIOUS
  <2> HIDE DEF N
  <2> QED BY <2>1, NthIsOrdered
<1>3. \A i \in at : s[i] \in EarLine OBVIOUS
<1> HIDE DEF n, e
<1>4. Ear!Compact(s, at) \in [1 .. n -> EarLine] BY <1>1, <1>2, <1>3
<1> QED BY <1>2, <1>4

\* What is kept of a list of lines: no loop, and every line that is not of one.
NoneLost(s, c) ==
  /\ \A k \in DOMAIN c : c[k].text # NoWord => Ear!Cardinality(Ear!Run(c, k)) < LoopLength
  /\ \E at \in SUBSET DOMAIN s :
       /\ c = Ear!Compact(s, at)
       /\ \A k \in DOMAIN s :
            /\ s[k].text = NoWord \/ Ear!Cardinality(Ear!Run(s, k)) < LoopLength => k \in at
            /\ \E j \in Ear!Run(s, k) \cap at : \A l \in Ear!Run(s, k) : j <= l

\* Collapsing loses nothing else.
LEMMA CollapseOfLines ==
  ASSUME NEW s \in Seq(EarLine), NEW c, c = Ear!Collapse(s)
  PROVE  c \in Seq(EarLine) /\ NoneLost(s, c)
<1> DEFINE N == Len(s)
           stay == {k \in DOMAIN s : Ear!Stays(s, k)}
<1>1. N \in Nat /\ DOMAIN s = 1 .. N OBVIOUS
<1>2. c = Ear!Compact(s, stay) BY DEF Ear!Collapse
<1>3. stay \in SUBSET DOMAIN s /\ stay \in SUBSET (1 .. Len(s)) BY <1>1
<1>4. \A k \in DOMAIN s : k \in stay <=> Ear!Stays(s, k) OBVIOUS
<1> HIDE DEF stay
<1>5. c \in Seq(EarLine) BY <1>2, <1>3, CompactIsSeq
<1> HIDE DEF N
<1>6. \A k \in DOMAIN c : c[k].text # NoWord => Ear!Cardinality(Ear!Run(c, k)) < LoopLength
  BY <1>1, NoLoopIsLeft
<1>7. ASSUME NEW k \in DOMAIN s
      PROVE  /\ s[k].text = NoWord \/ Ear!Cardinality(Ear!Run(s, k)) < LoopLength => k \in stay
             /\ \E j \in Ear!Run(s, k) \cap stay : \A l \in Ear!Run(s, k) : j <= l
  <2>1. s[k].text = NoWord \/ Ear!Cardinality(Ear!Run(s, k)) < LoopLength => k \in stay
    BY <1>4 DEF Ear!Stays
  <2>2. PICK j \in Ear!Run(s, k) : Ear!Stays(s, j) /\ \A l \in Ear!Run(s, k) : j <= l
    BY <1>1, FirstOfRunStays
  <2>3. j \in DOMAIN s BY <2>2 DEF Ear!Run
  <2> QED BY <1>4, <2>1, <2>2, <2>3
<1> QED BY <1>2, <1>3, <1>5, <1>6, <1>7 DEF NoneLost

\* The transcript is what was said where there is speech, without the loops.
LEMMA TranscriptRight ==
  ASSUME heard \in Seq(EarLine), NEW t, t = Heard(heard, regions)
  PROVE  t \in Seq(EarLine) /\ NoneLost(Ear!Sifted(heard), t)
<1> DEFINE at == {k \in DOMAIN heard : Ear!Overlaps(heard[k])}
           s == Ear!Compact(heard, at)
<1>1. s = Ear!Sifted(heard) BY DEF Ear!Sifted
<1>2. at \in SUBSET (1 .. Len(heard)) OBVIOUS
<1>3. s = Ear!Compact(heard, at) OBVIOUS
<1>4. t = Ear!Collapse(s) BY DEF Heard, Ear!Overlaps
<1> HIDE DEF s, at
<1>5. s \in Seq(EarLine) BY <1>2, <1>3, CompactIsSeq
<1> QED BY <1>1, <1>4, <1>5, CollapseOfLines

\* Where nothing was heard nothing is kept.
LEMMA NothingHeard == \A R : Heard(<<>>, R) = <<>>
<1>1. Ear!Cardinality({}) = 0 BY EarCardinality, FS_EmptySet
<1>2. Ear!Compact(<<>>, {}) = <<>>
  <2>1. Ear!Compact(<<>>, {}) = [n \in 1 .. 0 |-> <<>>[Ear!Nth({}, n)]] BY <1>1 DEF Ear!Compact
  <2>2. 1 .. 0 = {} OBVIOUS
  <2> QED BY <2>1, <2>2
<1>3. Ear!Collapse(<<>>) = <<>>
  <2>1. {k \in DOMAIN <<>> : Ear!Stays(<<>>, k)} = {} OBVIOUS
  <2> QED BY <1>2, <2>1 DEF Ear!Collapse
<1>4. ASSUME NEW R PROVE Heard(<<>>, R) = <<>>
  <2>1. {k \in DOMAIN <<>> : R = None \/ <<>>[k].in # 0} = {} OBVIOUS
  <2> QED BY <1>2, <1>3, <2>1 DEF Heard
<1> QED BY <1>4
-----------------------------------------------------------------------------
\* The first piece to be decoded.
LEMMA FirstPieceIsRight ==
  ASSUME NEW R, R = None \/ R \in Ear!SpeechRegions, NEW p, p = Ear!First
  PROVE  /\ p \in [of : Nat \ {0}, cut : Nat, from : Int]
         /\ p.of <= Len(Stretched(R)) => AtPiece(Stretched(R)[p.of], p.cut, p.from)
         /\ p.of <= Len(Stretched(R)) + 1
<1>1. Stretched(R)[1] \in Nat \ {0} /\ Len(Stretched(R)) \in Nat BY StretchesAre
<1>2. p.of = 1 /\ p.cut = 1 /\ p.from = 0 /\ p \in [of : Nat \ {0}, cut : Nat, from : Int]
  BY DEF Ear!First
<1> QED BY <1>1, <1>2, AtFirstPiece

\* Nothing was heard yet.
LEMMA EarStart == Ear!Init => EarInv
<1> SUFFICES ASSUME Ear!Init PROVE EarInv OBVIOUS
<1> USE DEF Ear!Init
<1>1. EarTypes BY DEF EarTypes
<1>2. EarFresh BY DEF EarFresh
<1>3. EarHeard /\ EarLens BY DEF EarHeard, EarLens
<1>4. EarPieces BY FirstPieceIsRight DEF EarPieces, EarStretches
<1> QED BY <1>1, <1>2, <1>3, <1>4 DEF EarInv

\* The recogniser is chosen.
LEMMA EarRoutes == EarInv /\ Ear!Route => EarInv'
<1> SUFFICES ASSUME EarInv, Ear!Route PROVE EarInv' OBVIOUS
<1> USE DEF EarInv
<1>1. /\ phase = "route" /\ phase' = "listen"
      /\ UNCHANGED <<source, giga, regions, piece, heard, earKept>>
      /\ engine' \in {"gigaam", "whisper"} /\ detected' \in UserLanguages \cup WhisperLanguages \cup {None}
  BY DEF Ear!Route, Ear!Hears, EarTypes
<1>2. EarTypes' BY <1>1 DEF EarTypes
<1>3. piece' = Ear!First /\ earKept' = <<>> /\ heard' = <<>> BY <1>1 DEF EarFresh
<1>4. EarFresh' BY <1>1, <1>3 DEF EarFresh
<1>5. EarHeard' /\ EarLens' BY <1>1, <1>3 DEF EarHeard, EarLens
<1>6. EarPieces' BY <1>1 DEF EarPieces, EarStretches
<1> QED BY <1>2, <1>4, <1>5, <1>6

\* The lines of a recogniser that gives them at once.
LEMMA EarListens == EarInv /\ Ear!Listen => EarInv'
<1> SUFFICES ASSUME EarInv, Ear!Listen PROVE EarInv' OBVIOUS
<1> USE DEF EarInv
<1>1. /\ phase = "listen" /\ phase' \in {"done", "decode"} /\ (regions' = None \/ regions' \in Ear!SpeechRegions)
      /\ UNCHANGED <<source, giga, engine, detected, piece, heard, earKept>>
  BY DEF Ear!Listen
<1>2. EarTypes' BY <1>1 DEF EarTypes
<1>3. piece' = Ear!First /\ earKept' = <<>> /\ heard' = <<>> BY <1>1 DEF EarFresh
<1>4. EarFresh' BY <1>1, <1>3 DEF EarFresh
<1>5. EarHeard' /\ EarLens' BY <1>1, <1>3 DEF EarHeard, EarLens
<1>6. EarPieces' BY <1>1, <1>3, FirstPieceIsRight DEF EarPieces, EarStretches
<1> QED BY <1>2, <1>4, <1>5, <1>6

\* The other one's piece: it is one it can take.
LEMMA EarDecodes == EarInv /\ Ear!Decode => EarInv'
<1> SUFFICES ASSUME EarInv, Ear!Decode PROVE EarInv' OBVIOUS
<1> USE DEF EarInv
<1>1. /\ phase = "decode" /\ engine = "whisper"
      /\ UNCHANGED <<phase, source, giga, engine, detected, regions, piece, earKept>>
  BY DEF Ear!Decode
<1>2. PICK text \in Phrases \cup {NoWord}, in \in {0} \cup (IF regions = None THEN {} ELSE DOMAIN regions) :
        heard' = Append(heard, [text |-> text, in |-> in, len |-> 0])
  BY DEF Ear!Decode
<1>3. in \in 0 .. MaxStretches
  <2>1. regions # None => DOMAIN regions \subseteq 1 .. MaxStretches BY StretchesAre DEF EarTypes
  <2>2. MaxStretches \in Nat BY EarAssumption
  <2> QED BY <2>1, <2>2
<1>4. heard' \in Seq(EarLine)
  <2> DEFINE x == [text |-> text, in |-> in, len |-> 0]
  <2>1. x \in EarLine BY <1>3 DEF EarLine
  <2>2. heard \in Seq(EarLine) BY DEF EarTypes
  <2> HIDE DEF x
  <2>3. Append(heard, x) \in Seq(EarLine) BY <2>1, <2>2
  <2> QED BY <1>2, <2>3 DEF x
<1>5. EarTypes' BY <1>1, <1>4 DEF EarTypes
<1>6. EarFresh' BY <1>1 DEF EarFresh
<1>7. EarHeard' /\ EarLens' BY <1>1 DEF EarHeard, EarLens
<1>8. EarPieces' BY <1>1 DEF EarPieces, EarStretches
<1> QED BY <1>5, <1>6, <1>7, <1>8

\* The transcript is made.
LEMMA EarTranscribes == EarInv /\ Ear!Transcribed => EarInv'
<1> SUFFICES ASSUME EarInv, Ear!Transcribed PROVE EarInv' OBVIOUS
<1> USE DEF EarInv
<1>1. /\ phase = "decode" /\ engine = "whisper" /\ phase' = "done" /\ earKept' = Ear!Transcript
      /\ UNCHANGED <<source, giga, engine, detected, regions, piece, heard>>
  BY DEF Ear!Transcribed
<1>2. earKept' = Heard(heard', regions') BY <1>1, TranscriptIs
<1>3. Ear!Transcript \in Seq(EarLine) BY TranscriptIs, TranscriptRight DEF EarTypes
<1>5. EarTypes' BY <1>1, <1>3 DEF EarTypes
<1>6. EarFresh' BY <1>1 DEF EarFresh
<1>7. EarHeard' /\ EarLens' BY <1>1, <1>2 DEF EarHeard, EarLens
<1>8. EarPieces' BY <1>1 DEF EarPieces, EarStretches
<1> QED BY <1>5, <1>6, <1>7, <1>8

\* The last piece was decoded.
LEMMA EarIsDecoded == EarInv /\ Ear!Decoded => EarInv'
<1> SUFFICES ASSUME EarInv, Ear!Decoded PROVE EarInv' OBVIOUS
<1> USE DEF EarInv
<1>1. /\ phase = "decode" /\ engine = "gigaam" /\ phase' = "done"
      /\ UNCHANGED <<source, giga, engine, detected, regions, piece, heard, earKept>>
  BY DEF Ear!Decoded
<1>5. EarTypes' BY <1>1 DEF EarTypes
<1>6. EarFresh' BY <1>1 DEF EarFresh
<1>7. EarHeard' /\ EarLens' BY <1>1 DEF EarHeard, EarLens
<1>8. EarPieces' BY <1>1 DEF EarPieces, EarStretches
<1> QED BY <1>5, <1>6, <1>7, <1>8

\* The next cut is chosen, near its place.
LEMMA EarCuts == EarInv /\ Ear!Cut => EarInv'
<1> SUFFICES ASSUME EarInv, Ear!Cut PROVE EarInv' OBVIOUS
<1> USE DEF EarInv
<1>1. /\ phase = "decode" /\ engine = "gigaam" /\ piece.of <= Len(Ear!Stretches)
      /\ UNCHANGED <<phase, source, giga, engine, detected, regions, heard>>
  BY DEF Ear!Cut
<1> DEFINE S == EarStretches[piece.of]
           L == Len(EarStretches)
<1>2. EarStretches = Ear!Stretches BY DEF EarStretches, Stretched, Ear!Stretches
<1>3. Ear!Span = S BY <1>2 DEF Ear!Span
<1>4. PICK at \in Ear!NextCut :
        /\ piece' = IF at = S THEN [Ear!First EXCEPT !.of = piece.of + 1]
                    ELSE [piece EXCEPT !.cut = @ + 1, !.from = at]
        /\ \/ UNCHANGED earKept
           \/ earKept' = <<[text |-> NoWord, in |-> piece.of, len |-> at - piece.from]>>
  BY <1>3 DEF Ear!Cut
<1>5. /\ L \in Nat /\ L <= MaxStretches /\ (\A i \in 1 .. L : EarStretches[i] \in Nat \ {0})
  BY StretchesAre DEF EarTypes, EarStretches
<1>6. piece \in [of : Nat \ {0}, cut : Nat, from : Int] /\ piece.of \in 1 .. L
  BY <1>1, <1>2, <1>5 DEF EarPieces
<1>7. S \in Nat \ {0} /\ AtPiece(S, piece.cut, piece.from)
  BY <1>1, <1>2, <1>5, <1>6 DEF EarPieces
<1>8. at \in IF Ear!Whole(S) \/ piece.cut = Ear!Parts(S) THEN {S} ELSE Ear!QuietPoints(S, piece.cut)
  BY <1>3 DEF Ear!NextCut
<1> HIDE DEF S, L
<1>9. at \in Int /\ at - piece.from \in 1 .. Longest /\ (at # S => AtPiece(S, piece.cut + 1, at))
  BY <1>7, <1>8, PieceFits
<1>10. earKept' \in Seq(EarLine) /\ EarLens'
  <2>1. CASE UNCHANGED earKept BY <2>1, <1>1 DEF EarTypes, EarLens
  <2>2. CASE earKept' = <<[text |-> NoWord, in |-> piece.of, len |-> at - piece.from]>>
    <3> DEFINE x == [text |-> NoWord, in |-> piece.of, len |-> at - piece.from]
    <3>1. x \in EarLine /\ x.len \in 1 .. Longest
      <4>1. MaxStretches \in Nat /\ piece.of \in 0 .. MaxStretches BY <1>5, <1>6, EarAssumption
      <4>2. at - piece.from \in Int BY <1>6, <1>9
      <4> QED BY <1>9, <4>1, <4>2 DEF EarLine
    <3> HIDE DEF x
    <3>2. earKept' = <<x>> BY <2>2 DEF x
    <3>3. DOMAIN <<x>> = {1} /\ <<x>>[1] = x /\ <<x>> \in Seq(EarLine) BY <3>1
    <3> QED BY <3>1, <3>2, <3>3 DEF EarLens
  <2> QED BY <1>4, <2>1, <2>2
<1>11. EarTypes' BY <1>1, <1>10 DEF EarTypes
<1>12. EarFresh' BY <1>1 DEF EarFresh
<1>13. EarHeard' BY <1>1 DEF EarHeard
<1>14. EarPieces'
  <2>1. EarStretches' = EarStretches BY <1>1 DEF EarStretches
  <2>2. CASE at = S
    <3>1. /\ piece'.of = piece.of + 1 /\ piece'.cut = 1 /\ piece'.from = 0
          /\ piece' \in [of : Nat \ {0}, cut : Nat, from : Int]
      BY <1>4, <1>6, <2>2 DEF Ear!First
    <3>2. piece'.of <= L => EarStretches[piece'.of] \in Nat \ {0} BY <1>5, <1>6, <3>1
    <3>3. piece'.of <= L => AtPiece(EarStretches[piece'.of], 1, 0) BY <3>2, AtFirstPiece
    <3> QED BY <1>5, <1>6, <2>1, <3>1, <3>3 DEF EarPieces, L
  <2>3. CASE at # S
    <3> DEFINE p == [piece EXCEPT !.cut = @ + 1, !.from = at]
    <3>a. piece' = p BY <1>4, <2>3
    <3>b. p.of = piece.of /\ p.cut = piece.cut + 1 /\ p.from = at BY <1>6
    <3>c. p \in [of : Nat \ {0}, cut : Nat, from : Int]
      <4>1. piece.cut + 1 \in Nat /\ at \in Int BY <1>6, <1>9
      <4> QED BY <1>6, <4>1
    <3> HIDE DEF p
    <3>1. /\ piece'.of = piece.of /\ piece'.cut = piece.cut + 1 /\ piece'.from = at
          /\ piece' \in [of : Nat \ {0}, cut : Nat, from : Int]
      BY <3>a, <3>b, <3>c
    <3>2. AtPiece(EarStretches[piece'.of], piece'.cut, piece'.from) BY <1>9, <2>3, <3>1 DEF S
    <3> QED BY <1>5, <1>6, <2>1, <3>1, <3>2 DEF EarPieces, L
  <2> QED BY <2>2, <2>3
<1> QED BY <1>10, <1>11, <1>12, <1>13, <1>14

\* No loop is left, and every piece fits.
LEMMA EarInvariant == Ear!Spec => [](Ear!TypeOK /\ Ear!NoLoops /\ Ear!PiecesFit)
<1>1. EarInv /\ [Ear!Next]_(Ear!vars) => EarInv'
  <2> SUFFICES ASSUME EarInv, [Ear!Next]_(Ear!vars) PROVE EarInv' OBVIOUS
  <2>1. CASE Ear!Route BY <2>1, EarRoutes
  <2>2. CASE Ear!Listen BY <2>2, EarListens
  <2>3. CASE Ear!Decode BY <2>3, EarDecodes
  <2>4. CASE Ear!Transcribed BY <2>4, EarTranscribes
  <2>5. CASE Ear!Cut BY <2>5, EarCuts
  <2>6. CASE Ear!Decoded BY <2>6, EarIsDecoded
  <2>7. CASE UNCHANGED Ear!vars
    <3> USE <2>7 DEF Ear!vars, EarInv
    <3>1. EarTypes' BY DEF EarTypes
    <3>2. EarFresh' BY DEF EarFresh
    <3>3. EarLens' BY DEF EarLens
    <3>4. EarPieces' BY DEF EarPieces, EarStretches
    <3>6. EarHeard' BY DEF EarHeard
    <3> QED BY <3>1, <3>2, <3>3, <3>4, <3>6
  <2> QED BY <2>1, <2>2, <2>3, <2>4, <2>5, <2>6, <2>7 DEF Ear!Next
<1>2. EarInv => Ear!TypeOK /\ Ear!NoLoops /\ Ear!PiecesFit
  <2> SUFFICES ASSUME EarInv PROVE Ear!TypeOK /\ Ear!NoLoops /\ Ear!PiecesFit OBVIOUS
  <2> USE DEF EarInv
  <2>1. Ear!TypeOK BY DEF EarTypes, Ear!TypeOK, EarLine, Ear!Line
  <2>2. Ear!NoLoops
    <3>1. engine = "whisper" /\ phase = "done" => earKept = Heard(heard, regions)
      BY NothingHeard DEF EarHeard
    <3>2. engine = "whisper" /\ phase = "done" => NoneLost(Ear!Sifted(heard), earKept)
      BY <3>1, TranscriptRight DEF EarTypes
    <3> QED BY <3>2 DEF Ear!NoLoops, NoneLost
  <2>3. Ear!PiecesFit
    <3>1. \A k \in DOMAIN earKept : engine = "gigaam" => earKept[k].len \in 1 .. Longest BY DEF EarLens
    <3>2. EarStretches = Ear!Stretches BY DEF EarStretches, Stretched, Ear!Stretches
    <3>3. ASSUME piece.of <= Len(Ear!Stretches) PROVE piece.from \in 0 .. Ear!Span - 1
      <4>1. Len(EarStretches) \in Nat /\ \A i \in 1 .. Len(EarStretches) : EarStretches[i] \in Nat \ {0}
        BY StretchesAre DEF EarTypes, EarStretches
      <4>2. piece.of \in 1 .. Len(EarStretches) BY <3>2, <3>3, <4>1 DEF EarPieces
      <4>3. Ear!Span \in Nat \ {0} /\ AtPiece(Ear!Span, piece.cut, piece.from)
        BY <3>2, <3>3, <4>1, <4>2 DEF EarPieces, Ear!Span
      <4> QED BY <4>3, FromInside
    <3> QED BY <3>1, <3>3 DEF Ear!PiecesFit
  <2> QED BY <2>1, <2>2, <2>3
<1> QED BY EarStart, <1>1, <1>2, PTL DEF Ear!Spec
-----------------------------------------------------------------------------
(* A half minute costs five, ten or twenty tokens, and the estimate is that *)
(* to the next ten.                                                         *)
LEMMA CostOfHalfMinutes ==
  ASSUME NEW h \in Nat \ {0}
  PROVE /\ (30000 * h * 10 + 59999) \div 60000 = 5 * h
        /\ (30000 * h * 20 + 59999) \div 60000 = 10 * h
        /\ (30000 * h * 40 + 59999) \div 60000 = 20 * h
  BY SMT

\* Half minutes at each rate, rounded to whole tens.
LEMMA RoundedToTens ==
  ASSUME NEW h \in Nat \ {0}
  PROVE /\ ((h * 10 + 10) \div 20) * 10 >= 5 * h
        /\ ((h * 20 + 10) \div 20) * 10 = 10 * h
        /\ ((h * 40 + 10) \div 20) * 10 = 20 * h
  BY SMT

\* The estimate of a length is no less than the charge for it.
LEMMA CreditsCover ==
  ASSUME NEW h \in HalfMinutes, NEW q \in Qualities
  PROVE  CostForDub(30000 * h, q) <= CreditsForHalfMinutes(h, q)
<1>1. h \in Nat \ {0} /\ 30000 * h \in Nat /\ ~(30000 * h <= 0)
  BY PlansPageAssumption
<1>2. RateFor(q) \in {10, 20, 40}
  BY DEF RateFor, CreditsPerMinute
<1>3. CASE RateFor(q) = 10
  BY <1>1, <1>3, CostOfHalfMinutes, RoundedToTens DEF CostForDub, CreditsForHalfMinutes
<1>4. CASE RateFor(q) = 20
  BY <1>1, <1>4, CostOfHalfMinutes, RoundedToTens DEF CostForDub, CreditsForHalfMinutes
<1>5. CASE RateFor(q) = 40
  BY <1>1, <1>5, CostOfHalfMinutes, RoundedToTens DEF CostForDub, CreditsForHalfMinutes
<1>. QED BY <1>2, <1>3, <1>4, <1>5
-----------------------------------------------------------------------------
(* The components side by side: each behaviour is one of each component. *)
LEMMA ShopRuns == HarnessSpec => Spec
<1>1. HarnessInit => Init BY DEF HarnessInit
<1>2. [HarnessNext]_allVars => [Next]_(vars)
  BY DEF HarnessNext, ShopMoves, FormMoves, TourMoves, ReportMoves, ShelfMoves, ScriptMoves, PanelMoves, GatesMoves, LogMoves,
     EarMoves, WordsMoves, allVars, ShopVars, vars
<1> QED BY <1>1, <1>2, PTL DEF HarnessSpec, Spec
\* In the harness the component takes its own steps or stutters; so for each of the ten.
LEMMA FormRuns == HarnessSpec => Form!Spec
<1>1. HarnessInit => Form!Init BY DEF HarnessInit
<1>2. [HarnessNext]_allVars => [Form!Next]_(Form!vars)
  BY DEF HarnessNext, ShopMoves, FormMoves, TourMoves, ReportMoves, ShelfMoves, ScriptMoves, PanelMoves, GatesMoves, LogMoves,
     EarMoves, WordsMoves, allVars, FormVars, Form!vars
<1> QED BY <1>1, <1>2, PTL DEF HarnessSpec, Form!Spec
LEMMA TourRuns == HarnessSpec => Tour!Spec
<1>1. HarnessInit => Tour!Init BY DEF HarnessInit
<1>2. [HarnessNext]_allVars => [Tour!Next]_(Tour!vars)
  BY DEF HarnessNext, ShopMoves, FormMoves, TourMoves, ReportMoves, ShelfMoves, ScriptMoves, PanelMoves, GatesMoves, LogMoves,
     EarMoves, WordsMoves, allVars, TourVars, Tour!vars
<1> QED BY <1>1, <1>2, PTL DEF HarnessSpec, Tour!Spec
LEMMA ReportRuns == HarnessSpec => Report!Spec
<1>1. HarnessInit => Report!Init BY DEF HarnessInit
<1>2. [HarnessNext]_allVars => [Report!Next]_(Report!vars)
  BY DEF HarnessNext, ShopMoves, FormMoves, TourMoves, ReportMoves, ShelfMoves, ScriptMoves, PanelMoves, GatesMoves, LogMoves,
     EarMoves, WordsMoves, allVars, ReportVars, Report!vars
<1> QED BY <1>1, <1>2, PTL DEF HarnessSpec, Report!Spec
LEMMA ShelfRuns == HarnessSpec => Shelf!Spec
<1>1. HarnessInit => Shelf!Init BY DEF HarnessInit
<1>2. [HarnessNext]_allVars => [Shelf!Next]_(Shelf!vars)
  BY DEF HarnessNext, ShopMoves, FormMoves, TourMoves, ReportMoves, ShelfMoves, ScriptMoves, PanelMoves, GatesMoves, LogMoves,
     EarMoves, WordsMoves, allVars, ShelfVars, Shelf!vars
<1> QED BY <1>1, <1>2, PTL DEF HarnessSpec, Shelf!Spec
LEMMA ScriptRuns == HarnessSpec => Script!Spec
<1>1. HarnessInit => Script!Init BY DEF HarnessInit
<1>2. [HarnessNext]_allVars => [Script!Next]_(Script!vars)
  BY DEF HarnessNext, ShopMoves, FormMoves, TourMoves, ReportMoves, ShelfMoves, ScriptMoves, PanelMoves, GatesMoves, LogMoves,
     EarMoves, WordsMoves, allVars, ScriptVars, Script!vars
<1> QED BY <1>1, <1>2, PTL DEF HarnessSpec, Script!Spec
LEMMA PanelRuns == HarnessSpec => Panel!Spec
<1>1. HarnessInit => Panel!Init BY DEF HarnessInit
<1>2. [HarnessNext]_allVars => [Panel!Next]_(Panel!vars)
  BY DEF HarnessNext, ShopMoves, FormMoves, TourMoves, ReportMoves, ShelfMoves, ScriptMoves, PanelMoves, GatesMoves, LogMoves,
     EarMoves, WordsMoves, allVars, PanelVars, Panel!vars
<1> QED BY <1>1, <1>2, PTL DEF HarnessSpec, Panel!Spec
LEMMA GatesRuns == HarnessSpec => Gates!Spec
<1>1. HarnessInit => Gates!Init BY DEF HarnessInit
<1>2. [HarnessNext]_allVars => [Gates!Next]_(Gates!vars)
  BY DEF HarnessNext, ShopMoves, FormMoves, TourMoves, ReportMoves, ShelfMoves, ScriptMoves, PanelMoves, GatesMoves, LogMoves,
     EarMoves, WordsMoves, allVars, GatesVars, Gates!vars
<1> QED BY <1>1, <1>2, PTL DEF HarnessSpec, Gates!Spec
LEMMA LogRuns == HarnessSpec => Log!Spec
<1>1. HarnessInit => Log!Init BY DEF HarnessInit
<1>2. [HarnessNext]_allVars => [Log!Next]_(Log!vars)
  BY DEF HarnessNext, ShopMoves, FormMoves, TourMoves, ReportMoves, ShelfMoves, ScriptMoves, PanelMoves, GatesMoves, LogMoves,
     EarMoves, WordsMoves, allVars, LogVars, Log!vars
<1> QED BY <1>1, <1>2, PTL DEF HarnessSpec, Log!Spec
LEMMA EarRuns == HarnessSpec => Ear!Spec
<1>1. HarnessInit => Ear!Init BY DEF HarnessInit
<1>2. [HarnessNext]_allVars => [Ear!Next]_(Ear!vars)
  BY DEF HarnessNext, ShopMoves, FormMoves, TourMoves, ReportMoves, ShelfMoves, ScriptMoves, PanelMoves, GatesMoves, LogMoves,
     EarMoves, WordsMoves, allVars, EarVars, Ear!vars
<1> QED BY <1>1, <1>2, PTL DEF HarnessSpec, Ear!Spec
LEMMA WordsRuns == HarnessSpec => Words!Spec
<1>1. HarnessInit => Words!Init BY DEF HarnessInit
<1>2. [HarnessNext]_allVars => [Words!Next]_(Words!vars)
  BY DEF HarnessNext, ShopMoves, FormMoves, TourMoves, ReportMoves, ShelfMoves, ScriptMoves, PanelMoves, GatesMoves, LogMoves,
     EarMoves, WordsMoves, allVars, WordsVars, Words!vars
<1> QED BY <1>1, <1>2, PTL DEF HarnessSpec, Words!Spec

-----------------------------------------------------------------------------
\* What the page says a clip needs is never less than its dub is charged, whatever its
\* length and quality (payments-api.ts:223-230 against quality-cost.ts:56-63).
THEOREM EstimateIsEnough == HarnessSpec => []EstimateCovers
<1>1. EstimateCovers BY CreditsCover DEF EstimateCovers
<1> QED BY <1>1, PTL

\* What is sold and written down is right for every catalog, account and order of calls: a
\* checkout is of what the page showed, an order credits what was sold, the script keeps what
\* the panel decided, and a row of the audit log that is labelled by the answer, or from the
\* table its route acted on, names what was acted on (Plans.tsx:91,
\* admin-billing.service.ts:104-105, 359-361, seed.ts:134-141, 184-190, 278-280,
\* audit.target.ts:9-29, 72-78).
THEOREM RecordsAreRight == HarnessSpec => []RecordsRight
<1>1. SoldAsShown /\ Panel!CreditsWhatWasSold /\ Script!PanelKept /\ Log!RowsNameTheTarget => RecordsRight
  BY DEF RecordsRight
<1> QED BY <1>1, ShopRuns, ShopInvariant, PanelRuns, PanelInvariant, ScriptRuns, ScriptInvariant,
  LogRuns, LogInvariant, PTL

\* What the customer is told is so: a report names all that the dub lacks and nothing else, an
\* upgrade that is offered helps, a tour that was left is not due again, a tool is shown for a
\* clip that is there or a run that is on screen (orchestrator.py:527-529,
\* plan-features.ts:157-177, 216-229, onboarding.ts:18-19, Studio.tsx:759-770).
THEOREM TheTruthIsTold == HarnessSpec => []ToldTheTruth
<1>1. Report!TellsTheTruth /\ Report!MissingTold /\ Gates!UpgradeHelps /\ Tour!SkippingSticks /\ Tour!ToolsHaveClip
      => ToldTheTruth
  BY DEF ToldTheTruth
<1> QED BY <1>1, ReportRuns, ReportInvariant, GatesRuns, GatesInvariant, TourRuns, TourInvariant, PTL

\* The form sends nothing that it does not show or the plan refuses, a replayed dub keeps its
\* settings, and a drawer is open only on the dub its user opened (Studio.tsx:237-238,
\* MyWorks.tsx:97).
THEOREM FormsAreKept == HarnessSpec => []FormsKept
<1>1. Form!NeverSent /\ Form!ReplayKeeps /\ Shelf!OpenedByUser => FormsKept BY DEF FormsKept
<1> QED BY <1>1, FormRuns, FormInvariant, ShelfRuns, ShelfInvariant, PTL

\* The words of a dub are right for any lines heard, any stretches of speech and any sizes that
\* leave room around a cut: the lines kept are those heard, in order, less the loops; every
\* piece is one the model takes and inside its stretch; a repair only improves; a delivery once
\* chosen lasts (stt.py:203-262, stt_gigaam.py:55-72, 186-211, refine.py:13-16,
\* emotion.py:152-154).
THEOREM WordsAreRight == HarnessSpec => []WordsRight
<1>1. Ear!NoLoops /\ Ear!PiecesFit /\ WordsInv => WordsRight BY DEF WordsRight, WordsInv
<1> QED BY <1>1, EarRuns, EarInvariant, WordsRuns, WordsInvariant, PTL

\* The state of each component has its type, whichever moves.
THEOREM StatesTypeCorrect == HarnessSpec => []StatesOK
<1> DEFINE Moving == active \in {"plans", "form", "guide", "report", "works", "seeding", "catalog", "gates",
                                 "audit", "recognise", "wording"}
<1>1. HarnessSpec => []Moving
  <2>1. HarnessInit => Moving BY DEF HarnessInit
  <2>2. Moving /\ [HarnessNext]_allVars => Moving'
    BY DEF HarnessNext, ShopMoves, FormMoves, TourMoves, ReportMoves, ShelfMoves, ScriptMoves, PanelMoves,
       GatesMoves, LogMoves, EarMoves, WordsMoves, allVars
  <2> QED BY <2>1, <2>2, PTL DEF HarnessSpec
<1>2. TypeOK /\ Form!TypeOK /\ Tour!TypeOK /\ Report!TypeOK /\ Shelf!TypeOK /\ Script!TypeOK /\ Panel!TypeOK
      /\ Gates!TypeOK /\ Log!TypeOK /\ Ear!TypeOK /\ WordsInv /\ Moving => StatesOK
  BY DEF StatesOK, WordsInv
<1> QED BY <1>1, <1>2, ShopRuns, ShopInvariant, FormRuns, FormInvariant, TourRuns, TourInvariant, ReportRuns,
  ReportInvariant, ShelfRuns, ShelfInvariant, ScriptRuns, ScriptInvariant, PanelRuns, PanelInvariant, GatesRuns,
  GatesInvariant, LogRuns, LogInvariant, EarRuns, EarInvariant, WordsRuns, WordsInvariant, PTL
=============================================================================
