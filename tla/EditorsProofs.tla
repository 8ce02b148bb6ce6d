------------------------------ MODULE EditorsProofs ------------------------------
(* What holds of the two editors for any pages, versions, edits, files, requests, lines
   and limits: the corrected versions of a dub (SpeechEdits), the project the API keeps
   (EditorProject), the page of the video editor (EditorPage) and the voicing of an edit
   (Voicing), each by an inductive invariant of its own; then what the run of the
   editors checks, by theirs. *)
EXTENDS MCEditors, FiniteSetTheorems, SequenceTheorems, WellFoundedInduction, TLAPS
-----------------------------------------------------------------------------
(* The versions of a dub (SpeechEdits): an edit has ended before a newer one is there, and a
   page that looked while none was active still builds on the newest that worked when it
   creates. *)
\* A set of naturals has a least element, and one with a bound a greatest.
LEMMA Least ==
  ASSUME NEW T \in SUBSET Nat, T # {}
  PROVE  \E x \in T : \A y \in T : x <= y
<1>1. IsWellFoundedOn(OpToRel(<, Nat), Nat)
  BY NatLessThanWellFounded
<1>2. \E x \in T : \A y \in T : ~ (<<y, x>> \in OpToRel(<, Nat))
  BY <1>1, WFMin
<1>3. \A x, y \in Nat : <<y, x>> \notin OpToRel(<, Nat) => x <= y
  BY DEF OpToRel
<1> QED BY <1>2, <1>3

\* A bounded set of naturals has a greatest element.
LEMMA Greatest ==
  ASSUME NEW n \in Nat, NEW T \in SUBSET (0 .. n), T # {}
  PROVE  \E x \in T : \A y \in T : y <= x
<1> DEFINE U == {u \in 0 .. n : n - u \in T}
<1>1. U \in SUBSET Nat /\ U # {}
  <2>1. PICK x \in T : TRUE
    OBVIOUS
  <2>2. n - x \in 0 .. n /\ n - (n - x) = x
    BY <2>1
  <2>3. n - x \in U
    BY <2>2
  <2>4. U \in SUBSET Nat
    OBVIOUS
  <2> HIDE DEF U
  <2> QED BY <2>3, <2>4
<1>2. PICK u \in U : \A y \in U : u <= y
  BY <1>1, Least
<1>3. n - u \in T
  OBVIOUS
<1>4. ASSUME NEW y \in T PROVE y <= n - u
  <2>1. n - y \in U
    OBVIOUS
  <2> QED BY <1>2, <2>1
<1> QED BY <1>3, <1>4


\* An edit has ended before a newer one is there; a page about to create one has seen
\* every older one end, and builds on the newest that worked.
States == {"none", "DONE", "FAILED", "QUEUED", "RUNNING", "STALLED"}
PageState == [at : {"idle", "asking", "creating", "watching"}, base : 0 .. MaxVersions,
              next : 1 .. MaxVersions + 1, mine : 0 .. MaxVersions, drafts : BOOLEAN]
Type ==
  /\ rows \in [Versions -> [st : States, base : Nat]]
  /\ page \in [Pages -> PageState]
  /\ \A v \in Versions : rows[v].base \in 0 .. v - 1
  /\ restarts \in 0 .. MaxRestarts
Settled ==
  \A v \in Versions : rows[v].st # "none" =>
    \A w \in Versions : w < v => rows[w].st \in {"DONE", "FAILED"}
Looked ==
  \A p \in Pages : page[p].at = "creating" =>
    LET v == page[p].next IN
    /\ v \in Versions /\ page[p].base < v
    /\ rows[v].st = "none" =>
         \A w \in Versions : w < v =>
           rows[w].st \in {"DONE", "FAILED"} /\ (rows[w].st = "DONE" => w <= page[p].base)
IInv == Type /\ Settled /\ Looked /\ CorrectionsStack

\* No version yet.
LEMMA InitIInv == Init => IInv
  BY SpeechEditsAssumption DEF Init, IInv, Type, States, Settled, Looked, CorrectionsStack, Free, Quiet, PageState, Versions, ACTIVE

\* The states of a page that is not about to create.
LEMMA QuietIs ==
  /\ Quiet \in PageState /\ [Quiet EXCEPT !.drafts = TRUE] \in PageState
  /\ Quiet.at = "idle" /\ [Quiet EXCEPT !.drafts = TRUE].at = "idle"
  /\ \A v \in 0 .. MaxVersions, at \in {"idle", "watching"} :
       LET s == [Quiet EXCEPT !.at = at, !.mine = v, !.drafts = TRUE] IN s \in PageState /\ s.at = at
  /\ \A at \in {"idle", "watching"} : LET s == [Quiet EXCEPT !.at = at] IN s \in PageState /\ s.at = at
  /\ \A b \in BOOLEAN : LET s == [Quiet EXCEPT !.drafts = b] IN s \in PageState /\ s.at = "idle"
<1>1. 0 \in 0 .. MaxVersions /\ 1 \in 1 .. MaxVersions + 1
  BY SpeechEditsAssumption
<1>2. Quiet \in PageState /\ Quiet.at = "idle"
  BY <1>1 DEF Quiet, PageState
<1>3. ASSUME NEW s \in PageState
      PROVE  /\ \A at \in {"idle", "watching"} : [s EXCEPT !.at = at] \in PageState /\ [s EXCEPT !.at = at].at = at
             /\ \A v \in 0 .. MaxVersions : [s EXCEPT !.mine = v] \in PageState /\ [s EXCEPT !.mine = v].at = s.at
             /\ \A b \in BOOLEAN : [s EXCEPT !.drafts = b] \in PageState /\ [s EXCEPT !.drafts = b].at = s.at
  BY DEF PageState
<1>4. ASSUME NEW v \in 0 .. MaxVersions, NEW at \in {"idle", "watching"}
      PROVE  LET s == [Quiet EXCEPT !.at = at, !.mine = v, !.drafts = TRUE] IN s \in PageState /\ s.at = at
  <2> DEFINE s1 == [Quiet EXCEPT !.at = at]
             s2 == [s1 EXCEPT !.mine = v]
  <2>1. s1 \in PageState /\ s1.at = at
    BY <1>2, <1>3
  <2> HIDE DEF s1
  <2>2. s2 \in PageState /\ s2.at = at
    BY <1>3, <2>1
  <2> HIDE DEF s2
  <2>3. [s2 EXCEPT !.drafts = TRUE] \in PageState /\ [s2 EXCEPT !.drafts = TRUE].at = at
    BY <1>3, <2>2
  <2> QED BY <2>3 DEF s1, s2
<1> QED BY <1>1, <1>2, <1>3, <1>4

\* The newest version is one, and none is newer.
LEMMA NewestIs ==
  ASSUME Type
  PROVE  /\ Newest \in 0 .. MaxVersions
         /\ \A v \in Created : v <= Newest
         /\ Newest # 0 => Newest \in Created
<1>1. CASE Created = {}
  BY <1>1, SpeechEditsAssumption DEF Newest
<1>2. CASE Created # {}
  <2>1. Created \in SUBSET (0 .. MaxVersions) /\ MaxVersions \in Nat /\ Created \subseteq Versions
    BY SpeechEditsAssumption DEF Created, Versions
  <2>2. \E v \in Created : \A w \in Created : w <= v
    BY <1>2, <2>1, Greatest
  <2>3. Newest \in Created /\ \A w \in Created : w <= Newest
    BY <1>2, <2>2 DEF Newest
  <2> QED BY <2>1, <2>3
<1> QED BY <1>1, <1>2

\* The newest version that worked is one, and none is newer.
LEMMA BaseIs ==
  ASSUME Type
  PROVE  /\ Base \in 0 .. MaxVersions
         /\ \A v \in Good : v <= Base
         /\ Base # 0 => Base \in Good
<1>1. CASE Good = {}
  BY <1>1, SpeechEditsAssumption DEF Base
<1>2. CASE Good # {}
  <2>1. Good \in SUBSET (0 .. MaxVersions) /\ MaxVersions \in Nat /\ Good \subseteq Versions
    BY SpeechEditsAssumption DEF Good, Created, Versions
  <2>2. \E v \in Good : \A w \in Good : w <= v
    BY <1>2, <2>1, Greatest
  <2>3. Base \in Good /\ \A w \in Good : w <= Base
    BY <1>2, <2>2 DEF Base
  <2> QED BY <2>1, <2>3
<1> QED BY <1>1, <1>2

\* A step of a page that does not look, nor write a row.
LEMMA PageStepKeeps ==
  ASSUME IInv, UNCHANGED rows, restarts' \in 0 .. MaxRestarts,
         page' \in [Pages -> PageState],
         \A p \in Pages : page'[p].at = "creating" => page'[p] = page[p]
  PROVE  IInv'
<1>1. Type' /\ Settled' /\ CorrectionsStack'
  BY DEF IInv, Type, Settled, CorrectionsStack
<1>2. Looked'
  BY DEF IInv, Looked
<1> QED BY <1>1, <1>2 DEF IInv

\* A page finds the dub alone: every version has ended.
LEMMA LookKeeps ==
  ASSUME IInv, NEW p \in Pages, Look(p)
  PROVE  IInv'
<1>1. /\ page[p].at = "asking" /\ ~Busy /\ Newest < MaxVersions
      /\ page' = [page EXCEPT ![p].at = "creating", ![p].base = Base, ![p].next = Newest + 1]
      /\ rows' = rows /\ restarts' = restarts
  BY DEF Look
<1>2. Type
  BY DEF IInv
<1>3. Newest + 1 \in Versions /\ Newest + 1 \in 1 .. MaxVersions + 1 /\ Newest \in Nat
  BY <1>1, <1>2, NewestIs, SpeechEditsAssumption DEF Versions
<1>4. Base \in 0 .. MaxVersions /\ Base < Newest + 1
  <2>1. Base # 0 => Base <= Newest
    BY <1>2, BaseIs, NewestIs DEF Good
  <2> QED BY <1>2, <1>3, <2>1, BaseIs, SpeechEditsAssumption
<1>5. ASSUME NEW w \in Versions, w < Newest + 1
      PROVE  rows[w].st \in {"DONE", "FAILED"} /\ (rows[w].st = "DONE" => w <= Base)
  <2>1. rows[w].st # "none"
    <3>1. Newest # 0
      BY <1>3, <1>5 DEF Versions
    <3>2. Newest \in Created
      BY <1>2, <3>1, NewestIs
    <3>3. CASE w = Newest
      BY <3>2, <3>3 DEF Created
    <3>4. CASE w < Newest
      BY <3>2, <3>4 DEF Created, IInv, Settled
    <3> QED BY <1>3, <1>5, <3>3, <3>4 DEF Versions
  <2>2. rows[w].st \in {"DONE", "FAILED"}
    BY <1>1, <1>2, <2>1 DEF Busy, Created, Type, States, ACTIVE
  <2>3. rows[w].st = "DONE" => w \in Good
    BY DEF Good, Created
  <2> QED BY <1>2, <2>2, <2>3, BaseIs
<1>6. Type' /\ Settled' /\ CorrectionsStack'
  <2>1. page' \in [Pages -> PageState]
    <3> DEFINE new == [page[p] EXCEPT !.at = "creating", !.base = Base, !.next = Newest + 1]
    <3>1. page' = [page EXCEPT ![p] = new] /\ page \in [Pages -> PageState]
      BY <1>1, <1>2 DEF Type
    <3>2. new \in PageState BY <1>3, <1>4, <3>1 DEF PageState
    <3> HIDE DEF new
    <3> QED BY <3>1, <3>2
  <2> QED BY <1>1, <2>1 DEF IInv, Type, Settled, CorrectionsStack
<1>7. Looked'
  <2> SUFFICES ASSUME NEW q \in Pages, page'[q].at = "creating"
               PROVE  LET v == page'[q].next IN
                      /\ v \in Versions /\ page'[q].base < v
                      /\ rows[v].st = "none" =>
                           \A w \in Versions : w < v =>
                             rows[w].st \in {"DONE", "FAILED"} /\ (rows[w].st = "DONE" => w <= page'[q].base)
    BY <1>1 DEF Looked
  <2>1. CASE q = p
    <3>1. page'[q].next = Newest + 1 /\ page'[q].base = Base
      BY <1>1, <1>2, <2>1 DEF Type
    <3> HIDE DEF Newest, Base
    <3> QED BY <1>3, <1>4, <1>5, <3>1
  <2>2. CASE q # p
    BY <1>1, <1>2, <2>2 DEF IInv, Looked, Type
  <2> QED BY <2>1, <2>2
<1> QED BY <1>6, <1>7 DEF IInv

\* A version is created: nobody else did since the look, or the key refuses it.
LEMMA CreateKeeps ==
  ASSUME IInv, NEW p \in Pages, Create(p)
  PROVE  IInv'
<1> DEFINE v == page[p].next
<1>1. /\ page[p].at = "creating" /\ rows[v].st = "none"
      /\ rows' = [rows EXCEPT ![v] = [st |-> "QUEUED", base |-> page[p].base]]
      /\ restarts' = restarts
  BY DEF Create, Fresh
<1>2. PICK at \in {"watching", "idle"} :
         page' = [page EXCEPT ![p] = [Quiet EXCEPT !.at = at, !.mine = v, !.drafts = TRUE]]
  BY DEF Create
<1>3. /\ v \in Versions /\ page[p].base \in 0 .. v - 1
      /\ \A w \in Versions : w < v =>
             rows[w].st \in {"DONE", "FAILED"} /\ (rows[w].st = "DONE" => w <= page[p].base)
  BY <1>1 DEF IInv, Looked, Type, PageState, Versions
<1> HIDE DEF v
<1>4. \A w \in Versions : w > v => rows[w].st = "none"
  BY <1>1, <1>3 DEF IInv, Settled, Versions
<1>5. \A w \in Versions : w # v => rows'[w] = rows[w]
  BY <1>1
<1>6. rows'[v] = [st |-> "QUEUED", base |-> page[p].base]
  BY <1>1, <1>3 DEF IInv, Type
<1>7. Type'
  <2>1. page' \in [Pages -> PageState]
    <3> DEFINE s == [Quiet EXCEPT !.at = at, !.mine = v, !.drafts = TRUE]
    <3>1. v \in 0 .. MaxVersions
      BY <1>3, SpeechEditsAssumption DEF Versions
    <3>2. s \in PageState
      BY <3>1, QuietIs
    <3>3. page' = [page EXCEPT ![p] = s]
      BY <1>2
    <3> HIDE DEF s
    <3> QED BY <3>2, <3>3 DEF IInv, Type
  <2>2. rows' \in [Versions -> [st : States, base : Nat]]
    BY <1>1, <1>3 DEF IInv, Type, States, Versions
  <2>3. \A w \in Versions : rows'[w].base \in 0 .. w - 1
    BY <1>3, <1>5, <1>6 DEF IInv, Type
  <2> QED BY <1>1, <2>1, <2>2, <2>3 DEF IInv, Type
<1>8. Settled'
  <2> SUFFICES ASSUME NEW u \in Versions, rows'[u].st # "none", NEW w \in Versions, w < u
               PROVE  rows'[w].st \in {"DONE", "FAILED"}
    BY DEF Settled
  <2>1. u <= v
    BY <1>3, <1>4, <1>5 DEF Versions
  <2>2. w # v /\ w < v
    BY <2>1, <1>3 DEF Versions
  <2> QED BY <1>3, <1>5, <2>2
<1>9. CorrectionsStack'
  <2> SUFFICES ASSUME NEW u \in Versions, rows'[u].st \in ACTIVE \cup {"DONE"},
                      NEW w \in Versions, w < u, rows'[w].st = "DONE"
               PROVE  w <= rows'[u].base
    BY DEF CorrectionsStack
  <2>1. w # v
    BY <1>6
  <2>2. CASE u = v
    BY <1>3, <1>5, <1>6, <2>1, <2>2
  <2>3. CASE u # v
    BY <1>5, <2>1, <2>3 DEF IInv, CorrectionsStack
  <2> QED BY <2>2, <2>3
<1>10. Looked'
  <2> SUFFICES ASSUME NEW q \in Pages, page'[q].at = "creating"
               PROVE  LET u == page'[q].next IN
                      /\ u \in Versions /\ page'[q].base < u
                      /\ rows'[u].st = "none" =>
                           \A w \in Versions : w < u =>
                             rows'[w].st \in {"DONE", "FAILED"} /\ (rows'[w].st = "DONE" => w <= page'[q].base)
    BY DEF Looked
  <2>1. page'[q] = page[q]
    BY <1>2 DEF IInv, Type, Quiet
  <2> DEFINE u == page[q].next
  <2>2. /\ u \in Versions /\ page[q].base < u
        /\ rows[u].st = "none" =>
             \A w \in Versions : w < u =>
               rows[w].st \in {"DONE", "FAILED"} /\ (rows[w].st = "DONE" => w <= page[q].base)
    BY <2>1 DEF IInv, Looked
  <2> HIDE DEF u
  <2>3. ASSUME rows'[u].st = "none" PROVE u < v
    <3>1. u # v /\ rows[u].st = "none"
      BY <1>5, <1>6, <2>2, <2>3
    <3>2. ~ (v < u)
      BY <1>1, <1>3, <2>2, <3>1
    <3> QED BY <1>3, <2>2, <3>1, <3>2 DEF Versions
  <2>4. ~ (rows'[u].st = "none")
    <3> SUFFICES ASSUME rows'[u].st = "none" PROVE FALSE
      OBVIOUS
    <3>1. u < v /\ rows[u].st = "none"
      BY <2>3, <1>5, <1>6, <2>2
    <3> QED BY <1>3, <2>2, <3>1
  <2> QED BY <2>1, <2>2, <2>4 DEF u
<1> QED BY <1>7, <1>8, <1>9, <1>10 DEF IInv

\* The work on versions and a restart end versions that are active and wake none that ended.
LEMMA RowsEnd ==
  ASSUME IInv,
         rows' \in [Versions -> [st : States, base : Nat]],
         \A v \in Versions : /\ rows'[v].base = rows[v].base
                             /\ rows'[v].st = rows[v].st \/ (rows[v].st \in ACTIVE /\ rows'[v].st # "none"),
         restarts' \in 0 .. MaxRestarts,
         page' \in [Pages -> PageState],
         \A p \in Pages : page'[p].at = "creating" => page'[p] = page[p]
  PROVE  IInv'
<1>1. Type'
  BY DEF IInv, Type
<1>2. \A v \in Versions : rows'[v].st # "none" <=> rows[v].st # "none"
  BY DEF ACTIVE
<1>3. \A v \in Versions : rows[v].st \in {"DONE", "FAILED"} => rows'[v].st = rows[v].st
  BY DEF ACTIVE
<1>4. Settled'
  BY <1>2, <1>3 DEF IInv, Settled
<1>5. CorrectionsStack'
  <2> SUFFICES ASSUME NEW u \in Versions, rows'[u].st \in ACTIVE \cup {"DONE"},
                      NEW w \in Versions, w < u, rows'[w].st = "DONE"
               PROVE  w <= rows'[u].base
    BY DEF CorrectionsStack
  <2>1. rows[u].st \in ACTIVE \cup {"DONE"}
    OBVIOUS
  <2>2. rows[w].st \in {"DONE", "FAILED"}
    BY <2>1 DEF IInv, Settled, ACTIVE
  <2>3. rows[w].st = "DONE"
    BY <1>3, <2>2
  <2> QED BY <2>1, <2>3 DEF IInv, CorrectionsStack
<1>6. Looked'
  <2> SUFFICES ASSUME NEW q \in Pages, page'[q].at = "creating"
               PROVE  LET u == page'[q].next IN
                      /\ u \in Versions /\ page'[q].base < u
                      /\ rows'[u].st = "none" =>
                           \A w \in Versions : w < u =>
                             rows'[w].st \in {"DONE", "FAILED"} /\ (rows'[w].st = "DONE" => w <= page'[q].base)
    BY DEF Looked
  <2>1. page'[q] = page[q]
    OBVIOUS
  <2> QED BY <2>1, <1>2, <1>3 DEF IInv, Looked
<1> QED BY <1>1, <1>4, <1>5, <1>6 DEF IInv

\* A page that turns to a state in which it is not about to create.
LEMMA PageTurns ==
  ASSUME Type, NEW p \in Pages, NEW s \in PageState, s.at # "creating", page' = [page EXCEPT ![p] = s]
  PROVE  /\ page' \in [Pages -> PageState]
         /\ \A q \in Pages : page'[q].at = "creating" => page'[q] = page[q]
<1>1. page \in [Pages -> PageState]
  BY DEF Type
<1>2. \A q \in Pages : page'[q] = IF q = p THEN s ELSE page[q]
  BY <1>1
<1> QED BY <1>1, <1>2

\* One case per action.
LEMMA NextIInv == ASSUME IInv, [Next]_vars PROVE IInv'
<1>1. Type
  BY DEF IInv
<1>2. CASE Restart
  <2>1. /\ page' \in [Pages -> PageState]
        /\ \A p \in Pages : page'[p].at = "creating" => page'[p] = page[p]
    BY <1>1, <1>2, QuietIs DEF Restart, Type
  <2>2. /\ rows' \in [Versions -> [st : States, base : Nat]]
        /\ \A v \in Versions : /\ rows'[v].base = rows[v].base
                               /\ rows'[v].st = rows[v].st \/ (rows[v].st \in ACTIVE /\ rows'[v].st # "none")
    <3>1. rows' = [v \in Versions |-> IF rows[v].st \in ACTIVE THEN [rows[v] EXCEPT !.st = "FAILED"] ELSE rows[v]]
      BY <1>2 DEF Restart
    <3>2. \A v \in Versions : rows[v] \in [st : States, base : Nat]
      BY <1>1 DEF Type
    <3>3. \A v \in Versions : /\ [rows[v] EXCEPT !.st = "FAILED"] \in [st : States, base : Nat]
                              /\ [rows[v] EXCEPT !.st = "FAILED"].base = rows[v].base
                              /\ [rows[v] EXCEPT !.st = "FAILED"].st = "FAILED"
      BY <3>2 DEF States
    <3> QED BY <3>1, <3>2, <3>3
  <2>3. restarts' \in 0 .. MaxRestarts
    BY <1>1, <1>2, SpeechEditsAssumption DEF Restart, Type
  <2> QED BY <2>1, <2>2, <2>3, RowsEnd
<1>3. ASSUME NEW p \in Pages, PageStep(p) PROVE IInv'
  <2>1. CASE Apply(p)
    BY <1>1, <2>1, PageStepKeeps DEF Apply, Type, PageState
  <2>2. CASE Look(p)
    BY <2>2, LookKeeps
  <2>3. CASE Refused(p)
    <3>1. /\ page' \in [Pages -> PageState]
          /\ \A q \in Pages : page'[q].at = "creating" => page'[q] = page[q]
      <4> DEFINE s == [Quiet EXCEPT !.drafts = TRUE]
      <4>1. page' = [page EXCEPT ![p] = s]
        BY <2>3 DEF Refused
      <4>2. s \in PageState /\ s.at = "idle"
        BY QuietIs
      <4> HIDE DEF s
      <4> QED BY <1>1, <4>1, <4>2, PageTurns
    <3> QED BY <1>1, <2>3, <3>1, PageStepKeeps DEF Refused, Type
  <2>4. CASE Create(p)
    BY <2>4, CreateKeeps
  <2>5. CASE Watch(p)
    <3>1. /\ page' \in [Pages -> PageState]
          /\ \A q \in Pages : page'[q].at = "creating" => page'[q] = page[q]
      <4> DEFINE s == [Quiet EXCEPT !.drafts = page[p].drafts /\ rows[Newest].st # "DONE"]
      <4>1. page' = [page EXCEPT ![p] = s]
        BY <2>5 DEF Watch, Report
      <4>2. (page[p].drafts /\ rows[Newest].st # "DONE") \in BOOLEAN
        BY <1>1 DEF Type, PageState
      <4>3. s \in PageState /\ s.at = "idle"
        BY <4>2, QuietIs
      <4> HIDE DEF s
      <4> QED BY <1>1, <4>1, <4>3, PageTurns
    <3> QED BY <1>1, <2>5, <3>1, PageStepKeeps DEF Watch, Type
  <2>6. CASE Open(p)
    <3>1. /\ page' \in [Pages -> PageState]
          /\ \A q \in Pages : page'[q].at = "creating" => page'[q] = page[q]
      <4> DEFINE at == IF Busy THEN "watching" ELSE "idle"
                 s == [Quiet EXCEPT !.at = at]
      <4>1. page' = [page EXCEPT ![p] = s]
        BY <2>6 DEF Open
      <4>2. at \in {"idle", "watching"}
        OBVIOUS
      <4> HIDE DEF at
      <4>3. s \in PageState /\ s.at = at
        BY <4>2, QuietIs
      <4> HIDE DEF s
      <4> QED BY <1>1, <4>1, <4>2, <4>3, PageTurns
    <3> QED BY <1>1, <2>6, <3>1, PageStepKeeps DEF Open, Type
  <2> QED BY <1>3, <2>1, <2>2, <2>3, <2>4, <2>5, <2>6 DEF PageStep
<1>4. ASSUME NEW v \in Versions, Work(v) PROVE IInv'
  <2>1. /\ rows[v].st \in ACTIVE /\ page' = page /\ restarts' = restarts
        /\ \E st \in States \ {"none"} : rows' = [rows EXCEPT ![v].st = st]
    BY <1>4 DEF Work, Begin, Finish, Fail, States, ACTIVE
  <2>2. /\ rows' \in [Versions -> [st : States, base : Nat]]
        /\ \A w \in Versions : /\ rows'[w].base = rows[w].base
                               /\ rows'[w].st = rows[w].st \/ (rows[w].st \in ACTIVE /\ rows'[w].st # "none")
    <3>1. PICK st \in States \ {"none"} : rows' = [rows EXCEPT ![v].st = st]
      BY <2>1
    <3> QED BY <1>1, <2>1, <3>1 DEF Type
  <2> QED BY <1>1, <2>1, <2>2, RowsEnd DEF Type
<1>5. CASE UNCHANGED vars
  BY <1>1, <1>5, PageStepKeeps DEF vars, Type
<1> QED BY <1>2, <1>3, <1>4, <1>5 DEF Next

\* The invariant, in every behaviour.
LEMMA Invariant == Spec => []IInv
<1>1. Init => IInv
  BY InitIInv
<1>2. IInv /\ [Next]_vars => IInv'
  BY NextIInv
<1> QED BY <1>1, <1>2, PTL DEF Spec

\* At most one version is active: an older one than it has ended.
LEMMA Alone == IInv => OneActive
  BY DEF IInv, Type, Settled, ACTIVE, Versions, OneActive

\* The rows and the pages have their types, and an edit builds on an older version.
THEOREM VersionsTypeCorrect == Spec => []TypeOK
<1>1. IInv => TypeOK
  BY DEF IInv, Type, States, PageState, TypeOK, ACTIVE
<1> QED BY <1>1, Invariant, PTL

\* A dub's speech is edited once at a time, and each version is built on the newest one
\* that worked: no correction is lost, whatever the pages and the restarts do
\* (speech-edit.service.ts:40-41, 120-128, 149-158).
THEOREM CorrectionsAreKept == Spec => []CorrectionsKept
<1>1. IInv => CorrectionsKept
  BY Alone DEF IInv, CorrectionsKept
<1> QED BY <1>1, Invariant, PTL

-----------------------------------------------------------------------------
(* The project the API keeps (EditorProject) *)

OpOf == [kind : {"none", "save", "add", "remove"}, pc : {"new", "queued", "write", "unlink", "over"},
         assets : SUBSET Files, seen : SUBSET Files, clips : SUBSET Files]
RowOf == [exists : BOOLEAN, assets : SUBSET Files, clips : SUBSET Files,
          status : {"idle", "running", "done", "failed", "deleting"}, url : Outputs \cup {None}]
ExportOf == [pc : {"new", "start", "mark", "encode", "encoded", "done", "failed", "over"},
             prev : Outputs \cup {None}, files : SUBSET Files]
ProjectTyped ==
  /\ row \in RowOf /\ disk \subseteq Files \cup Outputs /\ op \in [Requests -> OpOf]
  /\ export \in [Outputs -> ExportOf]
  /\ live \in Outputs \cup {None} /\ unwritten \in BOOLEAN /\ added \subseteq Files /\ projectRestarts \in 0 .. MaxDown
\* Requests wait in line, once each, and only the first has begun.
InLine ==
  /\ queue \in Seq(Requests) /\ \A m, n \in 1 .. Len(queue) : queue[m] = queue[n] => m = n
  /\ \A n \in 1 .. Len(queue) : op[queue[n]].pc \in {"queued", "write", "unlink"}
  /\ \A o \in Requests : op[o].pc \in {"write", "unlink"} => queue # <<>> /\ Head(queue) = o
\* What the first in line has read is what the row still has.
ReadIsTrue == \A o \in Requests : op[o].pc = "write" /\ row.exists => op[o].seen = row.assets /\ op[o].clips = row.clips
\* A file that waits to be added is on the disk and is nobody else's; one that is to be
\* deleted is not listed.
Adding(o) == op[o].kind = "add" /\ op[o].pc \in {"queued", "write"}
AddsApart ==
  \A o \in Requests : Adding(o) /\ row.exists =>
    /\ op[o].assets \subseteq disk /\ op[o].assets \cap row.assets = {}
    /\ \A p \in Requests : p # o /\ (Adding(p) \/ op[p].pc = "unlink") => op[o].assets \cap op[p].assets = {}
Unlisted == \A o \in Requests : op[o].pc = "unlink" => op[o].assets \cap row.assets = {}
\* A project that is gone lists nothing.
GoneIsEmpty == /\ ~row.exists => row.assets = {} /\ row.clips = {} /\ added = {}
               /\ row.status = "deleting" => ~row.exists
FilesInv == /\ InLine /\ ReadIsTrue /\ AddsApart /\ Unlisted /\ GoneIsEmpty
            /\ row.clips \subseteq row.assets /\ added \subseteq row.assets /\ row.assets \subseteq disk
\* What an export replaces had ended when it began, and is offered no more once it runs;
\* an export that has been written is on the disk.
ExportsInv ==
  /\ \A e \in Outputs : export[e].prev # None => export[export[e].prev].pc = "over"
  /\ row.url # None => export[row.url].pc = "over"
  /\ \A e \in Outputs : export[e].pc \in {"encode", "encoded", "done", "failed"} => export[e].prev = None \/ row.url # export[e].prev
  /\ \A e \in Outputs : export[e].pc \in {"encoded", "done"} /\ row.exists => e \in disk
  /\ row.exists /\ row.status = "done" => row.url # None /\ row.url \in disk
ProjectInv == ProjectTyped /\ FilesInv /\ ExportsInv

LEMMA InitProjectInv == Project!Init => ProjectInv
<1> SUFFICES ASSUME Project!Init PROVE ProjectInv OBVIOUS
<1> USE DEF Project!Init, Project!Row0, Project!Idle, Project!Export0
<1>1. ProjectTyped
  <2>1. row \in RowOf /\ op \in [Requests -> OpOf] /\ export \in [Outputs -> ExportOf] BY DEF RowOf, OpOf, ExportOf
  <2>2. projectRestarts \in 0 .. MaxDown BY VoicingAssumption
  <2>3. unwritten \in BOOLEAN /\ live \in Outputs \cup {None} /\ disk = {} /\ added = {} OBVIOUS
  <2> QED BY <2>1, <2>2, <2>3 DEF ProjectTyped
<1>2. InLine
  <2>1. queue \in Seq(Requests) /\ Len(queue) = 0 OBVIOUS
  <2> QED BY <2>1 DEF InLine
<1>3. FilesInv BY <1>2 DEF FilesInv, ReadIsTrue, AddsApart, Adding, Unlisted, GoneIsEmpty
<1>4. ExportsInv BY DEF ExportsInv
<1> QED BY <1>1, <1>3, <1>4 DEF ProjectInv

\* What only touches files leaves the exports right, and the other way round.
LEMMA ExportsStay ==
  ASSUME ProjectInv, export' = export, row'.url = row.url, row'.status = row.status, row'.exists = row.exists,
         disk \cap Outputs \subseteq disk'
  PROVE  ExportsInv'
<1>1. row.url \in Outputs \cup {None} BY DEF ProjectInv, ProjectTyped, RowOf
<1> QED BY <1>1 DEF ProjectInv, ExportsInv
LEMMA FilesStay ==
  ASSUME ProjectInv, op' = op, queue' = queue, added' = added, row'.assets = row.assets, row'.clips = row.clips,
         row'.exists = row.exists, row'.status = "deleting" => row.status = "deleting", disk \cap Files \subseteq disk'
  PROVE  FilesInv'
<1>1. row.assets \subseteq Files /\ \A o \in Requests : op[o].assets \subseteq Files
  BY DEF ProjectInv, ProjectTyped, RowOf, OpOf
<1>2. InLine' BY DEF ProjectInv, FilesInv, InLine
<1>3. ReadIsTrue' /\ Unlisted' /\ GoneIsEmpty' BY DEF ProjectInv, FilesInv, ReadIsTrue, Unlisted, GoneIsEmpty
<1>4. AddsApart' BY <1>1 DEF ProjectInv, FilesInv, AddsApart, Adding
<1>5. row'.assets \subseteq disk' BY <1>1 DEF ProjectInv, FilesInv
<1> QED BY <1>2, <1>3, <1>4, <1>5 DEF ProjectInv, FilesInv

\* A request that has come joins the line.
LEMMA SendKeeps ==
  ASSUME ProjectInv, NEW o \in Requests, Project!Request(o)
  PROVE  ProjectInv'
<1>1. PICK kind \in {"save", "add", "remove"}, files \in SUBSET Files :
        /\ Project!Send(o, kind, files) /\ disk \subseteq disk' /\ disk' \subseteq disk \cup files
        /\ kind = "add" => files \subseteq disk' /\ files \cap Project!Known = {}
  <2>1. CASE \E files \in SUBSET Files : Project!Send(o, "save", files) /\ UNCHANGED disk
    BY <2>1
  <2>2. CASE \E a \in Files \ Project!Known : Project!Send(o, "add", {a}) /\ disk' = disk \cup {a}
    <3>1. PICK a \in Files \ Project!Known : Project!Send(o, "add", {a}) /\ disk' = disk \cup {a} BY <2>2
    <3> QED BY <3>1
  <2>3. CASE \E a \in Files : Project!Send(o, "remove", {a}) /\ UNCHANGED disk
    <3>1. PICK a \in Files : Project!Send(o, "remove", {a}) /\ UNCHANGED disk BY <2>3
    <3> QED BY <3>1
  <2> QED BY <2>1, <2>2, <2>3 DEF Project!Request
<1> DEFINE new == [Project!Idle EXCEPT !.kind = kind, !.pc = "queued", !.assets = files]
<1>2. /\ op[o].pc = "new" /\ row.exists /\ op' = [op EXCEPT ![o] = new] /\ queue' = Append(queue, o)
      /\ UNCHANGED <<row, export, live, unwritten, added, projectRestarts>> /\ new \in OpOf
  <2>1. Project!Idle \in OpOf BY DEF Project!Idle, OpOf
  <2>2. new \in OpOf BY <1>1, <2>1 DEF OpOf
  <2> QED BY <1>1, <2>2 DEF Project!Send
<1>4. /\ new.kind = kind /\ new.pc = "queued" /\ new.assets = files BY DEF Project!Idle
<1> HIDE DEF new
<1>3. /\ op'[o] = new /\ \A p \in Requests : p # o => op'[p] = op[p]
      /\ \A p \in Requests : op[p] \in OpOf
  BY <1>2 DEF ProjectInv, ProjectTyped
<1>5. ProjectTyped' BY <1>1, <1>2 DEF ProjectInv, ProjectTyped
<1>6. InLine'
  <2>1. queue \in Seq(Requests) /\ \A n \in 1 .. Len(queue) : queue[n] # o /\ queue[n] \in Requests
    BY <1>2 DEF ProjectInv, FilesInv, InLine
  <2>2. /\ queue' \in Seq(Requests) /\ Len(queue') = Len(queue) + 1 /\ Len(queue) \in Nat
        /\ queue'[Len(queue) + 1] = o /\ \A n \in 1 .. Len(queue) : queue'[n] = queue[n]
    BY <1>2, <2>1
  <2>3. \A m, n \in 1 .. Len(queue') : queue'[m] = queue'[n] => m = n
    BY <2>1, <2>2 DEF ProjectInv, FilesInv, InLine
  <2>4. \A n \in 1 .. Len(queue') : op'[queue'[n]].pc \in {"queued", "write", "unlink"}
    BY <1>3, <1>4, <2>1, <2>2 DEF ProjectInv, FilesInv, InLine
  <2>5. ASSUME NEW p \in Requests, op'[p].pc \in {"write", "unlink"} PROVE queue' # <<>> /\ Head(queue') = p
    <3>1. p # o /\ op[p].pc \in {"write", "unlink"} BY <1>3, <1>4, <2>5
    <3>2. queue # <<>> /\ Head(queue) = p BY <3>1 DEF ProjectInv, FilesInv, InLine
    <3>3. Len(queue) >= 1 /\ Head(queue) = queue[1] BY <2>1, <3>2
    <3>4. queue'[1] = p /\ Len(queue') >= 1 BY <2>2, <3>2, <3>3
    <3> QED BY <2>2, <3>4
  <2> QED BY <2>2, <2>3, <2>4, <2>5 DEF InLine
<1>7. ReadIsTrue' /\ Unlisted' /\ GoneIsEmpty' BY <1>2, <1>3, <1>4 DEF ProjectInv, FilesInv, ReadIsTrue, Unlisted, GoneIsEmpty
<1>8. AddsApart'
  <2>1. kind = "add" => files \cap row.assets = {} /\ files \cap disk = {} /\ \A p \in Requests : files \cap op[p].assets = {}
    BY <1>1 DEF Project!Known
  <2>2. row'.assets = row.assets /\ disk \subseteq disk' BY <1>1, <1>2
  <2>3. ASSUME NEW p \in Requests, Adding(p)'
        PROVE  /\ op'[p].assets \subseteq disk' /\ op'[p].assets \cap row.assets = {}
               /\ \A q \in Requests : q # p /\ (Adding(q)' \/ op'[q].pc = "unlink") => op'[p].assets \cap op'[q].assets = {}
    <3>1. CASE p = o
      <4>1. kind = "add" BY <1>3, <1>4, <2>3, <3>1 DEF Adding
      <4> QED BY <1>1, <1>3, <1>4, <2>1, <3>1, <4>1
    <3>2. CASE p # o
      <4>1. Adding(p) BY <1>3, <2>3, <3>2 DEF Adding
      <4>2. /\ op[p].assets \subseteq disk /\ op[p].assets \cap row.assets = {}
            /\ \A q \in Requests : q # p /\ (Adding(q) \/ op[q].pc = "unlink") => op[p].assets \cap op[q].assets = {}
        BY <1>2, <4>1 DEF ProjectInv, FilesInv, AddsApart
      <4>3. ASSUME NEW q \in Requests, q # p, Adding(q)' \/ op'[q].pc = "unlink" PROVE op'[p].assets \cap op'[q].assets = {}
        <5>1. CASE q = o
          <6>1. kind = "add" /\ op'[q].assets = files BY <1>3, <1>4, <4>3, <5>1 DEF Adding
          <6> QED BY <1>3, <2>1, <3>2, <6>1
        <5>2. CASE q # o BY <1>3, <3>2, <4>2, <4>3, <5>2 DEF Adding
        <5> QED BY <5>1, <5>2
      <4> QED BY <1>3, <2>2, <3>2, <4>2, <4>3
    <3> QED BY <3>1, <3>2
  <2> QED BY <1>2, <2>3 DEF AddsApart
<1>9. FilesInv' BY <1>1, <1>2, <1>6, <1>7, <1>8 DEF ProjectInv, FilesInv
<1>10. ExportsInv' BY <1>1, <1>2, ExportsStay
<1> QED BY <1>5, <1>9, <1>10 DEF ProjectInv

\* Whoever goes was the first in line; nobody else has begun.
LEMMA LeaveKeeps ==
  ASSUME ProjectInv, NEW o \in Requests, Project!Leave(o),
         (op[o].pc \in {"write", "unlink"}) \/ (op[o].pc = "queued" /\ Project!MyTurn(o))
  PROVE  /\ op' \in [Requests -> OpOf] /\ InLine' /\ op'[o].pc = "over"
         /\ \A p \in Requests : /\ op'[p].pc \notin {"write", "unlink"}
                                /\ p # o => op'[p] = op[p] /\ op[p].pc \notin {"write", "unlink"}
<1> DEFINE gone == [Project!Idle EXCEPT !.pc = "over"]
<1>1. op' = [op EXCEPT ![o] = gone] /\ queue' = Tail(queue) BY DEF Project!Leave
<1>2. gone \in OpOf /\ gone.pc = "over" BY DEF OpOf, Project!Idle
<1> HIDE DEF gone
<1>3. queue \in Seq(Requests) /\ queue # <<>> /\ Head(queue) = o /\ op \in [Requests -> OpOf]
  BY DEF ProjectInv, ProjectTyped, FilesInv, InLine, Project!MyTurn
<1>4. /\ op' \in [Requests -> OpOf] /\ op'[o] = gone /\ \A p \in Requests : p # o => op'[p] = op[p]
  BY <1>1, <1>2, <1>3
<1>5. ASSUME NEW p \in Requests, p # o PROVE op[p].pc \notin {"write", "unlink"}
  BY <1>3, <1>5 DEF ProjectInv, FilesInv, InLine
<1>6. /\ queue' \in Seq(Requests) /\ Len(queue) \in Nat /\ Len(queue) >= 1 /\ Len(queue') = Len(queue) - 1 /\ queue[1] = o
      /\ \A n \in 1 .. Len(queue') : queue'[n] = queue[n + 1]
  BY <1>1, <1>3
<1>7. \A n \in 1 .. Len(queue') : n + 1 \in 1 .. Len(queue) /\ n + 1 # 1 BY <1>6
<1>8. InLine'
  <2>1. \A m, n \in 1 .. Len(queue') : queue'[m] = queue'[n] => m = n
    <3> SUFFICES ASSUME NEW m \in 1 .. Len(queue'), NEW n \in 1 .. Len(queue'), queue'[m] = queue'[n] PROVE m = n
      OBVIOUS
    <3>1. m + 1 = n + 1 BY <1>6, <1>7 DEF ProjectInv, FilesInv, InLine
    <3> QED BY <3>1
  <2>2. ASSUME NEW n \in 1 .. Len(queue') PROVE op'[queue'[n]].pc \in {"queued", "write", "unlink"}
    <3>1. /\ queue'[n] = queue[n + 1] /\ n + 1 \in 1 .. Len(queue) /\ 1 \in 1 .. Len(queue) /\ n + 1 # 1
          /\ queue[n + 1] \in Requests
      BY <1>3, <1>6, <1>7
    <3>2. queue[n + 1] # o BY <1>6, <3>1 DEF ProjectInv, FilesInv, InLine
    <3> QED BY <1>4, <3>1, <3>2 DEF ProjectInv, FilesInv, InLine
  <2>3. \A p \in Requests : op'[p].pc \notin {"write", "unlink"} BY <1>2, <1>4, <1>5
  <2> QED BY <1>6, <2>1, <2>2, <2>3 DEF InLine
<1> QED BY <1>2, <1>4, <1>5, <1>8

\* The line's head goes from one stage to the next.
LEMMA AdvanceKeeps ==
  ASSUME ProjectInv, NEW o \in Requests, NEW new \in OpOf, op' = [op EXCEPT ![o] = new], queue' = queue,
         op[o].pc = "write" \/ (op[o].pc = "queued" /\ Project!MyTurn(o)), new.pc \in {"write", "unlink"}
  PROVE  /\ op' \in [Requests -> OpOf] /\ InLine' /\ op'[o] = new
         /\ \A p \in Requests : p # o => op'[p] = op[p] /\ op[p].pc \notin {"write", "unlink"}
<1>1. queue \in Seq(Requests) /\ queue # <<>> /\ Head(queue) = o /\ op \in [Requests -> OpOf]
  BY DEF ProjectInv, ProjectTyped, FilesInv, InLine, Project!MyTurn
<1>2. /\ op' \in [Requests -> OpOf] /\ op'[o] = new /\ \A p \in Requests : p # o => op'[p] = op[p]
  BY <1>1
<1>3. ASSUME NEW p \in Requests, p # o PROVE op[p].pc \notin {"write", "unlink"}
  BY <1>1, <1>3 DEF ProjectInv, FilesInv, InLine
<1>4. \A n \in 1 .. Len(queue) : queue[n] \in Requests BY <1>1
<1>5. InLine' BY <1>1, <1>2, <1>3, <1>4 DEF ProjectInv, FilesInv, InLine
<1> QED BY <1>2, <1>3, <1>5

LEMMA ReadKeeps == ASSUME ProjectInv, NEW o \in Requests, Project!Read(o) PROVE ProjectInv'
<1> DEFINE new == [op[o] EXCEPT !.pc = "write", !.seen = row.assets, !.clips = row.clips]
<1>1. op[o] \in OpOf /\ row \in RowOf BY DEF ProjectInv, ProjectTyped
<1>2. /\ new \in OpOf /\ new.pc = "write" /\ new.seen = row.assets /\ new.clips = row.clips
      /\ new.kind = op[o].kind /\ new.assets = op[o].assets
  BY <1>1 DEF OpOf, RowOf
<1>3. /\ op' = [op EXCEPT ![o] = new]
      /\ op[o].pc = "queued" /\ Project!MyTurn(o) /\ row.exists
      /\ UNCHANGED <<row, disk, queue, export, live, unwritten, added, projectRestarts>>
  BY DEF Project!Read
<1> HIDE DEF new
<1>4. /\ op' \in [Requests -> OpOf] /\ InLine' /\ op'[o] = new
      /\ \A p \in Requests : p # o => op'[p] = op[p] /\ op[p].pc \notin {"write", "unlink"}
  BY <1>2, <1>3, AdvanceKeeps
<1>5. ProjectTyped' BY <1>3, <1>4 DEF ProjectInv, ProjectTyped
<1>6. ReadIsTrue' BY <1>2, <1>3, <1>4 DEF ReadIsTrue
<1>7. \A p \in Requests : op'[p].assets = op[p].assets /\ (Adding(p)' => Adding(p)) /\ (op'[p].pc = "unlink" => op[p].pc = "unlink")
  BY <1>2, <1>3, <1>4 DEF Adding
<1>8. AddsApart' /\ Unlisted' BY <1>3, <1>7 DEF ProjectInv, FilesInv, AddsApart, Unlisted
<1>9. FilesInv' BY <1>3, <1>4, <1>6, <1>8 DEF ProjectInv, FilesInv, GoneIsEmpty
<1>10. ExportsInv' BY <1>3, ExportsStay
<1> QED BY <1>5, <1>9, <1>10 DEF ProjectInv

LEMMA RefuseKeeps == ASSUME ProjectInv, NEW o \in Requests, Project!Refuse(o) PROVE ProjectInv'
<1>1. /\ Project!Leave(o) /\ UNCHANGED <<row, disk, export, live, unwritten, added, projectRestarts>>
      /\ op[o].pc \in {"write", "unlink"} \/ (op[o].pc = "queued" /\ Project!MyTurn(o))
  BY DEF Project!Refuse
<1>2. /\ op' \in [Requests -> OpOf] /\ InLine' /\ op'[o].pc = "over"
      /\ \A p \in Requests : op'[p].pc \notin {"write", "unlink"} /\ (p # o => op'[p] = op[p])
  BY <1>1, LeaveKeeps
<1>3. ReadIsTrue' /\ Unlisted' BY <1>2 DEF ReadIsTrue, Unlisted
<1>4. AddsApart' BY <1>1, <1>2 DEF ProjectInv, FilesInv, AddsApart, Adding
<1>5. FilesInv' BY <1>1, <1>2, <1>3, <1>4 DEF ProjectInv, FilesInv, GoneIsEmpty
<1>6. ExportsInv' BY <1>1, ExportsStay
<1>7. ProjectTyped' BY <1>1, <1>2 DEF ProjectInv, ProjectTyped
<1> QED BY <1>5, <1>6, <1>7 DEF ProjectInv

LEMMA WriteTracksKeeps == ASSUME ProjectInv, NEW o \in Requests, Project!WriteTracks(o) PROVE ProjectInv'
<1>1. /\ Project!Leave(o) /\ UNCHANGED <<disk, export, live, unwritten, added, projectRestarts>>
      /\ op[o].pc = "write" /\ row.exists /\ op[o].assets \subseteq op[o].seen
      /\ row' = [row EXCEPT !.clips = op[o].assets]
  BY DEF Project!WriteTracks, Project!Writes, Project!Refuses
<1>2. row \in RowOf /\ op[o] \in OpOf BY DEF ProjectInv, ProjectTyped
<1>3. /\ row' \in RowOf /\ row'.exists = row.exists /\ row'.assets = row.assets /\ row'.clips = op[o].assets
      /\ row'.status = row.status /\ row'.url = row.url
  BY <1>1, <1>2 DEF RowOf, OpOf
<1>4. op[o].assets \subseteq row.assets BY <1>1 DEF ProjectInv, FilesInv, ReadIsTrue
<1>5. /\ op' \in [Requests -> OpOf] /\ InLine' /\ op'[o].pc = "over"
      /\ \A p \in Requests : op'[p].pc \notin {"write", "unlink"} /\ (p # o => op'[p] = op[p])
  BY <1>1, LeaveKeeps
<1>6. ReadIsTrue' /\ Unlisted' BY <1>5 DEF ReadIsTrue, Unlisted
<1>7. AddsApart' BY <1>1, <1>3, <1>5 DEF ProjectInv, FilesInv, AddsApart, Adding
<1>8. FilesInv' BY <1>1, <1>3, <1>4, <1>5, <1>6, <1>7 DEF ProjectInv, FilesInv, GoneIsEmpty
<1>9. ExportsInv' BY <1>1, <1>3, ExportsStay
<1>10. ProjectTyped' BY <1>1, <1>3, <1>5 DEF ProjectInv, ProjectTyped
<1> QED BY <1>8, <1>9, <1>10 DEF ProjectInv

LEMMA AddAssetKeeps == ASSUME ProjectInv, NEW o \in Requests, Project!AddAsset(o) PROVE ProjectInv'
<1>1. /\ Project!Leave(o) /\ UNCHANGED <<disk, export, live, unwritten, projectRestarts>>
      /\ op[o].pc = "write" /\ row.exists /\ op[o].kind = "add"
      /\ row' = [row EXCEPT !.assets = op[o].seen \cup op[o].assets] /\ added' = added \cup op[o].assets
  BY DEF Project!AddAsset, Project!Writes
<1>2. row \in RowOf /\ op[o] \in OpOf /\ added \subseteq Files BY DEF ProjectInv, ProjectTyped
<1>3. op[o].seen = row.assets BY <1>1 DEF ProjectInv, FilesInv, ReadIsTrue
<1>4. /\ row' \in RowOf /\ row'.exists = row.exists /\ row'.assets = row.assets \cup op[o].assets /\ row'.clips = row.clips
      /\ row'.status = row.status /\ row'.url = row.url /\ added' \subseteq Files
  BY <1>1, <1>2, <1>3 DEF RowOf, OpOf
<1>5. /\ op' \in [Requests -> OpOf] /\ InLine' /\ op'[o].pc = "over"
      /\ \A p \in Requests : op'[p].pc \notin {"write", "unlink"} /\ (p # o => op'[p] = op[p])
  BY <1>1, LeaveKeeps
<1>6. ReadIsTrue' /\ Unlisted' BY <1>5 DEF ReadIsTrue, Unlisted
<1>7. Adding(o) /\ op[o].assets \subseteq disk BY <1>1 DEF ProjectInv, FilesInv, AddsApart, Adding
<1>8. ASSUME NEW p \in Requests, Adding(p)'
      PROVE  /\ op'[p].assets \subseteq disk' /\ op'[p].assets \cap row'.assets = {}
             /\ \A q \in Requests : q # p /\ (Adding(q)' \/ op'[q].pc = "unlink") => op'[p].assets \cap op'[q].assets = {}
  <2>1. p # o /\ Adding(p) /\ op'[p] = op[p] BY <1>5, <1>8 DEF Adding
  <2>2. /\ op[p].assets \subseteq disk /\ op[p].assets \cap row.assets = {} /\ op[p].assets \cap op[o].assets = {}
        /\ \A q \in Requests : q # p /\ Adding(q) => op[p].assets \cap op[q].assets = {}
    BY <1>1, <1>7, <2>1 DEF ProjectInv, FilesInv, AddsApart
  <2>3. \A q \in Requests : Adding(q)' => q # o /\ Adding(q) /\ op'[q] = op[q] BY <1>5 DEF Adding
  <2> QED BY <1>1, <1>4, <1>5, <2>1, <2>2, <2>3
<1>9. AddsApart' BY <1>8 DEF AddsApart
<1>10. FilesInv' BY <1>1, <1>4, <1>5, <1>6, <1>7, <1>9 DEF ProjectInv, FilesInv, GoneIsEmpty
<1>11. ExportsInv' BY <1>1, <1>4, ExportsStay
<1>12. ProjectTyped' BY <1>1, <1>4, <1>5 DEF ProjectInv, ProjectTyped
<1> QED BY <1>10, <1>11, <1>12 DEF ProjectInv

LEMMA DropAssetKeeps == ASSUME ProjectInv, NEW o \in Requests, Project!DropAsset(o) PROVE ProjectInv'
<1> DEFINE new == [op[o] EXCEPT !.pc = "unlink"]
<1>1. /\ op' = [op EXCEPT ![o] = new] /\ UNCHANGED <<disk, queue, export, live, unwritten, projectRestarts>>
      /\ op[o].pc = "write" /\ row.exists /\ op[o].kind = "remove"
      /\ op[o].assets \subseteq op[o].seen /\ op[o].assets \cap op[o].clips = {}
      /\ row' = [row EXCEPT !.assets = op[o].seen \ op[o].assets] /\ added' = added \ op[o].assets
  BY DEF Project!DropAsset, Project!Writes, Project!Refuses
<1>2. row \in RowOf /\ op[o] \in OpOf BY DEF ProjectInv, ProjectTyped
<1>3. new \in OpOf /\ new.pc = "unlink" /\ new.kind = op[o].kind /\ new.assets = op[o].assets BY <1>2 DEF OpOf
<1> HIDE DEF new
<1>4. op[o].seen = row.assets /\ op[o].clips = row.clips BY <1>1 DEF ProjectInv, FilesInv, ReadIsTrue
<1>5. /\ row' \in RowOf /\ row'.exists = row.exists /\ row'.assets = row.assets \ op[o].assets /\ row'.clips = row.clips
      /\ row'.status = row.status /\ row'.url = row.url
  BY <1>1, <1>2, <1>4 DEF RowOf
<1>6. /\ op' \in [Requests -> OpOf] /\ InLine' /\ op'[o] = new
      /\ \A p \in Requests : p # o => op'[p] = op[p] /\ op[p].pc \notin {"write", "unlink"}
  BY <1>1, <1>3, AdvanceKeeps
<1>7. ReadIsTrue' /\ Unlisted' BY <1>3, <1>5, <1>6 DEF ReadIsTrue, Unlisted
<1>8. ASSUME NEW p \in Requests, Adding(p)'
      PROVE  /\ op'[p].assets \subseteq disk' /\ op'[p].assets \cap row'.assets = {}
             /\ \A q \in Requests : q # p /\ (Adding(q)' \/ op'[q].pc = "unlink") => op'[p].assets \cap op'[q].assets = {}
  <2>1. p # o /\ Adding(p) /\ op'[p] = op[p] BY <1>1, <1>3, <1>6, <1>8 DEF Adding
  <2>2. /\ op[p].assets \subseteq disk /\ op[p].assets \cap row.assets = {}
        /\ \A q \in Requests : q # p /\ Adding(q) => op[p].assets \cap op[q].assets = {}
    BY <1>1, <2>1 DEF ProjectInv, FilesInv, AddsApart
  <2>3. op[p].assets \cap op[o].assets = {} BY <1>1, <1>4, <2>2
  <2>4. ASSUME NEW q \in Requests, q # p, Adding(q)' \/ op'[q].pc = "unlink" PROVE op'[p].assets \cap op'[q].assets = {}
    <3>1. CASE q = o BY <1>3, <1>6, <2>1, <2>3, <3>1
    <3>2. CASE q # o
      <4>1. Adding(q) /\ op'[q] = op[q] BY <1>6, <2>4, <3>2 DEF Adding
      <4> QED BY <2>1, <2>2, <2>4, <4>1
    <3> QED BY <3>1, <3>2
  <2> QED BY <1>1, <1>5, <2>1, <2>2, <2>4
<1>9. AddsApart' BY <1>8 DEF AddsApart
<1>10. FilesInv' BY <1>1, <1>4, <1>5, <1>6, <1>7, <1>9 DEF ProjectInv, FilesInv, GoneIsEmpty
<1>11. ExportsInv' BY <1>1, <1>5, ExportsStay
<1>12. ProjectTyped' BY <1>1, <1>5, <1>6 DEF ProjectInv, ProjectTyped
<1> QED BY <1>10, <1>11, <1>12 DEF ProjectInv

LEMMA UnlinkKeeps == ASSUME ProjectInv, NEW o \in Requests, Project!Unlink(o) PROVE ProjectInv'
<1>1. /\ Project!Leave(o) /\ UNCHANGED <<row, export, live, unwritten, added, projectRestarts>>
      /\ op[o].pc = "unlink" /\ disk' = disk \ op[o].assets
  BY DEF Project!Unlink
<1>2. /\ op' \in [Requests -> OpOf] /\ InLine' /\ op'[o].pc = "over"
      /\ \A p \in Requests : op'[p].pc \notin {"write", "unlink"} /\ (p # o => op'[p] = op[p])
  BY <1>1, LeaveKeeps
<1>3. ReadIsTrue' /\ Unlisted' BY <1>2 DEF ReadIsTrue, Unlisted
<1>4. op[o].assets \subseteq Files /\ op[o].assets \cap row.assets = {} /\ Files \cap Outputs = {}
  BY <1>1, ProjectAssumption DEF ProjectInv, ProjectTyped, OpOf, FilesInv, Unlisted
<1>5. ASSUME NEW p \in Requests, Adding(p)', row'.exists
      PROVE  /\ op'[p].assets \subseteq disk' /\ op'[p].assets \cap row'.assets = {}
             /\ \A q \in Requests : q # p /\ (Adding(q)' \/ op'[q].pc = "unlink") => op'[p].assets \cap op'[q].assets = {}
  <2>1. p # o /\ Adding(p) /\ op'[p] = op[p] /\ row.exists BY <1>1, <1>2, <1>5 DEF Adding
  <2>2. /\ op[p].assets \subseteq disk /\ op[p].assets \cap row.assets = {} /\ op[p].assets \cap op[o].assets = {}
        /\ \A q \in Requests : q # p /\ Adding(q) => op[p].assets \cap op[q].assets = {}
    BY <1>1, <2>1 DEF ProjectInv, FilesInv, AddsApart
  <2>3. \A q \in Requests : Adding(q)' => q # o /\ Adding(q) /\ op'[q] = op[q] BY <1>2 DEF Adding
  <2> QED BY <1>1, <1>2, <2>1, <2>2, <2>3
<1>6. AddsApart' BY <1>5 DEF AddsApart
<1>7. FilesInv' BY <1>1, <1>2, <1>3, <1>4, <1>6 DEF ProjectInv, FilesInv, GoneIsEmpty
<1>8. ExportsInv' BY <1>1, <1>4, ExportsStay
<1>9. ProjectTyped' BY <1>1, <1>2 DEF ProjectInv, ProjectTyped
<1> QED BY <1>7, <1>8, <1>9 DEF ProjectInv

\* An export reads the row and goes on: only exports change.
LEMMA ReadForExportKeeps == ASSUME ProjectInv, NEW e \in Outputs, Project!ReadForExport(e) PROVE ProjectInv'
<1> DEFINE new == [pc |-> "start", prev |-> row.url, files |-> row.clips]
<1>1. /\ export[e].pc = "new" /\ export' = [export EXCEPT ![e] = new]
      /\ UNCHANGED <<row, disk, op, queue, live, unwritten, added, projectRestarts>>
  BY DEF Project!ReadForExport
<1>2. row \in RowOf /\ export \in [Outputs -> ExportOf] BY DEF ProjectInv, ProjectTyped
<1>3. new \in ExportOf /\ new.pc = "start" /\ new.prev = row.url BY <1>2 DEF ExportOf, RowOf
<1> HIDE DEF new
<1>4. export' \in [Outputs -> ExportOf] /\ export'[e] = new /\ \A f \in Outputs : f # e => export'[f] = export[f]
  BY <1>1, <1>2, <1>3
<1>5. row.url # None => export[row.url].pc = "over" /\ row.url # e /\ row.url \in Outputs
  BY <1>1, <1>2 DEF ProjectInv, ExportsInv, RowOf
<1>6. \A f \in Outputs : export[f].prev # None => export[export[f].prev].pc = "over" /\ export[f].prev # e /\ export[f].prev \in Outputs
  BY <1>1, <1>2 DEF ProjectInv, ExportsInv, ExportOf
<1>7. ExportsInv' BY <1>1, <1>3, <1>4, <1>5, <1>6 DEF ProjectInv, ExportsInv
<1>8. FilesInv' BY <1>1, FilesStay
<1>9. ProjectTyped' BY <1>1, <1>4 DEF ProjectInv, ProjectTyped
<1> QED BY <1>7, <1>8, <1>9 DEF ProjectInv

\* An export that has begun goes from one stage to the next; none of them is its first or its last.
LEMMA StageKeeps ==
  ASSUME ProjectInv, NEW e \in Outputs, NEW at \in {"mark", "encode", "encoded", "done", "failed", "over"},
         export' = [export EXCEPT ![e].pc = at], export[e].pc # "over"
  PROVE  /\ export' \in [Outputs -> ExportOf] /\ export'[e].pc = at /\ export'[e].prev = export[e].prev
         /\ \A f \in Outputs : f # e => export'[f] = export[f]
         /\ \A f \in Outputs : export'[f].prev = export[f].prev
         /\ \A f \in Outputs : export'[f].prev # None => export'[export'[f].prev].pc = "over" /\ export[f].prev # e
         /\ row.url # None => export'[row.url].pc = "over" /\ row.url # e /\ row.url \in Outputs
<1> DEFINE new == [export[e] EXCEPT !.pc = at]
<1>1. export' = [export EXCEPT ![e] = new] OBVIOUS
<1>2. export \in [Outputs -> ExportOf] /\ row \in RowOf BY DEF ProjectInv, ProjectTyped
<1>3. new \in ExportOf /\ new.pc = at /\ new.prev = export[e].prev BY <1>2 DEF ExportOf
<1> HIDE DEF new
<1>4. export' \in [Outputs -> ExportOf] /\ export'[e] = new /\ \A f \in Outputs : f # e => export'[f] = export[f]
  BY <1>1, <1>2, <1>3
<1>5. row.url # None => export[row.url].pc = "over" /\ row.url # e /\ row.url \in Outputs
  BY <1>2 DEF ProjectInv, ExportsInv, RowOf
<1>6. \A f \in Outputs : export[f].prev # None => export[export[f].prev].pc = "over" /\ export[f].prev # e /\ export[f].prev \in Outputs
  BY <1>2 DEF ProjectInv, ExportsInv, ExportOf
<1> QED BY <1>3, <1>4, <1>5, <1>6

LEMMA ShowKeeps == ASSUME ProjectInv, NEW e \in Outputs, Project!Show(e) PROVE ProjectInv'
<1>1. /\ export[e].pc = "start" /\ live' = e /\ export' = [export EXCEPT ![e].pc = "mark"]
      /\ UNCHANGED <<row, disk, op, queue, unwritten, added, projectRestarts>>
  BY DEF Project!Show
<1>2. /\ export' \in [Outputs -> ExportOf] /\ export'[e].pc = "mark"
      /\ \A f \in Outputs : f # e => export'[f] = export[f]
      /\ \A f \in Outputs : export'[f].prev # None => export'[export'[f].prev].pc = "over"
      /\ row.url # None => export'[row.url].pc = "over" /\ row.url # e
  BY <1>1, StageKeeps
<1>3. ExportsInv' BY <1>1, <1>2 DEF ProjectInv, ExportsInv
<1>4. FilesInv' BY <1>1, FilesStay
<1>5. ProjectTyped' BY <1>1, <1>2 DEF ProjectInv, ProjectTyped
<1> QED BY <1>3, <1>4, <1>5 DEF ProjectInv

LEMMA CannotMarkKeeps == ASSUME ProjectInv, NEW e \in Outputs, Project!CannotMark(e) PROVE ProjectInv'
<1>1. /\ export[e].pc = "mark" /\ export' = [export EXCEPT ![e].pc = "over"] /\ unwritten' = TRUE
      /\ UNCHANGED <<row, disk, op, queue, live, added, projectRestarts>>
  BY DEF Project!CannotMark
<1>2. /\ export' \in [Outputs -> ExportOf] /\ export'[e].pc = "over"
      /\ \A f \in Outputs : f # e => export'[f] = export[f]
      /\ \A f \in Outputs : export'[f].prev # None => export'[export'[f].prev].pc = "over"
      /\ row.url # None => export'[row.url].pc = "over" /\ row.url # e
  BY <1>1, StageKeeps
<1>3. ExportsInv' BY <1>1, <1>2 DEF ProjectInv, ExportsInv
<1>4. FilesInv' BY <1>1, FilesStay
<1>5. ProjectTyped' BY <1>1, <1>2 DEF ProjectInv, ProjectTyped
<1> QED BY <1>3, <1>4, <1>5 DEF ProjectInv

LEMMA MarkKeeps == ASSUME ProjectInv, NEW e \in Outputs, Project!Mark(e) PROVE ProjectInv'
<1>1. /\ export[e].pc = "mark" /\ row.exists /\ export' = [export EXCEPT ![e].pc = "encode"]
      /\ row' = [row EXCEPT !.status = "running", !.url = None]
      /\ UNCHANGED <<disk, op, queue, live, unwritten, added, projectRestarts>>
  BY DEF Project!Mark
<1>2. /\ export' \in [Outputs -> ExportOf] /\ export'[e].pc = "encode"
      /\ \A f \in Outputs : f # e => export'[f] = export[f]
      /\ \A f \in Outputs : export'[f].prev # None => export'[export'[f].prev].pc = "over"
  BY <1>1, StageKeeps
<1>3. row \in RowOf BY DEF ProjectInv, ProjectTyped
<1>4. /\ row' \in RowOf /\ row'.url = None /\ row'.status = "running" /\ row'.exists = row.exists
      /\ row'.assets = row.assets /\ row'.clips = row.clips
  BY <1>1, <1>3 DEF RowOf
<1>5. ExportsInv'
  <2>1. \A f \in Outputs : export'[f].prev = None \/ row'.url # export'[f].prev BY <1>4
  <2> QED BY <1>1, <1>2, <1>4, <2>1 DEF ProjectInv, ExportsInv
<1>6. FilesInv' BY <1>1, <1>4, FilesStay
<1>7. ProjectTyped' BY <1>1, <1>2, <1>4 DEF ProjectInv, ProjectTyped
<1> QED BY <1>5, <1>6, <1>7 DEF ProjectInv

\* ffmpeg writes the file, or gives up with or without it.
LEMMA EncodeKeeps ==
  ASSUME ProjectInv, NEW e \in Outputs, Project!Encoded(e) \/ Project!EncodeFails(e)
  PROVE  ProjectInv'
<1>1. PICK at \in {"encoded", "failed"} :
        /\ export[e].pc = "encode" /\ export' = [export EXCEPT ![e].pc = at]
        /\ disk' \in {disk, disk \cup {e}} /\ (at = "encoded" => disk' = disk \cup {e})
        /\ UNCHANGED <<row, op, queue, live, unwritten, added, projectRestarts>>
  BY DEF Project!Encoded, Project!EncodeFails
<1>2. /\ export' \in [Outputs -> ExportOf] /\ export'[e].pc = at /\ export'[e].prev = export[e].prev
      /\ \A f \in Outputs : f # e => export'[f] = export[f]
      /\ \A f \in Outputs : export'[f].prev # None => export'[export'[f].prev].pc = "over"
      /\ row.url # None => export'[row.url].pc = "over" /\ row.url # e
  BY <1>1, StageKeeps
<1>3. ExportsInv' BY <1>1, <1>2 DEF ProjectInv, ExportsInv
<1>4. FilesInv' BY <1>1, FilesStay
<1>5. ProjectTyped' BY <1>1, <1>2 DEF ProjectInv, ProjectTyped
<1> QED BY <1>3, <1>4, <1>5 DEF ProjectInv

\* The older export goes: it is not the one that is offered, nor one that still runs.
LEMMA DropPreviousKeeps == ASSUME ProjectInv, NEW e \in Outputs, Project!DropPrevious(e) PROVE ProjectInv'
<1>1. /\ export[e].pc = "encoded" /\ export' = [export EXCEPT ![e].pc = "done"]
      /\ disk' = disk \ {export[e].prev}
      /\ UNCHANGED <<row, op, queue, live, unwritten, added, projectRestarts>>
  BY DEF Project!DropPrevious
<1>2. /\ export' \in [Outputs -> ExportOf] /\ export'[e].pc = "done"
      /\ \A f \in Outputs : f # e => export'[f] = export[f]
      /\ \A f \in Outputs : export'[f].prev = export[f].prev
      /\ \A f \in Outputs : export'[f].prev # None => export'[export'[f].prev].pc = "over"
      /\ row.url # None => export'[row.url].pc = "over" /\ row.url # e
  BY <1>1, StageKeeps
<1>3. export[e].prev \in Outputs \cup {None} /\ None \notin Files \cup Outputs /\ Files \cap Outputs = {}
  BY ProjectAssumption DEF ProjectInv, ProjectTyped, ExportOf
<1>4. ASSUME NEW f \in Outputs, export'[f].pc \in {"encoded", "done"}, row.exists PROVE f \in disk'
  <2>1. export[f].pc \in {"encoded", "done"} BY <1>1, <1>2, <1>4
  <2>2. f \in disk BY <1>4, <2>1 DEF ProjectInv, ExportsInv
  <2>3. f # export[e].prev BY <1>3, <2>1 DEF ProjectInv, ExportsInv
  <2> QED BY <1>1, <2>2, <2>3
<1>5. row.exists /\ row.status = "done" => row.url # None /\ row.url \in disk'
  BY <1>1, <1>3 DEF ProjectInv, ExportsInv
<1>6. \A f \in Outputs : export'[f].pc \in {"encode", "encoded", "done", "failed"} => export'[f].prev = None \/ row.url # export'[f].prev
  BY <1>1, <1>2 DEF ProjectInv, ExportsInv
<1>7. ExportsInv' BY <1>1, <1>2, <1>4, <1>5, <1>6 DEF ProjectInv, ExportsInv
<1>8. disk \cap Files \subseteq disk' BY <1>1, <1>3
<1>9. FilesInv' BY <1>1, <1>8, FilesStay
<1>10. ProjectTyped' BY <1>1, <1>2 DEF ProjectInv, ProjectTyped
<1> QED BY <1>7, <1>9, <1>10 DEF ProjectInv

LEMMA SettleKeeps == ASSUME ProjectInv, NEW e \in Outputs, Project!Settle(e) PROVE ProjectInv'
<1> DEFINE ended == [Project!Export0 EXCEPT !.pc = "over"]
           newRow == [row EXCEPT !.status = export[e].pc, !.url = IF export[e].pc = "done" THEN e ELSE None]
<1>1. /\ export[e].pc \in {"done", "failed"} /\ export' = [export EXCEPT ![e] = ended]
      /\ (row.exists /\ row' = newRow) \/ row' = row
      /\ live' = None /\ unwritten' \in BOOLEAN
      /\ UNCHANGED <<disk, op, queue, added, projectRestarts>>
  BY DEF Project!Settle, Project!Ended
<1>2. row \in RowOf /\ export \in [Outputs -> ExportOf] BY DEF ProjectInv, ProjectTyped
<1>3. ended \in ExportOf /\ ended.pc = "over" /\ ended.prev = None BY DEF ExportOf, Project!Export0
<1>4. /\ newRow \in RowOf /\ newRow.exists = row.exists /\ newRow.assets = row.assets /\ newRow.clips = row.clips
      /\ newRow.status = export[e].pc /\ newRow.url = (IF export[e].pc = "done" THEN e ELSE None)
  BY <1>1, <1>2 DEF RowOf
<1> HIDE DEF ended, newRow
<1>5. export' \in [Outputs -> ExportOf] /\ export'[e] = ended /\ \A f \in Outputs : f # e => export'[f] = export[f]
  BY <1>1, <1>2, <1>3
<1>6. /\ row' \in RowOf /\ row'.exists = row.exists /\ row'.assets = row.assets /\ row'.clips = row.clips
      /\ (row'.status = "deleting" => row.status = "deleting")
  BY <1>1, <1>2, <1>4
<1>7. \A f \in Outputs : export[f].prev # None => export[export[f].prev].pc = "over" /\ export[f].prev # e /\ export[f].prev \in Outputs
  BY <1>1, <1>2 DEF ProjectInv, ExportsInv, ExportOf
<1>8. \A f \in Outputs : export'[f].prev # None => export'[export'[f].prev].pc = "over" BY <1>3, <1>5, <1>7
<1>9. row.url # None => export[row.url].pc = "over" /\ row.url # e /\ row.url \in Outputs
  BY <1>1, <1>2 DEF ProjectInv, ExportsInv, RowOf
<1>10. row'.url # None => export'[row'.url].pc = "over" BY <1>1, <1>3, <1>4, <1>5, <1>9
<1>11. ASSUME NEW f \in Outputs, export'[f].pc \in {"encode", "encoded", "done", "failed"}
       PROVE  export'[f].prev = None \/ row'.url # export'[f].prev
  <2>1. f # e /\ export'[f] = export[f] BY <1>3, <1>5, <1>11
  <2>2. export[f].prev = None \/ (row.url # export[f].prev /\ e # export[f].prev)
    BY <1>7, <1>11, <2>1 DEF ProjectInv, ExportsInv
  <2> QED BY <1>1, <1>4, <2>1, <2>2
<1>12. \A f \in Outputs : export'[f].pc \in {"encoded", "done"} /\ row'.exists => f \in disk'
  BY <1>1, <1>3, <1>5, <1>6 DEF ProjectInv, ExportsInv
<1>13. row'.exists /\ row'.status = "done" => row'.url # None /\ row'.url \in disk'
  BY <1>1, <1>4, <1>6, ProjectAssumption DEF ProjectInv, ExportsInv
<1>14. ExportsInv' BY <1>8, <1>10, <1>11, <1>12, <1>13 DEF ExportsInv
<1>15. FilesInv' BY <1>1, <1>6, FilesStay
<1>16. ProjectTyped' BY <1>1, <1>5, <1>6 DEF ProjectInv, ProjectTyped
<1> QED BY <1>14, <1>15, <1>16 DEF ProjectInv

LEMMA DeleteKeeps == ASSUME ProjectInv, Project!Delete \/ Project!RemoveDir PROVE ProjectInv'
<1>1. row \in RowOf /\ export \in [Outputs -> ExportOf] BY DEF ProjectInv, ProjectTyped
<1>2. CASE Project!Delete
  <2> DEFINE new == [Project!Row0 EXCEPT !.exists = FALSE, !.status = "deleting"]
  <2>1. row' = new /\ added' = {} /\ UNCHANGED <<disk, op, queue, export, live, unwritten, projectRestarts>>
    BY <1>2 DEF Project!Delete
  <2>2. new \in RowOf /\ ~new.exists /\ new.assets = {} /\ new.clips = {} /\ new.url = None BY DEF RowOf, Project!Row0
  <2> HIDE DEF new
  <2>3. ExportsInv' BY <2>1, <2>2 DEF ProjectInv, ExportsInv
  <2>4. InLine' /\ ReadIsTrue' /\ Unlisted' /\ GoneIsEmpty' /\ AddsApart'
    BY <2>1, <2>2 DEF ProjectInv, FilesInv, InLine, ReadIsTrue, AddsApart, Unlisted, GoneIsEmpty
  <2>5. FilesInv' BY <2>1, <2>2, <2>4 DEF FilesInv
  <2>6. ProjectTyped' BY <2>1, <2>2 DEF ProjectInv, ProjectTyped
  <2> QED BY <2>3, <2>5, <2>6 DEF ProjectInv
<1>3. CASE Project!RemoveDir
  <2>1. /\ row.status = "deleting" /\ row' = [row EXCEPT !.status = "idle"] /\ disk' = {} /\ live' = None
        /\ UNCHANGED <<op, queue, export, unwritten, added, projectRestarts>>
    BY <1>3 DEF Project!RemoveDir
  <2>2. ~row.exists /\ row.assets = {} /\ row.clips = {} /\ added = {} BY <2>1 DEF ProjectInv, FilesInv, GoneIsEmpty
  <2>3. /\ row' \in RowOf /\ ~row'.exists /\ row'.assets = {} /\ row'.clips = {} /\ row'.url = row.url /\ row'.status = "idle"
    BY <1>1, <2>1, <2>2 DEF RowOf
  <2>4. ExportsInv' BY <2>1, <2>3 DEF ProjectInv, ExportsInv
  <2>5. InLine' /\ ReadIsTrue' /\ Unlisted' /\ GoneIsEmpty' /\ AddsApart'
    BY <2>1, <2>2, <2>3 DEF ProjectInv, FilesInv, InLine, ReadIsTrue, AddsApart, Unlisted, GoneIsEmpty
  <2>6. FilesInv' BY <2>1, <2>2, <2>3, <2>5 DEF FilesInv
  <2>7. ProjectTyped' BY <2>1, <2>3 DEF ProjectInv, ProjectTyped
  <2> QED BY <2>4, <2>6, <2>7 DEF ProjectInv
<1> QED BY <1>2, <1>3

\* The process starts again: the line is empty, and every request and export that was under way has ended.
LEMMA ProjectRestartKeeps == ASSUME ProjectInv, Project!Restart PROVE ProjectInv'
<1> DEFINE gone == [Project!Idle EXCEPT !.pc = "over"]
           ended == [Project!Export0 EXCEPT !.pc = "over"]
<1>1. /\ projectRestarts < MaxDown /\ projectRestarts' = projectRestarts + 1 /\ queue' = <<>> /\ live' = None
      /\ op' = [o \in Requests |-> IF op[o].pc = "new" THEN Project!Idle ELSE gone]
      /\ export' = [e \in Outputs |-> IF export[e].pc = "new" THEN Project!Export0 ELSE ended]
      /\ (row.status = "running" /\ row' = [row EXCEPT !.status = "failed"]) \/ row' = row
      /\ unwritten' \in BOOLEAN /\ UNCHANGED <<disk, added>>
  BY DEF Project!Restart
<1>2. row \in RowOf /\ export \in [Outputs -> ExportOf] /\ op \in [Requests -> OpOf] BY DEF ProjectInv, ProjectTyped
<1>3. ended \in ExportOf /\ ended.pc = "over" /\ ended.prev = None BY DEF ExportOf, Project!Export0
<1>4. gone \in OpOf /\ gone.pc = "over" /\ Project!Idle \in OpOf /\ Project!Idle.pc = "new" BY DEF OpOf, Project!Idle
<1>5. Project!Export0 \in ExportOf /\ Project!Export0.pc = "new" /\ Project!Export0.prev = None
  BY DEF ExportOf, Project!Export0
<1> HIDE DEF ended, gone
<1>6. op' \in [Requests -> OpOf] /\ \A o \in Requests : op'[o].pc \in {"new", "over"} BY <1>1, <1>4
<1>7. /\ export' \in [Outputs -> ExportOf] /\ \A e \in Outputs : export'[e].pc \in {"new", "over"} /\ export'[e].prev = None
      /\ \A e \in Outputs : export[e].pc = "over" => export'[e].pc = "over"
  BY <1>1, <1>3, <1>5
<1>8. /\ row' \in RowOf /\ row'.exists = row.exists /\ row'.assets = row.assets /\ row'.clips = row.clips
      /\ row'.url = row.url /\ (row'.status \in {"deleting", "done"} => row'.status = row.status)
  BY <1>1, <1>2 DEF RowOf
<1>9. row.url # None => row.url \in Outputs BY <1>2 DEF RowOf
<1>10. ExportsInv' BY <1>1, <1>7, <1>8, <1>9 DEF ProjectInv, ExportsInv
<1>11. InLine'
  <2>1. queue' \in Seq(Requests) /\ Len(queue') = 0 BY <1>1
  <2> QED BY <1>6, <2>1 DEF InLine
<1>12. ReadIsTrue' /\ Unlisted' /\ AddsApart' BY <1>6 DEF ReadIsTrue, Unlisted, AddsApart, Adding
<1>13. FilesInv' BY <1>1, <1>8, <1>11, <1>12 DEF ProjectInv, FilesInv, GoneIsEmpty
<1>14. projectRestarts' \in 0 .. MaxDown BY <1>1, VoicingAssumption DEF ProjectInv, ProjectTyped
<1>15. ProjectTyped' BY <1>1, <1>6, <1>7, <1>8, <1>14 DEF ProjectInv, ProjectTyped
<1> QED BY <1>10, <1>13, <1>15 DEF ProjectInv

LEMMA ProjectInvariant == Project!Spec => []ProjectInv
<1>1. ASSUME ProjectInv, [Project!Next]_(Project!vars) PROVE ProjectInv'
  <2>1. CASE UNCHANGED Project!vars
    <3>1. UNCHANGED <<row, disk, op, queue, export, live, unwritten, added, projectRestarts>> BY <2>1 DEF Project!vars
    <3>2. ExportsInv' BY <1>1, <3>1, ExportsStay
    <3>3. FilesInv' BY <1>1, <3>1, FilesStay
    <3>4. ProjectTyped' BY <1>1, <3>1 DEF ProjectInv, ProjectTyped
    <3> QED BY <3>2, <3>3, <3>4 DEF ProjectInv
  <2>2. ASSUME NEW o \in Requests, Project!Request(o) \/ Project!Queued(o) PROVE ProjectInv'
    BY <1>1, <2>2, SendKeeps, ReadKeeps, RefuseKeeps, WriteTracksKeeps, AddAssetKeeps, DropAssetKeeps, UnlinkKeeps
    DEF Project!Queued
  <2>3. ASSUME NEW e \in Outputs, Project!ReadForExport(e) \/ Project!Exporting(e) PROVE ProjectInv'
    BY <1>1, <2>3, ReadForExportKeeps, ShowKeeps, MarkKeeps, CannotMarkKeeps, EncodeKeeps, DropPreviousKeeps, SettleKeeps
    DEF Project!Exporting
  <2> QED BY <1>1, <2>1, <2>2, <2>3, DeleteKeeps, ProjectRestartKeeps DEF Project!Next
<1>2. Project!Init => ProjectInv BY InitProjectInv
<1> QED BY <1>1, <1>2, PTL DEF Project!Spec

LEMMA ProjectInvIsEnough ==
  ProjectInv => Project!TypeOK /\ Project!NoUploadLost /\ Project!ClipsHaveAssets /\ Project!AssetsOnDisk /\ Project!ExportOnDisk
<1> SUFFICES ASSUME ProjectInv
    PROVE  Project!TypeOK /\ Project!NoUploadLost /\ Project!ClipsHaveAssets /\ Project!AssetsOnDisk /\ Project!ExportOnDisk
  OBVIOUS
<1>1. Project!Range(queue) \subseteq Requests
  <2>1. queue \in Seq(Requests) BY DEF ProjectInv, FilesInv, InLine
  <2> QED BY <2>1 DEF Project!Range
<1>2. Project!IsInjective(queue)
  <2>1. queue \in Seq(Requests) /\ DOMAIN queue = 1 .. Len(queue) BY DEF ProjectInv, FilesInv, InLine
  <2> QED BY <2>1 DEF ProjectInv, FilesInv, InLine, Project!IsInjective
<1>3. Project!TypeOK BY <1>1, <1>2 DEF Project!TypeOK, ProjectInv, ProjectTyped, RowOf, OpOf, ExportOf
<1> QED BY <1>3 DEF ProjectInv, FilesInv, ExportsInv, Project!NoUploadLost, Project!ClipsHaveAssets, Project!AssetsOnDisk, Project!ExportOnDisk

-----------------------------------------------------------------------------
(* The video editor's page (EditorPage) *)

FlightOf == [n : 0 .. MaxSaves, doc : SUBSET Changes, at : {"request", "saved", "failed"}]
DragOf == [edit : Changes, before : SUBSET Changes, moved : BOOLEAN]
RenderOf == [api : {"idle", "running", "stuck"}, page : {"idle", "running"},
             poll : BOOLEAN, go : 0 .. MaxSaves + 1, count : 0 .. MaxExports, missed : BOOLEAN]
\* What the page shows, and what it may bring back, is made of the edits that were made.
ScreenTyped ==
  /\ made \subseteq Changes /\ doc \subseteq made /\ past \in Seq(SUBSET made) /\ future \in Seq(SUBSET made)
  /\ drag = None \/ (drag \in DragOf /\ drag.edit \in made /\ drag.before \subseteq made)
  /\ deskHeard = None \/ deskHeard \subseteq made
SavesTyped ==
  /\ open \in BOOLEAN /\ dirty \in BOOLEAN /\ timer \in BOOLEAN /\ trouble \in BOOLEAN /\ loose \in BOOLEAN
  /\ label \in {"saved", "unsaved", "saving", "error"} /\ deskSent \in 0 .. MaxSaves
  /\ stored \subseteq made /\ flight \subseteq FlightOf /\ \A f \in flight : f.doc \subseteq made
\* Saves are numbered, and none is lost without trouble.
Numbered == /\ \A f \in flight : f.n < deskSent /\ (f.at = "failed" => trouble)
            /\ \A f, g \in flight : f.n = g.n => f = g
\* With no save pending the latest that is under way has what the screen shows, and the API
\* has it when none is, but for what a drag did since the last change was committed.
Asks(f) == f \in flight /\ f.at = "request"
Latest(f) == Asks(f) /\ \A g \in flight : Asks(g) => g.n <= f.n
NothingPending == open /\ ~timer /\ ~trouble /\ ~loose
UpToDate ==
  NothingPending =>
    /\ \A f \in flight : Latest(f) => f.doc = doc
    /\ (\A f \in flight : ~Asks(f)) => stored = doc
DeskInv == ScreenTyped /\ SavesTyped /\ render \in RenderOf /\ Numbered /\ UpToDate

LEMMA MoreWereMade ==
  ASSUME NEW A, NEW B, A \subseteq B, NEW s \in Seq(SUBSET A)
  PROVE  s \in Seq(SUBSET B)
<1>1. s \in [1 .. Len(s) -> SUBSET A] /\ Len(s) \in Nat OBVIOUS
<1>2. s \in [1 .. Len(s) -> SUBSET B] BY <1>1
<1> QED BY <1>1, <1>2

LEMMA PageBounds == MaxSaves \in Nat /\ MaxExports \in Nat /\ 0 \in 0 .. MaxSaves /\ 0 \in 0 .. MaxSaves + 1 /\ 0 \in 0 .. MaxExports
<1>1. MaxSaves \in Nat /\ MaxExports \in Nat BY PageAssumption
<1> QED BY <1>1

LEMMA InitDeskInv == Desk!Init => DeskInv
<1> SUFFICES ASSUME Desk!Init PROVE DeskInv OBVIOUS
<1> USE DEF Desk!Init
<1>1. ScreenTyped BY DEF ScreenTyped
<1>2. SavesTyped BY PageBounds DEF SavesTyped
<1>3. render \in RenderOf BY PageBounds DEF RenderOf
<1>4. Numbered /\ UpToDate BY DEF Numbered, UpToDate
<1> QED BY <1>1, <1>2, <1>3, <1>4 DEF DeskInv

\* An edit that is committed, and one that comes or goes with undo and redo, makes the page save.
LEMMA ArmsKeep ==
  ASSUME DeskInv, ScreenTyped', Desk!Arm, Desk!Unsent, made \subseteq made'
  PROVE  DeskInv'
<1>1. /\ dirty' = TRUE /\ timer' = TRUE /\ label' = "unsaved" /\ loose' = FALSE
      /\ UNCHANGED <<open, flight, stored, deskSent, trouble, render>>
  BY DEF Desk!Arm, Desk!Unsent
<1>2. SavesTyped' BY <1>1 DEF DeskInv, SavesTyped
<1>3. Numbered' BY <1>1 DEF DeskInv, Numbered
<1>4. UpToDate' BY <1>1 DEF UpToDate, NothingPending
<1> QED BY <1>1, <1>2, <1>3, <1>4 DEF DeskInv

LEMMA EditsKeep ==
  ASSUME DeskInv, NEW e \in Changes, Desk!Change(e) \/ Desk!Hear(e)
  PROVE  DeskInv'
<1>1. PICK next \in {doc \cup {e}, deskHeard \cup {e}} :
        /\ doc' = next /\ past' = Append(past, doc) /\ future' = <<>> /\ made' = made \cup {e} /\ drag' = drag
        /\ Desk!Arm /\ Desk!Unsent
        /\ (next = deskHeard \cup {e} /\ deskHeard # None /\ deskHeard' = None) \/ (next = doc \cup {e} /\ deskHeard' = deskHeard)
  BY DEF Desk!Change, Desk!Hear, Desk!Commit
<1>2. /\ made \subseteq Changes /\ doc \subseteq made /\ past \in Seq(SUBSET made) /\ made \subseteq made'
      /\ deskHeard = None \/ deskHeard \subseteq made
      /\ drag = None \/ (drag \in DragOf /\ drag.edit \in made /\ drag.before \subseteq made)
  BY <1>1 DEF DeskInv, ScreenTyped
<1>3. past' \in Seq(SUBSET made')
  <2>1. past' \in Seq(SUBSET made) BY <1>1, <1>2
  <2> QED BY <1>2, <2>1, MoreWereMade
<1>4. future' \in Seq(SUBSET made') BY <1>1
<1>5. doc' \subseteq made' BY <1>1, <1>2
<1>6. ScreenTyped' BY <1>1, <1>2, <1>3, <1>4, <1>5 DEF ScreenTyped
<1> QED BY <1>1, <1>2, <1>6, ArmsKeep

LEMMA UndoKeeps == ASSUME DeskInv, Desk!Undo \/ Desk!Redo PROVE DeskInv'
<1>1. /\ made \subseteq Changes /\ doc \subseteq made /\ past \in Seq(SUBSET made) /\ future \in Seq(SUBSET made)
      /\ drag = None \/ (drag \in DragOf /\ drag.edit \in made /\ drag.before \subseteq made)
      /\ deskHeard = None \/ deskHeard \subseteq made
  BY DEF DeskInv, ScreenTyped
<1>2. ASSUME NEW s \in Seq(SUBSET made), s # <<>> PROVE Desk!Last(s) \in SUBSET made /\ Desk!Front(s) \in Seq(SUBSET made)
  <2>1. Len(s) \in Nat /\ Len(s) >= 1 BY <1>2
  <2>2. Desk!Last(s) \in SUBSET made BY <2>1 DEF Desk!Last
  <2>3. Desk!Front(s) \in Seq(SUBSET made) BY <2>1 DEF Desk!Front
  <2> QED BY <2>2, <2>3
<1>3. /\ doc' \in SUBSET made /\ past' \in Seq(SUBSET made) /\ future' \in Seq(SUBSET made)
      /\ Desk!Arm /\ Desk!Unsent /\ UNCHANGED <<drag, deskHeard, made>>
  <2>1. CASE Desk!Undo BY <1>1, <1>2, <2>1 DEF Desk!Undo
  <2>2. CASE Desk!Redo BY <1>1, <1>2, <2>2 DEF Desk!Redo
  <2> QED BY <2>1, <2>2
<1>4. ScreenTyped' BY <1>1, <1>3 DEF ScreenTyped
<1> QED BY <1>3, <1>4, ArmsKeep

LEMMA DragKeeps == 
  ASSUME DeskInv, (\E e \in Changes : Desk!BeginDrag(e)) \/ Desk!DragMove \/ Desk!DragEnd
  PROVE  DeskInv'
<1>1. /\ made \subseteq Changes /\ doc \subseteq made /\ past \in Seq(SUBSET made) /\ future \in Seq(SUBSET made)
      /\ drag = None \/ (drag \in DragOf /\ drag.edit \in made /\ drag.before \subseteq made)
      /\ deskHeard = None \/ deskHeard \subseteq made
  BY DEF DeskInv, ScreenTyped
<1>2. ASSUME NEW e \in Changes, Desk!BeginDrag(e) PROVE DeskInv'
  <2> DEFINE new == [edit |-> e, before |-> doc, moved |-> FALSE]
  <2>1. /\ open /\ drag' = new /\ made' = made \cup {e}
        /\ UNCHANGED <<doc, past, future, loose, deskHeard, open, dirty, timer, label, flight, stored, deskSent, trouble, render>>
    BY <1>2 DEF Desk!BeginDrag, Desk!autosave
  <2>2. new \in DragOf /\ new.edit = e /\ new.before = doc BY <1>1 DEF DragOf
  <2> HIDE DEF new
  <2>3. past' \in Seq(SUBSET made') /\ future' \in Seq(SUBSET made') BY <1>1, <2>1, MoreWereMade
  <2>4. ScreenTyped' BY <1>1, <2>1, <2>2, <2>3 DEF ScreenTyped
  <2>5. SavesTyped' BY <2>1 DEF DeskInv, SavesTyped
  <2>6. Numbered' /\ render' \in RenderOf BY <2>1 DEF DeskInv, Numbered
  <2>7. UpToDate' BY <2>1 DEF DeskInv, UpToDate, NothingPending, Latest, Asks
  <2> QED BY <2>4, <2>5, <2>6, <2>7 DEF DeskInv
<1>3. CASE Desk!DragMove
  <2> DEFINE new == [drag EXCEPT !.moved = TRUE]
  <2>1. /\ open /\ drag # None /\ doc' = drag.before \cup {drag.edit} /\ drag' = new
        /\ timer' = dirty /\ label' = (IF dirty THEN "unsaved" ELSE label) /\ loose' = TRUE
        /\ UNCHANGED <<past, future, deskHeard, made, dirty, open, flight, stored, deskSent, trouble, render>>
    BY <1>3 DEF Desk!DragMove, Desk!Unsent
  <2>2. new \in DragOf /\ new.edit = drag.edit /\ new.before = drag.before BY <1>1, <2>1 DEF DragOf
  <2> HIDE DEF new
  <2>4. ScreenTyped' BY <1>1, <2>1, <2>2 DEF ScreenTyped
  <2>5. SavesTyped' BY <2>1 DEF DeskInv, SavesTyped
  <2>6. Numbered' /\ render' \in RenderOf BY <2>1 DEF DeskInv, Numbered
  <2>7. UpToDate' BY <2>1 DEF UpToDate, NothingPending
  <2> QED BY <2>4, <2>5, <2>6, <2>7 DEF DeskInv
<1>4. CASE Desk!DragEnd
  <2>1. CASE drag.moved
    <3>1. /\ drag # None /\ drag' = None /\ doc' = doc /\ past' = Append(past, drag.before) /\ future' = <<>> /\ Desk!Arm /\ Desk!Unsent
          /\ UNCHANGED <<deskHeard, made>>
      BY <1>4, <2>1 DEF Desk!DragEnd, Desk!Commit
    <3>2. past' \in Seq(SUBSET made) BY <1>1, <3>1
    <3>3. ScreenTyped' BY <1>1, <3>1, <3>2 DEF ScreenTyped
    <3> QED BY <3>1, <3>3, ArmsKeep
  <2>2. CASE ~drag.moved
    <3>1. /\ drag' = None
          /\ UNCHANGED <<doc, past, future, loose, deskHeard, made, open, dirty, timer, label, flight, stored, deskSent, trouble, render>>
      BY <1>4, <2>2 DEF Desk!DragEnd, Desk!autosave
    <3>2. ScreenTyped' /\ SavesTyped' BY <1>1, <3>1 DEF ScreenTyped, DeskInv, SavesTyped
    <3>3. Numbered' /\ render' \in RenderOf BY <3>1 DEF DeskInv, Numbered
    <3>4. UpToDate' BY <3>1 DEF DeskInv, UpToDate, NothingPending, Latest, Asks
    <3> QED BY <3>2, <3>3, <3>4 DEF DeskInv
  <2> QED BY <2>1, <2>2
<1> QED BY <1>2, <1>3, <1>4

LEMMA ListeningKeeps == ASSUME DeskInv, Desk!Listen \/ Desk!HearNothing PROVE DeskInv'
<1>1. /\ deskHeard' \in {doc, None}
      /\ UNCHANGED <<doc, past, future, drag, loose, made, open, dirty, timer, label, flight, stored, deskSent, trouble, render>>
  BY DEF Desk!Listen, Desk!HearNothing, Desk!autosave
<1>2. ScreenTyped' /\ SavesTyped' BY <1>1 DEF ScreenTyped, DeskInv, SavesTyped
<1>3. Numbered' /\ render' \in RenderOf BY <1>1 DEF DeskInv, Numbered
<1>4. UpToDate' BY <1>1 DEF DeskInv, UpToDate, NothingPending, Latest, Asks
<1> QED BY <1>2, <1>3, <1>4 DEF DeskInv

\* A save that goes out is the latest, with what the screen shows.
LEMMA SendsKeep == ASSUME DeskInv, Desk!Save \/ Desk!Go PROVE DeskInv'
<1> DEFINE new == [n |-> deskSent, doc |-> doc, at |-> "request"]
<1>1. /\ deskSent < MaxSaves /\ flight' = flight \cup {new} /\ deskSent' = deskSent + 1
      /\ timer' \in BOOLEAN /\ label' \in {label, "saving"} /\ render' \in RenderOf
      /\ UNCHANGED <<doc, past, future, drag, loose, deskHeard, made, open, dirty, stored, trouble>>
  <2>1. CASE Desk!Save BY <2>1 DEF Desk!Save, Desk!Send, Desk!page, DeskInv
  <2>2. CASE Desk!Go
    <3>1. render \in RenderOf /\ render.count < MaxExports /\ deskSent < MaxSaves /\ deskSent \in 0 .. MaxSaves /\ timer \in BOOLEAN
      BY <2>2 DEF Desk!Go, DeskInv, SavesTyped
    <3>2. render' = [render EXCEPT !.go = deskSent + 1, !.count = @ + 1] BY <2>2 DEF Desk!Go
    <3>3. render.count + 1 \in 0 .. MaxExports /\ deskSent + 1 \in 0 .. MaxSaves + 1 BY <3>1, PageBounds DEF RenderOf
    <3>4. render' \in RenderOf BY <3>1, <3>2, <3>3 DEF RenderOf
    <3> QED BY <2>2, <3>1, <3>4 DEF Desk!Go, Desk!Send, Desk!page
  <2> QED BY <2>1, <2>2
<1>2. deskSent \in 0 .. MaxSaves /\ flight \subseteq FlightOf /\ doc \subseteq Changes /\ doc \subseteq made /\ MaxSaves \in Nat
  BY PageAssumption DEF DeskInv, SavesTyped, ScreenTyped
<1>3. new \in FlightOf /\ new.n = deskSent /\ new.doc = doc /\ new.at = "request" BY <1>2 DEF FlightOf
<1> HIDE DEF new
<1>4. \A f \in flight : f.n \in Nat /\ f.n < deskSent BY <1>2 DEF DeskInv, Numbered, FlightOf
<1>5. ScreenTyped' BY <1>1 DEF DeskInv, ScreenTyped
<1>6. SavesTyped'
  <2>1. deskSent' \in 0 .. MaxSaves BY <1>1, <1>2
  <2> QED BY <1>1, <1>2, <1>3, <2>1 DEF DeskInv, SavesTyped
<1>7. Numbered'
  <2>1. \A f \in flight' : f.n < deskSent' /\ (f.at = "failed" => trouble') BY <1>1, <1>2, <1>3, <1>4 DEF DeskInv, Numbered
  <2>2. \A f, g \in flight' : f.n = g.n => f = g BY <1>1, <1>2, <1>3, <1>4 DEF DeskInv, Numbered
  <2> QED BY <2>1, <2>2 DEF Numbered
<1>8. UpToDate'
  <2>1. ASSUME NEW f \in flight', Latest(f)' PROVE f.doc = doc'
    <3>1. new.n <= f.n BY <1>1, <1>3, <2>1 DEF Latest, Asks
    <3>2. f = new BY <1>1, <1>2, <1>3, <1>4, <3>1
    <3> QED BY <1>1, <1>3, <3>2
  <2>2. ~(\A f \in flight' : ~Asks(f)') BY <1>1, <1>3 DEF Asks
  <2> QED BY <2>1, <2>2 DEF UpToDate
<1> QED BY <1>1, <1>5, <1>6, <1>7, <1>8 DEF DeskInv

\* A save is written, or lost.  Without trouble it was the first of those under way.
LEMMA ArrivesKeep == ASSUME DeskInv, NEW f \in flight, Desk!Arrive(f) \/ Desk!Lose(f) PROVE DeskInv'
<1>1. PICK at \in {"saved", "failed"} :
        /\ f.at = "request" /\ flight' = (flight \ {f}) \cup {[f EXCEPT !.at = at]}
        /\ stored' \in {stored, f.doc} /\ trouble' \in BOOLEAN /\ (trouble => trouble') /\ (at = "failed" => trouble')
        /\ ~trouble' => stored' = f.doc /\ \A g \in flight : g.at = "request" => ~(g.n < f.n)
        /\ UNCHANGED <<doc, past, future, drag, loose, deskHeard, made, open, dirty, timer, label, deskSent, render>>
  <2>1. CASE Desk!Arrive(f)
    <3>1. PICK at \in {"saved", "failed"} :
            /\ Desk!Becomes(f, at)
            /\ trouble' = (trouble \/ at = "failed" \/ \E g \in flight : g.at = "request" /\ g.n < f.n)
      BY <2>1 DEF Desk!Arrive
    <3>2. f.at = "request" /\ stored' = f.doc /\ UNCHANGED <<doc, past, future, drag, loose, deskHeard, made, open, dirty, timer, label, deskSent, render>>
      BY <2>1 DEF Desk!Arrive, Desk!page
    <3>3. trouble' \in BOOLEAN BY <3>1
    <3> QED BY <3>1, <3>2, <3>3 DEF Desk!Becomes
  <2>2. CASE Desk!Lose(f) BY <2>2 DEF Desk!Lose, Desk!Becomes, Desk!page
  <2> QED BY <2>1, <2>2
<1> DEFINE new == [f EXCEPT !.at = at]
<1>2. f \in FlightOf /\ f.doc \subseteq made /\ f.n < deskSent /\ (f.at = "failed" => trouble) /\ flight \subseteq FlightOf /\ stored \subseteq made
  BY DEF DeskInv, SavesTyped, Numbered
<1>3. new \in FlightOf /\ new.n = f.n /\ new.doc = f.doc /\ new.at = at BY <1>2 DEF FlightOf
<1>4. flight' = (flight \ {f}) \cup {new} BY <1>1
<1> HIDE DEF new
<1>5. ScreenTyped' BY <1>1 DEF DeskInv, ScreenTyped
<1>6. SavesTyped' BY <1>1, <1>2, <1>3, <1>4 DEF DeskInv, SavesTyped
<1>7. Numbered'
  <2>1. \A g \in flight' : g.n < deskSent' /\ (g.at = "failed" => trouble') BY <1>1, <1>2, <1>3, <1>4 DEF DeskInv, Numbered
  <2>2. \A g, h \in flight' : g.n = h.n => g = h BY <1>3, <1>4 DEF DeskInv, Numbered
  <2> QED BY <2>1, <2>2 DEF Numbered
<1>8. UpToDate'
  <2> SUFFICES ASSUME NothingPending' PROVE UpToDate' BY DEF UpToDate
  <2>1. NothingPending /\ stored' = f.doc /\ \A g \in flight : Asks(g) => ~(g.n < f.n) BY <1>1 DEF NothingPending, Asks
  <2>2. \A g \in flight' : Asks(g)' => g \in flight /\ Asks(g) /\ g # f BY <1>1, <1>3, <1>4 DEF Asks
  <2>3. \A g \in flight : Asks(g) /\ g # f => g \in flight' /\ Asks(g)' BY <1>4 DEF Asks
  <2>4. \A g \in flight : g.n \in Nat BY <1>2 DEF FlightOf
  <2>5. Asks(f) BY <1>1 DEF Asks
  <2>6. ASSUME NEW g \in flight', Latest(g)' PROVE g.doc = doc'
    <3>1. g \in flight /\ Asks(g) /\ g # f BY <2>2, <2>6 DEF Latest
    <3>2. \A h \in flight : Asks(h) /\ h # f => h.n <= g.n BY <2>3, <2>6 DEF Latest
    <3>3. Latest(g) BY <2>1, <2>4, <2>5, <3>1, <3>2 DEF Latest
    <3> QED BY <1>1, <2>1, <3>1, <3>3 DEF DeskInv, UpToDate
  <2>7. ASSUME \A g \in flight' : ~Asks(g)' PROVE stored' = doc'
    <3>1. \A h \in flight : Asks(h) => h = f BY <2>3, <2>7
    <3>2. Latest(f) BY <2>4, <2>5, <3>1 DEF Latest
    <3> QED BY <1>1, <2>1, <3>2 DEF DeskInv, UpToDate
  <2> QED BY <2>6, <2>7 DEF UpToDate
<1> QED BY <1>1, <1>5, <1>6, <1>7, <1>8 DEF DeskInv

\* The page hears of a save: one that is under way no more.
LEMMA AnswersKeep == ASSUME DeskInv, NEW f \in flight, Desk!Answer(f) \/ Desk!Flushed(f) PROVE DeskInv'
<1>1. /\ f.at \in {"saved", "failed"} /\ flight' = flight \ {f}
      /\ label' \in {label, "saved", "error"} /\ dirty' \in BOOLEAN /\ render' \in RenderOf
      /\ UNCHANGED <<doc, past, future, drag, loose, deskHeard, made, open, timer, stored, deskSent, trouble>>
  <2>1. dirty \in BOOLEAN /\ render \in RenderOf BY DEF DeskInv, SavesTyped
  <2>2. CASE Desk!Answer(f) BY <2>1, <2>2 DEF Desk!Answer, Desk!page
  <2>3. CASE Desk!Flushed(f)
    <3>1. render' \in RenderOf
      <4>1. CASE \E api \in {"running", render.api} \ {"idle"} :
                   render' = [render EXCEPT !.go = 0, !.api = api, !.page = "running", !.poll = TRUE, !.missed = FALSE]
        <5>1. PICK api \in {"running", render.api} \ {"idle"} :
                render' = [render EXCEPT !.go = 0, !.api = api, !.page = "running", !.poll = TRUE, !.missed = FALSE]
          BY <4>1
        <5> QED BY <2>1, <5>1, PageBounds DEF RenderOf
      <4>2. CASE render' = [render EXCEPT !.go = 0, !.api = "stuck"] BY <2>1, <4>2, PageBounds DEF RenderOf
      <4>3. CASE render' = [render EXCEPT !.go = 0] BY <2>1, <4>3, PageBounds DEF RenderOf
      <4> QED BY <2>3, <4>1, <4>2, <4>3 DEF Desk!Flushed
    <3> QED BY <2>1, <2>3, <3>1 DEF Desk!Flushed, Desk!page
  <2> QED BY <2>2, <2>3
<1>2. ScreenTyped' BY <1>1 DEF DeskInv, ScreenTyped
<1>3. SavesTyped' BY <1>1 DEF DeskInv, SavesTyped
<1>4. Numbered' BY <1>1 DEF DeskInv, Numbered
<1>5. UpToDate'
  <2>1. NothingPending' => NothingPending BY <1>1 DEF NothingPending
  <2>2. \A g : Asks(g)' <=> Asks(g) BY <1>1 DEF Asks
  <2>3. \A g \in flight' : Latest(g)' => Latest(g) BY <1>1, <2>2 DEF Latest, Asks
  <2>4. (\A g \in flight' : ~Asks(g)') => \A g \in flight : ~Asks(g) BY <1>1, <2>2 DEF Asks
  <2> QED BY <1>1, <2>1, <2>3, <2>4 DEF DeskInv, UpToDate
<1> QED BY <1>1, <1>2, <1>3, <1>4, <1>5 DEF DeskInv

LEMMA LeavingKeeps == ASSUME DeskInv, Desk!Leave PROVE DeskInv'
<1>1. /\ open' = FALSE /\ timer' = FALSE /\ dirty' = FALSE /\ label' = "saved"
      /\ doc' = {} /\ drag' = None /\ loose' = FALSE /\ deskHeard' = None /\ past' = <<>> /\ future' = <<>>
      /\ render' = [render EXCEPT !.page = "idle", !.poll = FALSE, !.go = 0, !.missed = FALSE]
      /\ UNCHANGED <<made, flight, stored, deskSent, trouble>>
  BY DEF Desk!Leave
<1>2. render' \in RenderOf BY <1>1, PageBounds DEF DeskInv, RenderOf
<1>3. ScreenTyped' BY <1>1 DEF DeskInv, ScreenTyped
<1>4. SavesTyped' BY <1>1 DEF DeskInv, SavesTyped
<1>5. Numbered' BY <1>1 DEF DeskInv, Numbered
<1>6. UpToDate' BY <1>1 DEF UpToDate, NothingPending
<1> QED BY <1>2, <1>3, <1>4, <1>5, <1>6 DEF DeskInv

LEMMA RendersKeep == ASSUME DeskInv, Desk!Rendered \/ Desk!Swept \/ Desk!Poll \/ Desk!PollFails PROVE DeskInv'
<1>1. UNCHANGED <<doc, past, future, drag, loose, deskHeard, made, open, dirty, timer, label, flight, stored, deskSent, trouble>>
  BY DEF Desk!Rendered, Desk!Swept, Desk!Poll, Desk!PollFails, Desk!page, Desk!autosave
<1>2. render' \in RenderOf
  <2>1. render \in RenderOf BY DEF DeskInv
  <2>2. CASE Desk!Rendered
    <3>1. PICK end \in {"idle", "stuck"} : render' = [render EXCEPT !.api = end] BY <2>2 DEF Desk!Rendered
    <3> QED BY <2>1, <3>1 DEF RenderOf
  <2>3. CASE Desk!Poll
    <3>1. render' = [render EXCEPT !.page = Desk!Told, !.poll = (Desk!Told = "running")] BY <2>3 DEF Desk!Poll
    <3>2. Desk!Told \in {"idle", "running"} BY <2>1 DEF Desk!Told, RenderOf
    <3> QED BY <2>1, <3>1, <3>2 DEF RenderOf
  <2>5. CASE Desk!Swept BY <2>1, <2>5 DEF Desk!Swept, RenderOf
  <2>4. CASE Desk!PollFails BY <2>1, <2>4 DEF Desk!PollFails, RenderOf
  <2> QED BY <2>2, <2>3, <2>4, <2>5
<1>3. ScreenTyped' /\ SavesTyped' /\ Numbered' BY <1>1 DEF DeskInv, ScreenTyped, SavesTyped, Numbered
<1>4. UpToDate' BY <1>1 DEF DeskInv, UpToDate, NothingPending, Latest, Asks
<1> QED BY <1>2, <1>3, <1>4 DEF DeskInv

LEMMA DeskInvariant == Desk!Spec => []DeskInv
<1>1. ASSUME DeskInv, [Desk!Next]_(Desk!vars) PROVE DeskInv'
  <2>1. CASE UNCHANGED Desk!vars
    <3>1. UNCHANGED <<doc, past, future, drag, loose, deskHeard, made, open, dirty, timer, label, flight, stored, deskSent, trouble, render>>
      BY <2>1 DEF Desk!vars
    <3>2. ScreenTyped' /\ SavesTyped' /\ Numbered' BY <1>1, <3>1 DEF DeskInv, ScreenTyped, SavesTyped, Numbered
    <3>3. UpToDate' BY <1>1, <3>1 DEF DeskInv, UpToDate, NothingPending, Latest, Asks
    <3> QED BY <1>1, <3>1, <3>2, <3>3 DEF DeskInv
  <2>2. CASE Desk!Editing BY <1>1, <2>2, EditsKeep, UndoKeeps, DragKeeps, ListeningKeeps DEF Desk!Editing
  <2>3. CASE Desk!Saving BY <1>1, <2>3, SendsKeep, ArrivesKeep, AnswersKeep, LeavingKeeps DEF Desk!Saving
  <2> QED BY <1>1, <2>1, <2>2, <2>3, RendersKeep DEF Desk!Next
<1>2. Desk!Init => DeskInv BY InitDeskInv
<1> QED BY <1>1, <1>2, PTL DEF Desk!Spec

LEMMA DeskInvIsEnough == DeskInv => Desk!TypeOK /\ Desk!NothingForgotten
<1> SUFFICES ASSUME DeskInv PROVE Desk!TypeOK /\ Desk!NothingForgotten OBVIOUS
<1>1. Desk!NothingForgotten BY DEF DeskInv, UpToDate, NothingPending, Asks, Desk!NothingForgotten, Desk!Quiet
<1>2. \A d \in Desk!Range(past) \cup Desk!Range(future) : d \subseteq made
  <2>1. past \in Seq(SUBSET made) /\ future \in Seq(SUBSET made) BY DEF DeskInv, ScreenTyped
  <2> QED BY <2>1 DEF Desk!Range
<1>3. made \subseteq Changes /\ (deskHeard = None \/ deskHeard \subseteq Changes) BY DEF DeskInv, ScreenTyped
<1>4. Desk!TypeOK BY <1>2, <1>3 DEF Desk!TypeOK, DeskInv, ScreenTyped, SavesTyped, FlightOf, DragOf, RenderOf
<1> QED BY <1>1, <1>4

-----------------------------------------------------------------------------
(* The voicing of an edit and the subtitles of a clip (Voicing) *)

VoiceTyped ==
  /\ edit.at \in {"none", "done", "failed", "fetching", "asking", "reading", "storing", "splicing", "speaking", "polling"}
  /\ edit.line \in 1 .. Words + 1
  /\ voiceSent \subseteq 1 .. Words /\ task \in [1 .. Words -> {"none", "queued", "running", "done", "failed", "lost"}]
  /\ charged \in [1 .. Words -> 0 .. 2] /\ shows \in {"none", "queued", "running", "done", "failed"}
  /\ waited \in 0 .. CallTicks + RunTicks /\ spent \in 0 .. Deadline + 1
  /\ kept \subseteq 1 .. Words /\ work \in BOOLEAN /\ out \in BOOLEAN
  /\ sub \in {"none", "done", "failed", "extracting", "hearing"} /\ voiceHeard \in 0 .. CallTicks + RunTicks
  /\ wav \in BOOLEAN /\ voiceRestarts \in 0 .. MaxDown
\* What was not asked for has no task; a task is charged when it is done, and only then.
TasksCharged ==
  \A l \in 1 .. Words : /\ l \notin voiceSent => task[l] = "none"
                        /\ charged[l] = IF task[l] = "done" THEN 1 ELSE 0
\* The lines are asked for in their order, each when those before it are kept, and what is
\* kept or about to be was voiced.
InOrder ==
  /\ edit.at \in {"none", "fetching"} => edit.line = 1
  /\ edit.at \in {"none", "fetching", "speaking"} => \A l \in voiceSent : l < edit.line
  /\ edit.at \in {"asking", "polling", "reading", "storing"} => edit.line <= Words /\ \A l \in voiceSent : l <= edit.line
  /\ edit.at = "splicing" => edit.line = Words + 1
  /\ edit.at \in {"none", "fetching", "speaking", "asking", "polling", "reading", "storing", "splicing"} =>
       kept = 1 .. edit.line - 1 /\ \A l \in kept : task[l] = "done"
  /\ (edit.at = "polling" /\ shows = "done") \/ edit.at = "storing" => task[edit.line] = "done"
  /\ edit.at = "done" => out /\ \A l \in 1 .. Words : task[l] = "done"
VoiceInv == VoiceTyped /\ TasksCharged /\ InOrder /\ Voice!SoundIsGone

LEMMA VoiceBounds ==
  /\ Words \in Nat /\ CallTicks \in Nat /\ Deadline \in Nat /\ RunTicks \in Nat /\ MaxDown \in Nat
  /\ 1 \in 1 .. Words + 1 /\ 0 \in 0 .. CallTicks + RunTicks /\ 0 \in 0 .. Deadline + 1 /\ 0 \in 0 .. MaxDown
  /\ CallTicks + RunTicks \in Nat
BY VoicingAssumption

LEMMA InitVoiceInv == Voice!Init => VoiceInv
<1> SUFFICES ASSUME Voice!Init PROVE VoiceInv OBVIOUS
<1> USE VoiceBounds DEF Voice!Init
<1>0. /\ task \in [1 .. Words -> {"none", "queued", "running", "done", "failed", "lost"}]
      /\ charged \in [1 .. Words -> 0 .. 2]
  OBVIOUS
<1>1. VoiceTyped
  <2>1. edit.at = "none" /\ edit.line = 1 /\ shows = "none" /\ sub = "none" OBVIOUS
  <2>2. waited \in 0 .. CallTicks + RunTicks /\ voiceHeard \in 0 .. CallTicks + RunTicks /\ spent \in 0 .. Deadline + 1 OBVIOUS
  <2> QED BY <1>0, <2>1, <2>2 DEF VoiceTyped
<1>2. TasksCharged BY DEF TasksCharged
<1>3. InOrder BY DEF InOrder
<1>4. Voice!SoundIsGone BY DEF Voice!SoundIsGone
<1> QED BY <1>1, <1>2, <1>3, <1>4 DEF VoiceInv

\* The pipeline works on a line that was asked for.
LEMMA PipelineKeeps ==
  ASSUME VoiceInv, NEW l \in 1 .. Words, Voice!Takes(l) \/ Voice!Renders(l)
  PROVE  VoiceInv'
<1>1. PICK st \in {"queued", "running", "done", "failed", "lost"} :
        /\ task[l] \in {"none", "queued", "running"} /\ task' = [task EXCEPT ![l] = st] /\ l \in voiceSent
        /\ charged' = [charged EXCEPT ![l] = IF st = "done" THEN @ + 1 ELSE @]
        /\ UNCHANGED <<edit, voiceSent, shows, waited, spent, kept, work, out, sub, voiceHeard, wav, voiceRestarts>>
  <2>1. charged \in [1 .. Words -> 0 .. 2] BY DEF VoiceInv, VoiceTyped
  <2>2. CASE Voice!Takes(l)
    <3>1. charged = [charged EXCEPT ![l] = @] BY <2>1
    <3> QED BY <2>2, <3>1 DEF Voice!Takes, Voice!files, Voice!subtitles
  <2>3. CASE Voice!Renders(l) BY <2>3 DEF Voice!Renders, Voice!files, Voice!subtitles, VoiceInv, TasksCharged
  <2> QED BY <2>2, <2>3
<1>2. task \in [1 .. Words -> {"none", "queued", "running", "done", "failed", "lost"}] /\ charged \in [1 .. Words -> 0 .. 2] /\ charged[l] = 0
  BY <1>1 DEF VoiceInv, VoiceTyped, TasksCharged
<1>3. /\ task' \in [1 .. Words -> {"none", "queued", "running", "done", "failed", "lost"}]
      /\ task'[l] = st /\ \A k \in 1 .. Words : k # l => task'[k] = task[k]
  BY <1>1, <1>2
<1>4. /\ charged' \in [1 .. Words -> 0 .. 2] /\ charged'[l] = (IF st = "done" THEN 1 ELSE 0)
      /\ \A k \in 1 .. Words : k # l => charged'[k] = charged[k]
  BY <1>1, <1>2
<1>5. \A k \in 1 .. Words : task[k] = "done" => task'[k] = "done" BY <1>1, <1>3
<1>6. VoiceTyped' BY <1>1, <1>3, <1>4 DEF VoiceInv, VoiceTyped
<1>7. TasksCharged' BY <1>1, <1>3, <1>4 DEF VoiceInv, TasksCharged
<1>8. edit.line \in 1 .. Words + 1 /\ kept \subseteq 1 .. Words /\ Words \in Nat BY VoiceBounds DEF VoiceInv, VoiceTyped
<1>9. InOrder' BY <1>1, <1>5, <1>8 DEF VoiceInv, InOrder
<1>10. Voice!SoundIsGone' BY <1>1 DEF VoiceInv, Voice!SoundIsGone
<1> QED BY <1>6, <1>7, <1>9, <1>10 DEF VoiceInv

\* The edit ends without a version.
LEMMA FailingKeeps == ASSUME VoiceInv, Voice!Fails PROVE VoiceInv'
<1>1. /\ edit' = [at |-> "failed", line |-> 1] /\ waited' = 0 /\ work' = FALSE /\ kept' = {} /\ shows' = "none" /\ spent' = 0
      /\ UNCHANGED <<voiceSent, task, charged, out, sub, voiceHeard, wav, voiceRestarts>>
  BY DEF Voice!Fails, Voice!Ends, Voice!Goes, Voice!subtitles
<1>2. edit'.at = "failed" /\ edit'.line = 1 BY <1>1
<1>3. VoiceTyped' BY <1>1, <1>2, VoiceBounds DEF VoiceInv, VoiceTyped
<1>4. TasksCharged' BY <1>1 DEF VoiceInv, TasksCharged
<1>5. InOrder' BY <1>2 DEF InOrder
<1>6. Voice!SoundIsGone' BY <1>1 DEF VoiceInv, Voice!SoundIsGone
<1> QED BY <1>3, <1>4, <1>5, <1>6 DEF VoiceInv

\* A step of the edit that leaves the pipeline's tasks and the subtitles alone.
LEMMA EditGoes ==
  ASSUME VoiceInv, NEW at, NEW n, Voice!Goes(at, n), InOrder', n \in 1 .. Words + 1,
         at \in {"none", "done", "failed", "fetching", "asking", "reading", "storing", "splicing", "speaking", "polling"},
         shows' \in {"none", "queued", "running", "done", "failed"}, spent' \in 0 .. Deadline + 1,
         kept' \subseteq 1 .. Words, work' \in BOOLEAN, out' \in BOOLEAN,
         UNCHANGED <<voiceSent, task, charged, sub, voiceHeard, wav, voiceRestarts>>
  PROVE  VoiceInv'
<1>1. edit'.at = at /\ edit'.line = n /\ waited' = 0 BY DEF Voice!Goes
<1>2. VoiceTyped' BY <1>1, VoiceBounds DEF VoiceInv, VoiceTyped
<1>3. TasksCharged' /\ Voice!SoundIsGone' BY DEF VoiceInv, TasksCharged, Voice!SoundIsGone
<1> QED BY <1>2, <1>3 DEF VoiceInv

LEMMA ClientKeeps == ASSUME VoiceInv, Voice!Client \/ Voice!Poll PROVE VoiceInv'
<1>0. /\ edit.line \in 1 .. Words + 1 /\ kept \subseteq 1 .. Words /\ work \in BOOLEAN /\ out \in BOOLEAN /\ Words \in Nat
      /\ shows \in {"none", "queued", "running", "done", "failed"} /\ spent \in 0 .. Deadline + 1 /\ 0 \in 0 .. Deadline + 1
      /\ task \in [1 .. Words -> {"none", "queued", "running", "done", "failed", "lost"}]
      /\ voiceSent \subseteq 1 .. Words
  BY VoiceBounds DEF VoiceInv, VoiceTyped
<1> USE DEF Voice!At, Voice!pipeline, Voice!files, Voice!subtitles
<1>1. CASE Voice!Begin
  <2>1. PICK at \in {"fetching", "speaking"} : Voice!Goes(at, 1) BY <1>1 DEF Voice!Begin
  <2>2. /\ edit.at = "none" /\ work' = TRUE
        /\ UNCHANGED <<voiceSent, task, charged, shows, spent, kept, out, sub, voiceHeard, wav, voiceRestarts>>
    BY <1>1 DEF Voice!Begin
  <2>3. edit'.at = at /\ edit'.line = 1 BY <2>1 DEF Voice!Goes
  <2>4. InOrder' BY <1>0, <2>2, <2>3 DEF VoiceInv, InOrder
  <2> QED BY <1>0, <2>1, <2>2, <2>4, EditGoes
<1>2. CASE Voice!Fetched
  <2>1. /\ edit.at = "fetching" /\ Voice!Goes("speaking", 1)
        /\ UNCHANGED <<voiceSent, task, charged, shows, spent, kept, work, out, sub, voiceHeard, wav, voiceRestarts>>
    BY <1>2 DEF Voice!Fetched
  <2>2. edit'.at = "speaking" /\ edit'.line = 1 BY <2>1 DEF Voice!Goes
  <2>3. InOrder' BY <1>0, <2>1, <2>2 DEF VoiceInv, InOrder
  <2> QED BY <1>0, <2>1, <2>3, EditGoes
<1>3. CASE Voice!Ask
  <2>1. /\ edit.at = "speaking" /\ edit.line <= Words /\ edit' = [at |-> "asking", line |-> edit.line] /\ waited' = 0
        /\ voiceSent' = voiceSent \cup {edit.line} /\ task' = [task EXCEPT ![edit.line] = "none"]
        /\ UNCHANGED <<charged, shows, spent, kept, work, out, sub, voiceHeard, wav, voiceRestarts>>
    BY <1>3 DEF Voice!Ask, Voice!Goes
  <2>2. edit'.at = "asking" /\ edit'.line = edit.line BY <2>1
  <2>3. edit.line \in 1 .. Words /\ edit.line \notin voiceSent BY <1>0, <2>1 DEF VoiceInv, InOrder
  <2>4. task[edit.line] = "none" BY <2>3 DEF VoiceInv, TasksCharged
  <2>5. task' = task BY <1>0, <2>1, <2>4
  <2>6. VoiceTyped' BY <1>0, <2>1, <2>2, <2>3, <2>5, VoiceBounds DEF VoiceInv, VoiceTyped
  <2>7. TasksCharged' BY <2>1, <2>5 DEF VoiceInv, TasksCharged
  <2>8. InOrder' BY <1>0, <2>1, <2>2, <2>3, <2>5 DEF VoiceInv, InOrder
  <2>9. Voice!SoundIsGone' BY <2>1 DEF VoiceInv, Voice!SoundIsGone
  <2> QED BY <2>6, <2>7, <2>8, <2>9 DEF VoiceInv
<1>4. CASE Voice!Asked \/ Voice!Read \/ (Voice!Poll /\ ~(spent > Deadline))
  <2>1. PICK at \in {"polling", "reading"} :
          /\ edit.at \in {"asking", "polling", "reading"} /\ Voice!Goes(at, edit.line)
          /\ shows' \in {"none", "queued", "running", "done", "failed"} /\ spent' \in {0, spent}
          /\ at = "polling" /\ shows' = "done" => task[edit.line] = "done"
          /\ UNCHANGED <<voiceSent, task, charged, kept, work, out, sub, voiceHeard, wav, voiceRestarts>>
    <3>1. CASE Voice!Asked BY <3>1 DEF Voice!Asked
    <3>2. CASE Voice!Read
      <4>1. edit.line <= Words BY <3>2 DEF Voice!Read, VoiceInv, InOrder
      <4>2. task[edit.line] \in {"none", "queued", "running", "done", "failed"} BY <1>0, <3>2, <4>1 DEF Voice!Read
      <4> QED BY <3>2, <4>2 DEF Voice!Read
    <3>3. CASE Voice!Poll /\ ~(spent > Deadline) BY <1>0, <3>3 DEF Voice!Poll
    <3> QED BY <1>4, <3>1, <3>2, <3>3
  <2>2. edit'.at = at /\ edit'.line = edit.line BY <2>1 DEF Voice!Goes
  <2>3. InOrder' BY <1>0, <2>1, <2>2 DEF VoiceInv, InOrder
  <2> QED BY <1>0, <2>1, <2>3, EditGoes
<1>5. CASE Voice!Poll /\ spent > Deadline BY <1>5, FailingKeeps DEF Voice!Poll
<1>6. CASE Voice!Unspoken BY <1>6, FailingKeeps DEF Voice!Unspoken
<1>7. CASE Voice!Spoken
  <2>1. /\ edit.at = "polling" /\ shows = "done" /\ Voice!Goes("storing", edit.line) /\ shows' = "none" /\ spent' = 0
        /\ UNCHANGED <<voiceSent, task, charged, kept, work, out, sub, voiceHeard, wav, voiceRestarts>>
    BY <1>7 DEF Voice!Spoken
  <2>2. edit'.at = "storing" /\ edit'.line = edit.line BY <2>1 DEF Voice!Goes
  <2>3. InOrder' BY <1>0, <2>1, <2>2 DEF VoiceInv, InOrder
  <2> QED BY <1>0, <2>1, <2>3, EditGoes
<1>8. CASE Voice!Stored
  <2>1. /\ edit.at = "storing" /\ Voice!Goes("speaking", edit.line + 1) /\ kept' = kept \cup {edit.line}
        /\ UNCHANGED <<voiceSent, task, charged, shows, spent, work, out, sub, voiceHeard, wav, voiceRestarts>>
    BY <1>8 DEF Voice!Stored
  <2>2. edit'.at = "speaking" /\ edit'.line = edit.line + 1 BY <2>1 DEF Voice!Goes
  <2>3. edit.line \in 1 .. Words BY <1>0, <2>1 DEF VoiceInv, InOrder
  <2>4. kept = 1 .. edit.line - 1 /\ task[edit.line] = "done" /\ (\A l \in kept : task[l] = "done")
        /\ \A l \in voiceSent : l <= edit.line
    BY <2>1 DEF VoiceInv, InOrder
  <2>5. kept' = 1 .. edit.line BY <2>1, <2>3, <2>4
  <2>6. InOrder' BY <1>0, <2>1, <2>2, <2>3, <2>4, <2>5 DEF InOrder
  <2>7. kept' \subseteq 1 .. Words /\ edit.line + 1 \in 1 .. Words + 1 BY <1>0, <2>3, <2>5
  <2> QED BY <1>0, <2>1, <2>6, <2>7, EditGoes
<1>9. CASE Voice!Splice
  <2>1. /\ edit.at = "speaking" /\ edit.line > Words /\ Voice!Goes("splicing", edit.line)
        /\ UNCHANGED <<voiceSent, task, charged, shows, spent, kept, work, out, sub, voiceHeard, wav, voiceRestarts>>
    BY <1>9 DEF Voice!Splice
  <2>2. edit'.at = "splicing" /\ edit'.line = edit.line BY <2>1 DEF Voice!Goes
  <2>3. edit.line = Words + 1 BY <1>0, <2>1
  <2>4. InOrder' BY <1>0, <2>1, <2>2, <2>3 DEF VoiceInv, InOrder
  <2> QED BY <1>0, <2>1, <2>4, EditGoes
<1>10. CASE Voice!Spliced
  <2>1. /\ edit.at = "splicing" /\ out' = (kept = 1 .. Words)
        /\ Voice!Goes("done", 1) /\ work' = FALSE /\ kept' = {} /\ shows' = "none" /\ spent' = 0
        /\ UNCHANGED <<voiceSent, task, charged, sub, voiceHeard, wav, voiceRestarts>>
    BY <1>10 DEF Voice!Spliced, Voice!Ends
  <2>2. edit'.at = "done" BY <2>1 DEF Voice!Goes
  <2>3. kept = 1 .. edit.line - 1 /\ edit.line = Words + 1 /\ \A l \in kept : task[l] = "done"
    BY <2>1 DEF VoiceInv, InOrder
  <2>4. kept = 1 .. Words BY <1>0, <2>3
  <2>5. InOrder' BY <2>1, <2>2, <2>3, <2>4 DEF InOrder
  <2>6. out' \in BOOLEAN /\ kept' \subseteq 1 .. Words BY <2>1
  <2> QED BY <1>0, <2>1, <2>5, <2>6, VoiceBounds, EditGoes
<1> QED BY <1>1, <1>2, <1>3, <1>4, <1>5, <1>6, <1>7, <1>8, <1>9, <1>10 DEF Voice!Client

LEMMA SubtitlesKeep ==
  ASSUME VoiceInv, Voice!Extract \/ Voice!Hear \/ Voice!Heard \/ Voice!SubBreaks \/ Voice!SubExpires
  PROVE  VoiceInv'
<1>1. /\ sub' \in {"done", "failed", "extracting", "hearing"} /\ voiceHeard' = 0 /\ wav' \in BOOLEAN
      /\ sub' \in {"done", "failed"} => ~wav'
      /\ UNCHANGED <<edit, voiceSent, task, charged, shows, waited, spent, kept, work, out, voiceRestarts>>
  <2>1. wav \in BOOLEAN BY DEF VoiceInv, VoiceTyped
  <2> QED BY <2>1 DEF Voice!Extract, Voice!Hear, Voice!Heard, Voice!SubBreaks, Voice!SubExpires, Voice!SubEnds, Voice!SubGoes,
    Voice!pipeline, Voice!files
<1>2. VoiceTyped' BY <1>1, VoiceBounds DEF VoiceInv, VoiceTyped
<1>3. TasksCharged' BY <1>1 DEF VoiceInv, TasksCharged
<1>4. InOrder' BY <1>1 DEF VoiceInv, InOrder
<1>5. Voice!SoundIsGone' BY <1>1 DEF Voice!SoundIsGone
<1> QED BY <1>2, <1>3, <1>4, <1>5 DEF VoiceInv

LEMMA TickKeeps == ASSUME VoiceInv, Voice!Tick PROVE VoiceInv'
<1>1. /\ waited' = Voice!Until(edit.at, waited) /\ voiceHeard' = Voice!Until(sub, voiceHeard)
      /\ spent' = IF edit.at \in {"polling", "reading"} /\ spent <= Deadline THEN spent + 1 ELSE spent
      /\ UNCHANGED <<edit, voiceSent, task, charged, shows, kept, work, out, sub, wav, voiceRestarts>>
  BY DEF Voice!Tick, Voice!pipeline, Voice!files
<1>2. waited \in 0 .. CallTicks + RunTicks /\ voiceHeard \in 0 .. CallTicks + RunTicks /\ spent \in 0 .. Deadline + 1
  BY DEF VoiceInv, VoiceTyped
<1>3. ASSUME NEW s, NEW n \in 0 .. CallTicks + RunTicks PROVE Voice!Until(s, n) \in 0 .. CallTicks + RunTicks
  <2>1. Voice!Limit(s) \in {CallTicks, RunTicks} BY DEF Voice!Limit
  <2>2. Voice!Limit(s) <= CallTicks + RunTicks /\ Voice!Limit(s) \in Nat BY <2>1, VoiceBounds
  <2>3. n < Voice!Limit(s) => n + 1 \in 0 .. CallTicks + RunTicks BY <2>2, VoiceBounds
  <2> QED BY <2>3 DEF Voice!Until
<1>4. waited' \in 0 .. CallTicks + RunTicks /\ voiceHeard' \in 0 .. CallTicks + RunTicks BY <1>1, <1>2, <1>3
<1>5. spent' \in 0 .. Deadline + 1 BY <1>1, <1>2, VoiceBounds
<1>6. VoiceTyped' BY <1>1, <1>4, <1>5 DEF VoiceInv, VoiceTyped
<1>7. TasksCharged' BY <1>1 DEF VoiceInv, TasksCharged
<1>8. InOrder' BY <1>1 DEF VoiceInv, InOrder
<1>9. Voice!SoundIsGone' BY <1>1 DEF VoiceInv, Voice!SoundIsGone
<1> QED BY <1>6, <1>7, <1>8, <1>9 DEF VoiceInv

LEMMA VoiceRestartKeeps == ASSUME VoiceInv, Voice!Restart PROVE VoiceInv'
<1>1. PICK at \in {"none", "done", "failed"} :
        /\ voiceRestarts < MaxDown /\ voiceRestarts' = voiceRestarts + 1 /\ (at # "failed" => at = edit.at)
        /\ edit' = [at |-> at, line |-> 1] /\ waited' = 0
        /\ shows' = "none" /\ spent' = 0 /\ sub' = "none" /\ voiceHeard' = 0
        /\ UNCHANGED <<voiceSent, task, charged, kept, work, out, wav>>
  BY DEF Voice!Restart, Voice!Goes, Voice!pipeline, Voice!files, Voice!Ended
<1>2. edit'.at = at /\ edit'.line = 1 BY <1>1
<1>3. voiceRestarts' \in 0 .. MaxDown BY <1>1, VoiceBounds DEF VoiceInv, VoiceTyped
<1>4. VoiceTyped' BY <1>1, <1>2, <1>3, VoiceBounds DEF VoiceInv, VoiceTyped
<1>5. TasksCharged' BY <1>1 DEF VoiceInv, TasksCharged
<1>6. InOrder' BY <1>1, <1>2 DEF VoiceInv, InOrder
<1>7. Voice!SoundIsGone' BY <1>1 DEF Voice!SoundIsGone
<1> QED BY <1>4, <1>5, <1>6, <1>7 DEF VoiceInv

LEMMA VoiceInvariant == Voice!Spec => []VoiceInv
<1>1. ASSUME VoiceInv, [Voice!Next]_(Voice!vars) PROVE VoiceInv'
  <2>1. CASE UNCHANGED Voice!vars
    <3>1. UNCHANGED <<edit, voiceSent, task, charged, shows, waited, spent, kept, work, out, sub, voiceHeard, wav, voiceRestarts>>
      BY <2>1 DEF Voice!vars
    <3> QED BY <1>1, <3>1 DEF VoiceInv, VoiceTyped, TasksCharged, InOrder, Voice!SoundIsGone
  <2>2. CASE Voice!Breaks \/ Voice!Expires
    BY <1>1, <2>2, FailingKeeps DEF Voice!Breaks, Voice!Expires, Voice!BreaksOff
  <2> QED BY <1>1, <2>1, <2>2, ClientKeeps, TickKeeps, VoiceRestartKeeps, SubtitlesKeep, PipelineKeeps DEF Voice!Next
<1>2. Voice!Init => VoiceInv BY InitVoiceInv
<1> QED BY <1>1, <1>2, PTL DEF Voice!Spec

LEMMA VoiceInvIsEnough == VoiceInv => Voice!TypeOK /\ Voice!LinesPaidOnce /\ Voice!SoundIsGone
<1> SUFFICES ASSUME VoiceInv PROVE Voice!TypeOK /\ Voice!LinesPaidOnce BY DEF VoiceInv
<1>1. Voice!TypeOK BY DEF Voice!TypeOK, VoiceInv, VoiceTyped, Voice!Ended, Voice!Calls, Voice!Runs
<1>2. Voice!LinesPaidOnce BY DEF Voice!LinesPaidOnce, Voice!At, VoiceInv, TasksCharged, InOrder
<1> QED BY <1>1, <1>2

-----------------------------------------------------------------------------
(* The editors side by side: each behaviour is one of each component's. *)
LEMMA VersionsRun == HarnessSpec => Spec
<1>1. HarnessInit => Init BY DEF HarnessInit
<1>2. [HarnessNext]_allVars => [Next]_(vars) BY DEF HarnessNext, EditsMoves, VoiceMoves, DeskMoves, ProjectMoves, allVars, EditsVars, vars
<1> QED BY <1>1, <1>2, PTL DEF HarnessSpec, Spec
LEMMA VoicingRuns == HarnessSpec => Voice!Spec
<1>1. HarnessInit => Voice!Init BY DEF HarnessInit
<1>2. [HarnessNext]_allVars => [Voice!Next]_(Voice!vars)
  BY DEF HarnessNext, EditsMoves, VoiceMoves, DeskMoves, ProjectMoves, allVars, VoiceVars, Voice!vars
<1> QED BY <1>1, <1>2, PTL DEF HarnessSpec, Voice!Spec
LEMMA DeskRuns == HarnessSpec => Desk!Spec
<1>1. HarnessInit => Desk!Init BY DEF HarnessInit
<1>2. [HarnessNext]_allVars => [Desk!Next]_(Desk!vars)
  BY DEF HarnessNext, EditsMoves, VoiceMoves, DeskMoves, ProjectMoves, allVars, DeskVars, Desk!vars
<1> QED BY <1>1, <1>2, PTL DEF HarnessSpec, Desk!Spec
LEMMA ProjectRuns == HarnessSpec => Project!Spec
<1>1. HarnessInit => Project!Init BY DEF HarnessInit
<1>2. [HarnessNext]_allVars => [Project!Next]_(Project!vars)
  BY DEF HarnessNext, EditsMoves, VoiceMoves, DeskMoves, ProjectMoves, allVars, ProjectVars, Project!vars
<1> QED BY <1>1, <1>2, PTL DEF HarnessSpec, Project!Spec

\* What was made and paid for in the editors is kept: a page that says "saved" shows what the
\* API has, but for what a drag did and did not commit, no write loses another's file, saved
\* clips and the offered export are on the disk, a line is paid for once and no listened sound
\* is left, for any edits, drags, files, requests, exports, lines, limits and restarts
\* (VideoEditor.tsx:296-313, 1739-1827, editor.service.ts:67-69, 434-436, 447-460, 465-543,
\* speech-edit.service.ts:211-227).
THEOREM EditingIsKept == HarnessSpec => []EditingKept
<1>1. DeskInv /\ ProjectInv /\ VoiceInv => EditingKept
  BY DeskInvIsEnough, ProjectInvIsEnough, VoiceInvIsEnough DEF EditingKept
<1> QED BY <1>1, DeskRuns, DeskInvariant, ProjectRuns, ProjectInvariant, VoicingRuns, VoiceInvariant, PTL

\* The state of each component has its type, whichever moves; an edit builds on an older version.
THEOREM StatesTypeCorrect == HarnessSpec => []StatesOK
<1>1. HarnessSpec => [](active \in {"edits", "voicing", "page", "project"})
  <2>1. HarnessInit => active \in {"edits", "voicing", "page", "project"} BY DEF HarnessInit
  <2>2. active \in {"edits", "voicing", "page", "project"} /\ [HarnessNext]_allVars
        => (active \in {"edits", "voicing", "page", "project"})'
    BY DEF HarnessNext, EditsMoves, VoiceMoves, DeskMoves, ProjectMoves, allVars
  <2> QED BY <2>1, <2>2, PTL DEF HarnessSpec
<1>2. TypeOK /\ DeskInv /\ ProjectInv /\ VoiceInv /\ active \in {"edits", "voicing", "page", "project"} => StatesOK
  BY DeskInvIsEnough, ProjectInvIsEnough, VoiceInvIsEnough DEF StatesOK
<1> QED BY <1>1, <1>2, VersionsRun, VersionsTypeCorrect, DeskRuns, DeskInvariant, ProjectRuns, ProjectInvariant,
  VoicingRuns, VoiceInvariant, PTL
=============================================================================
