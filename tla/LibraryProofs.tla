--------------------------- MODULE LibraryProofs ---------------------------
(* Proofs about a dub and what is kept of it: its lines, laid one after another
   (Placement), its record in the browsers and in the account (Works), the stages that made
   it (Pipeline), the corrected speech laid into it (Splice), and its lines and clips in the
   editors (LineEditor, Timeline).  For any lines, accounts, browsers, dubs, files and edits;
   then what the run of the library checks. *)
EXTENDS MCLibrary, FiniteSetTheorems, SequenceTheorems, WellFoundedInduction, TLAPS

-----------------------------------------------------------------------------
(* The lines of a dub (Placement) *)

Placed == [at : Nat, len : Nat \ {0}, start : Nat, whole : BOOLEAN]

\* What a budget gives, whatever the line before did.
LEMMA Budget ==
  ASSUME NEW u \in [start : Nat, end : Nat], NEW due \in Nat, NEW from \in Nat
  PROVE  LET b == SlotBudget(u, due, from) IN
           /\ b.at \in Nat /\ b.target \in Nat \ {0} /\ b.limit \in Nat \ {0}
           /\ b.at - u.start \in 0 .. MaxShift
           /\ b.at >= from \/ b.at = u.start + MaxShift
           /\ due - b.at >= MinRoom => b.at + b.limit <= due + MaxShift
BY PlacementAssumption, SMT DEF SlotBudget, Smaller, Larger

\* A plan is at least as long as one unit, and within the limit.
LEMMA PlanBound ==
  ASSUME NEW u, NEW b \in [at : Nat, target : Nat \ {0}, limit : Nat \ {0}], NEW raw \in Nat \ {0}
  PROVE  /\ Squeezed(raw, b.target) \in Nat \ {0}
         /\ CutTo(raw, b, u) \in 1 .. b.limit
         /\ CutTo(Squeezed(raw, b.target), b, u) \in 1 .. b.limit
<1>1. Squeezed(raw, b.target) \in Nat \ {0}
  BY SMT DEF Squeezed, Smaller, Larger
<1>2. \A n \in Nat \ {0} : CutTo(n, b, u) \in 1 .. b.limit
  BY SMT DEF CutTo, Smaller
<1> QED BY <1>1, <1>2

\* What laying or losing the next line does, whoever voices it.
Dropped(b) == /\ placed' = placed
              /\ cursor' = cursor \/ \E plan \in 1 .. b.limit : cursor' = b.at + plan
LaidNext(due, b) ==
  \E len, plan \in 1 .. b.limit : Lay(line, due, b, len, plan) /\ cursor' = b.at + plan
\* Each engine does one of the two.
LEMMA VoiceStep ==
  ASSUME TypeOK, NEW due \in Nat, Voice(due)
  PROVE  LET b == SlotBudget(line, due, cursor) IN engine' = engine /\ (Dropped(b) \/ LaidNext(due, b))
<1> DEFINE b == SlotBudget(line, due, cursor)
<1>1. b \in [at : Nat, target : Nat \ {0}, limit : Nat \ {0}]
  BY Budget DEF TypeOK, SlotBudget
<1> SUFFICES Dropped(b) \/ LaidNext(due, b)
  BY DEF Voice
<1> HIDE DEF b
<1>2. CASE Omnivoice(line, due)
  <2>1. CASE Drop /\ UNCHANGED cursor
    BY <2>1, <1>2 DEF Dropped, Drop
  <2>2. CASE \E raw \in Lengths \ {0} : LET len == CutTo(raw, b, line) IN Lay(line, due, b, len, len) /\ cursor' = b.at + len
    <3>1. PICK raw \in Lengths \ {0} : Lay(line, due, b, CutTo(raw, b, line), CutTo(raw, b, line)) /\ cursor' = b.at + CutTo(raw, b, line)
      BY <2>2
    <3>2. CutTo(raw, b, line) \in 1 .. b.limit
      BY <1>1, PlanBound, PlacementAssumption
    <3> QED BY <3>1, <3>2 DEF LaidNext
  <2> QED BY <1>2, <2>1, <2>2 DEF Omnivoice, b
<1>3. CASE Planned(line, due)
  <2>1. CASE Drop /\ UNCHANGED cursor
    BY <2>1, <1>3 DEF Dropped, Drop
  <2>2. CASE \E raw \in Lengths \ {0} :
               LET plan == CutTo(Squeezed(raw, b.target), b, line) IN
               /\ cursor' = b.at + plan
               /\ \/ Drop
                  \/ \E len \in {plan - 1, plan, plan + 1} : len >= 1 /\ len <= b.limit /\ Lay(line, due, b, len, plan)
    <3>1. PICK raw \in Lengths \ {0} :
               LET plan == CutTo(Squeezed(raw, b.target), b, line) IN
               /\ cursor' = b.at + plan
               /\ \/ Drop
                  \/ \E len \in {plan - 1, plan, plan + 1} : len >= 1 /\ len <= b.limit /\ Lay(line, due, b, len, plan)
      BY <2>2
    <3> DEFINE plan == CutTo(Squeezed(raw, b.target), b, line)
    <3>2. plan \in 1 .. b.limit
      BY <1>1, PlanBound, PlacementAssumption
    <3> HIDE DEF plan
    <3>3. CASE Drop
      BY <3>1, <3>2, <3>3 DEF plan, Dropped, Drop
    <3>4. CASE \E len \in {plan - 1, plan, plan + 1} : len >= 1 /\ len <= b.limit /\ Lay(line, due, b, len, plan)
      <4>1. PICK len \in {plan - 1, plan, plan + 1} : len >= 1 /\ len <= b.limit /\ Lay(line, due, b, len, plan)
        BY <3>4
      <4>2. len \in 1 .. b.limit
        BY <1>1, <3>2, <4>1
      <4> QED BY <3>1, <3>2, <4>1, <4>2 DEF plan, LaidNext
    <3>5. QED BY <3>1, <3>3, <3>4 DEF plan
  <2> QED BY <1>3, <2>1, <2>2 DEF Planned, b
<1> QED BY <1>2, <1>3 DEF Voice

-----------------------------------------------------------------------------
\* No line laid so far starts before it is due, or later than by the shift that is allowed;
\* each starts where one before it does or later; a line that
\* fitted is over when the one after it starts; and the last one is over when the next
\* line may start, by the cursor and by what is due.
InSync == \A k \in DOMAIN placed : placed[k].at - placed[k].start \in 0 .. MaxShift
Chronological == \A j, k \in DOMAIN placed : j < k => placed[j].at <= placed[k].at
Neighbours ==
  \A k \in 1 .. Len(placed) - 1 :
    /\ placed[k].whole => placed[k].at + placed[k].len <= placed[k + 1].at
    /\ placed[k].start < placed[k + 1].start => placed[k].at < placed[k + 1].at
Front ==
  placed # <<>> /\ left > 0 =>
    LET p == placed[Len(placed)] IN
    /\ p.start <= line.start /\ p.at < cursor
    /\ p.whole => p.at + p.len <= cursor /\ p.at + p.len <= line.start + MaxShift
IInv == TypeOK /\ line.start <= line.end /\ InSync /\ Chronological /\ Neighbours /\ Front

\* Nothing is laid yet.
LEMMA InitIInv == Init => IInv
<1> SUFFICES ASSUME Init PROVE IInv
  OBVIOUS
<1>1. line \in [start : Nat, end : Nat] /\ line.start <= line.end
  BY PlacementAssumption DEF Init, Utterances
<1>2. placed = <<>> /\ DOMAIN placed = {} /\ Len(placed) = 0
  BY DEF Init
<1>3. TypeOK
  BY <1>1, <1>2, PlacementAssumption DEF Init, TypeOK
<1> QED BY <1>1, <1>2, <1>3 DEF IInv, InSync, Chronological, Neighbours, Front

\* The new line against the last one laid.
LEMMA After ==
  ASSUME IInv, left > 0, placed # <<>>, NEW due \in Nat
  PROVE  LET b == SlotBudget(line, due, cursor)
             p == placed[Len(placed)]
         IN /\ p \in Placed /\ p.at <= b.at
            /\ p.whole => p.at + p.len <= b.at
            /\ p.start < line.start => p.at < b.at
<1> DEFINE b == SlotBudget(line, due, cursor)
           p == placed[Len(placed)]
<1>1. p \in Placed /\ Len(placed) \in DOMAIN placed
  <2>1. placed \in Seq(Placed)
    BY DEF IInv, TypeOK, Placed
  <2> QED BY <2>1
<1>2. /\ b.at \in Nat
      /\ b.at >= cursor \/ b.at = line.start + MaxShift
      /\ line.start \in Nat /\ cursor \in Nat /\ MaxShift \in Nat
  BY Budget, PlacementAssumption DEF IInv, TypeOK
<1>3. p.at - p.start \in 0 .. MaxShift
  BY <1>1 DEF IInv, InSync
<1>4. /\ p.start <= line.start /\ p.at < cursor
      /\ p.whole => p.at + p.len <= cursor /\ p.at + p.len <= line.start + MaxShift
  BY DEF IInv, Front
<1> HIDE DEF b, p
<1>5. p.at \in Nat /\ p.len \in Nat /\ p.start \in Nat
  BY <1>1 DEF Placed
<1>6. p.at <= b.at /\ (p.start < line.start => p.at < b.at)
  BY <1>2, <1>3, <1>4, <1>5
<1>7. p.whole => p.at + p.len <= b.at
  BY <1>2, <1>4, <1>5
<1> QED BY <1>1, <1>6, <1>7 DEF b, p

\* Laying a line, or losing it, keeps what is known of the lines laid.
LEMMA VoiceKeeps ==
  ASSUME IInv, left > 0, NEW due \in Nat, line.start <= due, Voice(due)
  PROVE  /\ engine' = engine /\ cursor' \in Nat
         /\ placed' \in Seq(Placed) /\ InSync' /\ Chronological' /\ Neighbours'
         /\ placed' # <<>> =>
              LET p == placed'[Len(placed')] IN
              /\ p.start <= line.start /\ p.at < cursor'
              /\ p.whole => p.at + p.len <= cursor' /\ p.at + p.len <= due + MaxShift
<1> DEFINE b == SlotBudget(line, due, cursor)
<1>1. engine' = engine /\ (Dropped(b) \/ LaidNext(due, b))
  BY VoiceStep DEF IInv
<1>2. /\ line.start \in Nat /\ cursor \in Nat /\ MaxShift \in Nat /\ MinRoom \in Nat
      /\ placed \in Seq(Placed)
  BY PlacementAssumption DEF IInv, TypeOK, Placed
<1>3. /\ b.at \in Nat /\ b.limit \in Nat \ {0}
      /\ b.at - line.start \in 0 .. MaxShift
      /\ b.at >= cursor \/ b.at = line.start + MaxShift
      /\ due - b.at >= MinRoom => b.at + b.limit <= due + MaxShift
  BY Budget DEF IInv, TypeOK
<1>4. placed # <<>> =>
        /\ placed[Len(placed)] \in Placed /\ placed[Len(placed)].at <= b.at
        /\ placed[Len(placed)].whole => placed[Len(placed)].at + placed[Len(placed)].len <= b.at
        /\ placed[Len(placed)].start < line.start => placed[Len(placed)].at < b.at
  BY After
<1> HIDE DEF b
<1>5. CASE Dropped(b)
  <2>1. placed' = placed /\ cursor' \in Nat
    BY <1>2, <1>3, <1>5 DEF Dropped
  <2>2. cursor' >= cursor \/ cursor' > b.at
    BY <1>2, <1>3, <1>5 DEF Dropped
  <2>3. ASSUME placed # <<>>
        PROVE  LET p == placed[Len(placed)] IN
               /\ p.start <= line.start /\ p.at < cursor'
               /\ p.whole => p.at + p.len <= cursor' /\ p.at + p.len <= due + MaxShift
    <3> DEFINE p == placed[Len(placed)]
    <3>1. /\ p.start <= line.start /\ p.at < cursor
          /\ p.whole => p.at + p.len <= cursor /\ p.at + p.len <= line.start + MaxShift
      BY <2>3 DEF IInv, Front
    <3>2. p \in Placed /\ p.at <= b.at /\ (p.whole => p.at + p.len <= b.at)
      BY <1>4, <2>3
    <3> HIDE DEF p
    <3>3. p.at \in Nat /\ p.len \in Nat
      BY <3>2 DEF Placed
    <3>4. p.at < cursor'
      BY <1>2, <1>3, <2>1, <2>2, <3>1, <3>2, <3>3
    <3>5. ASSUME p.whole PROVE p.at + p.len <= cursor' /\ p.at + p.len <= due + MaxShift
      <4>1. /\ p.at + p.len <= cursor /\ p.at + p.len <= line.start + MaxShift
            /\ p.at + p.len <= b.at
        BY <3>1, <3>2, <3>5
      <4>2. p.at + p.len \in Nat /\ MaxShift \in Nat
        BY <1>2, <3>3
      <4>3. \A e \in Nat : e <= cursor /\ e <= b.at => e <= cursor'
        BY <1>2, <1>3, <2>1, <2>2
      <4>4. \A e \in Nat : e <= line.start + MaxShift => e <= due + MaxShift
        BY <1>2
      <4> QED BY <4>1, <4>2, <4>3, <4>4
    <3> QED BY <3>1, <3>4, <3>5 DEF p
  <2>4. InSync' /\ Chronological' /\ Neighbours'
    BY <2>1 DEF IInv, InSync, Chronological, Neighbours
  <2> QED BY <1>1, <1>2, <2>1, <2>3, <2>4
<1>6. CASE LaidNext(due, b)
  <2>1. PICK len, plan \in 1 .. b.limit : Lay(line, due, b, len, plan) /\ cursor' = b.at + plan
    BY <1>6 DEF LaidNext
  <2> DEFINE r == [at |-> b.at, len |-> len, start |-> line.start, whole |-> len <= plan /\ due - b.at >= MinRoom]
  <2>2. r \in Placed /\ r.at = b.at /\ r.len = len /\ r.start = line.start /\ len \in Nat /\ plan \in Nat \ {0}
    BY <1>2, <1>3 DEF Placed
  <2>3. r.whole => len <= plan /\ b.at + b.limit <= due + MaxShift
    BY <1>3
  <2>4. placed' = Append(placed, r)
    BY <2>1 DEF Lay
  <2> HIDE DEF r
  <2>5. /\ placed' \in Seq(Placed) /\ Len(placed') = Len(placed) + 1 /\ placed'[Len(placed')] = r
        /\ \A k \in 1 .. Len(placed) : placed'[k] = placed[k]
        /\ DOMAIN placed' = 1 .. Len(placed) + 1 /\ Len(placed) \in Nat
    BY <1>2, <2>2, <2>4
  <2>6. \A k \in 1 .. Len(placed) : placed[k] \in Placed /\ placed[k].at \in Nat /\ placed[k].at <= b.at
    <3>1. SUFFICES ASSUME NEW k \in 1 .. Len(placed)
                   PROVE  placed[k] \in Placed /\ placed[k].at \in Nat /\ placed[k].at <= b.at
      OBVIOUS
    <3>2. placed[k] \in Placed /\ placed[Len(placed)] \in Placed /\ placed # <<>>
      BY <1>2
    <3>3. placed[k].at <= placed[Len(placed)].at
      BY <3>2, <1>2, k = Len(placed) \/ k < Len(placed) DEF IInv, Chronological, Placed
    <3> QED BY <1>3, <1>4, <3>2, <3>3 DEF Placed
  <2>7. Chronological'
    <3>1. SUFFICES ASSUME NEW j \in 1 .. Len(placed) + 1, NEW k \in 1 .. Len(placed) + 1, j < k
                   PROVE  placed'[j].at <= placed'[k].at
      BY <2>5 DEF Chronological
    <3>2. j \in 1 .. Len(placed) /\ placed'[j] = placed[j] /\ placed[j].at <= b.at
      BY <2>5, <2>6, <3>1
    <3>3. CASE k \in 1 .. Len(placed)
      <4>1. placed'[k] = placed[k]
        BY <2>5, <3>3
      <4> QED BY <1>2, <3>1, <3>2, <3>3, <4>1 DEF IInv, Chronological
    <3>4. CASE k = Len(placed) + 1
      BY <2>2, <2>5, <3>2, <3>4
    <3> QED BY <2>5, <3>3, <3>4
  <2>8. InSync'
    BY <1>3, <2>2, <2>5 DEF IInv, InSync
  <2>9. Neighbours'
    <3>1. SUFFICES ASSUME NEW k \in 1 .. Len(placed)
                   PROVE  /\ placed'[k].whole => placed'[k].at + placed'[k].len <= placed'[k + 1].at
                          /\ placed'[k].start < placed'[k + 1].start => placed'[k].at < placed'[k + 1].at
      BY <2>5 DEF Neighbours
    <3>2. CASE k < Len(placed)
      <4>1. k \in 1 .. Len(placed) - 1 /\ k + 1 \in 1 .. Len(placed)
        BY <2>5, <3>2
      <4>2. placed'[k] = placed[k] /\ placed'[k + 1] = placed[k + 1]
        BY <2>5, <4>1
      <4> QED BY <4>1, <4>2 DEF IInv, Neighbours
    <3>3. CASE k = Len(placed)
      BY <1>2, <1>4, <2>2, <2>5, <3>3
    <3> QED BY <2>5, <3>2, <3>3
  <2>10. /\ r.start <= line.start /\ r.at < cursor' /\ cursor' \in Nat
         /\ r.whole => r.at + r.len <= cursor' /\ r.at + r.len <= due + MaxShift
    <3>1. r.start <= line.start /\ r.at < cursor' /\ cursor' \in Nat
      BY <1>2, <1>3, <2>1, <2>2
    <3>2. ASSUME r.whole PROVE r.at + r.len <= cursor' /\ r.at + r.len <= due + MaxShift
      <4>1. len <= plan /\ b.at + b.limit <= due + MaxShift /\ len <= b.limit
        BY <2>3, <3>2, <1>3
      <4> QED BY <1>2, <1>3, <2>1, <2>2, <4>1
    <3> QED BY <3>1, <3>2
  <2> QED BY <1>1, <2>5, <2>7, <2>8, <2>9, <2>10
<1> QED BY <1>1, <1>5, <1>6

\* The next line arrives, or the last one is laid.
LEMMA NextIInv == IInv /\ [Next]_vars => IInv'
<1> SUFFICES ASSUME IInv, [Next]_vars PROVE IInv'
  OBVIOUS
<1>1. /\ line \in [start : Nat, end : Nat] /\ left \in 0 .. MaxLines /\ MaxLines \in Nat
      /\ line.start <= line.end
  BY PlacementAssumption DEF IInv, TypeOK
<1>2. CASE Last
  <2>1. Larger(Total, line.end) \in Nat /\ line.start <= Larger(Total, line.end)
    BY <1>1, PlacementAssumption DEF Larger
  <2>2. left > 0 /\ Voice(Larger(Total, line.end)) /\ left' = 0 /\ line' = line
    BY <1>2 DEF Last
  <2>3. /\ engine' = engine /\ cursor' \in Nat
        /\ placed' \in Seq(Placed) /\ InSync' /\ Chronological' /\ Neighbours'
    BY <2>1, <2>2, VoiceKeeps
  <2>4. TypeOK' /\ Front'
    BY <1>1, <2>2, <2>3 DEF TypeOK, IInv, Placed, Front
  <2> QED BY <1>1, <2>2, <2>3, <2>4 DEF IInv
<1>3. ASSUME NEW u \in Utterances, Follow(u) PROVE IInv'
  <2>1. u \in [start : Nat, end : Nat] /\ u.start >= line.start /\ u.start <= u.end /\ left > 1
    BY <1>3, PlacementAssumption DEF Follow, Utterances
  <2>2. CASE Merge(u)
    <3>1. /\ line' = [line EXCEPT !.end = u.end]
          /\ engine' = engine /\ cursor' = cursor /\ placed' = placed /\ left' = left
      BY <2>2 DEF Merge
    <3>2. line' \in [start : Nat, end : Nat] /\ line'.start = line.start /\ line'.start <= line'.end
      BY <1>1, <2>1, <3>1
    <3> QED BY <3>1, <3>2 DEF IInv, TypeOK, InSync, Chronological, Neighbours, Front
  <2>3. CASE Voice(u.start) /\ line' = u /\ left' = left - 1
    <3>1. /\ engine' = engine /\ cursor' \in Nat
          /\ placed' \in Seq(Placed) /\ InSync' /\ Chronological' /\ Neighbours'
          /\ placed' # <<>> =>
               LET p == placed'[Len(placed')] IN
               /\ p.start <= line.start /\ p.at < cursor'
               /\ p.whole => p.at + p.len <= cursor' /\ p.at + p.len <= u.start + MaxShift
      <4>1. left > 0 /\ u.start \in Nat /\ line.start <= u.start
        BY <1>1, <2>1
      <4> QED BY <2>3, <4>1, VoiceKeeps
    <3> DEFINE p == placed'[Len(placed')]
    <3>2. ASSUME placed' # <<>> PROVE p.start <= line'.start
      <4>1. p \in Placed
        BY <3>1, <3>2
      <4> QED BY <1>1, <2>1, <2>3, <3>1, <3>2, <4>1 DEF Placed
    <3>3. TypeOK'
      BY <1>1, <2>1, <2>3, <3>1 DEF TypeOK, IInv, Placed
    <3>4. Front'
      BY <2>3, <3>1, <3>2 DEF Front
    <3> QED BY <2>1, <2>3, <3>1, <3>3, <3>4 DEF IInv
  <2> QED BY <1>3, <2>2, <2>3 DEF Follow
<1>4. CASE UNCHANGED vars
  BY <1>4 DEF vars, IInv, TypeOK, InSync, Chronological, Neighbours, Front
<1> QED BY <1>2, <1>3, <1>4 DEF Next

\* The invariant, in every behaviour.
LEMMA Invariant == Spec => []IInv
BY InitIInv, NextIInv, PTL DEF Spec

-----------------------------------------------------------------------------
\* Laying lines keeps to the types: the budget of no line is negative or empty.
THEOREM TypeCorrect == Spec => []TypeOK
<1>1. IInv => TypeOK
  BY DEF IInv
<1> QED BY <1>1, Invariant, PTL

\* What is kept of a line that is clipped by the next one.
LEMMA Clipped ==
  ASSUME NEW a \in Nat, NEW c \in Nat, NEW n \in Nat \ {0}, a <= c
  PROVE  LET d == Larger(Smaller(n, c - a), 0) IN
           d \in Nat /\ a + d <= c /\ (a + n <= c => d = n) /\ (a < c => d > 0)
BY DEF Larger, Smaller

\* What is kept of a placed line.
LEMMA KeptBound ==
  ASSUME IInv, NEW k \in 1 .. Len(placed) - 1
  PROVE  /\ placed[k] \in Placed /\ placed[k + 1] \in Placed
         /\ placed[k].at <= placed[k + 1].at
         /\ Kept(k) \in Nat /\ placed[k].at + Kept(k) <= placed[k + 1].at
         /\ placed[k].at + placed[k].len <= placed[k + 1].at => Kept(k) = placed[k].len
         /\ placed[k].at < placed[k + 1].at => Kept(k) > 0
<1>1. placed \in Seq(Placed) /\ k \in DOMAIN placed /\ k + 1 \in DOMAIN placed /\ k # Len(placed)
  BY DEF IInv, TypeOK, Placed
<1>2. placed[k] \in Placed /\ placed[k + 1] \in Placed /\ placed[k].at <= placed[k + 1].at
  BY <1>1 DEF IInv, Chronological
<1>3. Kept(k) = Larger(Smaller(placed[k].len, placed[k + 1].at - placed[k].at), 0)
  BY <1>1 DEF Kept
<1>4. /\ placed[k].at \in Nat /\ placed[k + 1].at \in Nat /\ placed[k].len \in Nat \ {0}
  BY <1>2 DEF Placed
<1>5. LET d == Larger(Smaller(placed[k].len, placed[k + 1].at - placed[k].at), 0) IN
        /\ d \in Nat /\ placed[k].at + d <= placed[k + 1].at
        /\ placed[k].at + placed[k].len <= placed[k + 1].at => d = placed[k].len
        /\ placed[k].at < placed[k + 1].at => d > 0
  BY <1>2, <1>4, Clipped
<1> QED BY <1>2, <1>3, <1>5, Zenon

\* No two dubbed lines are heard at once, whatever the voices made of them
\* (write_without_overlap, timeline.py:74-90).
THEOREM NoTwoVoices == Spec => []OneVoiceAtATime
<1>1. ASSUME IInv PROVE OneVoiceAtATime
  <2>1. SUFFICES ASSUME NEW j \in DOMAIN placed, NEW k \in DOMAIN placed, j < k
                 PROVE  placed[j].at + Kept(j) <= placed[k].at
    BY DEF OneVoiceAtATime
  <2>2. placed \in Seq(Placed)
    BY <1>1 DEF IInv, TypeOK, Placed
  <2>3. j \in 1 .. Len(placed) - 1 /\ j + 1 \in DOMAIN placed
    BY <2>1, <2>2
  <2>4. placed[j].at + Kept(j) <= placed[j + 1].at
    BY <1>1, <2>3, KeptBound
  <2>5. placed[j + 1].at <= placed[k].at
    <3>1. CASE j + 1 = k
      <4>1. placed[k] \in Placed
        BY <2>2
      <4>2. placed[k].at <= placed[k].at
        BY <4>1 DEF Placed
      <4> QED BY <3>1, <4>2
    <3>2. CASE j + 1 < k
      BY <1>1, <2>3, <3>2 DEF IInv, Chronological
    <3> QED BY <2>1, <2>2, <3>1, <3>2
  <2>6. placed[j].at \in Int /\ placed[j + 1].at \in Int /\ placed[k].at \in Int /\ Kept(j) \in Int
    <3>1. placed[j] \in Placed /\ placed[j + 1] \in Placed /\ placed[k] \in Placed
      BY <2>2, <2>3
    <3> QED BY <1>1, <2>3, <3>1, KeptBound DEF Placed
  <2> QED BY <2>4, <2>5, <2>6
<1> QED BY <1>1, Invariant, PTL

\* None's words are cut off by the next line: it starts late instead, wherever there
\* was room for that (slot_budget, timeline.py:43-54).
THEOREM WordsAreHeard == Spec => []LinesAreHeard
<1>1. ASSUME IInv PROVE LinesAreHeard
  <2>1. placed \in Seq(Placed)
    BY <1>1 DEF IInv, TypeOK, Placed
  <2>2. SUFFICES ASSUME NEW k \in 1 .. Len(placed)
                 PROVE  /\ placed[k].whole => Kept(k) = placed[k].len
                        /\ k < Len(placed) /\ placed[k].start < placed[k + 1].start => Kept(k) > 0
    BY <2>1 DEF LinesAreHeard
  <2>3. CASE k = Len(placed)
    BY <2>1, <2>3 DEF Kept
  <2>4. CASE k < Len(placed)
    <3>1. k \in 1 .. Len(placed) - 1
      BY <2>1, <2>4
    <3>2. /\ placed[k].whole => placed[k].at + placed[k].len <= placed[k + 1].at
          /\ placed[k].start < placed[k + 1].start => placed[k].at < placed[k + 1].at
      BY <1>1, <3>1 DEF IInv, Neighbours
    <3> QED BY <1>1, <3>1, <3>2, KeptBound
  <2> QED BY <2>1, <2>3, <2>4
<1> QED BY <1>1, Invariant, PTL
-----------------------------------------------------------------------------
(* The records of a dub (Works) *)
\* What the code gives: a dub is one account's, and none is no account and no record.
Accounts == MaxClock \in Nat /\ Owner \in [Jobs -> Users] /\ None \notin Users /\ None \notin Library!Work

\* Of the records nobody removed: whatever is marked as saved, listed by the API or kept for
\* another account than the dub's is in the dub's account.  Only a tab that is signed in draws
\* and saves, and what a tab has stored it still holds, unsaved.
Stored(j) == rows[Owner[j]][j] # None
Left == Jobs \ removed
SignedOn == \A t \in Tabs : user[t] \notin Users => timers[t] = {} /\ dirty[t] = {} /\ drawn[t]
Fair(list, u) == \A j \in Left : list[j] # None /\ (list[j].synced \/ u # Owner[j]) => Stored(j)
Marked ==
  /\ \A t \in Tabs : Fair(works[t], user[t]) /\ Fair(shownWorks[t], user[t])
  /\ \A b \in Browsers, u \in Users : Fair(cache[b][u], u)
Tabled == \A u \in Users, j \in Left : rows[u][j] # None => Stored(j)
Listed == \A l \in lists : l.answer # <<>> => \A j \in Left : l.answer[1][j] # None => Stored(j)
Sent == \A p \in puts : p.job \in Left /\ (p.at = "saved" \/ p.user # Owner[p.job]) => Stored(p.job)
Gone == \A r \in deletes : r.job \in removed
Held(t, j) ==
  /\ j \in Left /\ ~Stored(j)
  /\ user[t] = Owner[j] => Library!Unsaved(works[t][j]) /\ Library!Unsaved(shownWorks[t][j])
  /\ Library!Lone(t) => Library!Unsaved(cache[browser[t]][Owner[j]][j])
Keeping == \A t \in Tabs, j \in Jobs : <<t, j>> \in kept => Held(t, j)
LibIInv == Library!TypeOK /\ SignedOn /\ Marked /\ Tabled /\ Listed /\ Sent /\ Gone /\ Keeping

\* Nothing is recorded yet.
LEMMA LibInit == ASSUME Accounts PROVE Library!Init => LibIInv
  BY DEF Accounts, Library!Init, Library!Empty, LibIInv, Library!TypeOK, Library!Table, Left, Stored, Library!Work,
     SignedOn, Marked, Fair, Tabled, Listed, Sent, Gone, Keeping

\* A record, and a record that is marked.
LEMMA WorkIs ==
  ASSUME Accounts
  PROVE  /\ \A v \in 1 .. MaxClock, b \in BOOLEAN :
              [ver |-> v, synced |-> b] \in Library!Work /\ [ver |-> v, synced |-> b].synced = b
         /\ \A w \in Library!Work :
              /\ w # None /\ w.synced \in BOOLEAN
              /\ [w EXCEPT !.synced = TRUE] \in Library!Work /\ [w EXCEPT !.synced = TRUE].synced
  BY DEF Accounts, Library!Work

\* A tab's list changes and is not drawn yet.
LEMMA LibShows ==
  ASSUME Accounts, LibIInv, NEW t \in Tabs, NEW list \in Library!Table,
         user[t] \in Users, Library!Lists(t, list),
         UNCHANGED <<browser, user, shownWorks, cache, rows>>,
         removed \subseteq removed', kept' \subseteq kept,
         \A i \in Left' : list[i] # None /\ (list[i].synced \/ user[t] # Owner[i]) => Stored(i),
         \A i \in Jobs : <<t, i>> \in kept' /\ user[t] = Owner[i] => Library!Unsaved(list[i]),
         \A s \in Tabs, i \in Jobs : <<s, i>> \in kept' => i \in Left'
  PROVE  works' \in [Tabs -> Library!Table] /\ drawn' \in [Tabs -> BOOLEAN] /\ Marked' /\ Keeping'
<1>1. /\ works' = [works EXCEPT ![t] = list] /\ drawn' = [drawn EXCEPT ![t] = FALSE]
      /\ works \in [Tabs -> Library!Table] /\ drawn \in [Tabs -> BOOLEAN]
  BY DEF Library!Lists, LibIInv, Library!TypeOK
<1>2. \A s \in Tabs : works'[s] = IF s = t THEN list ELSE works[s]
  BY <1>1
<1>3. Left' \subseteq Left /\ \A i \in Jobs : Stored(i)' <=> Stored(i)
  BY DEF Left, Stored
<1>4. Marked'
  <2>1. \A b \in Browsers, u \in Users : Fair(cache[b][u], u)'
    BY <1>3 DEF LibIInv, Marked, Fair, Left, Stored
  <2>2. ASSUME NEW s \in Tabs PROVE Fair(works[s], user[s])' /\ Fair(shownWorks[s], user[s])'
    <3>1. Fair(shownWorks[s], user[s])'
      BY <1>3 DEF LibIInv, Marked, Fair, Left, Stored
    <3>2. CASE s = t
      BY <1>2, <1>3, <3>1, <3>2 DEF Fair, Left, Stored
    <3>3. CASE s # t
      BY <1>2, <1>3, <3>1, <3>3 DEF LibIInv, Marked, Fair, Left, Stored
    <3> QED BY <3>2, <3>3
  <2> QED BY <2>1, <2>2 DEF Marked
<1>5. Keeping'
  <2> SUFFICES ASSUME NEW s \in Tabs, NEW i \in Jobs, <<s, i>> \in kept' PROVE Held(s, i)'
    BY DEF Keeping
  <2>1. Held(s, i) /\ i \in Left' /\ ~Stored(i)'
    BY <1>3 DEF LibIInv, Keeping, Held
  <2>2. user[s] = Owner[i] => Library!Unsaved(works'[s][i])
    BY <1>2, <2>1 DEF Held
  <2> QED BY <2>1, <2>2 DEF Held, Library!Lone, Left, Stored, Library!Unsaved
<1> QED BY <1>1, <1>4, <1>5

\* A dub is recorded on the page that ran it.
LEMMA LibAdd ==
  ASSUME Accounts, LibIInv, NEW t \in Tabs, NEW j \in Jobs, Library!Add(t, j)
  PROVE  LibIInv'
<1> DEFINE w == [ver |-> clock + 1, synced |-> FALSE]
<1>1. /\ user[t] \in Users /\ Owner[j] = user[t] /\ j \notin added
      /\ clock < MaxClock /\ clock' = clock + 1 /\ added' = added \cup {j}
      /\ dirty' = [dirty EXCEPT ![t] = @ \cup {j}]
      /\ Library!Lists(t, [works[t] EXCEPT ![j] = w])
      /\ UNCHANGED <<browser, user, shownWorks, timers, cache, puts, deletes, lists, rows, removed, kept>>
  BY DEF Library!Add, Library!Touch, Library!SignedIn, LibIInv, Library!TypeOK
<1>c. clock + 1 \in 1 .. MaxClock
  BY <1>1 DEF Accounts, LibIInv, Library!TypeOK
<1>w. w \in Library!Work /\ w # None /\ ~w.synced
  <2>1. w \in Library!Work /\ w.synced = FALSE
    BY <1>c, WorkIs
  <2> HIDE DEF w
  <2> QED BY <2>1, WorkIs
<1> HIDE DEF w
<1>2. PICK list \in Library!Table : list = [works[t] EXCEPT ![j] = w]
  BY <1>w DEF LibIInv, Library!TypeOK, Library!Table
<1>3. \A i \in Jobs : list[i] = IF i = j THEN w ELSE works[t][i]
  BY <1>2 DEF LibIInv, Library!TypeOK, Library!Table
<1>4. Library!Lists(t, list) /\ Left' = Left
  BY <1>1, <1>2 DEF Left
<1>5. /\ \A i \in Left' : list[i] # None /\ (list[i].synced \/ user[t] # Owner[i]) => Stored(i)
      /\ \A i \in Jobs : <<t, i>> \in kept' /\ user[t] = Owner[i] => Library!Unsaved(list[i])
      /\ \A s \in Tabs, i \in Jobs : <<s, i>> \in kept' => i \in Left'
  <2>1. \A i \in Left : list[i] # None /\ (list[i].synced \/ user[t] # Owner[i]) => Stored(i)
    BY <1>1, <1>w, <1>3 DEF LibIInv, Marked, Fair, Left
  <2>2. \A i \in Jobs : <<t, i>> \in kept /\ user[t] = Owner[i] => Library!Unsaved(list[i])
    BY <1>w, <1>3 DEF LibIInv, Keeping, Held, Library!Unsaved
  <2>3. \A s \in Tabs, i \in Jobs : <<s, i>> \in kept => i \in Left
    BY DEF LibIInv, Keeping, Held
  <2> QED BY <1>1, <1>4, <2>1, <2>2, <2>3
<1>6. works' \in [Tabs -> Library!Table] /\ drawn' \in [Tabs -> BOOLEAN] /\ Marked' /\ Keeping'
  BY <1>1, <1>4, <1>5, LibShows
<1>7. Library!TypeOK'
  <2>1. clock' \in 0 .. MaxClock
    BY <1>1, <1>c DEF LibIInv, Library!TypeOK
  <2>2. dirty' \in [Tabs -> SUBSET Jobs] /\ added' \subseteq Jobs
    BY <1>1 DEF LibIInv, Library!TypeOK
  <2> QED BY <1>1, <1>6, <2>1, <2>2 DEF LibIInv, Library!TypeOK
<1>8. SignedOn'
  BY <1>1, <1>4 DEF LibIInv, SignedOn, Library!Lists, Library!TypeOK
<1>9. Tabled' /\ Listed' /\ Sent' /\ Gone'
  BY <1>1 DEF LibIInv, Tabled, Listed, Sent, Gone, Left, Stored
<1> QED BY <1>6, <1>7, <1>8, <1>9 DEF LibIInv

\* A record is changed on a page.
LEMMA LibUpdate ==
  ASSUME Accounts, LibIInv, NEW t \in Tabs, NEW j \in Jobs, Library!Update(t, j)
  PROVE  LibIInv'
<1> DEFINE w == [works[t][j] EXCEPT !.ver = clock + 1]
<1>1. /\ user[t] \in Users /\ works[t][j] # None
      /\ clock < MaxClock /\ clock' = clock + 1
      /\ dirty' = [dirty EXCEPT ![t] = @ \cup {j}]
      /\ UNCHANGED <<browser, user, shownWorks, timers, cache, puts, deletes, lists, rows, added, removed, kept>>
  BY DEF Library!Update, Library!Touch, Library!SignedIn, LibIInv, Library!TypeOK
<1>l. Library!Lists(t, [works[t] EXCEPT ![j] = w])
  BY <1>1 DEF Library!Update, Library!Lists
<1>c. clock + 1 \in 1 .. MaxClock
  BY <1>1 DEF Accounts, LibIInv, Library!TypeOK
<1>w. w \in Library!Work /\ w # None /\ w.synced = works[t][j].synced
  <2>1. works[t][j] \in Library!Work
    BY <1>1 DEF LibIInv, Library!TypeOK, Library!Table
  <2> QED BY <1>c, <2>1 DEF Accounts, Library!Work
<1> HIDE DEF w
<1>2. PICK list \in Library!Table : list = [works[t] EXCEPT ![j] = w]
  BY <1>w DEF LibIInv, Library!TypeOK, Library!Table
<1>3. \A i \in Jobs : list[i] = IF i = j THEN w ELSE works[t][i]
  BY <1>2 DEF LibIInv, Library!TypeOK, Library!Table
<1>4. Library!Lists(t, list) /\ Left' = Left
  BY <1>1, <1>l, <1>2 DEF Left
<1>5. /\ \A i \in Left' : list[i] # None /\ (list[i].synced \/ user[t] # Owner[i]) => Stored(i)
      /\ \A i \in Jobs : <<t, i>> \in kept' /\ user[t] = Owner[i] => Library!Unsaved(list[i])
      /\ \A s \in Tabs, i \in Jobs : <<s, i>> \in kept' => i \in Left'
  <2>1. \A i \in Left : list[i] # None /\ (list[i].synced \/ user[t] # Owner[i]) => Stored(i)
    BY <1>1, <1>w, <1>3 DEF LibIInv, Marked, Fair, Left
  <2>2. \A i \in Jobs : <<t, i>> \in kept /\ user[t] = Owner[i] => Library!Unsaved(list[i])
    BY <1>w, <1>3 DEF LibIInv, Keeping, Held, Library!Unsaved
  <2>3. \A s \in Tabs, i \in Jobs : <<s, i>> \in kept => i \in Left
    BY DEF LibIInv, Keeping, Held
  <2> QED BY <1>1, <1>4, <2>1, <2>2, <2>3
<1>6. works' \in [Tabs -> Library!Table] /\ drawn' \in [Tabs -> BOOLEAN] /\ Marked' /\ Keeping'
  BY <1>1, <1>4, <1>5, LibShows
<1>7. Library!TypeOK'
  <2>1. clock' \in 0 .. MaxClock
    BY <1>1, <1>c DEF LibIInv, Library!TypeOK
  <2>2. dirty' \in [Tabs -> SUBSET Jobs] /\ added' \subseteq Jobs
    BY <1>1 DEF LibIInv, Library!TypeOK
  <2> QED BY <1>1, <1>6, <2>1, <2>2 DEF LibIInv, Library!TypeOK
<1>8. SignedOn'
  BY <1>1, <1>4 DEF LibIInv, SignedOn, Library!Lists, Library!TypeOK
<1>9. Tabled' /\ Listed' /\ Sent' /\ Gone'
  BY <1>1 DEF LibIInv, Tabled, Listed, Sent, Gone, Left, Stored
<1> QED BY <1>6, <1>7, <1>8, <1>9 DEF LibIInv

\* The list is drawn, and stored unless the browser has no room.
LEMMA LibDraw ==
  ASSUME Accounts, LibIInv, NEW t \in Tabs, Library!Draw(t)
  PROVE  LibIInv'
<1>1. /\ user[t] \in Users
      /\ drawn' = [drawn EXCEPT ![t] = TRUE] /\ shownWorks' = [shownWorks EXCEPT ![t] = works[t]]
      /\ timers' = [timers EXCEPT ![t] = @ \cup {j \in dirty[t] : works[t][j] # None}]
      /\ dirty' = [dirty EXCEPT ![t] = {}]
      /\ UNCHANGED <<browser, user, works, puts, deletes, lists, rows, clock, added, removed>>
  BY DEF Library!Draw, LibIInv, SignedOn
<1>2. works[t] \in Library!Table /\ browser[t] \in Browsers /\ Fair(works[t], user[t])
  BY DEF LibIInv, Library!TypeOK, Marked
<1>3. \A s \in Tabs : shownWorks'[s] = IF s = t THEN works[t] ELSE shownWorks[s]
  BY <1>1 DEF LibIInv, Library!TypeOK
<1>4. \A i \in Jobs : Stored(i)' <=> Stored(i)
  BY <1>1 DEF Stored
<1>5. Left' = Left
  BY <1>1 DEF Left
<1>6. /\ cache' \in [Browsers -> [Users -> Library!Table]] /\ kept' \subseteq Tabs \X Jobs
      /\ \A b \in Browsers, u \in Users : cache'[b][u] = cache[b][u] \/ (b = browser[t] /\ u = user[t] /\ cache'[b][u] = works[t])
      /\ \A s \in Tabs, i \in Jobs : <<s, i>> \in kept' =>
           \/ <<s, i>> \in kept
           \/ s = t /\ i \in Left /\ ~Stored(i) /\ Library!Unsaved(works[t][i]) /\ cache'[browser[t]][user[t]] = works[t]
  <2> DEFINE fresh == {j \in Jobs \ removed : Library!Unsaved(works[t][j]) /\ rows[Owner[j]][j] = None}
  <2>1. CASE UNCHANGED <<cache, kept>>
    BY <2>1 DEF LibIInv, Library!TypeOK
  <2>2. CASE /\ cache' = [cache EXCEPT ![browser[t]][user[t]] = works[t]]
             /\ kept' = kept \cup {<<t, j>> : j \in fresh}
    <3>1. \A b \in Browsers, u \in Users : cache'[b][u] = IF b = browser[t] /\ u = user[t] THEN works[t] ELSE cache[b][u]
      BY <1>1, <1>2, <2>2 DEF LibIInv, Library!TypeOK
    <3>2. cache' \in [Browsers -> [Users -> Library!Table]]
      BY <1>1, <1>2, <2>2 DEF LibIInv, Library!TypeOK
    <3>3. kept' \subseteq Tabs \X Jobs
      BY <2>2 DEF LibIInv, Library!TypeOK
    <3>4. \A i \in fresh : i \in Left /\ ~Stored(i) /\ Library!Unsaved(works[t][i])
      BY DEF Left, Stored
    <3> HIDE DEF fresh
    <3> QED BY <1>1, <1>2, <2>2, <3>1, <3>2, <3>3, <3>4
  <2> QED BY <2>1, <2>2 DEF Library!Draw
<1>7. Library!TypeOK'
  BY <1>1, <1>2, <1>6 DEF LibIInv, Library!TypeOK
<1>8. SignedOn'
  BY <1>1 DEF LibIInv, SignedOn, Library!TypeOK
<1>9. Marked'
  <2>1. ASSUME NEW s \in Tabs PROVE Fair(works[s], user[s])' /\ Fair(shownWorks[s], user[s])'
    BY <1>1, <1>2, <1>3 DEF LibIInv, Marked, Fair, Left, Stored
  <2>2. ASSUME NEW b \in Browsers, NEW u \in Users PROVE Fair(cache[b][u], u)'
    BY <1>1, <1>2, <1>6 DEF LibIInv, Marked, Fair, Left, Stored
  <2> QED BY <2>1, <2>2 DEF Marked
<1>10. Keeping'
  <2> SUFFICES ASSUME NEW s \in Tabs, NEW i \in Jobs, <<s, i>> \in kept' PROVE Held(s, i)'
    BY DEF Keeping
  <2>o. Owner[i] \in Users /\ browser[s] \in Browsers
    BY DEF Accounts, LibIInv, Library!TypeOK
  <2>1. CASE <<s, i>> \in kept
    <3>1. Held(s, i)
      BY <2>1 DEF LibIInv, Keeping
    <3>2. /\ i \in Left' /\ ~Stored(i)'
          /\ user'[s] = Owner[i] => Library!Unsaved(works'[s][i])
      BY <1>1, <1>4, <1>5, <3>1 DEF Held
    <3>3. user'[s] = Owner[i] => Library!Unsaved(shownWorks'[s][i])
      BY <1>1, <1>3, <3>1 DEF Held
    <3>4. Library!Lone(s) => Library!Unsaved(cache'[browser[s]][Owner[i]][i])
      <4> SUFFICES ASSUME Library!Lone(s) PROVE Library!Unsaved(cache'[browser[s]][Owner[i]][i])
        OBVIOUS
      <4>1. Library!Unsaved(cache[browser[s]][Owner[i]][i])
        BY <3>1 DEF Held
      <4>2. CASE cache'[browser[s]][Owner[i]] = cache[browser[s]][Owner[i]]
        BY <4>1, <4>2
      <4>3. CASE browser[s] = browser[t] /\ Owner[i] = user[t] /\ cache'[browser[s]][Owner[i]] = works[t]
        <5>1. s = t
          BY <4>3 DEF Library!Lone
        <5> QED BY <4>3, <5>1, <3>1 DEF Held
      <4> QED BY <1>6, <2>o, <4>2, <4>3
    <3> QED BY <1>1, <3>2, <3>3, <3>4 DEF Held, Library!Lone, Library!Unsaved
  <2>2. CASE <<s, i>> \notin kept
    <3>1. s = t /\ i \in Left /\ ~Stored(i) /\ Library!Unsaved(works[t][i]) /\ cache'[browser[t]][user[t]] = works[t]
      BY <1>6, <2>2
    <3>2. user[t] = Owner[i]
      BY <1>2, <3>1 DEF Fair, Library!Unsaved
    <3> QED BY <1>1, <1>3, <1>4, <1>5, <3>1, <3>2 DEF Held, Library!Unsaved
  <2> QED BY <2>1, <2>2
<1>11. Tabled' /\ Listed' /\ Sent' /\ Gone'
  BY <1>1 DEF LibIInv, Tabled, Listed, Sent, Gone, Left, Stored
<1> QED BY <1>7, <1>8, <1>9, <1>10, <1>11 DEF LibIInv

\* A request carries what the page shows.
LEMMA LibRequest ==
  ASSUME Accounts, LibIInv, NEW t \in Tabs, NEW j \in Jobs, user[t] \in Users, shownWorks[t][j] # None
  PROVE  LET p == Library!Request(t, j) IN
         /\ p \in [tab : Tabs, job : Jobs, user : Users, ver : 1 .. MaxClock, at : {"request", "saved"}]
         /\ p.job \in Left /\ (p.at = "saved" \/ p.user # Owner[p.job]) => Stored(p.job)
  BY DEF Accounts, Library!Request, LibIInv, Marked, Fair, Library!TypeOK, Library!Table, Library!Work

\* The debounced save is sent.
LEMMA LibPush ==
  ASSUME Accounts, LibIInv, NEW t \in Tabs, NEW j \in Jobs, Library!Push(t, j)
  PROVE  LibIInv'
<1>1. /\ user[t] \in Users /\ timers' = [timers EXCEPT ![t] = @ \ {j}]
      /\ puts' = IF shownWorks[t][j] = None THEN puts ELSE puts \cup {Library!Request(t, j)}
      /\ UNCHANGED <<browser, user, works, shownWorks, drawn, dirty, cache, deletes, lists, rows, clock, added, removed, kept>>
  BY DEF Library!Push, LibIInv, SignedOn
<1>2. Library!TypeOK' /\ Sent'
  BY <1>1, LibRequest DEF LibIInv, Library!TypeOK, Sent, Left, Stored
<1>3. SignedOn'
  BY <1>1 DEF LibIInv, SignedOn, Library!TypeOK
<1>4. Marked' /\ Tabled' /\ Listed' /\ Gone'
  BY <1>1 DEF LibIInv, Marked, Fair, Tabled, Listed, Gone, Left, Stored
<1>5. Keeping'
  BY <1>1 DEF LibIInv, Keeping, Held, Left, Stored, Library!Lone, Library!Unsaved
<1> QED BY <1>2, <1>3, <1>4, <1>5 DEF LibIInv

\* A record is removed on a page.
LEMMA LibRemove ==
  ASSUME Accounts, LibIInv, NEW t \in Tabs, NEW j \in Jobs, Library!Remove(t, j)
  PROVE  LibIInv'
<1>1. /\ user[t] \in Users /\ removed' = removed \cup {j}
      /\ clock < MaxClock /\ clock' = clock + 1
      /\ timers' = [timers EXCEPT ![t] = @ \ {j}] /\ dirty' = [dirty EXCEPT ![t] = @ \ {j}]
      /\ Library!Lists(t, [works[t] EXCEPT ![j] = None])
      /\ deletes' = deletes \cup {[user |-> user[t], job |-> j]}
      /\ kept' = {k \in kept : k[2] # j}
      /\ UNCHANGED <<browser, user, shownWorks, cache, puts, lists, rows, added>>
  BY DEF Library!Remove, Library!SignedIn, LibIInv, Library!TypeOK
<1>2. PICK list \in Library!Table : list = [works[t] EXCEPT ![j] = None]
  BY DEF LibIInv, Library!TypeOK, Library!Table
<1>3. \A i \in Jobs : list[i] = IF i = j THEN None ELSE works[t][i]
  BY <1>2 DEF LibIInv, Library!TypeOK, Library!Table
<1>4. Library!Lists(t, list) /\ Left' = Left \ {j}
  BY <1>1, <1>2 DEF Left
<1>5. /\ \A i \in Left' : list[i] # None /\ (list[i].synced \/ user[t] # Owner[i]) => Stored(i)
      /\ \A i \in Jobs : <<t, i>> \in kept' /\ user[t] = Owner[i] => Library!Unsaved(list[i])
      /\ \A s \in Tabs, i \in Jobs : <<s, i>> \in kept' => i \in Left'
  <2>1. \A i \in Left \ {j} : list[i] # None /\ (list[i].synced \/ user[t] # Owner[i]) => Stored(i)
    BY <1>3 DEF LibIInv, Marked, Fair, Left
  <2>2. \A s \in Tabs, i \in Jobs : <<s, i>> \in kept' => <<s, i>> \in kept /\ i # j
    BY <1>1
  <2>3. \A i \in Jobs : <<t, i>> \in kept /\ i # j /\ user[t] = Owner[i] => Library!Unsaved(list[i])
    BY <1>3 DEF LibIInv, Keeping, Held
  <2>4. \A s \in Tabs, i \in Jobs : <<s, i>> \in kept => i \in Left
    BY DEF LibIInv, Keeping, Held
  <2> QED BY <1>4, <2>1, <2>2, <2>3, <2>4
<1>6. works' \in [Tabs -> Library!Table] /\ drawn' \in [Tabs -> BOOLEAN] /\ Marked' /\ Keeping'
  <2>1. removed \subseteq removed' /\ kept' \subseteq kept
    BY <1>1
  <2> QED BY <1>1, <1>4, <1>5, <2>1, LibShows
<1>7. Library!TypeOK'
  <2>1. clock' \in 0 .. MaxClock
    BY <1>1 DEF Accounts, LibIInv, Library!TypeOK
  <2>2. dirty' \in [Tabs -> SUBSET Jobs] /\ timers' \in [Tabs -> SUBSET Jobs]
    BY <1>1 DEF LibIInv, Library!TypeOK
  <2>3. deletes' \subseteq [user : Users, job : Jobs] /\ removed' \subseteq Jobs /\ kept' \subseteq Tabs \X Jobs
    BY <1>1 DEF LibIInv, Library!TypeOK
  <2> QED BY <1>1, <1>6, <2>1, <2>2, <2>3 DEF LibIInv, Library!TypeOK
<1>8. SignedOn'
  BY <1>1, <1>4 DEF LibIInv, SignedOn, Library!Lists, Library!TypeOK
<1>9. Tabled' /\ Listed' /\ Sent' /\ Gone'
  BY <1>1, <1>4 DEF LibIInv, Tabled, Listed, Sent, Gone, Stored
<1> QED BY <1>6, <1>7, <1>8, <1>9 DEF LibIInv

\* A save is served, lost or answered.
LEMMA LibPutsServed ==
  ASSUME Accounts, LibIInv, NEW p \in puts,
         \/ Library!Save(p) \/ Library!LosePut(p) \/ Library!Saved(p)
  PROVE  LibIInv'
<1>1. /\ p.tab \in Tabs /\ p.job \in Jobs /\ p.user \in Users /\ p.ver \in 1 .. MaxClock
      /\ [p EXCEPT !.at = "saved"].job = p.job /\ [p EXCEPT !.at = "saved"].user = p.user
      /\ [p EXCEPT !.at = "saved"] \in [tab : Tabs, job : Jobs, user : Users, ver : 1 .. MaxClock, at : {"request", "saved"}]
  BY DEF LibIInv, Library!TypeOK
<1>2. CASE puts' = puts \ {p} /\ UNCHANGED <<browser, user, works, shownWorks, drawn, dirty, timers, cache, deletes, lists, rows, clock, added, removed, kept>>
  <2>1. Library!TypeOK' /\ SignedOn'
    BY <1>2 DEF LibIInv, Library!TypeOK, SignedOn
  <2>2. Marked' /\ Tabled' /\ Listed' /\ Sent' /\ Gone'
    BY <1>2 DEF LibIInv, Marked, Fair, Tabled, Listed, Sent, Gone, Left, Stored
  <2>3. Keeping'
    BY <1>2 DEF LibIInv, Keeping, Held, Left, Stored, Library!Lone, Library!Unsaved
  <2> QED BY <2>1, <2>2, <2>3 DEF LibIInv
<1>3. CASE Library!Save(p)
  <2> DEFINE w == [ver |-> p.ver, synced |-> TRUE]
  <2>1. /\ p.at = "request" /\ puts' = (puts \ {p}) \cup {[p EXCEPT !.at = "saved"]}
        /\ rows' = [rows EXCEPT ![p.user][p.job] = w]
        /\ kept' = {k \in kept : k[2] # p.job \/ Owner[p.job] # p.user}
        /\ UNCHANGED <<browser, user, works, shownWorks, drawn, dirty, timers, cache, deletes, lists, clock, added, removed>>
    BY <1>3 DEF Library!Save, Library!Served, Library!tabVars
  <2>w. w \in Library!Work
    BY <1>1, WorkIs
  <2> HIDE DEF w
  <2>2. w \in Library!Work /\ w # None
    BY <2>w, WorkIs
  <2>3. \A u \in Users, i \in Jobs :
          rows'[u][i] = IF u = p.user /\ i = p.job THEN w ELSE rows[u][i]
    BY <1>1, <2>1 DEF LibIInv, Library!TypeOK, Library!Table
  <2>4. Library!TypeOK' /\ SignedOn'
    <3>1. [rows[p.user] EXCEPT ![p.job] = w] \in Library!Table
      BY <1>1, <2>2 DEF LibIInv, Library!TypeOK, Library!Table
    <3>2. rows' \in [Users -> Library!Table]
      BY <1>1, <2>1, <3>1 DEF LibIInv, Library!TypeOK
    <3> QED BY <1>1, <2>1, <3>2 DEF LibIInv, Library!TypeOK, SignedOn
  <2>5. \A i \in Jobs : /\ Stored(i) => Stored(i)'
                        /\ i = p.job => (p.user = Owner[i] => Stored(i)')
                        /\ (i # p.job \/ Owner[i] # p.user) => (Stored(i)' <=> Stored(i))
    BY <2>2, <2>3 DEF Stored, Accounts
  <2>6. Tabled' /\ Sent'
    <3>1. \A u \in Users, i \in Left : rows'[u][i] # None => Stored(i)'
      BY <1>1, <2>1, <2>3, <2>5 DEF LibIInv, Tabled, Sent, Left
    <3>2. Sent'
      <4> SUFFICES ASSUME NEW q \in puts', q.job \in Left, q.at = "saved" \/ q.user # Owner[q.job]
                   PROVE  Stored(q.job)'
        BY <2>1 DEF Sent, Left, Stored
      <4>1. CASE q \in puts
        BY <2>5, <4>1 DEF LibIInv, Sent, Left
      <4>2. CASE q = [p EXCEPT !.at = "saved"]
        BY <1>1, <2>5, <4>2 DEF LibIInv, Sent, Left
      <4> QED BY <2>1, <4>1, <4>2
    <3> QED BY <2>1, <3>1, <3>2 DEF Tabled, Left, Stored
  <2>7. Marked' /\ Listed' /\ Gone'
    BY <2>1, <2>5 DEF LibIInv, Marked, Fair, Listed, Gone, Left
  <2>8. Keeping'
    <3> SUFFICES ASSUME NEW s \in Tabs, NEW i \in Jobs, <<s, i>> \in kept' PROVE Held(s, i)'
      BY DEF Keeping
    <3>1. <<s, i>> \in kept /\ (i # p.job \/ Owner[i] # p.user)
      BY <2>1
    <3>2. Held(s, i)
      BY <3>1 DEF LibIInv, Keeping
    <3>3. ~Stored(i)' /\ Left' = Left
      BY <2>1, <2>5, <3>1, <3>2 DEF Held, Left
    <3> QED BY <2>1, <3>2, <3>3 DEF Held, Library!Lone, Library!Unsaved
  <2> QED BY <2>4, <2>6, <2>7, <2>8 DEF LibIInv
<1>4. CASE Library!Saved(p) /\ user[p.tab] # None
  <2> DEFINE t == p.tab
  <2>1. /\ p.at = "saved" /\ puts' = puts \ {p} /\ user[t] \in Users
        /\ Library!Lists(t, IF works[t][p.job] # None THEN [works[t] EXCEPT ![p.job].synced = TRUE] ELSE works[t])
        /\ UNCHANGED <<browser, user, shownWorks, dirty, timers, cache, deletes, lists, rows, clock, added, removed, kept>>
    BY <1>1, <1>4 DEF Library!Saved, Library!SignedIn, LibIInv, Library!TypeOK
  <2>2. works[t][p.job] # None =>
          LET w == [works[t][p.job] EXCEPT !.synced = TRUE] IN w \in Library!Work /\ w # None /\ w.synced
    <3>1. works[t][p.job] \in Library!Work \cup {None}
      BY <1>1 DEF LibIInv, Library!TypeOK, Library!Table
    <3> QED BY <3>1, WorkIs
  <2>3. PICK list \in Library!Table :
          list = IF works[t][p.job] # None THEN [works[t] EXCEPT ![p.job].synced = TRUE] ELSE works[t]
    BY <1>1, <2>2 DEF LibIInv, Library!TypeOK, Library!Table
  <2>4. \A i \in Jobs : i # p.job => list[i] = works[t][i]
    BY <1>1, <2>3 DEF LibIInv, Library!TypeOK, Library!Table
  <2>5. Library!Lists(t, list) /\ Left' = Left
    BY <2>1, <2>3 DEF Left
  <2>6. p.job \in Left => Stored(p.job)
    BY <1>1, <2>1 DEF LibIInv, Sent
  <2>7. /\ \A i \in Left' : list[i] # None /\ (list[i].synced \/ user[t] # Owner[i]) => Stored(i)
        /\ \A i \in Jobs : <<t, i>> \in kept' /\ user[t] = Owner[i] => Library!Unsaved(list[i])
        /\ \A s \in Tabs, i \in Jobs : <<s, i>> \in kept' => i \in Left'
    <3>1. \A i \in Left : list[i] # None /\ (list[i].synced \/ user[t] # Owner[i]) => Stored(i)
      BY <1>1, <2>4, <2>6 DEF LibIInv, Marked, Fair, Left
    <3>2. \A s \in Tabs, i \in Jobs : <<s, i>> \in kept => i \in Left /\ i # p.job
      BY <2>6 DEF LibIInv, Keeping, Held
    <3>3. \A i \in Jobs : <<t, i>> \in kept /\ user[t] = Owner[i] => Library!Unsaved(list[i])
      BY <1>1, <2>4, <3>2 DEF LibIInv, Keeping, Held
    <3> QED BY <2>1, <2>5, <3>1, <3>2, <3>3
  <2> HIDE DEF t
  <2>8. works' \in [Tabs -> Library!Table] /\ drawn' \in [Tabs -> BOOLEAN] /\ Marked' /\ Keeping'
    <3>1. t \in Tabs
      BY <1>1 DEF t
    <3> QED BY <2>1, <2>5, <2>7, <3>1, LibShows
  <2>9. Library!TypeOK'
    BY <2>1, <2>8 DEF LibIInv, Library!TypeOK
  <2>10. SignedOn'
    BY <1>1, <2>1, <2>5 DEF LibIInv, SignedOn, Library!Lists, Library!TypeOK
  <2>11. Tabled' /\ Listed' /\ Sent' /\ Gone'
    BY <2>1 DEF LibIInv, Tabled, Listed, Sent, Gone, Left, Stored
  <2> QED BY <2>8, <2>9, <2>10, <2>11 DEF LibIInv
<1>5. Library!LosePut(p) \/ (Library!Saved(p) /\ user[p.tab] = None) =>
        puts' = puts \ {p} /\ UNCHANGED <<browser, user, works, shownWorks, drawn, dirty, timers, cache, deletes, lists, rows, clock, added, removed, kept>>
  BY DEF Library!LosePut, Library!Saved, Library!SignedIn, Library!tabVars
<1> QED BY <1>2, <1>3, <1>4, <1>5

\* A removal is served or lost.
LEMMA LibServeDelete ==
  ASSUME Accounts, LibIInv, NEW r \in deletes, Library!ServeDelete(r)
  PROVE  LibIInv'
<1>1. /\ r.user \in Users /\ r.job \in Jobs /\ r.job \in removed
      /\ deletes' = deletes \ {r}
      /\ UNCHANGED <<browser, user, works, shownWorks, drawn, dirty, timers, cache, puts, lists, clock, added, removed, kept>>
      /\ rows' = [rows EXCEPT ![r.user][r.job] = None] \/ rows' = rows
  BY DEF Library!ServeDelete, Library!tabVars, LibIInv, Library!TypeOK, Gone
<1>2. /\ rows' \in [Users -> Library!Table]
      /\ \A u \in Users, i \in Left : rows'[u][i] = rows[u][i]
  <2>1. CASE rows' = rows
    BY <2>1 DEF LibIInv, Library!TypeOK
  <2>2. CASE rows' = [rows EXCEPT ![r.user][r.job] = None]
    <3>1. [rows[r.user] EXCEPT ![r.job] = None] \in Library!Table
      BY <1>1 DEF LibIInv, Library!TypeOK, Library!Table
    <3>2. rows' \in [Users -> Library!Table]
      BY <1>1, <2>2, <3>1 DEF LibIInv, Library!TypeOK
    <3>3. \A u \in Users, i \in Jobs \ {r.job} : rows'[u][i] = rows[u][i]
      BY <1>1, <2>2 DEF LibIInv, Library!TypeOK, Library!Table
    <3> QED BY <1>1, <3>2, <3>3 DEF Left
  <2> QED BY <1>1, <2>1, <2>2
<1>3. Library!TypeOK' /\ SignedOn'
  BY <1>1, <1>2 DEF LibIInv, Library!TypeOK, SignedOn
<1>4. Left' = Left /\ \A i \in Left : Stored(i)' <=> Stored(i)
  BY <1>1, <1>2 DEF Stored, Left, Accounts
<1>5. Marked' /\ Tabled' /\ Listed' /\ Gone' /\ Sent'
  BY <1>1, <1>2, <1>4 DEF LibIInv, Marked, Fair, Tabled, Listed, Gone, Sent
<1>6. Keeping'
  BY <1>1, <1>4 DEF LibIInv, Keeping, Held, Library!Lone, Library!Unsaved
<1> QED BY <1>3, <1>5, <1>6 DEF LibIInv

\* What the API's answers are.
Answers == [tab : Tabs, user : Users, at : 1 .. MaxClock + 1, answer : {<<>>} \cup {<<t>> : t \in Library!Table}]

\* A list is answered or lost.
LEMMA LibLists ==
  ASSUME Accounts, LibIInv, NEW l \in lists, Library!List(l) \/ Library!LoseList(l)
  PROVE  LibIInv'
<1>1. l.user \in Users /\ rows[l.user] \in Library!Table /\ lists \subseteq Answers
      /\ UNCHANGED <<browser, user, works, shownWorks, drawn, dirty, timers, cache, puts, deletes, rows, clock, added, removed, kept>>
  BY DEF LibIInv, Library!TypeOK, Library!List, Library!LoseList, Library!tabVars, Answers
<1>2. [l EXCEPT !.answer = <<rows[l.user]>>] \in Answers
  BY <1>1 DEF Answers
<1>3. [l EXCEPT !.answer = <<rows[l.user]>>].answer[1] = rows[l.user]
  BY <1>1 DEF Answers
<1>4. Library!TypeOK' /\ SignedOn'
  <2>1. lists' \subseteq Answers
    BY <1>1, <1>2 DEF Library!List, Library!LoseList
  <2> QED BY <1>1, <2>1 DEF LibIInv, Library!TypeOK, SignedOn, Answers
<1>5. Listed'
  BY <1>1, <1>3 DEF Library!List, Library!LoseList, LibIInv, Listed, Tabled, Left, Stored
<1>6. Marked' /\ Tabled' /\ Sent' /\ Gone'
  BY <1>1 DEF LibIInv, Marked, Fair, Tabled, Sent, Gone, Left, Stored
<1>7. Keeping'
  BY <1>1 DEF LibIInv, Keeping, Held, Left, Stored, Library!Lone, Library!Unsaved
<1> QED BY <1>4, <1>5, <1>6, <1>7 DEF LibIInv

\* A list is asked for.
LEMMA LibAsk ==
  ASSUME Accounts, LibIInv, NEW t \in Tabs, NEW u \in Users, Library!Ask(t, u), clock' = clock, UNCHANGED <<rows, removed>>
  PROVE  lists' \subseteq Answers /\ Listed'
<1>1. [tab |-> t, user |-> u, at |-> clock + 1, answer |-> <<>>] \in Answers
  <2>1. clock + 1 \in 1 .. MaxClock + 1
    BY DEF Accounts, LibIInv, Library!TypeOK
  <2> QED BY <2>1 DEF Answers
<1>2. lists' \subseteq Answers
  BY <1>1 DEF Library!Ask, LibIInv, Library!TypeOK, Answers
<1>3. Listed'
  BY DEF Library!Ask, LibIInv, Listed, Left, Stored
<1> QED BY <1>2, <1>3

\* A page asks for its list.
LEMMA LibRefresh ==
  ASSUME Accounts, LibIInv, NEW t \in Tabs, Library!Refresh(t)
  PROVE  LibIInv'
<1>1. user[t] \in Users /\ Library!Ask(t, user[t])
      /\ UNCHANGED <<browser, user, works, shownWorks, drawn, dirty, timers, cache, puts, deletes, rows, clock, added, removed, kept>>
  BY DEF Library!Refresh, Library!SignedIn, Library!tabVars, LibIInv, Library!TypeOK
<1>2. lists' \subseteq Answers /\ Listed'
  BY <1>1, LibAsk
<1>3. Library!TypeOK' /\ SignedOn'
  BY <1>1, <1>2 DEF LibIInv, Library!TypeOK, SignedOn, Answers
<1>4. Marked' /\ Tabled' /\ Sent' /\ Gone'
  BY <1>1 DEF LibIInv, Marked, Fair, Tabled, Sent, Gone, Left, Stored
<1>5. Keeping'
  BY <1>1 DEF LibIInv, Keeping, Held, Left, Stored, Library!Lone, Library!Unsaved
<1> QED BY <1>2, <1>3, <1>4, <1>5 DEF LibIInv

\* The account of a tab changes.
LEMMA LibSwitch ==
  ASSUME Accounts, LibIInv, NEW t \in Tabs, NEW u \in Users \cup {None}, Library!Switch(t, u)
  PROVE  LibIInv'
<1> DEFINE list == IF u = None THEN Library!Empty ELSE cache[browser[t]][u]
<1>1. /\ user' = [user EXCEPT ![t] = u] /\ timers' = [timers EXCEPT ![t] = {}] /\ dirty' = [dirty EXCEPT ![t] = {}]
      /\ works' = [works EXCEPT ![t] = list] /\ shownWorks' = [shownWorks EXCEPT ![t] = list]
      /\ drawn' = [drawn EXCEPT ![t] = (u = None)]
      /\ kept' = {k \in kept : k[1] # t \/ Library!Lone(t)}
      /\ IF u = None THEN UNCHANGED lists ELSE Library!Ask(t, u)
      /\ UNCHANGED <<browser, cache, puts, deletes, rows, clock, added, removed>>
  BY DEF Library!Switch
<1>2. list \in Library!Table /\ browser[t] \in Browsers
  BY DEF LibIInv, Library!TypeOK, Library!Table, Library!Empty
<1>3. \A i \in Left : list[i] # None /\ (list[i].synced \/ u # Owner[i]) => Stored(i)
  BY <1>2 DEF LibIInv, Marked, Fair, Library!Empty, Left
<1>4. u \in Users => list = cache[browser[t]][u]
  BY DEF Accounts, LibIInv, Library!TypeOK
<1>5. lists' \subseteq Answers /\ Listed'
  <2>1. CASE u = None
    BY <1>1, <2>1 DEF LibIInv, Library!TypeOK, Answers, Listed, Left, Stored
  <2>2. CASE u # None
    BY <1>1, <2>2, LibAsk
  <2> QED BY <2>1, <2>2
<1> HIDE DEF list
<1>6. \A s \in Tabs : /\ user'[s] = IF s = t THEN u ELSE user[s]
                      /\ works'[s] = IF s = t THEN list ELSE works[s]
                      /\ shownWorks'[s] = IF s = t THEN list ELSE shownWorks[s]
  BY <1>1 DEF LibIInv, Library!TypeOK
<1>7. Library!TypeOK'
  BY <1>1, <1>2, <1>5 DEF LibIInv, Library!TypeOK, Answers
<1>8. SignedOn'
  BY <1>1 DEF LibIInv, SignedOn, Library!TypeOK
<1>9. Left' = Left /\ \A i \in Jobs : Stored(i)' <=> Stored(i)
  BY <1>1 DEF Left, Stored
<1>10. Marked'
  <2>1. ASSUME NEW s \in Tabs PROVE Fair(works[s], user[s])' /\ Fair(shownWorks[s], user[s])'
    <3>1. CASE s = t
      BY <1>3, <1>6, <1>9, <3>1 DEF Fair, Left
    <3>2. CASE s # t
      BY <1>6, <1>9, <3>2 DEF LibIInv, Marked, Fair, Left
    <3> QED BY <3>1, <3>2
  <2>2. \A b \in Browsers, v \in Users : Fair(cache[b][v], v)'
    BY <1>1, <1>9 DEF LibIInv, Marked, Fair, Left
  <2> QED BY <2>1, <2>2 DEF Marked
<1>11. Keeping'
  <2> SUFFICES ASSUME NEW s \in Tabs, NEW i \in Jobs, <<s, i>> \in kept' PROVE Held(s, i)'
    BY DEF Keeping
  <2>1. <<s, i>> \in kept /\ (s # t \/ Library!Lone(t))
    BY <1>1
  <2>2. Held(s, i) /\ Owner[i] \in Users
    BY <2>1 DEF LibIInv, Keeping, Accounts
  <2>3. user'[s] = Owner[i] => Library!Unsaved(works'[s][i]) /\ Library!Unsaved(shownWorks'[s][i])
    <3>1. CASE s # t
      BY <1>6, <2>2, <3>1 DEF Held
    <3>2. CASE s = t
      BY <1>4, <1>6, <2>1, <2>2, <3>2 DEF Held
    <3> QED BY <3>1, <3>2
  <2> QED BY <1>1, <1>9, <2>2, <2>3 DEF Held, Library!Lone, Library!Unsaved
<1>12. Tabled' /\ Sent' /\ Gone'
  BY <1>1 DEF LibIInv, Tabled, Sent, Gone, Left, Stored
<1> QED BY <1>5, <1>7, <1>8, <1>10, <1>11, <1>12 DEF LibIInv

\* A list is merged with what the page then shows.
LEMMA LibMerge ==
  ASSUME Accounts, LibIInv, NEW l \in lists, Library!Merge(l)
  PROVE  LibIInv'
<1> DEFINE t == l.tab
           server == l.answer[1]
           keeps == {j \in Jobs : shownWorks[t][j] # None /\ Library!Keeps(shownWorks[t][j], server[j], l.at)}
<1>1. t \in Tabs /\ server \in Library!Table /\ l.answer # <<>>
  BY DEF Library!Merge, LibIInv, Library!TypeOK
<1>2. lists' = lists \ {l} /\ UNCHANGED <<browser, user, shownWorks, dirty, timers, cache, deletes, rows, clock, added, removed, kept>>
  BY DEF Library!Merge
<1>3. CASE user[t] = None
  <2>1. UNCHANGED <<works, drawn, puts>>
    BY <1>3 DEF Library!Merge, Library!SignedIn
  <2>2. Library!TypeOK' /\ SignedOn'
    BY <1>2, <2>1 DEF LibIInv, Library!TypeOK, SignedOn
  <2>3. Marked' /\ Tabled' /\ Listed' /\ Sent' /\ Gone'
    BY <1>2, <2>1 DEF LibIInv, Marked, Fair, Tabled, Listed, Sent, Gone, Left, Stored
  <2>4. Keeping'
    BY <1>2, <2>1 DEF LibIInv, Keeping, Held, Left, Stored, Library!Lone, Library!Unsaved
  <2> QED BY <2>2, <2>3, <2>4 DEF LibIInv
<1>4. CASE user[t] # None
  <2>1. /\ Library!Lists(t, [j \in Jobs |-> IF j \in keeps THEN shownWorks[t][j] ELSE server[j]])
        /\ puts' = puts \cup {Library!Request(t, j) : j \in keeps}
        /\ user[t] \in Users
    BY <1>1, <1>4 DEF Library!Merge, Library!SignedIn, LibIInv, Library!TypeOK
  <2>2. PICK list \in Library!Table : list = [j \in Jobs |-> IF j \in keeps THEN shownWorks[t][j] ELSE server[j]]
    <3>1. \A j \in Jobs : shownWorks[t][j] \in Library!Work \cup {None} /\ server[j] \in Library!Work \cup {None}
      BY <1>1 DEF LibIInv, Library!TypeOK, Library!Table
    <3> HIDE DEF keeps, server, t
    <3> QED BY <3>1 DEF Library!Table
  <2>3. \A j \in Jobs : list[j] = IF j \in keeps THEN shownWorks[t][j] ELSE server[j]
    BY <2>2
  <2>4. \A j \in keeps : j \in Jobs /\ shownWorks[t][j] # None
    OBVIOUS
  <2>5. \A j \in Jobs : Library!Unsaved(shownWorks[t][j]) /\ server[j] = None => j \in keeps
    BY DEF Library!Keeps, Library!Unsaved
  <2>6. Library!Lists(t, list) /\ Left' = Left
    BY <1>2, <2>1, <2>2 DEF Left
  <2>7. \A j \in Left : server[j] # None => Stored(j)
    BY <1>1 DEF LibIInv, Listed
  <2> HIDE DEF keeps, server
  <2>8. /\ \A i \in Left' : list[i] # None /\ (list[i].synced \/ user[t] # Owner[i]) => Stored(i)
        /\ \A i \in Jobs : <<t, i>> \in kept' /\ user[t] = Owner[i] => Library!Unsaved(list[i])
        /\ \A s \in Tabs, i \in Jobs : <<s, i>> \in kept' => i \in Left'
    <3>1. \A i \in Left : list[i] # None /\ (list[i].synced \/ user[t] # Owner[i]) => Stored(i)
      BY <1>1, <2>3, <2>7 DEF LibIInv, Marked, Fair, Left
    <3>2. \A s \in Tabs, i \in Jobs : <<s, i>> \in kept => i \in Left
      BY DEF LibIInv, Keeping, Held
    <3>3. \A i \in Jobs : <<t, i>> \in kept /\ user[t] = Owner[i] => Library!Unsaved(list[i])
      <4> SUFFICES ASSUME NEW i \in Jobs, <<t, i>> \in kept, user[t] = Owner[i] PROVE Library!Unsaved(list[i])
        OBVIOUS
      <4>1. Held(t, i)
        BY <1>1 DEF LibIInv, Keeping
      <4>2. server[i] = None /\ Library!Unsaved(shownWorks[t][i])
        BY <2>7, <4>1 DEF Held
      <4> QED BY <2>3, <2>5, <4>2
    <3> QED BY <1>2, <2>6, <3>1, <3>2, <3>3
  <2>9. \A j \in keeps : LET p == Library!Request(t, j) IN
            /\ p \in [tab : Tabs, job : Jobs, user : Users, ver : 1 .. MaxClock, at : {"request", "saved"}]
            /\ p.job \in Left /\ (p.at = "saved" \/ p.user # Owner[p.job]) => Stored(p.job)
    BY <1>1, <2>1, <2>4, LibRequest
  <2> HIDE DEF t
  <2>10. works' \in [Tabs -> Library!Table] /\ drawn' \in [Tabs -> BOOLEAN] /\ Marked' /\ Keeping'
    BY <1>1, <1>2, <2>1, <2>6, <2>8, LibShows
  <2>11. Library!TypeOK'
    BY <1>2, <2>1, <2>9, <2>10 DEF LibIInv, Library!TypeOK
  <2>12. SignedOn'
    BY <1>1, <1>2, <2>1, <2>6 DEF LibIInv, SignedOn, Library!Lists, Library!TypeOK
  <2>13. Sent'
    BY <1>2, <2>1, <2>9 DEF LibIInv, Sent, Left, Stored
  <2>14. Tabled' /\ Listed' /\ Gone'
    BY <1>2 DEF LibIInv, Tabled, Listed, Gone, Left, Stored
  <2> QED BY <2>10, <2>11, <2>12, <2>13, <2>14 DEF LibIInv
<1> QED BY <1>3, <1>4

\* One case per action.
LEMMA LibNext == ASSUME Accounts, LibIInv, [Library!Next]_(Library!vars) PROVE LibIInv'
<1>1. CASE Library!Network
  BY <1>1, LibPutsServed, LibServeDelete, LibLists, LibMerge DEF Library!Network
<1>2. ASSUME NEW t \in Tabs, Library!Page(t) PROVE LibIInv'
  BY <1>2, LibDraw, LibRefresh, LibAdd, LibUpdate, LibPush, LibRemove, LibSwitch DEF Library!Page
<1>3. CASE UNCHANGED Library!vars
  <2>1. UNCHANGED <<browser, user, works, shownWorks, drawn, dirty, timers, cache, puts, deletes, lists, rows, clock, added, removed, kept>>
    BY <1>3 DEF Library!vars, Library!tabVars
  <2>2. Library!TypeOK' /\ SignedOn'
    BY <2>1 DEF LibIInv, Library!TypeOK, SignedOn
  <2>3. Marked' /\ Tabled' /\ Listed' /\ Sent' /\ Gone'
    BY <2>1 DEF LibIInv, Marked, Fair, Tabled, Listed, Sent, Gone, Left, Stored
  <2>4. Keeping'
    BY <2>1 DEF LibIInv, Keeping, Held, Left, Stored, Library!Lone, Library!Unsaved
  <2> QED BY <2>2, <2>3, <2>4 DEF LibIInv
<1> QED BY <1>1, <1>2, <1>3 DEF Library!Next

\* The invariant, in every behaviour.
LEMMA LibInvariant == Library!Spec => []LibIInv
<1> USE WorksAssumption DEF Accounts
<1>1. Library!Init => LibIInv
  BY LibInit
<1>2. LibIInv /\ [Library!Next]_(Library!vars) => LibIInv'
  BY LibNext
<1> QED BY <1>1, <1>2, PTL DEF Library!Spec

\* The records, the requests and the answers have their types.
THEOREM WorksTypeCorrect == Library!Spec => []Library!TypeOK
<1>1. LibIInv => Library!TypeOK
  BY DEF LibIInv
<1> QED BY <1>1, LibInvariant, PTL

\* A dub a page has drawn and stored, and that nobody removed, is in the account, or still
\* there unsaved: on that page while it stays with its account, and in its browser's storage
\* if that has no other tab; and a record shown as synced is one the API has, however saves
\* and lists overtake one another (works.tsx:13-15, 72, 148-186).
THEOREM RecordsAreKept == Library!Spec => []WorksKept
<1>1. LibIInv => WorksKept
  <2> SUFFICES ASSUME LibIInv PROVE Library!NoWorkLost /\ Library!SyncedIsStored
    BY DEF WorksKept, Library!WorksKept
  <2>1. Library!NoWorkLost
    BY DEF LibIInv, Keeping, Held, Library!NoWorkLost
  <2>2. Library!SyncedIsStored
    BY DEF LibIInv, Marked, Fair, Left, Stored, Library!SyncedIsStored, Library!Unsaved
  <2> QED BY <2>1, <2>2
<1> QED BY <1>1, LibInvariant, PTL

-----------------------------------------------------------------------------
(* The pipeline (Pipeline) *)

\* The steps before a voice is found, and those after.
Seeking == {"asr", "nmt", "navoiy", "omnivoice", "edge", "tone"}
Made == {"separation", "gate", "lipsync", "sync", "mux", "subtitles", "finish", "done"}
Ended == {"done", "skipped"}
RunTyped ==
  /\ runAt \in Seeking \cup {"voiced", "failed"} \cup Made
  /\ text \in [lines : Found, heard : {"no", "real", "demo"}, said : {"nothing", "translated", "demo", "corrected"}]
  /\ runSound \in [by : {"nobody", "Navoiy", "OmniVoice", "edge-tts", "tone"}, cloned : BOOLEAN, lines : Nat]
  /\ runSound.lines <= text.lines /\ bed \in {"none", "leaking", "gated"} /\ wav \in BOOLEAN /\ again \in BOOLEAN
  /\ told \in [engine : {"simulation", "Navoiy", "OmniVoice", "edge-tts"}, cloned : BOOLEAN, real : BOOLEAN]
  /\ out \in [file : {"none", "dub"}, url : BOOLEAN, subs : {"none", "track", "burned"}]
\* The job names no engine until one has voiced it, and then the one that did.
Named ==
  /\ runAt \in {"asr", "nmt"} => runSound.lines = 0
  /\ runAt \in Seeking => told.engine = "simulation"
  /\ runAt = "voiced" => told.engine # "simulation" /\ runSound.by = told.engine
  /\ runAt \in Made /\ told.engine # "simulation" => runSound.by = told.engine
\* There is a file from the mux on, and an address once the job is done.
HandedBack ==
  /\ out.url => runAt = "done"
  /\ runAt \in {"subtitles", "finish", "done"} => out.file = "dub" /\ runSound.by # "nobody"
\* There is no bed before the separation, and one that leaks past the gate only where no
\* line was found.
Quiet ==
  /\ runAt \in Seeking \cup {"voiced", "separation"} => bed = "none"
  /\ runAt \notin {"separation", "gate"} /\ bed = "leaking" => text.lines = 0
\* A stage is over once the run is past it, and has failed only where the run has.
StagesAre ==
  /\ stage \in [Run!Stages -> {"pending", "done", "skipped", "failed"}]
  /\ runAt \notin {"asr", "failed"} => stage["asr"] \in Ended
  /\ runAt \notin {"asr", "nmt", "failed"} => stage["nmt"] \in Ended
  /\ runAt \in Made => stage["tts"] \in Ended
  /\ runAt \in Made \ {"separation", "gate"} => stage["separation"] \in Ended
  /\ runAt \in {"sync", "mux", "subtitles", "finish", "done"} => stage["lipsync"] \in Ended
  /\ runAt \in {"finish", "done"} => stage["sync"] \in Ended
  /\ runAt # "failed" => \A k \in Run!Stages : stage[k] # "failed"
  /\ runAt = "failed" => \E k \in Run!Stages : stage[k] = "failed" /\ \A j \in Run!Stages \ {k} : stage[j] # "failed"
RunInv == RunTyped /\ Named /\ HandedBack /\ Quiet /\ StagesAre

LEMMA StageNames == Run!Stages = {"asr", "nmt", "tts", "separation", "lipsync", "sync"} BY DEF Run!Stages

LEMMA InitRunInv == Run!Init => RunInv
<1> SUFFICES ASSUME Run!Init PROVE RunInv OBVIOUS
<1> USE DEF Run!Init
<1>1. RunTyped
  <2>1. runSound.lines <= text.lines BY DEF Run!Mute
  <2>2. runAt \in Seeking BY DEF Seeking
  <2>3. text \in [lines : Found, heard : {"no", "real", "demo"}, said : {"nothing", "translated", "demo", "corrected"}]
    BY PipelineAssumption
  <2> QED BY <2>1, <2>2, <2>3 DEF Run!Mute, Run!Unsaid, RunTyped
<1>2. Named BY DEF Run!Mute, Run!Unsaid, Named, Made
<1>3. HandedBack /\ Quiet BY DEF HandedBack, Quiet
<1>4. StagesAre BY DEF StagesAre, Made
<1> QED BY <1>1, <1>2, <1>3, <1>4 DEF RunInv

\* Recognition and translation.
LEMMA WordsKeep == ASSUME RunInv, Run!Hear \/ Run!Translate PROVE RunInv'
<1> USE DEF RunInv, Run!Pass, Run!Ends
<1>1. CASE Run!Hear
  <2>1. /\ runAt = "asr" /\ runAt' = "nmt" /\ stage' = [stage EXCEPT !["asr"] = "done"]
        /\ UNCHANGED <<opts, again, runSound, bed, out, first>>
    BY <1>1 DEF Run!Hear
  <2> DEFINE Read == /\ text' \in [lines : Found, heard : {"no", "real", "demo"}, said : {"nothing", "translated", "demo", "corrected"}]
                     /\ told' \in [engine : {"simulation", "Navoiy", "OmniVoice", "edge-tts"}, cloned : BOOLEAN, real : BOOLEAN]
                     /\ told'.engine = told.engine /\ wav' \in BOOLEAN
  <2>2. Read
    <3>1. CASE again /\ UNCHANGED <<text, wav, told>> BY <3>1 DEF RunTyped
    <3>2. ASSUME NEW f \in BOOLEAN, NEW n \in Found,
                 text' = [lines |-> IF f THEN n ELSE 0, heard |-> "real", said |-> "nothing"],
                 told' = [told EXCEPT !.real = TRUE], wav' = f
          PROVE  Read
      BY <3>2, PipelineAssumption DEF RunTyped
    <3>3. ASSUME NEW n \in Found, text' = [lines |-> n, heard |-> "demo", said |-> "nothing"], UNCHANGED <<wav, told>>
          PROVE  Read
      BY <3>3 DEF RunTyped
    <3> QED BY <1>1, <3>1, <3>2, <3>3 DEF Run!Hear
  <2>3. runSound.lines = 0 /\ text'.lines \in Nat BY <2>1, <2>2, PipelineAssumption DEF Named
  <2>4. RunTyped' BY <2>1, <2>2, <2>3 DEF RunTyped, Seeking
  <2>5. Named' /\ HandedBack' /\ Quiet' BY <2>1, <2>2, <2>3 DEF Named, HandedBack, Quiet, Seeking, Made
  <2>6. StagesAre' BY <2>1, StageNames DEF StagesAre, Made, Ended
  <2> QED BY <2>4, <2>5, <2>6
<1>2. CASE Run!Translate
  <2>1. /\ runAt = "nmt" /\ runAt' = "navoiy" /\ stage' = [stage EXCEPT !["nmt"] = "done"]
        /\ UNCHANGED <<opts, again, wav, runSound, bed, out, first>>
    BY <1>2 DEF Run!Translate
  <2>2. /\ text' \in [lines : Found, heard : {"no", "real", "demo"}, said : {"nothing", "translated", "demo", "corrected"}]
        /\ told' \in [engine : {"simulation", "Navoiy", "OmniVoice", "edge-tts"}, cloned : BOOLEAN, real : BOOLEAN]
        /\ told'.engine = told.engine /\ text'.lines = text.lines
    BY <1>2 DEF Run!Translate, RunTyped
  <2>3. RunTyped' BY <2>1, <2>2 DEF RunTyped, Seeking
  <2>4. Named' /\ HandedBack' /\ Quiet' BY <2>1, <2>2 DEF Named, HandedBack, Quiet, Seeking, Made
  <2>5. StagesAre' BY <2>1, StageNames DEF StagesAre, Made, Ended
  <2> QED BY <2>3, <2>4, <2>5
<1> QED BY <1>1, <1>2

\* An engine that is asked, and manages or does not.
LEMMA FoundVoiceKeeps ==
  ASSUME RunInv, NEW here \in Seeking \ {"asr", "nmt"}, NEW next \in Seeking \ {"asr", "nmt"}, NEW cloned \in BOOLEAN,
         NEW by \in {"Navoiy", "edge-tts"}, Run!Voice(here, by, cloned, next)
  PROVE  RunInv'
<1>1. runAt = here /\ runAt' \in {next, "voiced"} /\ UNCHANGED <<opts, again, text, wav, bed, stage, out, first>>
  BY DEF Run!Voice
<1> DEFINE Heard ==
      /\ runSound' \in [by : {"nobody", "Navoiy", "OmniVoice", "edge-tts", "tone"}, cloned : BOOLEAN, lines : Nat]
      /\ told' \in [engine : {"simulation", "Navoiy", "OmniVoice", "edge-tts"}, cloned : BOOLEAN, real : BOOLEAN]
      /\ runSound'.lines <= text.lines
      /\ runAt' = next => told'.engine = told.engine
      /\ runAt' = "voiced" => told'.engine = by /\ runSound'.by = by
<1>2. Heard
  <2>1. text.lines \in Nat BY PipelineAssumption DEF RunInv, RunTyped
  <2>2. RunTyped BY DEF RunInv
  <2>3. CASE UNCHANGED <<runSound, told>> /\ runAt' = next BY <2>2, <2>3 DEF RunTyped, Seeking
  <2>4. ASSUME NEW n \in 1..text.lines, runSound' = [by |-> by, cloned |-> cloned, lines |-> n],
               told' = [engine |-> by, cloned |-> cloned, real |-> TRUE], runAt' = "voiced"
        PROVE  Heard
    BY <2>1, <2>4 DEF Seeking
  <2>5. CASE runSound' = [by |-> by, cloned |-> cloned, lines |-> 0] /\ UNCHANGED told /\ runAt' = next
    BY <2>1, <2>2, <2>5 DEF RunTyped, Seeking
  <2> QED BY <2>3, <2>4, <2>5 DEF Run!Voice, Run!Says
<1>3. RunTyped' BY <1>1, <1>2 DEF RunInv, RunTyped
<1>4. Named' /\ HandedBack' /\ Quiet' BY <1>1, <1>2 DEF RunInv, Named, HandedBack, Quiet, Seeking, Made
<1>5. StagesAre' BY <1>1 DEF RunInv, StagesAre, Seeking, Made
<1> QED BY <1>3, <1>4, <1>5 DEF RunInv

LEMMA EnginesKeep ==
  ASSUME RunInv, Run!Navoiy \/ Run!NoNavoiy \/ Run!Omnivoice \/ Run!NoOmnivoice \/ Run!Edge \/ Run!Convert
  PROVE  RunInv'
<1>1. CASE Run!Navoiy
  <2>1. PICK r \in Run!SpeakerRefs : Run!Voice("navoiy", "Navoiy", Run!Wants /\ r.audio, "omnivoice") BY <1>1 DEF Run!Navoiy
  <2>2. (Run!Wants /\ r.audio) \in BOOLEAN OBVIOUS
  <2> QED BY <2>1, <2>2, FoundVoiceKeeps DEF Seeking
<1>2. CASE Run!NoNavoiy \/ Run!NoOmnivoice
  <2>1. /\ <<runAt, runAt'>> \in {<<"navoiy", "omnivoice">>, <<"omnivoice", "edge">>}
        /\ UNCHANGED <<opts, again, text, wav, runSound, told, bed, stage, out, first>>
    BY <1>2 DEF Run!NoNavoiy, Run!NoOmnivoice, Run!Pass
  <2>2. runAt \in {"navoiy", "omnivoice"} /\ runAt' \in {"omnivoice", "edge"} BY <2>1
  <2>3. RunTyped' /\ Named' /\ HandedBack' /\ Quiet' BY <2>1, <2>2 DEF RunInv, RunTyped, Named, HandedBack, Quiet, Seeking, Made
  <2>4. StagesAre' BY <2>1, <2>2 DEF RunInv, StagesAre, Made
  <2> QED BY <2>3, <2>4 DEF RunInv
<1>3. CASE Run!Omnivoice
  <2>1. PICK r \in Run!SpeakerRefs, n \in 0..text.lines :
          runSound' = [by |-> "OmniVoice", cloned |-> r.words, lines |-> n] /\ Run!Says("OmniVoice", r.audio)
    BY <1>3 DEF Run!Omnivoice
  <2>2. runAt = "omnivoice" /\ runAt' = "voiced" /\ UNCHANGED <<opts, again, text, wav, bed, stage, out, first>>
    BY <1>3 DEF Run!Omnivoice
  <2>3. r.words \in BOOLEAN /\ r.audio \in BOOLEAN /\ n \in Nat /\ n <= text.lines
    BY PipelineAssumption DEF Run!SpeakerRefs, RunInv, RunTyped
  <2>4. RunTyped' /\ Named' /\ HandedBack' /\ Quiet'
    BY <2>1, <2>2, <2>3 DEF Run!Says, RunInv, RunTyped, Named, HandedBack, Quiet, Seeking, Made
  <2>5. StagesAre' BY <2>2 DEF RunInv, StagesAre, Made
  <2> QED BY <2>4, <2>5 DEF RunInv
<1>4. CASE Run!Edge BY <1>4, FoundVoiceKeeps DEF Run!Edge, Seeking
<1>5. CASE Run!Convert
  <2>1. /\ runAt = "voiced" /\ runSound' = [runSound EXCEPT !.cloned = TRUE] /\ told' = [told EXCEPT !.cloned = TRUE]
        /\ UNCHANGED <<opts, runAt, again, text, wav, bed, stage, out, first>>
    BY <1>5 DEF Run!Convert
  <2>2. RunTyped' /\ Named' /\ HandedBack' /\ Quiet' BY <2>1 DEF RunInv, RunTyped, Named, HandedBack, Quiet, Seeking, Made
  <2>3. StagesAre' BY <2>1 DEF RunInv, StagesAre
  <2> QED BY <2>2, <2>3 DEF RunInv
<1> QED BY <1>1, <1>2, <1>3, <1>4, <1>5

\* A job that fails in a stage.
LEMMA FailureIsTold ==
  ASSUME RunInv, NEW k \in Run!Stages, runAt # "failed", runAt # "done", runAt' = "failed", stage' = [stage EXCEPT ![k] = "failed"],
         UNCHANGED <<opts, again, text, wav, runSound, told, out, first>>, bed' = bed, runAt \notin {"separation", "gate"}
  PROVE  RunInv'
<1>1. RunTyped' /\ Named' /\ HandedBack' /\ Quiet' BY DEF RunInv, RunTyped, Named, HandedBack, Quiet, Seeking, Made
<1>2. StagesAre' BY DEF RunInv, StagesAre, Made
<1> QED BY <1>1, <1>2 DEF RunInv

\* From a voice to the file.
LEMMA MakingKeeps ==
  ASSUME RunInv, Run!Voiced \/ Run!Tone \/ Run!Separate \/ Run!Gate \/ Run!LipSync \/ Run!Mix
  PROVE  RunInv'
<1> USE DEF Run!Pass, Run!Ends
<1>1. CASE Run!Voiced
  <2>1. /\ runAt = "voiced" /\ runAt' = "separation" /\ stage' = [stage EXCEPT !["tts"] = "done"]
        /\ UNCHANGED <<opts, again, text, wav, runSound, told, bed, out, first>>
    BY <1>1 DEF Run!Voiced, Run!Keep
  <2>2. RunTyped' /\ Named' /\ HandedBack' /\ Quiet' BY <2>1 DEF RunInv, RunTyped, Named, HandedBack, Quiet, Seeking, Made
  <2>3. StagesAre' BY <2>1, StageNames DEF RunInv, StagesAre, Made, Ended
  <2> QED BY <2>2, <2>3 DEF RunInv
<1>2. CASE Run!Tone
  <2>1. CASE Run!Fails("tts")
    BY <1>2, <2>1, FailureIsTold, StageNames DEF Run!Fails, Run!Tone
  <2>2. CASE ~Run!Fails("tts")
    <3>1. /\ runAt \in {"tone", "edge"} /\ runAt' = "separation" /\ stage' = [stage EXCEPT !["tts"] = "done"]
          /\ runSound' \in {[by |-> "tone", cloned |-> FALSE, lines |-> 0], Run!Mute, runSound}
          /\ UNCHANGED <<opts, again, text, wav, told, bed, out, first>>
      BY <1>2, <2>2 DEF Run!Tone
    <3>2. text.lines \in Nat BY PipelineAssumption DEF RunInv, RunTyped
    <3>3. RunTyped' /\ Named' /\ HandedBack' /\ Quiet'
      <4>1. runSound' \in [by : {"nobody", "Navoiy", "OmniVoice", "edge-tts", "tone"}, cloned : BOOLEAN, lines : Nat] /\ runSound'.lines <= text.lines
        <5>1. CASE runSound' = [by |-> "tone", cloned |-> FALSE, lines |-> 0] BY <3>2, <5>1
        <5>2. CASE runSound' = [by |-> "nobody", cloned |-> FALSE, lines |-> 0] BY <3>2, <5>2
        <5>3. CASE runSound' = runSound BY <5>3 DEF RunInv, RunTyped
        <5> QED BY <3>1, <5>1, <5>2, <5>3 DEF Run!Mute
      <4>1a. RunTyped' BY <3>1, <4>1 DEF RunInv, RunTyped, Seeking, Made
      <4>2. Named' BY <3>1 DEF RunInv, Named, Seeking, Made
      <4>3. HandedBack' BY <3>1 DEF RunInv, HandedBack, Seeking, Made
      <4>4. Quiet' BY <3>1 DEF Run!Mute, RunInv, Quiet, Seeking, Made
      <4> QED BY <4>1a, <4>2, <4>3, <4>4
    <3>4. StagesAre' BY <3>1, StageNames DEF RunInv, StagesAre, Made, Ended
    <3> QED BY <3>3, <3>4 DEF RunInv
  <2> QED BY <2>1, <2>2
<1>3. CASE Run!Separate
  <2>1. /\ runAt = "separation" /\ UNCHANGED <<opts, again, text, wav, runSound, told, out, first>>
        /\ \/ runAt' = "gate" /\ UNCHANGED stage /\ bed' \in {"none", "leaking"}
           \/ runAt' = "lipsync" /\ stage' = [stage EXCEPT !["separation"] = "skipped"] /\ UNCHANGED bed
    BY <1>3 DEF Run!Separate
  <2>2. RunTyped' /\ Named' /\ HandedBack' /\ Quiet' BY <2>1 DEF RunInv, RunTyped, Named, HandedBack, Quiet, Seeking, Made
  <2>3. StagesAre' BY <2>1, StageNames DEF RunInv, StagesAre, Made, Ended
  <2> QED BY <2>2, <2>3 DEF RunInv
<1>4. CASE Run!Gate
  <2>1. /\ runAt = "gate" /\ runAt' = "lipsync" /\ stage' = [stage EXCEPT !["separation"] = "done"]
        /\ UNCHANGED <<opts, again, text, wav, runSound, told, out, first>>
        /\ bed' \in {"none", "gated"} \/ (bed' = bed /\ text.lines = 0)
    BY <1>4 DEF Run!Gate, Run!Gated
  <2>2. RunTyped' /\ Named' /\ HandedBack' /\ Quiet' BY <2>1 DEF RunInv, RunTyped, Named, HandedBack, Quiet, Seeking, Made
  <2>3. StagesAre' BY <2>1, StageNames DEF RunInv, StagesAre, Made, Ended
  <2> QED BY <2>2, <2>3 DEF RunInv
<1>5. CASE Run!LipSync
  <2>1. CASE Run!Fails("lipsync")
    BY <1>5, <2>1, FailureIsTold, StageNames DEF Run!Fails, Run!LipSync
  <2>2. CASE ~Run!Fails("lipsync")
    <3>1. PICK st \in Ended : /\ runAt = "lipsync" /\ runAt' = "sync" /\ stage' = [stage EXCEPT !["lipsync"] = st]
                              /\ UNCHANGED <<opts, again, text, wav, runSound, told, bed, out, first>>
      BY <1>5, <2>2 DEF Run!LipSync, Ended
    <3>2. RunTyped' /\ Named' /\ HandedBack' /\ Quiet' BY <3>1 DEF RunInv, RunTyped, Named, HandedBack, Quiet, Seeking, Made
    <3>3. StagesAre' BY <3>1, StageNames DEF RunInv, StagesAre, Made, Ended
    <3> QED BY <3>2, <3>3 DEF RunInv
  <2> QED BY <2>1, <2>2
<1>6. CASE Run!Mix
  <2>1. /\ runAt = "sync" /\ runAt' = "mux" /\ bed' \in {bed, "none"}
        /\ UNCHANGED <<opts, again, text, wav, runSound, told, stage, out, first>>
    BY <1>6 DEF Run!Mix
  <2>2. RunTyped' /\ Named' /\ HandedBack' /\ Quiet' BY <2>1 DEF RunInv, RunTyped, Named, HandedBack, Quiet, Seeking, Made
  <2>3. StagesAre' BY <2>1 DEF RunInv, StagesAre, Made, Ended
  <2> QED BY <2>2, <2>3 DEF RunInv
<1> QED BY <1>1, <1>2, <1>3, <1>4, <1>5, <1>6

\* The file, and a dub that is voiced again.
LEMMA HandingBackKeeps ==
  ASSUME RunInv, Run!Mux \/ Run!Subtitle \/ Run!Finish \/ Run!Revoice
  PROVE  RunInv'
<1> USE DEF Run!Pass, Run!Ends
<1>1. CASE Run!Mux
  <2>1. CASE Run!MuxFails
    BY <1>1, <2>1, FailureIsTold, StageNames DEF Run!Mux, Run!MuxFails
  <2>2. CASE ~Run!MuxFails
    <3>1. /\ runAt = "mux" /\ runAt' = "subtitles" /\ out' = [out EXCEPT !.file = "dub"] /\ runSound.by # "nobody"
          /\ UNCHANGED <<opts, again, text, wav, runSound, told, bed, stage, first>>
      BY <1>1, <2>2 DEF Run!Mux
    <3>2. RunTyped' /\ Named' /\ HandedBack' /\ Quiet' BY <3>1 DEF RunInv, RunTyped, Named, HandedBack, Quiet, Seeking, Made
    <3>3. StagesAre' BY <3>1 DEF RunInv, StagesAre, Made, Ended
    <3> QED BY <3>2, <3>3 DEF RunInv
  <2> QED BY <2>1, <2>2
<1>2. CASE Run!Subtitle
  <2>1. CASE runAt' = "failed"
    BY <1>2, <2>1, FailureIsTold, StageNames DEF Run!Subtitle
  <2>2. CASE runAt' # "failed"
    <3>1. PICK s \in {"none", "track", "burned"} :
            /\ runAt = "subtitles" /\ runAt' = "finish" /\ stage' = [stage EXCEPT !["sync"] = "done"] /\ out' = [out EXCEPT !.subs = s]
            /\ UNCHANGED <<opts, again, text, wav, runSound, told, bed, first>>
      BY <1>2, <2>2 DEF Run!Subtitle
    <3>2. RunTyped' /\ Named' /\ HandedBack' /\ Quiet' BY <3>1 DEF RunInv, RunTyped, Named, HandedBack, Quiet, Seeking, Made
    <3>3. StagesAre' BY <3>1, StageNames DEF RunInv, StagesAre, Made, Ended
    <3> QED BY <3>2, <3>3 DEF RunInv
  <2> QED BY <2>1, <2>2
<1>3. CASE Run!Finish
  <2>1. /\ runAt = "finish" /\ runAt' = "done" /\ out' = [out EXCEPT !.url = TRUE]
        /\ UNCHANGED <<opts, again, text, wav, runSound, told, bed, stage, first>>
    BY <1>3 DEF Run!Finish
  <2>2. RunTyped'
    <3>1. out' \in [file : {"none", "dub"}, url : BOOLEAN, subs : {"none", "track", "burned"}] BY <2>1 DEF RunInv, RunTyped
    <3>2. runAt' \in Made BY <2>1 DEF Made
    <3> QED BY <2>1, <3>1, <3>2 DEF RunInv, RunTyped
  <2>3. Named' /\ HandedBack' /\ Quiet' BY <2>1 DEF RunInv, RunTyped, Named, HandedBack, Quiet, Seeking, Made
  <2>4. StagesAre' BY <2>1 DEF RunInv, StagesAre, Made, Ended
  <2> QED BY <2>2, <2>3, <2>4 DEF RunInv
<1>4. CASE Run!Revoice
  <2>1. /\ runAt' = "asr" /\ again' = TRUE /\ wav' = FALSE /\ text' = [text EXCEPT !.said = "corrected"]
        /\ runSound' = Run!Mute /\ told' = Run!Unsaid /\ bed' = "none" /\ stage' = [k \in Run!Stages |-> "pending"]
        /\ out' = [file |-> "none", url |-> FALSE, subs |-> "none"]
    BY <1>4 DEF Run!Revoice, Run!Start
  <2>2. text.lines \in Nat BY PipelineAssumption DEF RunInv, RunTyped
  <2>3. RunTyped'
    <3>1. text' \in [lines : Found, heard : {"no", "real", "demo"}, said : {"nothing", "translated", "demo", "corrected"}]
          /\ text'.lines \in Nat
      BY <2>1, PipelineAssumption DEF RunInv, RunTyped
    <3>2. runSound'.lines <= text'.lines BY <2>1, <3>1 DEF Run!Mute
    <3>3. runAt' \in Seeking BY <2>1 DEF Seeking
    <3> QED BY <2>1, <3>1, <3>2, <3>3 DEF Run!Mute, Run!Unsaid, RunTyped
  <2>4. Named' /\ HandedBack' /\ Quiet' BY <2>1 DEF Run!Mute, Run!Unsaid, Named, HandedBack, Quiet, Made
  <2>5. StagesAre' BY <2>1 DEF StagesAre, Made, Ended
  <2> QED BY <2>3, <2>4, <2>5 DEF RunInv
<1> QED BY <1>1, <1>2, <1>3, <1>4

LEMMA RunKeeps == ASSUME RunInv, [Run!Next]_(Run!vars) PROVE RunInv'
<1>1. CASE UNCHANGED Run!vars BY <1>1 DEF Run!vars, RunInv, RunTyped, Named, HandedBack, Quiet, StagesAre
<1> QED BY <1>1, WordsKeep, EnginesKeep, MakingKeeps, HandingBackKeeps DEF Run!Next

LEMMA RunIsTyped == RunInv => Run!TypeOK
<1> SUFFICES ASSUME RunInv PROVE Run!TypeOK OBVIOUS
<1>1. runAt = "done" => \A k \in Run!Stages : stage[k] \in {"done", "skipped"} BY StageNames DEF RunInv, StagesAre, Made, Ended
<1>2. runAt = "failed" => Run!Cardinality({k \in Run!Stages : stage[k] = "failed"}) = 1
  <2> SUFFICES ASSUME runAt = "failed" PROVE Run!Cardinality({k \in Run!Stages : stage[k] = "failed"}) = 1 OBVIOUS
  <2>1. PICK k \in Run!Stages : stage[k] = "failed" /\ \A j \in Run!Stages \ {k} : stage[j] # "failed" BY DEF RunInv, StagesAre
  <2>2. {j \in Run!Stages : stage[j] = "failed"} = {k} BY <2>1
  <2>3. Cardinality({k}) = 1 BY FS_Singleton
  <2>4. Run!Cardinality({k}) = 1 BY <2>3 DEF Run!Cardinality, Cardinality
  <2> QED BY <2>2, <2>4
<1>3. runAt \in Run!Stages \cup {"navoiy", "omnivoice", "edge", "voiced", "tone", "gate", "mux", "subtitles", "finish", "done", "failed"}
  BY StageNames DEF RunInv, RunTyped, Seeking, Made
<1>4. runSound \in [by : {"nobody", "Navoiy", "OmniVoice", "edge-tts", "tone"}, cloned : BOOLEAN, lines : 0..text.lines]
  <2>1. text.lines \in Nat BY PipelineAssumption DEF RunInv, RunTyped
  <2> QED BY <2>1 DEF RunInv, RunTyped
<1> QED BY <1>1, <1>2, <1>3, <1>4 DEF Run!TypeOK, RunInv, RunTyped

LEMMA RunIsRight == RunInv => Run!ServedIsDub /\ Run!NoOriginalSpeech
BY DEF RunInv, Named, HandedBack, Quiet, Made, Run!ServedIsDub, Run!NoOriginalSpeech, Run!Served

-----------------------------------------------------------------------------
(* The sound of a speech edit (Splice) *)

LEMMA LaidLines == Laid!Lines = 1..Count /\ Laid!Slots = 0..Space - 1 /\ Count \in Nat /\ Space \in Nat
  BY SpliceAssumption DEF Laid!Lines, Laid!Slots

\* The times of a line.
LEMMA LineTimes ==
  ASSUME NEW t \in Laid!Transcripts, NEW l \in Laid!Lines
  PROVE  /\ t[l].at \in Nat /\ t[l].end \in Nat /\ Laid!WindowEnd(t, l) \in Nat /\ t[l].at \in Laid!Slots
         /\ t[l].at < t[l].end /\ t[l].end <= Space /\ t[l].end <= Laid!WindowEnd(t, l)
<1> USE LaidLines DEF Laid!Transcripts, Laid!Line
<1>1. t \in [Laid!Lines -> Laid!Line] /\ Laid!Valid(t) OBVIOUS
<1>2. t[l].at \in Nat /\ t[l].end \in Nat /\ t[l].at \in Laid!Slots BY <1>1
<1>3. Laid!WindowEnd(t, l) \in Nat
  <2>1. CASE l = Count BY <2>1 DEF Laid!WindowEnd
  <2>2. CASE l # Count
    <3>1. l + 1 \in Laid!Lines BY <2>2
    <3>2. t[l + 1] \in Laid!Line BY <1>1, <3>1
    <3> QED BY <2>2, <3>2 DEF Laid!WindowEnd
  <2> QED BY <2>1, <2>2
<1> QED BY <1>1, <1>2, <1>3 DEF Laid!Valid

\* A set of numbers that has a member has a least one ...
LEMMA LeastOf ==
  ASSUME NEW S \in SUBSET Nat, NEW x \in S
  PROVE  \E m \in S : \A n \in S : m <= n
<1>1. IsWellFoundedOn(OpToRel(<, Nat), Nat) BY NatLessThanWellFounded
<1>2. \E m \in S : \A n \in S : <<n, m>> \notin OpToRel(<, Nat) BY <1>1, WFMin
<1>3. \A m, n \in Nat : <<n, m>> \notin OpToRel(<, Nat) => m <= n BY DEF OpToRel
<1> QED BY <1>2, <1>3

\* ... so no line begins before an earlier one has ended.
LEMMA InOrder ==
  ASSUME NEW t \in Laid!Transcripts, NEW l \in Laid!Lines, NEW m \in Laid!Lines, l < m
  PROVE  Laid!WindowEnd(t, l) <= t[m].at
<1> DEFINE Early == {k \in Laid!Lines : l < k /\ t[k].at < Laid!WindowEnd(t, l)}
<1>1. SUFFICES ASSUME m \in Early PROVE FALSE
  <2>1. t[m].at \in Nat /\ Laid!WindowEnd(t, l) \in Nat BY LineTimes
  <2> QED BY <2>1
<1>2. Early \subseteq Nat BY LaidLines
<1>3. PICK k \in Early : \A n \in Early : k <= n
  <2> HIDE DEF Early
  <2> QED BY <1>1, <1>2, LeastOf
<1>4. k \in Laid!Lines /\ l < k /\ t[k].at < Laid!WindowEnd(t, l) OBVIOUS
<1>5. CASE k = l + 1
  <2>1. Laid!WindowEnd(t, l) = t[k].at BY <1>4, <1>5, LaidLines DEF Laid!WindowEnd
  <2> QED BY <1>4, <2>1, LineTimes
<1>6. CASE k # l + 1
  <2>1. k - 1 \in Laid!Lines /\ l < k - 1 /\ k - 1 # Count /\ k - 1 + 1 = k BY <1>4, <1>6, LaidLines
  <2>2. k - 1 \notin Early
    <3>1. ~(k <= k - 1) BY <1>4, LaidLines
    <3> HIDE DEF Early
    <3> QED BY <1>3, <3>1
  <2>3. Laid!WindowEnd(t, k - 1) = t[k].at BY <2>1 DEF Laid!WindowEnd
  <2>4. /\ t[k - 1].at \in Nat /\ t[k - 1].end \in Nat /\ t[k - 1].at < t[k - 1].end /\ t[k - 1].end <= t[k].at
        /\ t[k].at \in Nat /\ Laid!WindowEnd(t, l) \in Nat
    BY <1>4, <2>1, <2>3, LineTimes
  <2> QED BY <1>4, <2>1, <2>2, <2>4
<1> QED BY <1>5, <1>6

\* What a line owns and what is laid there.
LEMMA Owns ==
  ASSUME NEW t \in Laid!Transcripts, NEW l \in Laid!Lines
  PROVE  /\ Laid!Owned(t, l) = t[l].at .. Laid!WindowEnd(t, l) - 1
         /\ t[l].at \in Laid!Owned(t, l) /\ Laid!WindowEnd(t, l) <= Space
         /\ \A n \in Takes : Laid!Laid(t, l, n) \subseteq Laid!Owned(t, l) /\ t[l].at \in Laid!Laid(t, l, n)
<1>1. /\ t[l].at \in Nat /\ t[l].end \in Nat /\ Laid!WindowEnd(t, l) \in Nat
      /\ t[l].at < t[l].end /\ t[l].end <= Laid!WindowEnd(t, l)
  BY LineTimes
<1>2. Laid!Owned(t, l) = t[l].at .. Laid!WindowEnd(t, l) - 1
  <2>1. Laid!Larger(Laid!WindowEnd(t, l), t[l].end) = Laid!WindowEnd(t, l) BY <1>1 DEF Laid!Larger
  <2> QED BY <2>1 DEF Laid!Owned
<1>3. Laid!WindowEnd(t, l) <= Space
  <2>1. CASE l = Count BY <2>1, LaidLines DEF Laid!WindowEnd
  <2>2. CASE l # Count
    <3>1. l + 1 \in Laid!Lines BY <2>2, LaidLines
    <3>2. t[l + 1].at \in Laid!Slots BY <3>1, LineTimes
    <3> QED BY <2>2, <3>2, LaidLines DEF Laid!WindowEnd
  <2> QED BY <2>1, <2>2
<1>4. ASSUME NEW n \in Takes
      PROVE  Laid!Laid(t, l, n) \subseteq Laid!Owned(t, l) /\ t[l].at \in Laid!Laid(t, l, n)
  <2>1. n \in Nat \ {0} BY SpliceAssumption
  <2>2. Laid!Larger(Laid!WindowEnd(t, l) - t[l].at, 1) = Laid!WindowEnd(t, l) - t[l].at BY <1>1 DEF Laid!Larger
  <2>3. Laid!Laid(t, l, n) = t[l].at .. t[l].at + Laid!Smaller(n, Laid!WindowEnd(t, l) - t[l].at) - 1
    BY <2>2 DEF Laid!Laid
  <2>4. Laid!Smaller(n, Laid!WindowEnd(t, l) - t[l].at) \in 1 .. Laid!WindowEnd(t, l) - t[l].at
    BY <1>1, <2>1 DEF Laid!Smaller
  <2> QED BY <1>1, <1>2, <2>3, <2>4
<1> QED BY <1>1, <1>2, <1>3, <1>4

\* What two lines own is apart.
LEMMA OwnedApart ==
  ASSUME NEW t \in Laid!Transcripts, NEW l \in Laid!Lines, NEW m \in Laid!Lines, l # m
  PROVE  \A s \in t[l].at .. t[l].end - 1 : s \notin Laid!Owned(t, m)
<1>1. l \in Nat /\ m \in Nat BY LaidLines
<1>2. /\ t[l].at \in Nat /\ t[m].at \in Nat /\ t[l].at < t[l].end /\ t[l].end \in Nat /\ t[l].end <= Laid!WindowEnd(t, l)
      /\ Laid!WindowEnd(t, l) \in Nat /\ Laid!WindowEnd(t, m) \in Nat
  BY LineTimes
<1>3. Laid!Owned(t, m) = t[m].at .. Laid!WindowEnd(t, m) - 1 BY Owns
<1>4. CASE l < m
  <2>1. Laid!WindowEnd(t, l) <= t[m].at BY <1>4, InOrder
  <2> QED BY <1>2, <1>3, <2>1
<1>5. CASE m < l
  <2>1. Laid!WindowEnd(t, m) <= t[l].at BY <1>5, InOrder
  <2> QED BY <1>2, <1>3, <2>1
<1> QED BY <1>1, <1>4, <1>5

\* What a line that stays where it is loses goes to a line that moves.
LEMMA LostToMoved ==
  ASSUME NEW before \in Laid!Transcripts, NEW after \in Laid!Transcripts, NEW l \in Laid!Lines, before[l] = after[l],
         NEW s \in Laid!Owned(before, l), s \notin Laid!Owned(after, l)
  PROVE  \E k \in Laid!Lines : before[k] # after[k] /\ s \in Laid!Owned(after, k)
<1>1. /\ Laid!Owned(before, l) = before[l].at .. Laid!WindowEnd(before, l) - 1
      /\ Laid!Owned(after, l) = after[l].at .. Laid!WindowEnd(after, l) - 1
      /\ before[l].at \in Nat /\ Laid!WindowEnd(before, l) \in Nat /\ Laid!WindowEnd(after, l) \in Nat
      /\ Laid!WindowEnd(before, l) <= Space
  BY Owns, LineTimes
<1>2. s \in Nat /\ s < Laid!WindowEnd(before, l) /\ Laid!WindowEnd(after, l) <= s /\ s < Space
  BY <1>1, LaidLines
<1>3. l # Count /\ l + 1 \in Laid!Lines /\ after[l + 1].at <= s
  <2>1. l # Count
    <3> SUFFICES ASSUME l = Count PROVE FALSE OBVIOUS
    <3>1. Laid!WindowEnd(after, l) = Space BY DEF Laid!WindowEnd
    <3> QED BY <1>2, <3>1, LaidLines
  <2>2. Laid!WindowEnd(after, l) = after[l + 1].at BY <2>1 DEF Laid!WindowEnd
  <2> QED BY <1>2, <2>1, <2>2, LaidLines
<1> DEFINE From == {n \in Nat : n <= Count /\ Count - n > l /\ after[Count - n].at <= s}
<1>4. Count - (l + 1) \in From
  <2>1. Count - (l + 1) \in Nat /\ Count - (Count - (l + 1)) = l + 1 BY <1>3, LaidLines
  <2>2. l + 1 > l /\ Count - (l + 1) <= Count BY LaidLines
  <2> QED BY <1>3, <2>1, <2>2
<1>5. PICK n \in From : \A m \in From : n <= m
  <2>1. From \in SUBSET Nat OBVIOUS
  <2> HIDE DEF From
  <2> QED BY <1>4, <2>1, LeastOf
<1> DEFINE k == Count - n
<1>6. n \in Nat /\ n <= Count /\ k > l /\ after[k].at <= s /\ k \in Laid!Lines BY LaidLines
<1>7. s < Laid!WindowEnd(after, k)
  <2>1. CASE k = Count BY <1>2, <2>1 DEF Laid!WindowEnd
  <2>2. CASE k # Count
    <3>1. n - 1 \in Nat /\ Count - (n - 1) = k + 1 /\ k + 1 \in Laid!Lines /\ k + 1 > l /\ n - 1 <= Count
      BY <1>6, <2>2, LaidLines
    <3>2. ~(n <= n - 1) BY <1>6
    <3>3. n - 1 \notin From
      <4> HIDE DEF From, k
      <4> QED BY <1>5, <3>2
    <3>4. ~(after[k + 1].at <= s) BY <3>1, <3>3
    <3>5. after[k + 1].at \in Nat BY <3>1, LineTimes
    <3> QED BY <1>2, <2>2, <3>4, <3>5 DEF Laid!WindowEnd
  <2> QED BY <2>1, <2>2
<1> HIDE DEF k
<1>8. s \in Laid!Owned(after, k)
  <2>1. Laid!Owned(after, k) = after[k].at .. Laid!WindowEnd(after, k) - 1 /\ after[k].at \in Nat /\ Laid!WindowEnd(after, k) \in Nat
    BY <1>6, Owns, LineTimes
  <2> QED BY <1>2, <1>6, <1>7, <2>1
<1>9. before[k].at > s
  <2>1. l < k BY <1>6, LaidLines DEF k
  <2>2. Laid!WindowEnd(before, l) <= before[k].at /\ before[k].at \in Nat BY <1>6, <2>1, InOrder, LineTimes
  <2> QED BY <1>1, <1>2, <2>2
<1>10. after[k].at \in Nat /\ before[k].at \in Nat BY <1>6, LineTimes
<1>11. before[k] # after[k] BY <1>2, <1>6, <1>9, <1>10
<1> QED BY <1>6, <1>8, <1>11

\* What new lines add.
LEMMA SpokenIs ==
  ASSUME NEW t \in Laid!Transcripts, NEW ls \in SUBSET Laid!Lines, NEW len \in [Laid!Lines -> Takes], NEW v \in Nat
  PROVE  /\ \A s \in Laid!Slots : \A h \in Laid!Spoken(t, ls, len, v)[s] :
              /\ h \in [line : Laid!Lines, by : {v}] /\ h.line \in ls /\ h.by = v /\ s \in Laid!Owned(t, h.line)
         /\ \A l \in ls : t[l].words => [line |-> l, by |-> v] \in Laid!Spoken(t, ls, len, v)[t[l].at]
<1>1. ASSUME NEW s \in Laid!Slots, NEW h \in Laid!Spoken(t, ls, len, v)[s]
      PROVE  h \in [line : Laid!Lines, by : {v}] /\ h.line \in ls /\ h.by = v /\ s \in Laid!Owned(t, h.line)
  <2>1. PICK l \in ls : h = [line |-> l, by |-> v] /\ s \in Laid!Laid(t, l, len[l]) BY DEF Laid!Spoken
  <2>2. l \in Laid!Lines /\ len[l] \in Takes OBVIOUS
  <2>3. s \in Laid!Owned(t, l) BY <2>1, <2>2, Owns
  <2> QED BY <2>1, <2>2, <2>3
<1>2. ASSUME NEW l \in ls, t[l].words
      PROVE  [line |-> l, by |-> v] \in Laid!Spoken(t, ls, len, v)[t[l].at]
  <2>1. len[l] \in Takes /\ t[l].at \in Laid!Slots BY LineTimes
  <2>2. t[l].at \in Laid!Laid(t, l, len[l]) BY <2>1, Owns
  <2> QED BY <1>2, <2>1, <2>2 DEF Laid!Spoken
<1> QED BY <1>1, <1>2

\* The sound of a dub, and of the first one, which the pipeline made.
LaidTyped ==
  /\ laidFirst \in [Laid!Slots -> SUBSET [line : Laid!Lines, by : {0}]]
  /\ transcript \in Laid!Transcripts /\ version \in Nat /\ version <= MaxSplices
  /\ changedIn \in [Laid!Lines -> 0..version]
  /\ laidSound \in [Laid!Slots -> SUBSET [line : Laid!Lines, by : 0..version]]
LaidInv == LaidTyped /\ Laid!SpliceKeepsRight

LEMMA InitLaidInv == Laid!Init => LaidInv
<1> SUFFICES ASSUME Laid!Init PROVE LaidInv OBVIOUS
<1>1. laidSound \in Laid!Firsts(transcript) /\ laidFirst = laidSound BY DEF Laid!Init
<1>2. transcript \in Laid!Transcripts /\ version = 0 /\ changedIn = [l \in Laid!Lines |-> 0] BY DEF Laid!Init
<1>3. laidSound \in [Laid!Slots -> SUBSET [line : Laid!Lines, by : {0}]]
  <2>1. laidSound \in [Laid!Slots -> {{}} \cup {{[line |-> l, by |-> 0]} : l \in {m \in Laid!Lines : transcript[m].words}}]
    BY <1>1 DEF Laid!Firsts
  <2>2. {{}} \cup {{[line |-> l, by |-> 0]} : l \in {m \in Laid!Lines : transcript[m].words}}
          \subseteq SUBSET [line : Laid!Lines, by : {0}]
    OBVIOUS
  <2> QED BY <2>1, <2>2
<1>4. \A s \in Laid!Slots : \A h \in laidSound[s] : h.by = 0 BY <1>3
<1>5. LaidTyped BY <1>1, <1>2, <1>3, SpliceAssumption DEF LaidTyped
<1>6. Laid!SpliceKeepsRight
  <2> SUFFICES ASSUME NEW l \in Laid!Lines
               PROVE  /\ \A s \in transcript[l].at .. transcript[l].end - 1 : laidSound[s] = laidFirst[s]
                      /\ \A s \in Laid!Slots : \A h \in laidSound[s] : ~(h.by > 0)
                      /\ ~(changedIn[l] > 0)
    BY DEF Laid!SpliceKeepsRight
  <2> QED BY <1>1, <1>2, <1>4
<1> QED BY <1>5, <1>6 DEF LaidInv

\* An edit mutes what its lines owned and own, and lays them anew.
LEMMA EditKeeps ==
  ASSUME LaidInv, NEW after \in Laid!Transcripts, NEW reworded \in SUBSET Laid!Lines, NEW len \in [Laid!Lines -> Takes],
         Laid!Edit(after, reworded, len)
  PROVE  LaidInv'
<1> DEFINE changed == reworded \cup {l \in Laid!Lines : transcript[l] # after[l]}
           v == version + 1
           mutes == Laid!Mutes(transcript, after, changed)
           new == Laid!Spoken(after, changed, len, v)
<1>1. /\ version < MaxSplices /\ version' = v /\ transcript' = after /\ laidFirst' = laidFirst
      /\ laidSound' = [s \in Laid!Slots |-> (IF s \in mutes THEN {} ELSE laidSound[s]) \cup new[s]]
      /\ changedIn' = [l \in Laid!Lines |-> IF l \in changed THEN v ELSE changedIn[l]]
  BY DEF Laid!Edit, Laid!Splice
<1>2. changed \in SUBSET Laid!Lines /\ v \in Nat /\ transcript \in Laid!Transcripts /\ version \in Nat BY DEF LaidInv, LaidTyped
<1>3. /\ \A s \in Laid!Slots : \A h \in new[s] :
           /\ h \in [line : Laid!Lines, by : {v}] /\ h.line \in changed /\ h.by = v /\ s \in Laid!Owned(after, h.line)
      /\ \A l \in changed : after[l].words => [line |-> l, by |-> v] \in new[after[l].at]
  <2> HIDE DEF changed, v
  <2> QED BY <1>2, SpokenIs
<1>4. \A l \in changed : Laid!Owned(transcript, l) \subseteq mutes /\ Laid!Owned(after, l) \subseteq mutes BY DEF Laid!Mutes
<1>5. \A l \in Laid!Lines \ changed : transcript[l] = after[l] OBVIOUS
<1>6. \A s \in mutes : \E l \in changed : s \in Laid!Owned(transcript, l) \/ s \in Laid!Owned(after, l) BY DEF Laid!Mutes
<1>7. \A k \in Laid!Lines : transcript[k] # after[k] => k \in changed OBVIOUS
<1> HIDE DEF changed, mutes, new
<1>8. LaidTyped'
  <2>1. \A s \in Laid!Slots : laidSound'[s] \in SUBSET [line : Laid!Lines, by : 0..v]
    <3> SUFFICES ASSUME NEW s \in Laid!Slots, NEW h \in laidSound'[s] PROVE h \in [line : Laid!Lines, by : 0..v] BY <1>1
    <3>1. CASE h \in new[s] BY <1>2, <1>3, <3>1
    <3>2. CASE h \in laidSound[s]
      <4>1. h \in [line : Laid!Lines, by : 0..version] BY <3>2 DEF LaidInv, LaidTyped
      <4> QED BY <1>2, <4>1
    <3> QED BY <1>1, <3>1, <3>2
  <2>2. laidSound' \in [Laid!Slots -> SUBSET [line : Laid!Lines, by : 0..v]]
    <3>1. laidSound' = [s \in Laid!Slots |-> laidSound'[s]] BY <1>1
    <3> QED BY <2>1, <3>1
  <2>3. changedIn' \in [Laid!Lines -> 0..v]
    <3>1. changedIn \in [Laid!Lines -> 0..version] BY DEF LaidInv, LaidTyped
    <3> QED BY <1>1, <1>2, <3>1
  <2>4. v <= MaxSplices BY <1>1, <1>2, SpliceAssumption
  <2>5. laidFirst' \in [Laid!Slots -> SUBSET [line : Laid!Lines, by : {0}]] BY <1>1 DEF LaidInv, LaidTyped
  <2> QED BY <1>1, <1>2, <2>2, <2>3, <2>4, <2>5 DEF LaidTyped
<1>9. ASSUME NEW l \in Laid!Lines, NEW s \in Laid!Slots, NEW h \in laidSound'[s], h.line = l, h.by > 0
      PROVE  h.by = changedIn'[l] /\ s \in Laid!Owned(after, l)
  <2>1. CASE h \in new[s] BY <1>1, <1>3, <1>9, <2>1
  <2>2. CASE h \notin new[s]
    <3>1. h \in laidSound[s] /\ s \notin mutes BY <1>1, <2>2
    <3>2. h.by = changedIn[l] /\ s \in Laid!Owned(transcript, l) BY <1>9, <3>1 DEF LaidInv, Laid!SpliceKeepsRight
    <3>3. l \notin changed BY <1>4, <3>1, <3>2
    <3>4. h.by = changedIn'[l] BY <1>1, <3>2, <3>3
    <3>5. s \in Laid!Owned(after, l)
      <4> SUFFICES ASSUME s \notin Laid!Owned(after, l) PROVE FALSE OBVIOUS
      <4>1. PICK k \in Laid!Lines : transcript[k] # after[k] /\ s \in Laid!Owned(after, k)
        BY <1>2, <1>5, <3>2, <3>3, LostToMoved
      <4> QED BY <1>4, <1>7, <3>1, <4>1
    <3> QED BY <3>4, <3>5
  <2> QED BY <2>1, <2>2
<1>10. ASSUME NEW l \in Laid!Lines, after[l].words, changedIn'[l] > 0
       PROVE  [line |-> l, by |-> changedIn'[l]] \in laidSound'[after[l].at]
  <2>1. after[l].at \in Laid!Slots BY LineTimes
  <2>2. CASE l \in changed BY <1>1, <1>3, <1>10, <2>1, <2>2
  <2>3. CASE l \notin changed
    <3>1. transcript[l] = after[l] BY <1>5, <2>3
    <3>0. changedIn'[l] = changedIn[l] BY <1>1, <2>3
    <3>2. [line |-> l, by |-> changedIn[l]] \in laidSound[after[l].at]
      BY <1>10, <3>0, <3>1 DEF LaidInv, Laid!SpliceKeepsRight
    <3>3. after[l].at \notin mutes
      <4> SUFFICES ASSUME after[l].at \in mutes PROVE FALSE OBVIOUS
      <4>1. PICK k \in changed : after[l].at \in Laid!Owned(transcript, k) \/ after[l].at \in Laid!Owned(after, k) BY <1>6
      <4>2. k \in Laid!Lines /\ k # l BY <1>2, <2>3
      <4>3. after[l].at \in after[l].at .. after[l].end - 1 BY LineTimes
      <4>4. after[l].at \notin Laid!Owned(after, k) /\ transcript[l].at \notin Laid!Owned(transcript, k)
        BY <1>2, <3>1, <4>2, <4>3, OwnedApart
      <4> QED BY <3>1, <4>1, <4>4
    <3> QED BY <1>1, <2>1, <2>3, <3>2, <3>3
  <2> QED BY <2>2, <2>3
<1>11. ASSUME NEW l \in Laid!Lines, changedIn'[l] = 0, NEW s \in after[l].at .. after[l].end - 1
       PROVE  laidSound'[s] = laidFirst[s]
  <2>1. l \notin changed BY <1>1, <1>2, <1>11
  <2>2. transcript[l] = after[l] /\ changedIn[l] = 0 BY <1>1, <1>5, <1>11, <2>1
  <2>3. s \in Laid!Slots /\ s \in transcript[l].at .. transcript[l].end - 1
    <3>1. /\ after[l].at \in Nat /\ after[l].end \in Nat /\ after[l].end <= Space BY LineTimes
    <3> QED BY <1>11, <2>2, <3>1, LaidLines
  <2>4. laidSound[s] = laidFirst[s] BY <2>2, <2>3 DEF LaidInv, Laid!SpliceKeepsRight
  <2>5. ASSUME NEW k \in changed PROVE s \notin Laid!Owned(transcript, k) /\ s \notin Laid!Owned(after, k)
    <3>1. k \in Laid!Lines /\ k # l BY <1>2, <2>1
    <3> QED BY <1>2, <1>11, <2>3, <3>1, OwnedApart
  <2>6. s \notin mutes BY <1>6, <2>5
  <2>7. new[s] = {} BY <1>3, <2>3, <2>5
  <2> QED BY <1>1, <2>3, <2>4, <2>6, <2>7
<1>12. Laid!SpliceKeepsRight'
  <2> SUFFICES ASSUME NEW l \in Laid!Lines
               PROVE  /\ changedIn'[l] = 0 =>
                           \A s \in transcript'[l].at .. transcript'[l].end - 1 : laidSound'[s] = laidFirst'[s]
                      /\ \A s \in Laid!Slots : \A h \in laidSound'[s] :
                           h.line = l /\ h.by > 0 => h.by = changedIn'[l] /\ s \in Laid!Owned(transcript', l)
                      /\ changedIn'[l] > 0 /\ transcript'[l].words =>
                           [line |-> l, by |-> changedIn'[l]] \in laidSound'[transcript'[l].at]
    BY DEF Laid!SpliceKeepsRight
  <2>1. transcript' = after /\ laidFirst' = laidFirst BY <1>1
  <2>2. \A s \in Laid!Slots : \A h \in laidSound'[s] :
           h.line = l /\ h.by > 0 => h.by = changedIn'[l] /\ s \in Laid!Owned(transcript', l)
    BY <1>9, <2>1
  <2>3. changedIn'[l] > 0 /\ transcript'[l].words =>
           [line |-> l, by |-> changedIn'[l]] \in laidSound'[transcript'[l].at]
    BY <1>10, <2>1
  <2>4. changedIn'[l] = 0 => \A s \in transcript'[l].at .. transcript'[l].end - 1 : laidSound'[s] = laidFirst'[s]
    BY <1>11, <2>1
  <2> QED BY <2>2, <2>3, <2>4
<1> QED BY <1>8, <1>12 DEF LaidInv

LEMMA LaidKeeps == ASSUME LaidInv, [Laid!Next]_(Laid!vars) PROVE LaidInv'
<1>1. CASE UNCHANGED Laid!vars BY <1>1 DEF Laid!vars, LaidInv, LaidTyped, Laid!SpliceKeepsRight
<1> QED BY <1>1, EditKeeps DEF Laid!Next
LEMMA LaidIsTyped == LaidInv => Laid!TypeOK
  BY SpliceAssumption DEF LaidInv, LaidTyped, Laid!TypeOK, Laid!Transcripts

-----------------------------------------------------------------------------
(* The timeline (Timeline) *)

\* A clip of a file that is not shorter than the page's shortest clip is within the file and
\* not shorter than that; of a shorter file, only the track is known to be right.
OfFile(c) ==
  /\ c.asset \in Media /\ Cut!Fits(c)
  /\ Durations[c.asset] >= 2 =>
       c.start \in Nat /\ c.in \in Nat /\ c.out \in Nat /\ c.in + 2 <= c.out /\ c.out <= Durations[c.asset]
ClipOK(c, tracks) ==
  /\ c = Cut!Clip(c.id, c.track, c.asset, c.start, c.in, c.out)
  /\ c.track \in tracks /\ c.asset \in Media \cup {None} /\ c.start \in Int /\ c.in \in Int /\ c.out \in Int
  /\ c.track # "text" => OfFile(c)
DocOK(d) ==
  /\ d = [tracks |-> d.tracks, clips |-> d.clips] /\ d.tracks \subseteq Cut!Kinds
  /\ \A c \in d.clips : ClipOK(c, d.tracks)
DocsOK(h) == \E S : h \in Seq(S) /\ \A d \in S : DocOK(d)
CutInv ==
  /\ DocOK(doc) /\ DocsOK(past) /\ DocsOK(future)
  /\ edits \in Nat /\ edits <= MaxEdits /\ Len(past) + Len(future) <= edits

\* A clip has the fields it is made with.
LEMMA ClipFields ==
  ASSUME NEW id, NEW k, NEW a, NEW s, NEW i, NEW o
  PROVE  /\ Cut!Clip(id, k, a, s, i, o).id = id /\ Cut!Clip(id, k, a, s, i, o).track = k
         /\ Cut!Clip(id, k, a, s, i, o).asset = a /\ Cut!Clip(id, k, a, s, i, o).start = s
         /\ Cut!Clip(id, k, a, s, i, o).in = i /\ Cut!Clip(id, k, a, s, i, o).out = o
  BY DEF Cut!Clip

LEMMA FileLength == \A a \in Media : Durations[a] \in Nat
  BY TimelineAssumption

\* A clip of the same file, made of c or put where the user points.
LEMMA FileMade ==
  ASSUME NEW a \in Media, NEW id, NEW k, NEW s \in Int, NEW i \in Int, NEW o \in Int,
         Durations[a] >= 2 => s >= 0 /\ i >= 0 /\ i + 2 <= o /\ o <= Durations[a],
         k # "text", k \in Cut!Kinds, k = "video" => a \in Videos, k # "video" => a \in Sounds
  PROVE  OfFile(Cut!Clip(id, k, a, s, i, o))
<1> DEFINE c == Cut!Clip(id, k, a, s, i, o)
<1>1. c.track = k /\ c.asset = a /\ c.start = s /\ c.in = i /\ c.out = o BY ClipFields
<1>2. Cut!Fits(c) BY <1>1 DEF Cut!Fits
<1>3. Durations[a] >= 2 => s \in Nat /\ i \in Nat /\ o \in Nat /\ i + 2 <= o /\ o <= Durations[a] OBVIOUS
<1> HIDE DEF c
<1> QED BY <1>1, <1>2, <1>3 DEF OfFile, c
LEMMA ClipMade ==
  ASSUME NEW tracks, NEW id, NEW k \in tracks, NEW a \in Media \cup {None},
         NEW s \in Int, NEW i \in Int, NEW o \in Int, k # "text" => OfFile(Cut!Clip(id, k, a, s, i, o))
  PROVE  ClipOK(Cut!Clip(id, k, a, s, i, o), tracks)
<1> DEFINE c == Cut!Clip(id, k, a, s, i, o)
<1>1. c.id = id /\ c.track = k /\ c.asset = a /\ c.start = s /\ c.in = i /\ c.out = o BY ClipFields
<1>2. c = Cut!Clip(c.id, c.track, c.asset, c.start, c.in, c.out) BY <1>1
<1> HIDE DEF c
<1> QED BY <1>1, <1>2 DEF ClipOK, c

\* What is right stays right with more tracks.
LEMMA StillOK ==
  ASSUME NEW tracks, NEW more, tracks \subseteq more, NEW c, ClipOK(c, tracks)
  PROVE  ClipOK(c, more)
  BY DEF ClipOK
LEMMA NoDocs == DocsOK(<<>>)
<1>1. <<>> \in Seq({}) BY EmptySeq
<1> DEFINE S == {}
<1>2. <<>> \in Seq(S) /\ \A d \in S : DocOK(d) BY <1>1
<1> HIDE DEF S
<1> QED BY <1>2 DEF DocsOK
LEMMA DocsGrow ==
  ASSUME NEW h, NEW d, DocsOK(h), DocOK(d)
  PROVE  DocsOK(Append(h, d)) /\ Len(Append(h, d)) = Len(h) + 1 /\ Len(h) \in Nat
<1>1. PICK S : h \in Seq(S) /\ \A x \in S : DocOK(x) BY DEF DocsOK
<1>2. h \in Seq(S \cup {d}) BY <1>1
<1>3. Append(h, d) \in Seq(S \cup {d}) /\ Len(Append(h, d)) = Len(h) + 1 /\ Len(h) \in Nat BY <1>2
<1>4. \A x \in S \cup {d} : DocOK(x) BY <1>1
<1> QED BY <1>3, <1>4 DEF DocsOK
LEMMA DocsShrink ==
  ASSUME NEW h, DocsOK(h), h # <<>>
  PROVE  /\ DocsOK(Cut!Front(h)) /\ DocOK(Cut!Last(h))
         /\ Len(h) \in Nat /\ Len(Cut!Front(h)) = Len(h) - 1
<1>1. PICK S : h \in Seq(S) /\ \A x \in S : DocOK(x) BY DEF DocsOK
<1>2. Len(h) \in Nat /\ Len(h) >= 1 /\ h[Len(h)] \in S BY <1>1
<1>3. SubSeq(h, 1, Len(h) - 1) \in Seq(S) /\ Len(SubSeq(h, 1, Len(h) - 1)) = Len(h) - 1
  <2>1. 1 \in Int /\ Len(h) - 1 \in Int /\ \A i \in 1 .. Len(h) - 1 : h[i] \in S BY <1>1, <1>2
  <2>2. /\ SubSeq(h, 1, Len(h) - 1) \in Seq(S)
        /\ Len(SubSeq(h, 1, Len(h) - 1)) = IF 1 <= Len(h) - 1 THEN Len(h) - 1 - 1 + 1 ELSE 0
    BY <2>1, SubSeqProperties
  <2>3. (IF 1 <= Len(h) - 1 THEN Len(h) - 1 - 1 + 1 ELSE 0) = Len(h) - 1
    <3>1. \A n_ \in Nat : n_ >= 1 => (IF 1 <= n_ - 1 THEN n_ - 1 - 1 + 1 ELSE 0) = n_ - 1 OBVIOUS
    <3> QED BY <1>2, <3>1
  <2> QED BY <2>2, <2>3
<1>4. Cut!Front(h) \in Seq(S) /\ Len(Cut!Front(h)) = Len(h) - 1 BY <1>3 DEF Cut!Front
<1>5. DocOK(Cut!Last(h)) BY <1>1, <1>2 DEF Cut!Last
<1> QED BY <1>1, <1>2, <1>4, <1>5 DEF DocsOK

LEMMA InitCutInv == Cut!Init => CutInv
<1> SUFFICES ASSUME Cut!Init PROVE CutInv OBVIOUS
<1>1. doc = [tracks |-> {"video", "voice", "music"}, clips |-> {}] /\ past = <<>> /\ future = <<>> /\ edits = 0 BY DEF Cut!Init
<1>2. DocOK(doc) BY <1>1 DEF DocOK, Cut!Kinds
<1>3. DocsOK(<<>>) BY NoDocs
<1>4. Len(past) + Len(future) <= 0 BY <1>1
<1> QED BY <1>1, <1>2, <1>3, <1>4, TimelineAssumption DEF CutInv

\* A change that leaves the timeline right.
LEMMA CommitKeeps ==
  ASSUME CutInv, NEW next, DocOK(next), Cut!Commit(next)
  PROVE  CutInv'
<1>1. edits < MaxEdits /\ edits' = edits + 1 /\ doc' = next /\ past' = Append(past, doc) /\ future' = <<>> BY DEF Cut!Commit
<1>2. edits \in Nat /\ DocOK(doc) /\ DocsOK(past) /\ DocsOK(future) /\ Len(past) + Len(future) <= edits
  BY DEF CutInv
<1>3. DocsOK(Append(past, doc)) /\ Len(Append(past, doc)) = Len(past) + 1 /\ Len(past) \in Nat
  BY <1>2, DocsGrow
<1>4. DocsOK(<<>>) /\ Len(<<>>) = 0 BY NoDocs
<1>5. Len(future) \in Nat BY <1>2 DEF DocsOK
<1>6. edits + 1 \in Nat /\ edits + 1 <= MaxEdits BY <1>1, <1>2, TimelineAssumption
<1>7. Len(Append(past, doc)) + Len(<<>>) <= edits + 1 BY <1>2, <1>3, <1>4, <1>5
<1> QED BY <1>1, <1>3, <1>4, <1>6, <1>7 DEF CutInv
LEMMA ReplaceKeeps ==
  ASSUME CutInv, NEW c, NEW new, \A x \in new : ClipOK(x, doc.tracks), Cut!Replace(c, new)
  PROVE  CutInv'
<1> DEFINE next == [doc EXCEPT !.clips = (@ \ {c}) \cup new]
<1>1. DocOK(doc) /\ edits \in Nat BY DEF CutInv
<1>2. next = [tracks |-> doc.tracks, clips |-> (doc.clips \ {c}) \cup new]
  <2>1. PICK ts, cs : doc = [tracks |-> ts, clips |-> cs] BY <1>1 DEF DocOK
  <2>2. next = [tracks |-> ts, clips |-> (cs \ {c}) \cup new]
    <3>1. doc.clips = cs BY <2>1
    <3>2. next = [doc EXCEPT !.clips = (cs \ {c}) \cup new] BY <3>1
    <3> DEFINE all == (cs \ {c}) \cup new
    <3> HIDE DEF all, next
    <3>3. next = [doc EXCEPT !.clips = all] BY <3>2 DEF all
    <3>4. next = [tracks |-> ts, clips |-> all] BY <2>1, <3>3
    <3> QED BY <3>4 DEF all
  <2>3. doc.tracks = ts /\ doc.clips = cs BY <2>1
  <2> QED BY <2>2, <2>3
<1>3. \A x \in doc.clips : ClipOK(x, doc.tracks) BY <1>1 DEF DocOK
<1>4. DocOK(next) BY <1>1, <1>2, <1>3 DEF DocOK
<1>5. Cut!Commit(next) BY DEF Cut!Replace
<1> HIDE DEF next
<1> QED BY <1>4, <1>5, CommitKeeps
LEMMA AddKeeps ==
  ASSUME CutInv, NEW tracks, tracks \subseteq Cut!Kinds, doc.tracks \subseteq tracks, NEW old, old \subseteq doc.clips,
         NEW new, \A x \in new : ClipOK(x, tracks),
         Cut!Commit([tracks |-> tracks, clips |-> old \cup new])
  PROVE  CutInv'
<1> DEFINE next == [tracks |-> tracks, clips |-> old \cup new]
<1>1. DocOK(doc) /\ edits \in Nat BY DEF CutInv
<1>2. \A x \in old : ClipOK(x, tracks) BY <1>1, StillOK DEF DocOK
<1>3. DocOK(next) BY <1>2 DEF DocOK
<1> HIDE DEF next
<1> QED BY <1>3, CommitKeeps DEF next

\* The clips that are added.
LEMMA ShownClip ==
  ASSUME CutInv, NEW c \in doc.clips
  PROVE  /\ ClipOK(c, doc.tracks) /\ edits \in Nat /\ doc.tracks \subseteq Cut!Kinds
         /\ c.start \in Int /\ c.in \in Int /\ c.out \in Int /\ c.track \in doc.tracks /\ c.asset \in Media \cup {None}
         /\ c = Cut!Clip(c.id, c.track, c.asset, c.start, c.in, c.out)
  BY DEF CutInv, DocOK, ClipOK
LEMMA ShownFile ==
  ASSUME CutInv, NEW c \in doc.clips, c.track # "text"
  PROVE  /\ c.asset \in Media /\ Durations[c.asset] \in Nat
         /\ Durations[c.asset] >= 2 =>
              c.start >= 0 /\ c.in >= 0 /\ c.out >= 0 /\ c.in + 2 <= c.out /\ c.out <= Durations[c.asset]
         /\ c.track \in Cut!Kinds /\ (c.track = "video" => c.asset \in Videos) /\ (c.track # "video" => c.asset \in Sounds)
<1>1. OfFile(c) BY ShownClip DEF ClipOK
<1>2. c.asset \in Media /\ Durations[c.asset] \in Nat BY <1>1, FileLength DEF OfFile
<1>3. c.track \in Cut!Kinds BY ShownClip
<1> QED BY <1>1, <1>2, <1>3, ShownClip DEF OfFile, Cut!Fits
LEMMA PlaceKeeps ==
  ASSUME CutInv, NEW a \in Media, NEW p \in Points, Cut!Place(a, p)
  PROVE  CutInv'
<1> DEFINE Lays(k, c, sound) ==
             Cut!Commit([tracks |-> Cut!WithTrack(k) \cup {s.track : s \in sound}, clips |-> doc.clips \cup {c} \cup sound])
           Heard(c) == IF a \in Videos \cap Sounds THEN {Cut!Detached(c)} ELSE {}
<1>0. PICK want \in Cut!Wants(a) : \E k \in Cut!Lands(a, want) :
        Lays(k, Cut!Clip(Cut!FreshId, k, a, p, 0, Durations[a]), Heard(Cut!Clip(Cut!FreshId, k, a, p, 0, Durations[a])))
  BY DEF Cut!Place
<1>1. PICK k \in Cut!Lands(a, want) :
        Lays(k, Cut!Clip(Cut!FreshId, k, a, p, 0, Durations[a]), Heard(Cut!Clip(Cut!FreshId, k, a, p, 0, Durations[a])))
  BY <1>0
<1> DEFINE c == Cut!Clip(Cut!FreshId, k, a, p, 0, Durations[a])
           sound == IF a \in Videos \cap Sounds THEN {Cut!Detached(c)} ELSE {}
           tracks == Cut!WithTrack(k) \cup {s.track : s \in sound}
<1>2. p \in Nat /\ Durations[a] \in Nat /\ edits \in Nat /\ doc.tracks \subseteq Cut!Kinds
  BY TimelineAssumption DEF CutInv, DocOK
<1>3. k \in Cut!Kinds /\ (k # "text" => (k = "video" => a \in Videos) /\ (k # "video" => a \in Sounds))
  <2>1. CASE a \in Videos
    <3>1. k = "video" BY <2>1 DEF Cut!Wants, Cut!Lands
    <3> QED BY <2>1, <3>1 DEF Cut!Kinds
  <2>2. CASE a \notin Videos
    <3>1. a \in Sounds BY <2>2, TimelineAssumption
    <3>2. want \in {"voice", "music"} BY <2>2 DEF Cut!Wants
    <3>3. k \in {"voice", "music"} \/ k \in doc.tracks \ {"video"} BY <2>2, <3>2 DEF Cut!Lands
    <3> QED BY <1>2, <3>1, <3>3 DEF Cut!Kinds
  <2> QED BY <2>1, <2>2
<1>4. k # "text" => OfFile(c)
  <2> SUFFICES ASSUME k # "text" PROVE OfFile(c) OBVIOUS
  <2>1. Durations[a] >= 2 => p >= 0 /\ 0 >= 0 /\ 0 + 2 <= Durations[a] /\ Durations[a] <= Durations[a] BY <1>2
  <2>2. p \in Int /\ 0 \in Int /\ Durations[a] \in Int BY <1>2
  <2> QED BY <1>3, <2>1, <2>2, FileMade
<1>5. \A x \in sound : x.track = "audio" /\ x = Cut!Clip(Cut!FreshId + 1, "audio", a, p, 0, Durations[a])
  <2>1. c.asset = a /\ c.start = p /\ c.in = 0 /\ c.out = Durations[a] BY ClipFields
  <2> HIDE DEF c
  <2> QED BY <2>1, ClipFields DEF Cut!Detached
<1>6. a \in Sounds => OfFile(Cut!Clip(Cut!FreshId + 1, "audio", a, p, 0, Durations[a]))
  <2> SUFFICES ASSUME a \in Sounds PROVE OfFile(Cut!Clip(Cut!FreshId + 1, "audio", a, p, 0, Durations[a])) OBVIOUS
  <2>1. Durations[a] >= 2 => p >= 0 /\ 0 >= 0 /\ 0 + 2 <= Durations[a] /\ Durations[a] <= Durations[a] BY <1>2
  <2>2. "audio" \in Cut!Kinds /\ "audio" # "text" /\ "audio" # "video" BY DEF Cut!Kinds
  <2>3. p \in Int /\ 0 \in Int /\ Durations[a] \in Int BY <1>2
  <2> QED BY <2>1, <2>2, <2>3, FileMade
<1>7. sound # {} => a \in Sounds OBVIOUS
<1>8. \A x \in sound : x.track \in tracks OBVIOUS
<1>9. k \in tracks /\ doc.tracks \subseteq tracks BY DEF Cut!WithTrack
<1>10. tracks \subseteq Cut!Kinds
  <2>1. {s.track : s \in sound} \subseteq {"audio"} BY <1>5
  <2> HIDE DEF sound
  <2> QED BY <1>2, <1>3, <2>1 DEF Cut!WithTrack, Cut!Kinds
<1>11. Cut!Commit([tracks |-> tracks, clips |-> doc.clips \cup ({c} \cup sound)])
  <2>1. doc.clips \cup {c} \cup sound = doc.clips \cup ({c} \cup sound) OBVIOUS
  <2>2. Cut!Commit([tracks |-> tracks, clips |-> doc.clips \cup {c} \cup sound]) BY <1>1
  <2> HIDE DEF tracks, c, sound
  <2> QED BY <2>1, <2>2
<1> HIDE DEF tracks, sound
<1>12. 0 \in Int /\ Durations[a] \in Int /\ p \in Int /\ a \in Media \cup {None} BY <1>2
<1>13. ClipOK(c, tracks)
  <2> HIDE DEF c
  <2>1. k # "text" => OfFile(Cut!Clip(Cut!FreshId, k, a, p, 0, Durations[a])) BY <1>4 DEF c
  <2> QED BY <1>9, <1>12, <2>1, ClipMade DEF c
<1>14. \A x \in sound : ClipOK(x, tracks)
  <2> SUFFICES ASSUME NEW x \in sound PROVE ClipOK(x, tracks) OBVIOUS
  <2>1. x = Cut!Clip(Cut!FreshId + 1, "audio", a, p, 0, Durations[a]) /\ "audio" \in tracks BY <1>5, <1>8
  <2>2. OfFile(Cut!Clip(Cut!FreshId + 1, "audio", a, p, 0, Durations[a])) BY <1>6, <1>7
  <2>3. ClipOK(Cut!Clip(Cut!FreshId + 1, "audio", a, p, 0, Durations[a]), tracks)
    BY <1>12, <2>1, <2>2, ClipMade
  <2> QED BY <2>1, <2>3
<1> HIDE DEF c
<1>15. \A x \in {c} \cup sound : ClipOK(x, tracks) BY <1>13, <1>14
<1> QED BY <1>9, <1>10, <1>11, <1>15, AddKeeps

LEMMA DetachKeeps ==
  ASSUME CutInv, NEW c \in doc.clips, Cut!Detach(c)
  PROVE  CutInv'
<1>1. c.track = "video" /\ c.asset \in Sounds
      /\ Cut!Commit([tracks |-> Cut!WithTrack("audio"), clips |-> doc.clips \cup {Cut!Detached(c)}])
  BY DEF Cut!Detach
<1>2. c.track # "text" BY <1>1
<1> DEFINE new == Cut!Clip(Cut!FreshId + 1, "audio", c.asset, c.start, c.in, c.out)
<1>3. Cut!Detached(c) = new BY DEF Cut!Detached
<1>4. "audio" \in Cut!Kinds /\ "audio" # "text" /\ "audio" # "video" BY DEF Cut!Kinds
<1>5. OfFile(new) BY <1>1, <1>2, <1>4, ShownFile, ShownClip, FileMade
<1>6. "audio" \in Cut!WithTrack("audio") /\ doc.tracks \subseteq Cut!WithTrack("audio") /\ Cut!WithTrack("audio") \subseteq Cut!Kinds
  BY <1>4, ShownClip DEF Cut!WithTrack
<1>7. ClipOK(new, Cut!WithTrack("audio")) BY <1>5, <1>6, ShownClip, ClipMade
<1> HIDE DEF new
<1> DEFINE one == {new}
<1>8. \A x \in one : ClipOK(x, Cut!WithTrack("audio")) BY <1>7
<1>9. Cut!Commit([tracks |-> Cut!WithTrack("audio"), clips |-> doc.clips \cup one]) BY <1>1, <1>3
<1> HIDE DEF one
<1> QED BY <1>6, <1>8, <1>9, AddKeeps
LEMMA AddTextKeeps ==
  ASSUME CutInv, NEW p \in Points, Cut!AddText(p)
  PROVE  CutInv'
<1> DEFINE new == Cut!Clip(Cut!FreshId, "text", None, p, 0, 40)
<1>1. Cut!Commit([tracks |-> Cut!WithTrack("text"), clips |-> doc.clips \cup {new}]) BY DEF Cut!AddText
<1>2. p \in Int /\ 0 \in Int /\ 40 \in Int /\ None \in Media \cup {None} BY TimelineAssumption
<1>3. "text" \in Cut!WithTrack("text") /\ doc.tracks \subseteq Cut!WithTrack("text") /\ Cut!WithTrack("text") \subseteq Cut!Kinds
  BY DEF Cut!WithTrack, Cut!Kinds, CutInv, DocOK
<1>4. ClipOK(new, Cut!WithTrack("text")) BY <1>2, <1>3, ClipMade
<1> HIDE DEF new
<1> DEFINE one == {new}
<1>5. \A x \in one : ClipOK(x, Cut!WithTrack("text")) BY <1>4
<1>6. Cut!Commit([tracks |-> Cut!WithTrack("text"), clips |-> doc.clips \cup one]) BY <1>1
<1> HIDE DEF one
<1> QED BY <1>3, <1>5, <1>6, AddKeeps
LEMMA AutoSubtitlesKeeps ==
  ASSUME CutInv, NEW p \in Points, NEW q \in Points, Cut!AutoSubtitles(p, q)
  PROVE  CutInv'
<1> DEFINE old == {c \in doc.clips : c.track # "text"}
<1>1. Cut!Commit([tracks |-> Cut!WithTrack("text"), clips |-> old \cup Cut!Heard(p, q)]) BY DEF Cut!AutoSubtitles
<1>2. p \in Int /\ q \in Int /\ 0 \in Int /\ None \in Media \cup {None} BY TimelineAssumption
<1>3. "text" \in Cut!WithTrack("text") /\ doc.tracks \subseteq Cut!WithTrack("text") /\ Cut!WithTrack("text") \subseteq Cut!Kinds
  BY DEF Cut!WithTrack, Cut!Kinds, CutInv, DocOK
<1>4. \A x \in Cut!Heard(p, q) : ClipOK(x, Cut!WithTrack("text"))
  <2> SUFFICES ASSUME NEW x \in Cut!Heard(p, q) PROVE ClipOK(x, Cut!WithTrack("text")) OBVIOUS
  <2>1. PICK c \in doc.clips :
          LET from == IF p > c.in THEN p ELSE c.in
              to == IF q < c.out THEN q ELSE c.out
          IN x = Cut!Clip(Cut!FreshId + c.id, "text", None, c.start + (from - c.in), 0,
                          IF to - from < Cut!MinText THEN Cut!MinText ELSE to - from)
    BY DEF Cut!Heard
  <2> DEFINE from == IF p > c.in THEN p ELSE c.in
             to == IF q < c.out THEN q ELSE c.out
             long == IF to - from < Cut!MinText THEN Cut!MinText ELSE to - from
  <2>2. c.start \in Int /\ c.in \in Int /\ c.out \in Int BY ShownClip
  <2>3. from \in Int /\ to \in Int BY <1>2, <2>2
  <2>4. x = Cut!Clip(Cut!FreshId + c.id, "text", None, c.start + (from - c.in), 0, long) BY <2>1
  <2> HIDE DEF from, to
  <2>5. c.start + (from - c.in) \in Int /\ long \in Int BY <2>2, <2>3 DEF Cut!MinText
  <2> HIDE DEF long
  <2> QED BY <1>2, <1>3, <2>4, <2>5, ClipMade
<1>5. old \subseteq doc.clips OBVIOUS
<1> HIDE DEF old
<1> QED BY <1>1, <1>3, <1>4, <1>5, AddKeeps
LEMMA AddTrackKeeps ==
  ASSUME CutInv, NEW k \in Cut!Kinds, Cut!AddTrack(k)
  PROVE  CutInv'
<1> DEFINE more == Cut!WithTrack(k)
           next == [tracks |-> more, clips |-> doc.clips]
<1>1. doc.tracks \subseteq more /\ more \subseteq Cut!Kinds BY DEF Cut!WithTrack, CutInv, DocOK
<1> HIDE DEF more
<1>2. [doc EXCEPT !.tracks = more] = next
  <2>1. PICK ts, cs : doc = [tracks |-> ts, clips |-> cs] BY DEF CutInv, DocOK
  <2>2. [doc EXCEPT !.tracks = more] = [tracks |-> more, clips |-> cs] BY <2>1
  <2>3. doc.clips = cs BY <2>1
  <2> QED BY <2>2, <2>3
<1>3. Cut!Commit(next)
  <2>1. Cut!Commit([doc EXCEPT !.tracks = more]) BY DEF Cut!AddTrack, more
  <2> HIDE DEF next
  <2> QED BY <1>2, <2>1
<1>4. DocOK(next) BY <1>1, StillOK DEF DocOK, CutInv
<1> HIDE DEF next
<1> QED BY <1>3, <1>4, CommitKeeps
LEMMA RemoveTrackKeeps ==
  ASSUME CutInv, NEW k \in Cut!Kinds, Cut!RemoveTrack(k)
  PROVE  CutInv'
<1> DEFINE next == [tracks |-> doc.tracks \ {k}, clips |-> {c \in doc.clips : c.track # k}]
<1>1. Cut!Commit(next) BY DEF Cut!RemoveTrack
<1>2. \A c \in doc.clips : c.track # k => ClipOK(c, doc.tracks \ {k})
  BY ShownClip DEF ClipOK
<1>3. DocOK(next) BY <1>2 DEF DocOK, CutInv
<1> HIDE DEF next
<1> QED BY <1>1, <1>3, CommitKeeps
LEMMA AddingKeeps ==
  ASSUME CutInv, NEW p \in Points, NEW q \in Points, Cut!Adding(p, q)
  PROVE  CutInv'
  BY PlaceKeeps, AddTextKeeps, AutoSubtitlesKeeps, AddTrackKeeps, RemoveTrackKeeps DEF Cut!Adding

\* Cutting, trimming and moving: the clip that replaces c, or the two that do.
Fields == {"id", "track", "asset", "start", "in", "out"}
LEMMA HasFields ==
  ASSUME NEW c, c = Cut!Clip(c.id, c.track, c.asset, c.start, c.in, c.out)
  PROVE  DOMAIN c = Fields
<1>1. c = [id |-> c.id, track |-> c.track, asset |-> c.asset, start |-> c.start, in |-> c.in, out |-> c.out] BY DEF Cut!Clip
<1> QED BY <1>1 DEF Fields
LEMMA IsClip ==
  ASSUME NEW d, NEW id, NEW k, NEW a, NEW s, NEW i, NEW o, d = [f \in Fields |-> d[f]],
         d.id = id, d.track = k, d.asset = a, d.start = s, d.in = i, d.out = o
  PROVE  d = Cut!Clip(id, k, a, s, i, o)
  BY DEF Cut!Clip, Fields

\* A clip that takes another's place.
LEMMA InPlace ==
  ASSUME CutInv, NEW c \in doc.clips, NEW id, NEW k \in doc.tracks, NEW s \in Int, NEW i \in Int, NEW o \in Int,
         Cut!Family(k) = Cut!Family(c.track),
         c.track # "text" /\ Durations[c.asset] >= 2 => s >= 0 /\ i >= 0 /\ i + 2 <= o /\ o <= Durations[c.asset]
  PROVE  ClipOK(Cut!Clip(id, k, c.asset, s, i, o), doc.tracks)
<1>1. k # "text" => c.track # "text" BY DEF Cut!Family
<1>2. ASSUME k # "text" PROVE OfFile(Cut!Clip(id, k, c.asset, s, i, o))
  <2>1. c.track # "text" BY <1>1, <1>2
  <2>2. k = "video" <=> c.track = "video"
    <3>1. k \in Cut!Kinds /\ c.track \in Cut!Kinds BY <2>1, ShownFile, ShownClip
    <3> QED BY <1>2, <2>1, <3>1 DEF Cut!Family, Cut!Kinds
  <2>3. Durations[c.asset] >= 2 => s >= 0 /\ i >= 0 /\ i + 2 <= o /\ o <= Durations[c.asset] BY <2>1
  <2>4. k \in Cut!Kinds /\ c.asset \in Media /\ (k = "video" => c.asset \in Videos) /\ (k # "video" => c.asset \in Sounds)
    BY <2>1, <2>2, ShownFile, ShownClip
  <2> QED BY <1>2, <2>3, <2>4, FileMade
<1> QED BY <1>2, ShownClip, ClipMade

LEMMA TextInPlace ==
  ASSUME CutInv, NEW c \in doc.clips, NEW id, NEW k \in doc.tracks, NEW s \in Int, NEW i \in Int, NEW o \in Int,
         Cut!Family(k) = Cut!Family(c.track), c.track = "text"
  PROVE  ClipOK(Cut!Clip(id, k, c.asset, s, i, o), doc.tracks)
  BY InPlace
\* Of which end may be the smaller or the greater of two numbers.
LEMMA Between ==
  ASSUME NEW a \in Int, NEW b \in Int
  PROVE  /\ Cut!Least(a, b) \in Int /\ Cut!Least(a, b) <= a /\ Cut!Least(a, b) <= b /\ Cut!Least(a, b) \in {a, b}
         /\ Cut!Greatest(a, b) \in Int /\ Cut!Greatest(a, b) >= a /\ Cut!Greatest(a, b) >= b /\ Cut!Greatest(a, b) \in {a, b}
  BY DEF Cut!Least, Cut!Greatest

\* What an edit makes of a clip.
LEMMA OneInPlace ==
  ASSUME CutInv, NEW c \in doc.clips, NEW x, ClipOK(x, doc.tracks), Cut!Replace(c, {x})
  PROVE  CutInv'
<1> DEFINE one == {x}
<1>1. \A y \in one : ClipOK(y, doc.tracks) OBVIOUS
<1>2. Cut!Replace(c, one) OBVIOUS
<1> HIDE DEF one
<1> QED BY <1>1, <1>2, ReplaceKeeps
LEMMA TwoInPlace ==
  ASSUME CutInv, NEW c \in doc.clips, NEW x, NEW y, ClipOK(x, doc.tracks), ClipOK(y, doc.tracks),
         Cut!Replace(c, {x, y})
  PROVE  CutInv'
<1> DEFINE two == {x, y}
<1>1. \A z \in two : ClipOK(z, doc.tracks) OBVIOUS
<1>2. Cut!Replace(c, two) OBVIOUS
<1> HIDE DEF two
<1> QED BY <1>1, <1>2, ReplaceKeeps
\* The two halves of a clip that is cut.
LeftHalf(c, p) == Cut!Clip(c.id, c.track, c.asset, c.start, c.in,
                       IF c.track = "text" THEN p - c.start ELSE c.in + (p - c.start))
RightHalf(c, p) == IF c.track = "text" THEN Cut!Clip(Cut!FreshId, c.track, c.asset, p, c.in, Cut!End(c) - p)
               ELSE Cut!Clip(Cut!FreshId, c.track, c.asset, p, c.in + (p - c.start), c.out)
LEMMA SplitMakes ==
  ASSUME CutInv, NEW c \in doc.clips, NEW p \in Points, Cut!Split(c, p)
  PROVE  p > c.start + 2 /\ p < c.start + (c.out - c.in) - 2 /\ Cut!Replace(c, {LeftHalf(c, p), RightHalf(c, p)})
<1>1. DOMAIN c = Fields BY ShownClip, HasFields
<1>2. p > c.start + 2 /\ p < c.start + (c.out - c.in) - 2
  <2>1. p > c.start + Cut!MinClip BY DEF Cut!Split
  <2>2. p < Cut!End(c) - Cut!MinClip BY DEF Cut!Split
  <2>3. Cut!MinClip = 2 /\ Cut!End(c) = c.start + (c.out - c.in) BY DEF Cut!MinClip, Cut!End, Cut!Len_
  <2>4. p \in Int /\ c.start \in Int /\ c.in \in Int /\ c.out \in Int BY TimelineAssumption, ShownClip
  <2> QED BY <2>1, <2>2, <2>3, <2>4
<1>3. CASE c.track = "text"
  <2> DEFINE l == [c EXCEPT !.out = p - c.start]
             r == [c EXCEPT !.id = Cut!FreshId, !.start = p, !.out = Cut!End(c) - p]
  <2>1. Cut!Replace(c, {l, r}) BY <1>3 DEF Cut!Split
  <2>2. l = LeftHalf(c, p)
    <3>1. l = [f \in Fields |-> l[f]] BY <1>1 DEF Fields
    <3>2. l.id = c.id /\ l.track = c.track /\ l.asset = c.asset /\ l.start = c.start /\ l.in = c.in /\ l.out = p - c.start
      BY <1>1 DEF Fields
    <3> HIDE DEF l
    <3> QED BY <1>3, <3>1, <3>2, IsClip DEF LeftHalf
  <2>3. r = RightHalf(c, p)
    <3>1. r = [f \in Fields |-> r[f]] BY <1>1 DEF Fields
    <3>2. r.id = Cut!FreshId /\ r.track = c.track /\ r.asset = c.asset /\ r.start = p /\ r.in = c.in /\ r.out = Cut!End(c) - p
      BY <1>1 DEF Fields
    <3> HIDE DEF r
    <3> QED BY <1>3, <3>1, <3>2, IsClip DEF RightHalf
  <2> HIDE DEF l, r
  <2> QED BY <1>2, <2>1, <2>2, <2>3
<1>4. CASE c.track # "text"
  <2> DEFINE l == [c EXCEPT !.out = c.in + (p - c.start)]
             r == [c EXCEPT !.id = Cut!FreshId, !.start = p, !.in = c.in + (p - c.start)]
  <2>1. Cut!Replace(c, {l, r}) BY <1>4 DEF Cut!Split
  <2>2. l = LeftHalf(c, p)
    <3>1. l = [f \in Fields |-> l[f]] BY <1>1 DEF Fields
    <3>2. /\ l.id = c.id /\ l.track = c.track /\ l.asset = c.asset /\ l.start = c.start /\ l.in = c.in
          /\ l.out = c.in + (p - c.start)
      BY <1>1 DEF Fields
    <3> HIDE DEF l
    <3> QED BY <1>4, <3>1, <3>2, IsClip DEF LeftHalf
  <2>3. r = RightHalf(c, p)
    <3>1. r = [f \in Fields |-> r[f]] BY <1>1 DEF Fields
    <3>2. /\ r.id = Cut!FreshId /\ r.track = c.track /\ r.asset = c.asset /\ r.start = p /\ r.out = c.out
          /\ r.in = c.in + (p - c.start)
      BY <1>1 DEF Fields
    <3> HIDE DEF r
    <3> QED BY <1>4, <3>1, <3>2, IsClip DEF RightHalf
  <2> HIDE DEF l, r
  <2> QED BY <1>2, <2>1, <2>2, <2>3
<1> QED BY <1>3, <1>4
LEMMA SplitKeeps ==
  ASSUME CutInv, NEW c \in doc.clips, NEW p \in Points, Cut!Split(c, p)
  PROVE  CutInv'
<1>1. p > c.start + 2 /\ p < c.start + (c.out - c.in) - 2 /\ Cut!Replace(c, {LeftHalf(c, p), RightHalf(c, p)}) BY SplitMakes
<1>2. c.start \in Int /\ c.in \in Int /\ c.out \in Int /\ c.track \in doc.tracks BY ShownClip
<1>3. p \in Nat BY TimelineAssumption
<1>4. Cut!End(c) = c.start + (c.out - c.in) BY DEF Cut!End, Cut!Len_
<1>5. ClipOK(LeftHalf(c, p), doc.tracks)
  <2>1. CASE c.track = "text"
    <3>1. LeftHalf(c, p) = Cut!Clip(c.id, c.track, c.asset, c.start, c.in, p - c.start) /\ p - c.start \in Int
      BY <1>2, <1>3, <2>1 DEF LeftHalf
    <3> QED BY <1>2, <2>1, <3>1, InPlace
  <2>2. CASE c.track # "text"
    <3> DEFINE o == c.in + (p - c.start)
    <3>1. o \in Int /\ (Durations[c.asset] >= 2 => c.start >= 0 /\ c.in >= 0 /\ c.in + 2 <= o /\ o <= Durations[c.asset])
      BY <1>1, <1>2, <1>3, <2>2, ShownFile
    <3>2. LeftHalf(c, p) = Cut!Clip(c.id, c.track, c.asset, c.start, c.in, o) BY <2>2 DEF LeftHalf
    <3> HIDE DEF o
    <3>3. ClipOK(Cut!Clip(c.id, c.track, c.asset, c.start, c.in, o), doc.tracks) BY <1>2, <3>1, InPlace
    <3> QED BY <3>2, <3>3
  <2> QED BY <2>1, <2>2
<1>6. ClipOK(RightHalf(c, p), doc.tracks)
  <2>1. CASE c.track = "text"
    <3>1. /\ RightHalf(c, p) = Cut!Clip(Cut!FreshId, c.track, c.asset, p, c.in, Cut!End(c) - p)
          /\ Cut!End(c) - p \in Int /\ p \in Int
      BY <1>2, <1>3, <1>4, <2>1 DEF RightHalf
    <3> QED BY <1>2, <2>1, <3>1, InPlace
  <2>2. CASE c.track # "text"
    <3> DEFINE i == c.in + (p - c.start)
    <3>1. i \in Int /\ p \in Int /\ (Durations[c.asset] >= 2 => p >= 0 /\ i >= 0 /\ i + 2 <= c.out /\ c.out <= Durations[c.asset])
      BY <1>1, <1>2, <1>3, <2>2, ShownFile
    <3>2. RightHalf(c, p) = Cut!Clip(Cut!FreshId, c.track, c.asset, p, i, c.out) BY <2>2 DEF RightHalf
    <3> HIDE DEF i
    <3>3. ClipOK(Cut!Clip(Cut!FreshId, c.track, c.asset, p, i, c.out), doc.tracks) BY <1>2, <3>1, InPlace
    <3> QED BY <3>2, <3>3
  <2> QED BY <2>1, <2>2
<1> HIDE DEF LeftHalf, RightHalf
<1> QED BY <1>1, <1>5, <1>6, TwoInPlace
LEMMA DeleteKeeps ==
  ASSUME CutInv, NEW c \in doc.clips, Cut!Delete(c)
  PROVE  CutInv'
<1> DEFINE none == {}
<1>1. Cut!Replace(c, none) /\ \A x \in none : ClipOK(x, doc.tracks) BY DEF Cut!Delete
<1> HIDE DEF none
<1> QED BY <1>1, ReplaceKeeps
LEMMA DuplicateKeeps ==
  ASSUME CutInv, NEW c \in doc.clips, Cut!Duplicate(c)
  PROVE  CutInv'
<1> DEFINE new == Cut!Clip(Cut!FreshId, c.track, c.asset, Cut!End(c), c.in, c.out)
           copy == [c EXCEPT !.id = Cut!FreshId, !.start = Cut!End(c)]
<1>1. DOMAIN c = Fields BY ShownClip, HasFields
<1>2. copy = new
  <2>1. copy = [f \in Fields |-> copy[f]] BY <1>1 DEF Fields
  <2>2. copy.id = Cut!FreshId /\ copy.track = c.track /\ copy.asset = c.asset /\ copy.start = Cut!End(c) /\ copy.in = c.in /\ copy.out = c.out
    BY <1>1 DEF Fields
  <2> HIDE DEF copy
  <2> QED BY <2>1, <2>2, IsClip
<1>3. Cut!Replace(c, {c, new})
  <2>1. Cut!Replace(c, {c, copy}) BY DEF Cut!Duplicate
  <2> HIDE DEF copy, new
  <2> QED BY <1>2, <2>1
<1>4. ClipOK(c, doc.tracks) BY ShownClip
<1>5. Cut!End(c) = c.start + (c.out - c.in) BY DEF Cut!End, Cut!Len_
<1>6. ClipOK(new, doc.tracks)
  <2>1. c.start \in Int /\ c.in \in Int /\ c.out \in Int /\ Cut!End(c) \in Int /\ c.track \in doc.tracks BY <1>5, ShownClip
  <2>2. c.track # "text" /\ Durations[c.asset] >= 2 =>
          Cut!End(c) >= 0 /\ c.in >= 0 /\ c.in + 2 <= c.out /\ c.out <= Durations[c.asset]
    BY <1>5, ShownClip, ShownFile
  <2> QED BY <2>1, <2>2, InPlace
<1> HIDE DEF new
<1> QED BY <1>3, <1>4, <1>6, TwoInPlace

LEMMA DragLeftKeeps ==
  ASSUME CutInv, NEW c \in doc.clips, NEW p \in Points, Cut!DragLeft(c, p)
  PROVE  CutInv'
<1>1. DOMAIN c = Fields BY ShownClip, HasFields
<1>2. p \in Nat /\ c.start \in Int /\ c.in \in Int /\ c.out \in Int /\ c.track \in doc.tracks BY TimelineAssumption, ShownClip
<1>3. CASE c.track = "text"
  <2> DEFINE s == Cut!Least(p, Cut!End(c) - Cut!MinClip)
             d == [c EXCEPT !.start = s, !.out = Cut!End(c) - s]
  <2>1. Cut!Replace(c, {d}) BY <1>3 DEF Cut!DragLeft
  <2>2. d = Cut!Clip(c.id, c.track, c.asset, s, c.in, Cut!End(c) - s)
    <3> HIDE DEF s
    <3>1. d = [f \in Fields |-> d[f]] BY <1>1 DEF Fields
    <3>2. d.id = c.id /\ d.track = c.track /\ d.asset = c.asset /\ d.start = s /\ d.in = c.in /\ d.out = Cut!End(c) - s
      BY <1>1 DEF Fields
    <3> HIDE DEF d
    <3> QED BY <3>1, <3>2, IsClip
  <2> HIDE DEF d
  <2>3. s \in Int /\ Cut!End(c) - s \in Int
    <3>1. Cut!End(c) \in Int /\ Cut!End(c) - Cut!MinClip \in Int BY <1>2 DEF Cut!End, Cut!Len_, Cut!MinClip
    <3>2. s \in Int BY <1>2, <3>1, Between
    <3> HIDE DEF s
    <3> QED BY <3>1, <3>2
  <2> HIDE DEF s
  <2>4. ClipOK(Cut!Clip(c.id, c.track, c.asset, s, c.in, Cut!End(c) - s), doc.tracks) BY <1>2, <1>3, <2>3, TextInPlace
  <2>5. ClipOK(d, doc.tracks) BY <2>2, <2>4
  <2> QED BY <2>1, <2>5, OneInPlace
<1>4. CASE c.track # "text"
  <2> DEFINE low == Cut!Greatest(p - c.start, -c.in)
             shift == Cut!Least(low, Cut!Len_(c) - Cut!MinClip)
             d == [c EXCEPT !.start = c.start + shift, !.in = c.in + shift]
  <2>1. Cut!Replace(c, {d}) BY <1>4 DEF Cut!DragLeft
  <2>2. Cut!Len_(c) - Cut!MinClip = c.out - c.in - 2 /\ c.out - c.in - 2 \in Int BY <1>2 DEF Cut!Len_, Cut!MinClip
  <2>3. low \in Int /\ low >= p - c.start /\ low >= -c.in
    <3>1. p - c.start \in Int /\ -c.in \in Int BY <1>2
    <3> QED BY <3>1, Between
  <2> HIDE DEF low
  <2>4. shift \in Int /\ shift <= c.out - c.in - 2 /\ (shift = low \/ shift = c.out - c.in - 2) BY <2>2, <2>3, Between
  <2> HIDE DEF shift
  <2> DEFINE s == c.start + shift
             i == c.in + shift
  <2>5. s \in Int /\ i \in Int /\ (Durations[c.asset] >= 2 => s >= 0 /\ i >= 0 /\ i + 2 <= c.out /\ c.out <= Durations[c.asset])
    BY <1>2, <1>4, <2>3, <2>4, ShownFile
  <2>6. d = Cut!Clip(c.id, c.track, c.asset, s, i, c.out)
    <3>0. d = [c EXCEPT !.start = s, !.in = i] OBVIOUS
    <3> HIDE DEF s, i
    <3>1. d = [f \in Fields |-> d[f]] BY <1>1, <3>0 DEF Fields
    <3>2. d.id = c.id /\ d.track = c.track /\ d.asset = c.asset /\ d.start = s /\ d.in = i /\ d.out = c.out
      BY <1>1, <3>0 DEF Fields
    <3> HIDE DEF d
    <3> QED BY <3>1, <3>2, IsClip
  <2> HIDE DEF d, s, i
  <2>7. ClipOK(Cut!Clip(c.id, c.track, c.asset, s, i, c.out), doc.tracks) BY <1>2, <2>5, InPlace
  <2>8. ClipOK(d, doc.tracks) BY <2>6, <2>7
  <2> QED BY <2>1, <2>8, OneInPlace
<1> QED BY <1>3, <1>4
LEMMA DragRightKeeps ==
  ASSUME CutInv, NEW c \in doc.clips, NEW p \in Points, Cut!DragRight(c, p)
  PROVE  CutInv'
<1>1. DOMAIN c = Fields BY ShownClip, HasFields
<1>2. p \in Nat /\ c.start \in Int /\ c.in \in Int /\ c.out \in Int /\ c.track \in doc.tracks BY TimelineAssumption, ShownClip
<1> DEFINE last == IF c.track = "text" THEN TextMax ELSE Durations[c.asset]
           to == Cut!Greatest(c.in + Cut!MinClip, c.in + (p - c.start))
           o == Cut!Least(last, to)
           d == [c EXCEPT !.out = o]
<1>3. Cut!Replace(c, {d}) BY DEF Cut!DragRight
<1>4. d = Cut!Clip(c.id, c.track, c.asset, c.start, c.in, o)
  <2> HIDE DEF o
  <2>1. d = [f \in Fields |-> d[f]] BY <1>1 DEF Fields
  <2>2. d.id = c.id /\ d.track = c.track /\ d.asset = c.asset /\ d.start = c.start /\ d.in = c.in /\ d.out = o
    BY <1>1 DEF Fields
  <2> HIDE DEF d
  <2> QED BY <2>1, <2>2, IsClip
<1> HIDE DEF d
<1>5. last \in Int /\ (c.track # "text" => last = Durations[c.asset]) BY ShownFile, TimelineAssumption
<1> HIDE DEF last
<1>6. to \in Int /\ to >= c.in + 2
  <2>1. c.in + Cut!MinClip = c.in + 2 /\ c.in + 2 \in Int /\ c.in + (p - c.start) \in Int BY <1>2 DEF Cut!MinClip
  <2> QED BY <2>1, Between
<1> HIDE DEF to
<1>7. o \in Int /\ o <= last /\ (o = last \/ o = to) BY <1>5, <1>6, Between
<1> HIDE DEF o
<1>8. c.track # "text" /\ Durations[c.asset] >= 2 => c.start >= 0 /\ c.in >= 0 /\ c.in + 2 <= o /\ o <= Durations[c.asset]
  BY <1>2, <1>5, <1>6, <1>7, ShownFile
<1>9. ClipOK(Cut!Clip(c.id, c.track, c.asset, c.start, c.in, o), doc.tracks) BY <1>2, <1>7, <1>8, InPlace
<1>10. ClipOK(d, doc.tracks) BY <1>4, <1>9
<1> QED BY <1>3, <1>10, OneInPlace
LEMMA MoveKeeps ==
  ASSUME CutInv, NEW c \in doc.clips, NEW p \in Points, NEW k \in doc.tracks, Cut!Move(c, p, k)
  PROVE  CutInv'
<1>1. DOMAIN c = Fields BY ShownClip, HasFields
<1>2. p \in Nat /\ c.start \in Int /\ c.in \in Int /\ c.out \in Int BY TimelineAssumption, ShownClip
<1> DEFINE d == [c EXCEPT !.start = p, !.track = k]
<1>3. Cut!Replace(c, {d}) /\ Cut!Family(k) = Cut!Family(c.track) BY DEF Cut!Move
<1>4. d = Cut!Clip(c.id, k, c.asset, p, c.in, c.out)
  <2>1. d = [f \in Fields |-> d[f]] BY <1>1 DEF Fields
  <2>2. d.id = c.id /\ d.track = k /\ d.asset = c.asset /\ d.start = p /\ d.in = c.in /\ d.out = c.out
    BY <1>1 DEF Fields
  <2> HIDE DEF d
  <2> QED BY <2>1, <2>2, IsClip
<1> HIDE DEF d
<1>5. c.track # "text" /\ Durations[c.asset] >= 2 => p >= 0 /\ c.in >= 0 /\ c.in + 2 <= c.out /\ c.out <= Durations[c.asset]
  BY <1>2, ShownFile
<1>6. ClipOK(Cut!Clip(c.id, k, c.asset, p, c.in, c.out), doc.tracks)
  <2>1. p \in Int BY <1>2
  <2> QED BY <1>2, <1>3, <1>5, <2>1, InPlace
<1>7. ClipOK(d, doc.tracks) BY <1>4, <1>6
<1> QED BY <1>3, <1>7, OneInPlace

\* Each number the inspector takes is at least the shortest clip away from the other.
LEMMA TypeInKeeps ==
  ASSUME CutInv, NEW c \in doc.clips, NEW v \in Points, Cut!TypeIn(c, v)
  PROVE  CutInv'
<1>1. DOMAIN c = Fields BY ShownClip, HasFields
<1>2. v \in Int /\ v >= 0 /\ c.start \in Int /\ c.in \in Int /\ c.out \in Int /\ c.track \in doc.tracks
  BY TimelineAssumption, ShownClip
<1>3. ASSUME NEW s \in Int, NEW i \in Int, NEW o \in Int,
             Cut!Replace(c, {Cut!Clip(c.id, c.track, c.asset, s, i, o)}),
             c.track # "text" /\ Durations[c.asset] >= 2 => s >= 0 /\ i >= 0 /\ i + 2 <= o /\ o <= Durations[c.asset]
      PROVE  CutInv'
  <2>1. ClipOK(Cut!Clip(c.id, c.track, c.asset, s, i, o), doc.tracks) BY <1>2, <1>3, InPlace
  <2> QED BY <1>3, <2>1, OneInPlace
<1>4. CASE Cut!Replace(c, {[c EXCEPT !.start = v]})
  <2> DEFINE d == [c EXCEPT !.start = v]
  <2>1. d = Cut!Clip(c.id, c.track, c.asset, v, c.in, c.out)
    <3>1. d = [f \in Fields |-> d[f]] BY <1>1 DEF Fields
    <3>2. d.id = c.id /\ d.track = c.track /\ d.asset = c.asset /\ d.start = v /\ d.in = c.in /\ d.out = c.out BY <1>1 DEF Fields
    <3> HIDE DEF d
    <3> QED BY <3>1, <3>2, IsClip
  <2>2. Cut!Replace(c, {Cut!Clip(c.id, c.track, c.asset, v, c.in, c.out)}) BY <1>4, <2>1
  <2>3. c.track # "text" /\ Durations[c.asset] >= 2 => c.in >= 0 /\ c.in + 2 <= c.out /\ c.out <= Durations[c.asset] BY ShownFile
  <2> QED BY <1>2, <1>3, <2>2, <2>3
<1>5. ASSUME NEW i \in Int, Cut!Replace(c, {[c EXCEPT !.in = i]}), c.track # "text",
             Durations[c.asset] >= 2 => i >= 0 /\ i + 2 <= c.out
      PROVE  CutInv'
  <2> DEFINE d == [c EXCEPT !.in = i]
  <2>1. d = Cut!Clip(c.id, c.track, c.asset, c.start, i, c.out)
    <3>1. d = [f \in Fields |-> d[f]] BY <1>1 DEF Fields
    <3>2. d.id = c.id /\ d.track = c.track /\ d.asset = c.asset /\ d.start = c.start /\ d.in = i /\ d.out = c.out BY <1>1 DEF Fields
    <3> HIDE DEF d
    <3> QED BY <3>1, <3>2, IsClip
  <2>2. Cut!Replace(c, {Cut!Clip(c.id, c.track, c.asset, c.start, i, c.out)}) BY <1>5, <2>1
  <2>3. Durations[c.asset] >= 2 => c.start >= 0 /\ c.out <= Durations[c.asset] BY <1>5, ShownFile
  <2> QED BY <1>2, <1>3, <1>5, <2>2, <2>3
<1>6. ASSUME NEW o \in Int, Cut!Replace(c, {[c EXCEPT !.out = o]}),
             c.track # "text" /\ Durations[c.asset] >= 2 => c.in + 2 <= o /\ o <= Durations[c.asset]
      PROVE  CutInv'
  <2> DEFINE d == [c EXCEPT !.out = o]
  <2>1. d = Cut!Clip(c.id, c.track, c.asset, c.start, c.in, o)
    <3>1. d = [f \in Fields |-> d[f]] BY <1>1 DEF Fields
    <3>2. d.id = c.id /\ d.track = c.track /\ d.asset = c.asset /\ d.start = c.start /\ d.in = c.in /\ d.out = o BY <1>1 DEF Fields
    <3> HIDE DEF d
    <3> QED BY <3>1, <3>2, IsClip
  <2>2. Cut!Replace(c, {Cut!Clip(c.id, c.track, c.asset, c.start, c.in, o)}) BY <1>6, <2>1
  <2>3. c.track # "text" /\ Durations[c.asset] >= 2 => c.start >= 0 /\ c.in >= 0 BY ShownFile
  <2> QED BY <1>2, <1>3, <1>6, <2>2, <2>3
<1>7. CASE c.track = "text" /\ Cut!Replace(c, {[c EXCEPT !.out = Cut!Greatest(Cut!MinText, Cut!Least(v, TextMax))]})
  <2> DEFINE o == Cut!Greatest(Cut!MinText, Cut!Least(v, TextMax))
  <2>1. Cut!Least(v, TextMax) \in Int BY <1>2, Between, TimelineAssumption
  <2>2. o \in Int BY <2>1, Between DEF Cut!MinText
  <2> HIDE DEF o
  <2>3. Cut!Replace(c, {[c EXCEPT !.out = o]}) BY <1>7 DEF o
  <2> QED BY <1>6, <1>7, <2>2, <2>3
<1> DEFINE w == Cut!Least(v, Durations[c.asset])
<1>8. c.track # "text" => w \in Int /\ w <= Durations[c.asset] /\ w >= 0
  <2> SUFFICES ASSUME c.track # "text" PROVE w \in Int /\ w <= Durations[c.asset] /\ w >= 0 OBVIOUS
  <2>1. Durations[c.asset] \in Int /\ Durations[c.asset] >= 0 BY ShownFile
  <2> QED BY <1>2, <2>1, Between
<1>9. CASE c.track # "text" /\ Cut!Replace(c, {[c EXCEPT !.in = Cut!Least(w, c.out - Cut!MinClip)]})
  <2> DEFINE i == Cut!Least(w, c.out - Cut!MinClip)
  <2>0. c.out - Cut!MinClip = c.out - 2 /\ c.out - 2 \in Int BY <1>2 DEF Cut!MinClip
  <2> HIDE DEF w
  <2>1. i \in Int /\ i <= c.out - 2 /\ (i = w \/ i = c.out - 2) BY <1>8, <1>9, <2>0, Between
  <2>2. Durations[c.asset] >= 2 => i >= 0 /\ i + 2 <= c.out
    <3> HIDE DEF i
    <3> QED BY <1>2, <1>8, <1>9, <2>1, ShownFile
  <2>3. Cut!Replace(c, {[c EXCEPT !.in = i]}) BY <1>9
  <2> HIDE DEF i
  <2> QED BY <1>5, <1>9, <2>1, <2>2, <2>3
<1>10. CASE c.track # "text" /\ Cut!Replace(c, {[c EXCEPT !.out = Cut!Greatest(w, c.in + Cut!MinClip)]})
  <2> DEFINE o == Cut!Greatest(w, c.in + Cut!MinClip)
  <2>0. c.in + Cut!MinClip = c.in + 2 /\ c.in + 2 \in Int BY <1>2 DEF Cut!MinClip
  <2> HIDE DEF w
  <2>1. o \in Int /\ o >= c.in + 2 /\ (o = w \/ o = c.in + 2) BY <1>8, <1>10, <2>0, Between
  <2>2. Durations[c.asset] >= 2 => c.in + 2 <= o /\ o <= Durations[c.asset]
    <3> HIDE DEF o
    <3> QED BY <1>2, <1>8, <1>10, <2>1, ShownFile
  <2>3. Cut!Replace(c, {[c EXCEPT !.out = o]}) BY <1>10
  <2> HIDE DEF o
  <2> QED BY <1>6, <1>10, <2>1, <2>2, <2>3
<1> QED BY <1>4, <1>7, <1>9, <1>10 DEF Cut!TypeIn

LEMMA EditingKeeps ==
  ASSUME CutInv, NEW c \in doc.clips, NEW p \in Points, Cut!Editing(c, p)
  PROVE  CutInv'
  BY DetachKeeps, SplitKeeps, DeleteKeeps, DuplicateKeeps, DragLeftKeeps, DragRightKeeps, TypeInKeeps, MoveKeeps
  DEF Cut!Editing

\* What was undone and redone were timelines too.
LEMMA UndoKeeps ==
  ASSUME CutInv, Cut!Undo
  PROVE  CutInv'
<1>1. past # <<>> /\ doc' = Cut!Last(past) /\ past' = Cut!Front(past) /\ future' = Append(future, doc) /\ edits' = edits
  BY DEF Cut!Undo
<1>2. DocsOK(past) /\ DocsOK(future) /\ DocOK(doc) /\ Len(past) + Len(future) <= edits BY DEF CutInv
<1>3. DocsOK(Cut!Front(past)) /\ DocOK(Cut!Last(past)) /\ Len(past) \in Nat /\ Len(Cut!Front(past)) = Len(past) - 1
  BY <1>1, <1>2, DocsShrink
<1>4. DocsOK(Append(future, doc)) /\ Len(Append(future, doc)) = Len(future) + 1 /\ Len(future) \in Nat
  BY <1>2, DocsGrow
<1>5. edits \in Nat /\ edits <= MaxEdits BY DEF CutInv
<1>6. Len(Cut!Front(past)) + Len(Append(future, doc)) <= edits BY <1>2, <1>3, <1>4, <1>5
<1> QED BY <1>1, <1>3, <1>4, <1>5, <1>6 DEF CutInv
LEMMA RedoKeeps ==
  ASSUME CutInv, Cut!Redo
  PROVE  CutInv'
<1>1. future # <<>> /\ doc' = Cut!Last(future) /\ future' = Cut!Front(future) /\ past' = Append(past, doc) /\ edits' = edits
  BY DEF Cut!Redo
<1>2. DocsOK(past) /\ DocsOK(future) /\ DocOK(doc) /\ Len(past) + Len(future) <= edits BY DEF CutInv
<1>3. DocsOK(Cut!Front(future)) /\ DocOK(Cut!Last(future)) /\ Len(future) \in Nat /\ Len(Cut!Front(future)) = Len(future) - 1
  BY <1>1, <1>2, DocsShrink
<1>4. DocsOK(Append(past, doc)) /\ Len(Append(past, doc)) = Len(past) + 1 /\ Len(past) \in Nat
  BY <1>2, DocsGrow
<1>5. edits \in Nat /\ edits <= MaxEdits BY DEF CutInv
<1>6. Len(Append(past, doc)) + Len(Cut!Front(future)) <= edits BY <1>2, <1>3, <1>4, <1>5
<1> QED BY <1>1, <1>3, <1>4, <1>5, <1>6 DEF CutInv
LEMMA CutKeeps == ASSUME CutInv, [Cut!Next]_(Cut!vars) PROVE CutInv'
<1>1. CASE UNCHANGED Cut!vars BY <1>1 DEF Cut!vars, CutInv
<1>2. CASE Cut!Next
  <2>1. CASE \E p, q \in Points : Cut!Adding(p, q) BY <2>1, AddingKeeps
  <2>2. CASE \E c \in doc.clips, p \in Points : Cut!Editing(c, p) BY <2>2, EditingKeeps
  <2>3. CASE Cut!Undo \/ Cut!Redo BY <2>3, UndoKeeps, RedoKeeps
  <2> QED BY <1>2, <2>1, <2>2, <2>3 DEF Cut!Next
<1> QED BY <1>1, <1>2

\* What is right is stored, and has its type.
LEMMA CutIsStored == CutInv => Cut!FilesAreStored
<1> SUFFICES ASSUME CutInv, NEW c \in doc.clips, c.track # "text"
             PROVE  /\ c.asset \in Media /\ Cut!Fits(c)
                    /\ Durations[c.asset] >= Cut!MinClip /\ Cut!End(c) <= MaxTime => Cut!AcceptsFile(c)
  BY DEF Cut!FilesAreStored
<1>1. c.asset \in Media /\ Durations[c.asset] \in Nat /\ Cut!Fits(c) BY ShownFile DEF Cut!Fits
<1>2. ASSUME Durations[c.asset] >= 2, Cut!End(c) <= MaxTime PROVE Cut!AcceptsFile(c)
  <2>1. c.start \in Int /\ c.in \in Int /\ c.out \in Int BY ShownClip
  <2>2. c.start >= 0 /\ c.in >= 0 /\ c.out >= 0 /\ c.in + 2 <= c.out /\ c.out <= Durations[c.asset] BY <1>2, ShownFile
  <2>3. c.in \in 0 .. Durations[c.asset] /\ c.out \in 0 .. Durations[c.asset] BY <1>1, <2>1, <2>2
  <2>4. Cut!Len_(c) >= 1 BY <2>1, <2>2 DEF Cut!Len_
  <2> QED BY <1>1, <1>2, <2>2, <2>3, <2>4 DEF Cut!AcceptsFile, Cut!SrvMinClip
<1> QED BY <1>1, <1>2 DEF Cut!MinClip
LEMMA CutIsTyped == CutInv => Cut!TypeOK
<1> SUFFICES ASSUME CutInv PROVE Cut!TypeOK OBVIOUS
<1>1. doc.tracks \subseteq Cut!Kinds BY DEF CutInv, DocOK
<1>2. \A c \in doc.clips : c.track \in doc.tracks /\ c.asset \in Media \cup {None} /\ {c.start, c.in, c.out} \subseteq Int
  BY ShownClip
<1>3. Len(past) \in Nat /\ Len(future) \in Nat BY DEF CutInv, DocsOK
<1>4. Len(past) + Len(future) <= MaxEdits /\ edits \in 0 .. MaxEdits BY <1>3, TimelineAssumption DEF CutInv
<1> QED BY <1>1, <1>2, <1>4 DEF Cut!TypeOK

\* Cutting a clip leaves what plays when.
LEMMA PlaysIs ==
  ASSUME NEW d, NEW x
  PROVE  x \in Cut!Plays(d) <=> \E y \in d.clips : y.track # "text" /\ \E i \in 0 .. (y.out - y.in) - 1 :
                                  x = <<y.track, y.asset, y.start + i, y.in + i>>
  BY DEF Cut!Plays, Cut!Len_
LEMMA SplitPlays ==
  ASSUME CutInv, NEW c \in doc.clips, NEW p \in Points, Cut!Split(c, p)
  PROVE  Cut!Plays(doc') = Cut!Plays(doc)
<1> DEFINE l == LeftHalf(c, p)
           r == RightHalf(c, p)
<1>1. p > c.start + 2 /\ p < c.start + (c.out - c.in) - 2 /\ Cut!Replace(c, {l, r}) BY SplitMakes
<1>2. doc'.clips = (doc.clips \ {c}) \cup {l, r}
  <2> HIDE DEF l, r
  <2>1. doc' = [doc EXCEPT !.clips = (@ \ {c}) \cup {l, r}] BY <1>1 DEF Cut!Replace, Cut!Commit
  <2>2. PICK ts, cs : doc = [tracks |-> ts, clips |-> cs] BY DEF CutInv, DocOK
  <2> QED BY <2>1, <2>2
<1>3. CASE c.track = "text"
  <2>1. l.track = "text" /\ r.track = "text" BY <1>3, ClipFields DEF LeftHalf, RightHalf
  <2> HIDE DEF l, r
  <2>2. ASSUME NEW x PROVE x \in Cut!Plays(doc') <=> x \in Cut!Plays(doc)
    <3>1. \A y : y \in doc'.clips /\ y.track # "text" <=> y \in doc.clips /\ y.track # "text" BY <1>2, <1>3, <2>1
    <3>2. x \in Cut!Plays(doc') <=> \E y \in doc'.clips : y.track # "text" /\ \E i \in 0 .. (y.out - y.in) - 1 :
                                      x = <<y.track, y.asset, y.start + i, y.in + i>>
      BY PlaysIs
    <3>3. x \in Cut!Plays(doc) <=> \E y \in doc.clips : y.track # "text" /\ \E i \in 0 .. (y.out - y.in) - 1 :
                                      x = <<y.track, y.asset, y.start + i, y.in + i>>
      BY PlaysIs
    <3> QED BY <3>1, <3>2, <3>3
  <2> QED BY <2>2
<1>4. CASE c.track # "text"
  <2> DEFINE n == p - c.start
  <2>1. /\ c.start \in Int /\ c.in \in Int /\ c.out \in Int /\ p \in Nat /\ n \in Nat /\ n > 2 /\ c.start + n = p
        /\ n < (c.out - c.in) - 2
    BY <1>1, <1>4, ShownClip, TimelineAssumption
  <2>2. l.track = c.track /\ l.asset = c.asset /\ l.start = c.start /\ l.in = c.in /\ l.out = c.in + n
    BY <1>4, ClipFields DEF LeftHalf
  <2>3. r.track = c.track /\ r.asset = c.asset /\ r.start = p /\ r.in = c.in + n /\ r.out = c.out
    BY <1>4, ClipFields DEF RightHalf
  <2> HIDE DEF l, r, n
  <2> DEFINE Shows(y, x) == \E i \in 0 .. (y.out - y.in) - 1 : x = <<y.track, y.asset, y.start + i, y.in + i>>
  <2>4. ASSUME NEW x PROVE Shows(l, x) \/ Shows(r, x) <=> Shows(c, x)
    <3>1. ASSUME Shows(l, x) PROVE Shows(c, x)
      <4>1. PICK i \in 0 .. (l.out - l.in) - 1 : x = <<l.track, l.asset, l.start + i, l.in + i>> BY <3>1
      <4>2. i \in 0 .. (c.out - c.in) - 1 /\ x = <<c.track, c.asset, c.start + i, c.in + i>> BY <2>1, <2>2, <4>1
      <4> QED BY <4>2
    <3>2. ASSUME Shows(r, x) PROVE Shows(c, x)
      <4>1. PICK i \in 0 .. (r.out - r.in) - 1 : x = <<r.track, r.asset, r.start + i, r.in + i>> BY <3>2
      <4>2. n + i \in 0 .. (c.out - c.in) - 1 /\ r.start + i = c.start + (n + i) /\ r.in + i = c.in + (n + i)
        BY <2>1, <2>3, <4>1
      <4>3. x = <<c.track, c.asset, c.start + (n + i), c.in + (n + i)>> BY <2>3, <4>1, <4>2
      <4> QED BY <4>2, <4>3
    <3>3. ASSUME Shows(c, x) PROVE Shows(l, x) \/ Shows(r, x)
      <4>1. PICK i \in 0 .. (c.out - c.in) - 1 : x = <<c.track, c.asset, c.start + i, c.in + i>> BY <3>3
      <4>2. CASE i < n
        <5>1. i \in 0 .. (l.out - l.in) - 1 /\ x = <<l.track, l.asset, l.start + i, l.in + i>> BY <2>1, <2>2, <4>1, <4>2
        <5> QED BY <5>1
      <4>3. CASE ~(i < n)
        <5>1. i - n \in 0 .. (r.out - r.in) - 1 /\ r.start + (i - n) = c.start + i /\ r.in + (i - n) = c.in + i
          BY <2>1, <2>3, <4>1, <4>3
        <5>2. x = <<r.track, r.asset, r.start + (i - n), r.in + (i - n)>> BY <2>3, <4>1, <5>1
        <5> QED BY <5>1, <5>2
      <4> QED BY <4>2, <4>3
    <3> QED BY <3>1, <3>2, <3>3
  <2>5. ASSUME NEW x PROVE x \in Cut!Plays(doc') <=> x \in Cut!Plays(doc)
    <3>1. x \in Cut!Plays(doc') <=> \E y \in doc'.clips : y.track # "text" /\ Shows(y, x) BY PlaysIs
    <3>2. x \in Cut!Plays(doc) <=> \E y \in doc.clips : y.track # "text" /\ Shows(y, x) BY PlaysIs
    <3> HIDE DEF Shows
    <3>3. (\E y \in doc'.clips : y.track # "text" /\ Shows(y, x)) <=> (\E y \in doc.clips : y.track # "text" /\ Shows(y, x))
      BY <1>2, <1>4, <2>2, <2>3, <2>4
    <3> QED BY <3>1, <3>2, <3>3
  <2> QED BY <2>5
<1> QED BY <1>3, <1>4

-----------------------------------------------------------------------------
(* The lines a dub is corrected by (LineEditor) *)

LEMMA SpokenLines == /\ Spoken!Lines = 1..Count /\ Count \in Nat /\ Span \in Nat /\ MinLine \in Nat /\ Snap \in Nat \ {0}
                     /\ None \notin Int /\ None \notin Spoken!Texts
  BY SpliceAssumption, LinesAssumption DEF Spoken!Lines

\* The lines of a version are in order, the texts as the API keeps them.
AsKept == {"said", "fixed"}
Version(t) ==
  /\ t \in [Spoken!Lines -> [text : AsKept, start : 0..Span, end : 0..Span]]
  /\ Spoken!Apart(t) /\ \A l \in Spoken!Lines : t[l].start <= t[l].end
DraftOf == [text : Spoken!Texts \cup {None}, start : Int \cup {None}, end : Int \cup {None}]
\* The lines on show: of drafts d over a version s.
Drawn(d, s) == [l \in Spoken!Lines |-> [text |-> Spoken!Or(d[l].text, s[l].text), start |-> Spoken!Or(d[l].start, s[l].start),
                                        end |-> Spoken!Or(d[l].end, s[l].end)]]
Squashed(v) == [l \in Spoken!Lines |-> [v[l] EXCEPT !.text = Spoken!Squash(@)]]
\* What the fields e give over the version s.
Gives(e, s) == [l \in Spoken!Lines |-> [text |-> IF e[l].text = None THEN s[l].text ELSE Spoken!Squash(e[l].text),
                                        start |-> Spoken!Or(e[l].start, s[l].start), end |-> Spoken!Or(e[l].end, s[l].end)]]
Long(s) == \A l \in Spoken!Lines : s[l].end - s[l].start >= MinLine
\* Lines that may be dragged: apart, long enough and within the dub.
Draggable(v) ==
  /\ Spoken!Apart(v) /\ Long(v)
  /\ \A l \in Spoken!Lines : v[l].start \in Int /\ v[l].end \in Int /\ v[l].start >= 0 /\ v[l].end <= Span
SpokenTyped ==
  /\ spokenAt \in {"gate", "list", "loading", "editor", "error"}
  /\ row.st \in {"none", "RUNNING", "DONE", "FAILED"} /\ submitting \in {"no", "asking", "watching"}
  /\ typed \in BOOLEAN /\ moves \in 0..MaxMoves /\ versions \in 0..MaxVersions
  /\ Version(segments) /\ Version(made) /\ (row.st = "RUNNING" => Version(row.lines))
  /\ drafts \in [Spoken!Lines -> DraftOf] /\ sent \in [Spoken!Lines -> DraftOf]
\* Away from the editor the page holds nothing.
AwayEmpty == spokenAt # "editor" => drafts = Spoken!NoDrafts /\ submitting = "no" /\ shown = None /\ typed = FALSE
DragsRight == ~typed /\ Long(segments) => Draggable(Drawn(drafts, segments))
\* What was asked for is what is made.
AskedFor ==
  /\ submitting = "asking" => Gives(sent, segments) = Squashed(shown)
  /\ submitting = "watching" /\ shown # None =>
       /\ row.st = "RUNNING" => row.lines = Squashed(shown)
       /\ row.st = "DONE" => made = Squashed(shown)
SpokenInv == SpokenTyped /\ AwayEmpty /\ DragsRight /\ AskedFor

LEMMA ViewIs == Spoken!view = Drawn(drafts, segments)
  BY DEF Spoken!view, Drawn
LEMMA NothingDrawn ==
  ASSUME NEW s, Version(s)
  PROVE  /\ Spoken!NoDrafts \in [Spoken!Lines -> DraftOf]
         /\ Drawn(Spoken!NoDrafts, s) = [l \in Spoken!Lines |-> [text |-> s[l].text, start |-> s[l].start, end |-> s[l].end]]
         /\ Long(s) => Draggable(Drawn(Spoken!NoDrafts, s))
<1>1. Spoken!NoDrafts \in [Spoken!Lines -> DraftOf] BY DEF Spoken!NoDrafts, Spoken!Blank, DraftOf
<1>2. \A l \in Spoken!Lines : Spoken!NoDrafts[l].text = None /\ Spoken!NoDrafts[l].start = None /\ Spoken!NoDrafts[l].end = None
  BY DEF Spoken!NoDrafts, Spoken!Blank
<1> DEFINE v == [l \in Spoken!Lines |-> [text |-> s[l].text, start |-> s[l].start, end |-> s[l].end]]
<1>3. Drawn(Spoken!NoDrafts, s) = v BY <1>2 DEF Drawn, Spoken!Or
<1>4. \A l \in Spoken!Lines : v[l].start = s[l].start /\ v[l].end = s[l].end OBVIOUS
<1>5. \A l \in Spoken!Lines : s[l].start \in 0..Span /\ s[l].end \in 0..Span BY DEF Version
<1> HIDE DEF v
<1>6. Spoken!Apart(v) BY <1>4 DEF Version, Spoken!Apart
<1>7. Long(s) => Long(v) BY <1>4 DEF Long
<1>8. Long(s) => Draggable(v)
  <2>1. \A l \in Spoken!Lines : v[l].start \in Int /\ v[l].end \in Int /\ v[l].start >= 0 /\ v[l].end <= Span
    BY <1>4, <1>5, SpokenLines
  <2> QED BY <1>6, <1>7, <2>1 DEF Draggable
<1> QED BY <1>1, <1>3, <1>8 DEF v

LEMMA InitSpokenInv == Spoken!Init => SpokenInv
<1> SUFFICES ASSUME Spoken!Init PROVE SpokenInv OBVIOUS
<1>1. /\ spokenAt = "list" /\ made \in Spoken!Dubs /\ segments = made /\ drafts = Spoken!NoDrafts /\ row = Spoken!Idle
      /\ submitting = "no" /\ sent = Spoken!NoDrafts /\ shown = None /\ typed = FALSE /\ moves = 0 /\ versions = 0
  BY DEF Spoken!Init
<1>2. Version(made)
  <2>1. /\ made \in [Spoken!Lines -> [text : {"said"}, start : 0..Span, end : 0..Span]]
        /\ Spoken!Apart(made) /\ \A l \in Spoken!Lines : made[l].start < made[l].end
    BY <1>1 DEF Spoken!Dubs
  <2>2. \A l \in Spoken!Lines : made[l] \in [text : AsKept, start : 0..Span, end : 0..Span] BY <2>1 DEF AsKept
  <2>3. \A l \in Spoken!Lines : made[l].start <= made[l].end BY <2>1, SpokenLines
  <2>4. made \in [Spoken!Lines -> [text : AsKept, start : 0..Span, end : 0..Span]] BY <2>1, <2>2
  <2> QED BY <2>1, <2>3, <2>4 DEF Version
<1>3. row.st = "none" BY <1>1 DEF Spoken!Idle
<1>4. SpokenTyped
  <2>1. typed \in BOOLEAN BY <1>1
  <2>2. moves \in 0..MaxMoves /\ versions \in 0..MaxVersions BY <1>1, LinesAssumption
  <2>3. drafts \in [Spoken!Lines -> DraftOf] /\ sent \in [Spoken!Lines -> DraftOf] BY <1>1, <1>2, NothingDrawn
  <2> QED BY <1>1, <1>2, <1>3, <2>1, <2>2, <2>3 DEF SpokenTyped
<1>5. DragsRight BY <1>1, <1>2, NothingDrawn DEF DragsRight
<1> QED BY <1>1, <1>4, <1>5 DEF SpokenInv, AwayEmpty, AskedFor

\* A line that is dragged stays in its room.
LEMMA Rounded == \A n \in Int : Spoken!Round(n) \in Int
  BY SpokenLines DEF Spoken!Round
LEMMA InRoom ==
  ASSUME NEW l \in Spoken!Lines, NEW mode \in {"move", "start", "end"}, NEW dt \in Int, Draggable(Spoken!view)
  PROVE  LET p == Spoken!Dragged(l, mode, dt) IN
         /\ p.start \in Int /\ p.end \in Int /\ p.end - p.start >= MinLine
         /\ Spoken!Room(l).lo <= p.start /\ p.end <= Spoken!Room(l).hi /\ p.start >= 0 /\ p.end <= Span
<1> DEFINE lo == Spoken!Room(l).lo
           hi == Spoken!Room(l).hi
           was == Spoken!view[l]
           p == Spoken!Dragged(l, mode, dt)
<1>1. /\ was.start \in Int /\ was.end \in Int /\ was.end - was.start >= MinLine BY DEF Draggable, Long
<1>2. lo \in Int /\ lo >= 0 /\ lo <= was.start
  <2>1. CASE l > 1
    <3>1. l - 1 \in Spoken!Lines /\ l - 1 < l /\ lo = Spoken!view[l - 1].end BY <2>1, SpokenLines DEF Spoken!Room
    <3>2. Spoken!view[l - 1].end <= was.start BY <3>1 DEF Draggable, Spoken!Apart
    <3>3. /\ Spoken!view[l - 1].start \in Int /\ Spoken!view[l - 1].end \in Int /\ Spoken!view[l - 1].start >= 0
          /\ Spoken!view[l - 1].end - Spoken!view[l - 1].start >= MinLine
      BY <3>1 DEF Draggable, Long
    <3> QED BY <3>1, <3>2, <3>3, SpokenLines
  <2>2. CASE ~(l > 1) BY <2>2 DEF Spoken!Room, Draggable
  <2> QED BY <2>1, <2>2
<1>3. hi \in Int /\ hi <= Span /\ was.end <= hi
  <2>1. CASE l < Count
    <3>1. l + 1 \in Spoken!Lines /\ l < l + 1 /\ hi = Spoken!view[l + 1].start BY <2>1, SpokenLines DEF Spoken!Room
    <3>2. was.end <= Spoken!view[l + 1].start BY <3>1 DEF Draggable, Spoken!Apart
    <3>3. /\ Spoken!view[l + 1].start \in Int /\ Spoken!view[l + 1].end \in Int /\ Spoken!view[l + 1].end <= Span
          /\ Spoken!view[l + 1].end - Spoken!view[l + 1].start >= MinLine
      BY <3>1 DEF Draggable, Long
    <3> QED BY <3>1, <3>2, <3>3, SpokenLines
  <2>2. CASE ~(l < Count) BY <2>2, SpokenLines DEF Spoken!Room, Draggable
  <2> QED BY <2>1, <2>2
<1> DEFINE rs == Spoken!Round(was.start + dt)
           re == Spoken!Round(was.end + dt)
<1>4. rs \in Int /\ re \in Int BY <1>1, Rounded
<1>5. p = CASE mode = "move" -> LET s == Spoken!Least(Spoken!Most(lo, rs), hi - (was.end - was.start))
                                IN [start |-> s, end |-> s + was.end - was.start]
            [] mode = "start" -> [start |-> Spoken!Least(Spoken!Most(lo, rs), was.end - MinLine), end |-> was.end]
            [] mode = "end" -> [start |-> was.start, end |-> Spoken!Most(Spoken!Least(hi, re), was.start + MinLine)]
  BY DEF Spoken!Dragged
<1> HIDE DEF lo, hi, was, rs, re, p
<1>6. CASE mode = "move"
  <2> DEFINE s == Spoken!Least(Spoken!Most(lo, rs), hi - (was.end - was.start))
  <2>1. p.start = s /\ p.end = s + was.end - was.start BY <1>5, <1>6
  <2>2. s \in Int /\ lo <= s /\ s <= hi - (was.end - was.start) BY <1>1, <1>2, <1>3, <1>4 DEF Spoken!Least, Spoken!Most
  <2> HIDE DEF s
  <2>3. /\ p.start \in Int /\ p.end \in Int /\ p.end - p.start >= MinLine
        /\ lo <= p.start /\ p.end <= hi /\ p.start >= 0 /\ p.end <= Span
    BY <1>1, <1>2, <1>3, <2>1, <2>2, SpokenLines
  <2> QED BY <2>3 DEF p, lo, hi
<1>7. CASE mode = "start"
  <2> DEFINE s == Spoken!Least(Spoken!Most(lo, rs), was.end - MinLine)
  <2>1. p.start = s /\ p.end = was.end BY <1>5, <1>7
  <2>2. s \in Int /\ lo <= s /\ s <= was.end - MinLine BY <1>1, <1>2, <1>4, SpokenLines DEF Spoken!Least, Spoken!Most
  <2> HIDE DEF s
  <2>3. /\ p.start \in Int /\ p.end \in Int /\ p.end - p.start >= MinLine
        /\ lo <= p.start /\ p.end <= hi /\ p.start >= 0 /\ p.end <= Span
    BY <1>1, <1>2, <1>3, <2>1, <2>2, SpokenLines
  <2> QED BY <2>3 DEF p, lo, hi
<1>8. CASE mode = "end"
  <2> DEFINE e == Spoken!Most(Spoken!Least(hi, re), was.start + MinLine)
  <2>1. p.start = was.start /\ p.end = e BY <1>5, <1>8
  <2>2. e \in Int /\ e <= hi /\ was.start + MinLine <= e BY <1>1, <1>3, <1>4, SpokenLines DEF Spoken!Least, Spoken!Most
  <2> HIDE DEF e
  <2>3. /\ p.start \in Int /\ p.end \in Int /\ p.end - p.start >= MinLine
        /\ lo <= p.start /\ p.end <= hi /\ p.start >= 0 /\ p.end <= Span
    BY <1>1, <1>2, <1>3, <2>1, <2>2, SpokenLines
  <2> QED BY <2>3 DEF p, lo, hi
<1> QED BY <1>6, <1>7, <1>8

\* A line that stays in its room leaves the lines in order.
LEMMA StaysApart ==
  ASSUME NEW v, Draggable(v), NEW w, NEW l \in Spoken!Lines,
         \A k \in Spoken!Lines \ {l} : w[k].start = v[k].start /\ w[k].end = v[k].end,
         w[l].start \in Int, w[l].end \in Int, w[l].end - w[l].start >= MinLine, w[l].start >= 0, w[l].end <= Span,
         l > 1 => v[l - 1].end <= w[l].start, l < Count => w[l].end <= v[l + 1].start
  PROVE  Draggable(w)
<1>1. \A k \in Spoken!Lines : /\ v[k].start \in Int /\ v[k].end \in Int /\ v[k].end - v[k].start >= MinLine
                              /\ v[k].start >= 0 /\ v[k].end <= Span /\ k \in Nat /\ 1 <= k /\ k <= Count
  BY SpokenLines DEF Draggable, Long
<1>2. \A k \in Spoken!Lines : /\ w[k].start \in Int /\ w[k].end \in Int /\ w[k].end - w[k].start >= MinLine
                              /\ w[k].start >= 0 /\ w[k].end <= Span
  BY <1>1
<1>3. ASSUME NEW k \in Spoken!Lines, NEW m \in Spoken!Lines, k < m
      PROVE  w[k].end <= w[m].start
  <2>1. v[k].end <= v[m].start BY <1>3 DEF Draggable, Spoken!Apart
  <2>2. CASE k # l /\ m # l BY <2>1, <2>2
  <2>3. CASE m = l
    <3>1. l - 1 \in Spoken!Lines /\ l > 1 /\ k # l BY <1>1, <1>3, <2>3, SpokenLines
    <3>2. v[k].end <= v[l - 1].end
      <4>1. CASE k = l - 1 BY <1>1, <4>1
      <4>2. CASE k # l - 1
        <5>1. k < l - 1 BY <1>1, <1>3, <2>3, <4>2
        <5>2. v[k].end <= v[l - 1].start BY <3>1, <5>1 DEF Draggable, Spoken!Apart
        <5> QED BY <1>1, <3>1, <5>2, SpokenLines
      <4> QED BY <4>1, <4>2
    <3> QED BY <1>1, <1>2, <2>3, <3>1, <3>2
  <2>4. CASE k = l
    <3>1. l + 1 \in Spoken!Lines /\ l < Count /\ m # l BY <1>1, <1>3, <2>4, SpokenLines
    <3>2. v[l + 1].start <= v[m].start
      <4>1. CASE m = l + 1 BY <1>1, <4>1
      <4>2. CASE m # l + 1
        <5>1. l + 1 < m BY <1>1, <1>3, <2>4, <4>2
        <5>2. v[l + 1].end <= v[m].start BY <3>1, <5>1 DEF Draggable, Spoken!Apart
        <5> QED BY <1>1, <3>1, <5>2, SpokenLines
      <4> QED BY <4>1, <4>2
    <3> QED BY <1>1, <1>2, <2>4, <3>1, <3>2
  <2> QED BY <2>2, <2>3, <2>4
<1> QED BY <1>2, <1>3 DEF Draggable, Long, Spoken!Apart

LEMMA NothingAsked == Spoken!NoDrafts \in [Spoken!Lines -> DraftOf]
  BY DEF Spoken!NoDrafts, Spoken!Blank, DraftOf
LEMMA DraftsTyped ==
  ASSUME NEW d \in [Spoken!Lines -> DraftOf], NEW l \in Spoken!Lines, NEW n \in DraftOf
  PROVE  [d EXCEPT ![l] = n] \in [Spoken!Lines -> DraftOf]
  OBVIOUS

\* The steps that leave the lines and their drafts.
LEMMA SpokenStays ==
  ASSUME SpokenInv, UNCHANGED <<drafts, segments, typed>>
  PROVE  DragsRight'
  BY DEF SpokenInv, DragsRight
LEMMA AtTheList ==
  ASSUME SpokenInv, Spoken!Visit \/ Spoken!Pick
  PROVE  SpokenInv'
<1>1. /\ spokenAt # "editor" /\ spokenAt' \in {"gate", "list", "loading"}
      /\ UNCHANGED <<segments, drafts, submitting, sent, shown, typed, made, row, moves, versions>>
  BY DEF Spoken!Visit, Spoken!Pick
<1>2. DragsRight' BY <1>1, SpokenStays
<1>3. SpokenTyped' BY <1>1 DEF SpokenInv, SpokenTyped
<1>4. AwayEmpty' BY <1>1 DEF SpokenInv, AwayEmpty
<1>5. AskedFor' BY <1>1 DEF SpokenInv, AskedFor
<1> QED BY <1>2, <1>3, <1>4, <1>5 DEF SpokenInv
LEMMA LoadKeeps ==
  ASSUME SpokenInv, Spoken!Load
  PROVE  SpokenInv'
<1>1. /\ spokenAt = "loading" /\ spokenAt' \in {"editor", "error"} /\ segments' = made
      /\ submitting' \in {"no", "watching"} /\ (spokenAt' # "editor" => submitting' = "no")
      /\ UNCHANGED <<drafts, sent, shown, typed, made, row, moves, versions>>
  BY DEF Spoken!Load
<1>2. drafts = Spoken!NoDrafts /\ shown = None /\ typed = FALSE BY <1>1 DEF SpokenInv, AwayEmpty
<1>3. Version(made) BY DEF SpokenInv, SpokenTyped
<1>4. DragsRight' BY <1>1, <1>2, <1>3, NothingDrawn DEF DragsRight
<1>5. SpokenTyped' BY <1>1 DEF SpokenInv, SpokenTyped
<1>6. AwayEmpty' BY <1>1, <1>2 DEF AwayEmpty
<1>7. AskedFor' BY <1>1, <1>2 DEF AskedFor
<1> QED BY <1>4, <1>5, <1>6, <1>7 DEF SpokenInv
LEMMA Emptied ==
  ASSUME SpokenInv, drafts' = Spoken!NoDrafts, segments' \in {segments, made}, typed' = FALSE
  PROVE  DragsRight' /\ drafts' \in [Spoken!Lines -> DraftOf] /\ Version(segments') /\ typed' \in BOOLEAN
<1>1. Version(segments') BY DEF SpokenInv, SpokenTyped
<1>2. DragsRight' BY <1>1, NothingDrawn DEF DragsRight
<1>3. drafts' \in [Spoken!Lines -> DraftOf] BY <1>1, NothingDrawn
<1>4. typed' \in BOOLEAN OBVIOUS
<1> QED BY <1>1, <1>2, <1>3, <1>4
LEMMA LeaveKeeps ==
  ASSUME SpokenInv, Spoken!Leave
  PROVE  SpokenInv'
<1>1. /\ spokenAt' = "list" /\ drafts' = Spoken!NoDrafts /\ submitting' = "no" /\ sent' = Spoken!NoDrafts
      /\ shown' = None /\ typed' = FALSE
      /\ segments' = made /\ UNCHANGED <<made, row, moves, versions>>
  BY DEF Spoken!Leave
<1>2. DragsRight' /\ drafts' \in [Spoken!Lines -> DraftOf] /\ Version(segments') /\ typed' \in BOOLEAN BY <1>1, Emptied
<1>3. SpokenTyped' BY <1>1, <1>2, NothingAsked DEF SpokenInv, SpokenTyped
<1>4. AwayEmpty' BY <1>1 DEF AwayEmpty
<1>5. AskedFor' BY <1>1 DEF AskedFor
<1> QED BY <1>2, <1>3, <1>4, <1>5 DEF SpokenInv
LEMMA DiscardKeeps ==
  ASSUME SpokenInv, Spoken!Discard
  PROVE  SpokenInv'
<1>1. /\ spokenAt = "editor" /\ submitting = "no" /\ drafts' = Spoken!NoDrafts /\ typed' = FALSE
      /\ UNCHANGED <<spokenAt, segments, submitting, sent, shown, made, row, moves, versions>>
  BY DEF Spoken!Discard, Spoken!Free, Spoken!editing
<1>2. DragsRight' /\ drafts' \in [Spoken!Lines -> DraftOf] /\ Version(segments') /\ typed' \in BOOLEAN BY <1>1, Emptied
<1>3. SpokenTyped' BY <1>1, <1>2, NothingAsked DEF SpokenInv, SpokenTyped
<1>4. AwayEmpty' BY <1>1 DEF AwayEmpty
<1>5. AskedFor' BY <1>1 DEF AskedFor
<1> QED BY <1>2, <1>3, <1>4, <1>5 DEF SpokenInv

\* The customer's changes of a line.
LEMMA DraftKeeps ==
  ASSUME SpokenInv, spokenAt = "editor", NEW l \in Spoken!Lines, NEW n \in DraftOf, drafts' = [drafts EXCEPT ![l] = n],
         typed' \in BOOLEAN, moves' \in 0..MaxMoves, DragsRight',
         UNCHANGED <<spokenAt, segments, submitting, sent, shown, made, row, versions>>
  PROVE  SpokenInv'
<1>2. drafts \in [Spoken!Lines -> DraftOf] BY DEF SpokenInv, SpokenTyped
<1>3. drafts' \in [Spoken!Lines -> DraftOf] BY <1>2, DraftsTyped
<1>4. SpokenTyped' BY <1>3 DEF SpokenInv, SpokenTyped
<1>5. AwayEmpty' BY DEF AwayEmpty
<1>6. AskedFor' BY DEF SpokenInv, AskedFor
<1> QED BY <1>4, <1>5, <1>6 DEF SpokenInv
LEMMA OneMore == SpokenInv /\ moves < MaxMoves => moves + 1 \in 0..MaxMoves
  BY LinesAssumption DEF SpokenInv, SpokenTyped
LEMMA DraftFields ==
  ASSUME SpokenInv, NEW l \in Spoken!Lines
  PROVE  /\ drafts \in [Spoken!Lines -> DraftOf] /\ drafts[l] \in DraftOf
         /\ drafts[l] = [text |-> drafts[l].text, start |-> drafts[l].start, end |-> drafts[l].end]
<1>1. drafts \in [Spoken!Lines -> DraftOf] BY DEF SpokenInv, SpokenTyped
<1> QED BY <1>1 DEF DraftOf
LEMMA RetypeKeeps ==
  ASSUME SpokenInv, NEW l \in Spoken!Lines, Spoken!Retype(l)
  PROVE  SpokenInv'
<1>1. PICK t \in Spoken!Texts : drafts' = [drafts EXCEPT ![l] = [drafts[l] EXCEPT !.text = t]]
  BY DEF Spoken!Retype, Spoken!Draft
<1>2. /\ Spoken!Free /\ moves < MaxMoves /\ moves' = moves + 1
      /\ UNCHANGED <<spokenAt, segments, submitting, sent, shown, typed, made, row, versions>>
  BY DEF Spoken!Retype
<1>8. spokenAt = "editor" BY <1>2 DEF Spoken!Free
<1> DEFINE n == [drafts[l] EXCEPT !.text = t]
<1>3. n \in DraftOf /\ n.start = drafts[l].start /\ n.end = drafts[l].end BY DraftFields DEF DraftOf
<1>4. drafts' = [drafts EXCEPT ![l] = n] BY <1>1
<1> HIDE DEF n
<1>5. ASSUME Draggable(Drawn(drafts, segments)) PROVE Draggable(Drawn(drafts', segments))
  <2> DEFINE v == Drawn(drafts, segments)
             w == Drawn(drafts', segments)
  <2>1. /\ \A k \in Spoken!Lines \ {l} : w[k] = v[k]
        /\ w[l] = [text |-> Spoken!Or(n.text, segments[l].text), start |-> Spoken!Or(n.start, segments[l].start),
                   end |-> Spoken!Or(n.end, segments[l].end)]
    <3>1. drafts'[l] = n /\ \A k \in Spoken!Lines \ {l} : drafts'[k] = drafts[k] BY <1>4, DraftFields
    <3> QED BY <3>1 DEF Drawn
  <2>2. v[l].start = Spoken!Or(drafts[l].start, segments[l].start) /\ v[l].end = Spoken!Or(drafts[l].end, segments[l].end)
    BY DEF Drawn
  <2> HIDE DEF v, w
  <2>3. \A k \in Spoken!Lines : w[k].start = v[k].start /\ w[k].end = v[k].end BY <1>3, <2>1, <2>2
  <2>4. Draggable(v) BY <1>5 DEF v
  <2>5. Draggable(w) BY <2>3, <2>4 DEF Draggable, Long, Spoken!Apart
  <2> QED BY <2>5 DEF w
<1>6. DragsRight' BY <1>2, <1>5 DEF SpokenInv, DragsRight
<1>7. typed' \in BOOLEAN BY <1>2 DEF SpokenInv, SpokenTyped
<1> QED BY <1>2, <1>3, <1>4, <1>6, <1>7, <1>8, OneMore, DraftKeeps
LEMMA RetimeKeeps ==
  ASSUME SpokenInv, NEW l \in Spoken!Lines, Spoken!Retime(l)
  PROVE  SpokenInv'
<1>1. PICK f \in {"start", "end"}, t \in 0..Span : drafts' = [drafts EXCEPT ![l] = [drafts[l] EXCEPT ![f] = t]]
  BY DEF Spoken!Retime, Spoken!Draft
<1>2. /\ Spoken!Free /\ moves < MaxMoves /\ moves' = moves + 1 /\ typed' = TRUE
      /\ UNCHANGED <<spokenAt, segments, submitting, sent, shown, made, row, versions>>
  BY DEF Spoken!Retime
<1>3. [drafts[l] EXCEPT ![f] = t] \in DraftOf
  <2>0. t \in Int BY SpokenLines
  <2>1. t \in Int /\ drafts[l] \in DraftOf BY <2>0, DraftFields
  <2>2. CASE f = "start" BY <2>1, <2>2 DEF DraftOf
  <2>3. CASE f = "end" BY <2>1, <2>3 DEF DraftOf
  <2> QED BY <2>2, <2>3
<1>4. DragsRight' BY <1>2 DEF DragsRight
<1>5. typed' \in BOOLEAN BY <1>2
<1>6. moves' \in 0..MaxMoves BY <1>2, OneMore
<1>7. spokenAt = "editor" BY <1>2 DEF Spoken!Free
<1> QED BY <1>1, <1>2, <1>3, <1>4, <1>5, <1>6, <1>7, DraftKeeps
LEMMA RevertKeeps ==
  ASSUME SpokenInv, NEW l \in Spoken!Lines, Spoken!Revert(l)
  PROVE  SpokenInv'
<1>1. /\ spokenAt = "editor" /\ drafts' = [drafts EXCEPT ![l] = Spoken!Blank] /\ typed' = TRUE
      /\ UNCHANGED <<spokenAt, segments, submitting, sent, shown, made, row, moves, versions>>
  BY DEF Spoken!Revert, Spoken!Draft
<1>2. Spoken!Blank \in DraftOf BY DEF Spoken!Blank, DraftOf
<1>3. DragsRight' BY <1>1 DEF DragsRight
<1>4. typed' \in BOOLEAN BY <1>1
<1>5. moves' \in 0..MaxMoves BY <1>1 DEF SpokenInv, SpokenTyped
<1> QED BY <1>1, <1>2, <1>3, <1>4, <1>5, DraftKeeps
LEMMA ViewTimes ==
  ASSUME SpokenInv, NEW l \in Spoken!Lines
  PROVE  Spoken!view[l].start \in Int /\ Spoken!view[l].end \in Int
<1>1. drafts[l].start \in Int \cup {None} /\ drafts[l].end \in Int \cup {None} BY DraftFields DEF DraftOf
<1>2. segments[l].start \in Int /\ segments[l].end \in Int BY SpokenLines DEF SpokenInv, SpokenTyped, Version
<1> QED BY <1>1, <1>2 DEF Spoken!view, Spoken!Or
LEMMA DraggedTimes ==
  ASSUME SpokenInv, NEW l \in Spoken!Lines, NEW mode \in {"move", "start", "end"}, NEW dt \in Int
  PROVE  Spoken!Dragged(l, mode, dt).start \in Int /\ Spoken!Dragged(l, mode, dt).end \in Int
<1> DEFINE lo == Spoken!Room(l).lo
           hi == Spoken!Room(l).hi
           was == Spoken!view[l]
           rs == Spoken!Round(was.start + dt)
           re == Spoken!Round(was.end + dt)
<1>1. was.start \in Int /\ was.end \in Int BY ViewTimes
<1>2. lo \in Int
  <2>1. CASE l > 1
    <3>1. l - 1 \in Spoken!Lines BY <2>1, SpokenLines
    <3> QED BY <2>1, <3>1, ViewTimes DEF Spoken!Room
  <2> QED BY <2>1 DEF Spoken!Room
<1>3. hi \in Int
  <2>1. CASE l < Count
    <3>1. l + 1 \in Spoken!Lines BY <2>1, SpokenLines
    <3> QED BY <2>1, <3>1, ViewTimes DEF Spoken!Room
  <2> QED BY <2>1, SpokenLines DEF Spoken!Room
<1>4. rs \in Int /\ re \in Int BY <1>1, Rounded
<1>5. Spoken!Dragged(l, mode, dt) =
          CASE mode = "move" -> LET s == Spoken!Least(Spoken!Most(lo, rs), hi - (was.end - was.start))
                                IN [start |-> s, end |-> s + was.end - was.start]
            [] mode = "start" -> [start |-> Spoken!Least(Spoken!Most(lo, rs), was.end - MinLine), end |-> was.end]
            [] mode = "end" -> [start |-> was.start, end |-> Spoken!Most(Spoken!Least(hi, re), was.start + MinLine)]
  BY DEF Spoken!Dragged
<1> HIDE DEF lo, hi, was, rs, re
<1>6. /\ Spoken!Least(Spoken!Most(lo, rs), hi - (was.end - was.start)) \in Int
      /\ Spoken!Least(Spoken!Most(lo, rs), was.end - MinLine) \in Int
      /\ Spoken!Most(Spoken!Least(hi, re), was.start + MinLine) \in Int
  BY <1>1, <1>2, <1>3, <1>4, SpokenLines DEF Spoken!Least, Spoken!Most
<1> QED BY <1>1, <1>5, <1>6
LEMMA DragKeeps ==
  ASSUME SpokenInv, NEW l \in Spoken!Lines, Spoken!Drag(l)
  PROVE  SpokenInv'
<1>1. PICK mode \in {"move", "start", "end"}, dt \in -Span..Span :
        LET p == Spoken!Dragged(l, mode, dt)
        IN drafts' = [drafts EXCEPT ![l] = [drafts[l] EXCEPT !.start = p.start, !.end = p.end]]
  BY DEF Spoken!Drag, Spoken!Draft
<1>2. /\ Spoken!Free /\ moves < MaxMoves /\ moves' = moves + 1
      /\ UNCHANGED <<spokenAt, segments, submitting, sent, shown, typed, made, row, versions>>
  BY DEF Spoken!Drag
<1> DEFINE p == Spoken!Dragged(l, mode, dt)
           n == [drafts[l] EXCEPT !.start = p.start, !.end = p.end]
<1>3. drafts' = [drafts EXCEPT ![l] = n] BY <1>1
<1>4. dt \in Int BY SpokenLines
<1>5. typed' \in BOOLEAN BY <1>2 DEF SpokenInv, SpokenTyped
<1> HIDE DEF p
<1>6. p.start \in Int /\ p.end \in Int BY <1>4, DraggedTimes DEF p
<1>7. n \in DraftOf /\ n.start = p.start /\ n.end = p.end BY <1>6, DraftFields DEF DraftOf
<1> HIDE DEF n
<1>8. ASSUME Draggable(Drawn(drafts, segments)) PROVE Draggable(Drawn(drafts', segments))
  <2> DEFINE v == Drawn(drafts, segments)
             w == Drawn(drafts', segments)
  <2>1. /\ \A k \in Spoken!Lines \ {l} : w[k] = v[k]
        /\ w[l] = [text |-> Spoken!Or(n.text, segments[l].text), start |-> Spoken!Or(n.start, segments[l].start),
                   end |-> Spoken!Or(n.end, segments[l].end)]
    <3>1. drafts'[l] = n /\ \A k \in Spoken!Lines \ {l} : drafts'[k] = drafts[k] BY <1>3, DraftFields
    <3> QED BY <3>1 DEF Drawn
  <2>2. v = Spoken!view BY ViewIs
  <2> HIDE DEF v, w
  <2>3. Draggable(v) BY <1>8 DEF v
  <2>4. w[l].start = p.start /\ w[l].end = p.end BY <1>6, <1>7, <2>1, SpokenLines DEF Spoken!Or
  <2>5. /\ p.end - p.start >= MinLine /\ p.start >= 0 /\ p.end <= Span
        /\ Spoken!Room(l).lo <= p.start /\ p.end <= Spoken!Room(l).hi
    BY <1>4, <2>2, <2>3, InRoom DEF p
  <2>6. (l > 1 => v[l - 1].end <= p.start) /\ (l < Count => p.end <= v[l + 1].start)
    BY <2>2, <2>5 DEF Spoken!Room
  <2>7. \A k \in Spoken!Lines \ {l} : w[k].start = v[k].start /\ w[k].end = v[k].end BY <2>1
  <2>8. Draggable(w) BY <1>6, <2>3, <2>4, <2>5, <2>6, <2>7, StaysApart
  <2> QED BY <2>8 DEF w
<1>9. DragsRight' BY <1>2, <1>8 DEF SpokenInv, DragsRight
<1>10. moves' \in 0..MaxMoves BY <1>2, OneMore
<1>11. spokenAt = "editor" BY <1>2 DEF Spoken!Free
<1> QED BY <1>2, <1>3, <1>5, <1>7, <1>9, <1>10, <1>11, DraftKeeps

\* What is sent, and what the API makes of it.
LEMMA RefusedKeeps ==
  ASSUME SpokenInv, Spoken!Refused
  PROVE  SpokenInv'
<1>1. /\ submitting = "asking" /\ submitting' = "no" /\ sent' = Spoken!NoDrafts /\ shown' = None
      /\ UNCHANGED <<spokenAt, segments, drafts, typed, made, row, moves, versions>>
  BY DEF Spoken!Refused
<1>2. DragsRight' BY <1>1, SpokenStays
<1>3. SpokenTyped' BY <1>1, NothingAsked DEF SpokenInv, SpokenTyped
<1>4. AwayEmpty' BY <1>1 DEF SpokenInv, AwayEmpty
<1>5. AskedFor' BY <1>1 DEF AskedFor
<1> QED BY <1>2, <1>3, <1>4, <1>5 DEF SpokenInv
LEMMA EditsTyped ==
  ASSUME SpokenInv
  PROVE  Spoken!edits \in [Spoken!Lines -> DraftOf]
<1>1. ASSUME NEW l \in Spoken!Lines
      PROVE  [text |-> Spoken!Reworded(l), start |-> Spoken!Differs(drafts[l].start, segments[l].start),
              end |-> Spoken!Differs(drafts[l].end, segments[l].end)] \in DraftOf
  <2>1. drafts[l].text \in Spoken!Texts \cup {None} /\ drafts[l].start \in Int \cup {None} /\ drafts[l].end \in Int \cup {None}
    BY DraftFields DEF DraftOf
  <2>2. Spoken!Reworded(l) \in Spoken!Texts \cup {None}
    BY <2>1 DEF Spoken!Reworded, Spoken!Differs, Spoken!Trim, Spoken!Texts
  <2>3. /\ Spoken!Differs(drafts[l].start, segments[l].start) \in Int \cup {None}
        /\ Spoken!Differs(drafts[l].end, segments[l].end) \in Int \cup {None}
    BY <2>1 DEF Spoken!Differs
  <2> QED BY <2>2, <2>3 DEF DraftOf
<1> QED BY <1>1 DEF Spoken!edits
LEMMA InALine == \* lines that each begin after the one before has ended are apart
  ASSUME NEW t, \A l \in Spoken!Lines : t[l].start \in Int /\ t[l].end \in Int /\ t[l].start <= t[l].end,
         \A l \in 2..Count : t[l].start >= t[l - 1].end
  PROVE  Spoken!Apart(t)
<1> SUFFICES ASSUME NEW l \in Spoken!Lines, NEW m \in Spoken!Lines, l < m, ~(t[l].end <= t[m].start) PROVE FALSE
  BY DEF Spoken!Apart
<1> DEFINE Early == {k \in Spoken!Lines : l < k /\ ~(t[l].end <= t[k].start)}
<1>1. m \in Early /\ Early \in SUBSET Nat BY SpokenLines
<1>2. PICK k \in Early : \A n \in Early : k <= n
  <2> HIDE DEF Early
  <2> QED BY <1>1, LeastOf
<1>3. k \in Spoken!Lines /\ l < k /\ ~(t[l].end <= t[k].start) OBVIOUS
<1>4. k - 1 \in Spoken!Lines /\ k \in 2..Count /\ l <= k - 1 /\ ~(k <= k - 1) BY <1>3, SpokenLines
<1>5. k - 1 \notin Early
  <2> HIDE DEF Early
  <2> QED BY <1>2, <1>4
<1>6. t[k - 1].end <= t[k].start BY <1>4
<1>7. CASE l = k - 1 BY <1>3, <1>6, <1>7
<1>8. CASE l # k - 1
  <2>1. l < k - 1 BY <1>3, <1>4, <1>8, SpokenLines
  <2>2. t[l].end <= t[k - 1].start BY <1>4, <1>5, <2>1
  <2>3. /\ t[k - 1].start <= t[k - 1].end /\ t[k - 1].start \in Int /\ t[k - 1].end \in Int
        /\ t[l].end \in Int /\ t[k].start \in Int
    BY <1>3, <1>4
  <2> QED BY <1>3, <1>6, <2>2, <2>3
<1> QED BY <1>7, <1>8
LEMMA AcceptedIsVersion ==
  ASSUME SpokenInv, Spoken!Accepted(sent)
  PROVE  Version(Spoken!Edited(sent))
<1> DEFINE e == sent
           new == Spoken!Edited(e)
<1>1. Version(made) BY DEF SpokenInv, SpokenTyped
<1>2. \A l \in Spoken!Lines :
        /\ new[l].text = IF e[l].text = None THEN made[l].text ELSE Spoken!Squash(e[l].text)
        /\ new[l].start = Spoken!Or(e[l].start, made[l].start) /\ new[l].end = Spoken!Or(e[l].end, made[l].end)
        /\ new[l] = [text |-> new[l].text, start |-> new[l].start, end |-> new[l].end]
  BY DEF Spoken!Edited
<1>3. new = [l \in Spoken!Lines |-> new[l]] BY DEF Spoken!Edited
<1>4. /\ \A l \in Spoken!Lines : e[l].start # None \/ e[l].end # None =>
           new[l].end - new[l].start >= MinLine /\ new[l].start >= 0 /\ new[l].end <= Span
      /\ \A l \in 2..Count : new[l].start >= new[l - 1].end
  BY DEF Spoken!Accepted
<1>5. \A l \in Spoken!Lines : /\ e[l].text \in Spoken!Texts \cup {None} /\ e[l].start \in Int \cup {None}
                              /\ e[l].end \in Int \cup {None}
  BY DEF SpokenInv, SpokenTyped, DraftOf
<1> HIDE DEF e, new
<1>6. ASSUME NEW l \in Spoken!Lines
      PROVE  new[l] \in [text : AsKept, start : 0..Span, end : 0..Span] /\ new[l].start <= new[l].end
  <2>1. made[l].text \in AsKept /\ made[l].start \in 0..Span /\ made[l].end \in 0..Span /\ made[l].start <= made[l].end
    BY <1>1 DEF Version
  <2>2. new[l].text \in AsKept
    <3>1. e[l].text # None => Spoken!Squash(e[l].text) \in AsKept
      BY <1>5 DEF Spoken!Texts, Spoken!Squash, Spoken!Trim, AsKept
    <3> QED BY <1>2, <2>1, <3>1
  <2>3. new[l].start \in Int /\ new[l].end \in Int
    <3>1. made[l].start \in Int /\ made[l].end \in Int BY <2>1, SpokenLines
    <3>2. e[l].start \in Int \cup {None} /\ e[l].end \in Int \cup {None} BY <1>5
    <3>3. new[l].start = Spoken!Or(e[l].start, made[l].start) /\ new[l].end = Spoken!Or(e[l].end, made[l].end) BY <1>2
    <3> QED BY <3>1, <3>2, <3>3 DEF Spoken!Or
  <2>4. new[l].start \in 0..Span /\ new[l].end \in 0..Span /\ new[l].start <= new[l].end
    <3>1. CASE e[l].start # None \/ e[l].end # None
      <4>1. new[l].end - new[l].start >= MinLine /\ new[l].start >= 0 /\ new[l].end <= Span BY <1>4, <3>1
      <4> QED BY <2>3, <4>1, SpokenLines
    <3>2. CASE e[l].start = None /\ e[l].end = None BY <1>2, <2>1, <3>2 DEF Spoken!Or
    <3> QED BY <3>1, <3>2
  <2>5. new[l] = [text |-> new[l].text, start |-> new[l].start, end |-> new[l].end] BY <1>2
  <2> QED BY <2>2, <2>4, <2>5
<1>7. \A l \in Spoken!Lines : new[l].start \in Int /\ new[l].end \in Int /\ new[l].start <= new[l].end BY <1>6, SpokenLines
<1>8. Spoken!Apart(new) BY <1>4, <1>7, InALine
<1>9. new \in [Spoken!Lines -> [text : AsKept, start : 0..Span, end : 0..Span]] BY <1>3, <1>6
<1> QED BY <1>7, <1>8, <1>9 DEF Version, new, e

\* Over the version they differ from, the fields that differ give the lines on show.
LEMMA GivesTheShown ==
  ASSUME SpokenInv
  PROVE  Gives(Spoken!edits, segments) = Squashed(Drawn(drafts, segments))
<1> DEFINE v == Drawn(drafts, segments)
           new == Gives(Spoken!edits, segments)
<1>1. ASSUME NEW l \in Spoken!Lines PROVE new[l] = [v[l] EXCEPT !.text = Spoken!Squash(@)]
  <2> DEFINE d == drafts[l]
             s == segments[l]
  <2>1. d.text \in Spoken!Texts \cup {None} BY DraftFields DEF DraftOf
  <2>2. s.text \in AsKept BY DEF SpokenInv, SpokenTyped, Version
  <2>3. None \notin Spoken!Texts BY SpokenLines
  <2>4. v[l] = [text |-> Spoken!Or(d.text, s.text), start |-> Spoken!Or(d.start, s.start), end |-> Spoken!Or(d.end, s.end)]
    BY DEF Drawn
  <2>5. /\ Spoken!edits[l].text = Spoken!Reworded(l) /\ Spoken!edits[l].start = Spoken!Differs(d.start, s.start)
        /\ Spoken!edits[l].end = Spoken!Differs(d.end, s.end)
    BY DEF Spoken!edits
  <2>6. Spoken!Reworded(l) = IF d.text = None THEN None ELSE Spoken!Differs(Spoken!Trim(d.text), Spoken!Trim(s.text))
    BY DEF Spoken!Reworded
  <2>7. new[l] = [text |-> IF Spoken!edits[l].text = None THEN s.text ELSE Spoken!Squash(Spoken!edits[l].text),
                  start |-> Spoken!Or(Spoken!edits[l].start, s.start), end |-> Spoken!Or(Spoken!edits[l].end, s.end)]
    BY DEF Gives
  <2> HIDE DEF d, s, v, new
  <2>8. /\ Spoken!Or(Spoken!Differs(d.start, s.start), s.start) = Spoken!Or(d.start, s.start)
        /\ Spoken!Or(Spoken!Differs(d.end, s.end), s.end) = Spoken!Or(d.end, s.end)
    BY DEF Spoken!Or, Spoken!Differs
  <2>9. (IF Spoken!edits[l].text = None THEN s.text ELSE Spoken!Squash(Spoken!edits[l].text)) = Spoken!Squash(Spoken!Or(d.text, s.text))
    <3>1. CASE d.text = None
      <4>1. Spoken!edits[l].text = None /\ Spoken!Or(d.text, s.text) = s.text BY <2>5, <2>6, <3>1 DEF Spoken!Or
      <4>2. Spoken!Squash(s.text) = s.text BY <2>2 DEF AsKept, Spoken!Squash, Spoken!Trim
      <4> QED BY <4>1, <4>2
    <3>2. CASE d.text # None
      <4>1. d.text \in Spoken!Texts /\ Spoken!Or(d.text, s.text) = d.text BY <2>1, <3>2 DEF Spoken!Or
      <4>2. Spoken!edits[l].text = Spoken!Differs(Spoken!Trim(d.text), Spoken!Trim(s.text)) BY <2>5, <2>6, <3>2
      <4>3. Spoken!Trim(d.text) \in Spoken!Texts /\ Spoken!Squash(Spoken!Trim(d.text)) = Spoken!Squash(d.text)
        BY <4>1 DEF Spoken!Texts, Spoken!Trim, Spoken!Squash
      <4>4. Spoken!Trim(s.text) = s.text /\ Spoken!Squash(s.text) = s.text BY <2>2 DEF AsKept, Spoken!Squash, Spoken!Trim
      <4>5. CASE Spoken!Trim(d.text) = Spoken!Trim(s.text)
        <5>1. Spoken!edits[l].text = None BY <4>2, <4>5 DEF Spoken!Differs
        <5>2. Spoken!Squash(d.text) = s.text BY <4>3, <4>4, <4>5
        <5> QED BY <4>1, <5>1, <5>2
      <4>6. CASE Spoken!Trim(d.text) # Spoken!Trim(s.text)
        <5>1. Spoken!Trim(d.text) # None BY <2>3, <4>3
        <5>2. Spoken!edits[l].text = Spoken!Trim(d.text) BY <4>2, <4>6, <5>1 DEF Spoken!Differs
        <5> QED BY <4>1, <4>3, <5>1, <5>2
      <4> QED BY <4>5, <4>6
    <3> QED BY <3>1, <3>2
  <2>10. new[l] = [text |-> Spoken!Squash(Spoken!Or(d.text, s.text)), start |-> Spoken!Or(d.start, s.start), end |-> Spoken!Or(d.end, s.end)]
    BY <2>5, <2>7, <2>8, <2>9
  <2> QED BY <2>4, <2>10
<1>2. new = [l \in Spoken!Lines |-> new[l]] BY DEF Gives
<1> HIDE DEF new, v
<1>3. new = Squashed(v) BY <1>1, <1>2 DEF Squashed
<1> QED BY <1>3 DEF new, v
LEMMA ApplyKeeps ==
  ASSUME SpokenInv, Spoken!Apply
  PROVE  SpokenInv'
<1>1. /\ spokenAt = "editor" /\ submitting' = "asking" /\ sent' = Spoken!edits /\ shown' = Drawn(drafts, segments)
      /\ UNCHANGED <<spokenAt, segments, drafts, typed, made, row, moves, versions>>
  BY ViewIs DEF Spoken!Apply, Spoken!Free
<1>2. DragsRight' BY <1>1, SpokenStays
<1>3. SpokenTyped' BY <1>1, EditsTyped DEF SpokenInv, SpokenTyped
<1>4. AwayEmpty' BY <1>1 DEF AwayEmpty
<1>5. AskedFor' BY <1>1, GivesTheShown DEF AskedFor
<1> QED BY <1>2, <1>3, <1>4, <1>5 DEF SpokenInv
LEMMA CreateKeeps ==
  ASSUME SpokenInv, Spoken!Create
  PROVE  SpokenInv'
<1>1. /\ submitting = "asking" /\ Spoken!Accepted(sent) /\ versions < MaxVersions /\ versions' = versions + 1
      /\ row' = [st |-> "RUNNING", lines |-> Spoken!Edited(sent)] /\ sent' = Spoken!NoDrafts
      /\ \/ submitting' = "watching" /\ shown' = IF segments = made THEN shown ELSE None
         \/ submitting' = "no" /\ shown' = None
      /\ UNCHANGED <<spokenAt, segments, drafts, typed, made, moves>>
  BY DEF Spoken!Create
<1>2. Version(Spoken!Edited(sent)) BY <1>1, AcceptedIsVersion
<1>3. row'.st = "RUNNING" /\ row'.lines = Spoken!Edited(sent) BY <1>1
<1>4. DragsRight' BY <1>1, SpokenStays
<1>5. versions' \in 0..MaxVersions BY <1>1, LinesAssumption DEF SpokenInv, SpokenTyped
<1>6. SpokenTyped'
  <2>1. Version(row'.lines) BY <1>2, <1>3
  <2>2. row'.st \in {"none", "RUNNING", "DONE", "FAILED"} BY <1>3
  <2>3. submitting' \in {"no", "asking", "watching"} BY <1>1
  <2> QED BY <1>1, <1>5, <2>1, <2>2, <2>3, NothingAsked DEF SpokenInv, SpokenTyped
<1>7. spokenAt = "editor" BY <1>1 DEF SpokenInv, AwayEmpty
<1>8. AwayEmpty' BY <1>1, <1>7 DEF AwayEmpty
<1>9. AskedFor'
  <2>1. Gives(sent, segments) = Squashed(shown) BY <1>1 DEF SpokenInv, AskedFor
  <2>2. CASE segments = made
    <3>1. row'.lines = Squashed(shown) BY <1>3, <2>1, <2>2 DEF Gives, Spoken!Edited
    <3> QED BY <1>1, <1>3, <3>1 DEF AskedFor
  <2>3. CASE segments # made BY <1>1, <2>3 DEF AskedFor
  <2> QED BY <2>2, <2>3
<1> QED BY <1>4, <1>6, <1>8, <1>9 DEF SpokenInv
LEMMA WorksKeeps ==
  ASSUME SpokenInv, Spoken!Works
  PROVE  SpokenInv'
<1>1. PICK st \in {"DONE", "FAILED"} : row' = [st |-> st, lines |-> None] /\ made' = IF st = "DONE" THEN row.lines ELSE made
  BY DEF Spoken!Works
<1>2. row.st = "RUNNING" /\ UNCHANGED <<spokenAt, segments, drafts, submitting, sent, shown, typed, moves, versions>>
  BY DEF Spoken!Works, Spoken!Active, Spoken!page
<1>3. row'.st = st /\ st # "RUNNING" BY <1>1
<1>4. DragsRight' BY <1>2, SpokenStays
<1>5. Version(made') BY <1>1, <1>2 DEF SpokenInv, SpokenTyped
<1>6. SpokenTyped' BY <1>2, <1>3, <1>5 DEF SpokenInv, SpokenTyped
<1>7. AwayEmpty' BY <1>2 DEF SpokenInv, AwayEmpty
<1>8. AskedFor' BY <1>1, <1>2, <1>3 DEF SpokenInv, AskedFor
<1> QED BY <1>4, <1>6, <1>7, <1>8 DEF SpokenInv
LEMMA WatchKeeps ==
  ASSUME SpokenInv, Spoken!Watch
  PROVE  SpokenInv'
<1>1. /\ submitting = "watching" /\ submitting' = "no" /\ segments' = made /\ shown' = None
      /\ IF row.st = "DONE" THEN drafts' = Spoken!NoDrafts /\ typed' = FALSE
         ELSE drafts' = drafts /\ typed' = (typed \/ segments # made)
      /\ UNCHANGED <<spokenAt, sent, made, row, moves, versions>>
  BY DEF Spoken!Watch
<1>2. DragsRight' /\ drafts' \in [Spoken!Lines -> DraftOf] /\ typed' \in BOOLEAN
  <2>1. CASE row.st = "DONE" BY <1>1, <2>1, Emptied
  <2>2. CASE row.st # "DONE"
    <3>1. drafts' = drafts /\ typed' = (typed \/ segments # made) BY <1>1, <2>2
    <3>2. typed' \in BOOLEAN BY <3>1, Zenon
    <3>3. DragsRight'
      <4>1. CASE ~typed' BY <1>1, <3>1, <4>1 DEF SpokenInv, DragsRight
      <4>2. CASE typed' BY <4>2 DEF DragsRight
      <4> QED BY <4>1, <4>2
    <3> QED BY <3>1, <3>2, <3>3, DraftFields DEF SpokenInv, SpokenTyped
  <2> QED BY <2>1, <2>2
<1>3. SpokenTyped' BY <1>1, <1>2 DEF SpokenInv, SpokenTyped
<1>4. spokenAt = "editor" BY <1>1 DEF SpokenInv, AwayEmpty
<1>5. AwayEmpty' BY <1>1, <1>4 DEF AwayEmpty
<1>6. AskedFor' BY <1>1 DEF AskedFor
<1> QED BY <1>2, <1>3, <1>5, <1>6 DEF SpokenInv
LEMMA SpokenKeeps == ASSUME SpokenInv, [Spoken!Next]_(Spoken!vars) PROVE SpokenInv'
<1>1. CASE UNCHANGED Spoken!vars
  BY <1>1 DEF Spoken!vars, Spoken!page, SpokenInv, SpokenTyped, AwayEmpty, DragsRight, AskedFor
<1>2. CASE Spoken!Next
  BY <1>2, AtTheList, LoadKeeps, LeaveKeeps, DiscardKeeps, ApplyKeeps, CreateKeeps, RefusedKeeps, WorksKeeps, WatchKeeps,
     RetypeKeeps, RetimeKeeps, RevertKeeps, DragKeeps DEF Spoken!Next
<1> QED BY <1>1, <1>2

LEMMA SpokenIsTyped == SpokenInv => Spoken!TypeOK
<1> SUFFICES ASSUME SpokenInv PROVE Spoken!TypeOK OBVIOUS
<1>1. \A t : Version(t) => t \in [Spoken!Lines -> Spoken!Line]
  BY DEF Version, AsKept, Spoken!Line, Spoken!Texts
<1>2. segments \in [Spoken!Lines -> Spoken!Line] /\ made \in [Spoken!Lines -> Spoken!Line] BY <1>1 DEF SpokenInv, SpokenTyped
<1>3. \A l \in Spoken!Lines, d \in {drafts, sent} :
        /\ d[l].text \in Spoken!Texts \cup {None} /\ d[l].start \in Int \cup {None} /\ d[l].end \in Int \cup {None}
  BY DEF SpokenInv, SpokenTyped, DraftOf
<1> QED BY <1>2, <1>3 DEF SpokenInv, SpokenTyped, Spoken!TypeOK
LEMMA SpokenStaysApart == SpokenInv => Spoken!DragsKeepApart
  BY ViewIs DEF SpokenInv, DragsRight, Spoken!DragsKeepApart, Draggable, Long
LEMMA RedubGivesShown ==
  ASSUME SpokenInv, Spoken!Watch, row.st = "DONE", shown # None
  PROVE  segments' = [l \in Spoken!Lines |-> [shown[l] EXCEPT !.text = Spoken!Squash(@)]]
<1>1. submitting = "watching" /\ segments' = made BY DEF Spoken!Watch
<1>2. made = Squashed(shown) BY <1>1 DEF SpokenInv, AskedFor
<1> QED BY <1>1, <1>2 DEF Squashed
-----------------------------------------------------------------------------
(* All of them, side by side *)

\* Each behaviour of the whole is one of each component.
LEMMA PlacedRuns == HarnessSpec => Spec
<1>1. HarnessInit => Init BY DEF HarnessInit
<1>2. [HarnessNext]_allVars => [Next]_(vars)
  BY DEF HarnessNext, PlacedMoves, RunMoves, LaidMoves, LibraryMoves, CutMoves, SpokenMoves, allVars, PlacedVars, vars
<1> QED BY <1>1, <1>2, PTL DEF HarnessSpec, Spec
LEMMA PipelineRuns == HarnessSpec => Run!Spec
<1>1. HarnessInit => Run!Init BY DEF HarnessInit
<1>2. [HarnessNext]_allVars => [Run!Next]_(Run!vars)
  BY DEF HarnessNext, PlacedMoves, RunMoves, LaidMoves, LibraryMoves, CutMoves, SpokenMoves, allVars, RunVars, Run!vars
<1> QED BY <1>1, <1>2, PTL DEF HarnessSpec, Run!Spec
LEMMA SpliceRuns == HarnessSpec => Laid!Spec
<1>1. HarnessInit => Laid!Init BY DEF HarnessInit
<1>2. [HarnessNext]_allVars => [Laid!Next]_(Laid!vars)
  BY DEF HarnessNext, PlacedMoves, RunMoves, LaidMoves, LibraryMoves, CutMoves, SpokenMoves, allVars, LaidVars, Laid!vars
<1> QED BY <1>1, <1>2, PTL DEF HarnessSpec, Laid!Spec
LEMMA LibraryRuns == HarnessSpec => Library!Spec
<1>1. HarnessInit => Library!Init BY DEF HarnessInit
<1>2. [HarnessNext]_allVars => [Library!Next]_(Library!vars)
  BY DEF HarnessNext, PlacedMoves, RunMoves, LaidMoves, LibraryMoves, CutMoves, SpokenMoves, allVars, LibraryVars, Library!vars, Library!tabVars
<1> QED BY <1>1, <1>2, PTL DEF HarnessSpec, Library!Spec
LEMMA TimelineRuns == HarnessSpec => Cut!Spec
<1>1. HarnessInit => Cut!Init BY DEF HarnessInit
<1>2. [HarnessNext]_allVars => [Cut!Next]_(Cut!vars)
  BY DEF HarnessNext, PlacedMoves, RunMoves, LaidMoves, LibraryMoves, CutMoves, SpokenMoves, allVars, CutVars, Cut!vars
<1> QED BY <1>1, <1>2, PTL DEF HarnessSpec, Cut!Spec
LEMMA LinesRun == HarnessSpec => Spoken!Spec
<1>1. HarnessInit => Spoken!Init BY DEF HarnessInit
<1>2. [HarnessNext]_allVars => [Spoken!Next]_(Spoken!vars)
  BY DEF HarnessNext, PlacedMoves, RunMoves, LaidMoves, LibraryMoves, CutMoves, SpokenMoves, allVars, SpokenVars, Spoken!vars, Spoken!page
<1> QED BY <1>1, <1>2, PTL DEF HarnessSpec, Spoken!Spec

\* The invariants, in every behaviour.
LEMMA RunInvariant == HarnessSpec => []RunInv
<1>1. Run!Init => RunInv BY InitRunInv
<1>2. RunInv /\ [Run!Next]_(Run!vars) => RunInv' BY RunKeeps
<1> QED BY <1>1, <1>2, PipelineRuns, PTL DEF Run!Spec
LEMMA LaidInvariant == HarnessSpec => []LaidInv
<1>1. Laid!Init => LaidInv BY InitLaidInv
<1>2. LaidInv /\ [Laid!Next]_(Laid!vars) => LaidInv' BY LaidKeeps
<1> QED BY <1>1, <1>2, SpliceRuns, PTL DEF Laid!Spec
LEMMA CutInvariant == HarnessSpec => []CutInv
<1>1. Cut!Init => CutInv BY InitCutInv
<1>2. CutInv /\ [Cut!Next]_(Cut!vars) => CutInv' BY CutKeeps
<1> QED BY <1>1, <1>2, TimelineRuns, PTL DEF Cut!Spec
LEMMA SpokenInvariant == HarnessSpec => []SpokenInv
<1>1. Spoken!Init => SpokenInv BY InitSpokenInv
<1>2. SpokenInv /\ [Spoken!Next]_(Spoken!vars) => SpokenInv' BY SpokenKeeps
<1> QED BY <1>1, <1>2, LinesRun, PTL DEF Spoken!Spec

-----------------------------------------------------------------------------
\* The file that is served is the dub and has none of the original speech in it, whichever
\* engine voiced it and whatever failed on the way (sync.py:22-35, bleed.py:176-232); and of
\* a dub with corrected lines, the time of a line that was corrected has its newest
\* recording, and the time of a line never corrected the sound it had, wherever the first
\* sounds ran past their lines (edits.ts:102-228).
THEOREM ServedSoundIsRight == HarnessSpec => []SoundRight
<1>1. RunInv /\ LaidInv => SoundRight BY RunIsRight DEF LaidInv, SoundRight
<1> QED BY <1>1, RunInvariant, LaidInvariant, PTL

\* However clips are added, placed, cut, trimmed, dragged, typed in, undone and redone, each
\* clip of a file is one the API stores as the page shows it, if the file is as long as the
\* shortest clip and the clip ends within three hours (timeline.ts:133-179); and however
\* lines are dragged and re-dubbed, they stay apart as long as no time was typed and
\* no version was drawn over that the page had not heard of (SpeechEditor.tsx:668-670,
\* 724-757).
THEOREM ArrangementIsKept == HarnessSpec => []ArrangedAsShown
<1>1. CutInv /\ SpokenInv => ArrangedAsShown BY CutIsStored, SpokenStaysApart DEF ArrangedAsShown
<1> QED BY <1>1, CutInvariant, SpokenInvariant, PTL

\* A clip cut in two plays what it played, when it played it (VideoEditor.tsx:550-578); a
\* re-dub that is reported done gave the lines the page showed when it was asked for
\* (SpeechEditor.tsx:276-301, edits.ts:37-94).
THEOREM EditsDoAsShown == HarnessSpec => DoneAsShown
<1> DEFINE Cutting == \A c \in doc.clips, p \in Points : Cut!Split(c, p) => Cut!Plays(doc') = Cut!Plays(doc)
           Redubbing == Spoken!Watch /\ row.st = "DONE" /\ shown # None =>
                          segments' = [l \in Spoken!Lines |-> [shown[l] EXCEPT !.text = Spoken!Squash(@)]]
<1>1. CutInv => [Cutting]_(Cut!vars) BY SplitPlays
<1>2. SpokenInv => [Redubbing]_(Spoken!vars) BY RedubGivesShown
<1>3. HarnessSpec => [][Cutting]_(Cut!vars) BY <1>1, CutInvariant, PTL
<1>4. HarnessSpec => [][Redubbing]_(Spoken!vars) BY <1>2, SpokenInvariant, PTL
<1> QED BY <1>3, <1>4, PTL DEF DoneAsShown, Cut!SplitKeepsPlaying, Spoken!RedubAsShown

\* The states of all six components have their types, for any constants; a job that failed
\* shows the one stage that did, and one that is done shows none that is not
\* (orchestrator.py:801-825).
THEOREM StatesTypeCorrect == HarnessSpec => []StatesOK
<1>1. HarnessSpec => []IInv BY PlacedRuns, Invariant, PTL
<1>2. HarnessSpec => []LibIInv BY LibraryRuns, LibInvariant, PTL
<1>3. HarnessSpec => [](active \in Scenes)
  <2>1. HarnessInit => active \in Scenes BY DEF HarnessInit
  <2>2. active \in Scenes /\ [HarnessNext]_allVars => (active \in Scenes)'
    BY DEF HarnessNext, PlacedMoves, RunMoves, LaidMoves, LibraryMoves, CutMoves, SpokenMoves, allVars
  <2> QED BY <2>1, <2>2, PTL DEF HarnessSpec
<1>4. IInv /\ RunInv /\ LaidInv /\ LibIInv /\ CutInv /\ SpokenInv /\ active \in Scenes => StatesOK
  BY ScenesAssumption, RunIsTyped, LaidIsTyped, CutIsTyped, SpokenIsTyped DEF IInv, LibIInv, StatesOK
<1> QED BY <1>1, <1>2, <1>3, <1>4, RunInvariant, LaidInvariant, CutInvariant, SpokenInvariant, PTL
=============================================================================
