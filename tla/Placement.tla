----------------------------- MODULE Placement -----------------------------
(* Laying dubbed lines on the timeline of the video: what each line is      *)
(* allowed, how long it comes out, and what of it is heard once the line    *)
(* after it is laid.  Times are in units of a quarter of a second.          *)
EXTENDS Integers, Sequences

CONSTANTS MinRoom, MaxSpill, MaxShift, Chunk,  \* timeline.py, and CHUNK_SECONDS
          Times, Lengths,   \* where lines may start and end, how long a voice may take
          Total,            \* length of the video
          MaxLines          \* bound

ASSUME PlacementAssumption ==
  /\ MinRoom \in Nat \ {0} /\ MaxSpill \in Nat /\ MaxShift \in Nat /\ Chunk \in Nat
  /\ Times \subseteq Nat /\ Lengths \subseteq Nat /\ Total \in Nat /\ MaxLines \in Nat

VARIABLES engine,  \* who voices: one line after the other, or after a plan
          line,    \* the next line to lay, where the source says it
          cursor,  \* where the line before ends, as far as the budget knows
          placed,  \* what was laid: at, len, and what it was laid by
          left     \* lines still to lay, at most
vars == <<engine, line, cursor, placed, left>>

Smaller(a, b) == IF a < b THEN a ELSE b
Larger(a, b) == IF a > b THEN a ELSE b
Utterances == {u \in [start : Times, end : Times] : u.start <= u.end}
Init == /\ engine \in {"omnivoice", "edge", "navoiy"}
        /\ line \in Utterances /\ cursor = 0 /\ placed = <<>> /\ left = MaxLines

-----------------------------------------------------------------------------
SlotBudget(u, due, from) ==
  LET at == Smaller(Larger(u.start, from), u.start + MaxShift)
      room == Larger(due - at, MinRoom)
      span == Larger(u.end - at, MinRoom)
  IN [at |-> at, target |-> Larger(Smaller(room, span + MaxSpill), MinRoom), limit |-> room + MaxShift]
\* tts_fit: sped up toward the target, by 1.6 at most.
Squeezed(len, target) == Larger(Smaller(len, target), (5 * len + 7) \div 8)
\* Variant: the limit is measured from where the line is due, not from where it starts.
CutToLate(len, b, u) == Smaller(len, b.limit + (b.at - u.start))
CutTo(len, b, u) == Smaller(len, b.limit)

Lay(u, due, b, len, planned) ==
  placed' = Append(placed, [at |-> b.at, len |-> len, start |-> u.start,
                            whole |-> len <= planned /\ due - b.at >= MinRoom])
Drop == UNCHANGED placed

\* Generated line by line: what came out is cut, and the next line starts after it.
\* A line heard in the source's language whatever is tried is left out.
Omnivoice(u, due) ==
  LET b == SlotBudget(u, due, cursor) IN
  /\ engine = "omnivoice"
  /\ \/ Drop /\ UNCHANGED cursor
     \/ \E raw \in Lengths \ {0} : LET len == CutTo(raw, b, u) IN
          Lay(u, due, b, len, len) /\ cursor' = b.at + len
\* Planned from the lengths of all lines, then fitted: a line may be lost before the plan
\* or after it, and may come out a little longer or shorter than planned.
Planned(u, due) ==
  LET b == SlotBudget(u, due, cursor) IN
  /\ engine \in {"edge", "navoiy"}
  /\ \/ Drop /\ UNCHANGED cursor
     \/ \E raw \in Lengths \ {0} :
          LET plan == CutTo(Squeezed(raw, b.target), b, u) IN
          /\ cursor' = b.at + plan
          /\ \/ Drop
             \/ \E len \in {plan - 1, plan, plan + 1} : len >= 1 /\ len <= b.limit /\ Lay(u, due, b, len, plan)

\* Short lines are voiced together by edge-tts.
Merges(u) == engine = "edge" /\ u.end - line.start <= Chunk
Merge(u) == Merges(u) /\ line' = [line EXCEPT !.end = u.end] /\ UNCHANGED <<engine, cursor, placed, left>>
Voice(due) == (Omnivoice(line, due) \/ Planned(line, due)) /\ UNCHANGED engine
Follow(u) ==
  /\ left > 1 /\ u.start >= line.start
  /\ Merge(u) \/ (~Merges(u) /\ Voice(u.start) /\ line' = u /\ left' = left - 1)
Last == left > 0 /\ Voice(Larger(Total, line.end)) /\ left' = 0 /\ UNCHANGED line
Next == Last \/ \E u \in Utterances : Follow(u)
Spec == Init /\ [][Next]_vars

-----------------------------------------------------------------------------
(* write_without_overlap. *)
\* Variant: the lines are summed as they are.
KeptWhole(k) == placed[k].len
Kept(k) == IF k = Len(placed) THEN placed[k].len
           ELSE Larger(Smaller(placed[k].len, placed[k + 1].at - placed[k].at), 0)

TypeOK ==
  /\ engine \in {"omnivoice", "edge", "navoiy"} /\ line \in [start : Nat, end : Nat]
  /\ cursor \in Nat /\ left \in 0 .. MaxLines
  /\ placed \in Seq([at : Nat, len : Nat \ {0}, start : Nat, whole : BOOLEAN])

\* "No two dubbed lines in the same samples, ever" (timeline.py:74-90).
OneVoiceAtATime ==
  \A j, k \in DOMAIN placed : j < k => placed[j].at + Kept(j) <= placed[k].at
\* Nobody's words are cut off by the next line, which starts late instead, unless the
\* line had less room than MIN_ROOM or came out longer than planned (timeline.py:19-23,
\* 43-54); and a line is silenced by no other that starts after it.
LinesAreHeard ==
  \A k \in DOMAIN placed :
    /\ placed[k].whole => Kept(k) = placed[k].len
    /\ k < Len(placed) /\ placed[k].start < placed[k + 1].start => Kept(k) > 0
=============================================================================
