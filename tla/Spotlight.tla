------------------------------ MODULE Spotlight ------------------------------
(* The walkthrough's overlay: a hole around the element a step is about and a  *)
(* card beside it, both from the last measurement of a page that keeps moving. *)
EXTENDS Integers

CONSTANTS None,
          Pad, Gap, Margin,      \* around the hole, hole to card, card to the edge
          CardW, CardMin,        \* the card's width, and the least it is drawn with
          Targets,               \* where an element may be: [x, y, w, h]
          Widths, Heights,       \* of the viewport
          CardHs,                \* heights of the card
          Likes,                 \* sides the steps prefer; None: no preference
          Count                  \* steps of the tour
Sides == {"right", "left", "bottom", "top"}
\* What the tour gives: lengths, and places of elements on the page or off it.
Sized ==
  /\ Pad \in Nat /\ Gap \in Nat /\ Margin \in Nat /\ CardW \in Nat /\ CardMin \in 0..CardW
  /\ \A r \in Targets : r.x \in Int /\ r.y \in Int /\ r.w \in Nat /\ r.h \in Nat
  /\ Widths \subseteq Nat /\ Heights \subseteq Nat /\ CardHs \subseteq Nat /\ Likes \subseteq Sides \cup {None}
  /\ None \notin Targets /\ None \notin Sides

VARIABLES open, index,
          prefer,      \* the side the step would like
          target,      \* the element of the step on the page; None: not on it, not shown
          screen,      \* the browser's window and the card's true height
          rect, viewport, cardH   \* as measured
vars == <<open, index, prefer, target, screen, rect, viewport, cardH>>

Init == /\ open = FALSE /\ index = 0 /\ prefer \in Likes /\ target \in Targets \cup {None}
        /\ screen \in [w : Widths, h : Heights, card : CardHs]
        /\ rect = None /\ viewport = [w |-> 0, h |-> 0] /\ cardH \in CardHs

-----------------------------------------------------------------------------
(* Where the card goes. *)
Least(a, b) == IF a < b THEN a ELSE b
Most(a, b) == IF a > b THEN a ELSE b
Clamp(v, lo, hi) == Least(Most(v, lo), hi)

Width(vw) == Least(CardW, vw - 2 * Margin)
DrawnWidth(vw) == Least(CardW, Most(CardMin, vw - 2 * Margin))
Room(r, vw, vh, s) ==
  CASE s = "right"  -> vw - (r.x + r.w) - Gap - Margin
    [] s = "left"   -> r.x - Gap - Margin
    [] s = "bottom" -> vh - (r.y + r.h) - Gap - Margin
    [] s = "top"    -> r.y - Gap - Margin
Fits(r, vw, vh, h, s) == Room(r, vw, vh, s) >= (IF s \in {"right", "left"} THEN Width(vw) ELSE h)

\* The side that is liked goes first, the others in their usual order.
FirstOf(S, p) == IF p \in S THEN p ELSE IF "right" \in S THEN "right" ELSE IF "left" \in S THEN "left"
                 ELSE IF "bottom" \in S THEN "bottom" ELSE "top"
Fitting(r, vw, vh, h) == {s \in Sides : Fits(r, vw, vh, h, s)}
Roomiest(r, vw, vh) == {s \in Sides : \A q \in Sides : Room(r, vw, vh, q) <= Room(r, vw, vh, s)}
\* Variant: the side that is liked, whatever room it has.
SideLiked(r, vw, vh, h, p) == FirstOf(Sides, p)
\* The first side with room, the roomiest when there is none.
Side(r, vw, vh, h, p) ==
  FirstOf(IF Fitting(r, vw, vh, h) = {} THEN Roomiest(r, vw, vh) ELSE Fitting(r, vw, vh, h), p)

Wanted(r, vw, h, s) ==
  CASE s = "right"  -> [x |-> r.x + r.w + Gap, y |-> r.y + (r.h - h) \div 2]
    [] s = "left"   -> [x |-> r.x - Gap - Width(vw), y |-> r.y + (r.h - h) \div 2]
    [] s = "bottom" -> [x |-> r.x + (r.w - Width(vw)) \div 2, y |-> r.y + r.h + Gap]
    [] s = "top"    -> [x |-> r.x + (r.w - Width(vw)) \div 2, y |-> r.y - Gap - h]
OnScreen(at, vw, vh, h) ==
  [x |-> Clamp(at.x, Margin, Most(Margin, vw - Width(vw) - Margin)),
   y |-> Clamp(at.y, Margin, Most(Margin, vh - h - Margin))]
Place(r, vw, vh, h, p) ==
  IF r = None THEN [x |-> (vw - Width(vw)) \div 2, y |-> Most(Margin, (vh - h) \div 2)]
  ELSE OnScreen(Wanted(r, vw, h, Side(r, vw, vh, h, p)), vw, vh, h)

-----------------------------------------------------------------------------
(* The overlay. *)
Hole(t) == [x |-> t.x - Pad, y |-> t.y - Pad, w |-> t.w + 2 * Pad, h |-> t.h + 2 * Pad]
Measure(t) == IF t = None \/ (t.w = 0 /\ t.h = 0) THEN None ELSE Hole(t)
\* A step is shown: it may be about any element, and the card keeps its measured height.
Show(n) ==
  /\ index' = n /\ target' \in Targets \cup {None} /\ prefer' \in Likes
  /\ rect' = Measure(target') /\ viewport' = [w |-> screen.w, h |-> screen.h]
  /\ screen' \in {[screen EXCEPT !.card = h] : h \in CardHs} /\ UNCHANGED cardH
Open == ~open /\ open' = TRUE /\ Show(0)
Finish == open /\ open' = FALSE /\ index' = 0 /\ UNCHANGED <<prefer, target, screen, rect, viewport, cardH>>
GoesOn == open /\ index < Count - 1 /\ Show(index + 1) /\ UNCHANGED open
GoesBack == open /\ index > 0 /\ Show(index - 1) /\ UNCHANGED open
Jump(n) == open /\ n # index /\ Show(n) /\ UNCHANGED open
\* The page moves, and the next frame sees it.
Moves == /\ open /\ target' \in Targets \cup {None}
         /\ screen' \in [w : Widths, h : Heights, card : {screen.card}]
         /\ UNCHANGED <<open, index, prefer, rect, viewport, cardH>>
Tick == /\ open /\ rect' = Measure(target) /\ viewport' = [w |-> screen.w, h |-> screen.h]
        /\ cardH' = screen.card /\ UNCHANGED <<open, index, prefer, target, screen>>
Next == Open \/ Finish \/ GoesOn \/ GoesBack \/ (\E n \in 0..(Count - 1) : Jump(n)) \/ Moves \/ Tick
Spec == Init /\ [][Next]_vars

-----------------------------------------------------------------------------
(* Properties *)
Rects == [x : Int, y : Int, w : Nat, h : Nat]
\* Every variable holds a value of its kind.
TypeOK ==
  /\ open \in BOOLEAN /\ index \in Nat /\ prefer \in Likes /\ target \in Targets \cup {None}
  /\ screen \in [w : Widths, h : Heights, card : CardHs]
  /\ rect \in {Hole(t) : t \in Targets} \cup {None}
  /\ viewport \in [w : Widths \cup {0}, h : Heights \cup {0}] /\ cardH \in CardHs

Apart(a, aw, ah, b) ==
  a.x + aw <= b.x \/ b.x + b.w <= a.x \/ a.y + ah <= b.y \/ b.y + b.h <= a.y
\* The card is parked next to the hole, never over it (TourOverlay.tsx:1-2), whenever some side
\* of what was measured has room for it, wherever the element is, also partly off the screen.
CardBesideHole ==
  /\ open /\ rect # None /\ viewport.w >= CardMin + 2 * Margin
  /\ Fitting(rect, viewport.w, viewport.h, cardH) # {}
  => Apart(Place(rect, viewport.w, viewport.h, cardH, prefer), DrawnWidth(viewport.w), cardH, rect)

=============================================================================
