----------------------------- MODULE WorksPage -----------------------------
(* The page of the library: its filters, list and menus, and the drawer of one *)
(* dub with its player and transcript, over records that change elsewhere.   *)
EXTENDS Naturals, FiniteSets, SequencesExt

CONSTANTS None,
          Works,       \* dubs, as numbers in the order of their titles
          Old, Named,  \* those out of the range of dates, those whose title has the words searched
          MaxMoves     \* bound: changes of the list and changes that come from elsewhere

VARIABLES work,     \* the records; None where there is none
          filter, sort, view,
          wide,     \* whether the window has room for the table
          selected, \* the dub that was chosen
          drawer,   \* drawers on the page; one that is closed stays for its animation
          overflow, \* the document's scrolling
          menu,     \* dubs whose menu is open
          opened,   \* history: the dub the user opened, not closed nor removed since
          moves
vars == <<work, filter, sort, view, wide, selected, drawer, overflow, menu, opened, moves>>
Moves == moves < MaxMoves /\ moves' = moves + 1
listing == <<filter, sort, view, wide>>

\* The pair of a dub is of the language it was said to be in until one is heard.
Work == [status : {"processing", "completed", "failed"}, pair : {"auto", "heard"}]
HasOutput(w) == work[w] # None /\ work[w].status = "completed"
Present == {w \in Works : work[w] # None}
All == [status |-> "all", pair |-> "all", range |-> "any", query |-> ""]
Init == /\ work \in [Works -> {None, [status |-> "processing", pair |-> "auto"], [status |-> "completed", pair |-> "heard"]}]
        /\ filter = All /\ sort = [col |-> "date", up |-> FALSE] /\ view = "grid" /\ wide = TRUE
        /\ selected = None /\ drawer = [w \in Works |-> None] /\ overflow = "" /\ menu = {} /\ opened = None /\ moves = 0

-----------------------------------------------------------------------------
(* The list. *)
Filtered == {w \in Present : /\ filter.status \in {"all", work[w].status}
                             /\ filter.pair \in {"all", work[w].pair}
                             /\ filter.range = "7d" => w \notin Old
                             /\ filter.query # "" => w \in Named}
Pairs == {work[w].pair : w \in Present}
\* The newest record is the last title: one number stands for both columns.
Before(a, b) == IF sort.col = "title" THEN (IF sort.up THEN a < b ELSE b < a) ELSE (IF sort.up THEN b < a ELSE a < b)
EffView == IF wide THEN view ELSE "grid"
Newest(a, b) == a < b
Items == IF EffView = "list" THEN SetToSortSeq(Filtered, Before) ELSE SetToSortSeq(Filtered, Newest)
Shown == ToSet(Items)
StatusFilter(s) == filter' = [filter EXCEPT !.status = s]
PairFilter(p) == p \in Pairs \cup {"all"} /\ filter' = [filter EXCEPT !.pair = p]
RangeFilter(r) == filter' = [filter EXCEPT !.range = r]
Search(q) == filter' = [filter EXCEPT !.query = q]
\* Offered when nothing is left of a library that is not empty.
ClearFilters == Present # {} /\ Filtered = {} /\ filter' = All
ToggleSort(col) ==
  /\ EffView = "list" /\ sort' = IF sort.col = col THEN [sort EXCEPT !.up = ~@] ELSE [col |-> col, up |-> col = "title"]
  /\ UNCHANGED <<work, filter, view, wide, menu>>
\* What is not shown any more loses its menu.
Listing == \/ /\ UNCHANGED <<work, sort, view, wide>>
              /\ \/ ClearFilters \/ (\E p \in {"all", "auto", "heard"} : PairFilter(p))
                 \/ (\E s \in {"all", "processing", "failed"} : StatusFilter(s))
                 \/ (\E r \in {"any", "7d"} : RangeFilter(r)) \/ (\E q \in {"", "words"} : Search(q))
              /\ menu' = menu \cap Shown'
           \/ wide /\ view' \in {"grid", "list"} \ {view} /\ menu' = {} /\ UNCHANGED <<work, filter, sort, wide>>
           \/ wide' = ~wide /\ UNCHANGED <<work, filter, sort, view>> /\ menu' = (IF EffView = EffView' THEN menu ELSE {})
           \/ \E col \in {"title", "date"} : ToggleSort(col)

-----------------------------------------------------------------------------
(* The drawer: what is chosen, if it is there.  A drawer locks the document when it comes,
   and when it is gone at last it puts back what it found. *)
Fresh == [leaving |-> FALSE, side |-> "dubbed", time |-> 0, found |-> overflow]
Drawn(chosen, present) ==
  /\ selected' = chosen
  /\ drawer' = [w \in Works |->
       IF w = chosen /\ w \in present THEN (IF drawer[w] = None THEN Fresh ELSE [drawer[w] EXCEPT !.leaving = FALSE])
       ELSE IF drawer[w] = None THEN None ELSE [drawer[w] EXCEPT !.leaving = TRUE]]
  /\ overflow' = IF chosen \in present THEN "hidden" ELSE overflow
OnDrawer(w) == drawer[w] # None /\ ~drawer[w].leaving
Open(w) == /\ w \in Shown /\ (\A v \in Works : ~OnDrawer(v))
           /\ Drawn(w, Present) /\ opened' = w /\ UNCHANGED <<work, listing, menu, moves>>
\* The cross, Escape, the dark around it, a drag down.
Close == /\ (\E w \in Works : OnDrawer(w)) /\ Drawn(None, Present) /\ opened' = None
         /\ UNCHANGED <<work, listing, menu, moves>>
Left(w) == /\ drawer[w] # None /\ drawer[w].leaving
           /\ drawer' = [drawer EXCEPT ![w] = None] /\ overflow' = drawer[w].found
           /\ UNCHANGED <<work, listing, selected, menu, opened, moves>>
ActiveUrl(w) == IF drawer[w].side = "source" THEN TRUE ELSE HasOutput(w)
Side(w, s) == /\ OnDrawer(w) /\ (s = "dubbed" => HasOutput(w)) /\ s # drawer[w].side
              /\ drawer' = [drawer EXCEPT ![w].side = s]
              /\ UNCHANGED <<work, listing, selected, overflow, menu, opened, moves>>
\* The media plays, or a line of the transcript is sought; the time is kept by the drawer.
Plays(w, t) == /\ OnDrawer(w) /\ ActiveUrl(w) /\ drawer' = [drawer EXCEPT ![w].time = t]
               /\ UNCHANGED <<work, listing, selected, overflow, menu, opened, moves>>

-----------------------------------------------------------------------------
Kebab(w) == /\ w \in Shown /\ menu' = (IF w \in menu THEN menu \ {w} ELSE menu \cup {w})
            /\ UNCHANGED <<work, listing, selected, drawer, overflow, opened, moves>>
\* Variant: what was removed stays chosen.
StillSelected(w) == selected
Deselected(w) == IF selected = w THEN None ELSE selected
OnDelete(w) ==
  /\ w \in menu /\ work' = [work EXCEPT ![w] = None] /\ menu' = menu \ {w}
  /\ Drawn(Deselected(w), Present \ {w}) /\ opened' = (IF opened = w THEN None ELSE opened)
  /\ UNCHANGED <<listing, moves>>
\* A record comes, moves on or goes: the pipeline, another device, an answer that was late.
Arrives(w, new) ==
  /\ Moves /\ work' = [work EXCEPT ![w] = new]
  /\ UNCHANGED <<listing, opened>> /\ menu' = menu \cap Shown' /\ Drawn(selected, Present')

Next == \/ Listing /\ Moves /\ UNCHANGED <<selected, drawer, overflow, opened>>
        \/ Close
        \/ \E w \in Works : \/ Open(w) \/ Left(w) \/ Kebab(w) \/ OnDelete(w)
                            \/ (\E s \in {"source", "dubbed"} : Side(w, s)) \/ (\E t \in {0, 1} : Plays(w, t))
                            \/ (\E new \in Work \cup {None} : Arrives(w, new))
Spec == Init /\ [][Next]_vars

-----------------------------------------------------------------------------
TypeOK ==
  /\ \A w \in Works : work[w] # None => work[w] \in Work
  /\ filter \in [status : {"all", "processing", "failed"}, pair : {"all", "auto", "heard"}, range : {"any", "7d"}, query : {"", "words"}]
  /\ selected \in Works \cup {None} /\ menu \subseteq Works /\ overflow \in {"", "hidden"}
  /\ Cardinality({w \in Works : OnDrawer(w)}) <= 1

\* A dub that was removed here comes back, from another device or in a late answer: it is
\* not opened by itself.  A drawer is on the page only for the dub its user opened.
OpenedByUser == \A w \in Works : OnDrawer(w) => opened = w
\* Not run, and false: a pair that was chosen is gone when the language is heard; the list
\* stays filtered by it, and the select says "All pairs" (MyWorks.tsx:65-72, 293-301).
PairIsOffered == filter.pair \in Pairs \cup {"all"}
\* Not run, and false: the time is kept over a change of side, where the other video starts
\* anew ("the transcript highlight tracks actual playback", MyWorks.tsx:729-730).
SideStartsAnew == [][\A w \in Works : drawer[w] # None /\ drawer'[w] # None /\ drawer[w].side # drawer'[w].side => drawer'[w].time = 0]_vars
\* Not run, and false: of two drawers the first to come puts its state back first, the
\* second the lock it found.
Unlocked == (\A w \in Works : drawer[w] = None) => overflow = ""
=============================================================================
