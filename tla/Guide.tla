-------------------------------- MODULE Guide --------------------------------
(* The Studio's step deck (picking the clip, then the tools) and its walkthrough: *)
(* when the tour opens by itself, what it opens as it goes, what is remembered.  *)
EXTENDS Naturals, FiniteSets

CONSTANTS None, Accounts, Tabs,
          Clips,         \* <<"file", n>>, <<"link", n>>
          FreshDays,
          MaxDay, MaxPages, MaxMoves   \* bounds: days, pages opened, moves on a page

VARIABLES seen, registered,   \* localStorage: tour seen or skipped, registered here (day)
          born,               \* the account's createdAt
          day, pages,
          left,               \* history: accounts that left the tour
          page                \* the Studio of each tab
vars == <<seen, registered, born, day, pages, left, page>>
store == <<seen, registered, born, day, pages, left>>

Tools == {"languages", "options", "quality"}
Steps == {"source"} \cup Tools
\* The walkthrough: a title, the steps, three more places of the page, the end.
TourSteps == << "welcome", "source", "languages", "options", "quality", "monitor", "cost", "run", "done">>
Last == 9

NoPage == [on |-> None, clip |-> None, picking |-> TRUE, open |-> "source", touched |-> {},
           moving |-> FALSE, job |-> None, tour |-> FALSE, at |-> 1,
           asking |-> 0, sending |-> 0, busy |-> FALSE,   \* start(): at its gate, at its upload
           stray |-> FALSE,                               \* a job followed beside the one on screen
           auto |-> FALSE, due |-> FALSE, late |-> FALSE, moves |-> 0]
Init == /\ seen = {} /\ registered = [a \in Accounts |-> None] /\ born = [a \in Accounts |-> None]
        /\ day = 0 /\ pages = 0 /\ left = {} /\ page = [t \in Tabs |-> NoPage]

-----------------------------------------------------------------------------
(* Accounts, and when the tour opens by itself. *)
Fresh(at) == at # None /\ day - at < FreshDays
ShouldAutoStartTour(a) == a \notin seen /\ (Fresh(registered[a]) \/ Fresh(born[a]))
\* A registration in this browser, and one on the landing site.
Register(a) == /\ born[a] = None /\ born' = [born EXCEPT ![a] = day]
               /\ registered' = [registered EXCEPT ![a] = day] /\ UNCHANGED <<seen, day, pages, left, page>>
HandedOver(a) == /\ born[a] = None /\ born' = [born EXCEPT ![a] = day]
                 /\ UNCHANGED <<seen, registered, day, pages, left, page>>
Day == day < MaxDay /\ day' = day + 1 /\ UNCHANGED <<seen, registered, born, pages, left, page>>

\* The effect of a page without a job: the tour is due shortly, once.
AutoStart(p) ==
  IF ~p.auto /\ p.job = None /\ ShouldAutoStartTour(p.on) THEN [p EXCEPT !.auto = TRUE, !.due = TRUE] ELSE p
Mount(t, a) ==
  /\ page[t].on = None /\ born[a] # None /\ pages < MaxPages /\ pages' = pages + 1
  /\ page' = [page EXCEPT ![t] = AutoStart([NoPage EXCEPT !.on = a, !.late = a \in left])]
  /\ UNCHANGED <<seen, registered, born, day, left>>
Unmount(t) == /\ page[t].on # None /\ page' = [page EXCEPT ![t] = NoPage] /\ UNCHANGED store

\* Entering a step opens the panel it tells of.
Entered(p, n) ==
  [p EXCEPT !.at = n, !.open = IF TourSteps[n] \in Steps THEN TourSteps[n] ELSE p.open]
TourDue(t) == /\ page[t].due
              /\ page' = [page EXCEPT ![t] = Entered([@ EXCEPT !.due = FALSE, !.tour = TRUE], IF @.tour THEN @.at ELSE 1)]
              /\ UNCHANGED store

-----------------------------------------------------------------------------
(* What a person does: the tour is modal, the deck is reached when it is away. *)
Live(t) == page[t].on # None /\ page[t].moves < MaxMoves
InTour(t) == Live(t) /\ page[t].tour
AtDeck(t) == Live(t) /\ ~page[t].tour
Becomes(t, p) == page' = [page EXCEPT ![t] = [p EXCEPT !.moves = @ + 1]] /\ UNCHANGED store
Goes(t, n) == Becomes(t, Entered(page[t], n))

\* Variant: leaving by the key forgets to say so.
FinishSilently(t) == /\ page' = [page EXCEPT ![t].tour = FALSE, ![t].at = 1, ![t].moves = @ + 1]
                     /\ UNCHANGED <<seen, registered, born, day, pages>>
\* Done and skipped are the same.
Finish(t) == /\ page' = [page EXCEPT ![t].tour = FALSE, ![t].at = 1, ![t].moves = @ + 1]
             /\ seen' = seen \cup {page[t].on} /\ UNCHANGED <<registered, born, day, pages>>
Leaves(t) == Finish(t) /\ left' = left \cup {page[t].on}
OpenGuide(t) == AtDeck(t) /\ Becomes(t, Entered([page[t] EXCEPT !.tour = TRUE], 1))
NextStep(t) == InTour(t) /\ IF page[t].at = Last THEN Leaves(t) ELSE Goes(t, page[t].at + 1)
Back(t) == InTour(t) /\ page[t].at > 1 /\ Goes(t, page[t].at - 1)
Jump(t, n) == InTour(t) /\ n # page[t].at /\ Goes(t, n)
Skip(t) == InTour(t) /\ Leaves(t)

Running(p) == p.job = "running"
InTools(p) == ~p.picking \/ p.job # None
ToolStep(p) == IF p.open \in Tools THEN p.open ELSE "languages"
\* The cards drawn: the clip's alone, or the one of the tool in use.
Drawn(p) == IF InTools(p) THEN {ToolStep(p)} ELSE {"source"}

\* Variant: a change of the clip leaves the move to the tools under way.
ChosenStillMoving(p, c) ==
  IF c = None THEN [p EXCEPT !.clip = None, !.picking = TRUE] ELSE [p EXCEPT !.clip = c, !.moving = TRUE]
\* A clip that is chosen moves the page to the tools, soon; none leads back to picking.
Chosen(p, c) ==
  IF c = None THEN [p EXCEPT !.clip = None, !.picking = TRUE, !.moving = FALSE]
  ELSE [p EXCEPT !.clip = c, !.moving = TRUE]
Choose(t, c) == /\ AtDeck(t) /\ Drawn(page[t]) = {"source"} /\ page[t].open = "source" /\ c # page[t].clip
                /\ Becomes(t, Chosen(page[t], c))
GoToTools(p) == [p EXCEPT !.picking = FALSE, !.open = IF @ \in {"source", None} THEN "languages" ELSE @]
MovesOn(t) == /\ page[t].moving /\ page' = [page EXCEPT ![t] = [GoToTools(@) EXCEPT !.moving = FALSE]]
              /\ UNCHANGED store
Continue(t) == /\ AtDeck(t) /\ Drawn(page[t]) = {"source"} /\ page[t].open = "source" /\ page[t].clip # None
               /\ Becomes(t, GoToTools(page[t]))
BackToSource(t) == /\ AtDeck(t) /\ InTools(page[t]) /\ ~Running(page[t])
                   /\ Becomes(t, [page[t] EXCEPT !.picking = TRUE, !.open = "source"])

ToggleStep(t, s) == /\ AtDeck(t) /\ s \in Drawn(page[t])
                    /\ Becomes(t, [page[t] EXCEPT !.open = IF @ = s THEN None ELSE s])
PickTool(t, s) == AtDeck(t) /\ InTools(page[t]) /\ Becomes(t, [page[t] EXCEPT !.open = s])
MarkTouched(p, s) == [p EXCEPT !.touched = @ \cup {s}]
Touch(t, s) == /\ AtDeck(t) /\ s \in Drawn(page[t]) \cap Tools /\ page[t].open = s /\ (s = "quality" => ~Running(page[t]))
               /\ Becomes(t, MarkTouched(page[t], s))
\* Moving on is a choice too; the last tool has nowhere to move on to.
NextTool(t, s, n) == /\ AtDeck(t) /\ s \in Drawn(page[t]) /\ page[t].open = s
                     /\ Becomes(t, [MarkTouched(page[t], s) EXCEPT !.open = n])
StepsDone(p) == Cardinality(p.touched) + (IF p.clip = None THEN 0 ELSE 1)

\* start() measures the clip and asks whether it may be dubbed; meanwhile the page is as it
\* was, and the button too.
Start(t) == /\ AtDeck(t) /\ page[t].clip # None /\ ~Running(page[t]) /\ ~page[t].busy
            /\ Becomes(t, [page[t] EXCEPT !.asking = @ + 1])
\* Refused; or the clip is sent, and what was on screen is put away.
PutAway(p) == IF p.job = None THEN p ELSE AutoStart([p EXCEPT !.job = None, !.due = FALSE])
Refused(t) == page[t].asking > 0 /\ page' = [page EXCEPT ![t].asking = @ - 1] /\ UNCHANGED store
Allowed(t) == /\ page[t].asking > 0 /\ UNCHANGED store
              /\ LET p == page[t] IN page' = [page EXCEPT ![t] =
                   PutAway([p EXCEPT !.asking = p.asking - 1, !.sending = p.sending + 1, !.busy = TRUE, !.stray = FALSE])]
\* It could not be sent; or the run has begun, whatever is in the picker by now, and calls
\* off the tour that was due, for good.
NotSent(t) == /\ page[t].sending > 0 /\ UNCHANGED store
              /\ LET p == page[t] IN page' = [page EXCEPT ![t] = [p EXCEPT !.sending = p.sending - 1, !.busy = FALSE]]
Sent(t) == /\ page[t].sending > 0 /\ UNCHANGED store
           /\ LET p == page[t] IN page' = [page EXCEPT ![t] =
                [p EXCEPT !.sending = p.sending - 1, !.busy = FALSE, !.stray = p.stray \/ p.job # None,
                          !.job = "running", !.due = FALSE]]
RunEnds(t) == Running(page[t]) /\ page' = [page EXCEPT ![t].job = "over"] /\ UNCHANGED store
\* The job of a start() that another one overtook is still followed, and shown.
StrayShown(t) == /\ page[t].stray /\ UNCHANGED store
                 /\ \E st \in {"running", "over"} : page' = [page EXCEPT ![t].job = st, ![t].due = FALSE]
\* The page is as it was when a run is put away.
Reset(t) == /\ AtDeck(t) /\ page[t].job = "over" /\ Becomes(t, AutoStart([page[t] EXCEPT !.job = None]))

Next == \/ Day
        \/ \E a \in Accounts : Register(a) \/ HandedOver(a) \/ \E t \in Tabs : Mount(t, a)
        \/ \E t \in Tabs :
             \/ Unmount(t) \/ TourDue(t) \/ OpenGuide(t) \/ NextStep(t) \/ Back(t) \/ Skip(t)
             \/ MovesOn(t) \/ Continue(t) \/ BackToSource(t) \/ Reset(t)
             \/ Start(t) \/ Refused(t) \/ Allowed(t) \/ NotSent(t) \/ Sent(t) \/ RunEnds(t) \/ StrayShown(t)
             \/ NextTool(t, "languages", "options") \/ NextTool(t, "options", "quality")
             \/ \E n \in 1..Last : Jump(t, n)
             \/ \E c \in Clips \cup {None} : Choose(t, c)
             \/ \E s \in Steps : ToggleStep(t, s) \/ Touch(t, s)
             \/ \E s \in Tools : PickTool(t, s)
Spec == Init /\ [][Next]_vars

-----------------------------------------------------------------------------
(* Properties *)
\* Every variable holds a value of its kind.
TypeOK ==
  /\ seen \subseteq Accounts /\ left \subseteq Accounts /\ registered \in [Accounts -> 0..MaxDay \cup {None}]
  /\ born \in [Accounts -> 0..MaxDay \cup {None}] /\ day \in 0..MaxDay /\ pages \in 0..MaxPages
  /\ \A t \in Tabs : LET p == page[t] IN
       /\ p.on \in Accounts \cup {None} /\ p.clip \in Clips \cup {None} /\ p.open \in Steps \cup {None}
       /\ p.touched \subseteq Tools /\ p.job \in {None, "running", "over"} /\ p.at \in 1..Last
       /\ StepsDone(p) \in 0..4 /\ p.asking \in Nat /\ p.sending \in Nat

\* Skipping sticks (onboarding.ts:18-19): a page that is opened after its account left the
\* tour, in whatever way, on this browser, does not have the tour due by itself.
SkippingSticks == \A t \in Tabs : page[t].due => ~page[t].late

\* The tools are shown for a clip, or for a run on screen: a clip that is taken away while
\* the page was about to move on, or while a start waited for its gate or its upload, leaves
\* the page at the picker, also when the run is over and put away (Studio.tsx:759-770).
ToolsHaveClip == \A t \in Tabs : InTools(page[t]) /\ page[t].job = None => page[t].clip # None
\* Not run, and false: "While a dub runs or is on screen, the clip is fixed" (Studio.tsx:769).
\* Until the upload is answered Back, Replace and Remove work (949, 1054-1086, 1456), and the
\* run is then drawn over another clip or none.
RunHasClip == \A t \in Tabs : page[t].job # None => page[t].clip # None

\* The page that opens the tour by itself is one where nobody has left it: "finishes or
\* skips ... and it sticks" (onboarding.ts:18-19), also when it was left on this very page.
NeverAgain == [][\A t \in Tabs : page[t].due /\ ~page'[t].due /\ page'[t].tour => page[t].on \notin seen]_vars

\* Back leads to the picker (Studio.tsx:736-738, 754).
BackLeads == [][\A t \in Tabs : BackToSource(t) => ~InTools(page'[t])]_vars

\* Each step of the tour that has a panel to tell of finds it on the page (TourOverlay.tsx:4-5).
PanelIsThere == \A t \in Tabs : page[t].tour /\ TourSteps[page[t].at] \in Steps => TourSteps[page[t].at] \in Drawn(page[t])
=============================================================================
