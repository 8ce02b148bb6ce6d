------------------------------- MODULE Buying -------------------------------
(* Buying a plan or a pack from the pages of one browser: the checkout, the  *)
(* return from Lemon Squeezy, the claims of the success page and of every    *)
(* visible tab, and the balance the tabs show.  How a claim credits an order *)
(* is OrderClaims' business: here it is one step.                            *)
EXTENDS Naturals, FiniteSets

CONSTANTS Orders, Attached,    \* orders, and those whose variant the catalog knows
          Tabs, NoOrder,
          Watch, Recent, Poll, \* how long a checkout is watched, an order is recent, the success page polls
          MaxTime              \* bound

VARIABLES now,
          order,   \* order[o]: where it is, and when it was credited
          mark,    \* localStorage: 1 + the time of the last checkout, 0 for none
          tab      \* tab[t]: the page it is on, its claims, the balance it shows, if it has one (warm)
vars == <<now, order, mark, tab>>

Fetch0 == [at |-> "none", got |-> {}]
Claim0 == [at |-> "none", res |-> "none", recent |-> {}, pending |-> FALSE, since |-> 0, due |-> {}]
Tab0 == [at |-> "app", buys |-> NoOrder, told |-> "none", till |-> 0, page |-> Claim0, app |-> Claim0,
         due |-> {}, anew |-> FALSE, stale |-> FALSE, fetch |-> Fetch0, warm |-> TRUE, shows |-> {}]
\* A page that is opened asks for its balance.
Opened == [Tab0 EXCEPT !.fetch.at = "asked", !.warm = FALSE]
Credited == {o \in Orders : order[o].st = "credited"}
Init == /\ now = 0 /\ mark = 0
        /\ order = [o \in Orders |-> [st |-> "none", when |-> 0]]
        /\ tab = [t \in Tabs |-> Tab0]

Set(t, r) == tab' = [tab EXCEPT ![t] = r]
-----------------------------------------------------------------------------
(* Going to the checkout, and the store. *)
StartCheckout(t, o) ==
  /\ tab[t].at = "app" /\ order[o].st = "none"
  /\ Set(t, [tab[t] EXCEPT !.at = "leaving", !.buys = o]) /\ order' = [order EXCEPT ![o].st = "asked"]
  /\ UNCHANGED <<now, mark>>
\* The link, or a refusal: nothing on sale, no key to confirm a purchase with.
CheckoutUrl(t) ==
  LET o == tab[t].buys IN
  /\ tab[t].at = "leaving" /\ UNCHANGED now
  /\ \/ /\ mark' = now + 1 /\ order' = [order EXCEPT ![o].st = "open"]
        /\ Set(t, [tab[t] EXCEPT !.at = "store"])
     \/ /\ order' = [order EXCEPT ![o].st = "none"] /\ UNCHANGED mark
        /\ Set(t, [tab[t] EXCEPT !.at = "app", !.buys = NoOrder])
Store(o) ==
  /\ \/ order[o].st = "open" /\ order' = [order EXCEPT ![o].st = "pending"]
     \/ order[o].st = "pending" /\ \E st \in {"paid", "failed"} : order' = [order EXCEPT ![o].st = st]
  /\ UNCHANGED <<now, mark, tab>>
\* Webhook and sweep claim beside the pages.
Credit(o) == /\ order[o].st = "paid" /\ o \in Attached
             /\ order' = [order EXCEPT ![o] = [st |-> "credited", when |-> now]]
             /\ UNCHANGED <<now, mark, tab>>
\* Time is told from the first checkout on.
Tick == /\ now < MaxTime /\ \E o \in Orders : order[o].st # "none"
        /\ now' = now + 1 /\ UNCHANGED <<order, mark, tab>>

\* /plans/success, once LS has taken the order; Back, or the tab closed and opened again.
Return(t) ==
  /\ tab[t].at = "store" /\ now + Poll <= MaxTime
  /\ \/ /\ order[tab[t].buys].st \notin {"asked", "open"}
        /\ Set(t, [Opened EXCEPT !.at = "success", !.told = "claiming", !.till = now + Poll])
     \/ Set(t, Opened)
  /\ UNCHANGED <<now, order, mark>>

-----------------------------------------------------------------------------
(* Claims. *)
Due == {o \in Attached : order[o].st = "paid"} \cup Credited
StartedAt == IF mark # 0 /\ now - (mark - 1) <= Watch THEN mark ELSE 0
\* The success page's loop asks, and asks again after a pause.
AskPage(t) ==
  /\ tab[t].at = "success" /\ tab[t].told = "claiming" /\ tab[t].page.at = "none"
  /\ Set(t, [tab[t] EXCEPT !.page = [Claim0 EXCEPT !.at = "asked", !.due = Due]])
  /\ UNCHANGED <<now, order, mark>>
\* Any visible tab while a checkout is being watched, one claim at a time.
AskApp(t) ==
  /\ tab[t].at \in {"app", "success", "leaving"} /\ tab[t].app.at = "none" /\ mark # 0
  /\ mark' = StartedAt
  /\ IF StartedAt = 0 THEN UNCHANGED tab
     ELSE Set(t, [tab[t] EXCEPT !.app = [Claim0 EXCEPT !.at = "asked", !.since = mark, !.due = Due]])
  /\ UNCHANGED <<now, order>>
\* claimOrders answers for the whole account; a failure may come after some grants.
Claim(t, by) ==
  LET c == tab[t][by]
      paid == {o \in Attached : order[o].st = "paid"}
      after == [o \in Orders |-> IF o \in paid THEN [st |-> "credited", when |-> now] ELSE order[o]] IN
  /\ c.at = "asked" /\ UNCHANGED <<now, mark>>
  /\ \/ /\ order' = after
        /\ Set(t, [tab[t] EXCEPT ![by] = [c EXCEPT !.at = "answered", !.res = IF paid # {} THEN "claimed" ELSE "nothing",
             !.recent = {after[o].when + 1 : o \in {p \in Orders : after[p].st = "credited" /\ now - after[p].when <= Recent}},
             !.pending = \E o \in Orders : order[o].st = "pending"]])
     \/ \E some \in SUBSET paid :
          /\ order' = [o \in Orders |-> IF o \in some THEN after[o] ELSE order[o]]
          /\ Set(t, [tab[t] EXCEPT ![by] = [c EXCEPT !.at = "answered", !.res = "failed"]])

\* CREDITS_CHANGED: the balance is asked for anew, and what was on its way is dropped; but
\* not the first request of a page that has no balance yet, whose answer is shown.
AsksAnew(r) == r.warm \/ r.fetch.at = "none"
Invalidate(r) == IF AsksAnew(r) THEN [r EXCEPT !.fetch = [Fetch0 EXCEPT !.at = "asked"]] ELSE r
Heard(r) == [r EXCEPT !.page = Claim0]
\* A page that was left says nothing, and sends the event all the same.
Tell(r, said) == Invalidate(IF r.at = "success" THEN [Heard(r) EXCEPT !.told = said, !.due = r.page.due, !.anew = AsksAnew(r)]
                                                ELSE Heard(r))
Settled(c) == c.recent # {} /\ ~c.pending
HearPage(t) ==
  LET r == tab[t]  c == r.page IN
  /\ c.at = "answered" /\ UNCHANGED <<now, order>>
  /\ \/ c.res = "claimed" /\ mark' = 0 /\ Set(t, Tell(r, "granted"))
     \/ c.res = "nothing" /\ Settled(c) /\ mark' = 0 /\ Set(t, Tell(r, "already"))
     \/ /\ c.res = "failed" \/ (c.res = "nothing" /\ ~Settled(c))
        /\ UNCHANGED mark
        /\ Set(t, [Heard(r) EXCEPT !.told =
             IF now < r.till \/ r.at # "success" THEN r.told ELSE IF c.res = "failed" THEN "failed" ELSE "waiting"])
HearApp(t) ==
  LET r == tab[t]  c == r.app
      done == c.res = "claimed" \/ \E w \in c.recent : w >= c.since IN
  /\ c.at = "answered" /\ UNCHANGED <<now, order>>
  /\ mark' = IF done THEN 0 ELSE mark
  /\ Set(t, IF done THEN Invalidate([r EXCEPT !.app = Claim0]) ELSE [r EXCEPT !.app = Claim0])
\* "Check again", "Try again".
Again(t) == /\ tab[t].told \in {"failed", "waiting"} /\ now + Poll <= MaxTime
            /\ Set(t, [tab[t] EXCEPT !.told = "claiming", !.till = now + Poll]) /\ UNCHANGED <<now, order, mark>>
\* To the Studio: the loop ends at its next turn, an answer on its way is still heard.
ToApp(t) == /\ tab[t].at = "success"
            /\ Set(t, [tab[t] EXCEPT !.at = "app", !.told = "none", !.due = {}]) /\ UNCHANGED <<now, order, mark>>

-----------------------------------------------------------------------------
(* The balance on screen. *)
Read(t) == /\ tab[t].fetch.at = "asked" /\ UNCHANGED <<now, order, mark>>
           /\ \/ Set(t, [tab[t] EXCEPT !.fetch = [at |-> "read", got |-> Credited]])
              \/ Set(t, [tab[t] EXCEPT !.fetch = Fetch0, !.stale = TRUE])
Show(t) == /\ tab[t].fetch.at = "read"
           /\ Set(t, [tab[t] EXCEPT !.fetch = Fetch0, !.shows = tab[t].fetch.got, !.warm = TRUE, !.stale = FALSE])
           /\ UNCHANGED <<now, order, mark>>

Page(t) == AskPage(t) \/ Claim(t, "page") \/ HearPage(t)
Background(t) == AskApp(t) \/ Claim(t, "app") \/ HearApp(t)
Balance(t) == Read(t) \/ Show(t)
User(t) == CheckoutUrl(t) \/ Return(t) \/ Again(t) \/ ToApp(t) \/ \E o \in Orders : StartCheckout(t, o)
Next == Tick \/ (\E o \in Orders : Store(o) \/ Credit(o))
        \/ \E t \in Tabs : Page(t) \/ Background(t) \/ Balance(t) \/ User(t)
Fairness == WF_vars(Tick) /\ \A t \in Tabs : WF_vars(Page(t))
Spec == Init /\ [][Next]_vars
FairSpec == Spec /\ Fairness

-----------------------------------------------------------------------------
TypeOK ==
  /\ now \in 0 .. MaxTime /\ mark \in 0 .. MaxTime + 1
  /\ \A o \in Orders : order[o].st \in {"none", "asked", "open", "pending", "paid", "failed", "credited"}
  /\ \A t \in Tabs :
       /\ tab[t].at \in {"app", "leaving", "store", "success"}
       /\ tab[t].told \in {"none", "claiming", "granted", "already", "waiting", "failed"}
       /\ (tab[t].told # "none") = (tab[t].at = "success")
       /\ tab[t].shows \subseteq Credited

\* A page that says "added" or "already added" says so of everything paid for when it
\* asked, whoever credited it; and the balance it asks for anew then counts them, whatever
\* answer was on its way (PlansSuccess.tsx:48-75, queries.ts:226-242).
Counted(r) == r.fetch.at = "none" /\ ~r.stale => r.due \subseteq r.shows
Telling(r) == r.told \in {"granted", "already"}
ToldIsCredited ==
  \A t \in Tabs : Telling(tab[t]) => tab[t].due \subseteq Credited /\ (tab[t].anew => Counted(tab[t]))
\* Not run, and false.  "The wallet pill, the Plans page and My Works all read the balance"
\* (PlansSuccess.tsx:57): the first balance of a page is not asked for again, and is shown
\* beside "added" though it was read before the claim.
ToldIsCounted == \A t \in Tabs : Telling(tab[t]) => Counted(tab[t])
\* The success page ends its wait, whatever LS and the API answer (PlansSuccess.tsx:41-79).
PageAnswers == \A t \in Tabs : []<>(tab[t].told # "claiming")
=============================================================================
