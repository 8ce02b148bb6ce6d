----------------------------- MODULE PlansPage -----------------------------
(* The page of plans and packs: the cards it shows of the catalog it was    *)
(* sent, the estimate of the tokens a clip needs, and the way to a checkout *)
(* or to a cancellation, while the catalog and the account change.          *)
EXTENDS Tariff, FiniteSets

CONSTANTS None,
          Sold,      \* the paid plans of the catalog, as <<tier, cycle>>
          Packs,     \* the packs
          Catalog0,  \* the rows that were seeded
          HalfMinutes, \* clips to estimate, by the half minute
          MaxMoves,  \* bound: edits of the catalog, changes of the account
          MaxAsked   \* bound: checkouts on their way at once

ASSUME PlansPageAssumption == HalfMinutes \subseteq Nat \ {0}

VARIABLES catalog,  \* the rows of the server
          keyed,    \* whether the server can confirm a purchase
          sub,      \* the account's subscription at the server
          plans, packs, mine,  \* what the page was sent: the plans, the packs, the subscription
          cycle,
          asked,    \* checkouts that were asked for
          left,     \* the checkout the browser went to
          canceling, open, moves
vars == <<catalog, keyed, sub, plans, packs, mine, cycle, asked, left, canceling, open, moves>>
server == <<catalog, keyed, sub, moves>>
sent == <<plans, packs, mine>>

Cycles == {"monthly", "yearly"}
Items == Sold \cup Packs
Statuses == {"ACTIVE", "PAST_DUE", "CANCELED", "EXPIRED"}
Init == /\ catalog = Catalog0 /\ keyed \in BOOLEAN
        /\ sub \in {None} \cup [item : Sold, status : {"ACTIVE"}, ends : {FALSE}]
        /\ plans = None /\ packs = None /\ mine = None /\ cycle = "monthly" /\ asked = {}
        /\ left = None /\ canceling = FALSE /\ open = TRUE /\ moves = 0

-----------------------------------------------------------------------------
(* The server: rows are changed in the panel, the subscription by the store. *)
Moved == left = None /\ moves < MaxMoves /\ moves' = moves + 1
IsSellable(row) == row.link
Edits(row) == {[row EXCEPT !.price = @ + 1], [row EXCEPT !.per = @ + 1], [row EXCEPT !.link = ~@], [row EXCEPT !.active = ~@]}
Edit(i) == Moved /\ (\E row \in Edits(catalog[i]) : catalog' = [catalog EXCEPT ![i] = row])
           /\ UNCHANGED <<keyed, sub, sent, cycle, asked, left, canceling, open>>
SubMoves == /\ Moved /\ sub # None /\ sub' \in ({[sub EXCEPT !.status = st] : st \in Statuses} \cup {[sub EXCEPT !.ends = TRUE]}) \ {sub}
            /\ UNCHANGED <<catalog, keyed, sent, cycle, asked, left, canceling, open>>

Active(items) == [i \in items |-> IF catalog[i].active THEN catalog[i] ELSE None]
GetPlans == [rows |-> Active(Sold), keyed |-> keyed, asOf |-> moves]
\* The page has packs of its own, for a server that sends none or cannot be asked.
GetCreditPacks == [rows |-> Active(Packs), keyed |-> keyed, asOf |-> moves]
Default == [rows |-> Catalog0, keyed |-> TRUE, asOf |-> None]
\* A request that fails leaves what there is, or a page that says so and asks again.
FetchPlans == /\ open /\ plans' = GetPlans
              /\ UNCHANGED <<server, packs, mine, cycle, asked, left, canceling, open>>
FetchPacks == /\ open /\ packs' \in {IF \A p \in Packs : Active(Packs)[p] = None THEN Default ELSE GetCreditPacks, Default}
              /\ UNCHANGED <<server, plans, mine, cycle, asked, left, canceling, open>>
FetchSubscription == /\ open /\ mine' = [sub |-> sub]
                     /\ UNCHANGED <<server, plans, packs, cycle, asked, left, canceling, open>>

-----------------------------------------------------------------------------
(* The cards. *)
Loaded == plans # None
Row(i) == plans.rows[i]
\* Variant: the monthly row stands for both cycles.
CreditsMonthly(i) == LET row == plans.rows[<<i[1], "monthly">>] IN IF row = None THEN 0 ELSE row.per * row.grants
\* A row that is missing counts for nothing, as does what it does not say.
Credits(i) == IF Row(i) = None THEN 0 ELSE Row(i).per * Row(i).grants
Price(i) == IF Row(i) = None THEN 0 ELSE Row(i).price
ConfiguredPlan == \E i \in Sold : Row(i) # None /\ IsSellable(Row(i))
Missing == {i \in Sold : Row(i) # None /\ ~IsSellable(Row(i))}
\* Nothing is disabled while the catalog loads.
Blocked == Loaded /\ (~plans.keyed \/ ~ConfiguredPlan)
Subscription == IF mine = None THEN None ELSE mine.sub
ActiveTier == IF Subscription # None /\ Subscription.status = "ACTIVE" THEN Subscription.item[1] ELSE "FREE"
Current(tier) == IF tier = "FREE" THEN ActiveTier = "FREE"
                 ELSE ActiveTier = tier /\ Subscription.item = <<tier, cycle>>
\* The page knows of the last it asked for, of plans and of packs.
Busy(tier) == \E a \in asked : a.here /\ a.item \in Sold /\ a.item[1] = tier
Label(tier) == CASE Current(tier) -> "Current plan"
                 [] ~Current(tier) /\ Busy(tier) -> "Redirecting"
                 [] ~Current(tier) /\ ~Busy(tier) /\ tier = "FREE" -> "Free plan"
                 [] ~Current(tier) /\ ~Busy(tier) /\ tier # "FREE" /\ Blocked -> "Unavailable"
                 [] OTHER -> "Choose"
StatusPill(s) == IF s.ends THEN "Canceling" ELSE IF s.status \in {"ACTIVE", "PAST_DUE"} THEN s.status ELSE "other"
SubscriptionCard == IF Subscription = None \/ Subscription.status \in {"CANCELED", "EXPIRED"} THEN "You're on the Free plan"
                    ELSE StatusPill(Subscription)
\* "Compare all plans": the price and tokens of each plan, and by name what it unlocks.
ComparedAsFree(i) == Price(i) = 0
\* Variant: lip sync is promised with Pro.
CompareRowsEarly == [f \in {"language", "voice", "reference", "background", "lipsync", "studio"} |->
                      IF f = "studio" THEN {"STUDIO"} ELSE {"PRO", "STUDIO"}]
CompareRows == [f \in {"language", "voice", "reference", "background", "lipsync", "studio"} |->
                 IF f \in {"lipsync", "studio"} THEN {"STUDIO"} ELSE {"PRO", "STUDIO"}]
FreeTokens == 20

-----------------------------------------------------------------------------
(* The estimator. *)
\* Variant: rounded down to tens.
CreditsForHalfMinutesDown(h, q) == LET tens == ((h * RateFor(q)) \div 20) * 10 IN IF tens > 10 THEN tens ELSE 10
CreditsForHalfMinutes(h, q) == LET tens == ((h * RateFor(q) + 10) \div 20) * 10 IN IF tens > 10 THEN tens ELSE 10
Shown == {p \in Packs : packs.rows[p] # None}
PackFor(n) ==
  LET covers == {p \in Shown : packs.rows[p].per >= n}
  IN IF covers # {} THEN CHOOSE p \in covers : \A o \in covers : packs.rows[p].per <= packs.rows[o].per
     ELSE CHOOSE p \in Shown : \A o \in Shown : packs.rows[o].per <= packs.rows[p].per

-----------------------------------------------------------------------------
(* To the checkout, and back. *)
SwitchCycle(c) == /\ open /\ cycle' = c /\ c # cycle
                  /\ UNCHANGED <<server, sent, asked, left, canceling, open>>
Ask(i, shown, asOf) ==
  /\ Cardinality(asked) < MaxAsked
  /\ asked' = {[a EXCEPT !.here = @ /\ (a.item \in Sold) # (i \in Sold)] : a \in asked}
               \cup {[item |-> i, shown |-> shown, asOf |-> asOf, here |-> TRUE]}
  /\ UNCHANGED <<server, sent, cycle, left, canceling, open>>
StartCheckout(tier) ==
  LET i == <<tier, cycle>>
  IN /\ open /\ Loaded /\ i \in Sold /\ Label(tier) = "Choose"
     /\ Ask(i, [price |-> Price(i), credits |-> Credits(i)], plans.asOf)
BuyCredits(p) ==
  /\ ~Blocked /\ (\A a \in asked : a.here => a.item \notin Packs)
  /\ Ask(p, [price |-> packs.rows[p].price, credits |-> packs.rows[p].per], packs.asOf)
Known(p) == packs.asOf # None
Buy(p) == /\ open /\ packs # None /\ p \in Shown /\ (Known(p) => IsSellable(packs.rows[p]) /\ packs.keyed) /\ BuyCredits(p)
\* The estimator's own button is for the pack it names, on sale or not.
BuyEstimated(h, q) == /\ open /\ packs # None /\ BuyCredits(PackFor(CreditsForHalfMinutes(h, q)))
\* Variant: what is asked for is the cycle shown when the answer comes.
ItemNow(a) == IF a.item \in Sold /\ <<a.item[1], cycle>> \in Sold THEN <<a.item[1], cycle>> ELSE a.item
Item(a) == a.item
Url(i) == keyed /\ catalog[i].active /\ IsSellable(catalog[i])
\* The link, wherever in the app its user is by now, and the app is gone; a refusal is told.
CheckoutUrl(a) ==
  LET i == Item(a) row == catalog[i]
  IN /\ IF Url(i)
        THEN /\ left' = [item |-> i, shown |-> a.shown, sold |-> [price |-> row.price, credits |-> row.per * row.grants], same |-> a.asOf = moves]
             /\ asked' = {} /\ open' = FALSE /\ plans' = None /\ packs' = None /\ mine' = None /\ canceling' = FALSE
        ELSE asked' = asked \ {a} /\ UNCHANGED <<left, sent, canceling, open>>
     /\ UNCHANGED <<server, cycle>>
\* Another page of the app, and this one again: what was sent is kept, what is on its way comes.
Leave == /\ left = None /\ open' = ~open /\ UNCHANGED <<server, sent, left>>
         /\ asked' = {[a EXCEPT !.here = FALSE] : a \in asked}
         /\ canceling' = FALSE /\ cycle' = "monthly"
OnCancel == /\ open /\ SubscriptionCard \in {"ACTIVE", "PAST_DUE"} /\ ~canceling /\ canceling' = TRUE
            /\ UNCHANGED <<server, sent, cycle, asked, left, open>>
Canceled == /\ canceling /\ canceling' = FALSE
            /\ sub' \in {sub, IF sub # None /\ sub.status = "ACTIVE" THEN [sub EXCEPT !.ends = TRUE] ELSE sub}
            /\ UNCHANGED <<catalog, keyed, moves, sent, cycle, asked, left, open>>

Next == \/ \E i \in Items : Edit(i)
        \/ SubMoves \/ FetchPlans \/ FetchPacks \/ FetchSubscription \/ Leave \/ OnCancel \/ Canceled
        \/ \E c \in Cycles : SwitchCycle(c)
        \/ \E tier \in {"PRO", "STUDIO"} : StartCheckout(tier)
        \/ \E p \in Packs : Buy(p)
        \/ \E h \in HalfMinutes, q \in {"fast", "balanced", "studio"} : BuyEstimated(h, q)
        \/ \E a \in asked : CheckoutUrl(a)
Spec == Init /\ [][Next]_vars

-----------------------------------------------------------------------------
TypeOK ==
  /\ \A i \in Items : catalog[i].price \in Nat /\ catalog[i].per \in Nat
  /\ cycle \in Cycles /\ keyed \in BOOLEAN /\ canceling \in BOOLEAN /\ open \in BOOLEAN
  /\ sub # None => sub.item \in Sold /\ sub.status \in Statuses
  /\ \A a \in asked : a.item \in Items

\* The checkout a buyer is sent to sells what the card said when it was pressed, whatever
\* was switched to since, unless the panel changed the row under the page; and what the
\* page promises of a plan by name is what the gates let it do ("Must agree with
\* plan-features.ts, which is what can-dub actually enforces", Plans.tsx:91).
SoldAsShown ==
  /\ left # None /\ left.same => left.shown = left.sold
  /\ \A f \in DOMAIN CompareRows : CompareRows[f] = {Tiers[n] : n \in {m \in DOMAIN Tiers : f \in Features(Tiers[m])}}
\* The estimate is never less than the dub of that clip is charged ("the estimator and the
\* actual charge can no longer drift apart", credit-packs.ts:60-62).
EstimateCovers ==
  packs # None => \A h \in HalfMinutes, q \in Qualities : CostForDub(30000 * h, q) <= CreditsForHalfMinutes(h, q)
\* False: the tokens the page says a new account starts with dub five minutes ("20 tokens,
\* enough for the five free minutes", Plans.tsx:175-176; at the server they are 100).
FiveFreeMinutes == Loaded => AffordableSeconds(FreeTokens, "balanced") >= 5 * 60
\* Not run, and false: the largest pack stands in for one that covers the estimate, and the
\* page says "Covered by" all the same (Plans.tsx:786-791).
CoveredByPack == packs # None /\ Shown # {} => \A h \in HalfMinutes, q \in {"fast", "balanced", "studio"} :
  LET n == CreditsForHalfMinutes(h, q) IN packs.rows[PackFor(n)].per >= n
\* Not run, and false: a plan that cannot be bought keeps its button ("say which, so the
\* disabled button on one card is explained", Plans.tsx:317-318).
MissingIsDisabled == Loaded /\ ~Blocked => \A i \in Missing : i[2] = cycle => Label(i[1]) # "Choose"
\* Not run, and false: "Free" is what the table says of a plan that has no row.
OnlyFreeIsFree == Loaded => \A i \in Sold : ~ComparedAsFree(i)
\* Not run, and false: the plan the account has is on offer while the subscription loads,
\* and while a payment is overdue.
NotOfferedTwice == left # None /\ left.item \in Sold /\ sub # None => sub.status \notin {"ACTIVE", "PAST_DUE"}
=============================================================================
