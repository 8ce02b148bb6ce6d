------------------------------ MODULE DubForm ------------------------------
(* The options of a dub on the Studio's page, kept within the plan as the   *)
(* page knows it, the gate that asks the server, the job that is created,   *)
(* and the settings a run in the library is repeated with.                  *)
EXTENDS Tariff, FiniteSets

CONSTANTS None,
          Accounts, Runs,
          Controls,   \* the options that are played with
          MaxMoves    \* bound: changes of account and plan

VARIABLES who,      \* who is signed in
          plan,     \* at the server: of each account, and whether a payment is overdue
          known,    \* the features the page has, by tier; kept when its user signs out
          wallet,   \* the plan of the wallet; None while it loads
          lips,     \* whether the deployment can sync lips
          form,     \* the options on the page; None when it is closed
          replay,   \* the run whose settings the page was opened with, as yet untouched
          plans,    \* history: what the page was told of the plan while open
          run, moves
vars == <<who, plan, known, wallet, lips, form, replay, plans, run, moves>>
account == <<who, plan, known, wallet, lips>>

Plan == [tier : {"FREE", "STUDIO"}, late : BOOLEAN]
Init == /\ who = None /\ plan \in [Accounts -> {[tier |-> "FREE", late |-> FALSE], [tier |-> "STUDIO", late |-> FALSE]}]
        /\ known = None /\ wallet = None /\ lips \in BOOLEAN
        /\ form = None /\ replay = None /\ plans = {} /\ run = [r \in Runs |-> None] /\ moves = 0

-----------------------------------------------------------------------------
(* The form.  wants: the options asked for that some plan does without; "language" is
   a target that is not Turkic. *)
Default == [wants |-> {"background"}, voice |-> "both", from |-> "auto"]
Needs(o) == o.wants \cup (IF o.voice = "both" THEN {} ELSE {"voice"})
CanSubtitles(w) == who # None /\ (w = None \/ "subtitles" \in Features(w))
\* Variant: what the swap asks for is not looked at.
SettledButLanguage(o, k, w) ==
  IF k = None THEN o
  ELSE [o EXCEPT !.wants = (@ \cap (Features(k) \cup {"language"})) \ (IF CanSubtitles(w) THEN {} ELSE {"subtitles"}),
                 !.voice = IF "voice" \in Features(k) THEN @ ELSE "both"]
\* After every change the state is brought within the plan, if the plan is known.
Settled(o, k, w) ==
  IF k = None THEN o
  ELSE [o EXCEPT !.wants = (@ \cap Features(k)) \ (IF CanSubtitles(w) THEN {} ELSE {"subtitles"}),
                 !.voice = IF "voice" \in Features(k) THEN @ ELSE "both"]
Told(k, w) == /\ known' = k /\ wallet' = w
              /\ form' = IF form = None THEN None ELSE Settled(form, k, w)
              /\ plans' = IF form = None THEN {} ELSE plans \cup {k}

Unlocked(f) == /\ known = None \/ f \in Features(known)
               /\ f = "subtitles" => CanSubtitles(wallet)
               /\ f = "lipsync" => lips
Changed(o) == /\ form' = Settled(o, known, wallet) /\ replay' = None /\ UNCHANGED <<account, plans, run, moves>>
Toggle(f) == Changed([form EXCEPT !.wants = IF f \in @ THEN @ \ {f} ELSE @ \cup {f}])
Option(f) ==
  /\ form # None /\ f \in Controls \ {"voice", "language"} /\ Unlocked(f)
  /\ f = "reference" => form.voice # "native"
  /\ Toggle(f)
\* A clip of another voice goes when no voice is cloned.
Voice(m) ==
  /\ form # None /\ "voice" \in Controls /\ (m = "both" \/ Unlocked("voice"))
  /\ Changed([form EXCEPT !.voice = m, !.wants = IF m = "native" THEN @ \ {"reference"} ELSE @])
Target == form # None /\ "language" \in Controls /\ Unlocked("language") /\ Toggle("language")
From(l) == form # None /\ "language" \in Controls /\ Changed([form EXCEPT !.from = l])
SwapLangs ==
  /\ form # None /\ form.from # "auto"
  /\ Changed([form EXCEPT !.from = IF "language" \in form.wants THEN "other" ELSE "turkic",
                          !.wants = IF form.from = "other" THEN @ \cup {"language"} ELSE @ \ {"language"}])

-----------------------------------------------------------------------------
(* The page opens as it is, or with the settings of a run: those a run records. *)
Recorded == {"studio", "language", "lipsync", "background"}
\* Variant: what the page opens with is not looked at.
OpenedAsIs(o) == /\ form = None /\ form' = o /\ plans' = {known} /\ UNCHANGED <<account, run, moves>>
Opened(o) == /\ form = None /\ form' = Settled(o, known, wallet) /\ plans' = {known} /\ UNCHANGED <<account, run, moves>>
Open == Opened(Default) /\ replay' = None
\* A run records only whether it cloned: the first of the modes that do stands for both.
Record(o) == [o EXCEPT !.wants = @ \cap Recorded, !.voice = IF @ = "native" THEN "native" ELSE "both"]
DuplicateState(r) == run[r].o
Duplicate(r) == run[r] # None /\ run[r].at = "created" /\ Opened(DuplicateState(r)) /\ replay' = r
Close == form # None /\ form' = None /\ replay' = None /\ plans' = {} /\ UNCHANGED <<account, run, moves>>

-----------------------------------------------------------------------------
(* Start: the options of the click are what the gate is asked about and the job gets. *)
Asked(o, w) == (Needs(o) \ (IF lips THEN {} ELSE {"lipsync"})) \ (IF CanSubtitles(w) THEN {} ELSE {"subtitles"})
Sent(o) == Needs(o) \ (IF lips THEN {} ELSE {"lipsync"})
Tier(p) == p.tier
WalletOf(p) == IF p.late THEN "FREE" ELSE p.tier
Start(r) ==
  /\ form # None /\ who # None /\ run[r] = None
  /\ run' = [run EXCEPT ![r] = [at |-> "gate", o |-> Record(form), asked |-> Asked(form, wallet),
                               same |-> known # None => Sent(form) = Asked(form, wallet),
                               fresh |-> known = Tier(plan[who]) /\ wallet = WalletOf(plan[who])]]
  /\ UNCHANGED <<account, form, replay, plans, moves>>
Gate(r) ==
  /\ run[r] # None /\ run[r].at = "gate"
  /\ LET passes == who # None /\ run[r].asked \subseteq Features(Tier(plan[who]))
     IN run' = [run EXCEPT ![r].at = IF passes THEN "created" ELSE "refused", ![r].asked = {}]
  /\ UNCHANGED <<account, form, replay, plans, moves>>

-----------------------------------------------------------------------------
(* The account. *)
Stale == [r \in Runs |-> IF run[r] # None /\ run[r].at = "gate" THEN [run[r] EXCEPT !.fresh = FALSE] ELSE run[r]]
Moves == moves < MaxMoves /\ moves' = moves + 1 /\ run' = Stale
SignIn(a) == /\ who = None /\ who' = a /\ form = None /\ Moves /\ UNCHANGED <<plan, known, wallet, lips, form, replay, plans>>
\* The wallet's cache goes with its user, the features' stays.
SignOut == /\ who # None /\ who' = None /\ wallet' = None /\ form' = None /\ replay' = None /\ plans' = {}
           /\ Moves /\ UNCHANGED <<plan, known, lips>>
PlanMoves(a, p) == /\ p # plan[a] /\ plan' = [plan EXCEPT ![a] = p] /\ Moves
                   /\ UNCHANGED <<who, known, wallet, lips, form, replay, plans>>
GetEntitlements == /\ who # None /\ Told(Tier(plan[who]), wallet) /\ UNCHANGED <<who, plan, lips, replay, run, moves>>
GetSubscription == /\ who # None /\ Told(known, WalletOf(plan[who])) /\ UNCHANGED <<who, plan, lips, replay, run, moves>>

Forming == \/ Open \/ Close \/ Target \/ SwapLangs \/ \E r \in Runs : Duplicate(r)
           \/ \E f \in Controls : Option(f)
           \/ \E m \in {"both", "speaker", "native"} : Voice(m)
           \/ \E l \in {"auto", "turkic", "other"} : From(l)
Next == \/ Forming \/ SignOut \/ GetEntitlements \/ GetSubscription
        \/ \E r \in Runs : Start(r) \/ Gate(r)
        \/ \E a \in Accounts : SignIn(a) \/ \E p \in Plan : PlanMoves(a, p)
Spec == Init /\ [][Next]_vars

-----------------------------------------------------------------------------
Option0 == {Options[n] : n \in DOMAIN Options}
Form == [wants : SUBSET Option0, voice : {"both", "speaker", "native"}, from : {"auto", "turkic", "other"}]
TypeOK ==
  /\ who \in Accounts \cup {None} /\ plan \in [Accounts -> Plan] /\ lips \in BOOLEAN /\ moves \in 0 .. MaxMoves
  /\ known \in {None, "FREE", "STUDIO"} /\ wallet \in {None, "FREE", "STUDIO"}
  /\ form = None \/ form \in Form
  /\ \A r \in Runs : run[r] # None => run[r].o \in Form /\ run[r].at \in {"gate", "created", "refused"}

\* However the options were reached, by a click, a swap, a default or a run repeated, a
\* page that knows its user's plan is not refused for it (Studio.tsx:237-238: "is never
\* sent"), and a run it starts gets no more than the gate was asked about.
NeverSent ==
  \A r \in Runs : run[r] # None =>
    /\ run[r].at = "refused" => ~run[r].fresh
    /\ run[r].same

\* A run repeated keeps what it recorded, whatever of it the plan has, as long as the page
\* was told of no other plan (MyWorks.tsx, "Duplicate these settings").
ReplayKeeps ==
  replay # None /\ form # None /\ plans \subseteq {None, known} =>
    /\ form.wants = run[replay].o.wants \cap (IF known = None THEN Recorded ELSE Features(known))
    /\ (form.voice = "native") = (run[replay].o.voice = "native" /\ (known = None \/ "voice" \in Features(known)))

\* Violated.  "the badge the UI shows and the gate the dub hits always agree"
\* (payment.service.ts:1347-1349): the wallet counts a plan whose payment is overdue as
\* Free, the gate does not until the grace is over.
BadgeAgrees == \A r \in Runs : run[r] # None /\ run[r].at = "gate" /\ run[r].fresh =>
                 Features(Tier(plan[who])) = Features(wallet)
\* Not run, and false: the features kept from the user before clear an option that the
\* plan of this one has, and it stays cleared (background is no control here).
KeepsBackground ==
  form # None /\ who # None /\ "background" \notin Controls /\ known = "STUDIO" => "background" \in form.wants
=============================================================================
