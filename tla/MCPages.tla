------------------------------- MODULE MCPages -------------------------------
(* The pages of one visit, small instances side by side, each behaviour one of theirs:
   signing in and staying signed in (Sessions), a dub in the Studio (Studio), the
   card of its tour (Spotlight), a script read aloud (Speech) and a purchase (Buying). *)
EXTENDS Sessions, Integers, TLC

\* Tabs and calls are so many, and the bounds are numbers.
ASSUME SessionsAssumption == IsFiniteSet(Tabs) /\ IsFiniteSet(Calls) /\ MaxTokens \in Nat /\ MaxRequests \in Nat

CONSTANTS None, t1, t2, b1, b2, k1, k2,     \* tabs, browsers, calls
          Files, Runs, MaxChoices,          \* of the Studio
          Scripts, Readers, Estimate, Prices, Tokens, MaxRestarts,   \* of speech
          Orders, Attached, Buyers, Watch, Recent, Patience, MaxTime,    \* of buying
          Scenes,                           \* the components that may move
          Pad, Gap, Margin, CardW, CardMin, \* of the card and where it may be
          Targets, Widths, Heights, CardHs, Likes, Count
OwnBrowsers == (t1 :> b1) @@ (t2 :> b2)
OneBrowser == (t1 :> b1) @@ (t2 :> b1)
BothCallsOfT1 == (k1 :> t1) @@ (k2 :> t1)
\* Those of this module.
ASSUME ScenesAssumption == Scenes \subseteq {"spotlight", "sessions", "studio", "speech", "buying"}
Box(x, y, w, h) == [x |-> x, y |-> y, w |-> w, h |-> h]
MCTargets == {Box(0, 4, 3, 2), Box(6, 0, 3, 9), Box(10, 3, 4, 2), Box(-4, 4, 3, 2), Box(15, 3, 3, 2), Box(6, -3, 4, 3)}
MCLikes == {None, "left", "top"}

VARIABLES active,   \* the component that moves
  open, index, prefer, target, screen, rect, viewport, cardH,
  src, probes, measured, choices, run, job, dubbingPage, followers, library, twice,
  up, task, file, balance, paid, speakingPage, restarts,
  now, order, mark, buyTab

Light == INSTANCE Spotlight
ASSUME SpotlightAssumption == Light!Sized
Dubbing == INSTANCE Studio WITH
    page <- dubbingPage, NoFile <- None, NoRun <- None
Speaking == INSTANCE Speech WITH
    page <- speakingPage, NoTask <- None, Tasks <- Scripts, Pages <- Readers
\* Scripts are so many, a price is a number of tokens, and no script is not a script.
ASSUME SpeechAssumption ==
  /\ Prices \subseteq Nat /\ Tokens \in Nat /\ MaxRestarts \in Nat /\ IsFiniteSet(Scripts) /\ None \notin Scripts
Buy == INSTANCE Buying WITH
    tab <- buyTab, Tabs <- Buyers, NoOrder <- None, Poll <- Patience
\* What the catalog knows are orders, and a page polls for a time.
ASSUME BuyingAssumption == Attached \subseteq Orders /\ Patience \in Nat /\ MaxTime \in Nat
\* No file is not a file.
ASSUME StudioAssumption == None \notin Files /\ MaxChoices \in Nat

LightVars == <<open, index, prefer, target, screen, rect, viewport, cardH>>
SessionVars == <<token, code, cookie, req, tab, call, excused, alarms>>
DubbingVars == <<src, probes, measured, choices, run, job, dubbingPage, followers, library, twice>>
SpeakingVars == <<up, task, file, balance, paid, speakingPage, restarts>>
BuyVars == <<now, order, mark, buyTab>>
allVars == <<active, LightVars, SessionVars, DubbingVars, SpeakingVars, BuyVars>>

HarnessInit ==
  /\ active \in Scenes
  /\ IF active = "spotlight" THEN TRUE ELSE prefer = None /\ target = None /\ screen = [w |-> 6, h |-> 9, card |-> 2] /\ cardH = 2
  /\ Light!Init
  /\ Init
  /\ Dubbing!Init
  /\ IF active = "speech" THEN TRUE ELSE up = {}
  /\ Speaking!Init
  /\ Buy!Init

LightMoves ==
  /\ active = "spotlight" /\ Light!Next
  /\ UNCHANGED <<active, SessionVars, DubbingVars, SpeakingVars, BuyVars>>
SessionMoves ==
  /\ active = "sessions" /\ Next
  /\ UNCHANGED <<active, LightVars, DubbingVars, SpeakingVars, BuyVars>>
DubbingMoves ==
  /\ active = "studio" /\ Dubbing!Next
  /\ UNCHANGED <<active, LightVars, SessionVars, SpeakingVars, BuyVars>>
SpeakingMoves ==
  /\ active = "speech" /\ Speaking!Next
  /\ UNCHANGED <<active, LightVars, SessionVars, DubbingVars, BuyVars>>
BuyMoves ==
  /\ active = "buying" /\ Buy!Next
  /\ UNCHANGED <<active, LightVars, SessionVars, DubbingVars, SpeakingVars>>

HarnessNext == LightMoves \/ SessionMoves \/ DubbingMoves \/ SpeakingMoves \/ BuyMoves
HarnessSpec == HarnessInit /\ [][HarnessNext]_allVars
\* What is fair of a component that does not move is disabled from the start.
HarnessFairSpec == HarnessSpec /\ Fairness /\ Dubbing!Fairness /\ Speaking!Fairness /\ Buy!Fairness


\* Nobody "is logged out *because* they successfully refreshed. Sharing one promise is what
\* makes that impossible" (http.ts:82-83): with a browser per tab it holds (SessionsKept),
\* with two tabs of one browser, which share the cookie and not the promise, it does not.
RefreshingIsQuiet == NoFalseAlarm
\* The card of a tour is beside the hole it is about (TourOverlay.tsx:1-2).
CardBesideHole == Light!CardBesideHole
\* What the Studio sends, quotes and pays for is one and the same clip: one source is
\* sent, and the length quoted is the chosen file's (Studio.tsx:183-187, 285-301).
SameClip == Dubbing!OneSource /\ Dubbing!QuoteIsForFile
\* Money and what it buys: speech that is served was paid for in full by a voice of its
\* engine, and a page that says an order is credited says so of what is credited, and the
\* balance, if it asks for it anew then, counts it (speech.py:16-18, 279-299,
\* PlansSuccess.tsx:48-75, queries.ts:226-242).
PaidAndTold == Speaking!PaidSpeech /\ Speaking!VoiceFitsEngine /\ Buy!ToldIsCredited
\* Nothing on these pages waits for ever: a call for its refresh, a splash screen, a run
\* for its result in the library, a script for its audio, a buyer for an answer; each
\* with the exceptions its module names
\* (http.ts:95-113, Studio.tsx:353-432, TextToSpeech.tsx:87-120, PlansSuccess.tsx:41-79).
WaitsEnd == /\ NobodyWaits /\ Dubbing!ResultIsRecordedHere /\ Speaking!PageSettles
            /\ Buy!PageAnswers
\* The state of the component that moves has its type, and what is missing from a
\* wallet was paid for a script, once (speech.py:279-282).
StatesOK == CASE active = "spotlight" -> Light!TypeOK
              [] active = "sessions" -> TypeOK
              [] active = "studio" -> Dubbing!TypeOK
              [] active = "speech" -> Speaking!TypeOK
              [] active = "buying" -> Buy!TypeOK

=============================================================================
