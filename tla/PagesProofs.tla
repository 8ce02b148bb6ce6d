---------------------------- MODULE PagesProofs ----------------------------
(* Proofs about the pages: how an account stays signed in (Sessions), where the card of a
   tour is put (Spotlight), which clip is dubbed (Studio), what speech costs (Speech), what
   is said of an order (Buying); each for any instance, then what the run of the pages
   checks.  Of Sessions, for any number of browsers, tabs, calls and codes, and any bound on
   the tokens and the refreshes: a handoff code opens one session, and, where every tab has
   a browser to itself, the reuse alarm is raised only over a token that may legally be seen
   twice.

   `Basic` says what is where: types, no token that was not issued, and which pages
   may wait for what.  `Opened` follows a code.  `Peaceful` follows a token: on its way
   to a page it is nowhere else (OnTheWay); in a cookie it is sent once, by the one
   page that waits for it (Spent); and it was revoked by the refresh it was sent
   with, or with an excuse (Revoked).  So a refresh never presents a token that
   another one revoked. *)
EXTENDS MCPages, FiniteSetTheorems, WellFoundedInduction, TLAPS

(* The inductive invariant. *)
PageState == [at : {"closed", "open"} \cup Booting, access : {"none", "fresh", "stale"},
              code : Codes \cup {NoCode}, got : Nat, form : Forms, flight : Nat]
ReqState == [tab : Tabs, tok : Nat, at : ReqStates, new : Nat]
CallState == {"idle", "good", "bad", "joined", "retry"}
CodeState == [state : {"none", "live", "used", "expired"}, opened : SUBSET Nat]
TokenState == [state : TokenStates, first : Nat]
\* What the code gives: a tab is a browser's, a call a tab's, and no code is not a code.
World ==
  TabBrowser \in [Tabs -> Browsers] /\ CallTab \in [Calls -> Tabs] /\ NoCode \notin Codes

\* The types of the variables, without the bounds of the model.
Typed ==
  /\ token \in Seq(TokenState) /\ code \in [Codes -> CodeState] /\ cookie \in [Browsers -> Nat]
  /\ req \in Seq(ReqState) /\ tab \in [Tabs -> PageState] /\ call \in [Calls -> CallState]
  /\ excused \subseteq Nat /\ alarms \subseteq Nat
\* Only tokens that were issued are held, and a refresh goes on with one only.
Known ==
  /\ \A b \in Browsers : cookie[b] <= Len(token)
  /\ \A i \in DOMAIN req : /\ req[i].tok <= Len(token) /\ req[i].new <= Len(token)
                           /\ req[i].at \in {"revoke", "issue", "ok"} => req[i].tok # 0
  /\ \A t \in Tabs : tab[t].got <= Len(token)
\* What a page that does something is at.
Pages ==
  /\ \A t \in Tabs : /\ tab[t].form # "none" => tab[t].at = "open"
                     /\ tab[t].at = "closed" => tab[t].flight = 0
                     /\ tab[t].at \in {"redeem", "issue"} => tab[t].code \in Codes
  /\ \A c \in Calls : call[c] = "bad" => tab[CallTab[c]].at = "open"
Basic == Typed /\ Known /\ Pages

\* A code that was opened is used, one page at most is about to open it, and none
\* opens it again.
Opened ==
  /\ \A c \in Codes : code[c].opened = {} \/ (code[c].state = "used" /\ \E k \in Nat : code[c].opened = {k})
  /\ \A t \in Tabs : tab[t].at = "issue" => code[tab[t].code].state = "used" /\ code[tab[t].code].opened = {}
  /\ \A t, u \in Tabs : tab[t].at = "issue" /\ tab[u].at = "issue" /\ tab[t].code = tab[u].code => t = u

\* A token on its way to a page is in no cookie and was sent with no request, and no
\* other page is given it.
Unused(k) == k # 0 /\ (\A b \in Browsers : cookie[b] # k) /\ \A i \in DOMAIN req : req[i].tok # k
Bears(t) == tab[t].at = "redeemed" \/ tab[t].form = "login"
OnTheWay ==
  /\ \A i \in DOMAIN req : req[i].at = "ok" => Unused(req[i].new)
  /\ \A t \in Tabs : Bears(t) => Unused(tab[t].got)
  /\ \A i, j \in DOMAIN req : req[i].at = "ok" /\ req[j].at = "ok" /\ req[i].new = req[j].new => i = j
  /\ \A t, u \in Tabs : Bears(t) /\ Bears(u) /\ tab[t].got = tab[u].got => t = u
  /\ \A i \in DOMAIN req, t \in Tabs : req[i].at = "ok" /\ Bears(t) => req[i].new # tab[t].got
  /\ \A b, c \in Browsers : cookie[b] # 0 /\ cookie[b] = cookie[c] => b = c
\* A token without an excuse was sent once; while the request is under way its page waits
\* for it, and afterwards no cookie holds the token.
Alone(i) ==
  /\ req[i].at # "no"
  /\ req[i].at = "done" => \A b \in Browsers : cookie[b] # req[i].tok
  /\ req[i].at # "done" => /\ tab[req[i].tab].flight = i
                           /\ \A b \in Browsers : cookie[b] = req[i].tok => b = TabBrowser[req[i].tab]
  /\ \A j \in DOMAIN req : req[j].tok = req[i].tok => j = i
Spent == \A i \in DOMAIN req : req[i].tok \in excused \cup {0} \/ Alone(i)
\* A token is revoked with an excuse, or by the request it was sent with.
Past(i) == req[i].at \notin {"sent", "revoke"}
Revoked ==
  \A k \in DOMAIN token : token[k].state = "revoked" =>
    k \in excused \/ \E i \in DOMAIN req : req[i].tok = k /\ Past(i)
Peaceful == OnTheWay /\ Spent /\ Revoked /\ NoFalseAlarm
\* What the code does not give: no two tabs share a browser, and so a cookie.
OwnBrowser == \A t, u \in Tabs : TabBrowser[t] = TabBrowser[u] => t = u

-----------------------------------------------------------------------------
(* Sequences, and the pieces of the steps. *)
\* What appending to a sequence and changing an element of it give.
LEMMA Appended ==
  ASSUME NEW S, NEW s \in Seq(S), NEW e \in S
  PROVE  /\ Append(s, e) \in Seq(S) /\ Len(s) \in Nat /\ Len(Append(s, e)) = Len(s) + 1
         /\ DOMAIN s = 1 .. Len(s) /\ DOMAIN Append(s, e) = 1 .. Len(s) + 1
         /\ Append(s, e)[Len(s) + 1] = e /\ \A i \in DOMAIN s : Append(s, e)[i] = s[i]
  OBVIOUS
\* A sequence with one place written over.
LEMMA Changed ==
  ASSUME NEW S, NEW s \in Seq(S), NEW i \in DOMAIN s, NEW e \in S
  PROVE  LET r == [s EXCEPT ![i] = e] IN
         /\ r \in Seq(S) /\ Len(r) = Len(s) /\ DOMAIN r = DOMAIN s /\ DOMAIN s = 1 .. Len(s) /\ Len(s) \in Nat
         /\ r[i] = e /\ \A j \in DOMAIN s : j # i => r[j] = s[j]
  OBVIOUS
\* What the pieces of the steps do.  A token is issued:
LEMMA Issued ==
  ASSUME Typed, NEW first \in Nat, Issue(first)
  PROVE  /\ token' \in Seq(TokenState) /\ Len(token) \in Nat /\ Len(token') = Len(token) + 1
         /\ DOMAIN token = 1 .. Len(token) /\ DOMAIN token' = 1 .. Len(token) + 1
         /\ token'[Len(token) + 1].state = "live"
         /\ \A k \in DOMAIN token : token'[k] = token[k]
<1> DEFINE e == [state |-> "live", first |-> first]
<1>1. e \in TokenState /\ e.state = "live"
  BY DEF TokenState, TokenStates
<1>2. token' = Append(token, e) /\ token \in Seq(TokenState)
  BY DEF Issue, Typed
<1> HIDE DEF e
<1> QED BY <1>1, <1>2, Appended

\* ... its state is set:
LEMMA StateSet ==
  ASSUME Typed, NEW id \in DOMAIN token, NEW s \in TokenStates, SetState(id, s)
  PROVE  /\ token' \in Seq(TokenState) /\ Len(token) \in Nat /\ Len(token') = Len(token)
         /\ DOMAIN token = 1 .. Len(token) /\ DOMAIN token' = DOMAIN token
         /\ \A k \in DOMAIN token : token'[k].state = IF k = id THEN s ELSE token[k].state
<1> DEFINE e == [token[id] EXCEPT !.state = s]
<1>1. token \in Seq(TokenState) /\ token[id] \in TokenState
  BY DEF Typed
<1>2. e \in TokenState /\ e.state = s
  BY <1>1 DEF TokenState
<1>3. token' = [token EXCEPT ![id] = e]
  BY DEF SetState
<1> HIDE DEF e
<1> QED BY <1>1, <1>2, <1>3, Changed

\* ... a request is answered, and perhaps given a new token:
Answers(i, a, n) == req' = [req EXCEPT ![i].at = a, ![i].new = n]
\* An answer leaves the token the request was given.
LEMMA AnswerIs ==
  ASSUME Typed, NEW i \in DOMAIN req, NEW a \in ReqStates, Answer(i, a)
  PROVE  Answers(i, a, req[i].new)
<1> DEFINE e == [req[i] EXCEPT !.at = a]
<1>1. req \in Seq(ReqState) /\ req[i] \in ReqState
  BY DEF Typed
<1>2. [e EXCEPT !.new = req[i].new] = e
  BY <1>1 DEF ReqState
<1>3. req' = [req EXCEPT ![i] = e]
  BY DEF Answer
<1> QED BY <1>2, <1>3 DEF Answers

\* ... which changes that request and nothing else of it:
LEMMA Answered ==
  ASSUME Typed, NEW i \in DOMAIN req, NEW a \in ReqStates, NEW n \in Nat, Answers(i, a, n)
  PROVE  /\ req' \in Seq(ReqState) /\ DOMAIN req' = DOMAIN req /\ Len(req') = Len(req)
         /\ Len(req) \in Nat /\ DOMAIN req = 1 .. Len(req)
         /\ \A j \in DOMAIN req : /\ req'[j].tab = req[j].tab /\ req'[j].tok = req[j].tok
                                  /\ req'[j].at = IF j = i THEN a ELSE req[j].at
                                  /\ req'[j].new = IF j = i THEN n ELSE req[j].new
<1> DEFINE e == [[req[i] EXCEPT !.at = a] EXCEPT !.new = n]
<1>1. req \in Seq(ReqState) /\ req[i] \in ReqState
  BY DEF Typed
<1>2. e \in ReqState /\ e.tab = req[i].tab /\ e.tok = req[i].tok /\ e.at = a /\ e.new = n
  BY <1>1 DEF ReqState
<1>3. req' = [req EXCEPT ![i] = e]
  BY DEF Answers
<1> HIDE DEF e
<1> QED BY <1>1, <1>2, <1>3, Changed DEF ReqState

\* ... a page changes:
LEMMA Turned ==
  ASSUME Typed, NEW t \in Tabs, NEW page \in PageState, tab' = [tab EXCEPT ![t] = page]
  PROVE  /\ tab' \in [Tabs -> PageState]
         /\ \A u \in Tabs : tab'[u] = IF u = t THEN page ELSE tab[u]
  BY DEF Typed

\* ... a page asks for a refresh: it joins the one it waits for, or sends one.
LEMMA Asked ==
  ASSUME Typed, World, NEW t \in Tabs, NEW page \in PageState, RefreshOnce(t, page)
  PROVE  \/ page.flight # 0 /\ UNCHANGED req /\ tab' = [tab EXCEPT ![t] = page]
         \/ /\ page.flight = 0
            /\ tab' = [tab EXCEPT ![t] = [page EXCEPT !.flight = Len(req) + 1]]
            /\ [page EXCEPT !.flight = Len(req) + 1] \in PageState
            /\ req' \in Seq(ReqState) /\ Len(req) \in Nat /\ Len(req') = Len(req) + 1
            /\ DOMAIN req = 1 .. Len(req) /\ DOMAIN req' = 1 .. Len(req) + 1
            /\ \A j \in DOMAIN req : req'[j] = req[j]
            /\ LET r == req'[Len(req) + 1] IN
               r.tab = t /\ r.tok = CookieOf(t) /\ r.at = "sent" /\ r.new = 0
<1>1. CASE page.flight # 0
  BY <1>1 DEF RefreshOnce
<1>2. CASE page.flight = 0
  <2> DEFINE e == [tab |-> t, tok |-> CookieOf(t), at |-> "sent", new |-> 0]
  <2>1. /\ e \in ReqState /\ e.tab = t /\ e.tok = CookieOf(t) /\ e.at = "sent" /\ e.new = 0
        /\ req \in Seq(ReqState)
    BY DEF ReqState, ReqStates, CookieOf, Typed, World
  <2>2. /\ req' = Append(req, e)
        /\ tab' = [tab EXCEPT ![t] = [page EXCEPT !.flight = Len(req) + 1]]
    BY <1>2 DEF RefreshOnce
  <2> HIDE DEF e
  <2>3. Len(req) \in Nat
    BY <2>1
  <2>4. [page EXCEPT !.flight = Len(req) + 1] \in PageState
    BY <2>3 DEF PageState
  <2> QED BY <1>2, <2>1, <2>2, <2>4, Appended
<1> QED BY <1>1, <1>2

-----------------------------------------------------------------------------
(* Basic is inductive. *)
LEMMA InitBasic == ASSUME World PROVE Init => Basic
  BY DEF World, Init, Basic, Typed, Known, Pages, Closed, PageState, CodeState, CallState, Forms, Booting

\* A step that leaves the tokens and the requests alone.
LEMMA PageTurns ==
  ASSUME Basic, World, UNCHANGED <<token, req>>, code' \in [Codes -> CodeState],
         cookie' \in [Browsers -> Nat], \A b \in Browsers : cookie'[b] <= Len(token),
         tab' \in [Tabs -> PageState], \A t \in Tabs : tab'[t].got <= Len(token), Pages',
         call' \in [Calls -> CallState], excused' \subseteq Nat, UNCHANGED alarms
  PROVE  Basic'
<1>1. Typed' /\ Known'
  BY DEF Basic, Typed, Known
<1> QED BY <1>1 DEF Basic

\* A page asks for a refresh.
LEMMA AskKeepsBasic ==
  ASSUME Basic, World, NEW t \in Tabs, NEW page \in PageState, RefreshOnce(t, page),
         page.got <= Len(token), page.at # "closed",
         page.form # "none" => page.at = "open", page.at \in {"redeem", "issue"} => page.code \in Codes,
         tab[t].at = "open" => page.at = "open",
         UNCHANGED <<token, code, cookie, ghosts>>, call' \in [Calls -> CallState],
         \A c \in Calls : call'[c] = "bad" => call[c] = "bad"
  PROVE  Basic'
<1>1. Typed /\ Known /\ Pages /\ Len(token) \in Nat
  BY DEF Basic, Typed
<1> DEFINE asked == [page EXCEPT !.flight = Len(req) + 1]
<1>2. /\ asked.at = page.at /\ asked.form = page.form /\ asked.code = page.code /\ asked.got = page.got
  BY DEF PageState
<1>3. PICK turned \in PageState :
         /\ tab' = [tab EXCEPT ![t] = turned] /\ turned.at = page.at /\ turned.form = page.form
         /\ turned.code = page.code /\ turned.got = page.got
  BY <1>1, <1>2, Asked
<1>4. /\ tab' \in [Tabs -> PageState]
      /\ \A u \in Tabs : tab'[u] = IF u = t THEN turned ELSE tab[u]
  BY <1>1, <1>3, Turned
<1>5. /\ req' \in Seq(ReqState)
      /\ \A i \in DOMAIN req' : /\ req'[i].tok <= Len(token) /\ req'[i].new <= Len(token)
                                /\ req'[i].at \in {"revoke", "issue", "ok"} => req'[i].tok # 0
  <2>1. CookieOf(t) <= Len(token) /\ 0 <= Len(token)
    BY <1>1 DEF Known, CookieOf, World
  <2>2. CASE UNCHANGED req
    BY <1>1, <2>2 DEF Typed, Known
  <2>3. CASE ~UNCHANGED req
    <3>1. /\ req' \in Seq(ReqState) /\ Len(req) \in Nat /\ DOMAIN req = 1 .. Len(req) /\ DOMAIN req' = 1 .. Len(req) + 1
          /\ \A j \in DOMAIN req : req'[j] = req[j]
          /\ LET r == req'[Len(req) + 1] IN r.tok = CookieOf(t) /\ r.at = "sent" /\ r.new = 0
      BY <1>1, <2>3, Asked
    <3>2. ASSUME NEW i \in DOMAIN req' PROVE i \in DOMAIN req \/ i = Len(req) + 1
      BY <3>1
    <3> QED BY <1>1, <2>1, <3>1, <3>2 DEF Known
  <2> QED BY <2>2, <2>3
<1>6. Typed' /\ Known'
  BY <1>1, <1>3, <1>4, <1>5 DEF Typed, Known, ghosts
<1>7. Pages'
  BY <1>1, <1>3, <1>4 DEF Pages, World
<1> QED BY <1>6, <1>7 DEF Basic

\* The API moves a request on.
LEMMA AnswerKeepsBasic ==
  ASSUME Basic, World, NEW i \in DOMAIN req, NEW a \in ReqStates, NEW n \in Nat, Answers(i, a, n),
         token' \in Seq(TokenState), Len(token) <= Len(token'), n <= Len(token'),
         a \in {"revoke", "issue", "ok"} => req[i].tok # 0,
         tab' = tab, UNCHANGED <<code, cookie, call>>, excused' \subseteq Nat, alarms' \subseteq Nat
  PROVE  Basic'
<1>1. Typed /\ Known /\ Pages /\ Len(token) \in Nat /\ Len(token') \in Nat
  BY DEF Basic, Typed
<1>a. /\ req' \in Seq(ReqState) /\ DOMAIN req' = DOMAIN req
      /\ \A j \in DOMAIN req : /\ req'[j].tok = req[j].tok
                               /\ req'[j].at = IF j = i THEN a ELSE req[j].at
                               /\ req'[j].new = IF j = i THEN n ELSE req[j].new
  BY <1>1, Answered
<1>2. Typed'
  BY <1>1, <1>a DEF Typed
<1>3. \A j \in DOMAIN req' : /\ req'[j].tok <= Len(token') /\ req'[j].new <= Len(token')
                             /\ req'[j].at \in {"revoke", "issue", "ok"} => req'[j].tok # 0
  <2> SUFFICES ASSUME NEW j \in DOMAIN req
               PROVE  /\ req'[j].tok <= Len(token') /\ req'[j].new <= Len(token')
                      /\ req'[j].at \in {"revoke", "issue", "ok"} => req'[j].tok # 0
    BY <1>a
  <2>1. req \in Seq(ReqState)
    BY <1>1 DEF Typed
  <2>2. req[j] \in ReqState
    BY <2>1
  <2>3. req[j].tok \in Nat /\ req[j].new \in Nat
    BY <2>2 DEF ReqState
  <2>4. /\ req[j].tok <= Len(token') /\ req[j].new <= Len(token')
        /\ req[j].at \in {"revoke", "issue", "ok"} => req[j].tok # 0
    BY <1>1, <2>3 DEF Known
  <2> QED BY <1>a, <2>4
<1>4. Known'
  <2>1. \A b \in Browsers : cookie[b] \in Nat
    BY <1>1 DEF Typed
  <2>2. \A t \in Tabs : tab[t].got \in Nat
    BY <1>1 DEF Typed, PageState
  <2> QED BY <1>1, <1>3, <2>1, <2>2 DEF Known
<1>5. Pages'
  BY <1>1 DEF Pages
<1> QED BY <1>2, <1>4, <1>5 DEF Basic

\* A token is issued, and a page is handed it.
LEMMA HandingKeepsBasic ==
  ASSUME Basic, World, NEW t \in Tabs, Issue(Len(token) + 1), UNCHANGED <<cookie, req, call, ghosts>>,
         code' \in [Codes -> CodeState],
         NEW page \in PageState, tab' = [tab EXCEPT ![t] = page], page.got = Len(token) + 1,
         page.at # "closed", tab[t].at = "open" => page.at = "open",
         page.form # "none" => page.at = "open", page.at \in {"redeem", "issue"} => page.code \in Codes
  PROVE  Basic'
<1>1. Typed /\ Known /\ Pages
  BY DEF Basic
<1>2. /\ token' \in Seq(TokenState) /\ Len(token) \in Nat /\ Len(token') = Len(token) + 1
  BY <1>1, Issued
<1>3. /\ tab' \in [Tabs -> PageState] /\ \A u \in Tabs : tab'[u] = IF u = t THEN page ELSE tab[u]
  BY <1>1, Turned
<1>4. Typed'
  BY <1>1, <1>2, <1>3 DEF Typed, ghosts
<1>5. Known'
  <2>1. /\ \A b \in Browsers : cookie[b] \in Nat
        /\ \A u \in Tabs : tab[u].got \in Nat
    BY <1>1 DEF Typed, PageState
  <2>2. \A i \in DOMAIN req : req[i] \in ReqState
    BY <1>1 DEF Typed
  <2>3. \A i \in DOMAIN req : req[i].tok \in Nat /\ req[i].new \in Nat
    BY <2>2 DEF ReqState
  <2> QED BY <1>1, <1>2, <1>3, <2>1, <2>3 DEF Known
<1>6. Pages'
  BY <1>1, <1>3 DEF Pages, World
<1> QED BY <1>4, <1>5, <1>6 DEF Basic

\* A code is exchanged for a session.
LEMMA HandoffBasic ==
  ASSUME Basic, World, NEW t \in Tabs, Handoff(t)
  PROVE  Basic'
<1>1. Typed /\ Known /\ Pages /\ Len(token) \in Nat /\ tab[t] \in PageState
  BY DEF Basic, Typed
<1>2. CASE Redeem(t)
  <2>1. tab[t].code \in Codes
    BY <1>1, <1>2 DEF Redeem, Pages
  <2>2. code' \in [Codes -> CodeState]
    BY <1>1, <1>2, <2>1 DEF Redeem, Typed, CodeState
  <2>3. tab' \in [Tabs -> PageState] /\ (\A u \in Tabs : tab'[u].got <= Len(token)) /\ Pages'
    BY <1>1, <1>2, <2>1 DEF Redeem, Typed, PageState, Booting, Known, Pages, World
  <2> QED BY <1>1, <1>2, <2>2, <2>3, PageTurns DEF Redeem, Typed, Known, ghosts
<1>3. CASE IssueSession(t)
  <2> DEFINE page == [tab[t] EXCEPT !.at = "redeemed", !.got = Len(token) + 1]
  <2>1. /\ page \in PageState /\ page.at = "redeemed" /\ page.got = Len(token) + 1
        /\ page.form = tab[t].form /\ tab' = [tab EXCEPT ![t] = page]
    <3>1. tab[t].at = "issue" /\ tab \in [Tabs -> PageState]
          /\ tab' = [tab EXCEPT ![t].at = "redeemed", ![t].got = Len(token) + 1]
      BY <1>1, <1>3 DEF IssueSession, Typed
    <3>2. page \in PageState /\ page.at = "redeemed" /\ page.got = Len(token) + 1 /\ page.form = tab[t].form
      <4> DEFINE n == Len(token) + 1
      <4>1. n \in Nat /\ tab[t] \in PageState
        BY <1>1
      <4> HIDE DEF n
      <4>2. [tab[t] EXCEPT !.at = "redeemed", !.got = n] \in PageState
        BY <4>1 DEF PageState, Booting
      <4> QED BY <4>1, <4>2 DEF PageState, n
    <3>3. tab' = [tab EXCEPT ![t] = page]
      BY <3>1
    <3> HIDE DEF page
    <3> QED BY <3>2, <3>3
  <2>2. tab[t].code \in Codes /\ tab[t].form = "none" /\ tab[t].at # "open"
    BY <1>1, <1>3 DEF IssueSession, Pages
  <2>3. code' \in [Codes -> CodeState]
    BY <1>1, <1>3, <2>2 DEF IssueSession, Typed, CodeState
  <2> HIDE DEF page
  <2> QED BY <1>3, <2>1, <2>2, <2>3, HandingKeepsBasic DEF IssueSession
<1>4. CASE Redeemed(t)
  <2>1. cookie' \in [Browsers -> Nat] /\ \A b \in Browsers : cookie'[b] <= Len(token)
    BY <1>1, <1>4 DEF Redeemed, SetCookie, Typed, Known, PageState, World
  <2>2. tab' \in [Tabs -> PageState] /\ (\A u \in Tabs : tab'[u].got <= Len(token)) /\ Pages'
    <3> DEFINE page == [tab[t] EXCEPT !.at = "open", !.access = "fresh", !.got = 0]
    <3>1. tab' = [tab EXCEPT ![t] = page] /\ tab[t].at = "redeemed" /\ UNCHANGED call
      BY <1>1, <1>4 DEF Redeemed, Typed
    <3>2. page \in PageState /\ page.at = "open" /\ page.got = 0 /\ page.form = tab[t].form
      BY <1>1 DEF PageState
    <3> HIDE DEF page
    <3>3. tab' \in [Tabs -> PageState] /\ \A u \in Tabs : tab'[u] = IF u = t THEN page ELSE tab[u]
      BY <1>1, <3>1, <3>2, Turned
    <3> QED BY <1>1, <3>1, <3>2, <3>3 DEF Known, Pages, World
  <2> QED BY <1>1, <1>4, <2>1, <2>2, PageTurns DEF Redeemed, Typed, server, ghosts
<1>5. CASE NotRedeemed(t)
  <2> DEFINE page == [tab[t] EXCEPT !.at = "boot", !.got = 0]
  <2>1. page \in PageState /\ page.at = "boot" /\ page.got = 0 /\ page.form = tab[t].form
    BY <1>1 DEF PageState, Booting
  <2>2. tab[t].form = "none" /\ tab[t].at # "open"
    BY <1>1, <1>5 DEF NotRedeemed, Pages
  <2>3. RefreshOnce(t, page) /\ UNCHANGED <<server, cookie, call, ghosts>>
    BY <1>5 DEF NotRedeemed
  <2> HIDE DEF page
  <2> QED BY <1>1, <2>1, <2>2, <2>3, AskKeepsBasic DEF server, Typed
<1> QED BY <1>2, <1>3, <1>4, <1>5 DEF Handoff

\* The API serves a refresh, or its answer is lost.
LEMMA ApiBasic ==
  ASSUME Basic, World, NEW i \in DOMAIN req, Api(i) \/ Lost(i)
  PROVE  Basic'
<1>1. Typed /\ Known /\ Pages /\ Len(token) \in Nat /\ excused \subseteq Nat /\ alarms \subseteq Nat
  BY DEF Basic, Typed
<1>2. req[i] \in ReqState /\ req[i].tok \in Nat /\ req[i].new \in Nat /\ req[i].new <= Len(token) /\ req[i].tok <= Len(token)
  <2>1. req[i] \in ReqState
    BY <1>1 DEF Typed
  <2> QED BY <1>1, <2>1 DEF ReqState, Known
<1>3. token \in Seq(TokenState) /\ DOMAIN token = 1 .. Len(token)
  BY <1>1 DEF Typed
<1>t. req[i].tok # 0 => req[i].tok \in DOMAIN token
  BY <1>1, <1>2, <1>3
<1>s. {"revoke", "issue", "ok", "no"} \subseteq ReqStates /\ {"live", "revoked", "expired"} \subseteq TokenStates
  BY DEF ReqStates, TokenStates
<1>4. CASE Missing(i) \/ Check(i)
  <2>1. PICK a \in {"no", "revoke"} : Answer(i, a) /\ (a = "revoke" => req[i].tok # 0)
    BY <1>4 DEF Missing, Check
  <2>2. UNCHANGED <<server, cookie, tab, call, ghosts>>
    BY <1>4 DEF Missing, Check
  <2> QED BY <1>1, <1>2, <1>3, <1>s, <2>1, <2>2, AnswerIs, AnswerKeepsBasic DEF server, ghosts
<1>5. CASE Reuse(i)
  <2>1. token' \in Seq(TokenState) /\ Len(token') = Len(token)
    <3>1. token' = [id \in DOMAIN token |-> [token[id] EXCEPT !.state = "revoked"]]
      BY <1>5 DEF Reuse
    <3>2. \A id \in DOMAIN token : token[id] \in TokenState
      BY <1>3
    <3>3. \A id \in DOMAIN token : [token[id] EXCEPT !.state = "revoked"] \in TokenState
      BY <3>2 DEF TokenState, TokenStates
    <3> QED BY <1>1, <1>3, <3>1, <3>3
  <2>2. Answer(i, "no") /\ UNCHANGED <<code, cookie, tab, call>>
    BY <1>5 DEF Reuse
  <2>3. excused' \subseteq Nat /\ alarms' \subseteq Nat
    BY <1>1, <1>2, <1>3, <1>5 DEF Reuse
  <2> QED BY <1>1, <1>2, <1>s, <2>1, <2>2, <2>3, AnswerIs, AnswerKeepsBasic
<1>6. CASE Expired(i) \/ RevokeOld(i)
  <2>1. req[i].tok # 0 /\ SetState(req[i].tok, "revoked")
    BY <1>1, <1>6 DEF Expired, RevokeOld, Known
  <2>2. token' \in Seq(TokenState) /\ Len(token') = Len(token)
    BY <1>1, <1>t, <1>s, <2>1, StateSet
  <2>3. PICK a \in {"no", "issue"} : Answer(i, a)
    BY <1>6 DEF Expired, RevokeOld
  <2>4. UNCHANGED <<code, cookie, tab, call, alarms>> /\ excused' \subseteq Nat
    BY <1>1, <1>2, <1>6 DEF Expired, RevokeOld, ghosts
  <2> QED BY <1>1, <1>2, <1>s, <2>1, <2>2, <2>3, <2>4, AnswerIs, AnswerKeepsBasic
<1>7. CASE IssueNew(i)
  <2>1. req[i].tok # 0
    BY <1>1, <1>7 DEF IssueNew, Known
  <2>2. token[req[i].tok].first \in Nat
    <3>1. token[req[i].tok] \in TokenState
      BY <1>t, <1>3, <2>1
    <3> QED BY <3>1 DEF TokenState
  <2>3. token' \in Seq(TokenState) /\ Len(token') = Len(token) + 1
    BY <1>1, <1>7, <2>2, Issued DEF IssueNew
  <2>4. Answers(i, "ok", Len(token) + 1) /\ UNCHANGED <<code, cookie, tab, call, excused, alarms>>
    BY <1>7 DEF IssueNew, Answers, ghosts
  <2> QED BY <1>1, <1>2, <1>s, <2>1, <2>3, <2>4, AnswerKeepsBasic
<1>8. CASE Lost(i)
  <2>1. Answers(i, "no", 0) /\ UNCHANGED <<server, cookie, tab, call, alarms>> /\ excused' \subseteq Nat
    BY <1>1, <1>2, <1>8 DEF Lost, Answers
  <2> QED BY <1>1, <1>2, <1>3, <1>s, <2>1, AnswerKeepsBasic DEF server
<1> QED BY <1>4, <1>5, <1>6, <1>7, <1>8 DEF Api

\* A step that turns one page, and may write its cookie.
Sits(page) ==
  /\ page \in PageState /\ page.got <= Len(token)
  /\ page.form # "none" => page.at = "open"
  /\ page.at = "closed" => page.flight = 0
  /\ page.at \in {"redeem", "issue"} => page.code \in Codes
\* A tab moves by itself, with no request or token of the API.
LEMMA OneTurn ==
  ASSUME Basic, World, UNCHANGED <<token, req, alarms>>, NEW t \in Tabs, NEW page,
         tab' = [tab EXCEPT ![t] = page], Sits(page),
         code' \in [Codes -> CodeState], excused' \subseteq Nat,
         cookie' \in [Browsers -> Nat], \A b \in Browsers : cookie'[b] <= Len(token),
         call' \in [Calls -> CallState], \A c \in Calls : call'[c] = "bad" => call[c] = "bad",
         \A c \in Calls : call'[c] = "bad" /\ CallTab[c] = t => page.at = "open"
  PROVE  Basic'
<1>1. Typed /\ Known /\ Pages
  BY DEF Basic
<1>2. tab' \in [Tabs -> PageState] /\ \A u \in Tabs : tab'[u] = IF u = t THEN page ELSE tab[u]
  BY <1>1, Turned DEF Sits
<1>3. Pages' /\ \A u \in Tabs : tab'[u].got <= Len(token)
  BY <1>1, <1>2 DEF Pages, Known, World, Sits
<1> QED BY <1>2, <1>3, PageTurns

\* A page that closes forgets its calls.
LEMMA Forgotten ==
  ASSUME Typed, World, NEW t \in Tabs, Forget(t)
  PROVE  /\ call' \in [Calls -> CallState] /\ (\A c \in Calls : call'[c] = "bad" => call[c] = "bad")
         /\ \A c \in Calls : CallTab[c] = t => call'[c] # "bad"
  BY DEF Forget, Typed, CallState

\* What a page has in flight are tokens.
LEMMA InFlightKnown == ASSUME Typed, NEW t \in Tabs PROVE InFlight(t) \subseteq Nat
<1>1. \A i \in DOMAIN req : req[i] \in ReqState
  BY DEF Typed
<1> QED BY <1>1 DEF InFlight, ReqState

\* A page is opened, left, signed in or out.
LEMMA PageBasic ==
  ASSUME Basic, World, NEW t \in Tabs,
         \/ AccessExpires(t) \/ Leave(t) \/ Login(t) \/ LoggedIn(t) \/ Logout(t) \/ Revoke(t) \/ LoggedOut(t)
         \/ \E c \in Codes \cup {NoCode} : Load(t, c)
  PROVE  Basic'
<1>1. Typed /\ Known /\ Pages /\ Len(token) \in Nat /\ tab[t] \in PageState
  BY DEF Basic, Typed
<1>0. /\ code \in [Codes -> CodeState] /\ call \in [Calls -> CallState] /\ excused \subseteq Nat
      /\ cookie \in [Browsers -> Nat] /\ \A b \in Browsers : cookie[b] <= Len(token)
  BY <1>1 DEF Typed, Known
<1>c. /\ CookieOf(t) \in Nat /\ CookieOf(t) <= Len(token) /\ tab[t].got \in Nat /\ tab[t].got <= Len(token)
      /\ tab[t].flight \in Nat
  BY <1>1, <1>0 DEF CookieOf, World, PageState, Known
<1>z. Closed \in PageState /\ Closed.at = "closed" /\ Closed.form = "none" /\ Closed.got = 0 /\ Closed.flight = 0
  BY DEF Closed, PageState, Forms
<1>2. CASE AccessExpires(t)
  <2> DEFINE page == [tab[t] EXCEPT !.access = "stale"]
  <2>1. page \in PageState /\ page.at = tab[t].at /\ page.form = tab[t].form /\ page.got = tab[t].got
        /\ page.flight = tab[t].flight /\ page.code = tab[t].code
    BY <1>1 DEF PageState
  <2>2. tab' = [tab EXCEPT ![t] = page] /\ UNCHANGED <<token, code, cookie, req, call, excused, alarms>>
    BY <1>2 DEF AccessExpires, server, ghosts
  <2> HIDE DEF page
  <2>3. Sits(page)
    BY <1>1, <1>c, <2>1 DEF Pages, Sits
  <2>4. \A c \in Calls : call'[c] = "bad" /\ CallTab[c] = t => page.at = "open"
    BY <1>1, <2>1, <2>2 DEF Pages
  <2> QED BY <1>0, <2>2, <2>3, <2>4, OneTurn
<1>3. CASE Leave(t) \/ LoggedOut(t)
  <2>1. /\ tab' = [tab EXCEPT ![t] = Closed] /\ Forget(t) /\ excused' = excused \cup InFlight(t)
        /\ UNCHANGED <<token, code, req, alarms>>
        /\ cookie' = cookie \/ cookie' = [cookie EXCEPT ![TabBrowser[t]] = 0]
    BY <1>3 DEF Leave, LoggedOut, SetCookie, server
  <2>2. cookie' \in [Browsers -> Nat] /\ \A b \in Browsers : cookie'[b] <= Len(token)
    <3>1. TabBrowser[t] \in Browsers
      BY DEF World
    <3> QED BY <1>1, <1>0, <2>1, <3>1
  <2>3. excused' \subseteq Nat
    BY <1>1, <1>0, <2>1, InFlightKnown
  <2>4. /\ call' \in [Calls -> CallState] /\ (\A c \in Calls : call'[c] = "bad" => call[c] = "bad")
        /\ \A c \in Calls : CallTab[c] = t => call'[c] # "bad"
    BY <1>1, <2>1, Forgotten
  <2>5. Sits(Closed)
    BY <1>1, <1>z DEF Sits
  <2> QED BY <1>0, <2>1, <2>2, <2>3, <2>4, <2>5, OneTurn
<1>4. CASE Login(t)
  <2> DEFINE n == Len(token) + 1
             page == [tab[t] EXCEPT !.form = "login", !.got = n]
  <2>1. tab' = [tab EXCEPT ![t] = page] /\ tab[t].at = "open" /\ Issue(n)
        /\ UNCHANGED <<code, cookie, req, call, ghosts>>
    BY <1>1, <1>4 DEF Login, Typed
  <2>2. n \in Nat
    BY <1>1
  <2>3. page \in PageState /\ page.at = tab[t].at /\ page.got = n
    <3> HIDE DEF n
    <3> QED BY <1>1, <2>2 DEF PageState, Forms
  <2> HIDE DEF page
  <2> QED BY <1>0, <2>1, <2>3, HandingKeepsBasic
<1>5. CASE LoggedIn(t)
  <2> DEFINE off == [tab[t] EXCEPT !.form = "none", !.got = 0]
             on == [tab[t] EXCEPT !.form = "none", !.got = 0, !.access = "fresh"]
  <2>0. UNCHANGED <<token, code, req, call, excused, alarms>> /\ tab[t].at = "open"
    BY <1>1, <1>5 DEF LoggedIn, server, ghosts, Pages
  <2>1. Sits(off) /\ Sits(on) /\ off.at = "open" /\ on.at = "open"
    <3>1. off \in PageState /\ off.at = tab[t].at /\ off.got = 0 /\ off.form = "none"
      BY <1>1 DEF PageState, Forms
    <3>2. on = [off EXCEPT !.access = "fresh"]
      BY <1>1 DEF PageState
    <3> HIDE DEF off, on
    <3>3. on \in PageState /\ on.at = off.at /\ on.got = off.got /\ on.form = off.form
      BY <3>1, <3>2 DEF PageState
    <3> QED BY <1>1, <2>0, <3>1, <3>3 DEF Sits
  <2>2. PICK page \in {off, on} : tab' = [tab EXCEPT ![t] = page]
    BY <1>1, <1>5 DEF LoggedIn, Typed
  <2>3. cookie' = cookie \/ cookie' = [cookie EXCEPT ![TabBrowser[t]] = tab[t].got]
    BY <1>5 DEF LoggedIn, SetCookie
  <2>4. cookie' \in [Browsers -> Nat] /\ \A b \in Browsers : cookie'[b] <= Len(token)
    BY <1>0, <1>c, <2>3 DEF World
  <2> HIDE DEF off, on
  <2> QED BY <1>0, <2>0, <2>1, <2>2, <2>4, OneTurn
<1>6. CASE Logout(t)
  <2> DEFINE n == CookieOf(t)
             page == [tab[t] EXCEPT !.form = "logout", !.got = n]
  <2>1. tab' = [tab EXCEPT ![t] = page] /\ tab[t].at = "open"
        /\ UNCHANGED <<token, code, cookie, req, call, excused, alarms>>
    BY <1>1, <1>6 DEF Logout, Typed, server, ghosts
  <2>2. page \in PageState /\ page.at = tab[t].at /\ page.got = n
    <3>1. n \in Nat
      BY <1>c
    <3> HIDE DEF n
    <3> QED BY <1>1, <3>1 DEF PageState, Forms
  <2> HIDE DEF page
  <2>3. Sits(page)
    BY <1>c, <2>1, <2>2 DEF Sits
  <2> QED BY <1>0, <2>1, <2>2, <2>3, OneTurn
<1>7. CASE Revoke(t)
  <2>1. /\ tab' = [tab EXCEPT ![t].form = "left"] /\ tab[t].form = "logout"
        /\ IF tab[t].got # 0 THEN SetState(tab[t].got, "revoked") ELSE UNCHANGED token
        /\ excused' = excused \cup ({tab[t].got} \ {0})
        /\ UNCHANGED <<code, cookie, req, call, alarms>>
    BY <1>7 DEF Revoke
  <2>2. token' \in Seq(TokenState) /\ Len(token') = Len(token)
    <3>1. CASE tab[t].got = 0
      BY <1>1, <2>1, <3>1 DEF Typed
    <3>2. CASE tab[t].got # 0
      <4>1. tab[t].got \in DOMAIN token /\ "revoked" \in TokenStates
        BY <1>1, <1>c, <3>2 DEF Typed, TokenStates
      <4> QED BY <1>1, <2>1, <3>2, <4>1, StateSet
    <3> QED BY <3>1, <3>2
  <2> DEFINE page == [tab[t] EXCEPT !.form = "left"]
  <2>3. page \in PageState /\ page.at = tab[t].at /\ page.got = tab[t].got /\ page.flight = tab[t].flight
        /\ tab' = [tab EXCEPT ![t] = page]
    BY <1>1, <2>1 DEF PageState, Forms
  <2> HIDE DEF page
  <2>4. tab' \in [Tabs -> PageState] /\ \A u \in Tabs : tab'[u] = IF u = t THEN page ELSE tab[u]
    BY <1>1, <2>3, Turned
  <2>5. Pages'
    BY <1>1, <2>1, <2>3, <2>4 DEF Pages, World
  <2>6. excused' \subseteq Nat
    BY <1>0, <1>c, <2>1
  <2>7. Typed' /\ Known'
    BY <1>1, <1>c, <2>1, <2>2, <2>3, <2>4, <2>6 DEF Typed, Known
  <2> QED BY <2>5, <2>7 DEF Basic
<1>8. ASSUME NEW c \in Codes \cup {NoCode}, Load(t, c) PROVE Basic'
  <2>0. tab[t].at = "closed"
    BY <1>8 DEF Load
  <2>1. CASE c # NoCode
    <3> DEFINE page == [Closed EXCEPT !.at = "redeem", !.code = c]
    <3>1. page \in PageState /\ page.at = "redeem" /\ page.code = c /\ page.form = "none" /\ page.got = 0 /\ page.flight = 0
      BY DEF Closed, PageState, Forms, Booting
    <3>2. /\ tab' = [tab EXCEPT ![t] = page] /\ c \in Codes
          /\ UNCHANGED <<token, code, cookie, req, call, excused, alarms>>
      BY <1>8, <2>1 DEF Load, server, ghosts
    <3>3. \A x \in Calls : call'[x] = "bad" => CallTab[x] # t
      BY <1>1, <2>0, <3>2 DEF Pages
    <3> HIDE DEF page
    <3>4. Sits(page)
      BY <1>1, <3>1, <3>2 DEF Sits
    <3> QED BY <1>0, <3>2, <3>3, <3>4, OneTurn
  <2>2. CASE c = NoCode
    <3> DEFINE page == [Closed EXCEPT !.at = "boot"]
    <3>1. page \in PageState /\ page.at = "boot" /\ page.form = "none" /\ page.got = 0 /\ page.flight = 0
      BY DEF Closed, PageState, Forms, Booting
    <3>2. RefreshOnce(t, page) /\ UNCHANGED <<token, code, cookie, call, ghosts>>
      BY <1>8, <2>2 DEF Load, server
    <3> HIDE DEF page
    <3> QED BY <1>1, <1>0, <2>0, <3>1, <3>2, AskKeepsBasic
  <2> QED BY <2>1, <2>2
<1> QED BY <1>2, <1>3, <1>4, <1>5, <1>6, <1>7, <1>8

\* The answer to a refresh arrives.
LEMMA SettleBasic ==
  ASSUME Basic, World, NEW i \in DOMAIN req, Settle(i)
  PROVE  Basic'
<1> DEFINE t == req[i].tab
<1>1. Typed /\ Known /\ Pages /\ Len(token) \in Nat /\ "done" \in ReqStates
  BY DEF Basic, Typed, ReqStates
<1>2. t \in Tabs /\ req[i].new \in Nat /\ req[i].new <= Len(token) /\ tab[t] \in PageState
  <2>1. req[i] \in ReqState
    BY <1>1 DEF Typed
  <2>2. t \in Tabs /\ req[i].new \in Nat
    BY <2>1 DEF ReqState
  <2> HIDE DEF t
  <2> QED BY <1>1, <2>2 DEF Known, Typed
<1>3. Answer(i, "done") /\ UNCHANGED <<token, code, excused, alarms>>
  BY DEF Settle, Refreshed, NotRefreshed, Orphaned, server, ghosts
<1>4. /\ req' \in Seq(ReqState) /\ DOMAIN req' = DOMAIN req
      /\ \A j \in DOMAIN req : /\ req'[j].tok = req[j].tok /\ req'[j].new = req[j].new
                               /\ req'[j].at = IF j = i THEN "done" ELSE req[j].at
  BY <1>1, <1>2, <1>3, AnswerIs, Answered
<1>5. cookie' = cookie \/ cookie' = [cookie EXCEPT ![TabBrowser[t]] = req[i].new]
  BY DEF Settle, Refreshed, NotRefreshed, Orphaned, SetCookie
<1>6. cookie' \in [Browsers -> Nat] /\ \A b \in Browsers : cookie'[b] <= Len(token)
  <2>1. TabBrowser[t] \in Browsers
    BY <1>2 DEF World
  <2>2. cookie \in [Browsers -> Nat] /\ \A b \in Browsers : cookie[b] <= Len(token)
    BY <1>1 DEF Typed, Known
  <2> QED BY <1>2, <1>5, <2>1, <2>2
<1>7. /\ call' \in [Calls -> CallState]
      /\ \A c \in Calls : call'[c] = "bad" => call[c] = "bad"
  BY <1>1 DEF Settle, Refreshed, NotRefreshed, Orphaned, Joined, Typed, CallState
<1>8. \/ UNCHANGED tab
      \/ \E page \in PageState : /\ tab' = [tab EXCEPT ![t] = page] /\ page.at = Boots(tab[t])
                                 /\ page.form = tab[t].form /\ page.got = tab[t].got /\ page.flight = 0
                                 /\ page.code = tab[t].code
  <2> DEFINE s == tab[t]
  <2>0. s \in PageState /\ Boots(s) \in {"closed", "open"} \cup Booting
    BY <1>2 DEF PageState, Boots
  <2>1. CASE Refreshed(i)
    <3> DEFINE page == [s EXCEPT !.flight = 0, !.access = "fresh", !.at = Boots(s)]
    <3>1. tab' = [tab EXCEPT ![t] = page]
      BY <2>1 DEF Refreshed
    <3>2. /\ page \in PageState /\ page.at = Boots(s) /\ page.form = s.form /\ page.got = s.got /\ page.flight = 0
          /\ page.code = s.code
      <4> HIDE DEF s
      <4> QED BY <2>0 DEF PageState
    <3> HIDE DEF page
    <3> QED BY <3>1, <3>2
  <2>2. CASE NotRefreshed(i)
    <3> DEFINE cleared == \E c \in Calls : CallTab[c] = t /\ call[c] = "joined"
               a == IF cleared THEN "none" ELSE s.access
               page == [s EXCEPT !.flight = 0, !.at = Boots(s), !.access = a]
    <3>1. tab' = [tab EXCEPT ![t] = page]
      BY <2>2 DEF NotRefreshed
    <3>a. a \in {"none", "fresh", "stale"}
      BY <2>0 DEF PageState
    <3>2. /\ page \in PageState /\ page.at = Boots(s) /\ page.form = s.form /\ page.got = s.got /\ page.flight = 0
          /\ page.code = s.code
      <4> HIDE DEF s, a
      <4> QED BY <2>0, <3>a DEF PageState
    <3> HIDE DEF page
    <3> QED BY <3>1, <3>2
  <2>3. CASE Orphaned(i)
    BY <2>3 DEF Orphaned
  <2> QED BY <2>1, <2>2, <2>3 DEF Settle
<1> HIDE DEF t
<1>9. /\ tab' \in [Tabs -> PageState] /\ \A u \in Tabs : tab'[u].got <= Len(token)
      /\ Pages'
  <2>1. CASE UNCHANGED tab
    BY <1>1, <1>7, <2>1 DEF Pages, Typed, Known
  <2>2. CASE ~UNCHANGED tab
    <3>1. PICK page \in PageState : /\ tab' = [tab EXCEPT ![t] = page] /\ page.at = Boots(tab[t])
                                    /\ page.form = tab[t].form /\ page.got = tab[t].got /\ page.flight = 0
                                    /\ page.code = tab[t].code
      BY <1>8, <2>2
    <3>2. tab' \in [Tabs -> PageState] /\ \A u \in Tabs : tab'[u] = IF u = t THEN page ELSE tab[u]
      BY <1>1, <1>2, <3>1, Turned
    <3>3. (page.at = tab[t].at) \/ (tab[t].at = "boot" /\ page.at = "open")
      BY <3>1, Zenon DEF Boots
    <3> QED BY <1>1, <1>2, <1>7, <3>1, <3>2, <3>3 DEF Pages, Known, World
  <2> QED BY <2>1, <2>2
<1>10. Typed'
  BY <1>1, <1>3, <1>4, <1>6, <1>7, <1>9 DEF Typed
<1>11. Known'
  BY <1>1, <1>3, <1>4, <1>6, <1>9 DEF Known
<1> QED BY <1>9, <1>10, <1>11 DEF Basic

\* A call is sent and answered.
LEMMA CallBasic ==
  ASSUME Basic, World, NEW c \in Calls, Send(c) \/ Reply(c) \/ Unauthorized(c)
  PROVE  Basic'
<1>1. Typed /\ Known /\ Pages /\ Len(token) \in Nat /\ CallTab[c] \in Tabs
  BY DEF Basic, Typed, World
<1>2. call \in [Calls -> CallState] /\ call' \in [Calls -> CallState]
  BY <1>1 DEF Send, Reply, Unauthorized, Typed, CallState
<1>3. CASE Send(c) \/ Reply(c)
  <2>1. UNCHANGED <<token, code, cookie, req, tab, excused, alarms>>
    BY <1>3 DEF Send, Reply, server, ghosts
  <2>2. Pages'
    BY <1>1, <1>2, <1>3, <2>1 DEF Send, Reply, Pages
  <2>3. Typed' /\ Known'
    BY <1>1, <1>2, <2>1 DEF Typed, Known
  <2> QED BY <2>2, <2>3 DEF Basic
<1>4. CASE Unauthorized(c)
  <2> DEFINE page == tab[CallTab[c]]
  <2>1. page \in PageState /\ page.at = "open" /\ page.got <= Len(token)
    BY <1>1, <1>4 DEF Unauthorized, Pages, Typed, Known
  <2>2. RefreshOnce(CallTab[c], page) /\ UNCHANGED <<token, code, cookie, ghosts>>
    BY <1>4 DEF Unauthorized, server
  <2>3. \A x \in Calls : call'[x] = "bad" => call[x] = "bad"
    BY <1>2, <1>4 DEF Unauthorized
  <2> HIDE DEF page
  <2> QED BY <1>1, <1>2, <2>1, <2>2, <2>3, AskKeepsBasic
<1> QED BY <1>3, <1>4

\* Every step keeps Basic.
LEMMA NextBasic == ASSUME Basic, World, [Next]_vars PROVE Basic'
<1>1. Typed /\ Known /\ Pages
  BY DEF Basic
<1>2. ASSUME NEW c \in Codes, Mint(c) \/ CodeExpires(c) PROVE Basic'
  <2>1. code' \in [Codes -> CodeState] /\ UNCHANGED <<token, cookie, req, tab, call, excused, alarms>>
    BY <1>1, <1>2 DEF Mint, CodeExpires, Typed, CodeState, ghosts
  <2> QED BY <1>1, <2>1 DEF Basic, Typed, Known, Pages
<1>3. ASSUME NEW id \in DOMAIN token, TokenExpires(id) PROVE Basic'
  <2>1. token' \in Seq(TokenState) /\ Len(token') = Len(token)
    BY <1>1, <1>3, StateSet DEF TokenExpires, TokenStates
  <2>2. UNCHANGED <<code, cookie, req, tab, call, excused, alarms>>
    BY <1>3 DEF TokenExpires, ghosts
  <2> QED BY <1>1, <2>1, <2>2 DEF Basic, Typed, Known, Pages
<1>4. CASE UNCHANGED vars
  BY <1>1, <1>4 DEF vars, Basic, Typed, Known, Pages
<1> QED BY <1>2, <1>3, <1>4, HandoffBasic, ApiBasic, PageBasic, SettleBasic, CallBasic DEF Next

-----------------------------------------------------------------------------
(* Opened is inductive. *)
LEMMA InitOpened == Init => Opened
  BY DEF Init, Opened, Closed

\* Only who redeems a code comes to issue a session for it.
NoneNew == \A u \in Tabs : tab'[u].at = "issue" => tab[u].at = "issue" /\ tab'[u].code = tab[u].code
\* Asking for a refresh makes no page issue one.
LEMMA AskedNoneNew ==
  ASSUME Basic, World, NEW t \in Tabs, NEW page \in PageState, RefreshOnce(t, page),
         page.at = "issue" => tab[t].at = "issue" /\ page.code = tab[t].code
  PROVE  NoneNew
<1>1. Typed
  BY DEF Basic
<1> DEFINE asked == [page EXCEPT !.flight = Len(req) + 1]
<1>a. asked.at = page.at /\ asked.code = page.code
  BY DEF PageState
<1>2. PICK turned \in PageState : tab' = [tab EXCEPT ![t] = turned] /\ turned.at = page.at /\ turned.code = page.code
  BY <1>1, <1>a, Asked
<1>3. \A u \in Tabs : tab'[u] = IF u = t THEN turned ELSE tab[u]
  BY <1>1, <1>2, Turned
<1> QED BY <1>2, <1>3 DEF NoneNew

\* Nor does any step that is not of a handoff; none changes a code.
LEMMA OthersNoneNew ==
  ASSUME Basic, World,
         \/ \E t \in Tabs : \/ AccessExpires(t) \/ Leave(t) \/ Redeemed(t) \/ NotRedeemed(t)
                            \/ Login(t) \/ LoggedIn(t) \/ Logout(t) \/ Revoke(t) \/ LoggedOut(t)
                            \/ \E c \in Codes \cup {NoCode} : Load(t, c)
         \/ \E i \in DOMAIN req : Api(i) \/ Lost(i) \/ Settle(i)
         \/ \E c \in Calls : Send(c) \/ Reply(c) \/ Unauthorized(c)
  PROVE  NoneNew /\ UNCHANGED code
<1>1. Typed /\ tab \in [Tabs -> PageState]
  BY DEF Basic, Typed
<1>2. UNCHANGED code
  BY DEF AccessExpires, Leave, Redeemed, NotRedeemed, Login, LoggedIn, Logout, Revoke, LoggedOut, Load,
         Api, Missing, Reuse, Expired, Check, RevokeOld, IssueNew, Lost, Settle, Refreshed, NotRefreshed, Orphaned,
         Send, Reply, Unauthorized, server
<1>3. ASSUME NEW t \in Tabs,
             \/ AccessExpires(t) \/ Leave(t) \/ Redeemed(t)
             \/ Login(t) \/ LoggedIn(t) \/ Logout(t) \/ Revoke(t) \/ LoggedOut(t)
      PROVE  NoneNew
  <2>1. CASE AccessExpires(t)
    BY <1>1, <2>1 DEF AccessExpires, NoneNew, PageState
  <2>2. CASE Leave(t) \/ LoggedOut(t)
    BY <1>1, <2>2 DEF Leave, LoggedOut, NoneNew, PageState, Closed
  <2>3. CASE Redeemed(t)
    BY <1>1, <2>3 DEF Redeemed, NoneNew, PageState
  <2>4. CASE Login(t)
    BY <1>1, <2>4 DEF Login, NoneNew, PageState
  <2>5. CASE LoggedIn(t)
    <3>1. CASE tab' = [tab EXCEPT ![t].form = "none", ![t].got = 0, ![t].access = "fresh"]
      BY <1>1, <3>1 DEF NoneNew, PageState
    <3>2. CASE tab' = [tab EXCEPT ![t].form = "none", ![t].got = 0]
      BY <1>1, <3>2 DEF NoneNew, PageState
    <3> QED BY <2>5, <3>1, <3>2 DEF LoggedIn
  <2>6. CASE Logout(t)
    BY <1>1, <2>6 DEF Logout, NoneNew, PageState
  <2>7. CASE Revoke(t)
    BY <1>1, <2>7 DEF Revoke, NoneNew, PageState
  <2> QED BY <1>3, <2>1, <2>2, <2>3, <2>4, <2>5, <2>6, <2>7
<1>4. ASSUME NEW t \in Tabs, NotRedeemed(t) PROVE NoneNew
  <2> DEFINE page == [tab[t] EXCEPT !.at = "boot", !.got = 0]
  <2>1. page \in PageState /\ page.at = "boot"
    BY <1>1 DEF PageState, Booting
  <2>2. RefreshOnce(t, page)
    BY <1>4 DEF NotRedeemed
  <2> HIDE DEF page
  <2> QED BY <2>1, <2>2, AskedNoneNew
<1>5. ASSUME NEW t \in Tabs, NEW c \in Codes \cup {NoCode}, Load(t, c) PROVE NoneNew
  <2>1. CASE c # NoCode
    BY <1>1, <1>5, <2>1 DEF Load, NoneNew, Closed, PageState
  <2>2. CASE c = NoCode
    <3> DEFINE page == [Closed EXCEPT !.at = "boot"]
    <3>1. page \in PageState /\ page.at = "boot"
      BY DEF Closed, PageState, Forms, Booting
    <3>2. RefreshOnce(t, page)
      BY <1>5, <2>2 DEF Load
    <3> HIDE DEF page
    <3> QED BY <3>1, <3>2, AskedNoneNew
  <2> QED BY <2>1, <2>2
<1>6. ASSUME NEW i \in DOMAIN req, Api(i) \/ Lost(i) PROVE NoneNew
  BY <1>6 DEF Api, Missing, Reuse, Expired, Check, RevokeOld, IssueNew, Lost, NoneNew
<1>7. ASSUME NEW i \in DOMAIN req, Settle(i) PROVE NoneNew
  <2>1. CASE Refreshed(i)
    BY <1>1, <2>1 DEF Refreshed, NoneNew, PageState, Boots
  <2>2. CASE NotRefreshed(i)
    BY <1>1, <2>2 DEF NotRefreshed, NoneNew, PageState, Boots
  <2>3. CASE Orphaned(i)
    BY <2>3 DEF Orphaned, NoneNew
  <2> QED BY <1>7, <2>1, <2>2, <2>3 DEF Settle
<1>8. ASSUME NEW c \in Calls, Send(c) \/ Reply(c) PROVE NoneNew
  BY <1>8 DEF Send, Reply, NoneNew
<1>9. ASSUME NEW c \in Calls, Unauthorized(c) PROVE NoneNew
  <2>1. CallTab[c] \in Tabs /\ tab[CallTab[c]] \in PageState
    BY <1>1 DEF World
  <2> QED BY <1>9, <2>1, AskedNoneNew DEF Unauthorized
<1> QED BY <1>2, <1>3, <1>4, <1>5, <1>6, <1>7, <1>8, <1>9

\* Every step keeps Opened.
LEMMA NextOpened == ASSUME Basic, World, Opened, [Next]_vars PROVE Opened'
<1>1. Typed /\ Pages /\ tab \in [Tabs -> PageState] /\ code \in [Codes -> CodeState] /\ Len(token) \in Nat
  BY DEF Basic, Typed
<1>2. ASSUME NoneNew, UNCHANGED code PROVE Opened'
  BY <1>2 DEF Opened, NoneNew
<1>3. ASSUME NEW c \in Codes, Mint(c) \/ CodeExpires(c) PROVE Opened'
  BY <1>1, <1>3 DEF Mint, CodeExpires, Opened, CodeState, Pages
<1>4. ASSUME NEW t \in Tabs, Redeem(t) PROVE Opened'
  <2>1. tab[t].code \in Codes
    BY <1>1, <1>4 DEF Redeem, Pages
  <2>2. /\ code[tab[t].code].state = "live"
        /\ \A c \in Codes : /\ code'[c].opened = code[c].opened
                            /\ code'[c].state = IF c = tab[t].code THEN "used" ELSE code[c].state
    BY <1>1, <1>4, <2>1 DEF Redeem, CodeState
  <2>3. \A u \in Tabs : /\ tab'[u].code = tab[u].code
                        /\ tab'[u].at = IF u = t THEN "issue" ELSE tab[u].at
    BY <1>1, <1>4 DEF Redeem, PageState
  <2>4. code[tab[t].code].opened = {} /\ \A u \in Tabs : tab[u].at = "issue" => tab[u].code # tab[t].code
    BY <2>1, <2>2 DEF Opened
  <2>5. \A u \in Tabs : tab[u].at = "issue" => tab[u].code \in Codes
    BY <1>1 DEF Pages
  <2> QED BY <2>1, <2>2, <2>3, <2>4, <2>5 DEF Opened
<1>5. ASSUME NEW t \in Tabs, IssueSession(t) PROVE Opened'
  <2>1. tab[t].code \in Codes /\ tab[t].at = "issue"
    BY <1>1, <1>5 DEF IssueSession, Pages
  <2>2. code[tab[t].code].opened = {}
    BY <2>1 DEF Opened
  <2>3. /\ \A c \in Codes : c # tab[t].code => code'[c] = code[c]
        /\ code'[tab[t].code] = [state |-> "used", opened |-> {Len(token) + 1}]
    BY <1>1, <1>5, <2>1, <2>2 DEF IssueSession
  <2>4. tab'[t].at = "redeemed" /\ \A u \in Tabs : u # t => tab'[u] = tab[u]
    BY <1>1, <1>5 DEF IssueSession, PageState
  <2> QED BY <1>1, <2>1, <2>3, <2>4 DEF Opened, Pages
<1>6. CASE UNCHANGED vars
  BY <1>6 DEF vars, Opened
<1>7. ASSUME NEW id \in DOMAIN token, TokenExpires(id) PROVE Opened'
  BY <1>7 DEF TokenExpires, Opened
<1> QED BY <1>2, <1>3, <1>4, <1>5, <1>6, <1>7, OthersNoneNew DEF Next, Handoff

\* A code that was opened once opened one session.
LEMMA OpenedOnce == Opened => CodeOpensOneSession
<1> SUFFICES ASSUME Opened, NEW c \in Codes PROVE Cardinality(code[c].opened) <= 1
  BY DEF CodeOpensOneSession
<1>1. CASE code[c].opened = {}
  BY <1>1, FS_EmptySet
<1>2. CASE code[c].opened # {}
  <2>1. PICK k \in Nat : code[c].opened = {k}
    BY <1>2 DEF Opened
  <2>2. Cardinality({k}) = 1
    BY FS_Singleton
  <2> QED BY <2>1, <2>2
<1> QED BY <1>1, <1>2

-----------------------------------------------------------------------------
(* Peaceful is inductive. *)
LEMMA InitPeaceful == ASSUME World PROVE Init => Peaceful
  BY DEF World, Init, Peaceful, OnTheWay, Unused, Bears, Spent, Revoked, NoFalseAlarm, Closed

\* No request is sent nor token issued.
SameRequests ==
  /\ DOMAIN req' = DOMAIN req
  /\ \A i \in DOMAIN req : /\ req'[i].tok = req[i].tok /\ req'[i].tab = req[i].tab
                           /\ req'[i].at = "ok" => req[i].at = "ok" /\ req'[i].new = req[i].new
\* No page is handed a token.
SamePages == \A t \in Tabs : Bears(t)' => Bears(t) /\ tab'[t].got = tab[t].got
\* Then a token on its way stays on it, if no cookie takes one.
LEMMA WayStays ==
  ASSUME OnTheWay, SameRequests, SamePages, \A b \in Browsers : cookie'[b] \in {cookie[b], 0}
  PROVE  OnTheWay'
<1>1. \A k : Unused(k) => Unused(k)'
  BY DEF Unused, SameRequests
<1> QED BY <1>1 DEF OnTheWay, SameRequests, SamePages

\* A cookie takes a token that was on its way: the others stay on theirs.
LEMMA WayTaken ==
  ASSUME OnTheWay, SameRequests, SamePages, cookie \in [Browsers -> Nat],
         NEW b \in Browsers, NEW k \in Nat, cookie' = [cookie EXCEPT ![b] = k], Unused(k),
         \A i \in DOMAIN req : req'[i].at = "ok" => req[i].new # k,
         \A t \in Tabs : Bears(t)' => tab[t].got # k
  PROVE  OnTheWay'
<1>1. \A x : Unused(x) /\ x # k => Unused(x)'
  BY DEF Unused, SameRequests
<1>2. \A c \in Browsers : cookie'[c] = IF c = b THEN k ELSE cookie[c]
  OBVIOUS
<1>3. \A c \in Browsers : cookie[c] # k
  BY DEF Unused
<1> QED BY <1>1, <1>2, <1>3 DEF OnTheWay, SameRequests, SamePages

\* What was spent stays so, if the requests that have no excuse go on as they should.
LEMMA SpentStays ==
  ASSUME Spent, SameRequests, excused \subseteq excused',
         \A i \in DOMAIN req : req[i].tok \notin excused' \cup {0} /\ Alone(i) =>
           /\ req'[i].at # "no"
           /\ req'[i].at = "done" => req[i].at = "done" \/ cookie'[TabBrowser[req[i].tab]] # req[i].tok
           /\ req'[i].at # "done" => req[i].at # "done" /\ tab'[req[i].tab].flight = i
           /\ \A b \in Browsers : cookie'[b] = req[i].tok => cookie[b] = req[i].tok
  PROVE  Spent'
<1> SUFFICES ASSUME NEW i \in DOMAIN req, req[i].tok \notin excused' \cup {0}
             PROVE  Alone(i)'
  BY DEF Spent, SameRequests
<1>1. Alone(i)
  BY DEF Spent
<1>2. /\ DOMAIN req' = DOMAIN req
      /\ \A j \in DOMAIN req : req'[j].tok = req[j].tok /\ req'[j].tab = req[j].tab
  BY DEF SameRequests
<1> QED BY <1>1, <1>2 DEF Alone

\* What was revoked was revoked as it should, if that is so of what becomes revoked.
LEMMA RevokedStays ==
  ASSUME Revoked, excused \subseteq excused',
         \A i \in DOMAIN req : i \in DOMAIN req' /\ req'[i].tok = req[i].tok /\ (Past(i) => Past(i)'),
         \A k \in DOMAIN token' : token'[k].state = "revoked" =>
           \/ k \in DOMAIN token /\ token[k].state = "revoked"
           \/ k \in excused'
           \/ \E i \in DOMAIN req' : req'[i].tok = k /\ Past(i)'
  PROVE  Revoked'
  BY DEF Revoked

\* A step that sends nothing, issues nothing, revokes only with an excuse, and lets no
\* page forget a refresh without one.
LEMMA QuietStep ==
  ASSUME Peaceful, UNCHANGED <<req, alarms>>, excused \subseteq excused', SamePages,
         DOMAIN token' = DOMAIN token,
         \A k \in DOMAIN token : token'[k].state = "revoked" => token[k].state = "revoked" \/ k \in excused',
         \A b \in Browsers : cookie'[b] \in {cookie[b], 0},
         \A t \in Tabs : tab'[t].flight = tab[t].flight \/ InFlight(t) \subseteq excused',
         \A i \in DOMAIN req : req[i].tab \in Tabs
  PROVE  Peaceful'
<1>1. SameRequests
  BY DEF SameRequests
<1>2. OnTheWay'
  BY <1>1, WayStays DEF Peaceful
<1>3. Spent'
  <2>1. ASSUME NEW i \in DOMAIN req, req[i].tok \notin excused' \cup {0}, Alone(i), req[i].at # "done"
        PROVE  tab'[req[i].tab].flight = i
    <3>1. req[i].tok \in InFlight(req[i].tab)
      BY <2>1 DEF InFlight, Open
    <3> QED BY <2>1, <3>1 DEF Alone
  <2> QED BY <1>1, <2>1, SpentStays DEF Peaceful, Alone
<1>4. Revoked'
  BY RevokedStays DEF Peaceful, Past
<1> QED BY <1>2, <1>3, <1>4 DEF Peaceful, NoFalseAlarm

\* A page sends a refresh, or joins the one it waits for.
LEMMA AskIsPeaceful ==
  ASSUME Basic, World, OwnBrowser, Peaceful, NEW t \in Tabs, NEW page \in PageState, RefreshOnce(t, page),
         page.flight = tab[t].flight, page.at # "redeemed",
         page.form = "login" => tab[t].form = "login" /\ page.got = tab[t].got,
         UNCHANGED <<token, cookie, excused, alarms>>
  PROVE  Peaceful'
<1>1. Typed /\ Known
  BY DEF Basic
<1>2. Len(req) \in Nat /\ DOMAIN req = 1 .. Len(req) /\ \A i \in DOMAIN req : req[i].tab \in Tabs
  <2>1. \A i \in DOMAIN req : req[i] \in ReqState
    BY <1>1 DEF Typed
  <2> QED BY <1>1, <2>1 DEF Typed, ReqState
<1> DEFINE asked == [page EXCEPT !.flight = Len(req) + 1]
<1>3. asked.at = page.at /\ asked.form = page.form /\ asked.got = page.got /\ asked.flight = Len(req) + 1
  BY DEF PageState
<1>4. PICK turned \in PageState : /\ tab' = [tab EXCEPT ![t] = turned] /\ turned.at = page.at
                                  /\ turned.form = page.form /\ turned.got = page.got
                                  /\ page.flight # 0 => turned.flight = page.flight
                                  /\ page.flight = 0 => turned.flight = Len(req) + 1
  BY <1>1, <1>3, Asked
<1> HIDE DEF asked
<1>5. \A u \in Tabs : tab'[u] = IF u = t THEN turned ELSE tab[u]
  BY <1>1, <1>4, Turned
<1>6. SamePages
  BY <1>4, <1>5 DEF SamePages, Bears
<1>7. CASE page.flight # 0
  <2>1. UNCHANGED req
    BY <1>7 DEF RefreshOnce
  <2> QED BY <1>2, <1>4, <1>5, <1>6, <1>7, <2>1, QuietStep
<1>8. CASE page.flight = 0
  <2> DEFINE n == Len(req) + 1
             k == cookie[TabBrowser[t]]
  <2>1. /\ DOMAIN req' = DOMAIN req \cup {n} /\ n \notin DOMAIN req
        /\ \A j \in DOMAIN req : req'[j] = req[j]
        /\ req'[n].tab = t /\ req'[n].tok = k /\ req'[n].at = "sent"
    <3>1. /\ Len(req) \in Nat /\ DOMAIN req = 1 .. Len(req) /\ DOMAIN req' = 1 .. Len(req) + 1
          /\ \A j \in DOMAIN req : req'[j] = req[j]
          /\ LET r == req'[Len(req) + 1] IN r.tab = t /\ r.tok = CookieOf(t) /\ r.at = "sent"
      BY <1>1, <1>8, Asked
    <3> QED BY <3>1 DEF CookieOf
  <2>2. tab[t].flight = 0 /\ 0 \notin DOMAIN req /\ TabBrowser[t] \in Browsers
    BY <1>2, <1>8 DEF World
  <2>3. tab'[t].flight = n /\ \A u \in Tabs : u # t => tab'[u] = tab[u]
    BY <1>4, <1>5, <1>8
  <2> HIDE DEF n
  <2>4. OnTheWay'
    <3>1. \A x : Unused(x) => Unused(x)'
      BY <2>1, <2>2 DEF Unused
    <3> QED BY <1>6, <2>1, <3>1 DEF Peaceful, OnTheWay, SamePages
  <2>5. ASSUME k \notin excused \cup {0}, NEW i \in DOMAIN req
        PROVE  req[i].tok # k
    <3> SUFFICES ASSUME req[i].tok = k PROVE FALSE
      OBVIOUS
    <3>1. Alone(i)
      BY <2>5 DEF Peaceful, Spent
    <3>2. req[i].at # "done" /\ TabBrowser[t] = TabBrowser[req[i].tab] /\ tab[req[i].tab].flight = i
      BY <2>2, <3>1 DEF Alone
    <3>3. req[i].tab = t
      BY <1>2, <3>2 DEF OwnBrowser
    <3> QED BY <2>2, <3>2, <3>3
  <2>6. Spent'
    <3> SUFFICES ASSUME NEW i \in DOMAIN req', req'[i].tok \notin excused \cup {0}
                 PROVE  Alone(i)'
      BY DEF Spent
    <3>1. CASE i = n
      <4>1. \A b \in Browsers : cookie[b] = k => b = TabBrowser[t]
        BY <2>1, <2>2, <3>1 DEF Peaceful, OnTheWay
      <4>2. \A j \in DOMAIN req' : req'[j].tok = k => j = n
        BY <2>1, <2>5, <3>1
      <4> QED BY <2>1, <2>3, <3>1, <4>1, <4>2 DEF Alone
    <3>2. CASE i \in DOMAIN req
      <4>1. Alone(i) /\ req'[i] = req[i]
        BY <2>1, <3>2 DEF Peaceful, Spent
      <4>2. req[i].tok # k
        BY <2>5, <3>2, <4>1
      <4>3. req[i].at # "done" => tab'[req[i].tab].flight = i
        BY <1>2, <2>2, <2>3, <3>2, <4>1 DEF Alone
      <4> QED BY <2>1, <4>1, <4>2, <4>3 DEF Alone
    <3> QED BY <2>1, <3>1, <3>2
  <2>7. Revoked'
    BY <2>1, RevokedStays DEF Peaceful, Past
  <2> QED BY <2>4, <2>6, <2>7 DEF Peaceful, NoFalseAlarm
<1> QED BY <1>7, <1>8

\* A token is issued to a page.
LEMMA HandingIsPeaceful ==
  ASSUME Basic, World, Peaceful, NEW t \in Tabs, Issue(Len(token) + 1), UNCHANGED <<cookie, req, excused, alarms>>,
         tab'[t].got = Len(token) + 1, tab'[t].flight = tab[t].flight, \A u \in Tabs : u # t => tab'[u] = tab[u]
  PROVE  Peaceful'
<1> DEFINE n == Len(token) + 1
<1>1. Typed /\ Known
  BY DEF Basic
<1>2. /\ Len(token) \in Nat /\ DOMAIN token = 1 .. Len(token) /\ DOMAIN token' = 1 .. Len(token) + 1
      /\ token'[Len(token) + 1].state = "live" /\ \A k \in DOMAIN token : token'[k] = token[k]
  BY <1>1, Issued
<1>3. /\ \A b \in Browsers : cookie[b] \in Nat
      /\ \A u \in Tabs : tab[u].got \in Nat
      /\ \A i \in DOMAIN req : req[i].tok \in Nat /\ req[i].new \in Nat
  <2>1. \A i \in DOMAIN req : req[i] \in ReqState
    BY <1>1 DEF Typed
  <2> QED BY <1>1, <2>1 DEF Typed, PageState, ReqState
<1>4. /\ n # 0 /\ \A b \in Browsers : cookie[b] # n
      /\ \A u \in Tabs : tab[u].got # n
      /\ \A i \in DOMAIN req : req[i].tok # n /\ req[i].new # n
  BY <1>1, <1>2, <1>3 DEF Known
<1>5. tab'[t].got = n
  OBVIOUS
<1> HIDE DEF n
<1>6. OnTheWay'
  <2>1. /\ \A x : Unused(x) => Unused(x)'
        /\ \A x : x # 0 /\ (\A b \in Browsers : cookie[b] # x) /\ (\A i \in DOMAIN req : req[i].tok # x) => Unused(x)'
    BY DEF Unused
  <2>2. Unused(tab[t].got)'
    BY <1>4, <1>5, <2>1
  <2>3. \A u \in Tabs : Bears(u)' /\ u # t => Bears(u) /\ tab'[u].got = tab[u].got
    BY DEF Bears
  <2> QED BY <1>4, <1>5, <2>1, <2>2, <2>3 DEF Peaceful, OnTheWay
<1>7. Spent'
  <2>1. \A i \in DOMAIN req : req[i].tab \in Tabs
    <3>1. \A i \in DOMAIN req : req[i] \in ReqState
      BY <1>1 DEF Typed
    <3> QED BY <3>1 DEF ReqState
  <2>2. \A u \in Tabs : tab'[u].flight = tab[u].flight
    OBVIOUS
  <2> QED BY <2>1, <2>2, SpentStays DEF Peaceful, Alone, SameRequests
<1>8. Revoked'
  <2>1. \A k \in DOMAIN token' : token'[k].state = "revoked" => k \in DOMAIN token /\ token[k].state = "revoked"
    BY <1>2
  <2> QED BY <2>1, RevokedStays DEF Peaceful, Past
<1> QED BY <1>6, <1>7, <1>8 DEF Peaceful, NoFalseAlarm

\* The API works on a refresh: its request moves on, or its answer is lost.
LEMMA ApiIsPeaceful ==
  ASSUME Basic, World, Peaceful, NEW i \in DOMAIN req, Api(i) \/ Lost(i)
  PROVE  Peaceful'
<1>1. Typed /\ Known /\ Len(token) \in Nat /\ DOMAIN token = 1 .. Len(token)
  BY DEF Basic, Typed
<1>2. \A j \in DOMAIN req : req[j].tab \in Tabs /\ req[j].tok \in Nat /\ req[j].new \in Nat
  <2>1. \A j \in DOMAIN req : req[j] \in ReqState
    BY <1>1 DEF Typed
  <2> QED BY <2>1 DEF ReqState
<1>s. {"revoke", "issue", "ok", "no"} \subseteq ReqStates /\ {"live", "revoked", "expired"} \subseteq TokenStates
  BY DEF ReqStates, TokenStates
<1>t. req[i].tok # 0 => req[i].tok \in DOMAIN token
  BY <1>1, <1>2 DEF Known
\* What the cases have in common.
<1>3. ASSUME NEW a \in {"revoke", "issue", "no"}, NEW n \in Nat, Answers(i, a, n),
             req[i].at \in {"sent", "revoke", "issue", "ok"},
             UNCHANGED <<cookie, tab>>, excused \subseteq excused', alarms' \subseteq excused',
             a = "no" => req[i].tok \in excused' \cup {0}, Past(i) => a # "revoke",
             \A k \in DOMAIN token' : token'[k].state = "revoked" =>
               \/ k \in DOMAIN token /\ token[k].state = "revoked"
               \/ k \in excused'
               \/ req[i].tok = k /\ a \notin {"sent", "revoke"}
      PROVE  Peaceful'
  <2>1. /\ DOMAIN req' = DOMAIN req
        /\ \A j \in DOMAIN req : /\ req'[j].tab = req[j].tab /\ req'[j].tok = req[j].tok
                                 /\ req'[j].at = IF j = i THEN a ELSE req[j].at
                                 /\ req'[j].new = IF j = i THEN n ELSE req[j].new
    BY <1>1, <1>3, <1>s, Answered
  <2>2. SameRequests /\ SamePages
    BY <1>3, <2>1 DEF SameRequests, SamePages, Bears
  <2>3. OnTheWay'
    BY <1>3, <2>2, WayStays DEF Peaceful
  <2>4. Spent'
    BY <1>3, <2>1, <2>2, SpentStays DEF Peaceful, Alone
  <2>5. Revoked'
    <3>1. \A j \in DOMAIN req : j \in DOMAIN req' /\ req'[j].tok = req[j].tok /\ (Past(j) => Past(j)')
      BY <1>3, <2>1 DEF Past
    <3>2. a \notin {"sent", "revoke"} => Past(i)'
      BY <2>1 DEF Past
    <3>3. \A k \in DOMAIN token' : token'[k].state = "revoked" =>
           \/ k \in DOMAIN token /\ token[k].state = "revoked"
           \/ k \in excused'
           \/ \E j \in DOMAIN req' : req'[j].tok = k /\ Past(j)'
      BY <1>3, <2>1, <3>2
    <3> QED BY <1>3, <3>1, <3>3, RevokedStays DEF Peaceful
  <2> QED BY <1>3, <2>3, <2>4, <2>5 DEF Peaceful, NoFalseAlarm
<1>4. \A a \in ReqStates : Answer(i, a) => Answers(i, a, req[i].new)
  BY <1>1, AnswerIs
<1>a. alarms \subseteq excused
  BY DEF Peaceful, NoFalseAlarm
<1>5. CASE Missing(i)
  BY <1>2, <1>3, <1>4, <1>5, <1>s, <1>a DEF Missing, server, ghosts, Past
<1>6. CASE Check(i)
  BY <1>2, <1>3, <1>4, <1>6, <1>s, <1>a DEF Check, server, ghosts, Past
\* A token that is presented again was revoked with an excuse: the request that revoked it
\* would be another one with the same token.
<1>7. CASE Reuse(i)
  <2>1. /\ req[i].at = "sent" /\ req[i].tok # 0 /\ token[req[i].tok].state = "revoked"
        /\ alarms' = alarms \cup {req[i].tok} /\ Answer(i, "no") /\ UNCHANGED <<cookie, tab>>
        /\ excused' = IF req[i].tok \in excused THEN excused \cup DOMAIN token ELSE excused
        /\ DOMAIN token' = DOMAIN token
    BY <1>7 DEF Reuse, Presented
  <2>2. req[i].tok \in excused
    <3> SUFFICES ASSUME req[i].tok \notin excused PROVE FALSE
      OBVIOUS
    <3>1. PICK j \in DOMAIN req : req[j].tok = req[i].tok /\ Past(j)
      BY <1>t, <2>1 DEF Peaceful, Revoked
    <3>2. Alone(i)
      BY <2>1 DEF Peaceful, Spent
    <3> QED BY <2>1, <3>1, <3>2 DEF Alone, Past
  <2> QED BY <1>2, <1>3, <1>4, <1>s, <1>a, <2>1, <2>2 DEF Past
<1>8. CASE Expired(i)
  <2>1. /\ req[i].at = "sent" /\ req[i].tok # 0 /\ SetState(req[i].tok, "revoked") /\ Answer(i, "no")
        /\ excused' = excused \cup {req[i].tok} /\ UNCHANGED <<cookie, tab, alarms>>
    BY <1>8 DEF Expired
  <2>2. DOMAIN token' = DOMAIN token /\ \A k \in DOMAIN token : token'[k].state = IF k = req[i].tok THEN "revoked" ELSE token[k].state
    BY <1>1, <1>t, <1>s, <2>1, StateSet
  <2> QED BY <1>2, <1>3, <1>4, <1>s, <1>a, <2>1, <2>2 DEF Past
<1>9. CASE RevokeOld(i)
  <2>1. /\ req[i].at = "revoke" /\ req[i].tok # 0 /\ SetState(req[i].tok, "revoked") /\ Answer(i, "issue")
        /\ UNCHANGED <<cookie, tab, excused, alarms>>
    BY <1>1, <1>9 DEF RevokeOld, Known, ghosts
  <2>2. DOMAIN token' = DOMAIN token /\ \A k \in DOMAIN token : token'[k].state = IF k = req[i].tok THEN "revoked" ELSE token[k].state
    BY <1>1, <1>t, <1>s, <2>1, StateSet
  <2> QED BY <1>2, <1>3, <1>4, <1>s, <1>a, <2>1, <2>2 DEF Past
<1>10. CASE Lost(i)
  <2>1. /\ Answers(i, "no", 0) /\ req[i].at \in {"revoke", "issue", "ok"}
        /\ excused' = excused \cup {req[i].tok} /\ UNCHANGED <<token, cookie, tab, alarms>>
    BY <1>10 DEF Lost, Answers, server
  <2> QED BY <1>2, <1>3, <1>s, <1>a, <2>1
<1>11. CASE IssueNew(i)
  <2> DEFINE n == Len(token) + 1
  <2>1. /\ req[i].at = "issue" /\ req[i].tok # 0 /\ Issue(token[req[i].tok].first)
        /\ Answers(i, "ok", n) /\ UNCHANGED <<cookie, tab, excused, alarms>>
    BY <1>1, <1>11 DEF IssueNew, Answers, ghosts, Known
  <2>2. token[req[i].tok].first \in Nat
    <3>1. token[req[i].tok] \in TokenState
      BY <1>1, <1>t, <2>1 DEF Typed
    <3> QED BY <3>1 DEF TokenState
  <2>3. /\ DOMAIN token' = 1 .. Len(token) + 1 /\ token'[Len(token) + 1].state = "live"
        /\ \A k \in DOMAIN token : token'[k] = token[k]
    BY <1>1, <2>1, <2>2, Issued
  <2>4. n \in Nat
    BY <1>1
  <2>5. /\ DOMAIN req' = DOMAIN req
        /\ \A j \in DOMAIN req : /\ req'[j].tab = req[j].tab /\ req'[j].tok = req[j].tok
                                 /\ req'[j].at = IF j = i THEN "ok" ELSE req[j].at
                                 /\ req'[j].new = IF j = i THEN n ELSE req[j].new
    BY <1>1, <1>s, <2>1, <2>4, Answered
  <2>6. /\ n # 0 /\ \A b \in Browsers : cookie[b] # n
        /\ \A u \in Tabs : tab[u].got # n
        /\ \A j \in DOMAIN req : req[j].tok # n /\ req[j].new # n
    <3>1. (\A b \in Browsers : cookie[b] \in Nat) /\ (\A u \in Tabs : tab[u].got \in Nat)
      BY <1>1 DEF Typed, PageState
    <3> QED BY <1>1, <1>2, <3>1 DEF Known
  <2>7. Revoked'
    <3>1. \A k \in DOMAIN token' : token'[k].state = "revoked" => k \in DOMAIN token /\ token[k].state = "revoked"
      BY <1>1, <2>3
    <3> QED BY <2>1, <2>5, <3>1, RevokedStays DEF Peaceful, Past
  <2> HIDE DEF n
  <2>8. OnTheWay'
    <3>1. /\ \A x : Unused(x) => Unused(x)'
          /\ \A x : x # 0 /\ (\A b \in Browsers : cookie[b] # x) /\ (\A j \in DOMAIN req : req[j].tok # x) => Unused(x)'
      BY <2>1, <2>5 DEF Unused
    <3>2. Unused(req[i].new)'
      BY <2>5, <2>6, <3>1
    <3>3. \A u \in Tabs : Bears(u)' => Bears(u) /\ tab'[u].got = tab[u].got
      BY <2>1 DEF Bears
    <3> QED BY <2>1, <2>5, <2>6, <3>1, <3>2, <3>3 DEF Peaceful, OnTheWay
  <2>9. Spent'
    <3> SUFFICES ASSUME NEW j \in DOMAIN req, req[j].tok \notin excused \cup {0}
                 PROVE  Alone(j)'
      BY <2>1, <2>5 DEF Spent
    <3>1. Alone(j)
      BY DEF Peaceful, Spent
    <3> QED BY <2>1, <2>5, <3>1 DEF Alone
  <2> QED BY <2>1, <2>7, <2>8, <2>9 DEF Peaceful, NoFalseAlarm
<1> QED BY <1>5, <1>6, <1>7, <1>8, <1>9, <1>10, <1>11 DEF Api

\* A step that turns one page and hands it no token.
LEMMA QuietTurn ==
  ASSUME Basic, Peaceful, UNCHANGED <<req, alarms>>, excused \subseteq excused',
         NEW t \in Tabs, NEW page \in PageState, tab' = [tab EXCEPT ![t] = page],
         page.at = "redeemed" => tab[t].at = "redeemed" /\ page.got = tab[t].got,
         page.form = "login" => tab[t].form = "login" /\ page.got = tab[t].got,
         page.flight = tab[t].flight \/ InFlight(t) \subseteq excused',
         DOMAIN token' = DOMAIN token,
         \A k \in DOMAIN token : token'[k].state = "revoked" => token[k].state = "revoked" \/ k \in excused',
         \A b \in Browsers : cookie'[b] \in {cookie[b], 0}
  PROVE  Peaceful'
<1>1. Typed
  BY DEF Basic
<1>2. \A u \in Tabs : tab'[u] = IF u = t THEN page ELSE tab[u]
  BY <1>1, Turned
<1>3. SamePages
  BY <1>2 DEF SamePages, Bears
<1>4. \A u \in Tabs : tab'[u].flight = tab[u].flight \/ InFlight(u) \subseteq excused'
  BY <1>2
<1>5. \A i \in DOMAIN req : req[i].tab \in Tabs
  <2>1. \A i \in DOMAIN req : req[i] \in ReqState
    BY <1>1 DEF Typed
  <2> QED BY <2>1 DEF ReqState
<1> QED BY <1>3, <1>4, <1>5, QuietStep

\* A step that leaves the pages alone.
LEMMA NoTurn ==
  ASSUME Basic, Peaceful, UNCHANGED <<req, alarms, excused, cookie, tab>>,
         DOMAIN token' = DOMAIN token,
         \A k \in DOMAIN token : token'[k].state = "revoked" => token[k].state = "revoked"
  PROVE  Peaceful'
<1>1. Typed
  BY DEF Basic
<1>2. SamePages /\ \A b \in Browsers : cookie'[b] \in {cookie[b], 0}
  BY DEF SamePages, Bears
<1>3. \A i \in DOMAIN req : req[i].tab \in Tabs
  <2>1. \A i \in DOMAIN req : req[i] \in ReqState
    BY <1>1 DEF Typed
  <2> QED BY <2>1 DEF ReqState
<1> QED BY <1>2, <1>3, QuietStep

\* A cookie takes a token that was on its way.
LEMMA TakingIsPeaceful ==
  ASSUME Basic, Peaceful, SameRequests, SamePages, UNCHANGED <<token, excused, alarms>>,
         NEW b \in Browsers, NEW k \in Nat, cookie' = [cookie EXCEPT ![b] = k], Unused(k),
         \A i \in DOMAIN req : req'[i].at = "ok" => req[i].new # k,
         \A t \in Tabs : Bears(t)' => tab[t].got # k,
         \A i \in DOMAIN req : Past(i) => Past(i)',
         \A i \in DOMAIN req : Alone(i) =>
           /\ req'[i].at # "no"
           /\ req'[i].at = "done" => req[i].at = "done" \/ TabBrowser[req[i].tab] = b
           /\ req'[i].at # "done" => req[i].at # "done" /\ tab'[req[i].tab].flight = i
  PROVE  Peaceful'
<1>1. cookie \in [Browsers -> Nat]
  BY DEF Basic, Typed
<1>2. OnTheWay'
  BY <1>1, WayTaken DEF Peaceful
<1>3. /\ cookie'[b] = k /\ \A c \in Browsers : c # b => cookie'[c] = cookie[c]
      /\ \A i \in DOMAIN req : req[i].tok # k
  BY <1>1 DEF Unused
<1>4. Spent'
  BY <1>3, SpentStays DEF Peaceful
<1>5. Revoked'
  BY RevokedStays DEF Peaceful, SameRequests
<1> QED BY <1>2, <1>4, <1>5 DEF Peaceful, NoFalseAlarm

\* The handoff: a code is marked, exchanged, and its session arrives or is lost.
LEMMA HandoffIsPeaceful ==
  ASSUME Basic, World, OwnBrowser, Peaceful, NEW t \in Tabs, Handoff(t)
  PROVE  Peaceful'
<1>1. Typed /\ Pages /\ tab[t] \in PageState /\ Len(token) \in Nat
  BY DEF Basic, Typed
<1>2. CASE Redeem(t)
  <2> DEFINE page == [tab[t] EXCEPT !.at = "issue"]
  <2>1. page \in PageState /\ page.at = "issue" /\ page.form = tab[t].form /\ page.got = tab[t].got
        /\ page.flight = tab[t].flight
    BY <1>1 DEF PageState, Booting
  <2>2. tab' = [tab EXCEPT ![t] = page] /\ UNCHANGED <<token, cookie, req, excused, alarms>>
    BY <1>2 DEF Redeem, ghosts
  <2> HIDE DEF page
  <2> QED BY <2>1, <2>2, QuietTurn
<1>3. CASE IssueSession(t)
  <2> DEFINE n == Len(token) + 1
  <2>1. /\ Issue(n) /\ UNCHANGED <<cookie, req, excused, alarms>>
        /\ tab' = [tab EXCEPT ![t].at = "redeemed", ![t].got = n]
    BY <1>3 DEF IssueSession, ghosts
  <2>2. tab'[t].got = n /\ tab'[t].flight = tab[t].flight /\ \A u \in Tabs : u # t => tab'[u] = tab[u]
    <3> HIDE DEF n
    <3> QED BY <1>1, <2>1 DEF Typed, PageState
  <2> QED BY <2>1, <2>2, HandingIsPeaceful
<1>4. CASE Redeemed(t)
  <2> DEFINE k == tab[t].got
             page == [tab[t] EXCEPT !.at = "open", !.access = "fresh", !.got = 0]
  <2>1. page \in PageState /\ page.at = "open" /\ page.form = tab[t].form /\ page.flight = tab[t].flight
    BY <1>1 DEF PageState
  <2>2. /\ tab' = [tab EXCEPT ![t] = page] /\ tab[t].at = "redeemed"
        /\ UNCHANGED <<token, req, excused, alarms>> /\ cookie' = [cookie EXCEPT ![TabBrowser[t]] = k]
    BY <1>1, <1>4 DEF Redeemed, SetCookie, server, ghosts, Typed
  <2> HIDE DEF page
  <2>3. \A u \in Tabs : tab'[u] = IF u = t THEN page ELSE tab[u]
    BY <1>1, <2>1, <2>2, Turned
  <2>4. page.form = "none"
    BY <1>1, <2>1, <2>2 DEF Pages
  <2>5. SameRequests /\ SamePages /\ ~Bears(t)' /\ Bears(t)
    BY <2>1, <2>2, <2>3, <2>4 DEF SameRequests, SamePages, Bears
  <2>6. /\ Unused(k) /\ \A i \in DOMAIN req : req'[i].at = "ok" => req[i].new # k
        /\ \A u \in Tabs : Bears(u)' => tab[u].got # k
    BY <2>2, <2>5 DEF Peaceful, OnTheWay, SamePages
  <2>7. TabBrowser[t] \in Browsers /\ k \in Nat /\ \A i \in DOMAIN req : req[i].tab \in Tabs
    <3>1. \A i \in DOMAIN req : req[i] \in ReqState
      BY <1>1 DEF Typed
    <3> QED BY <1>1, <3>1 DEF World, PageState, ReqState
  <2>8. \A i \in DOMAIN req : Alone(i) =>
           /\ req'[i].at # "no"
           /\ req'[i].at = "done" => req[i].at = "done"
           /\ req'[i].at # "done" => req[i].at # "done" /\ tab'[req[i].tab].flight = i
    BY <2>1, <2>2, <2>3, <2>7 DEF Alone
  <2>9. \A i \in DOMAIN req : Past(i) => Past(i)'
    BY <2>2 DEF Past
  <2> HIDE DEF k
  <2> QED BY <2>2, <2>5, <2>6, <2>7, <2>8, <2>9, TakingIsPeaceful
<1>5. CASE NotRedeemed(t)
  <2> DEFINE page == [tab[t] EXCEPT !.at = "boot", !.got = 0]
  <2>1. page \in PageState /\ page.at = "boot" /\ page.got = 0 /\ page.form = tab[t].form /\ page.flight = tab[t].flight
    BY <1>1 DEF PageState, Booting
  <2>2. tab[t].form = "none"
    BY <1>1, <1>5 DEF NotRedeemed, Pages
  <2>3. RefreshOnce(t, page) /\ UNCHANGED <<token, cookie, excused, alarms>>
    BY <1>5 DEF NotRedeemed, server, ghosts
  <2> HIDE DEF page
  <2> QED BY <2>1, <2>2, <2>3, AskIsPeaceful
<1> QED BY <1>2, <1>3, <1>4, <1>5 DEF Handoff

\* A page is opened, left, signed in or out.
LEMMA PageIsPeaceful ==
  ASSUME Basic, World, OwnBrowser, Peaceful, NEW t \in Tabs,
         \/ AccessExpires(t) \/ Leave(t) \/ Login(t) \/ LoggedIn(t) \/ Logout(t) \/ Revoke(t) \/ LoggedOut(t)
         \/ \E c \in Codes \cup {NoCode} : Load(t, c)
  PROVE  Peaceful'
<1>1. Typed /\ Known /\ Pages /\ tab[t] \in PageState /\ Len(token) \in Nat
  BY DEF Basic, Typed
<1>2. CASE AccessExpires(t)
  <2> DEFINE page == [tab[t] EXCEPT !.access = "stale"]
  <2>1. page \in PageState /\ page.at = tab[t].at /\ page.form = tab[t].form /\ page.got = tab[t].got
        /\ page.flight = tab[t].flight
    BY <1>1 DEF PageState
  <2>2. tab' = [tab EXCEPT ![t] = page] /\ UNCHANGED <<token, cookie, req, excused, alarms>>
    BY <1>2 DEF AccessExpires, server, ghosts
  <2> HIDE DEF page
  <2> QED BY <2>1, <2>2, QuietTurn
<1>3. CASE Leave(t) \/ LoggedOut(t)
  <2>1. /\ tab' = [tab EXCEPT ![t] = Closed] /\ excused' = excused \cup InFlight(t)
        /\ UNCHANGED <<token, req, alarms>>
        /\ cookie' = cookie \/ cookie' = [cookie EXCEPT ![TabBrowser[t]] = 0]
    BY <1>3 DEF Leave, LoggedOut, SetCookie, server
  <2>2. Closed \in PageState /\ Closed.at = "closed" /\ Closed.form = "none"
    BY DEF Closed, PageState, Forms
  <2>3. \A b \in Browsers : cookie'[b] \in {cookie[b], 0}
    BY <1>1, <2>1 DEF Typed
  <2>4. excused \subseteq excused' /\ InFlight(t) \subseteq excused'
    BY <2>1
  <2> QED BY <2>1, <2>2, <2>3, <2>4, QuietTurn
<1>4. CASE Login(t)
  <2> DEFINE n == Len(token) + 1
  <2>1. /\ Issue(n) /\ UNCHANGED <<cookie, req, excused, alarms>>
        /\ tab' = [tab EXCEPT ![t].form = "login", ![t].got = n]
    BY <1>4 DEF Login, ghosts
  <2>2. tab'[t].got = n /\ tab'[t].flight = tab[t].flight /\ \A u \in Tabs : u # t => tab'[u] = tab[u]
    <3> HIDE DEF n
    <3> QED BY <1>1, <2>1 DEF Typed, PageState
  <2> QED BY <2>1, <2>2, HandingIsPeaceful
<1>5. CASE LoggedIn(t)
  <2> DEFINE k == tab[t].got
             off == [tab[t] EXCEPT !.form = "none", !.got = 0]
             on == [off EXCEPT !.access = "fresh"]
  <2>1. off \in PageState /\ off.at = tab[t].at /\ off.form = "none" /\ off.flight = tab[t].flight
    BY <1>1 DEF PageState, Forms
  <2>2. on \in PageState /\ on.at = tab[t].at /\ on.form = "none" /\ on.flight = tab[t].flight
    <3> HIDE DEF off
    <3> QED BY <2>1 DEF PageState
  <2>3. tab[t].form = "login" /\ tab[t].at = "open" /\ UNCHANGED <<token, req, excused, alarms>>
    BY <1>1, <1>5 DEF LoggedIn, Pages, server, ghosts
  <2>4. \/ tab' = [tab EXCEPT ![t] = off] /\ UNCHANGED cookie
        \/ tab' = [tab EXCEPT ![t] = on] /\ cookie' = [cookie EXCEPT ![TabBrowser[t]] = k]
    <3>1. on = [tab[t] EXCEPT !.form = "none", !.got = 0, !.access = "fresh"]
      BY <1>1 DEF PageState
    <3> HIDE DEF on
    <3> QED BY <1>1, <1>5, <3>1 DEF LoggedIn, SetCookie, Typed
  <2> HIDE DEF off, on
  <2>5. CASE tab' = [tab EXCEPT ![t] = off] /\ UNCHANGED cookie
    BY <2>1, <2>3, <2>5, QuietTurn
  <2>6. CASE tab' = [tab EXCEPT ![t] = on] /\ cookie' = [cookie EXCEPT ![TabBrowser[t]] = k]
    <3>1. \A u \in Tabs : tab'[u] = IF u = t THEN on ELSE tab[u]
      BY <1>1, <2>2, <2>6, Turned
    <3>2. SameRequests /\ SamePages /\ ~Bears(t)' /\ Bears(t)
      BY <2>2, <2>3, <3>1 DEF SameRequests, SamePages, Bears
    <3>3. /\ Unused(k) /\ \A i \in DOMAIN req : req'[i].at = "ok" => req[i].new # k
          /\ \A u \in Tabs : Bears(u)' => tab[u].got # k
      BY <2>3, <3>2 DEF Peaceful, OnTheWay, SamePages
    <3>4. TabBrowser[t] \in Browsers /\ k \in Nat /\ \A i \in DOMAIN req : req[i].tab \in Tabs
      <4>1. \A i \in DOMAIN req : req[i] \in ReqState
        BY <1>1 DEF Typed
      <4> QED BY <1>1, <4>1 DEF World, PageState, ReqState
    <3>5. \A i \in DOMAIN req : Alone(i) =>
             /\ req'[i].at # "no"
             /\ req'[i].at = "done" => req[i].at = "done"
             /\ req'[i].at # "done" => req[i].at # "done" /\ tab'[req[i].tab].flight = i
      BY <2>2, <2>3, <3>1, <3>4 DEF Alone
    <3>6. \A i \in DOMAIN req : Past(i) => Past(i)'
      BY <2>3 DEF Past
    <3> HIDE DEF k
    <3> QED BY <2>3, <2>6, <3>2, <3>3, <3>4, <3>5, <3>6, TakingIsPeaceful
  <2> QED BY <2>4, <2>5, <2>6
<1>6. CASE Logout(t)
  <2> DEFINE n == CookieOf(t)
             page == [tab[t] EXCEPT !.form = "logout", !.got = n]
  <2>1. tab' = [tab EXCEPT ![t] = page] /\ tab[t].at = "open" /\ UNCHANGED <<token, cookie, req, excused, alarms>>
    BY <1>1, <1>6 DEF Logout, Typed, server, ghosts
  <2>2. page \in PageState /\ page.at = tab[t].at /\ page.form = "logout" /\ page.flight = tab[t].flight
    <3>1. n \in Nat
      BY <1>1 DEF CookieOf, World, Typed
    <3> HIDE DEF n
    <3> QED BY <1>1, <3>1 DEF PageState, Forms
  <2> HIDE DEF page
  <2> QED BY <2>1, <2>2, QuietTurn
<1>7. CASE Revoke(t)
  <2> DEFINE page == [tab[t] EXCEPT !.form = "left"]
  <2>1. /\ tab' = [tab EXCEPT ![t] = page] /\ tab[t].form = "logout"
        /\ IF tab[t].got # 0 THEN SetState(tab[t].got, "revoked") ELSE UNCHANGED token
        /\ excused' = excused \cup ({tab[t].got} \ {0})
        /\ UNCHANGED <<cookie, req, alarms>>
    BY <1>7 DEF Revoke
  <2>2. page \in PageState /\ page.at = tab[t].at /\ page.got = tab[t].got /\ page.form = "left"
        /\ page.flight = tab[t].flight /\ tab[t].at = "open"
    BY <1>1, <2>1 DEF PageState, Forms, Pages
  <2> HIDE DEF page
  <2>3. /\ DOMAIN token' = DOMAIN token
        /\ \A k \in DOMAIN token : token'[k].state = "revoked" => token[k].state = "revoked" \/ k \in excused'
    <3>1. CASE tab[t].got = 0
      BY <2>1, <3>1
    <3>2. CASE tab[t].got # 0
      <4>1. tab[t].got \in DOMAIN token /\ "revoked" \in TokenStates
        <5>1. tab[t].got \in Nat /\ tab[t].got <= Len(token) /\ DOMAIN token = 1 .. Len(token)
          BY <1>1 DEF PageState, Known, Typed
        <5> QED BY <3>2, <5>1 DEF TokenStates
      <4>2. \A k \in DOMAIN token : token'[k].state = IF k = tab[t].got THEN "revoked" ELSE token[k].state
        BY <1>1, <2>1, <3>2, <4>1, StateSet
      <4>3. DOMAIN token' = DOMAIN token
        BY <1>1, <2>1, <3>2, <4>1, StateSet
      <4> QED BY <2>1, <3>2, <4>2, <4>3
    <3> QED BY <3>1, <3>2
  <2> QED BY <2>1, <2>2, <2>3, QuietTurn
<1>8. ASSUME NEW c \in Codes \cup {NoCode}, Load(t, c) PROVE Peaceful'
  <2>0. tab[t].at = "closed" /\ tab[t].flight = 0
    BY <1>1, <1>8 DEF Load, Pages
  <2>1. CASE c # NoCode
    <3> DEFINE page == [Closed EXCEPT !.at = "redeem", !.code = c]
    <3>1. page \in PageState /\ page.at = "redeem" /\ page.form = "none" /\ page.flight = 0
      BY DEF Closed, PageState, Forms, Booting
    <3>2. tab' = [tab EXCEPT ![t] = page] /\ UNCHANGED <<token, cookie, req, excused, alarms>>
      BY <1>8, <2>1 DEF Load, server, ghosts
    <3> HIDE DEF page
    <3> QED BY <2>0, <3>1, <3>2, QuietTurn
  <2>2. CASE c = NoCode
    <3> DEFINE page == [Closed EXCEPT !.at = "boot"]
    <3>1. page \in PageState /\ page.at = "boot" /\ page.form = "none" /\ page.flight = 0
      BY DEF Closed, PageState, Forms, Booting
    <3>2. RefreshOnce(t, page) /\ UNCHANGED <<token, cookie, excused, alarms>>
      BY <1>8, <2>2 DEF Load, server, ghosts
    <3> HIDE DEF page
    <3> QED BY <2>0, <3>1, <3>2, AskIsPeaceful
  <2> QED BY <2>1, <2>2
<1> QED BY <1>2, <1>3, <1>4, <1>5, <1>6, <1>7, <1>8

\* An answer reaches the page that waits for it, or the browser of one that does not.
LEMMA SettleIsPeaceful ==
  ASSUME Basic, World, Peaceful, NEW i \in DOMAIN req, Settle(i)
  PROVE  Peaceful'
<1> DEFINE t == req[i].tab
           k == req[i].new
<1>1. Typed /\ "done" \in ReqStates /\ cookie \in [Browsers -> Nat]
  BY DEF Basic, Typed, ReqStates
<1>2. t \in Tabs /\ k \in Nat /\ \A j \in DOMAIN req : req[j].tab \in Tabs
  <2>1. \A j \in DOMAIN req : req[j] \in ReqState
    BY <1>1 DEF Typed
  <2> QED BY <2>1 DEF ReqState
<1>3. Answer(i, "done") /\ UNCHANGED <<token, excused, alarms>>
  BY DEF Settle, Refreshed, NotRefreshed, Orphaned, server, ghosts
<1>4. /\ DOMAIN req' = DOMAIN req
      /\ \A j \in DOMAIN req : /\ req'[j].tok = req[j].tok /\ req'[j].tab = req[j].tab /\ req'[j].new = req[j].new
                               /\ req'[j].at = IF j = i THEN "done" ELSE req[j].at
  BY <1>1, <1>2, <1>3, AnswerIs, Answered
<1>5. SameRequests /\ \A j \in DOMAIN req : Past(j) => Past(j)'
  BY <1>4 DEF SameRequests, Past
<1>6. TabBrowser[t] \in Browsers
  BY <1>2 DEF World
\* Only the page that waited for this answer stops waiting.
<1>7. /\ SamePages
      /\ \A u \in Tabs : u # t => tab'[u] = tab[u]
      /\ ~Awaited(i) => tab' = tab
  <2> DEFINE s == tab[t]
  <2>0. s \in PageState /\ tab \in [Tabs -> PageState]
    BY <1>1, <1>2 DEF Typed
  <2>1. CASE ~Awaited(i)
    BY <2>1 DEF Settle, Refreshed, NotRefreshed, Orphaned, SamePages, Bears
  <2>2. CASE Awaited(i)
    <3>1. \E a \in {"none", "fresh", "stale"} :
             tab' = [tab EXCEPT ![t] = [s EXCEPT !.flight = 0, !.access = a, !.at = Boots(s)]]
      <4>1. CASE Refreshed(i)
        BY <4>1 DEF Refreshed
      <4>2. CASE NotRefreshed(i)
        <5> DEFINE cleared == \E c \in Calls : CallTab[c] = t /\ call[c] = "joined"
                   a == IF cleared THEN "none" ELSE s.access
        <5>1. tab' = [tab EXCEPT ![t] = [s EXCEPT !.flight = 0, !.at = Boots(s), !.access = a]]
          BY <4>2 DEF NotRefreshed
        <5>2. a \in {"none", "fresh", "stale"}
          BY <2>0 DEF PageState
        <5>3. [s EXCEPT !.flight = 0, !.at = Boots(s), !.access = a] = [s EXCEPT !.flight = 0, !.access = a, !.at = Boots(s)]
          <6> HIDE DEF s, a
          <6> QED BY <2>0 DEF PageState
        <5> HIDE DEF s, a
        <5> QED BY <5>1, <5>2, <5>3
      <4> QED BY <2>2, <4>1, <4>2 DEF Settle, Orphaned
    <3>2. PICK a \in {"none", "fresh", "stale"} :
             tab' = [tab EXCEPT ![t] = [s EXCEPT !.flight = 0, !.access = a, !.at = Boots(s)]]
      BY <3>1
    <3> DEFINE page == [s EXCEPT !.flight = 0, !.access = a, !.at = Boots(s)]
    <3>3. /\ page.at = Boots(s) /\ page.form = s.form /\ page.got = s.got
      <4> HIDE DEF s
      <4> QED BY <2>0 DEF PageState
    <3>4. tab' = [tab EXCEPT ![t] = page]
      BY <3>2
    <3> HIDE DEF page
    <3>5. page.at = "redeemed" => s.at = "redeemed"
      BY <3>3 DEF Boots
    <3>6. \A u \in Tabs : tab'[u] = IF u = t THEN page ELSE tab[u]
      BY <1>2, <2>0, <3>4
    <3> HIDE DEF t
    <3> QED BY <2>2, <3>3, <3>5, <3>6 DEF SamePages, Bears
  <2> QED BY <2>1, <2>2
\* Of the requests nothing excuses, this one ends only if its page waited for it.
<1>8. \A j \in DOMAIN req : Alone(j) =>
        /\ req'[j].at # "no"
        /\ req'[j].at = "done" => req[j].at = "done" \/ j = i
        /\ req'[j].at # "done" => req[j].at # "done" /\ tab'[req[j].tab].flight = j
  <2> SUFFICES ASSUME NEW j \in DOMAIN req, Alone(j), j # i, req[j].at # "done"
               PROVE  tab'[req[j].tab].flight = j
    BY <1>4 DEF Alone
  <2>1. tab[req[j].tab].flight = j
    BY DEF Alone
  <2>2. CASE req[j].tab = t
    BY <1>7, <2>1, <2>2 DEF Awaited
  <2> QED BY <1>2, <1>7, <2>1, <2>2
<1>9. CASE req[i].at = "ok" /\ cookie' = [cookie EXCEPT ![TabBrowser[t]] = k]
  <2>1. /\ Unused(k) /\ \A j \in DOMAIN req : req'[j].at = "ok" => req[j].new # k
    BY <1>4, <1>9 DEF Peaceful, OnTheWay
  <2>2. \A u \in Tabs : Bears(u)' => tab[u].got # k
    BY <1>7, <1>9 DEF Peaceful, OnTheWay, SamePages
  <2>3. \A j \in DOMAIN req : Alone(j) =>
           /\ req'[j].at # "no"
           /\ req'[j].at = "done" => req[j].at = "done" \/ TabBrowser[req[j].tab] = TabBrowser[t]
           /\ req'[j].at # "done" => req[j].at # "done" /\ tab'[req[j].tab].flight = j
    BY <1>8
  <2> HIDE DEF k, t
  <2> QED BY <1>2, <1>3, <1>5, <1>6, <1>7, <1>9, <2>1, <2>2, <2>3, TakingIsPeaceful
<1>10. CASE UNCHANGED cookie /\ (req[i].at = "no" \/ ~Awaited(i))
  <2>1. ~(Alone(i) /\ req[i].at # "done")
    BY <1>10 DEF Alone, Awaited
  <2>2. req[i].at # "done"
    BY DEF Settle, Refreshed, NotRefreshed, Orphaned
  <2>3. OnTheWay'
    BY <1>5, <1>7, <1>10, WayStays DEF Peaceful
  <2>4. Spent'
    BY <1>3, <1>5, <1>8, <1>10, <2>1, <2>2, SpentStays DEF Peaceful
  <2>5. Revoked'
    BY <1>3, <1>4, <1>5, RevokedStays DEF Peaceful
  <2> QED BY <1>3, <2>3, <2>4, <2>5 DEF Peaceful, NoFalseAlarm
<1> QED BY <1>9, <1>10 DEF Settle, Refreshed, NotRefreshed, Orphaned, SetCookie

\* Every step keeps Peaceful, where every tab has a browser to itself.
LEMMA NextPeaceful == ASSUME Basic, World, OwnBrowser, Peaceful, [Next]_vars PROVE Peaceful'
<1>1. Typed
  BY DEF Basic
<1>2. ASSUME NEW c \in Codes, Mint(c) \/ CodeExpires(c) PROVE Peaceful'
  BY <1>2, NoTurn DEF Mint, CodeExpires, ghosts
<1>3. ASSUME NEW id \in DOMAIN token, TokenExpires(id) PROVE Peaceful'
  <2>1. /\ DOMAIN token' = DOMAIN token
        /\ \A k \in DOMAIN token : token'[k].state = IF k = id THEN "expired" ELSE token[k].state
    BY <1>1, <1>3, StateSet DEF TokenExpires, TokenStates
  <2> QED BY <1>3, <2>1, NoTurn DEF TokenExpires, ghosts
<1>4. ASSUME NEW c \in Calls, Send(c) \/ Reply(c) PROVE Peaceful'
  BY <1>4, NoTurn DEF Send, Reply, server, ghosts
<1>5. ASSUME NEW c \in Calls, Unauthorized(c) PROVE Peaceful'
  <2>1. CallTab[c] \in Tabs /\ tab[CallTab[c]] \in PageState /\ tab[CallTab[c]].at = "open"
    BY <1>1, <1>5 DEF Basic, Pages, Typed, World, Unauthorized
  <2> QED BY <1>5, <2>1, AskIsPeaceful DEF Unauthorized, server, ghosts
<1>6. CASE UNCHANGED vars
  BY <1>6, NoTurn DEF vars
<1> QED BY <1>2, <1>3, <1>4, <1>5, <1>6, HandoffIsPeaceful, PageIsPeaceful, ApiIsPeaceful, SettleIsPeaceful DEF Next

-----------------------------------------------------------------------------
\* Whatever is lost, reloaded or opened twice, and whether or not tabs share a browser,
\* a handoff code gives one session (auth.service.ts:144-163).
THEOREM OneSession == World => (Spec => []CodeOpensOneSession)
<1> SUFFICES ASSUME World PROVE Spec => []CodeOpensOneSession
  OBVIOUS
<1>1. Init => Basic /\ Opened
  BY InitBasic, InitOpened
<1>2. Basic /\ Opened /\ [Next]_vars => (Basic /\ Opened)'
  BY NextBasic, NextOpened
<1> QED BY <1>1, <1>2, OpenedOnce, PTL DEF Spec

\* Where no two tabs share a browser, refreshing signs nobody out: the alarm is raised
\* only over a token with an excuse (http.ts:73-89, refresh-token.service.ts:72-103).
\* Two tabs of one browser refute it (RefreshingIsQuiet of MCPages).
THEOREM SessionsAreKept == World /\ OwnBrowser => (Spec => []SessionsKept)
<1> SUFFICES ASSUME World, OwnBrowser PROVE Spec => []SessionsKept
  OBVIOUS
<1> DEFINE I == Basic /\ Opened /\ Peaceful
<1>1. Init => I
  BY InitBasic, InitOpened, InitPeaceful
<1>2. I /\ [Next]_vars => I'
  BY NextBasic, NextOpened, NextPeaceful
<1>3. I => SessionsKept
  BY OpenedOnce DEF Peaceful, SessionsKept
<1> HIDE DEF I
<1> QED BY <1>1, <1>2, <1>3, PTL DEF Spec

-----------------------------------------------------------------------------
(* The card of a tour (Spotlight) *)
\* A side that is picked from some sides is one of them.
LEMMA FirstIsOne ==
  ASSUME NEW S, S \subseteq Light!Sides, S # {}, NEW p PROVE Light!FirstOf(S, p) \in S
BY DEF Light!FirstOf, Light!Sides

\* When some side has room, the card goes to a side with room.
LEMMA SideFits ==
  ASSUME NEW r, NEW vw, NEW vh, NEW h, NEW p, Light!Fitting(r, vw, vh, h) # {}
  PROVE  Light!Side(r, vw, vh, h, p) \in Light!Sides /\ Light!Fits(r, vw, vh, h, Light!Side(r, vw, vh, h, p))
<1> DEFINE S == Light!Fitting(r, vw, vh, h)
<1>1. S \subseteq Light!Sides BY DEF Light!Fitting
<1>2. Light!Side(r, vw, vh, h, p) = Light!FirstOf(S, p) BY DEF Light!Side
<1>3. Light!FirstOf(S, p) \in S
  <2> HIDE DEF S
  <2> QED BY <1>1, FirstIsOne DEF S
<1> QED BY <1>1, <1>2, <1>3 DEF Light!Fitting

\* A card that is placed where there is room for it is apart from the hole.
LEMMA PlacedApart ==
  ASSUME NEW r \in Light!Rects, NEW vw \in Nat, NEW vh \in Nat, NEW h \in Nat, NEW s \in Light!Sides,
         vw >= CardMin + 2 * Margin, Light!Fits(r, vw, vh, h, s)
  PROVE  Light!Apart(Light!OnScreen(Light!Wanted(r, vw, h, s), vw, vh, h), Light!DrawnWidth(vw), h, r)
<1> DEFINE w == Light!Width(vw)
           at == Light!OnScreen(Light!Wanted(r, vw, h, s), vw, vh, h)
<1>0. /\ Gap \in Nat /\ Margin \in Nat /\ w \in Int /\ Light!DrawnWidth(vw) = w
      /\ r.x \in Int /\ r.y \in Int /\ r.w \in Nat /\ r.h \in Nat
  BY SpotlightAssumption DEF Light!Sized, Light!Width, Light!DrawnWidth, Light!Least, Light!Most, Light!Rects
<1> HIDE DEF w
<1>1. CASE s = "right"
  <2>1. vw - (r.x + r.w) - Gap - Margin >= w BY <1>1 DEF Light!Fits, Light!Room, w
  <2> DEFINE v == r.x + r.w + Gap
             hi == vw - w - Margin
  <2>2. at.x = Light!Clamp(v, Margin, Light!Most(Margin, hi)) BY <1>1 DEF Light!OnScreen, Light!Wanted, w
  <2>3. v \in Int /\ hi \in Int /\ v <= hi BY <1>0, <2>1
  <2>4. at.x \in Int /\ at.x >= v
    <3> HIDE DEF v, hi, at
    <3>1. Light!Clamp(v, Margin, Light!Most(Margin, hi)) \in Int /\ Light!Clamp(v, Margin, Light!Most(Margin, hi)) >= v
      BY <1>0, <2>3 DEF Light!Clamp, Light!Least, Light!Most
    <3> QED BY <2>2, <3>1
  <2>5. r.x + r.w <= at.x
    <3> HIDE DEF at
    <3> QED BY <1>0, <2>4
  <2> QED BY <2>5 DEF Light!Apart
<1>2. CASE s = "left"
  <2>1. r.x - Gap - Margin >= w BY <1>2 DEF Light!Fits, Light!Room, w
  <2> DEFINE v == r.x - Gap - w
             hi == vw - w - Margin
  <2>2. at.x = Light!Clamp(v, Margin, Light!Most(Margin, hi)) BY <1>2 DEF Light!OnScreen, Light!Wanted, w
  <2>3. v \in Int /\ hi \in Int /\ v >= Margin BY <1>0, <2>1
  <2>4. at.x \in Int /\ at.x <= v
    <3> HIDE DEF v, hi, at
    <3>1. Light!Clamp(v, Margin, Light!Most(Margin, hi)) \in Int /\ Light!Clamp(v, Margin, Light!Most(Margin, hi)) <= v
      BY <1>0, <2>3 DEF Light!Clamp, Light!Least, Light!Most
    <3> QED BY <2>2, <3>1
  <2>5. at.x + Light!DrawnWidth(vw) <= r.x
    <3> HIDE DEF at
    <3> QED BY <1>0, <2>4
  <2> QED BY <2>5 DEF Light!Apart
<1>3. CASE s = "bottom"
  <2>1. vh - (r.y + r.h) - Gap - Margin >= h BY <1>3 DEF Light!Fits, Light!Room
  <2> DEFINE v == r.y + r.h + Gap
             hi == vh - h - Margin
  <2>2. at.y = Light!Clamp(v, Margin, Light!Most(Margin, hi)) BY <1>3 DEF Light!OnScreen, Light!Wanted
  <2>3. v \in Int /\ hi \in Int /\ v <= hi BY <1>0, <2>1
  <2>4. at.y \in Int /\ at.y >= v
    <3> HIDE DEF v, hi, at
    <3>1. Light!Clamp(v, Margin, Light!Most(Margin, hi)) \in Int /\ Light!Clamp(v, Margin, Light!Most(Margin, hi)) >= v
      BY <1>0, <2>3 DEF Light!Clamp, Light!Least, Light!Most
    <3> QED BY <2>2, <3>1
  <2>5. r.y + r.h <= at.y
    <3> HIDE DEF at
    <3> QED BY <1>0, <2>4
  <2> QED BY <2>5 DEF Light!Apart
<1>4. CASE s = "top"
  <2>1. r.y - Gap - Margin >= h BY <1>4 DEF Light!Fits, Light!Room
  <2> DEFINE v == r.y - Gap - h
             hi == vh - h - Margin
  <2>2. at.y = Light!Clamp(v, Margin, Light!Most(Margin, hi)) BY <1>4 DEF Light!OnScreen, Light!Wanted
  <2>3. v \in Int /\ hi \in Int /\ v >= Margin BY <1>0, <2>1
  <2>4. at.y \in Int /\ at.y <= v
    <3> HIDE DEF v, hi, at
    <3>1. Light!Clamp(v, Margin, Light!Most(Margin, hi)) \in Int /\ Light!Clamp(v, Margin, Light!Most(Margin, hi)) <= v
      BY <1>0, <2>3 DEF Light!Clamp, Light!Least, Light!Most
    <3> QED BY <2>2, <3>1
  <2>5. at.y + h <= r.y
    <3> HIDE DEF at
    <3> QED BY <1>0, <2>4
  <2> QED BY <2>5 DEF Light!Apart
<1> QED BY <1>1, <1>2, <1>3, <1>4 DEF Light!Sides

-----------------------------------------------------------------------------
\* Every variable of the overlay keeps to its kind.
THEOREM CardTypeCorrect == Light!Spec => []Light!TypeOK
<1>1. Light!Init => Light!TypeOK
  <2> SUFFICES ASSUME Light!Init PROVE Light!TypeOK OBVIOUS
  <2>1. open \in BOOLEAN /\ index \in Nat /\ rect \in {Light!Hole(t) : t \in Targets} \cup {None} BY DEF Light!Init
  <2>2. prefer \in Likes /\ target \in Targets \cup {None} /\ cardH \in CardHs BY DEF Light!Init
  <2>3. screen \in [w : Widths, h : Heights, card : CardHs] BY DEF Light!Init
  <2>4. viewport \in [w : Widths \cup {0}, h : Heights \cup {0}] BY DEF Light!Init
  <2> QED BY <2>1, <2>2, <2>3, <2>4 DEF Light!TypeOK
<1>2. Light!TypeOK /\ [Light!Next]_(Light!vars) => Light!TypeOK'
  <2> SUFFICES ASSUME Light!TypeOK, [Light!Next]_(Light!vars) PROVE Light!TypeOK' OBVIOUS
  <2> USE DEF Light!TypeOK
  <2>1. \A t \in Targets \cup {None} : Light!Measure(t) \in {Light!Hole(q) : q \in Targets} \cup {None} BY DEF Light!Measure
  <2>2. ASSUME NEW n \in Nat, Light!Show(n)
        PROVE  /\ index' \in Nat /\ prefer' \in Likes /\ target' \in Targets \cup {None}
               /\ screen' \in [w : Widths, h : Heights, card : CardHs]
               /\ rect' \in {Light!Hole(q) : q \in Targets} \cup {None}
               /\ viewport' \in [w : Widths \cup {0}, h : Heights \cup {0}] /\ cardH' \in CardHs
    BY <2>1, <2>2 DEF Light!Show
  <2>3. CASE Light!Open BY <2>2, <2>3 DEF Light!Open
  <2>4. CASE Light!Finish BY <2>4 DEF Light!Finish
  <2>5. CASE Light!GoesOn BY <2>2, <2>5 DEF Light!GoesOn
  <2>6. CASE Light!GoesBack
    <3>1. index - 1 \in Nat BY <2>6 DEF Light!GoesBack
    <3> QED BY <2>2, <2>6, <3>1 DEF Light!GoesBack
  <2>7. ASSUME NEW n \in 0..(Count - 1), Light!Jump(n) PROVE Light!TypeOK'
    <3>1. n \in Nat OBVIOUS
    <3> QED BY <2>2, <2>7, <3>1 DEF Light!Jump
  <2>8. CASE Light!Moves BY <2>8 DEF Light!Moves
  <2>9. CASE Light!Tick BY <2>1, <2>9 DEF Light!Tick
  <2>10. CASE UNCHANGED Light!vars BY <2>10 DEF Light!vars
  <2> QED BY <2>3, <2>4, <2>5, <2>6, <2>7, <2>8, <2>9, <2>10 DEF Light!Next
<1> QED BY <1>1, <1>2, PTL DEF Light!Spec

\* The card is never over the hole it points at.
THEOREM CardBeside == Light!Spec => []CardBesideHole
<1>1. Light!TypeOK => CardBesideHole
  <2> SUFFICES ASSUME Light!TypeOK, rect # None, viewport.w >= CardMin + 2 * Margin,
                      Light!Fitting(rect, viewport.w, viewport.h, cardH) # {}
               PROVE  Light!Apart(Light!Place(rect, viewport.w, viewport.h, cardH, prefer), Light!DrawnWidth(viewport.w), cardH, rect)
    BY DEF CardBesideHole, Light!CardBesideHole
  <2> DEFINE vw == viewport.w
             vh == viewport.h
             s == Light!Side(rect, vw, vh, cardH, prefer)
  <2>1. rect \in Light!Rects
    <3>1. PICK t \in Targets : rect = Light!Hole(t) BY DEF Light!TypeOK
    <3> QED BY <3>1, SpotlightAssumption DEF Light!Sized, Light!Hole, Light!Rects
  <2>2. vw \in Nat /\ vh \in Nat /\ cardH \in Nat
    <3>1. vw \in Widths \cup {0} /\ vh \in Heights \cup {0} /\ cardH \in CardHs BY DEF Light!TypeOK
    <3>2. Widths \subseteq Nat /\ Heights \subseteq Nat /\ CardHs \subseteq Nat BY SpotlightAssumption DEF Light!Sized
    <3> HIDE DEF vw, vh
    <3> QED BY <3>1, <3>2
  <2>3. s \in Light!Sides /\ Light!Fits(rect, vw, vh, cardH, s) BY SideFits
  <2>4. Light!Place(rect, vw, vh, cardH, prefer) = Light!OnScreen(Light!Wanted(rect, vw, cardH, s), vw, vh, cardH) BY DEF Light!Place
  <2> HIDE DEF s, vw, vh
  <2>5. Light!Apart(Light!OnScreen(Light!Wanted(rect, vw, cardH, s), vw, vh, cardH), Light!DrawnWidth(vw), cardH, rect)
    <3>1. vw >= CardMin + 2 * Margin BY DEF vw
    <3> QED BY <2>1, <2>2, <2>3, <3>1, PlacedApart
  <2> QED BY <2>4, <2>5 DEF vw, vh
<1> QED BY <1>1, CardTypeCorrect, PTL
-----------------------------------------------------------------------------
(* The Studio's source. *)
\* What may be chosen, and what excludes what.
Probes == [file : Files, stale : BOOLEAN]
SourceInv ==
  /\ src \in [tab : {"upload", "link"}, file : Files \cup {None}, link : BOOLEAN, sample : BOOLEAN]
  /\ src.file # None => src.tab = "upload"
\* The measuring that is still of interest is of the chosen file, and while the length
\* quoted is another's, it is under way.
ProbeInv ==
  /\ probes \subseteq Probes
  /\ \A p \in probes : p.stale \/ p.file = src.file
  /\ measured = src.file \/ \E p \in probes : ~p.stale
StudioInv == SourceInv /\ ProbeInv

LEMMA InitStudioInv == Dubbing!Init => StudioInv
  BY DEF Dubbing!Init, StudioInv, SourceInv, ProbeInv

\* Whatever is chosen, a file of another tab goes, and what was measured for another file
\* is stale.
LEMMA ChooseKeeps ==
  ASSUME StudioInv,
         NEW new \in [tab : {"upload", "link"}, file : Files \cup {None}, link : BOOLEAN, sample : BOOLEAN],
         Dubbing!Choose(new)
  PROVE  StudioInv'
<1> DEFINE kept == IF new.tab = "upload" THEN new.file ELSE None
<1>1. src' = [new EXCEPT !.file = kept, !.link = @ /\ new.tab = "link", !.sample = @ /\ kept = None]
  BY DEF Dubbing!Choose
<1>2. src'.file = kept /\ src'.tab = new.tab /\ kept \in Files \cup {None} /\ SourceInv'
  BY <1>1 DEF SourceInv
<1>3. CASE kept = src.file
  <2>1. UNCHANGED <<probes, measured>> BY <1>3 DEF Dubbing!Choose
  <2> HIDE DEF kept
  <2> QED BY <1>2, <1>3, <2>1 DEF StudioInv, ProbeInv
<1>4. CASE kept # src.file
  <2>1. /\ probes' = {[p EXCEPT !.stale = TRUE] : p \in probes} \cup {[file |-> f, stale |-> FALSE] : f \in {kept} \ {None}}
        /\ measured' = IF kept = None THEN None ELSE measured
    BY <1>4 DEF Dubbing!Choose
  <2> HIDE DEF kept
  <2>2. \A p \in probes : [p EXCEPT !.stale = TRUE] \in Probes /\ [p EXCEPT !.stale = TRUE].stale
    BY DEF StudioInv, ProbeInv, Probes
  <2>3. \A f \in {kept} \ {None} : /\ [file |-> f, stale |-> FALSE] \in Probes /\ f = src'.file
                                   /\ ~[file |-> f, stale |-> FALSE].stale
                                   /\ [file |-> f, stale |-> FALSE].file = f
    BY <1>2 DEF Probes
  <2>4. probes' \subseteq Probes /\ \A p \in probes' : p.stale \/ p.file = src'.file
    <3> SUFFICES ASSUME NEW q \in probes' PROVE q \in Probes /\ (q.stale \/ q.file = src'.file) OBVIOUS
    <3>1. CASE \E p \in probes : q = [p EXCEPT !.stale = TRUE] BY <2>2, <3>1
    <3>2. CASE \E f \in {kept} \ {None} : q = [file |-> f, stale |-> FALSE]
      <4>1. PICK f \in {kept} \ {None} : q = [file |-> f, stale |-> FALSE] BY <3>2
      <4>2. q \in Probes /\ q.file = src'.file BY <2>3, <4>1
      <4> QED BY <4>2
    <3> QED BY <2>1, <3>1, <3>2
  <2>5. measured' = src'.file \/ \E p \in probes' : ~p.stale
    <3>1. CASE kept = None BY <1>2, <2>1, <3>1
    <3>2. CASE kept # None
      <4>1. [file |-> kept, stale |-> FALSE] \in probes' BY <2>1, <3>2
      <4>2. ~[file |-> kept, stale |-> FALSE].stale OBVIOUS
      <4> QED BY <4>1, <4>2
    <3> QED BY <3>1, <3>2
  <2> QED BY <1>2, <2>4, <2>5 DEF StudioInv, ProbeInv
<1> QED BY <1>3, <1>4

\* A measuring that ends is told of the chosen file only, and the one that is of interest
\* is the one that is told.
LEMMA ProbedKeeps == ASSUME StudioInv, NEW p \in probes, Dubbing!Probed(p) PROVE StudioInv'
<1>1. /\ probes' = probes \ {p} /\ src' = src /\ measured' = IF p.stale THEN measured ELSE p.file
  BY DEF Dubbing!Probed, Dubbing!Measured
<1>2. SourceInv' BY <1>1 DEF StudioInv, SourceInv
<1>3. CASE p.stale BY <1>1, <1>3, <1>2 DEF StudioInv, ProbeInv
<1>4. CASE ~p.stale BY <1>1, <1>4, <1>2 DEF StudioInv, ProbeInv
<1> QED BY <1>3, <1>4

LEMMA StudioKeeps == ASSUME StudioInv, [Dubbing!Next]_(Dubbing!vars) PROVE StudioInv'
<1>1. src \in [tab : {"upload", "link"}, file : Files \cup {None}, link : BOOLEAN, sample : BOOLEAN]
  BY DEF StudioInv, SourceInv
<1>2. ASSUME NEW f \in Files, Dubbing!PickFile(f) PROVE StudioInv'
  BY <1>1, <1>2, ChooseKeeps DEF Dubbing!PickFile
<1>3. CASE Dubbing!TypeLink BY <1>1, <1>3, ChooseKeeps DEF Dubbing!TypeLink
<1>4. CASE Dubbing!Tab BY <1>1, <1>4, ChooseKeeps DEF Dubbing!Tab
<1>5. CASE Dubbing!UseSample BY <1>1, <1>5, ChooseKeeps DEF Dubbing!UseSample
<1>6. CASE Dubbing!Preset BY <1>1, <1>6, ChooseKeeps DEF Dubbing!Preset
<1>7. ASSUME UNCHANGED <<src, probes, measured>> PROVE StudioInv'
  BY <1>7 DEF StudioInv, SourceInv, ProbeInv
<1>8. CASE Dubbing!Following
  BY <1>7, <1>8 DEF Dubbing!Following, Dubbing!NewDub, Dubbing!Leave, Dubbing!Hear, Dubbing!Breaks, Dubbing!source
<1>9. ASSUME NEW r \in Runs, Dubbing!Starting(r) \/ Dubbing!JobEnds(r) PROVE StudioInv'
  BY <1>7, <1>9 DEF Dubbing!Starting, Dubbing!JobEnds, Dubbing!Click, Dubbing!Refused, Dubbing!Allowed,
                    Dubbing!Revoice, Dubbing!Created, Dubbing!NotCreated, Dubbing!source
<1>10. CASE UNCHANGED Dubbing!vars BY <1>7, <1>10 DEF Dubbing!vars
<1> QED BY <1>2, <1>3, <1>4, <1>5, <1>6, <1>8, <1>9, <1>10, ProbedKeeps DEF Dubbing!Next, Dubbing!Choosing

\* At most one of file, link and sample is a source.
LEMMA OneSourceOnly == ASSUME SourceInv PROVE Dubbing!OneSource
<1>1. \A a, b \in Dubbing!Sources : a = b
  BY DEF SourceInv, Dubbing!Sources, Dubbing!HasLink, Dubbing!IsSample
<1>2. CASE Dubbing!Sources = {}
  <2>1. Cardinality({}) = 0 BY FS_EmptySet
  <2>2. Dubbing!Cardinality({}) = 0 BY <2>1 DEF Dubbing!Cardinality, Cardinality
  <2> QED BY <1>2, <2>2 DEF Dubbing!OneSource
<1>3. CASE Dubbing!Sources # {}
  <2>1. PICK a \in Dubbing!Sources : TRUE BY <1>3
  <2>2. Dubbing!Sources = {a} BY <1>1, <2>1
  <2>3. Cardinality({a}) = 1 BY FS_Singleton
  <2>4. Dubbing!Cardinality({a}) = 1 BY <2>3 DEF Dubbing!Cardinality, Cardinality
  <2> QED BY <2>2, <2>4 DEF Dubbing!OneSource
<1> QED BY <1>2, <1>3

\* A behaviour of the run is one of the Studio, as long as nothing else moves.
LEMMA StudioRuns == HarnessSpec => Dubbing!Spec
<1>1. HarnessInit => Dubbing!Init BY DEF HarnessInit
<1>2. [HarnessNext]_allVars => [Dubbing!Next]_(Dubbing!vars)
  BY DEF HarnessNext, LightMoves, SessionMoves, DubbingMoves, SpeakingMoves, BuyMoves, allVars, DubbingVars, Dubbing!vars
<1> QED BY <1>1, <1>2, PTL DEF HarnessSpec, Dubbing!Spec

\* However files, links, tabs, samples and presets are switched, and however the measurings
\* end, one source is sent and the length quoted is its own.
THEOREM SameClipSent == HarnessSpec => []SameClip
<1>1. StudioInv => SameClip
  <2> SUFFICES ASSUME StudioInv PROVE SameClip OBVIOUS
  <2>1. Dubbing!OneSource BY OneSourceOnly DEF StudioInv
  <2>2. Dubbing!QuoteIsForFile BY DEF StudioInv, ProbeInv, Dubbing!QuoteIsForFile
  <2> QED BY <2>1, <2>2 DEF SameClip
<1>2. StudioInv /\ [Dubbing!Next]_(Dubbing!vars) => StudioInv' BY StudioKeeps, StudioAssumption
<1> QED BY <1>1, <1>2, InitStudioInv, StudioRuns, PTL DEF Dubbing!Spec
-----------------------------------------------------------------------------
(* Speech. *)
States == {"none", "queued", "voicing", "voiced", "written", "charged", "refused", "done", "failed", "lost"}
SpeechTyped ==
  /\ up \subseteq Speaking!Engines /\ file \in [Scripts -> BOOLEAN]
  /\ task \in [Scripts -> [st : States, engine : Speaking!Engines, voice : {"style", "design", "default"}, price : Nat]]
  /\ speakingPage \in [Readers -> [at : {"idle", "asking", "following"}, task : Scripts \cup {None},
                                   shows : {"none", "queued", "running", "done", "failed"}]]
  /\ balance \in Nat /\ paid \in [Scripts -> Nat]
\* A page that asks or follows has a script, and asks only where there is an engine.
Asking ==
  \A p \in Readers : /\ speakingPage[p].at # "idle" => speakingPage[p].task \in Scripts
                     /\ speakingPage[p].at = "asking" => up # {}
\* An engine that is asked for a voice, or is about to be, is there and has it.
Fitting(t) == task[t].st \in {"queued", "voicing"} => task[t].voice = Speaking!VoiceOf[task[t].engine] /\ task[t].engine \in up
\* What a task has cost, and what it left on the disk: nothing before the charge, its
\* price from then on, and its file from the writing until it fails.
Costs(t) ==
  /\ task[t].st \in {"none", "queued", "voicing", "voiced", "written", "refused"} => paid[t] = 0
  /\ task[t].st \in {"charged", "done"} => paid[t] = task[t].price
  /\ task[t].st \in {"written", "charged", "done"} => file[t]
  /\ task[t].st = "failed" => ~file[t]
SpeechInv == SpeechTyped /\ Asking /\ \A t \in Scripts : Fitting(t) /\ Costs(t)

LEMMA EnginesAre == Speaking!Engines = {"Navoiy", "OmniVoice", "edge-tts"} /\ \A e \in Speaking!Engines : Speaking!VoiceOf[e] \in {"style", "design", "default"}
  BY DEF Speaking!Engines, Speaking!VoiceOf
LEMMA EngineIsThere ==
  ASSUME up \subseteq Speaking!Engines
  PROVE  Speaking!EngineFor \in Speaking!Engines /\ (up # {} => Speaking!EngineFor \in up)
  BY EnginesAre DEF Speaking!EngineFor

LEMMA InitSpeechInv == Speaking!Init => SpeechInv
<1> SUFFICES ASSUME Speaking!Init PROVE SpeechInv OBVIOUS
<1>1. Speaking!Unknown \in [st : States, engine : Speaking!Engines, voice : {"style", "design", "default"}, price : Nat]
      /\ Speaking!Unknown.st = "none"
  BY EnginesAre DEF Speaking!Unknown, States
<1>2. SpeechTyped /\ Asking BY <1>1, SpeechAssumption DEF Speaking!Init, SpeechTyped, Asking
<1>3. ASSUME NEW t \in Scripts PROVE Fitting(t) /\ Costs(t) BY <1>1 DEF Speaking!Init, Fitting, Costs
<1> QED BY <1>2, <1>3 DEF SpeechInv

\* A step of a page: no task, file or payment changes, unless a task is started.
LEMMA PageKeepsSpeech ==
  ASSUME SpeechInv, NEW p \in Readers, Speaking!PageStep(p) PROVE SpeechInv'
<1> USE DEF SpeechInv
<1>1. CASE UNCHANGED <<up, task, file, balance, paid>>
  <2>1. speakingPage' = [speakingPage EXCEPT ![p] = speakingPage'[p]] /\ SpeechTyped'
        /\ (speakingPage'[p].at # "idle" => speakingPage'[p].task \in Scripts)
        /\ (speakingPage'[p].at = "asking" => up # {})
    <3> USE DEF SpeechTyped, Asking
    <3>1. CASE Speaking!Generate(p)
      <4>1. PICK t \in Scripts : speakingPage' = [speakingPage EXCEPT ![p] = [at |-> "asking", task |-> t, shows |-> "none"]]
        BY <3>1 DEF Speaking!Generate
      <4>2. [at |-> "asking", task |-> t, shows |-> "none"].task = t OBVIOUS
      <4>3. up # {} BY <3>1 DEF Speaking!Generate
      <4> QED BY <1>1, <4>1, <4>2, <4>3
    <3>2. CASE Speaking!Refuse(p) \/ Speaking!CreateFails(p) \/ Speaking!Leave(p)
      BY <1>1, <3>2 DEF Speaking!Refuse, Speaking!CreateFails, Speaking!Leave
    <3>3. CASE Speaking!Created(p) BY <1>1, <3>3 DEF Speaking!Created
    <3>4. CASE Speaking!Poll(p)
      <4>1. Speaking!Status(speakingPage[p].task) \in {"none", "queued", "running", "done", "failed"}
        BY DEF Speaking!Status
      <4> QED BY <1>1, <3>4, <4>1 DEF Speaking!Poll
    <3>5. CASE Speaking!PollFails(p) BY <1>1, <3>5 DEF Speaking!PollFails
    <3>6. CASE Speaking!Start(p) BY <1>1, <3>6 DEF Speaking!Start
    <3> QED BY <3>1, <3>2, <3>3, <3>4, <3>5, <3>6 DEF Speaking!PageStep
  <2>2. Asking' BY <1>1, <2>1 DEF Asking, SpeechTyped
  <2>3. \A t \in Scripts : Fitting(t)' /\ Costs(t)' BY <1>1 DEF Fitting, Costs
  <2> QED BY <2>1, <2>2, <2>3
<1>2. CASE Speaking!Start(p)
  <2> DEFINE t == speakingPage[p].task
             e == [st |-> "queued", engine |-> Speaking!EngineFor, voice |-> Speaking!VoiceOf[Speaking!EngineFor], price |-> 0]
  <2>1. t \in Scripts /\ up # {} /\ task[t].st = "none" /\ task' = [task EXCEPT ![t] = e] /\ UNCHANGED <<up, file, balance, paid, speakingPage>>
    BY <1>2 DEF Speaking!Start, Asking
  <2>2. e \in [st : States, engine : Speaking!Engines, voice : {"style", "design", "default"}, price : Nat]
        /\ e.engine \in up /\ e.st = "queued" /\ e.voice = Speaking!VoiceOf[e.engine]
    BY <2>1, EngineIsThere, EnginesAre DEF SpeechTyped, States
  <2> HIDE DEF t, e
  <2>3. SpeechTyped' /\ Asking' BY <2>1, <2>2 DEF SpeechTyped, Asking
  <2>4. ASSUME NEW u \in Scripts PROVE Fitting(u)' /\ Costs(u)'
    BY <2>1, <2>2 DEF SpeechTyped, Fitting, Costs
  <2> QED BY <2>3, <2>4
<1> QED BY <1>1, <1>2 DEF Speaking!PageStep, Speaking!Generate, Speaking!Refuse, Speaking!Created, Speaking!CreateFails, Speaking!Poll, Speaking!PollFails, Speaking!Leave

\* A step of a task changes that task, its file and what was paid for it.
LEMMA TaskKeepsSpeech ==
  ASSUME SpeechInv, NEW t \in Scripts, Speaking!TaskStep(t) PROVE SpeechInv'
<1> DEFINE TaskType == [st : States, engine : Speaking!Engines, voice : {"style", "design", "default"}, price : Nat]
<1>1. /\ task \in [Scripts -> TaskType] /\ file \in [Scripts -> BOOLEAN] /\ paid \in [Scripts -> Nat] /\ balance \in Nat
      /\ up \subseteq Speaking!Engines /\ Fitting(t) /\ Costs(t)
  BY DEF SpeechInv, SpeechTyped
<1>2. UNCHANGED <<up, speakingPage>>
  BY DEF Speaking!TaskStep, Speaking!Run, Speaking!Voiced, Speaking!NextEngine, Speaking!Write, Speaking!Commit, Speaking!Done, Speaking!Fail
\* What suffices of each step.
<1>3. ASSUME task' \in [Scripts -> TaskType], file' \in [Scripts -> BOOLEAN], paid' \in [Scripts -> Nat], balance' \in Nat,
             \A u \in Scripts \ {t} : task'[u] = task[u] /\ file'[u] = file[u] /\ paid'[u] = paid[u],
             Fitting(t)', Costs(t)'
      PROVE  SpeechInv'
  <2>1. SpeechTyped' /\ Asking' BY <1>2, <1>3 DEF SpeechInv, SpeechTyped, Asking
  <2>2. ASSUME NEW u \in Scripts PROVE Fitting(u)' /\ Costs(u)'
    <3>1. CASE u = t BY <1>3, <3>1
    <3>2. CASE u # t BY <1>2, <1>3, <3>2 DEF SpeechInv, Fitting, Costs
    <3> QED BY <3>1, <3>2
  <2> QED BY <2>1, <2>2 DEF SpeechInv
<1> USE DEF Fitting, Costs, States
<1>4. CASE Speaking!Run(t) BY <1>1, <1>2, <1>3, <1>4 DEF Speaking!Run
<1>5. CASE Speaking!Voiced(t)
  <2>1. PICK c \in Prices : task' = [task EXCEPT ![t].st = "voiced", ![t].price = c] BY <1>5 DEF Speaking!Voiced
  <2>2. c \in Nat BY SpeechAssumption
  <2>3. task[t].st = "voicing" /\ UNCHANGED <<file, balance, paid>> BY <1>5 DEF Speaking!Voiced
  <2>4. PICK e \in TaskType : e = [task[t] EXCEPT !.st = "voiced", !.price = c]
    <3>1. [task[t] EXCEPT !.st = "voiced", !.price = c] \in TaskType BY <1>1, <2>2
    <3> QED BY <3>1
  <2>5. e.st = "voiced" /\ task' = [task EXCEPT ![t] = e] BY <1>1, <2>1, <2>4
  <2> HIDE DEF TaskType
  <2>6. task' \in [Scripts -> TaskType] /\ task'[t].st = "voiced" /\ \A u \in Scripts \ {t} : task'[u] = task[u]
    BY <1>1, <2>5
  <2>7. Fitting(t)' /\ Costs(t)' BY <1>1, <2>3, <2>6
  <2> QED BY <1>1, <1>3, <2>3, <2>6, <2>7
<1>6. CASE Speaking!NextEngine(t)
  <2> DEFINE e == IF "OmniVoice" \in up THEN "OmniVoice" ELSE "edge-tts"
  <2>1. e \in Speaking!Engines /\ e \in up BY <1>1, <1>6, EnginesAre DEF Speaking!NextEngine
  <2>2. task' = [task EXCEPT ![t].engine = e, ![t].voice = Speaking!VoiceOf[e]] BY <1>6 DEF Speaking!NextEngine, Speaking!FallBack
  <2>3. Speaking!VoiceOf[e] \in {"style", "design", "default"} BY <2>1, EnginesAre
  <2> HIDE DEF e
  <2> QED BY <1>1, <1>2, <1>3, <1>6, <2>1, <2>2, <2>3 DEF Speaking!NextEngine
<1>7. CASE Speaking!Write(t) BY <1>1, <1>2, <1>3, <1>7 DEF Speaking!Write
<1>8. CASE Speaking!Commit(t)
  <2>1. CASE balance >= task[t].price
    <3>1. balance' = balance - task[t].price /\ paid' = [paid EXCEPT ![t] = @ + task[t].price]
          /\ task' = [task EXCEPT ![t].st = "charged"] /\ file' = file /\ task[t].st = "written"
      BY <1>8, <2>1 DEF Speaking!Commit
    <3>2. balance' \in Nat /\ paid[t] = 0 /\ task[t].price \in Nat BY <1>1, <2>1, <3>1
    <3>3. paid' \in [Scripts -> Nat] /\ paid'[t] = task[t].price BY <1>1, <3>1, <3>2
    <3>4. task' \in [Scripts -> TaskType] /\ task'[t].st = "charged" /\ task'[t].price = task[t].price
          /\ \A u \in Scripts \ {t} : task'[u] = task[u] /\ paid'[u] = paid[u]
      BY <1>1, <3>1
    <3>5. Fitting(t)' /\ Costs(t)' BY <1>1, <3>1, <3>3, <3>4
    <3>6. file' \in [Scripts -> BOOLEAN] /\ \A u \in Scripts \ {t} : task'[u] = task[u] /\ file'[u] = file[u] /\ paid'[u] = paid[u]
      BY <1>1, <3>1, <3>4
    <3> HIDE DEF TaskType, Fitting, Costs
    <3> QED BY <1>3, <3>2, <3>3, <3>4, <3>5, <3>6
  <2>2. CASE ~(balance >= task[t].price)
    <3>1. task' = [task EXCEPT ![t].st = "refused"] /\ UNCHANGED <<file, balance, paid>> /\ task[t].st = "written"
      BY <1>8, <2>2 DEF Speaking!Commit
    <3>2. task' \in [Scripts -> TaskType] /\ task'[t].st = "refused" /\ \A u \in Scripts \ {t} : task'[u] = task[u]
      BY <1>1, <3>1
    <3>3. Fitting(t)' /\ Costs(t)' BY <1>1, <3>1, <3>2
    <3> HIDE DEF TaskType, Fitting, Costs
    <3> QED BY <1>1, <1>3, <3>1, <3>2, <3>3
  <2> QED BY <2>1, <2>2
<1>9. CASE Speaking!Done(t) BY <1>1, <1>2, <1>3, <1>9 DEF Speaking!Done
<1>10. CASE Speaking!Fail(t) BY <1>1, <1>2, <1>3, <1>10 DEF Speaking!Fail, Speaking!DropFile
<1> QED BY <1>4, <1>5, <1>6, <1>7, <1>8, <1>9, <1>10 DEF Speaking!TaskStep

LEMMA RestartKeepsSpeech == ASSUME SpeechInv, Speaking!Restart PROVE SpeechInv'
<1>1. /\ task' = [t \in Scripts |-> IF task[t].st = "none" THEN Speaking!Unknown ELSE [Speaking!Unknown EXCEPT !.st = "lost"]]
      /\ UNCHANGED <<up, file, balance, paid, speakingPage>>
  BY DEF Speaking!Restart
<1>2. /\ Speaking!Unknown \in [st : States, engine : Speaking!Engines, voice : {"style", "design", "default"}, price : Nat]
      /\ [Speaking!Unknown EXCEPT !.st = "lost"] \in [st : States, engine : Speaking!Engines, voice : {"style", "design", "default"}, price : Nat]
      /\ Speaking!Unknown.st = "none" /\ [Speaking!Unknown EXCEPT !.st = "lost"].st = "lost"
  BY EnginesAre DEF Speaking!Unknown, States
<1>3. SpeechTyped' /\ Asking' BY <1>1, <1>2 DEF SpeechInv, SpeechTyped, Asking
<1>4. ASSUME NEW t \in Scripts PROVE Fitting(t)' /\ Costs(t)'
  <2>1. task'[t].st \in {"none", "lost"} /\ (task'[t].st = "none" => task[t].st = "none") BY <1>1, <1>2
  <2> QED BY <1>1, <2>1 DEF SpeechInv, Fitting, Costs
<1> QED BY <1>3, <1>4 DEF SpeechInv

LEMMA SpeechKeeps == ASSUME SpeechInv, [Speaking!Next]_(Speaking!vars) PROVE SpeechInv'
<1>1. CASE UNCHANGED Speaking!vars
  BY <1>1 DEF Speaking!vars, SpeechInv, SpeechTyped, Asking, Fitting, Costs
<1> QED BY <1>1, PageKeepsSpeech, TaskKeepsSpeech, RestartKeepsSpeech DEF Speaking!Next

LEMMA SpeechRuns == HarnessSpec => Speaking!Spec
<1>1. HarnessInit => Speaking!Init BY DEF HarnessInit
<1>2. [HarnessNext]_allVars => [Speaking!Next]_(Speaking!vars)
  BY DEF HarnessNext, LightMoves, SessionMoves, DubbingMoves, SpeakingMoves, BuyMoves, allVars, SpeakingVars, Speaking!vars
<1> QED BY <1>1, <1>2, PTL DEF HarnessSpec, Speaking!Spec

LEMMA SpeechInvariant == HarnessSpec => []SpeechInv
<1>1. SpeechInv /\ [Speaking!Next]_(Speaking!vars) => SpeechInv' BY SpeechKeeps
<1> QED BY <1>1, InitSpeechInv, SpeechRuns, PTL DEF Speaking!Spec
LEMMA SpeechIsPaid == SpeechInv => Speaking!PaidSpeech /\ Speaking!VoiceFitsEngine
  BY DEF SpeechInv, Fitting, Costs, Speaking!PaidSpeech, Speaking!VoiceFitsEngine
-----------------------------------------------------------------------------
(* Buying. *)
Stands == {"none", "asked", "open", "pending", "paid", "failed", "credited"}
Claims == [at : {"none", "asked", "answered"}, res : {"none", "claimed", "nothing", "failed"},
           recent : SUBSET Nat, pending : BOOLEAN, since : Nat, due : SUBSET Orders]
Sights == [at : {"none", "asked", "read"}, got : SUBSET Orders]
BuyTabs == [at : {"app", "leaving", "store", "success"}, buys : Orders \cup {None},
            told : {"none", "claiming", "granted", "already", "waiting", "failed"}, till : Int,
            page : Claims, app : Claims, due : SUBSET Orders, anew : BOOLEAN, stale : BOOLEAN, fetch : Sights,
            warm : BOOLEAN, shows : SUBSET Orders]
BuyTyped ==
  /\ now \in Nat /\ mark \in Nat /\ buyTab \in [Buyers -> BuyTabs]
  /\ order \in [Orders -> [st : Stands, when : Nat]]
\* A page on its way to the checkout has asked for its order, which nobody else asks for.
Leaving ==
  /\ \A t \in Buyers : buyTab[t].at = "leaving" => buyTab[t].buys \in Orders /\ order[buyTab[t].buys].st = "asked"
  /\ \A t, u \in Buyers : buyTab[t].at = "leaving" /\ buyTab[u].at = "leaving" /\ buyTab[t].buys = buyTab[u].buys => t = u
\* What was due when the page asked is paid or credited, and credited once the answer says
\* there is nothing left to credit; what it told is credited; and is in the balance it has
\* read, or shows, once it has read the one it then asked for.
Heard(r) ==
  /\ r.page.at \in {"asked", "answered"} => r.page.due \subseteq Buy!Due
  /\ r.page.at = "answered" /\ r.page.res \in {"claimed", "nothing"} => r.page.due \subseteq Buy!Credited
  /\ r.fetch.got \subseteq Buy!Credited /\ r.shows \subseteq Buy!Credited
  /\ r.told \in {"granted", "already"} =>
       /\ r.due \subseteq Buy!Credited
       /\ r.anew /\ r.fetch.at = "read" => r.due \subseteq r.fetch.got
       /\ r.anew /\ r.fetch.at = "none" /\ ~r.stale => r.due \subseteq r.shows
BuyInv == BuyTyped /\ Leaving /\ \A t \in Buyers : Heard(buyTab[t])

\* The states of the orders go forward: what is due stays due or is credited, what is
\* credited stays so.
Forward == Buy!Due \subseteq (Buy!Due)' /\ Buy!Credited \subseteq (Buy!Credited)'

\* Which records are of which kind.
LEMMA Records ==
  /\ Buy!Claim0 \in Claims /\ Buy!Fetch0 \in Sights /\ Buy!Tab0 \in BuyTabs
  /\ Buy!Claim0.at = "none" /\ Buy!Fetch0.at = "none" /\ Buy!Fetch0.got = {}
  /\ Buy!Tab0.at = "app" /\ Buy!Tab0.told = "none" /\ Buy!Tab0.page = Buy!Claim0 /\ Buy!Tab0.fetch = Buy!Fetch0 /\ Buy!Tab0.shows = {}
  /\ Buy!Opened = [Buy!Tab0 EXCEPT !.fetch = [Buy!Fetch0 EXCEPT !.at = "asked"], !.warm = FALSE]
<1>1. Buy!Claim0 \in Claims BY DEF Buy!Claim0, Claims
<1>2. Buy!Fetch0 \in Sights BY DEF Buy!Fetch0, Sights
<1>3. Buy!Tab0 \in BuyTabs BY <1>1, <1>2 DEF Buy!Tab0, BuyTabs
<1> QED BY <1>1, <1>2, <1>3 DEF Buy!Tab0, Buy!Claim0, Buy!Fetch0, Buy!Opened

LEMMA InitBuyInv == Buy!Init => BuyInv
<1> SUFFICES ASSUME Buy!Init PROVE BuyInv OBVIOUS
<1>1. BuyTyped BY Records DEF Buy!Init, BuyTyped, Stands
<1>2. \A t \in Buyers : buyTab[t] = Buy!Tab0 BY DEF Buy!Init
<1>3. Leaving BY <1>2, Records DEF Leaving
<1>4. \A t \in Buyers : Heard(buyTab[t]) BY <1>2, Records DEF Heard
<1> QED BY <1>1, <1>3, <1>4 DEF BuyInv

\* A step changes one page's record, or none: what is to be shown of the new record.
LEMMA TabTurns ==
  ASSUME BuyInv, NEW t \in Buyers, NEW r \in BuyTabs, buyTab' = [buyTab EXCEPT ![t] = r],
         now' \in Nat, mark' \in Nat, order' \in [Orders -> [st : Stands, when : Nat]], Forward, Heard(r)',
         r.at = "leaving" => r.buys \in Orders /\ order'[r.buys].st = "asked"
                             /\ \A u \in Buyers \ {t} : buyTab[u].at = "leaving" => buyTab[u].buys # r.buys,
         \A u \in Buyers \ {t} : buyTab[u].at = "leaving" => order'[buyTab[u].buys].st = "asked"
  PROVE  BuyInv'
<1>1. BuyTyped' BY DEF BuyInv, BuyTyped
<1>2. /\ buyTab \in [Buyers -> BuyTabs] /\ buyTab'[t] = r
      /\ \A u \in Buyers \ {t} : buyTab'[u] = buyTab[u]
  BY DEF BuyInv, BuyTyped
<1>3. Leaving' BY <1>2 DEF BuyInv, Leaving
<1>4. ASSUME NEW u \in Buyers PROVE Heard(buyTab[u])'
  <2>1. CASE u = t BY <1>2, <2>1 DEF Heard
  <2>2. CASE u # t
    <3>1. Heard(buyTab[u]) BY DEF BuyInv
    <3> QED BY <1>2, <2>2, <3>1 DEF Heard, Forward
  <2> QED BY <2>1, <2>2
<1> QED BY <1>1, <1>3, <1>4 DEF BuyInv

\* ... or no page's record, and an order's that nobody is leaving for.
LEMMA OrdersTurn ==
  ASSUME BuyInv, UNCHANGED buyTab, now' \in Nat, mark' \in Nat,
         order' \in [Orders -> [st : Stands, when : Nat]], Forward,
         \A o \in Orders : order[o].st = "asked" => order'[o].st = "asked"
  PROVE  BuyInv'
<1>1. BuyTyped' BY DEF BuyInv, BuyTyped
<1>2. Leaving' BY DEF BuyInv, Leaving
<1>3. ASSUME NEW u \in Buyers PROVE Heard(buyTab[u])'
  <2>1. Heard(buyTab[u]) BY DEF BuyInv
  <2> QED BY <2>1 DEF Heard, Forward
<1> QED BY <1>1, <1>2, <1>3 DEF BuyInv

\* Where no order moves.
LEMMA PageTurnsOnly ==
  ASSUME BuyInv, NEW t \in Buyers, NEW r \in BuyTabs, buyTab' = [buyTab EXCEPT ![t] = r],
         UNCHANGED <<now, order>>, mark' \in Nat, Heard(r), r.at # "leaving" \/ (buyTab[t].at = "leaving" /\ r.buys = buyTab[t].buys)
  PROVE  BuyInv'
<1>1. Buy!Due' = Buy!Due /\ Buy!Credited' = Buy!Credited BY DEF Buy!Due, Buy!Credited
<1>2. Heard(r)' /\ Forward BY <1>1 DEF Heard, Forward
<1>3. now' \in Nat /\ order' \in [Orders -> [st : Stands, when : Nat]] BY DEF BuyInv, BuyTyped
<1>4. r.at = "leaving" => r.buys \in Orders /\ order'[r.buys].st = "asked"
                          /\ \A u \in Buyers \ {t} : buyTab[u].at = "leaving" => buyTab[u].buys # r.buys
  BY DEF BuyInv, Leaving
<1>5. \A u \in Buyers \ {t} : buyTab[u].at = "leaving" => order'[buyTab[u].buys].st = "asked"
  BY DEF BuyInv, Leaving
<1> QED BY <1>2, <1>3, <1>4, <1>5, TabTurns

LEMMA StartCheckoutKeeps == ASSUME BuyInv, NEW t \in Buyers, NEW o \in Orders, Buy!StartCheckout(t, o) PROVE BuyInv'
<1>1. buyTab[t] \in BuyTabs /\ Heard(buyTab[t]) /\ order \in [Orders -> [st : Stands, when : Nat]] BY DEF BuyInv, BuyTyped
<1>2. PICK r \in BuyTabs : r = [buyTab[t] EXCEPT !.at = "leaving", !.buys = o] BY <1>1 DEF BuyTabs
<1>3. order[o].st = "none" /\ order' = [order EXCEPT ![o].st = "asked"] /\ UNCHANGED <<now, mark>>
  BY DEF Buy!StartCheckout
<1>4. order' \in [Orders -> [st : Stands, when : Nat]] /\ order'[o].st = "asked" /\ \A q \in Orders \ {o} : order'[q] = order[q]
  BY <1>1, <1>3 DEF Stands
<1>5. Buy!Due' = Buy!Due /\ Buy!Credited' = Buy!Credited BY <1>3, <1>4, BuyingAssumption DEF Buy!Due, Buy!Credited
<1>6. Heard(r)' /\ Forward BY <1>1, <1>2, <1>5 DEF Heard, Forward
<1>9. r.at = "leaving" /\ r.buys = o /\ buyTab' = [buyTab EXCEPT ![t] = r] BY <1>1, <1>2 DEF BuyTabs, Buy!StartCheckout, Buy!Set
<1>7. now' \in Nat /\ mark' \in Nat BY <1>3 DEF BuyInv, BuyTyped
<1>8. \A u \in Buyers : buyTab[u].at = "leaving" => buyTab[u].buys # o /\ order'[buyTab[u].buys].st = "asked"
  BY <1>3, <1>4 DEF BuyInv, Leaving
<1>10. r.at = "leaving" => r.buys \in Orders /\ order'[r.buys].st = "asked"
                           /\ \A u \in Buyers \ {t} : buyTab[u].at = "leaving" => buyTab[u].buys # r.buys
  BY <1>4, <1>8, <1>9
<1>11. \A u \in Buyers \ {t} : buyTab[u].at = "leaving" => order'[buyTab[u].buys].st = "asked" BY <1>8
<1> QED BY <1>4, <1>6, <1>7, <1>9, <1>10, <1>11, TabTurns

LEMMA CheckoutUrlKeeps == ASSUME BuyInv, NEW t \in Buyers, Buy!CheckoutUrl(t) PROVE BuyInv'
<1> DEFINE o == buyTab[t].buys
<1>1. buyTab[t] \in BuyTabs /\ Heard(buyTab[t]) /\ order \in [Orders -> [st : Stands, when : Nat]] BY DEF BuyInv, BuyTyped
<1>2. o \in Orders /\ order[o].st = "asked" /\ now' = now BY DEF Buy!CheckoutUrl, BuyInv, Leaving
<1>3. PICK st \in {"open", "none"}, r \in BuyTabs :
        /\ order' = [order EXCEPT ![o].st = st] /\ buyTab' = [buyTab EXCEPT ![t] = r] /\ mark' \in {mark, now + 1}
        /\ r.at # "leaving" /\ Heard(r)
  <2>1. CASE order' = [order EXCEPT ![o].st = "open"] /\ mark' = now + 1 /\ Buy!Set(t, [buyTab[t] EXCEPT !.at = "store"])
    <3>1. [buyTab[t] EXCEPT !.at = "store"] \in BuyTabs BY <1>1 DEF BuyTabs
    <3>2. Heard([buyTab[t] EXCEPT !.at = "store"]) BY <1>1 DEF Heard
    <3>3. [buyTab[t] EXCEPT !.at = "store"].at # "leaving" BY <1>1 DEF BuyTabs
    <3> QED BY <2>1, <3>1, <3>2, <3>3 DEF Buy!Set
  <2>2. CASE order' = [order EXCEPT ![o].st = "none"] /\ UNCHANGED mark /\ Buy!Set(t, [buyTab[t] EXCEPT !.at = "app", !.buys = None])
    <3>1. [buyTab[t] EXCEPT !.at = "app", !.buys = None] \in BuyTabs BY <1>1 DEF BuyTabs
    <3>2. Heard([buyTab[t] EXCEPT !.at = "app", !.buys = None]) BY <1>1 DEF Heard
    <3>3. [buyTab[t] EXCEPT !.at = "app", !.buys = None].at # "leaving" BY <1>1 DEF BuyTabs
    <3> QED BY <2>2, <3>1, <3>2, <3>3 DEF Buy!Set
  <2> QED BY <2>1, <2>2 DEF Buy!CheckoutUrl
<1>4. order' \in [Orders -> [st : Stands, when : Nat]] /\ order'[o].st \in {"open", "none"} /\ \A q \in Orders \ {o} : order'[q] = order[q]
  BY <1>1, <1>2, <1>3 DEF Stands
<1>5. Buy!Due' = Buy!Due /\ Buy!Credited' = Buy!Credited BY <1>2, <1>4, BuyingAssumption DEF Buy!Due, Buy!Credited
<1>6. Heard(r)' /\ Forward BY <1>3, <1>5 DEF Heard, Forward
<1>7. now' \in Nat /\ mark' \in Nat BY <1>2, <1>3 DEF BuyInv, BuyTyped
<1>8. \A u \in Buyers \ {t} : buyTab[u].at = "leaving" => order'[buyTab[u].buys].st = "asked"
  <2> SUFFICES ASSUME NEW u \in Buyers \ {t}, buyTab[u].at = "leaving" PROVE order'[buyTab[u].buys].st = "asked" OBVIOUS
  <2>1. buyTab[u].buys # o /\ buyTab[u].buys \in Orders /\ order[buyTab[u].buys].st = "asked"
    BY DEF BuyInv, Leaving, Buy!CheckoutUrl
  <2> QED BY <1>4, <2>1
<1> QED BY <1>3, <1>4, <1>6, <1>7, <1>8, TabTurns

LEMMA OrderMoves == ASSUME BuyInv, NEW o \in Orders, Buy!Store(o) \/ Buy!Credit(o) PROVE BuyInv'
<1>1. order \in [Orders -> [st : Stands, when : Nat]] /\ now \in Nat /\ mark \in Nat BY DEF BuyInv, BuyTyped
<1>2. /\ \A q \in Orders \ {o} : order'[q] = order[q]
      /\ order' \in [Orders -> [st : Stands, when : Nat]] /\ UNCHANGED <<now, mark, buyTab>>
      /\ order[o].st \notin {"asked", "credited"} /\ (order[o].st = "paid" => order'[o].st = "credited")
  <2>1. CASE Buy!Credit(o) BY <1>1, <2>1 DEF Buy!Credit, Stands
  <2>2. CASE Buy!Store(o)
    <3>1. PICK st \in Stands : order' = [order EXCEPT ![o].st = st] /\ order[o].st \in {"open", "pending"}
      BY <2>2 DEF Buy!Store, Stands
    <3> QED BY <1>1, <2>2, <3>1 DEF Buy!Store
  <2> QED BY <2>1, <2>2
<1>3. Forward BY <1>2, BuyingAssumption DEF Forward, Buy!Due, Buy!Credited
<1>4. \A q \in Orders : order[q].st = "asked" => order'[q].st = "asked" BY <1>2
<1> QED BY <1>1, <1>2, <1>3, <1>4, OrdersTurn

\* The steps that move a page only.
LEMMA ReturnKeeps == ASSUME BuyInv, NEW t \in Buyers, Buy!Return(t) PROVE BuyInv'
<1> DEFINE f == [Buy!Fetch0 EXCEPT !.at = "asked"]
           back == [Buy!Tab0 EXCEPT !.fetch = f, !.warm = FALSE]
           thanks == [back EXCEPT !.at = "success", !.told = "claiming", !.till = now + Patience]
<1>1. now + Patience \in Int BY BuyingAssumption DEF BuyInv, BuyTyped
<1>2. f \in Sights /\ f.at = "asked" /\ f.got = {} BY Records DEF Sights
<1>5. buyTab' = [buyTab EXCEPT ![t] = back] \/ buyTab' = [buyTab EXCEPT ![t] = thanks] BY Records DEF Buy!Return, Buy!Set
<1> HIDE DEF f
<1>3. back \in BuyTabs /\ back.page = Buy!Claim0 /\ back.fetch = f /\ back.shows = {} /\ back.told = "none" /\ back.at = "app"
  BY <1>2, Records DEF BuyTabs
<1> HIDE DEF back
<1>6. thanks \in BuyTabs /\ thanks.page = Buy!Claim0 /\ thanks.fetch = f /\ thanks.shows = {} /\ thanks.told = "claiming" /\ thanks.at = "success"
  BY <1>1, <1>3 DEF BuyTabs
<1> HIDE DEF thanks
<1>7. Heard(back) /\ Heard(thanks) BY <1>2, <1>3, <1>6, Records DEF Heard
<1>4. UNCHANGED <<now, order>> /\ mark' \in Nat BY DEF Buy!Return, BuyInv, BuyTyped
<1> QED BY <1>3, <1>4, <1>5, <1>6, <1>7, PageTurnsOnly

\* A page that asks: what is due now is what its answer is measured by.
LEMMA AskPageKeeps == ASSUME BuyInv, NEW t \in Buyers, Buy!AskPage(t) PROVE BuyInv'
<1> DEFINE c == [Buy!Claim0 EXCEPT !.at = "asked", !.due = Buy!Due]
           r == [buyTab[t] EXCEPT !.page = c]
<1>1. buyTab[t] \in BuyTabs /\ Heard(buyTab[t]) BY DEF BuyInv, BuyTyped
<1>2. Buy!Due \subseteq Orders BY BuyingAssumption DEF Buy!Due, Buy!Credited
<1>3. c \in Claims /\ c.at = "asked" /\ c.due = Buy!Due BY <1>2, Records DEF Claims
<1> HIDE DEF c
<1>4. r \in BuyTabs /\ r.at = buyTab[t].at /\ r.buys = buyTab[t].buys BY <1>1, <1>3 DEF BuyTabs
<1>5. Heard(r) BY <1>1, <1>3 DEF Heard, BuyTabs
<1>6. UNCHANGED <<now, order>> /\ mark' \in Nat /\ buyTab' = [buyTab EXCEPT ![t] = r] BY DEF Buy!AskPage, BuyInv, BuyTyped, Buy!Set, c
<1> HIDE DEF r
<1> QED BY <1>4, <1>5, <1>6, PageTurnsOnly

LEMMA AskAppKeeps == ASSUME BuyInv, NEW t \in Buyers, Buy!AskApp(t) PROVE BuyInv'
<1> DEFINE c == [Buy!Claim0 EXCEPT !.at = "asked", !.since = mark, !.due = Buy!Due]
           r == [buyTab[t] EXCEPT !.app = c]
<1>1. buyTab[t] \in BuyTabs /\ Heard(buyTab[t]) /\ mark \in Nat BY DEF BuyInv, BuyTyped
<1>2. Buy!Due \subseteq Orders BY BuyingAssumption DEF Buy!Due, Buy!Credited
<1>3. c \in Claims BY <1>1, <1>2, Records DEF Claims
<1> HIDE DEF c
<1>4. r \in BuyTabs /\ r.at = buyTab[t].at /\ r.buys = buyTab[t].buys BY <1>1, <1>3 DEF BuyTabs
<1>5. Heard(r) BY <1>1, <1>3 DEF Heard, BuyTabs
<1>6. UNCHANGED <<now, order>> /\ mark' \in Nat BY <1>1 DEF Buy!AskApp, Buy!StartedAt
<1>7. buyTab' = buyTab \/ buyTab' = [buyTab EXCEPT ![t] = r] BY DEF Buy!AskApp, Buy!Set, c
<1> HIDE DEF r
<1>8. CASE buyTab' = buyTab
  <2>1. buyTab' = [buyTab EXCEPT ![t] = buyTab[t]] BY <1>8 DEF BuyInv, BuyTyped
  <2> QED BY <1>1, <1>6, <2>1, PageTurnsOnly
<1> QED BY <1>4, <1>5, <1>6, <1>7, <1>8, PageTurnsOnly

\* The balance is asked for anew, or the first answer waited for.
LEMMA AskedAnew ==
  ASSUME NEW p \in BuyTabs, Heard(p)
  PROVE  LET q == Buy!Invalidate(p) IN
         q \in BuyTabs /\ Heard(q) /\ q.at = p.at /\ q.buys = p.buys /\ q.told = p.told /\ q.page = p.page
<1> DEFINE f == [Buy!Fetch0 EXCEPT !.at = "asked"]
           q == [p EXCEPT !.fetch = f]
<1>1. Buy!Invalidate(p) \in {p, q} BY DEF Buy!Invalidate
<1>2. f \in Sights /\ f.at = "asked" /\ f.got = {} BY Records DEF Sights
<1> HIDE DEF f
<1>3. q \in BuyTabs BY <1>2 DEF BuyTabs
<1>4. /\ q.page = p.page /\ q.told = p.told /\ q.due = p.due /\ q.shows = p.shows /\ q.at = p.at /\ q.buys = p.buys
      /\ q.fetch = f
  BY DEF BuyTabs
<1> HIDE DEF q
<1>5. Heard(q) BY <1>2, <1>4 DEF Heard
<1> QED BY <1>1, <1>3, <1>4, <1>5

\* What a page is told, and the balance it then asks for.
LEMMA Told ==
  ASSUME NEW r \in BuyTabs, Heard(r), r.page.at = "answered", r.page.res \in {"claimed", "nothing"}, NEW said \in {"granted", "already"}
  PROVE  LET q == Buy!Tell(r, said) IN
         /\ q \in BuyTabs /\ Heard(q) /\ q.at = r.at /\ q.buys = r.buys
         /\ q.told = IF r.at = "success" THEN said ELSE r.told
<1> DEFINE h == [r EXCEPT !.page = Buy!Claim0]
           p == [h EXCEPT !.told = said, !.due = r.page.due, !.anew = Buy!AsksAnew(r)]
           f == [Buy!Fetch0 EXCEPT !.at = "asked"]
           q == [p EXCEPT !.fetch = f]
<1>1. h \in BuyTabs /\ h.page = Buy!Claim0 /\ h.told = r.told /\ h.due = r.due /\ h.shows = r.shows /\ h.at = r.at /\ h.buys = r.buys
      /\ h.fetch = r.fetch /\ h.stale = r.stale /\ h.anew = r.anew /\ h.warm = r.warm
  BY Records DEF BuyTabs
<1>2. Buy!Tell(r, said) = IF r.at = "success" THEN Buy!Invalidate(p) ELSE Buy!Invalidate(h) BY DEF Buy!Tell, Buy!Heard
<1> HIDE DEF h
<1>3. Heard(h) BY <1>1, Records DEF Heard
<1>4. CASE r.at # "success" BY <1>1, <1>2, <1>3, <1>4, AskedAnew
<1>5. CASE r.at = "success"
  <2>1. r.page.due \in SUBSET Orders /\ Buy!AsksAnew(r) \in BOOLEAN BY DEF BuyTabs, Claims, Buy!AsksAnew
  <2>2. p \in BuyTabs /\ p.page = Buy!Claim0 /\ p.told = said /\ p.due = r.page.due /\ p.shows = r.shows /\ p.at = r.at /\ p.buys = r.buys
        /\ p.fetch = r.fetch /\ p.warm = r.warm /\ p.anew = Buy!AsksAnew(r)
    BY <1>1, <2>1 DEF BuyTabs
  <2>3. Buy!Invalidate(p) = IF Buy!AsksAnew(r) THEN q ELSE p BY <2>2 DEF Buy!Invalidate, Buy!AsksAnew
  <2>4. f \in Sights /\ f.at = "asked" /\ f.got = {} BY Records DEF Sights
  <2> HIDE DEF p, f
  <2>5. q \in BuyTabs /\ q.page = Buy!Claim0 /\ q.told = said /\ q.due = r.page.due /\ q.shows = r.shows /\ q.at = r.at /\ q.buys = r.buys
        /\ q.fetch = f
    BY <2>2, <2>4 DEF BuyTabs
  <2> HIDE DEF q
  <2>6. r.page.due \subseteq Buy!Credited BY DEF Heard
  <2>7. Heard(q) BY <2>4, <2>5, <2>6, Records DEF Heard
  <2>8. ~Buy!AsksAnew(r) => Heard(p)
    <3> SUFFICES ASSUME ~Buy!AsksAnew(r) PROVE Heard(p) OBVIOUS
    <3>1. ~p.anew BY <2>2
    <3> QED BY <2>2, <2>6, <3>1, Records DEF Heard
  <2> QED BY <1>2, <1>5, <2>2, <2>3, <2>5, <2>7, <2>8
<1> QED BY <1>4, <1>5

LEMMA HearPageKeeps == ASSUME BuyInv, NEW t \in Buyers, Buy!HearPage(t) PROVE BuyInv'
<1>1. buyTab[t] \in BuyTabs /\ Heard(buyTab[t]) /\ mark \in Nat BY DEF BuyInv, BuyTyped
<1>2. UNCHANGED <<now, order>> /\ mark' \in Nat BY <1>1 DEF Buy!HearPage
<1>3. ASSUME NEW said \in {"granted", "already"}, buyTab[t].page.res \in {"claimed", "nothing"}, Buy!Set(t, Buy!Tell(buyTab[t], said)) PROVE BuyInv'
  <2>1. buyTab[t].page.at = "answered" BY DEF Buy!HearPage
  <2> DEFINE q == Buy!Tell(buyTab[t], said)
  <2>2. q \in BuyTabs /\ Heard(q) /\ q.at = buyTab[t].at /\ q.buys = buyTab[t].buys BY <1>1, <1>3, <2>1, Told
  <2>3. buyTab' = [buyTab EXCEPT ![t] = q] BY <1>3 DEF Buy!Set
  <2> HIDE DEF q
  <2> QED BY <1>2, <2>2, <2>3, PageTurnsOnly
<1>4. ASSUME NEW said \in {buyTab[t].told, "failed", "waiting"}, Buy!Set(t, [Buy!Heard(buyTab[t]) EXCEPT !.told = said]) PROVE BuyInv'
  <2> DEFINE q == [buyTab[t] EXCEPT !.page = Buy!Claim0, !.told = said]
  <2>1. q \in BuyTabs /\ q.at = buyTab[t].at /\ q.buys = buyTab[t].buys BY <1>1, <1>4, Records DEF BuyTabs
  <2>2. q.page = Buy!Claim0 /\ q.told = said /\ q.due = buyTab[t].due /\ q.shows = buyTab[t].shows /\ q.fetch = buyTab[t].fetch
        /\ q.stale = buyTab[t].stale /\ q.anew = buyTab[t].anew
    BY <1>1 DEF BuyTabs
  <2>3. buyTab' = [buyTab EXCEPT ![t] = q] BY <1>4 DEF Buy!Set, Buy!Heard
  <2> HIDE DEF q
  <2>4. Heard(q) BY <1>1, <1>4, <2>2, Records DEF Heard
  <2> QED BY <1>2, <2>1, <2>3, <2>4, PageTurnsOnly
<1> QED BY <1>3, <1>4 DEF Buy!HearPage

LEMMA HearAppKeeps == ASSUME BuyInv, NEW t \in Buyers, Buy!HearApp(t) PROVE BuyInv'
<1>1. buyTab[t] \in BuyTabs /\ Heard(buyTab[t]) /\ mark \in Nat BY DEF BuyInv, BuyTyped
<1>2. UNCHANGED <<now, order>> /\ mark' \in Nat BY <1>1 DEF Buy!HearApp
<1> DEFINE p == [buyTab[t] EXCEPT !.app = Buy!Claim0]
           q == Buy!Invalidate(p)
<1>3. buyTab' = [buyTab EXCEPT ![t] = p] \/ buyTab' = [buyTab EXCEPT ![t] = q] BY DEF Buy!HearApp, Buy!Set
<1>5. p \in BuyTabs /\ p.at = buyTab[t].at /\ p.buys = buyTab[t].buys /\ Heard(p) BY <1>1, Records DEF BuyTabs, Heard
<1> HIDE DEF p
<1>6. q \in BuyTabs /\ q.at = buyTab[t].at /\ q.buys = buyTab[t].buys /\ Heard(q) BY <1>5, AskedAnew
<1> HIDE DEF q
<1> QED BY <1>2, <1>3, <1>5, <1>6, PageTurnsOnly

LEMMA UserKeeps == ASSUME BuyInv, NEW t \in Buyers, Buy!Again(t) \/ Buy!ToApp(t) PROVE BuyInv'
<1>1. buyTab[t] \in BuyTabs /\ Heard(buyTab[t]) /\ UNCHANGED <<now, order>> /\ mark' \in Nat /\ now + Patience \in Int
  BY BuyingAssumption DEF BuyInv, BuyTyped, Buy!Again, Buy!ToApp
<1>2. CASE Buy!Again(t)
  <2> DEFINE q == [buyTab[t] EXCEPT !.told = "claiming", !.till = now + Patience]
  <2>1. q \in BuyTabs /\ q.at = buyTab[t].at /\ q.buys = buyTab[t].buys /\ Heard(q) BY <1>1 DEF BuyTabs, Heard
  <2>2. buyTab' = [buyTab EXCEPT ![t] = q] BY <1>2 DEF Buy!Again, Buy!Set
  <2> HIDE DEF q
  <2> QED BY <1>1, <2>1, <2>2, PageTurnsOnly
<1>3. CASE Buy!ToApp(t)
  <2> DEFINE q == [buyTab[t] EXCEPT !.at = "app", !.told = "none", !.due = {}]
  <2>1. q \in BuyTabs /\ q.at = "app" /\ Heard(q) BY <1>1 DEF BuyTabs, Heard
  <2>2. buyTab' = [buyTab EXCEPT ![t] = q] BY <1>3 DEF Buy!ToApp, Buy!Set
  <2> HIDE DEF q
  <2> QED BY <1>1, <2>1, <2>2, PageTurnsOnly
<1> QED BY <1>2, <1>3

LEMMA BalanceKeeps == ASSUME BuyInv, NEW t \in Buyers, Buy!Balance(t) PROVE BuyInv'
<1>1. buyTab[t] \in BuyTabs /\ Heard(buyTab[t]) /\ UNCHANGED <<now, order>> /\ mark' \in Nat
  BY DEF BuyInv, BuyTyped, Buy!Balance, Buy!Read, Buy!Show
<1>2. Buy!Credited \subseteq Orders BY DEF Buy!Credited
<1> DEFINE read == [at |-> "read", got |-> Buy!Credited]
           q == [buyTab[t] EXCEPT !.fetch = read]
           lost == [buyTab[t] EXCEPT !.fetch = Buy!Fetch0, !.stale = TRUE]
           shown == [buyTab[t] EXCEPT !.fetch = Buy!Fetch0, !.shows = buyTab[t].fetch.got, !.warm = TRUE, !.stale = FALSE]
<1>3. \/ buyTab' = [buyTab EXCEPT ![t] = q]
      \/ buyTab' = [buyTab EXCEPT ![t] = lost]
      \/ buyTab[t].fetch.at = "read" /\ buyTab' = [buyTab EXCEPT ![t] = shown]
  BY DEF Buy!Balance, Buy!Read, Buy!Show, Buy!Set
<1>4. read \in Sights /\ read.at = "read" /\ read.got = Buy!Credited BY <1>2 DEF Sights
<1> HIDE DEF read
<1>5. q \in BuyTabs /\ q.at = buyTab[t].at /\ q.buys = buyTab[t].buys /\ Heard(q)
  <2>1. q \in BuyTabs /\ q.at = buyTab[t].at /\ q.buys = buyTab[t].buys BY <1>1, <1>4 DEF BuyTabs
  <2>2. q.fetch = read /\ q.page = buyTab[t].page /\ q.shows = buyTab[t].shows /\ q.told = buyTab[t].told /\ q.due = buyTab[t].due /\ q.anew = buyTab[t].anew BY <1>1 DEF BuyTabs
  <2> HIDE DEF q
  <2> QED BY <1>1, <1>4, <2>1, <2>2 DEF Heard
<1>6. lost \in BuyTabs /\ lost.at = buyTab[t].at /\ lost.buys = buyTab[t].buys /\ Heard(lost) BY <1>1, Records DEF BuyTabs, Heard
<1>7. shown \in BuyTabs /\ shown.at = buyTab[t].at /\ shown.buys = buyTab[t].buys /\ (buyTab[t].fetch.at = "read" => Heard(shown))
  <2>1. shown \in BuyTabs /\ shown.at = buyTab[t].at /\ shown.buys = buyTab[t].buys BY <1>1, Records DEF BuyTabs, Sights
  <2>2. shown.fetch = Buy!Fetch0 /\ shown.page = buyTab[t].page /\ shown.shows = buyTab[t].fetch.got /\ shown.told = buyTab[t].told /\ shown.due = buyTab[t].due /\ shown.anew = buyTab[t].anew BY <1>1 DEF BuyTabs
  <2> HIDE DEF shown
  <2> QED BY <1>1, <2>1, <2>2, Records DEF Heard
<1> HIDE DEF q, lost, shown
<1> QED BY <1>1, <1>3, <1>5, <1>6, <1>7, PageTurnsOnly

\* A claim credits what is paid and can be: all of it, unless it fails halfway.
LEMMA ClaimKeeps == ASSUME BuyInv, NEW t \in Buyers, Buy!Claim(t, "page") \/ Buy!Claim(t, "app") PROVE BuyInv'
<1> DEFINE able == {o \in Attached : order[o].st = "paid"}
<1>1. /\ buyTab[t] \in BuyTabs /\ Heard(buyTab[t]) /\ now \in Nat /\ mark \in Nat
      /\ order \in [Orders -> [st : Stands, when : Nat]] /\ able \subseteq Orders /\ UNCHANGED <<now, mark>>
  BY BuyingAssumption DEF BuyInv, BuyTyped, Buy!Claim
\* What the orders and the claim of the page become.
<1>2. ASSUME NEW by \in {"page", "app"}, Buy!Claim(t, by)
      PROVE  \E some \in SUBSET able, c \in Claims :
               /\ order' = [o \in Orders |-> IF o \in some THEN [st |-> "credited", when |-> now] ELSE order[o]]
               /\ buyTab' = [buyTab EXCEPT ![t] = [buyTab[t] EXCEPT ![by] = c]]
               /\ c.due = buyTab[t][by].due /\ c.at = "answered" /\ (c.res \in {"claimed", "nothing"} => some = able)
  <2> DEFINE after == [o \in Orders |-> IF o \in able THEN [st |-> "credited", when |-> now] ELSE order[o]]
             recent == {after[o].when + 1 : o \in {p \in Orders : after[p].st = "credited" /\ now - after[p].when <= Recent}}
             pending == \E o \in Orders : order[o].st = "pending"
             said == [buyTab[t][by] EXCEPT !.at = "answered", !.res = IF able # {} THEN "claimed" ELSE "nothing", !.recent = recent, !.pending = pending]
             failed == [buyTab[t][by] EXCEPT !.at = "answered", !.res = "failed"]
  <2>1. buyTab[t][by] \in Claims BY <1>1 DEF BuyTabs
  <2>2. recent \subseteq Nat /\ pending \in BOOLEAN
    <3>1. after \in [Orders -> [st : Stands, when : Nat]] BY <1>1 DEF Stands
    <3> HIDE DEF after
    <3> QED BY <3>1
  <2>3. CASE order' = after /\ Buy!Set(t, [buyTab[t] EXCEPT ![by] = said])
    <3> HIDE DEF recent, pending
    <3>1. said \in Claims /\ said.due = buyTab[t][by].due /\ said.at = "answered" BY <2>1, <2>2 DEF Claims
    <3> HIDE DEF said
    <3> QED BY <2>3, <3>1 DEF Buy!Set
  <2>4. CASE \E some \in SUBSET able : /\ order' = [o \in Orders |-> IF o \in some THEN after[o] ELSE order[o]]
                                       /\ Buy!Set(t, [buyTab[t] EXCEPT ![by] = failed])
    <3>1. failed \in Claims /\ failed.due = buyTab[t][by].due /\ failed.at = "answered" /\ failed.res = "failed" BY <2>1 DEF Claims
    <3>2. PICK some \in SUBSET able : order' = [o \in Orders |-> IF o \in some THEN after[o] ELSE order[o]] BY <2>4
    <3>3. order' = [o \in Orders |-> IF o \in some THEN [st |-> "credited", when |-> now] ELSE order[o]] BY <1>1, <3>2
    <3> HIDE DEF failed
    <3> QED BY <2>4, <3>1, <3>3 DEF Buy!Set
  <2> QED BY <1>2, <2>3, <2>4 DEF Buy!Claim
<1>3. ASSUME NEW some \in SUBSET able, order' = [o \in Orders |-> IF o \in some THEN [st |-> "credited", when |-> now] ELSE order[o]]
      PROVE  /\ order' \in [Orders -> [st : Stands, when : Nat]] /\ Forward
             /\ \A o \in Orders : order[o].st = "asked" => order'[o].st = "asked"
             /\ some = able => Buy!Due \subseteq (Buy!Credited)'
  BY <1>1, <1>3 DEF Stands, Forward, Buy!Due, Buy!Credited
<1>4. ASSUME NEW some \in SUBSET able, NEW r \in BuyTabs, r.at = buyTab[t].at, r.buys = buyTab[t].buys,
             order' = [o \in Orders |-> IF o \in some THEN [st |-> "credited", when |-> now] ELSE order[o]],
             buyTab' = [buyTab EXCEPT ![t] = r], Heard(r)'
      PROVE  BuyInv'
  <2>1. order' \in [Orders -> [st : Stands, when : Nat]] /\ Forward /\ \A o \in Orders : order[o].st = "asked" => order'[o].st = "asked"
    BY <1>3, <1>4
  <2>2. now' \in Nat /\ mark' \in Nat BY <1>1
  <2>3. r.at = "leaving" => r.buys \in Orders /\ order'[r.buys].st = "asked"
                            /\ \A u \in Buyers \ {t} : buyTab[u].at = "leaving" => buyTab[u].buys # r.buys
    <3> SUFFICES ASSUME r.at = "leaving" PROVE r.buys \in Orders /\ order'[r.buys].st = "asked"
                            /\ \A u \in Buyers \ {t} : buyTab[u].at = "leaving" => buyTab[u].buys # r.buys
      OBVIOUS
    <3>1. buyTab[t].at = "leaving" /\ r.buys = buyTab[t].buys BY <1>4
    <3>2. r.buys \in Orders /\ order[r.buys].st = "asked" BY <3>1 DEF BuyInv, Leaving
    <3>3. \A u \in Buyers \ {t} : buyTab[u].at = "leaving" => buyTab[u].buys # r.buys BY <3>1 DEF BuyInv, Leaving
    <3> QED BY <2>1, <3>2, <3>3
  <2>4. \A u \in Buyers \ {t} : buyTab[u].at = "leaving" => order'[buyTab[u].buys].st = "asked"
    BY <2>1 DEF BuyInv, Leaving
  <2> QED BY <1>4, <2>1, <2>2, <2>3, <2>4, TabTurns
<1>5. CASE Buy!Claim(t, "page")
  <2>1. PICK some \in SUBSET able, c \in Claims :
               /\ order' = [o \in Orders |-> IF o \in some THEN [st |-> "credited", when |-> now] ELSE order[o]]
               /\ buyTab' = [buyTab EXCEPT ![t] = [buyTab[t] EXCEPT !.page = c]]
               /\ c.due = buyTab[t].page.due /\ c.at = "answered" /\ (c.res \in {"claimed", "nothing"} => some = able)
    BY <1>2, <1>5
  <2>2. PICK r \in BuyTabs : r = [buyTab[t] EXCEPT !.page = c] BY <1>1 DEF BuyTabs
  <2>3. r.page = c /\ r.at = buyTab[t].at /\ r.buys = buyTab[t].buys /\ r.fetch = buyTab[t].fetch /\ r.shows = buyTab[t].shows
        /\ r.told = buyTab[t].told /\ r.due = buyTab[t].due /\ r.stale = buyTab[t].stale /\ r.anew = buyTab[t].anew
    BY <1>1, <2>2 DEF BuyTabs
  <2>4. buyTab[t].page.due \subseteq Buy!Due BY <1>1, <1>5 DEF Heard, Buy!Claim
  <2>5. Forward /\ (some = able => Buy!Due \subseteq (Buy!Credited)') BY <1>3, <2>1
  <2>6. Heard(r)' BY <1>1, <2>1, <2>3, <2>4, <2>5 DEF Heard, Forward
  <2> QED BY <1>4, <2>1, <2>2, <2>3, <2>6
<1>6. CASE Buy!Claim(t, "app")
  <2>1. PICK some \in SUBSET able, c \in Claims :
               /\ order' = [o \in Orders |-> IF o \in some THEN [st |-> "credited", when |-> now] ELSE order[o]]
               /\ buyTab' = [buyTab EXCEPT ![t] = [buyTab[t] EXCEPT !.app = c]]
    BY <1>2, <1>6
  <2>2. PICK r \in BuyTabs : r = [buyTab[t] EXCEPT !.app = c] BY <1>1 DEF BuyTabs
  <2>3. r.page = buyTab[t].page /\ r.at = buyTab[t].at /\ r.buys = buyTab[t].buys /\ r.fetch = buyTab[t].fetch /\ r.shows = buyTab[t].shows
        /\ r.told = buyTab[t].told /\ r.due = buyTab[t].due /\ r.stale = buyTab[t].stale /\ r.anew = buyTab[t].anew
    BY <1>1, <2>2 DEF BuyTabs
  <2>4. Forward BY <1>3, <2>1
  <2>5. Heard(r)' BY <1>1, <2>3, <2>4 DEF Heard, Forward
  <2> QED BY <1>4, <2>1, <2>2, <2>3, <2>5
<1> QED BY <1>5, <1>6

LEMMA BuyKeeps == ASSUME BuyInv, [Buy!Next]_(Buy!vars) PROVE BuyInv'
<1>1. CASE Buy!Tick \/ UNCHANGED Buy!vars
  <2>1. UNCHANGED <<order, buyTab>> /\ now' \in Nat /\ mark' \in Nat BY <1>1 DEF Buy!Tick, Buy!vars, BuyInv, BuyTyped
  <2>2. Forward /\ order' \in [Orders -> [st : Stands, when : Nat]] BY <2>1 DEF Forward, Buy!Due, Buy!Credited, BuyInv, BuyTyped
  <2> QED BY <2>1, <2>2, OrdersTurn
<1>2. ASSUME NEW t \in Buyers, Buy!Page(t) PROVE BuyInv'
  BY <1>2, AskPageKeeps, ClaimKeeps, HearPageKeeps DEF Buy!Page
<1>3. ASSUME NEW t \in Buyers, Buy!Background(t) PROVE BuyInv'
  BY <1>3, AskAppKeeps, ClaimKeeps, HearAppKeeps DEF Buy!Background
<1>4. ASSUME NEW t \in Buyers, Buy!User(t) PROVE BuyInv'
  BY <1>4, CheckoutUrlKeeps, ReturnKeeps, UserKeeps, StartCheckoutKeeps DEF Buy!User
<1> QED BY <1>1, <1>2, <1>3, <1>4, OrderMoves, BalanceKeeps DEF Buy!Next

LEMMA BuyRuns == HarnessSpec => Buy!Spec
<1>1. HarnessInit => Buy!Init BY DEF HarnessInit
<1>2. [HarnessNext]_allVars => [Buy!Next]_(Buy!vars)
  BY DEF HarnessNext, LightMoves, SessionMoves, DubbingMoves, SpeakingMoves, BuyMoves, allVars, BuyVars, Buy!vars
<1> QED BY <1>1, <1>2, PTL DEF HarnessSpec, Buy!Spec

LEMMA BuyInvariant == HarnessSpec => []BuyInv
<1>1. BuyInv /\ [Buy!Next]_(Buy!vars) => BuyInv' BY BuyKeeps
<1> QED BY <1>1, InitBuyInv, BuyRuns, PTL DEF Buy!Spec
LEMMA TellsTheTruth == BuyInv => Buy!ToldIsCredited BY DEF BuyInv, Heard, Buy!ToldIsCredited, Buy!Telling, Buy!Counted
-----------------------------------------------------------------------------
\* Speech that is served was paid for in full by a voice of its engine; a page that says
\* "added" says so of what is credited, whoever credited it, and the balance, if it asks for
\* it anew then, counts it (speech.py:279-299, PlansSuccess.tsx:48-75, queries.ts:226-242).
THEOREM PaidAndToldKept == HarnessSpec => []PaidAndTold
<1>1. SpeechInv /\ BuyInv => PaidAndTold BY SpeechIsPaid, TellsTheTruth DEF PaidAndTold
<1> QED BY <1>1, SpeechInvariant, BuyInvariant, PTL
-----------------------------------------------------------------------------
(* The bounds of Sessions: nothing starts that does not fit with what is under way. *)
\* Pages that still wait for a session, calls that will ask for a refresh, and refreshes
\* that may still be given a token.
Waiting == {t \in Tabs : tab[t].at \in {"redeem", "issue"}}
BadCalls == {c \in Calls : call[c] = "bad"}
Issuing == {i \in DOMAIN req : req[i].at \in {"sent", "revoke", "issue"}}
Held ==
  /\ \A k \in DOMAIN token : token[k].first \in 1 .. Len(token)
  /\ \A c \in Codes : code[c].opened \subseteq 1 .. Len(token)
  /\ \A t \in Tabs : tab[t].flight <= Len(req)
  /\ excused \subseteq 1 .. Len(token) /\ alarms \subseteq 1 .. Len(token)
\* q refreshes and k tokens, and what r pages, b calls, w pages and i refreshes may ask for.
Fits(q, k, r, b, w, i) == q + r + b <= MaxRequests /\ k + r + b + w + i <= MaxTokens
Enough ==
  Fits(Len(req), Len(token), Cardinality(Redeeming), Cardinality(BadCalls), Cardinality(Waiting), Cardinality(Issuing))
Limits == Held /\ Enough

\* What fits when less is asked for, when something starts that there is room for, and when
\* something that was asked for is given.
LEMMA LessFits ==
  ASSUME NEW q \in Nat, NEW k \in Nat, NEW r \in Nat, NEW b \in Nat, NEW w \in Nat, NEW i \in Nat, Fits(q, k, r, b, w, i),
         NEW r0 \in Nat, NEW b0 \in Nat, NEW w0 \in Nat, NEW i0 \in Nat, r0 <= r, b0 <= b, w0 <= w, i0 <= i
  PROVE  Fits(q, k, r0, b0, w0, i0)
  BY SessionsAssumption DEF Fits
LEMMA StartFits ==
  ASSUME NEW q \in Nat, NEW k \in Nat, NEW r \in Nat, NEW b \in Nat, NEW w \in Nat, NEW i \in Nat, Fits(q + 1, k + 2, r, b, w, i)
  PROVE  /\ Fits(q, k + 1, r, b, w, i) /\ Fits(q + 1, k, r, b, w, i + 1)
         /\ Fits(q, k, r, b + 1, w, i) /\ Fits(q, k, r + 1, b, w + 1, i)
  BY SessionsAssumption DEF Fits
LEMMA GivenFits ==
  ASSUME NEW q \in Nat, NEW k \in Nat, NEW r \in Nat, NEW b \in Nat, NEW w \in Nat, NEW i \in Nat
  PROVE  /\ Fits(q, k, r, b, w + 1, i) => Fits(q, k + 1, r, b, w, i)
         /\ Fits(q, k, r, b, w, i + 1) => Fits(q, k + 1, r, b, w, i)
         /\ Fits(q, k, r + 1, b, w, i) => Fits(q + 1, k, r, b, w, i + 1)
         /\ Fits(q, k, r, b + 1, w, i) => Fits(q + 1, k, r, b, w, i + 1)
  BY SessionsAssumption DEF Fits

\* Counts: of a part, of one more, of one less.
LEMMA Fewer == ASSUME NEW T, IsFiniteSet(T), NEW S, S \subseteq T PROVE Cardinality(S) \in Nat /\ Cardinality(T) \in Nat /\ Cardinality(S) <= Cardinality(T)
  BY FS_Subset, FS_CardinalityType
LEMMA OneMore ==
  ASSUME NEW T, IsFiniteSet(T), NEW x, NEW S, S \subseteq T \cup {x}
  PROVE  Cardinality(S) \in Nat /\ Cardinality(T) \in Nat /\ Cardinality(S) <= Cardinality(T) + 1
<1>1. IsFiniteSet(T \cup {x}) /\ Cardinality(T \cup {x}) <= Cardinality(T) + 1 /\ Cardinality(T) \in Nat
  BY FS_AddElement, FS_CardinalityType
<1> QED BY <1>1, Fewer
LEMMA OneLess ==
  ASSUME NEW T, IsFiniteSet(T), NEW x \in T, NEW S, S \subseteq T \ {x}
  PROVE  Cardinality(S) \in Nat /\ Cardinality(T) \in Nat /\ Cardinality(S) + 1 <= Cardinality(T)
<1>1. IsFiniteSet(T \ {x}) /\ Cardinality(T \ {x}) = Cardinality(T) - 1 /\ Cardinality(T) \in Nat
  BY FS_RemoveElement, FS_CardinalityType
<1> QED BY <1>1, Fewer

\* What is counted is finite.
LEMMA Counted ==
  ASSUME Typed
  PROVE  /\ IsFiniteSet(Redeeming) /\ IsFiniteSet(Waiting) /\ IsFiniteSet(BadCalls) /\ IsFiniteSet(Issuing)
         /\ Cardinality(Redeeming) \in Nat /\ Cardinality(Waiting) \in Nat /\ Cardinality(BadCalls) \in Nat
         /\ Cardinality(Issuing) \in Nat /\ Len(req) \in Nat /\ Len(token) \in Nat
         /\ DOMAIN req = 1 .. Len(req) /\ DOMAIN token = 1 .. Len(token)
<1>1. Len(req) \in Nat /\ Len(token) \in Nat /\ DOMAIN req = 1 .. Len(req) /\ DOMAIN token = 1 .. Len(token) BY DEF Typed
<1>2. IsFiniteSet(DOMAIN req) BY <1>1, FS_Interval
<1>3. /\ Redeeming \subseteq Tabs /\ Waiting \subseteq Tabs /\ BadCalls \subseteq Calls /\ Issuing \subseteq DOMAIN req
  BY DEF Redeeming, Waiting, BadCalls, Issuing
<1> QED BY <1>1, <1>2, <1>3, SessionsAssumption, FS_Subset, FS_CardinalityType

\* Room, in these counts.
LEMMA RoomIs ==
  ASSUME Typed, Room
  PROVE  Fits(Len(req) + 1, Len(token) + 2, Cardinality(Redeeming), Cardinality(BadCalls), Cardinality(Waiting), Cardinality(Issuing))
<1> DEFINE opens == {i \in DOMAIN req : Open(i)}
<1>1. Waiting = {t \in Redeeming : tab[t].at # "redeemed"} BY DEF Waiting, Redeeming
<1>2. Cardinality(Issuing) <= Cardinality(opens) /\ Cardinality(opens) \in Nat
  <2>1. Issuing \subseteq opens /\ opens \subseteq DOMAIN req BY DEF Issuing, Open
  <2>2. IsFiniteSet(DOMAIN req) BY Counted, FS_Interval
  <2>3. IsFiniteSet(opens) BY <2>1, <2>2, FS_Subset
  <2> QED BY <2>1, <2>3, Fewer
<1>3. BadCalls = {c \in Calls : call[c] = "bad"} BY DEF BadCalls
<1>4. /\ Len(req) + (Cardinality(Redeeming) + Cardinality(BadCalls)) < MaxRequests
      /\ Len(token) + (Cardinality(Redeeming) + Cardinality(BadCalls)) + Cardinality(opens) + Cardinality(Waiting) + 1 < MaxTokens
  BY <1>1, <1>3 DEF Room, Reserved
<1>5. ASSUME NEW q \in Nat, NEW k \in Nat, NEW r \in Nat, NEW b \in Nat, NEW w \in Nat, NEW i \in Nat, NEW o \in Nat, i <= o,
             q + (r + b) < MaxRequests, k + (r + b) + o + w + 1 < MaxTokens
      PROVE  Fits(q + 1, k + 2, r, b, w, i)
  BY <1>5, SessionsAssumption DEF Fits
<1> HIDE DEF opens
<1> QED BY <1>2, <1>4, <1>5, Counted

\* A step that starts nothing keeps the counts.
LEMMA NothingStarts ==
  ASSUME Typed, Enough, Len(token') = Len(token), Len(req') = Len(req), Redeeming' \subseteq Redeeming,
         Waiting' \subseteq Waiting, BadCalls' \subseteq BadCalls, Issuing' \subseteq Issuing
  PROVE  Enough'
<1>1. /\ Cardinality(Redeeming') <= Cardinality(Redeeming) /\ Cardinality(Redeeming') \in Nat
      /\ Cardinality(Waiting') <= Cardinality(Waiting) /\ Cardinality(Waiting') \in Nat
      /\ Cardinality(BadCalls') <= Cardinality(BadCalls) /\ Cardinality(BadCalls') \in Nat
      /\ Cardinality(Issuing') <= Cardinality(Issuing) /\ Cardinality(Issuing') \in Nat
  BY Counted, Fewer
<1>2. Fits(Len(req), Len(token), Cardinality(Redeeming'), Cardinality(BadCalls'), Cardinality(Waiting'), Cardinality(Issuing'))
  BY <1>1, Counted, LessFits DEF Enough
<1> QED BY <1>2 DEF Enough

\* What is held stays within the tokens and the requests there are.
LEMMA HeldStays ==
  ASSUME Typed, Held, Len(token') \in Nat, Len(req') \in Nat, Len(token) <= Len(token'), Len(req) <= Len(req'),
         \A k \in DOMAIN token' : \/ k \in DOMAIN token /\ token'[k].first = token[k].first
                                  \/ token'[k].first \in 1 .. Len(token'),
         \A c \in Codes : code'[c].opened \subseteq code[c].opened \cup (1 .. Len(token')),
         \A t \in Tabs : tab'[t].flight = tab[t].flight \/ tab'[t].flight <= Len(req'),
         excused' \subseteq excused \cup (1 .. Len(token)), alarms' \subseteq alarms \cup (1 .. Len(token))
  PROVE  Held'
<1>1. Len(token) \in Nat /\ Len(req) \in Nat /\ 1 .. Len(token) \subseteq 1 .. Len(token') /\ \A t \in Tabs : tab[t].flight \in Nat
  BY DEF Typed, PageState
<1>2. \A k \in DOMAIN token' : token'[k].first \in 1 .. Len(token') BY <1>1 DEF Held
<1>3. \A c \in Codes : code'[c].opened \subseteq 1 .. Len(token') BY <1>1 DEF Held
<1>4. \A t \in Tabs : tab'[t].flight <= Len(req') BY <1>1 DEF Held
<1>5. excused' \subseteq 1 .. Len(token') /\ alarms' \subseteq 1 .. Len(token') BY <1>1 DEF Held
<1> QED BY <1>2, <1>3, <1>4, <1>5 DEF Held

\* The state of a token changes, or a token is added.
LEMMA FirstStays ==
  ASSUME Typed, NEW id \in DOMAIN token, NEW s \in TokenStates, SetState(id, s)
  PROVE  Len(token') = Len(token) /\ DOMAIN token' = DOMAIN token /\ \A k \in DOMAIN token : token'[k].first = token[k].first
<1> DEFINE e == [token[id] EXCEPT !.state = s]
<1>1. token \in Seq(TokenState) /\ token[id] \in TokenState BY DEF Typed
<1>2. e \in TokenState /\ e.first = token[id].first BY <1>1 DEF TokenState
<1>3. token' = [token EXCEPT ![id] = e] BY DEF SetState
<1> HIDE DEF e
<1> QED BY <1>1, <1>2, <1>3, Changed
LEMMA FirstIssued ==
  ASSUME Typed, NEW first \in Nat, Issue(first)
  PROVE  /\ Len(token') = Len(token) + 1 /\ DOMAIN token' = 1 .. Len(token) + 1 /\ token'[Len(token) + 1].first = first
         /\ DOMAIN token = 1 .. Len(token) /\ Len(token) \in Nat /\ \A k \in DOMAIN token : token'[k] = token[k]
<1> DEFINE e == [state |-> "live", first |-> first]
<1>1. e \in TokenState /\ e.first = first BY DEF TokenState, TokenStates
<1>2. token' = Append(token, e) /\ token \in Seq(TokenState) BY DEF Issue, Typed
<1> HIDE DEF e
<1> QED BY <1>1, <1>2, Appended

\* One page turns.
Turns(t, a, f) ==
  /\ \A u \in Tabs : tab'[u].at = IF u = t THEN a ELSE tab[u].at
  /\ \A u \in Tabs : tab'[u].flight = IF u = t THEN f ELSE tab[u].flight
LEMMA TurnIs ==
  ASSUME Typed, NEW t \in Tabs, NEW page \in PageState, tab' = [tab EXCEPT ![t] = page] PROVE Turns(t, page.at, page.flight)
  BY Turned DEF Turns
\* A page that turns without asking for a session begins to wait for none.
LEMMA NobodyStarts ==
  ASSUME NEW t \in Tabs, NEW a, NEW f, Turns(t, a, f), a = tab[t].at \/ a \in {"closed", "open", "boot"}
  PROVE  Redeeming' \subseteq Redeeming /\ Waiting' \subseteq Waiting
  BY DEF Turns, Redeeming, Waiting

\* A page asks for a refresh, and gives up a place that was kept for it, or finds room.
LEMMA AskIsEnough ==
  ASSUME Typed, World, Limits, NEW t \in Tabs, NEW page \in PageState, RefreshOnce(t, page), page.flight <= Len(req),
         page.at = tab[t].at \/ page.at = "boot", UNCHANGED <<token, code, ghosts>>,
         \/ BadCalls' = BadCalls /\ Room
         \/ BadCalls' = BadCalls /\ t \in Redeeming /\ page.at = "boot"
         \/ \E c \in BadCalls : BadCalls' \subseteq BadCalls \ {c}
  PROVE  Limits'
<1>1. PICK f \in Nat : Turns(t, page.at, f) /\ f <= Len(req')
  <2>1. CASE page.flight # 0
    <3>1. UNCHANGED req /\ Turns(t, page.at, page.flight) BY <2>1, Asked, TurnIs
    <3> QED BY <3>1 DEF PageState
  <2>2. CASE page.flight = 0
    <3> DEFINE asked == [page EXCEPT !.flight = Len(req) + 1]
    <3>1. asked \in PageState /\ tab' = [tab EXCEPT ![t] = asked] /\ Len(req') = Len(req) + 1 /\ Len(req) \in Nat BY <2>2, Asked
    <3>2. asked.at = page.at /\ asked.flight = Len(req) + 1 BY DEF PageState
    <3> HIDE DEF asked
    <3>3. Turns(t, asked.at, asked.flight) BY <3>1, TurnIs
    <3>4. Turns(t, page.at, Len(req) + 1) BY <3>2, <3>3
    <3>5. Len(req) + 1 \in Nat /\ Len(req) + 1 <= Len(req') BY <3>1
    <3> QED BY <3>4, <3>5
  <2> QED BY <2>1, <2>2
<1>2. Redeeming' \subseteq Redeeming /\ Waiting' \subseteq Waiting /\ (page.at = "boot" => Redeeming' \subseteq Redeeming \ {t})
  BY <1>1, NobodyStarts DEF Turns, Redeeming
<1>3. \/ UNCHANGED req
      \/ Len(req') = Len(req) + 1 /\ Issuing' \subseteq Issuing \cup {Len(req) + 1}
  <2>1. CASE ~UNCHANGED req
    <3>1. /\ Len(req) \in Nat /\ Len(req') = Len(req) + 1 /\ DOMAIN req = 1 .. Len(req) /\ DOMAIN req' = 1 .. Len(req) + 1
          /\ \A j \in DOMAIN req : req'[j] = req[j]
      BY <2>1, Asked
    <3> QED BY <3>1 DEF Issuing
  <2> QED BY <2>1
<1>4. Len(req') \in Nat /\ Len(req) <= Len(req') BY <1>3, Counted
<1>5. Held' BY <1>1, <1>4, Counted, HeldStays DEF Limits, Turns, ghosts
<1>6. CASE UNCHANGED req
  <2>1. BadCalls' \subseteq BadCalls /\ Issuing' = Issuing BY <1>6 DEF Issuing
  <2> QED BY <1>2, <1>5, <1>6, <2>1, NothingStarts DEF Limits
<1>7. CASE Len(req') = Len(req) + 1 /\ Issuing' \subseteq Issuing \cup {Len(req) + 1}
  <2>1. /\ Cardinality(Waiting') <= Cardinality(Waiting) /\ Cardinality(Waiting') \in Nat
        /\ Cardinality(Issuing') <= Cardinality(Issuing) + 1 /\ Cardinality(Issuing') \in Nat
        /\ Cardinality(Redeeming') <= Cardinality(Redeeming) /\ Cardinality(Redeeming') \in Nat
    <3>1. IsFiniteSet(Waiting) /\ IsFiniteSet(Issuing) /\ IsFiniteSet(Redeeming) BY Counted
    <3> QED BY <1>2, <1>7, <3>1, Fewer, OneMore
  <2>2. ASSUME NEW r \in Nat, NEW b \in Nat, Cardinality(Redeeming') <= r, Cardinality(BadCalls') <= b, Cardinality(BadCalls') \in Nat,
               Fits(Len(req) + 1, Len(token), r, b, Cardinality(Waiting), Cardinality(Issuing) + 1)
        PROVE  Limits'
    <3>1. Fits(Len(req) + 1, Len(token), Cardinality(Redeeming'), Cardinality(BadCalls'), Cardinality(Waiting'), Cardinality(Issuing'))
      <4>1. Len(req) + 1 \in Nat /\ Cardinality(Issuing) + 1 \in Nat BY Counted
      <4> QED BY <2>1, <2>2, <4>1, Counted, LessFits
    <3>2. Enough' BY <1>7, <3>1 DEF Enough
    <3> QED BY <1>5, <3>2 DEF Limits
  <2>3. CASE BadCalls' = BadCalls /\ Room
    <3>1. Fits(Len(req) + 1, Len(token), Cardinality(Redeeming), Cardinality(BadCalls), Cardinality(Waiting), Cardinality(Issuing) + 1)
      BY <2>3, RoomIs, StartFits, Counted
    <3> QED BY <2>1, <2>2, <2>3, <3>1, Counted
  <2>4. CASE BadCalls' = BadCalls /\ t \in Redeeming /\ page.at = "boot"
    <3>1. PICK r \in Nat : Cardinality(Redeeming) = r + 1 /\ Cardinality(Redeeming') <= r
      <4>1. Cardinality(Redeeming') + 1 <= Cardinality(Redeeming) BY <1>2, <2>4, Counted, OneLess
      <4>2. Cardinality(Redeeming) - 1 \in Nat BY <2>1, <4>1, Counted
      <4> QED BY <2>1, <4>1, <4>2, Counted
    <3>2. Fits(Len(req) + 1, Len(token), r, Cardinality(BadCalls), Cardinality(Waiting), Cardinality(Issuing) + 1)
      BY <3>1, GivenFits, Counted DEF Limits, Enough
    <3> QED BY <2>2, <2>4, <3>1, <3>2, Counted
  <2>5. ASSUME NEW c \in BadCalls, BadCalls' \subseteq BadCalls \ {c} PROVE Limits'
    <3>1. PICK b \in Nat : Cardinality(BadCalls) = b + 1 /\ Cardinality(BadCalls') <= b /\ Cardinality(BadCalls') \in Nat
      <4>1. Cardinality(BadCalls') + 1 <= Cardinality(BadCalls) /\ Cardinality(BadCalls') \in Nat BY <2>5, Counted, OneLess
      <4>2. Cardinality(BadCalls) - 1 \in Nat BY <4>1, Counted
      <4> QED BY <4>1, <4>2, Counted
    <3>2. Fits(Len(req) + 1, Len(token), Cardinality(Redeeming), b, Cardinality(Waiting), Cardinality(Issuing) + 1)
      BY <3>1, GivenFits, Counted DEF Limits, Enough
    <3> QED BY <2>1, <2>2, <3>1, <3>2, Counted
  <2> QED BY <2>3, <2>4, <2>5
<1> QED BY <1>3, <1>6, <1>7
\* A step that starts nothing and issues nothing.
LEMMA QuietLimits ==
  ASSUME Typed, Limits, Len(token') = Len(token), DOMAIN token' = DOMAIN token, \A k \in DOMAIN token : token'[k].first = token[k].first,
         Len(req') = Len(req), Issuing' \subseteq Issuing, Redeeming' \subseteq Redeeming, Waiting' \subseteq Waiting,
         BadCalls' \subseteq BadCalls, \A c \in Codes : code'[c].opened = code[c].opened,
         \A u \in Tabs : tab'[u].flight \in {tab[u].flight, 0},
         excused' \subseteq excused \cup (1 .. Len(token)), alarms' \subseteq alarms \cup (1 .. Len(token))
  PROVE  Limits'
<1>1. Enough' BY NothingStarts DEF Limits
<1>2. Len(token) \in Nat /\ Len(req) \in Nat BY Counted
<1>3. \A u \in Tabs : tab'[u].flight = tab[u].flight \/ tab'[u].flight <= Len(req') BY <1>2
<1>4. Held' BY <1>2, <1>3, HeldStays DEF Limits
<1> QED BY <1>1, <1>4 DEF Limits

\* A step that issues a token: to a page or a refresh that waited for it, or there is room.
LEMMA IssueLimits ==
  ASSUME Typed, Limits, NEW first \in Nat, first \in 1 .. Len(token) + 1, Issue(first), Len(req') = Len(req),
         Redeeming' \subseteq Redeeming, BadCalls' \subseteq BadCalls,
         \A c \in Codes : code'[c].opened \subseteq code[c].opened \cup {Len(token) + 1},
         \A u \in Tabs : tab'[u].flight = tab[u].flight, UNCHANGED ghosts,
         \/ Room /\ Waiting' \subseteq Waiting /\ Issuing' \subseteq Issuing
         \/ Issuing' \subseteq Issuing /\ \E t \in Waiting : Waiting' \subseteq Waiting \ {t}
         \/ Waiting' \subseteq Waiting /\ \E i \in Issuing : Issuing' \subseteq Issuing \ {i}
  PROVE  Limits'
<1>1. /\ Len(token') = Len(token) + 1 /\ DOMAIN token' = 1 .. Len(token) + 1 /\ token'[Len(token) + 1].first = first
      /\ DOMAIN token = 1 .. Len(token) /\ Len(token) \in Nat /\ \A k \in DOMAIN token : token'[k] = token[k]
  BY FirstIssued
<1>2. Len(req) \in Nat /\ Len(token) + 1 \in Nat BY <1>1, Counted
<1>3. Held'
  <2>1. \A k \in DOMAIN token' : \/ k \in DOMAIN token /\ token'[k].first = token[k].first
                                 \/ token'[k].first \in 1 .. Len(token')
    BY <1>1
  <2>2. \A c \in Codes : code'[c].opened \subseteq code[c].opened \cup (1 .. Len(token')) BY <1>1
  <2>3. excused' \subseteq excused \cup (1 .. Len(token)) /\ alarms' \subseteq alarms \cup (1 .. Len(token)) BY DEF ghosts
  <2>4. Len(token') \in Nat /\ Len(req') \in Nat /\ Len(token) <= Len(token') /\ Len(req) <= Len(req') BY <1>1, <1>2
  <2> QED BY <2>1, <2>2, <2>3, <2>4, HeldStays DEF Limits
<1>4. /\ Cardinality(Redeeming') <= Cardinality(Redeeming) /\ Cardinality(Redeeming') \in Nat
      /\ Cardinality(BadCalls') <= Cardinality(BadCalls) /\ Cardinality(BadCalls') \in Nat
  BY Counted, Fewer
<1>5. ASSUME NEW w \in Nat, NEW i \in Nat, Cardinality(Waiting') <= w, Cardinality(Issuing') <= i, Cardinality(Waiting') \in Nat,
             Cardinality(Issuing') \in Nat, Fits(Len(req), Len(token) + 1, Cardinality(Redeeming), Cardinality(BadCalls), w, i)
      PROVE  Limits'
  <2>1. Fits(Len(req), Len(token) + 1, Cardinality(Redeeming'), Cardinality(BadCalls'), Cardinality(Waiting'), Cardinality(Issuing'))
    BY <1>2, <1>4, <1>5, Counted, LessFits
  <2> QED BY <1>1, <1>3, <2>1 DEF Limits, Enough
<1>6. CASE Room /\ Waiting' \subseteq Waiting /\ Issuing' \subseteq Issuing
  <2>1. /\ Cardinality(Waiting') <= Cardinality(Waiting) /\ Cardinality(Waiting') \in Nat
        /\ Cardinality(Issuing') <= Cardinality(Issuing) /\ Cardinality(Issuing') \in Nat
    BY <1>6, Counted, Fewer
  <2>2. Fits(Len(req), Len(token) + 1, Cardinality(Redeeming), Cardinality(BadCalls), Cardinality(Waiting), Cardinality(Issuing))
    BY <1>6, RoomIs, StartFits, Counted
  <2> QED BY <1>5, <2>1, <2>2, Counted
<1>7. ASSUME Issuing' \subseteq Issuing, NEW t \in Waiting, Waiting' \subseteq Waiting \ {t} PROVE Limits'
  <2>1. Cardinality(Issuing') <= Cardinality(Issuing) /\ Cardinality(Issuing') \in Nat BY <1>7, Counted, Fewer
  <2>2. PICK w \in Nat : Cardinality(Waiting) = w + 1 /\ Cardinality(Waiting') <= w /\ Cardinality(Waiting') \in Nat
    <3>1. Cardinality(Waiting') + 1 <= Cardinality(Waiting) /\ Cardinality(Waiting') \in Nat BY <1>7, Counted, OneLess
    <3>2. Cardinality(Waiting) - 1 \in Nat BY <3>1, Counted
    <3> QED BY <3>1, <3>2, Counted
  <2>3. Fits(Len(req), Len(token) + 1, Cardinality(Redeeming), Cardinality(BadCalls), w, Cardinality(Issuing))
    BY <2>2, GivenFits, Counted DEF Limits, Enough
  <2> QED BY <1>5, <2>1, <2>2, <2>3, Counted
<1>8. ASSUME Waiting' \subseteq Waiting, NEW i \in Issuing, Issuing' \subseteq Issuing \ {i} PROVE Limits'
  <2>1. Cardinality(Waiting') <= Cardinality(Waiting) /\ Cardinality(Waiting') \in Nat BY <1>8, Counted, Fewer
  <2>2. PICK k \in Nat : Cardinality(Issuing) = k + 1 /\ Cardinality(Issuing') <= k /\ Cardinality(Issuing') \in Nat
    <3>1. Cardinality(Issuing') + 1 <= Cardinality(Issuing) /\ Cardinality(Issuing') \in Nat BY <1>8, Counted, OneLess
    <3>2. Cardinality(Issuing) - 1 \in Nat BY <3>1, Counted
    <3> QED BY <3>1, <3>2, Counted
  <2>3. Fits(Len(req), Len(token) + 1, Cardinality(Redeeming), Cardinality(BadCalls), Cardinality(Waiting), k)
    BY <2>2, GivenFits, Counted DEF Limits, Enough
  <2> QED BY <1>5, <2>1, <2>2, <2>3, Counted
<1> QED BY <1>6, <1>7, <1>8

\* A code is exchanged for a session.
LEMMA HandoffLimits ==
  ASSUME Basic, World, Limits, NEW t \in Tabs, Handoff(t)
  PROVE  Limits'
<1>1. Typed /\ Len(token) \in Nat /\ tab[t] \in PageState /\ DOMAIN token = 1 .. Len(token) BY DEF Basic, Typed
<1>2. CASE Redeem(t)
  <2> DEFINE page == [tab[t] EXCEPT !.at = "issue"]
  <2>1. page \in PageState /\ page.at = "issue" /\ page.flight = tab[t].flight /\ tab[t].at = "redeem"
        /\ tab' = [tab EXCEPT ![t] = page] /\ UNCHANGED <<token, req, call, excused, alarms>>
    BY <1>1, <1>2 DEF Redeem, PageState, Booting, ghosts
  <2> HIDE DEF page
  <2>2. Turns(t, "issue", tab[t].flight) BY <1>1, <2>1, TurnIs
  <2>3. Redeeming' = Redeeming /\ Waiting' = Waiting BY <2>1, <2>2 DEF Redeeming, Waiting, Turns
  <2>4. \A c \in Codes : code'[c].opened = code[c].opened BY <1>1, <1>2 DEF Redeem, Typed, CodeState
  <2>5. BadCalls' = BadCalls /\ Issuing' = Issuing BY <2>1 DEF BadCalls, Issuing
  <2> QED BY <1>1, <2>1, <2>2, <2>3, <2>4, <2>5, QuietLimits DEF Turns
<1>3. CASE IssueSession(t)
  <2> DEFINE n == Len(token) + 1
             page == [tab[t] EXCEPT !.at = "redeemed", !.got = n]
  <2>0. n \in Nat /\ n \in 1 .. Len(token) + 1 BY <1>1
  <2>1. /\ tab[t].at = "issue" /\ Issue(n) /\ tab' = [tab EXCEPT ![t] = page] /\ UNCHANGED <<req, call, excused, alarms>>
        /\ code' = [code EXCEPT ![tab[t].code] = [state |-> "used", opened |-> code[tab[t].code].opened \cup {n}]]
    BY <1>1, <1>3 DEF IssueSession, ghosts, Typed
  <2>2. page \in PageState /\ page.at = "redeemed" /\ page.flight = tab[t].flight
    <3> HIDE DEF n
    <3> QED BY <1>1, <2>0 DEF PageState, Booting
  <2>3. \A c \in Codes : code'[c].opened \subseteq code[c].opened \cup {Len(token) + 1}
    <3> HIDE DEF page
    <3> QED BY <1>1, <2>1 DEF Typed
  <2> HIDE DEF page
  <2>4. Turns(t, "redeemed", tab[t].flight) BY <1>1, <2>1, <2>2, TurnIs
  <2>5. Redeeming' = Redeeming /\ t \in Waiting /\ Waiting' \subseteq Waiting \ {t} BY <2>1, <2>4 DEF Redeeming, Waiting, Turns
  <2>6. BadCalls' = BadCalls /\ Issuing' = Issuing BY <2>1 DEF BadCalls, Issuing
  <2>7. \A u \in Tabs : tab'[u].flight = tab[u].flight BY <2>4 DEF Turns
  <2> HIDE DEF n
  <2> QED BY <1>1, <2>0, <2>1, <2>3, <2>5, <2>6, <2>7, IssueLimits DEF ghosts
<1>4. CASE Redeemed(t)
  <2> DEFINE page == [tab[t] EXCEPT !.at = "open", !.access = "fresh", !.got = 0]
  <2>1. page \in PageState /\ page.at = "open" /\ page.flight = tab[t].flight BY <1>1 DEF PageState
  <2>2. tab' = [tab EXCEPT ![t] = page] /\ UNCHANGED <<token, code, req, call, excused, alarms>>
    BY <1>1, <1>4 DEF Redeemed, server, ghosts, Typed
  <2> HIDE DEF page
  <2>3. Turns(t, "open", tab[t].flight) BY <1>1, <2>1, <2>2, TurnIs
  <2>4. Redeeming' \subseteq Redeeming /\ Waiting' \subseteq Waiting BY <2>3, NobodyStarts
  <2>5. BadCalls' = BadCalls /\ Issuing' = Issuing BY <2>2 DEF BadCalls, Issuing
  <2> QED BY <1>1, <2>2, <2>3, <2>4, <2>5, QuietLimits DEF Turns
<1>5. CASE NotRedeemed(t)
  <2> DEFINE page == [tab[t] EXCEPT !.at = "boot", !.got = 0]
  <2>1. page \in PageState /\ page.at = "boot" /\ page.flight = tab[t].flight BY <1>1 DEF PageState, Booting
  <2>2. RefreshOnce(t, page) /\ UNCHANGED <<token, code, call, ghosts>> /\ t \in Redeeming
    BY <1>5 DEF NotRedeemed, server, Redeeming
  <2> HIDE DEF page
  <2>3. BadCalls' = BadCalls /\ page.flight <= Len(req) BY <2>1, <2>2 DEF BadCalls, Limits, Held
  <2> QED BY <1>1, <2>1, <2>2, <2>3, AskIsEnough
<1> QED BY <1>2, <1>3, <1>4, <1>5 DEF Handoff

\* The API serves a refresh, or its answer is lost.
LEMMA ApiLimits ==
  ASSUME Basic, World, Limits, NEW i \in DOMAIN req, Api(i) \/ Lost(i)
  PROVE  Limits'
<1>1. Typed /\ Known /\ Len(token) \in Nat /\ token \in Seq(TokenState) /\ DOMAIN token = 1 .. Len(token) BY DEF Basic, Typed
<1>2. req[i].tok \in Nat /\ req[i].new \in Nat /\ req[i].tok <= Len(token)
  <2>1. req[i] \in ReqState BY <1>1 DEF Typed
  <2> QED BY <1>1, <2>1 DEF ReqState, Known
<1>3. req[i].tok # 0 => req[i].tok \in DOMAIN token BY <1>1, <1>2
<1>s. {"revoke", "issue", "ok", "no"} \subseteq ReqStates /\ "revoked" \in TokenStates BY DEF ReqStates, TokenStates
<1>4. UNCHANGED <<tab, call>> /\ Redeeming' = Redeeming /\ Waiting' = Waiting /\ BadCalls' = BadCalls
      /\ \A u \in Tabs : tab'[u].flight \in {tab[u].flight, 0}
  <2>1. UNCHANGED <<tab, call>> BY DEF Api, Lost, Missing, Reuse, Expired, Check, RevokeOld, IssueNew
  <2> QED BY <2>1 DEF Redeeming, Waiting, BadCalls
<1>5. UNCHANGED code BY DEF Api, Lost, Missing, Reuse, Expired, Check, RevokeOld, IssueNew, server
<1>6. ASSUME NEW a \in ReqStates, NEW n \in Nat, Answers(i, a, n), a \in {"revoke", "issue"} => i \in Issuing, a # "sent"
      PROVE  Len(req') = Len(req) /\ Issuing' \subseteq Issuing /\ (a \notin {"revoke", "issue"} => Issuing' \subseteq Issuing \ {i})
  <2>1. /\ Len(req') = Len(req) /\ DOMAIN req' = DOMAIN req /\ \A j \in DOMAIN req : req'[j].at = IF j = i THEN a ELSE req[j].at
    BY <1>1, <1>6, Answered
  <2> QED BY <1>6, <2>1 DEF Issuing
<1>7. ASSUME NEW a \in {"revoke", "issue", "no"}, NEW n \in Nat, Answers(i, a, n), a # "no" => i \in Issuing,
             Len(token') = Len(token), DOMAIN token' = DOMAIN token, \A k \in DOMAIN token : token'[k].first = token[k].first,
             excused' \subseteq excused \cup (1 .. Len(token)), alarms' \subseteq alarms \cup (1 .. Len(token))
      PROVE  Limits'
  <2>1. Len(req') = Len(req) /\ Issuing' \subseteq Issuing BY <1>6, <1>7, <1>s
  <2> QED BY <1>1, <1>4, <1>5, <1>7, <2>1, QuietLimits
<1>8. CASE Missing(i) \/ Check(i)
  <2>1. PICK a \in {"no", "revoke"} : Answer(i, a) BY <1>8 DEF Missing, Check
  <2>2. UNCHANGED <<token, excused, alarms>> /\ i \in Issuing BY <1>8 DEF Missing, Check, server, ghosts, Issuing
  <2>3. Answers(i, a, req[i].new) BY <1>1, <1>s, <2>1, AnswerIs
  <2> QED BY <1>2, <1>7, <2>2, <2>3
<1>9. CASE Reuse(i)
  <2>1. token' = [id \in DOMAIN token |-> [token[id] EXCEPT !.state = "revoked"]] BY <1>9 DEF Reuse
  <2>2. \A id \in DOMAIN token : token[id] \in TokenState BY <1>1
  <2>3. DOMAIN token' = DOMAIN token /\ \A id \in DOMAIN token : token'[id].first = token[id].first BY <2>1, <2>2 DEF TokenState
  <2>4. Len(token') = Len(token)
    <3>1. \A id \in DOMAIN token : [token[id] EXCEPT !.state = "revoked"] \in TokenState BY <2>2 DEF TokenState, TokenStates
    <3> QED BY <1>1, <2>1, <3>1
  <2>5. Answers(i, "no", req[i].new) BY <1>1, <1>9, <1>s, AnswerIs DEF Reuse
  <2>6. excused' \subseteq excused \cup (1 .. Len(token)) /\ alarms' \subseteq alarms \cup (1 .. Len(token))
    BY <1>1, <1>3, <1>9 DEF Reuse
  <2> QED BY <1>2, <1>7, <2>3, <2>4, <2>5, <2>6
<1>10. CASE Expired(i) \/ RevokeOld(i)
  <2>1. req[i].tok # 0 /\ SetState(req[i].tok, "revoked") BY <1>1, <1>10 DEF Expired, RevokeOld, Known
  <2>2. Len(token') = Len(token) /\ DOMAIN token' = DOMAIN token /\ \A k \in DOMAIN token : token'[k].first = token[k].first
    BY <1>1, <1>3, <1>s, <2>1, FirstStays
  <2>3. PICK a \in {"no", "issue"} : Answer(i, a) /\ (a # "no" => i \in Issuing) BY <1>10 DEF Expired, RevokeOld, Issuing
  <2>4. Answers(i, a, req[i].new) BY <1>1, <1>s, <2>3, AnswerIs
  <2>5. excused' \subseteq excused \cup (1 .. Len(token)) /\ UNCHANGED alarms
    BY <1>1, <1>3, <1>10, <2>1 DEF Expired, RevokeOld, ghosts
  <2> QED BY <1>2, <1>7, <2>2, <2>3, <2>4, <2>5
<1>11. CASE IssueNew(i)
  <2>1. req[i].tok \in DOMAIN token /\ i \in Issuing BY <1>1, <1>3, <1>11 DEF IssueNew, Known, Issuing
  <2>2. token[req[i].tok].first \in 1 .. Len(token) BY <2>1 DEF Limits, Held
  <2>3. token[req[i].tok].first \in Nat /\ token[req[i].tok].first \in 1 .. Len(token) + 1 /\ Len(token) + 1 \in Nat BY <1>1, <2>2
  <2>4. Answers(i, "ok", Len(token) + 1) /\ Issue(token[req[i].tok].first) /\ UNCHANGED ghosts BY <1>11 DEF IssueNew, Answers
  <2>5. Len(req') = Len(req) /\ Issuing' \subseteq Issuing \ {i} BY <1>6, <1>s, <2>3, <2>4
  <2> QED BY <1>1, <1>4, <1>5, <2>1, <2>3, <2>4, <2>5, IssueLimits
<1>12. CASE Lost(i)
  <2>1. Answers(i, "no", 0) /\ UNCHANGED <<token, alarms>> /\ excused' = excused \cup {req[i].tok} /\ req[i].tok # 0
    BY <1>1, <1>12 DEF Lost, Answers, server, Known
  <2>2. excused' \subseteq excused \cup (1 .. Len(token)) BY <1>1, <1>3, <2>1
  <2> QED BY <1>7, <2>1, <2>2
<1> QED BY <1>8, <1>9, <1>10, <1>11, <1>12 DEF Api

\* What a page has in flight was issued, and a page that closes has no bad call more than before.
LEMMA InFlightIssued == ASSUME Basic, NEW t \in Tabs PROVE InFlight(t) \subseteq 1 .. Len(token)
<1>1. \A i \in DOMAIN req : req[i] \in ReqState /\ req[i].tok <= Len(token) /\ Len(token) \in Nat BY DEF Basic, Typed, Known
<1>2. \A i \in DOMAIN req : req[i].tok \in 0 .. Len(token) BY <1>1 DEF ReqState
<1> QED BY <1>1, <1>2 DEF InFlight
LEMMA BadForgotten ==
  ASSUME Typed, World, NEW t \in Tabs, Forget(t) PROVE BadCalls' \subseteq BadCalls
  BY Forgotten DEF BadCalls

\* A page that turns by itself, with no request and no new token.
LEMMA TurnLimits ==
  ASSUME Typed, Limits, NEW t \in Tabs, NEW page \in PageState, tab' = [tab EXCEPT ![t] = page], UNCHANGED <<code, req, alarms>>,
         page.at = tab[t].at \/ page.at \in {"closed", "open", "boot"}, page.flight \in {tab[t].flight, 0},
         Len(token') = Len(token), DOMAIN token' = DOMAIN token, \A k \in DOMAIN token : token'[k].first = token[k].first,
         BadCalls' \subseteq BadCalls, excused' \subseteq excused \cup (1 .. Len(token))
  PROVE  Limits'
<1>1. Turns(t, page.at, page.flight) BY TurnIs
<1>2. Redeeming' \subseteq Redeeming /\ Waiting' \subseteq Waiting BY <1>1, NobodyStarts
<1>3. Issuing' = Issuing BY DEF Issuing
<1> QED BY <1>1, <1>2, <1>3, QuietLimits DEF Turns

\* A page is opened, left, signed in or out.
LEMMA PageLimits ==
  ASSUME Basic, World, Limits, NEW t \in Tabs,
         \/ AccessExpires(t) \/ Leave(t) \/ Login(t) \/ LoggedIn(t) \/ Logout(t) \/ Revoke(t) \/ LoggedOut(t)
         \/ \E c \in Codes \cup {NoCode} : Load(t, c)
  PROVE  Limits'
<1>1. Typed /\ Len(token) \in Nat /\ tab[t] \in PageState /\ DOMAIN token = 1 .. Len(token) BY DEF Basic, Typed
<1>c. CookieOf(t) \in Nat /\ tab[t].got \in Nat /\ tab[t].got <= Len(token)
  BY <1>1 DEF CookieOf, World, PageState, Basic, Known, Typed
<1>z. Closed \in PageState /\ Closed.at = "closed" /\ Closed.flight = 0 BY DEF Closed, PageState, Forms
<1>2. ASSUME NEW page \in PageState, tab' = [tab EXCEPT ![t] = page], page.at = tab[t].at, page.flight = tab[t].flight,
             UNCHANGED <<token, code, req, call, excused, alarms>>
      PROVE  Limits'
  <2>1. BadCalls' = BadCalls BY <1>2 DEF BadCalls
  <2> QED BY <1>1, <1>2, <2>1, TurnLimits
<1>3. CASE AccessExpires(t)
  <2> DEFINE page == [tab[t] EXCEPT !.access = "stale"]
  <2>1. page \in PageState /\ page.at = tab[t].at /\ page.flight = tab[t].flight BY <1>1 DEF PageState
  <2>2. tab' = [tab EXCEPT ![t] = page] /\ UNCHANGED <<token, code, req, call, excused, alarms>>
    BY <1>3 DEF AccessExpires, server, ghosts
  <2> HIDE DEF page
  <2> QED BY <1>2, <2>1, <2>2
<1>4. CASE Leave(t) \/ LoggedOut(t)
  <2>1. /\ tab' = [tab EXCEPT ![t] = Closed] /\ Forget(t) /\ excused' = excused \cup InFlight(t)
        /\ UNCHANGED <<token, code, req, alarms>>
    BY <1>4 DEF Leave, LoggedOut, server
  <2>2. BadCalls' \subseteq BadCalls /\ excused' \subseteq excused \cup (1 .. Len(token)) BY <1>1, <2>1, BadForgotten, InFlightIssued
  <2> QED BY <1>1, <1>z, <2>1, <2>2, TurnLimits
<1>5. CASE Login(t)
  <2> DEFINE n == Len(token) + 1
             page == [tab[t] EXCEPT !.form = "login", !.got = n]
  <2>1. tab' = [tab EXCEPT ![t] = page] /\ Room /\ Issue(n) /\ UNCHANGED <<code, req, call, ghosts>>
    BY <1>1, <1>5 DEF Login, Typed
  <2>2. n \in Nat /\ n \in 1 .. Len(token) + 1 BY <1>1
  <2>3. page \in PageState /\ page.at = tab[t].at /\ page.flight = tab[t].flight
    <3> HIDE DEF n
    <3> QED BY <1>1, <2>2 DEF PageState, Forms
  <2> HIDE DEF page
  <2>4. Turns(t, page.at, page.flight) BY <1>1, <2>1, <2>3, TurnIs
  <2>5. Redeeming' \subseteq Redeeming /\ Waiting' \subseteq Waiting BY <2>3, <2>4, NobodyStarts
  <2>6. Issuing' = Issuing /\ BadCalls' = BadCalls BY <2>1 DEF Issuing, BadCalls
  <2>7. \A u \in Tabs : tab'[u].flight = tab[u].flight BY <2>3, <2>4 DEF Turns
  <2> HIDE DEF n
  <2> QED BY <1>1, <2>1, <2>2, <2>5, <2>6, <2>7, IssueLimits
<1>6. CASE LoggedIn(t)
  <2> DEFINE off == [tab[t] EXCEPT !.form = "none", !.got = 0]
             on == [tab[t] EXCEPT !.form = "none", !.got = 0, !.access = "fresh"]
  <2>a. off \in PageState /\ off.at = tab[t].at /\ off.flight = tab[t].flight BY <1>1 DEF PageState, Forms
  <2>b. on \in PageState /\ on.at = tab[t].at /\ on.flight = tab[t].flight BY <1>1 DEF PageState, Forms
  <2>1. \A page \in {off, on} : page \in PageState /\ page.at = tab[t].at /\ page.flight = tab[t].flight
    <3> HIDE DEF off, on
    <3> QED BY <2>a, <2>b
  <2>2. PICK page \in {off, on} : tab' = [tab EXCEPT ![t] = page] BY <1>1, <1>6 DEF LoggedIn, Typed
  <2>3. UNCHANGED <<token, code, req, call, excused, alarms>> BY <1>6 DEF LoggedIn, server, ghosts
  <2> HIDE DEF off, on
  <2> QED BY <1>2, <2>1, <2>2, <2>3
<1>7. CASE Logout(t)
  <2> DEFINE n == CookieOf(t)
             page == [tab[t] EXCEPT !.form = "logout", !.got = n]
  <2>1. tab' = [tab EXCEPT ![t] = page] /\ UNCHANGED <<token, code, req, call, excused, alarms>>
    BY <1>1, <1>7 DEF Logout, Typed, server, ghosts
  <2>2. page \in PageState /\ page.at = tab[t].at /\ page.flight = tab[t].flight
    <3>1. n \in Nat BY <1>c
    <3> HIDE DEF n
    <3> QED BY <1>1, <3>1 DEF PageState, Forms
  <2> HIDE DEF page
  <2> QED BY <1>2, <2>1, <2>2
<1>8. CASE Revoke(t)
  <2> DEFINE page == [tab[t] EXCEPT !.form = "left"]
  <2>1. page \in PageState /\ page.at = tab[t].at /\ page.flight = tab[t].flight BY <1>1 DEF PageState, Forms
  <2>2. /\ tab' = [tab EXCEPT ![t] = page]
        /\ IF tab[t].got # 0 THEN SetState(tab[t].got, "revoked") ELSE UNCHANGED token
        /\ excused' = excused \cup ({tab[t].got} \ {0}) /\ UNCHANGED <<code, req, call, alarms>>
    BY <1>8 DEF Revoke
  <2> HIDE DEF page
  <2>3. Len(token') = Len(token) /\ DOMAIN token' = DOMAIN token /\ \A k \in DOMAIN token : token'[k].first = token[k].first
    <3>1. CASE tab[t].got = 0 BY <2>2, <3>1
    <3>2. CASE tab[t].got # 0
      <4>1. tab[t].got \in DOMAIN token /\ "revoked" \in TokenStates BY <1>1, <1>c, <3>2 DEF TokenStates
      <4> QED BY <1>1, <2>2, <3>2, <4>1, FirstStays
    <3> QED BY <3>1, <3>2
  <2>4. excused' \subseteq excused \cup (1 .. Len(token)) BY <1>c, <1>1, <2>2
  <2>5. BadCalls' = BadCalls BY <2>2 DEF BadCalls
  <2> QED BY <1>1, <2>1, <2>2, <2>3, <2>4, <2>5, TurnLimits
<1>9. ASSUME NEW c \in Codes \cup {NoCode}, Load(t, c) PROVE Limits'
  <2>1. CASE c # NoCode
    <3> DEFINE page == [Closed EXCEPT !.at = "redeem", !.code = c]
    <3>1. page \in PageState /\ page.at = "redeem" /\ page.flight = 0 BY DEF Closed, PageState, Forms, Booting
    <3>2. tab' = [tab EXCEPT ![t] = page] /\ Room /\ UNCHANGED <<token, code, req, call, excused, alarms>>
      BY <1>9, <2>1 DEF Load, server, ghosts
    <3> HIDE DEF page
    <3>3. Turns(t, "redeem", 0) BY <1>1, <3>1, <3>2, TurnIs
    <3>4. Redeeming' \subseteq Redeeming \cup {t} /\ Waiting' \subseteq Waiting \cup {t} BY <3>3 DEF Turns, Redeeming, Waiting
    <3>5. /\ Cardinality(Redeeming') <= Cardinality(Redeeming) + 1 /\ Cardinality(Redeeming') \in Nat
          /\ Cardinality(Waiting') <= Cardinality(Waiting) + 1 /\ Cardinality(Waiting') \in Nat
      BY <1>1, <3>4, Counted, OneMore
    <3>6. BadCalls' = BadCalls /\ Issuing' = Issuing BY <3>2 DEF BadCalls, Issuing
    <3>7. Fits(Len(req), Len(token), Cardinality(Redeeming) + 1, Cardinality(BadCalls), Cardinality(Waiting) + 1, Cardinality(Issuing))
      BY <1>1, <3>2, RoomIs, StartFits, Counted
    <3>8. Fits(Len(req), Len(token), Cardinality(Redeeming'), Cardinality(BadCalls), Cardinality(Waiting'), Cardinality(Issuing))
      <4>1. Cardinality(Redeeming) + 1 \in Nat /\ Cardinality(Waiting) + 1 \in Nat BY <1>1, Counted
      <4>2. /\ Cardinality(BadCalls) \in Nat /\ Cardinality(BadCalls) <= Cardinality(BadCalls) /\ Len(req) \in Nat
            /\ Cardinality(Issuing) \in Nat /\ Cardinality(Issuing) <= Cardinality(Issuing) /\ Len(token) \in Nat
        BY <1>1, Counted
      <4> HIDE DEF Redeeming, Waiting, BadCalls, Issuing
      <4> QED BY <3>5, <3>7, <4>1, <4>2, LessFits
    <3>9. Enough' BY <3>2, <3>6, <3>8 DEF Enough
    <3>10. Held'
      <4>1. \A u \in Tabs : tab'[u].flight <= Len(req) BY <1>1, <3>3, Counted DEF Turns, Limits, Held
      <4> QED BY <3>2, <4>1 DEF Limits, Held
    <3> QED BY <3>9, <3>10 DEF Limits
  <2>2. CASE c = NoCode
    <3> DEFINE page == [Closed EXCEPT !.at = "boot"]
    <3>1. page \in PageState /\ page.at = "boot" /\ page.flight = 0 BY DEF Closed, PageState, Forms, Booting
    <3>2. RefreshOnce(t, page) /\ Room /\ UNCHANGED <<token, code, call, ghosts>> BY <1>9, <2>2 DEF Load, server
    <3> HIDE DEF page
    <3>3. BadCalls' = BadCalls /\ page.flight <= Len(req) BY <1>1, <3>1, <3>2, Counted DEF BadCalls
    <3> QED BY <1>1, <3>1, <3>2, <3>3, AskIsEnough
  <2> QED BY <2>1, <2>2
<1> QED BY <1>3, <1>4, <1>5, <1>6, <1>7, <1>8, <1>9

\* The answer to a refresh arrives.
LEMMA SettleLimits ==
  ASSUME Basic, World, Limits, NEW i \in DOMAIN req, Settle(i)
  PROVE  Limits'
<1> DEFINE t == req[i].tab
<1>1. Typed /\ "done" \in ReqStates /\ Len(token) \in Nat BY DEF Basic, ReqStates, Typed
<1>2. t \in Tabs /\ req[i].new \in Nat /\ tab[t] \in PageState
  <2>1. req[i] \in ReqState BY <1>1 DEF Typed
  <2>2. t \in Tabs /\ req[i].new \in Nat BY <2>1 DEF ReqState
  <2> HIDE DEF t
  <2> QED BY <1>1, <2>2 DEF Typed
<1>3. Answer(i, "done") /\ UNCHANGED <<token, code, excused, alarms>>
  BY DEF Settle, Refreshed, NotRefreshed, Orphaned, server, ghosts
<1>4. Len(req') = Len(req) /\ Issuing' \subseteq Issuing
  <2>1. Len(req') = Len(req) /\ DOMAIN req' = DOMAIN req /\ \A j \in DOMAIN req : req'[j].at = IF j = i THEN "done" ELSE req[j].at
    BY <1>1, <1>2, <1>3, AnswerIs, Answered
  <2> QED BY <2>1 DEF Issuing
<1>5. BadCalls' \subseteq BadCalls
  <2>1. \A c \in Calls : call'[c] = "bad" => call[c] = "bad"
    BY <1>1 DEF Settle, Refreshed, NotRefreshed, Orphaned, Joined, Typed, CallState
  <2> QED BY <2>1 DEF BadCalls
<1>6. UNCHANGED tab \/ Turns(t, Boots(tab[t]), 0)
  <2> DEFINE s == tab[t]
  <2>0. s \in PageState /\ Boots(s) \in {"closed", "open"} \cup Booting BY <1>2 DEF PageState, Boots
  <2>1. CASE Refreshed(i)
    <3> DEFINE page == [s EXCEPT !.flight = 0, !.access = "fresh", !.at = Boots(s)]
    <3>1. tab' = [tab EXCEPT ![t] = page] BY <2>1 DEF Refreshed
    <3>2. page \in PageState /\ page.at = Boots(s) /\ page.flight = 0
      <4> HIDE DEF s
      <4> QED BY <2>0 DEF PageState
    <3> HIDE DEF page, t
    <3>3. Turns(t, page.at, page.flight) BY <1>1, <1>2, <3>1, <3>2, TurnIs
    <3> QED BY <3>2, <3>3
  <2>2. CASE NotRefreshed(i)
    <3> DEFINE cleared == \E c \in Calls : CallTab[c] = t /\ call[c] = "joined"
               a == IF cleared THEN "none" ELSE s.access
               page == [s EXCEPT !.flight = 0, !.at = Boots(s), !.access = a]
    <3>1. tab' = [tab EXCEPT ![t] = page] BY <2>2 DEF NotRefreshed
    <3>a. a \in {"none", "fresh", "stale"} BY <2>0 DEF PageState
    <3>2. page \in PageState /\ page.at = Boots(s) /\ page.flight = 0
      <4> HIDE DEF s, a
      <4> QED BY <2>0, <3>a DEF PageState
    <3> HIDE DEF page, t
    <3>3. Turns(t, page.at, page.flight) BY <1>1, <1>2, <3>1, <3>2, TurnIs
    <3> QED BY <3>2, <3>3
  <2>3. CASE Orphaned(i) BY <2>3 DEF Orphaned
  <2> QED BY <2>1, <2>2, <2>3 DEF Settle
<1> HIDE DEF t
<1>7. Redeeming' \subseteq Redeeming /\ Waiting' \subseteq Waiting /\ \A u \in Tabs : tab'[u].flight \in {tab[u].flight, 0}
  <2>1. CASE UNCHANGED tab BY <2>1 DEF Redeeming, Waiting
  <2>2. CASE Turns(t, Boots(tab[t]), 0)
    <3>1. Boots(tab[t]) = tab[t].at \/ Boots(tab[t]) \in {"closed", "open", "boot"} BY DEF Boots
    <3> QED BY <1>2, <2>2, <3>1, NobodyStarts DEF Turns
  <2> QED BY <1>6, <2>1, <2>2
<1> QED BY <1>1, <1>3, <1>4, <1>5, <1>7, QuietLimits

\* A call is sent and answered.
LEMMA CallLimits ==
  ASSUME Basic, World, Limits, NEW c \in Calls, Send(c) \/ Reply(c) \/ Unauthorized(c)
  PROVE  Limits'
<1>1. Typed /\ Len(token) \in Nat /\ CallTab[c] \in Tabs /\ tab[CallTab[c]] \in PageState /\ call \in [Calls -> CallState]
  BY DEF Basic, Typed, World
<1>2. CASE Reply(c)
  <2>1. UNCHANGED <<token, code, req, tab, excused, alarms>> BY <1>2 DEF Reply, server, ghosts
  <2>2. Redeeming' = Redeeming /\ Waiting' = Waiting /\ Issuing' = Issuing BY <2>1 DEF Redeeming, Waiting, Issuing
  <2>3. BadCalls' \subseteq BadCalls BY <1>1, <1>2 DEF Reply, BadCalls
  <2> QED BY <1>1, <2>1, <2>2, <2>3, QuietLimits
<1>3. CASE Send(c)
  <2>1. UNCHANGED <<token, code, req, tab, excused, alarms>> /\ Room BY <1>3 DEF Send, server, ghosts
  <2>2. Redeeming' = Redeeming /\ Waiting' = Waiting /\ Issuing' = Issuing BY <2>1 DEF Redeeming, Waiting, Issuing
  <2>3. BadCalls' \subseteq BadCalls \cup {c} BY <1>1, <1>3 DEF Send, BadCalls
  <2>4. Cardinality(BadCalls') <= Cardinality(BadCalls) + 1 /\ Cardinality(BadCalls') \in Nat BY <1>1, <2>3, Counted, OneMore
  <2>5. Fits(Len(req), Len(token), Cardinality(Redeeming), Cardinality(BadCalls) + 1, Cardinality(Waiting), Cardinality(Issuing))
    BY <1>1, <2>1, RoomIs, StartFits, Counted
  <2>6. Fits(Len(req), Len(token), Cardinality(Redeeming), Cardinality(BadCalls'), Cardinality(Waiting), Cardinality(Issuing))
    <3>1. Cardinality(BadCalls) + 1 \in Nat BY <1>1, Counted
    <3>2. /\ Cardinality(Redeeming) \in Nat /\ Cardinality(Redeeming) <= Cardinality(Redeeming) /\ Len(req) \in Nat
          /\ Cardinality(Waiting) \in Nat /\ Cardinality(Waiting) <= Cardinality(Waiting) /\ Len(token) \in Nat
          /\ Cardinality(Issuing) \in Nat /\ Cardinality(Issuing) <= Cardinality(Issuing)
      BY <1>1, Counted
    <3> QED BY <2>4, <2>5, <3>1, <3>2, LessFits
  <2>7. Enough' BY <2>1, <2>2, <2>6 DEF Enough
  <2>8. Held' BY <2>1 DEF Limits, Held
  <2> QED BY <2>7, <2>8 DEF Limits
<1>4. CASE Unauthorized(c)
  <2> DEFINE page == tab[CallTab[c]]
  <2>1. page \in PageState /\ page.flight <= Len(req) BY <1>1 DEF Limits, Held
  <2>2. RefreshOnce(CallTab[c], page) /\ UNCHANGED <<token, code, ghosts>> BY <1>4 DEF Unauthorized, server
  <2>3. c \in BadCalls /\ BadCalls' \subseteq BadCalls \ {c} BY <1>1, <1>4 DEF Unauthorized, BadCalls
  <2>4. page.at = tab[CallTab[c]].at OBVIOUS
  <2> HIDE DEF page
  <2> QED BY <1>1, <2>1, <2>2, <2>3, <2>4, AskIsEnough
<1> QED BY <1>2, <1>3, <1>4

\* Every step of Sessions keeps within its limits, and the start is within them.
LEMMA NextLimits == ASSUME Basic, World, Limits, [Next]_vars PROVE Limits'
<1>1. Typed /\ Len(token) \in Nat BY DEF Basic, Typed
<1>2. ASSUME UNCHANGED <<req, tab, call, excused, alarms>>, Len(token') = Len(token), DOMAIN token' = DOMAIN token,
             \A k \in DOMAIN token : token'[k].first = token[k].first, \A c \in Codes : code'[c].opened = code[c].opened
      PROVE  Limits'
  <2>1. Redeeming' = Redeeming /\ Waiting' = Waiting /\ Issuing' = Issuing /\ BadCalls' = BadCalls
    BY <1>2 DEF Redeeming, Waiting, Issuing, BadCalls
  <2> QED BY <1>1, <1>2, <2>1, QuietLimits
<1>3. ASSUME NEW c \in Codes, Mint(c) \/ CodeExpires(c) PROVE Limits'
  <2>1. UNCHANGED <<token, req, tab, call, excused, alarms>> BY <1>3 DEF Mint, CodeExpires, ghosts
  <2>2. \A d \in Codes : code'[d].opened = code[d].opened BY <1>1, <1>3 DEF Mint, CodeExpires, Typed, CodeState
  <2> QED BY <1>2, <2>1, <2>2
<1>4. ASSUME NEW id \in DOMAIN token, TokenExpires(id) PROVE Limits'
  <2>1. UNCHANGED <<code, req, tab, call, excused, alarms>> /\ SetState(id, "expired") /\ "expired" \in TokenStates
    BY <1>4 DEF TokenExpires, ghosts, TokenStates
  <2> QED BY <1>1, <1>2, <2>1, FirstStays
<1>5. CASE UNCHANGED vars BY <1>2, <1>5 DEF vars
<1> QED BY <1>3, <1>4, <1>5, HandoffLimits, ApiLimits, PageLimits, SettleLimits, CallLimits DEF Next

LEMMA InitLimits == Init => Limits
<1> SUFFICES ASSUME Init PROVE Limits OBVIOUS
<1>1. token = <<>> /\ req = <<>> /\ Len(token) = 0 /\ Len(req) = 0 BY DEF Init
<1>2. \A t \in Tabs : tab[t].at = "closed" /\ tab[t].flight = 0 BY DEF Init, Closed
<1>3. Held BY <1>1, <1>2 DEF Init, Held
<1>4. Redeeming = {} /\ Waiting = {} /\ BadCalls = {} /\ Issuing = {} BY <1>1, <1>2 DEF Init, Redeeming, Waiting, BadCalls, Issuing
<1>5. Enough BY <1>1, <1>4, FS_EmptySet, SessionsAssumption DEF Enough, Fits
<1> QED BY <1>3, <1>5 DEF Limits

\* Within the limits everything has its type.
LEMMA SessionsTyped == ASSUME Basic, Limits PROVE TypeOK
<1>1. Typed /\ Known /\ Held BY DEF Basic, Limits
<1>2. Len(token) \in Nat /\ Len(req) \in Nat /\ Len(token) <= MaxTokens /\ Len(req) <= MaxRequests
  <2>1. ASSUME NEW q \in Nat, NEW k \in Nat, NEW r \in Nat, NEW b \in Nat, NEW w \in Nat, NEW i \in Nat, Fits(q, k, r, b, w, i)
        PROVE  q <= MaxRequests /\ k <= MaxTokens
    BY <2>1, SessionsAssumption DEF Fits
  <2> QED BY <1>1, <2>1, Counted DEF Limits, Enough
<1>3. MaxTokens \in Nat /\ MaxRequests \in Nat /\ 1 .. Len(token) \subseteq 1 .. MaxTokens BY <1>2, SessionsAssumption
<1>4. token \in Seq([state : TokenStates, first : 1 .. MaxTokens])
  <2>1. \A k \in DOMAIN token : token[k] \in TokenState /\ token[k].first \in 1 .. MaxTokens BY <1>1, <1>3 DEF Typed, Held
  <2>2. \A k \in DOMAIN token : token[k] \in [state : TokenStates, first : 1 .. MaxTokens] BY <2>1 DEF TokenState
  <2>3. DOMAIN token = 1 .. Len(token) /\ token \in Seq(TokenState) BY <1>1 DEF Typed
  <2> DEFINE S == [state : TokenStates, first : 1 .. MaxTokens]
  <2>4. \A k \in 1 .. Len(token) : token[k] \in S BY <2>2, <2>3
  <2> HIDE DEF S
  <2>5. token \in Seq(S) BY <1>2, <2>3, <2>4
  <2> QED BY <2>5 DEF S
<1>5. req \in Seq([tab : Tabs, tok : Ids, at : ReqStates, new : Ids])
  <2>1. \A j \in DOMAIN req : req[j] \in ReqState /\ req[j].tok <= MaxTokens /\ req[j].new <= MaxTokens
    <3>1. \A j \in DOMAIN req : req[j] \in ReqState /\ req[j].tok <= Len(token) /\ req[j].new <= Len(token) BY <1>1 DEF Typed, Known
    <3> QED BY <1>2, <1>3, <3>1 DEF ReqState
  <2>2. \A j \in DOMAIN req : req[j] \in [tab : Tabs, tok : Ids, at : ReqStates, new : Ids] BY <1>3, <2>1 DEF ReqState, Ids
  <2>3. DOMAIN req = 1 .. Len(req) /\ req \in Seq(ReqState) BY <1>1 DEF Typed
  <2> DEFINE S == [tab : Tabs, tok : Ids, at : ReqStates, new : Ids]
  <2>4. \A j \in 1 .. Len(req) : req[j] \in S BY <2>2, <2>3
  <2> HIDE DEF S
  <2>5. req \in Seq(S) BY <1>2, <2>3, <2>4
  <2> QED BY <2>5 DEF S
<1>6. tab \in [Tabs -> [at : {"closed", "open"} \cup Booting, access : {"none", "fresh", "stale"},
                        code : Codes \cup {NoCode}, got : Ids, form : Forms, flight : 0 .. MaxRequests]]
  <2>1. \A t \in Tabs : tab[t] \in PageState /\ tab[t].got <= Len(token) /\ tab[t].flight <= Len(req) BY <1>1 DEF Typed, Known, Held
  <2>2. \A t \in Tabs : tab[t].got \in Ids /\ tab[t].flight \in 0 .. MaxRequests BY <1>2, <1>3, <2>1 DEF PageState, Ids
  <2> QED BY <1>1, <2>1, <2>2 DEF PageState, Typed
<1>7. code \in [Codes -> [state : {"none", "live", "used", "expired"}, opened : SUBSET (1 .. MaxTokens)]]
  <2>1. \A c \in Codes : code[c] \in CodeState /\ code[c].opened \subseteq 1 .. MaxTokens BY <1>1, <1>3 DEF Typed, Held
  <2> QED BY <1>1, <2>1 DEF Typed, CodeState
<1>8. cookie \in [Browsers -> Ids]
  <2>1. \A b \in Browsers : cookie[b] \in Nat /\ cookie[b] <= Len(token) BY <1>1 DEF Typed, Known
  <2> QED BY <1>1, <1>2, <1>3, <2>1 DEF Typed, Ids
<1>9. call \in [Calls -> {"idle", "good", "bad", "joined", "retry"}] BY <1>1 DEF Typed, CallState
<1>10. excused \subseteq 1 .. MaxTokens /\ alarms \subseteq 1 .. MaxTokens BY <1>1, <1>3 DEF Held
<1> QED BY <1>2, <1>4, <1>5, <1>6, <1>7, <1>8, <1>9, <1>10 DEF TypeOK

\* ... always.
LEMMA SessionsInvariant == World => (Spec => []TypeOK)
<1> SUFFICES ASSUME World PROVE Spec => []TypeOK OBVIOUS
<1>1. Init => Basic /\ Limits BY InitBasic, InitLimits
<1>2. (Basic /\ Limits) /\ [Next]_vars => (Basic /\ Limits)' BY NextBasic, NextLimits
<1>3. Basic /\ Limits => TypeOK BY SessionsTyped
<1> QED BY <1>1, <1>2, <1>3, PTL DEF Spec
-----------------------------------------------------------------------------
(* What was paid for speech is what is missing from the wallet. *)
\* A set of numbers that has a member has a least one.
LEMMA LeastOf ==
  ASSUME NEW T \in SUBSET Nat, T # {}
  PROVE  \E x \in T : \A y \in T : x <= y
<1>1. IsWellFoundedOn(OpToRel(<, Nat), Nat)
  BY NatLessThanWellFounded
<1>2. \E x \in T : \A y \in T : ~ (<<y, x>> \in OpToRel(<, Nat))
  BY <1>1, WFMin
<1>3. \A x, y \in Nat : <<y, x>> \notin OpToRel(<, Nat) => x <= y
  BY DEF OpToRel
<1> QED BY <1>2, <1>3

\* Sums over sets of scripts, as Speech's Total takes them.
IsTotal(T, p) ==
  T = [S \in SUBSET Scripts |-> IF S = {} THEN 0 ELSE LET t == CHOOSE t \in S : TRUE IN p[t] + T[S \ {t}]]
Balanced == \E T \in [SUBSET Scripts -> Nat] : IsTotal(T, paid) /\ balance + T[Scripts] = Tokens
\* Every price is one of those there are, or nothing yet.
Priced == /\ \A t \in Scripts : task[t].price \in {0} \cup Prices /\ paid[t] \in {0} \cup Prices
          /\ restarts \in 0 .. MaxRestarts
WalletInv == SpeechInv /\ Balanced /\ Priced

\* Two sums of the same payments agree: where they first differ, by size, there is a
\* smaller set where they do.
LEMMA TotalsAgree ==
  ASSUME NEW p, NEW T, NEW U, IsTotal(T, p), IsTotal(U, p) PROVE T[Scripts] = U[Scripts]
<1> DEFINE Differ == {S \in SUBSET Scripts : T[S] # U[S]}
           Sizes == {Cardinality(S) : S \in Differ}
<1>1. \A S \in SUBSET Scripts : IsFiniteSet(S) /\ Cardinality(S) \in Nat BY SpeechAssumption, FS_Subset, FS_CardinalityType
<1>2. Sizes \in SUBSET Nat BY <1>1
<1>3. SUFFICES ASSUME Scripts \in Differ PROVE FALSE OBVIOUS
<1>4. PICK n \in Sizes : \A m \in Sizes : n <= m
  <2>1. Sizes # {} BY <1>3
  <2> HIDE DEF Sizes
  <2> QED BY <1>2, <2>1, LeastOf
<1>5. PICK S \in Differ : n = Cardinality(S) OBVIOUS
<1> DEFINE t == CHOOSE t \in S : TRUE
<1>6. S # {} BY <1>5 DEF IsTotal
<1>7. t \in S BY <1>6
<1>8. T[S] = p[t] + T[S \ {t}] /\ U[S] = p[t] + U[S \ {t}]
  <2>1. S \in SUBSET Scripts OBVIOUS
  <2> QED BY <1>6, <2>1 DEF IsTotal
<1> HIDE DEF t
<1>9. S \ {t} \in Differ BY <1>8
<1>10. Cardinality(S \ {t}) = Cardinality(S) - 1 /\ Cardinality(S) \in Nat /\ Cardinality(S \ {t}) \in Nat
  <2>1. IsFiniteSet(S) BY <1>1
  <2> QED BY <1>1, <1>7, <1>9, <2>1, FS_RemoveElement
<1>11. Cardinality(S \ {t}) \in Sizes BY <1>9
<1> HIDE DEF Sizes, Differ
<1> QED BY <1>4, <1>5, <1>10, <1>11

\* The sums once something is paid for one script.
Grown(T, s, c) == [S \in SUBSET Scripts |-> IF s \in S THEN T[S] + c ELSE T[S]]
\* A payment for a script that had none adds to the sums of the sets it is in.
LEMMA TotalGrows ==
  ASSUME NEW p \in [Scripts -> Nat], NEW q, NEW T \in [SUBSET Scripts -> Nat], IsTotal(T, p),
         NEW s \in Scripts, NEW c \in Nat, p[s] = 0, q[s] = c, \A u \in Scripts \ {s} : q[u] = p[u]
  PROVE  Grown(T, s, c) \in [SUBSET Scripts -> Nat] /\ IsTotal(Grown(T, s, c), q) /\ Grown(T, s, c)[Scripts] = T[Scripts] + c
<1> DEFINE U == [S \in SUBSET Scripts |-> IF s \in S THEN T[S] + c ELSE T[S]]
<1>1. U \in [SUBSET Scripts -> Nat] OBVIOUS
<1>2. U[Scripts] = T[Scripts] + c OBVIOUS
<1>3. ASSUME NEW S \in SUBSET Scripts
      PROVE  U[S] = IF S = {} THEN 0 ELSE LET t == CHOOSE t \in S : TRUE IN q[t] + U[S \ {t}]
  <2>1. CASE S = {}
    <3>1. T[{}] = 0 BY DEF IsTotal
    <3> QED BY <2>1, <3>1
  <2>2. CASE S # {}
    <3> DEFINE t == CHOOSE t \in S : TRUE
    <3>1. t \in S /\ t \in Scripts BY <2>2
    <3>2. T[S] = p[t] + T[S \ {t}] BY <2>2 DEF IsTotal
    <3>3. U[S] = q[t] + U[S \ {t}]
      <4> HIDE DEF t
      <4>1. T[S \ {t}] \in Nat /\ S \ {t} \in SUBSET Scripts /\ p[t] \in Nat BY <3>1
      <4>2. CASE t = s
        <5>1. U[S \ {t}] = T[S \ {t}] /\ U[S] = T[S] + c /\ q[t] = c BY <3>1, <4>1, <4>2
        <5> HIDE DEF U
        <5> QED BY <3>2, <4>1, <4>2, <5>1
      <4>3. CASE t # s /\ s \in S
        <5>1. U[S \ {t}] = T[S \ {t}] + c /\ U[S] = T[S] + c /\ q[t] = p[t] BY <3>1, <4>1, <4>3
        <5> HIDE DEF U
        <5> QED BY <3>2, <4>1, <5>1
      <4>4. CASE s \notin S
        <5>1. U[S \ {t}] = T[S \ {t}] /\ U[S] = T[S] /\ q[t] = p[t] BY <3>1, <4>1, <4>4
        <5> HIDE DEF U
        <5> QED BY <3>2, <4>1, <5>1
      <4> QED BY <4>2, <4>3, <4>4
    <3> QED BY <2>2, <3>3
  <2> QED BY <2>1, <2>2
<1>4. IsTotal(U, q)
  <2> DEFINE V == [S \in SUBSET Scripts |-> IF S = {} THEN 0 ELSE LET t == CHOOSE t \in S : TRUE IN q[t] + U[S \ {t}]]
  <2>1. \A S \in SUBSET Scripts : U[S] = V[S]
    <3> HIDE DEF U
    <3> QED BY <1>3
  <2>2. U = V
    <3>1. DOMAIN U = SUBSET Scripts /\ DOMAIN V = SUBSET Scripts OBVIOUS
    <3>2. U = [S \in SUBSET Scripts |-> U[S]] /\ V = [S \in SUBSET Scripts |-> V[S]] OBVIOUS
    <3> HIDE DEF U, V
    <3> QED BY <2>1, <3>2
  <2> HIDE DEF U
  <2> QED BY <2>2 DEF IsTotal
<1> QED BY <1>1, <1>2, <1>4 DEF Grown

\* At first nothing is paid and the wallet is full.
LEMMA InitWallet == Speaking!Init => WalletInv
<1> SUFFICES ASSUME Speaking!Init PROVE WalletInv OBVIOUS
<1>1. paid = [t \in Scripts |-> 0] /\ balance = Tokens /\ restarts = 0 /\ \A t \in Scripts : task[t].price = 0
  BY DEF Speaking!Init, Speaking!Unknown
<1>2. Priced BY <1>1, SpeechAssumption DEF Priced
<1> DEFINE T == [S \in SUBSET Scripts |-> 0]
<1>3. IsTotal(T, paid)
  <2>1. ASSUME NEW S \in SUBSET Scripts, S # {} PROVE LET t == CHOOSE t \in S : TRUE IN paid[t] + T[S \ {t}] = 0
    <3> DEFINE t == CHOOSE t \in S : TRUE
    <3>1. t \in Scripts BY <2>1
    <3> HIDE DEF t
    <3>2. paid[t] = 0 /\ T[S \ {t}] = 0 BY <1>1, <3>1
    <3> QED BY <3>2 DEF t
  <2> QED BY <2>1 DEF IsTotal
<1>4. T \in [SUBSET Scripts -> Nat] /\ T[Scripts] = 0 /\ Tokens + 0 = Tokens BY SpeechAssumption
<1>5. Balanced
  <2> HIDE DEF T
  <2> QED BY <1>1, <1>3, <1>4 DEF Balanced
<1> QED BY <1>2, <1>5, InitSpeechInv DEF WalletInv

\* Only a charge moves money, from the wallet to the script.
LEMMA WalletKeeps == ASSUME WalletInv, [Speaking!Next]_(Speaking!vars) PROVE WalletInv'
<1>1. SpeechInv' BY SpeechKeeps DEF WalletInv
<1>2. /\ paid \in [Scripts -> Nat] /\ balance \in Nat /\ \A t \in Scripts : Costs(t) /\ task[t].price \in {0} \cup Prices /\ paid[t] \in {0} \cup Prices
      /\ task \in [Scripts -> [st : States, engine : Speaking!Engines, voice : {"style", "design", "default"}, price : Nat]]
  BY DEF WalletInv, SpeechInv, SpeechTyped, Priced
<1>3. ASSUME UNCHANGED <<balance, paid>> PROVE Balanced' BY <1>3 DEF WalletInv, Balanced, IsTotal
<1>4. ASSUME UNCHANGED paid, restarts' \in 0 .. MaxRestarts, \A t \in Scripts : task'[t].price \in {task[t].price, 0} \cup Prices PROVE Priced'
  BY <1>2, <1>4 DEF Priced
<1>5. restarts \in 0 .. MaxRestarts BY DEF WalletInv, Priced
<1>6. CASE UNCHANGED Speaking!vars BY <1>1, <1>3, <1>4, <1>5, <1>6 DEF Speaking!vars, WalletInv
<1>7. CASE Speaking!Restart
  <2>1. UNCHANGED <<balance, paid>> /\ restarts' = restarts + 1 /\ restarts < MaxRestarts BY <1>7 DEF Speaking!Restart
  <2>2. \A t \in Scripts : task'[t].price = 0 BY <1>7 DEF Speaking!Restart, Speaking!Unknown
  <2> QED BY <1>1, <1>3, <1>4, <1>5, <2>1, <2>2, SpeechAssumption DEF WalletInv
<1>8. ASSUME NEW p \in Readers, Speaking!PageStep(p) PROVE WalletInv'
  <2>1. UNCHANGED <<balance, paid, restarts>>
    BY <1>8 DEF Speaking!PageStep, Speaking!Generate, Speaking!Start, Speaking!Refuse, Speaking!Created, Speaking!CreateFails,
                Speaking!Poll, Speaking!PollFails, Speaking!Leave
  <2>2. CASE UNCHANGED task BY <1>1, <1>3, <1>4, <1>5, <2>1, <2>2 DEF WalletInv
  <2>3. CASE Speaking!Start(p)
    <3> DEFINE e == [st |-> "queued", engine |-> Speaking!EngineFor, voice |-> Speaking!VoiceOf[Speaking!EngineFor], price |-> 0]
               u == speakingPage[p].task
    <3>1. task' = [task EXCEPT ![u] = e] /\ e.price = 0 BY <2>3 DEF Speaking!Start
    <3> HIDE DEF e, u
    <3>2. \A t \in Scripts : task'[t] = task[t] \/ task'[t] = e BY <1>2, <3>1
    <3> QED BY <1>1, <1>3, <1>4, <1>5, <2>1, <3>1, <3>2 DEF WalletInv
  <2> QED BY <1>8, <2>2, <2>3 DEF Speaking!PageStep, Speaking!Generate, Speaking!Refuse, Speaking!Created, Speaking!CreateFails,
                Speaking!Poll, Speaking!PollFails, Speaking!Leave
<1>9. ASSUME NEW t \in Scripts, Speaking!TaskStep(t) PROVE WalletInv'
  <2>1. CASE Speaking!Commit(t) /\ balance >= task[t].price
    <3>1. balance' = balance - task[t].price /\ paid' = [paid EXCEPT ![t] = @ + task[t].price] /\ restarts' = restarts
          /\ task' = [task EXCEPT ![t].st = "charged"] /\ task[t].st = "written"
      BY <2>1 DEF Speaking!Commit
    <3>2. paid[t] = 0 /\ task[t].price \in Nat BY <1>2, <3>1 DEF Costs
    <3>3. paid' = [paid EXCEPT ![t] = task[t].price]
      <4>1. paid[t] + task[t].price = task[t].price BY <3>2
      <4> QED BY <3>1, <4>1
    <3>4. \A u \in Scripts : task'[u].price = task[u].price /\ paid'[u] \in {paid[u], task[u].price} BY <1>2, <3>1, <3>3
    <3>5. Priced' BY <1>2, <1>5, <3>1, <3>4 DEF Priced
    <3>6. PICK T \in [SUBSET Scripts -> Nat] : IsTotal(T, paid) /\ balance + T[Scripts] = Tokens BY DEF WalletInv, Balanced
    <3> DEFINE U == Grown(T, t, task[t].price)
    <3>7. U \in [SUBSET Scripts -> Nat] /\ IsTotal(U, paid') /\ U[Scripts] = T[Scripts] + task[t].price
      <4>1. PICK c \in Nat : c = task[t].price BY <3>2
      <4>2. paid'[t] = c /\ \A u \in Scripts \ {t} : paid'[u] = paid[u] BY <1>2, <3>3, <4>1
      <4>3. IsTotal(T, paid) /\ paid[t] = 0 /\ paid \in [Scripts -> Nat] BY <1>2, <3>2, <3>6
      <4>4. PICK q : q = paid' OBVIOUS
      <4>5. q[t] = c /\ \A u \in Scripts \ {t} : q[u] = paid[u] BY <4>2, <4>4
      <4>6. IsTotal(Grown(T, t, c), q) BY <4>3, <4>5, TotalGrows
      <4>7. IsTotal(Grown(T, t, c), paid') BY <4>4, <4>6
      <4>8. Grown(T, t, c) \in [SUBSET Scripts -> Nat] /\ Grown(T, t, c)[Scripts] = T[Scripts] + c BY DEF Grown
      <4> QED BY <4>1, <4>7, <4>8
    <3> HIDE DEF U
    <3>8. T[Scripts] \in Nat OBVIOUS
    <3>9. balance' + U[Scripts] = Tokens
      <4>1. ASSUME NEW b \in Nat, NEW k \in Nat, NEW c \in Nat, b >= c PROVE (b - c) + (k + c) = b + k BY <4>1
      <4> QED BY <1>2, <2>1, <3>1, <3>2, <3>6, <3>7, <3>8, <4>1
    <3>10. Balanced' BY <3>7, <3>9 DEF Balanced, IsTotal
    <3> QED BY <1>1, <3>5, <3>10 DEF WalletInv
  <2>2. CASE ~(Speaking!Commit(t) /\ balance >= task[t].price)
    <3>1. UNCHANGED <<balance, paid, restarts>>
      BY <1>9, <2>2 DEF Speaking!TaskStep, Speaking!Run, Speaking!Voiced, Speaking!NextEngine, Speaking!Write, Speaking!Commit, Speaking!Done, Speaking!Fail
    <3>2. CASE Speaking!Voiced(t)
      <4>1. PICK c \in Prices : task' = [task EXCEPT ![t].st = "voiced", ![t].price = c] BY <3>2 DEF Speaking!Voiced
      <4>2. \A u \in Scripts : task'[u].price \in {task[u].price, c} BY <1>2, <4>1
      <4> QED BY <1>1, <1>3, <1>4, <1>5, <3>1, <4>2 DEF WalletInv
    <3>3. CASE ~Speaking!Voiced(t)
      <4>1. \A u \in Scripts : task'[u].price = task[u].price
        BY <1>2, <1>9, <3>3 DEF Speaking!TaskStep, Speaking!Run, Speaking!NextEngine, Speaking!FallBack, Speaking!Write, Speaking!Commit, Speaking!Done, Speaking!Fail
      <4> QED BY <1>1, <1>3, <1>4, <1>5, <3>1, <4>1 DEF WalletInv
    <3> QED BY <3>2, <3>3
  <2> QED BY <2>1, <2>2
<1> QED BY <1>6, <1>7, <1>8, <1>9 DEF Speaking!Next

\* What the wallet is said to be is what it is.
LEMMA SpeechTypes == WalletInv => Speaking!TypeOK
<1> SUFFICES ASSUME WalletInv PROVE Speaking!TypeOK OBVIOUS
<1>1. PICK T \in [SUBSET Scripts -> Nat] : IsTotal(T, paid) /\ balance + T[Scripts] = Tokens BY DEF WalletInv, Balanced
<1>2. Speaking!Total = CHOOSE U : IsTotal(U, paid) BY DEF Speaking!Total, IsTotal
<1>3. IsTotal(Speaking!Total, paid) BY <1>1, <1>2
<1>4. Speaking!Total[Scripts] = T[Scripts] BY <1>1, <1>3, TotalsAgree
<1>5. SpeechTyped /\ Priced BY DEF WalletInv, SpeechInv
<1>6. balance \in 0 .. Tokens /\ balance + Speaking!Total[Scripts] = Tokens
  <2>1. T[Scripts] \in Nat /\ balance \in Nat BY <1>5 DEF SpeechTyped
  <2> QED BY <1>1, <1>4, <2>1, SpeechAssumption
<1>7. task \in [Scripts -> [st : States, engine : Speaking!Engines, voice : {"style", "design", "default"}, price : {0} \cup Prices]]
  <2>1. task \in [Scripts -> [st : States, engine : Speaking!Engines, voice : {"style", "design", "default"}, price : Nat]]
        /\ \A t \in Scripts : task[t].price \in {0} \cup Prices
    BY <1>5 DEF SpeechTyped, Priced
  <2> QED BY <2>1
<1>8. paid \in [Scripts -> {0} \cup Prices] BY <1>5 DEF SpeechTyped, Priced
<1> QED BY <1>5, <1>6, <1>7, <1>8 DEF Speaking!TypeOK, SpeechTyped, Priced, States
-----------------------------------------------------------------------------
(* The types of the Studio's state. *)
DubPage == [open : BOOLEAN, job : Runs \cup {None}, seen : {"none", "running", "done"},
            saved : Runs \cup {None}, unsub : Runs \cup {None}, busy : BOOLEAN]
Follower == [run : Runs, by : {"sse", "poll", "late"}]
RunsTyped ==
  /\ run \in [Runs -> {"idle", "gate", "create", "revoice", "over"}]
  /\ job \in [Runs -> {"none", "running", "done"}] /\ library \in [Runs -> {"none", "processing", "done"}]
  /\ dubbingPage \in DubPage /\ twice \in BOOLEAN /\ followers \subseteq Follower
ChoiceTyped == measured \in Files \cup {None} /\ choices \in 0 .. MaxChoices
StudioTyped == StudioInv /\ RunsTyped /\ ChoiceTyped

\* A page that was just opened.
LEMMA InitStudioTyped == Dubbing!Init => StudioTyped
<1> SUFFICES ASSUME Dubbing!Init PROVE StudioTyped OBVIOUS
<1>1. RunsTyped BY DEF Dubbing!Init, RunsTyped, DubPage
<1>2. ChoiceTyped BY StudioAssumption DEF Dubbing!Init, ChoiceTyped
<1> QED BY <1>1, <1>2, InitStudioInv DEF StudioTyped

\* What stops feeding the page.
LEMMA ClosedFollowers == ASSUME followers \subseteq Follower, NEW r PROVE Dubbing!Closed(r) \subseteq Follower
<1>1. \A f \in followers : [f EXCEPT !.by = "late"] \in Follower BY DEF Follower
<1> QED BY <1>1 DEF Dubbing!Closed

\* Starting a run, from the click to the job, and the job's end.
LEMMA StartingTyped ==
  ASSUME RunsTyped, NEW r \in Runs, Dubbing!Starting(r) \/ Dubbing!JobEnds(r) PROVE RunsTyped'
<1> USE DEF RunsTyped
<1>1. CASE Dubbing!Click(r) BY <1>1 DEF Dubbing!Click
<1>2. CASE Dubbing!Refused(r) BY <1>2 DEF Dubbing!Refused
<1>3. CASE Dubbing!Allowed(r)
  <2> DEFINE p == [dubbingPage EXCEPT !.busy = TRUE, !.job = None, !.seen = "none", !.saved = None]
  <2>1. p \in DubPage BY DEF DubPage
  <2>2. dubbingPage' = p /\ followers' = Dubbing!Closed(dubbingPage.unsub) /\ run' = [run EXCEPT ![r] = "create"] /\ UNCHANGED <<job, library, twice>>
    BY <1>3 DEF Dubbing!Allowed
  <2> HIDE DEF p
  <2> QED BY <2>1, <2>2, ClosedFollowers
<1>4. CASE Dubbing!Revoice(r) BY <1>4 DEF Dubbing!Revoice
<1>5. CASE Dubbing!Created(r)
  <2> DEFINE p == [dubbingPage EXCEPT !.job = r, !.seen = "running", !.saved = r, !.unsub = r, !.busy = @ /\ run[r] = "revoice"]
             f == [run |-> r, by |-> "sse"]
  <2>1. p \in DubPage BY DEF DubPage
  <2>2. f \in Follower BY DEF Follower
  <2>3. /\ dubbingPage' = p /\ run' = [run EXCEPT ![r] = "over"] /\ job' = [job EXCEPT ![r] = "running"]
        /\ library' = [library EXCEPT ![r] = "processing"] /\ twice' = twice
        /\ followers' \subseteq Dubbing!Closed(dubbingPage.unsub) \cup followers \cup {f}
    BY <1>5 DEF Dubbing!Created
  <2> HIDE DEF p, f
  <2>4. followers' \subseteq Follower BY <2>2, <2>3, ClosedFollowers
  <2> QED BY <2>1, <2>3, <2>4
<1>6. CASE Dubbing!NotCreated(r)
  <2> DEFINE p == [dubbingPage EXCEPT !.busy = @ /\ run[r] = "revoice"]
  <2>1. p \in DubPage BY DEF DubPage
  <2>2. PICK made \in {"none", "running"} : job' = [job EXCEPT ![r] = made] BY <1>6 DEF Dubbing!NotCreated
  <2>3. dubbingPage' = p /\ run' = [run EXCEPT ![r] = "over"] /\ UNCHANGED <<followers, library, twice>> BY <1>6 DEF Dubbing!NotCreated
  <2> HIDE DEF p
  <2> QED BY <2>1, <2>2, <2>3
<1>7. CASE Dubbing!JobEnds(r) BY <1>7 DEF Dubbing!JobEnds
<1> QED BY <1>1, <1>2, <1>3, <1>4, <1>5, <1>6, <1>7 DEF Dubbing!Starting

\* Events, answers and broken streams, and leaving the page.
LEMMA FollowingTyped == ASSUME RunsTyped, Dubbing!Following PROVE RunsTyped'
<1> USE DEF RunsTyped
<1>1. CASE Dubbing!NewDub
  <2> DEFINE p == [dubbingPage EXCEPT !.job = None, !.seen = "none"]
  <2>1. p \in DubPage BY DEF DubPage
  <2>2. dubbingPage' = p /\ followers' = Dubbing!Closed(dubbingPage.unsub) /\ UNCHANGED <<run, job, library, twice>> BY <1>1 DEF Dubbing!NewDub
  <2> HIDE DEF p
  <2> QED BY <2>1, <2>2, ClosedFollowers
<1>2. CASE Dubbing!Leave
  <2>1. [dubbingPage EXCEPT !.open = FALSE] \in DubPage BY DEF DubPage
  <2> QED BY <1>2, <2>1 DEF Dubbing!Leave
<1>3. ASSUME NEW f \in followers, Dubbing!Hear(f) PROVE RunsTyped'
  <2> DEFINE p == [dubbingPage EXCEPT !.job = f.run, !.seen = job[f.run]]
  <2>1. f.run \in Runs BY DEF Follower
  <2>2. p \in DubPage BY <2>1 DEF DubPage
  <2>3. /\ dubbingPage' = p /\ UNCHANGED <<run, job, twice>> /\ followers' \subseteq followers
        /\ library' = library \/ \E s \in {"done", library[f.run]} : library' = [library EXCEPT ![f.run] = s]
    BY <1>3 DEF Dubbing!Hear
  <2> HIDE DEF p
  <2>4. library' \in [Runs -> {"none", "processing", "done"}] BY <2>1, <2>3
  <2> QED BY <2>2, <2>3, <2>4
<1>4. ASSUME NEW f \in followers, Dubbing!Breaks(f) PROVE RunsTyped'
  <2> DEFINE p == [dubbingPage EXCEPT !.unsub = f.run]
             g == [f EXCEPT !.by = "poll"]
  <2>1. f.run \in Runs /\ g \in Follower BY DEF Follower
  <2>2. p \in DubPage BY <2>1 DEF DubPage
  <2>3. dubbingPage' = p /\ followers' = (followers \ {f}) \cup {g} /\ UNCHANGED <<run, job, library, twice>> BY <1>4 DEF Dubbing!Breaks
  <2> HIDE DEF p, g
  <2> QED BY <2>1, <2>2, <2>3
<1> QED BY <1>1, <1>2, <1>3, <1>4 DEF Dubbing!Following

\* A choice is counted, and measures no more than the files.
LEMMA ChosenTyped == ASSUME ChoiceTyped, NEW new, Dubbing!Choose(new) PROVE ChoiceTyped' /\ UNCHANGED <<run, job, dubbingPage, followers, library, twice>>
<1>1. choices < MaxChoices /\ choices' = choices + 1 /\ measured' \in {measured, None} /\ UNCHANGED Dubbing!running BY DEF Dubbing!Choose
<1> QED BY <1>1, StudioAssumption DEF ChoiceTyped, Dubbing!running

\* Every step of the Studio.
LEMMA StudioTypedKeeps == ASSUME StudioTyped, [Dubbing!Next]_(Dubbing!vars) PROVE StudioTyped'
<1>1. StudioInv' BY StudioKeeps DEF StudioTyped
<1>2. RunsTyped /\ ChoiceTyped BY DEF StudioTyped
<1>3. ASSUME UNCHANGED <<run, job, dubbingPage, followers, library, twice>> PROVE RunsTyped' BY <1>2, <1>3 DEF RunsTyped
<1>4. ASSUME UNCHANGED <<measured, choices>> PROVE ChoiceTyped' BY <1>2, <1>4 DEF ChoiceTyped
<1>5. CASE UNCHANGED Dubbing!vars BY <1>1, <1>3, <1>4, <1>5 DEF Dubbing!vars, StudioTyped
<1>6. CASE Dubbing!Choosing
  <2>1. CASE \E p \in probes : Dubbing!Probed(p)
    <3>1. PICK p \in probes : Dubbing!Probed(p) BY <2>1
    <3>2. p.file \in Files BY DEF StudioTyped, StudioInv, ProbeInv, Probes
    <3>3. measured' \in {measured, p.file} /\ choices' = choices /\ UNCHANGED <<run, job, dubbingPage, followers, library, twice>>
      BY <3>1 DEF Dubbing!Probed, Dubbing!Measured, Dubbing!running
    <3> QED BY <1>1, <1>2, <1>3, <3>2, <3>3 DEF StudioTyped, ChoiceTyped
  <2>2. CASE ~\E p \in probes : Dubbing!Probed(p)
    <3>1. \E new : Dubbing!Choose(new)
      BY <1>6, <2>2 DEF Dubbing!Choosing, Dubbing!PickFile, Dubbing!TypeLink, Dubbing!Tab, Dubbing!UseSample, Dubbing!Preset
    <3> QED BY <1>1, <1>2, <1>3, <3>1, ChosenTyped DEF StudioTyped
  <2> QED BY <2>1, <2>2
<1>7. CASE Dubbing!Following
  <2>1. UNCHANGED <<measured, choices>>
    BY <1>7 DEF Dubbing!Following, Dubbing!NewDub, Dubbing!Leave, Dubbing!Hear, Dubbing!Breaks, Dubbing!source
  <2> QED BY <1>1, <1>2, <1>4, <1>7, <2>1, FollowingTyped DEF StudioTyped
<1>8. ASSUME NEW r \in Runs, Dubbing!Starting(r) \/ Dubbing!JobEnds(r) PROVE StudioTyped'
  <2>1. UNCHANGED <<measured, choices>>
    BY <1>8 DEF Dubbing!Starting, Dubbing!JobEnds, Dubbing!Click, Dubbing!Refused, Dubbing!Allowed,
                Dubbing!Revoice, Dubbing!Created, Dubbing!NotCreated, Dubbing!source
  <2> QED BY <1>1, <1>2, <1>4, <1>8, <2>1, StartingTyped DEF StudioTyped
<1> QED BY <1>5, <1>6, <1>7, <1>8 DEF Dubbing!Next

\* ... and so the types TLC checks.
LEMMA StudioTypes == StudioTyped => Dubbing!TypeOK
  BY DEF StudioTyped, StudioInv, SourceInv, ProbeInv, Probes, RunsTyped, ChoiceTyped, DubPage, Follower, Dubbing!TypeOK
-----------------------------------------------------------------------------
(* The types of the purchase's state. *)
\* The success page, and no other, says something of an order.
Sited(r) == (r.told # "none") = (r.at = "success")
\* Time has a bound, and a checkout is marked with a time that was.
BuyTimes == now \in 0 .. MaxTime /\ mark \in 0 .. MaxTime + 1
BuySound == BuyInv /\ BuyTimes /\ \A t \in Buyers : Sited(buyTab[t])

\* Nothing is bought yet.
LEMMA InitBuySound == Buy!Init => BuySound
<1> SUFFICES ASSUME Buy!Init PROVE BuySound OBVIOUS
<1>1. BuyTimes BY BuyingAssumption DEF Buy!Init, BuyTimes
<1>2. \A t \in Buyers : Sited(buyTab[t]) BY Records DEF Buy!Init, Sited
<1> QED BY <1>1, <1>2, InitBuyInv DEF BuySound

\* A page stays on the page it is on as long as it says nothing else.
LEMMA SitsStill ==
  ASSUME NEW r \in BuyTabs, Sited(r), NEW q \in BuyTabs, q.at = r.at, q.told = r.told
  PROVE  Sited(q)
  BY DEF Sited

\* What a claim, and what is heard of it, do to the page.
LEMMA PageSits ==
  ASSUME BuySound, NEW t \in Buyers, Buy!Page(t)
  PROVE  \E q \in BuyTabs : Sited(q) /\ buyTab' = [buyTab EXCEPT ![t] = q]
<1>1. buyTab[t] \in BuyTabs /\ Sited(buyTab[t]) BY DEF BuySound, BuyInv, BuyTyped
<1>2. CASE Buy!AskPage(t)
  <2> DEFINE c == [Buy!Claim0 EXCEPT !.at = "asked", !.due = Buy!Due]
             q == [buyTab[t] EXCEPT !.page = c]
  <2>1. c \in Claims BY BuyingAssumption DEF Claims, Buy!Claim0, Buy!Due, Buy!Credited
  <2> HIDE DEF c
  <2>2. q \in BuyTabs /\ Sited(q) BY <1>1, <1>2, <2>1 DEF BuyTabs, Sited, Buy!AskPage
  <2>3. buyTab' = [buyTab EXCEPT ![t] = q] BY <1>2 DEF Buy!AskPage, Buy!Set, c
  <2> HIDE DEF q
  <2> QED BY <2>2, <2>3
<1>3. CASE Buy!Claim(t, "page")
  <2>1. buyTab'[t] \in BuyTabs BY <1>3, ClaimKeeps DEF BuySound, BuyInv, BuyTyped
  <2>2. buyTab[t].page.at = "asked" /\ \E c : buyTab' = [buyTab EXCEPT ![t] = [buyTab[t] EXCEPT !.page = c]]
    BY <1>3 DEF Buy!Claim, Buy!Set
  <2>3. PICK c : buyTab' = [buyTab EXCEPT ![t] = [buyTab[t] EXCEPT !.page = c]] BY <2>2
  <2>4. buyTab'[t] = [buyTab[t] EXCEPT !.page = c] BY <2>3 DEF BuySound, BuyInv, BuyTyped
  <2>5. [buyTab[t] EXCEPT !.page = c].at = buyTab[t].at /\ [buyTab[t] EXCEPT !.page = c].told = buyTab[t].told BY <1>1 DEF BuyTabs
  <2> DEFINE q == [buyTab[t] EXCEPT !.page = c]
  <2>7. q \in BuyTabs /\ q.at = buyTab[t].at /\ q.told = buyTab[t].told /\ buyTab' = [buyTab EXCEPT ![t] = q] BY <2>1, <2>3, <2>4, <2>5
  <2> HIDE DEF q
  <2>8. Sited(q) BY <1>1, <2>7, SitsStill
  <2> QED BY <2>7, <2>8
<1>4. CASE Buy!HearPage(t)
  <2>1. buyTab[t].page.at = "answered" /\ Heard(buyTab[t]) BY <1>4 DEF Buy!HearPage, BuySound, BuyInv
  <2>2. ASSUME NEW said \in {"granted", "already"}, buyTab[t].page.res \in {"claimed", "nothing"}, Buy!Set(t, Buy!Tell(buyTab[t], said))
        PROVE  \E q \in BuyTabs : Sited(q) /\ buyTab' = [buyTab EXCEPT ![t] = q]
    <3> DEFINE q == Buy!Tell(buyTab[t], said)
    <3>1. q \in BuyTabs /\ q.at = buyTab[t].at /\ q.told = IF buyTab[t].at = "success" THEN said ELSE buyTab[t].told BY <1>1, <2>1, <2>2, Told
    <3>2. buyTab' = [buyTab EXCEPT ![t] = q] BY <2>2 DEF Buy!Set
    <3> HIDE DEF q
    <3>3. Sited(q) BY <1>1, <3>1 DEF Sited
    <3> QED BY <3>1, <3>2, <3>3
  <2>3. ASSUME NEW said \in {buyTab[t].told, "failed", "waiting"}, said = buyTab[t].told \/ buyTab[t].at = "success",
               Buy!Set(t, [Buy!Heard(buyTab[t]) EXCEPT !.told = said])
        PROVE  \E q \in BuyTabs : Sited(q) /\ buyTab' = [buyTab EXCEPT ![t] = q]
    <3> DEFINE q == [buyTab[t] EXCEPT !.page = Buy!Claim0, !.told = said]
    <3>1. q \in BuyTabs /\ q.at = buyTab[t].at /\ q.told = said BY <1>1, <2>1, Records DEF BuyTabs
    <3>2. buyTab' = [buyTab EXCEPT ![t] = q] BY <2>3 DEF Buy!Set, Buy!Heard
    <3> HIDE DEF q
    <3>3. Sited(q) BY <1>1, <2>3, <3>1 DEF Sited
    <3> QED BY <3>1, <3>2, <3>3
  <2> QED BY <1>4, <2>2, <2>3 DEF Buy!HearPage
<1> QED BY <1>2, <1>3, <1>4 DEF Buy!Page

\* Claims made in the background, and the balance, leave the page where it is.
LEMMA BehindSits ==
  ASSUME BuySound, NEW t \in Buyers, Buy!Background(t) \/ Buy!Balance(t), buyTab' # buyTab
  PROVE  \E q \in BuyTabs : Sited(q) /\ buyTab' = [buyTab EXCEPT ![t] = q]
<1>1. buyTab \in [Buyers -> BuyTabs] /\ buyTab[t] \in BuyTabs /\ Sited(buyTab[t]) BY DEF BuySound, BuyInv, BuyTyped
<1>2. BuyInv' BY AskAppKeeps, ClaimKeeps, HearAppKeeps, BalanceKeeps DEF BuySound, Buy!Background
<1>3. buyTab'[t] \in BuyTabs BY <1>2 DEF BuyInv, BuyTyped
<1>4. ASSUME NEW q, buyTab' = [buyTab EXCEPT ![t] = q], q.at = buyTab[t].at, q.told = buyTab[t].told, q.page = buyTab[t].page
      PROVE  \E r \in BuyTabs : Sited(r) /\ buyTab' = [buyTab EXCEPT ![t] = r]
  <2>1. q \in BuyTabs BY <1>1, <1>3, <1>4
  <2> QED BY <1>1, <1>4, <2>1, SitsStill
<1>5. ASSUME NEW c, buyTab' = [buyTab EXCEPT ![t] = [buyTab[t] EXCEPT !.app = c]]
      PROVE  \E r \in BuyTabs : Sited(r) /\ buyTab' = [buyTab EXCEPT ![t] = r]
  <2> DEFINE q == [buyTab[t] EXCEPT !.app = c]
  <2>1. q.at = buyTab[t].at /\ q.told = buyTab[t].told /\ q.page = buyTab[t].page BY <1>1 DEF BuyTabs
  <2> HIDE DEF q
  <2> QED BY <1>4, <1>5, <2>1 DEF q
<1>6. CASE Buy!AskApp(t)
  <2>1. \E c : buyTab' = [buyTab EXCEPT ![t] = [buyTab[t] EXCEPT !.app = c]] BY <1>6 DEF Buy!AskApp, Buy!Set
  <2> QED BY <1>5, <2>1
<1>7. CASE Buy!Claim(t, "app")
  <2>1. \E c : buyTab' = [buyTab EXCEPT ![t] = [buyTab[t] EXCEPT !.app = c]] BY <1>7 DEF Buy!Claim, Buy!Set
  <2> QED BY <1>5, <2>1
<1>8. CASE Buy!HearApp(t)
  <2> DEFINE p == [buyTab[t] EXCEPT !.app = Buy!Claim0]
             q == Buy!Invalidate(p)
  <2>1. buyTab' = [buyTab EXCEPT ![t] = p] \/ buyTab' = [buyTab EXCEPT ![t] = q] BY <1>8 DEF Buy!HearApp, Buy!Set
  <2>2. p \in BuyTabs /\ p.at = buyTab[t].at /\ p.told = buyTab[t].told /\ p.page = buyTab[t].page BY <1>1, Records DEF BuyTabs
  <2>4. Heard(p)
    <3>1. Heard(buyTab[t]) BY DEF BuySound, BuyInv
    <3> QED BY <1>1, <3>1 DEF BuyTabs, Heard
  <2> HIDE DEF p
  <2>3. q.at = buyTab[t].at /\ q.told = buyTab[t].told /\ q.page = buyTab[t].page BY <2>2, <2>4, AskedAnew
  <2> HIDE DEF q
  <2> QED BY <1>4, <2>1, <2>2, <2>3
<1>9. CASE Buy!Balance(t)
  <2> DEFINE read == [buyTab[t] EXCEPT !.fetch = [at |-> "read", got |-> Buy!Credited]]
             lost == [buyTab[t] EXCEPT !.fetch = Buy!Fetch0, !.stale = TRUE]
             drawn == [buyTab[t] EXCEPT !.fetch = Buy!Fetch0, !.shows = buyTab[t].fetch.got, !.warm = TRUE, !.stale = FALSE]
  <2>1. \E q \in {read, lost, drawn} : buyTab' = [buyTab EXCEPT ![t] = q] BY <1>9 DEF Buy!Balance, Buy!Read, Buy!Show, Buy!Set
  <2>2. \A q \in {read, lost, drawn} : q.at = buyTab[t].at /\ q.told = buyTab[t].told /\ q.page = buyTab[t].page BY <1>1 DEF BuyTabs
  <2> HIDE DEF read, lost, drawn
  <2> QED BY <1>4, <2>1, <2>2
<1> QED BY <1>6, <1>7, <1>8, <1>9 DEF Buy!Background

\* Going to the checkout and coming back.
LEMMA UserSits ==
  ASSUME BuySound, NEW t \in Buyers, Buy!User(t)
  PROVE  \E q \in BuyTabs : Sited(q) /\ buyTab' = [buyTab EXCEPT ![t] = q]
<1>1. buyTab[t] \in BuyTabs /\ Sited(buyTab[t]) /\ now \in Nat BY DEF BuySound, BuyInv, BuyTyped
<1>2. now + Patience \in Int BY <1>1, BuyingAssumption
<1>3. ASSUME NEW o \in Orders, Buy!StartCheckout(t, o) PROVE \E q \in BuyTabs : Sited(q) /\ buyTab' = [buyTab EXCEPT ![t] = q]
  <2> DEFINE q == [buyTab[t] EXCEPT !.at = "leaving", !.buys = o]
  <2>1. q \in BuyTabs /\ Sited(q) BY <1>1, <1>3 DEF BuyTabs, Sited, Buy!StartCheckout
  <2>2. buyTab' = [buyTab EXCEPT ![t] = q] BY <1>3 DEF Buy!StartCheckout, Buy!Set
  <2> HIDE DEF q
  <2> QED BY <2>1, <2>2
<1>4. CASE Buy!CheckoutUrl(t)
  <2> DEFINE q == [buyTab[t] EXCEPT !.at = "store"]
             p == [buyTab[t] EXCEPT !.at = "app", !.buys = None]
  <2>1. buyTab' = [buyTab EXCEPT ![t] = q] \/ buyTab' = [buyTab EXCEPT ![t] = p] BY <1>4 DEF Buy!CheckoutUrl, Buy!Set
  <2>2. q \in BuyTabs /\ Sited(q) BY <1>1, <1>4 DEF BuyTabs, Sited, Buy!CheckoutUrl
  <2>3. p \in BuyTabs /\ Sited(p) BY <1>1, <1>4 DEF BuyTabs, Sited, Buy!CheckoutUrl
  <2> HIDE DEF q, p
  <2> QED BY <2>1, <2>2, <2>3
<1>5. CASE Buy!Return(t)
  <2> DEFINE f == [Buy!Fetch0 EXCEPT !.at = "asked"]
             p == [Buy!Tab0 EXCEPT !.fetch = f, !.warm = FALSE]
             q == [p EXCEPT !.at = "success", !.told = "claiming", !.till = now + Patience]
  <2>2. buyTab' = [buyTab EXCEPT ![t] = q] \/ buyTab' = [buyTab EXCEPT ![t] = p] BY <1>5, Records DEF Buy!Return, Buy!Set
  <2>3. f \in Sights BY Records DEF Sights
  <2> HIDE DEF f
  <2>4. p \in BuyTabs /\ p.at = "app" /\ p.told = "none" BY <2>3, Records DEF BuyTabs
  <2> HIDE DEF p
  <2>5. q \in BuyTabs /\ q.at = "success" /\ q.told = "claiming" BY <1>2, <2>4 DEF BuyTabs
  <2> HIDE DEF q
  <2> QED BY <2>2, <2>4, <2>5 DEF Sited
<1>6. CASE Buy!Again(t)
  <2> DEFINE q == [buyTab[t] EXCEPT !.told = "claiming", !.till = now + Patience]
  <2>1. q \in BuyTabs /\ Sited(q) BY <1>1, <1>2, <1>6 DEF BuyTabs, Sited, Buy!Again
  <2>2. buyTab' = [buyTab EXCEPT ![t] = q] BY <1>6 DEF Buy!Again, Buy!Set
  <2> HIDE DEF q
  <2> QED BY <2>1, <2>2
<1>7. CASE Buy!ToApp(t)
  <2> DEFINE q == [buyTab[t] EXCEPT !.at = "app", !.told = "none", !.due = {}]
  <2>1. q \in BuyTabs /\ Sited(q) BY <1>1, <1>7 DEF BuyTabs, Sited, Buy!ToApp
  <2>2. buyTab' = [buyTab EXCEPT ![t] = q] BY <1>7 DEF Buy!ToApp, Buy!Set
  <2> HIDE DEF q
  <2> QED BY <2>1, <2>2
<1> QED BY <1>3, <1>4, <1>5, <1>6, <1>7 DEF Buy!User

\* Time stops at its bound, and a checkout is marked with the time it is.
LEMMA TimesKept == ASSUME BuyTimes, [Buy!Next]_(Buy!vars) PROVE BuyTimes'
<1>1. CASE Buy!Tick BY <1>1, BuyingAssumption DEF Buy!Tick, BuyTimes
<1>2. ASSUME now' = now, mark' \in {mark, 0, now + 1} PROVE BuyTimes' BY <1>2, BuyingAssumption DEF BuyTimes
<1>3. CASE UNCHANGED Buy!vars BY <1>2, <1>3 DEF Buy!vars
<1>4. ASSUME NEW o \in Orders, Buy!Store(o) \/ Buy!Credit(o) PROVE BuyTimes' BY <1>2, <1>4 DEF Buy!Store, Buy!Credit
<1>5. ASSUME NEW t \in Buyers, Buy!Page(t) \/ Buy!Background(t) PROVE BuyTimes'
  BY <1>2, <1>5 DEF Buy!Page, Buy!Background, Buy!AskPage, Buy!Claim, Buy!HearPage, Buy!AskApp, Buy!HearApp, Buy!StartedAt
<1>6. ASSUME NEW t \in Buyers, Buy!Balance(t) \/ Buy!User(t) PROVE BuyTimes'
  BY <1>2, <1>6 DEF Buy!Balance, Buy!Read, Buy!Show, Buy!User, Buy!CheckoutUrl, Buy!Return, Buy!Again, Buy!ToApp, Buy!StartCheckout
<1> QED BY <1>1, <1>3, <1>4, <1>5, <1>6 DEF Buy!Next

\* Every step of a purchase.
LEMMA BuySoundKeeps == ASSUME BuySound, [Buy!Next]_(Buy!vars) PROVE BuySound'
<1>1. BuyInv' /\ BuyTimes' BY BuyKeeps, TimesKept DEF BuySound
<1>2. buyTab \in [Buyers -> BuyTabs] /\ \A t \in Buyers : Sited(buyTab[t]) BY DEF BuySound, BuyInv, BuyTyped
<1>3. ASSUME UNCHANGED buyTab PROVE BuySound' BY <1>1, <1>2, <1>3 DEF BuySound
<1>4. ASSUME NEW t \in Buyers, NEW q \in BuyTabs, Sited(q), buyTab' = [buyTab EXCEPT ![t] = q] PROVE BuySound'
  <2>1. \A u \in Buyers : buyTab'[u] = q \/ buyTab'[u] = buyTab[u] BY <1>2, <1>4
  <2>2. \A u \in Buyers : Sited(buyTab'[u]) BY <1>2, <1>4, <2>1
  <2> QED BY <1>1, <2>2 DEF BuySound, Sited
<1>5. CASE Buy!Tick \/ UNCHANGED Buy!vars BY <1>3, <1>5 DEF Buy!Tick, Buy!vars
<1>6. ASSUME NEW o \in Orders, Buy!Store(o) \/ Buy!Credit(o) PROVE BuySound' BY <1>3, <1>6 DEF Buy!Store, Buy!Credit
<1>7. ASSUME NEW t \in Buyers, Buy!Page(t) PROVE BuySound' BY <1>4, <1>7, PageSits
<1>8. ASSUME NEW t \in Buyers, Buy!Background(t) \/ Buy!Balance(t) PROVE BuySound' BY <1>3, <1>4, <1>8, BehindSits
<1>9. ASSUME NEW t \in Buyers, Buy!User(t) PROVE BuySound' BY <1>4, <1>9, UserSits
<1> QED BY <1>5, <1>6, <1>7, <1>8, <1>9 DEF Buy!Next

\* ... and so the types TLC checks.
LEMMA BuyTypes == BuySound => Buy!TypeOK
  BY DEF BuySound, BuyInv, BuyTyped, BuyTimes, BuyTabs, Stands, Sited, Heard, Buy!TypeOK
-----------------------------------------------------------------------------
(* What the run of the pages checks of their states. *)
\* A behaviour of the run is one of Sessions and one of Spotlight.
LEMMA SessionsRun == HarnessSpec => Spec
<1>1. HarnessInit => Init BY DEF HarnessInit
<1>2. [HarnessNext]_allVars => [Next]_vars
  BY DEF HarnessNext, LightMoves, SessionMoves, DubbingMoves, SpeakingMoves, BuyMoves, allVars, SessionVars, vars, server, ghosts
<1> QED BY <1>1, <1>2, PTL DEF HarnessSpec, Spec
LEMMA LightRuns == HarnessSpec => Light!Spec
<1>1. HarnessInit => Light!Init BY DEF HarnessInit
<1>2. [HarnessNext]_allVars => [Light!Next]_(Light!vars)
  BY DEF HarnessNext, LightMoves, SessionMoves, DubbingMoves, SpeakingMoves, BuyMoves, allVars, LightVars, Light!vars
<1> QED BY <1>1, <1>2, PTL DEF HarnessSpec, Light!Spec

\* The wallet, the Studio and the purchase, whatever moves.
LEMMA WalletInvariant == HarnessSpec => []WalletInv
<1>1. WalletInv /\ [Speaking!Next]_(Speaking!vars) => WalletInv' BY WalletKeeps
<1> QED BY <1>1, InitWallet, SpeechRuns, PTL DEF Speaking!Spec
LEMMA StudioInvariant == HarnessSpec => []StudioTyped
<1>1. StudioTyped /\ [Dubbing!Next]_(Dubbing!vars) => StudioTyped' BY StudioTypedKeeps
<1> QED BY <1>1, InitStudioTyped, StudioRuns, PTL DEF Dubbing!Spec
LEMMA PurchaseInvariant == HarnessSpec => []BuySound
<1>1. BuySound /\ [Buy!Next]_(Buy!vars) => BuySound' BY BuySoundKeeps
<1> QED BY <1>1, InitBuySound, BuyRuns, PTL DEF Buy!Spec

\* Whichever component moves, its state has its type: nothing that is under way outgrows the
\* bounds, what is missing from a wallet was paid for a script at the price of what was made
\* of it, once, and the success page, and no other, says something of an order.
THEOREM StatesTypeCorrect == World => (HarnessSpec => []StatesOK)
<1> SUFFICES ASSUME World PROVE HarnessSpec => []StatesOK OBVIOUS
<1>1. HarnessInit => active \in Scenes BY DEF HarnessInit
<1>2. active \in Scenes /\ [HarnessNext]_allVars => (active \in Scenes)'
  BY DEF HarnessNext, LightMoves, SessionMoves, DubbingMoves, SpeakingMoves, BuyMoves, allVars
<1>3. Spec => []TypeOK BY SessionsInvariant
<1>4. active \in Scenes /\ Light!TypeOK /\ TypeOK /\ StudioTyped /\ WalletInv /\ BuySound => StatesOK
  BY ScenesAssumption, StudioTypes, SpeechTypes, BuyTypes DEF StatesOK
<1> QED BY <1>1, <1>2, <1>3, <1>4, SessionsRun, LightRuns, CardTypeCorrect, WalletInvariant, StudioInvariant, PurchaseInvariant, PTL
           DEF HarnessSpec
=============================================================================
