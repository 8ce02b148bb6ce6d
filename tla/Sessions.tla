------------------------------ MODULE Sessions ------------------------------
(* How one account is signed in: rotating refresh tokens with reuse detection
   (api/src/auth/refresh-token.service.ts), single-use handoff codes from the
   landing site (auth.service.ts), and the pages that hold a session
   (frontend/src/lib/auth.tsx, http.ts).  A page keeps its access token in
   memory; its browser keeps the refresh token as a cookie all its tabs share.
   A page sends one refresh at a time and everybody who needs one waits for it;
   a request outlives the page that sent it.

   The excuse: `excused` are the tokens that may legally be seen twice, because
   the answer to a rotation was lost with the network, a crash or a reload,
   because they were signed out, because they had expired when presented, or because an
   alarm that had an excuse itself revoked them. *)
EXTENDS Naturals, Sequences, FiniteSets

CONSTANTS Tabs, Browsers, TabBrowser,   \* TabBrowser[t]: the browser t is a tab of
          Calls, CallTab,               \* authenticated calls, and the tab each is made by
          Codes, NoCode,                \* handoff codes the landing site may mint
          MaxTokens, MaxRequests        \* bounds: tokens issued, refreshes sent

VARIABLES token,     \* RefreshToken rows: state, and the first token of its session
          code,      \* HandoffCode rows, and the tokens each code was given
          cookie,    \* the browser's refresh cookie: a token, 0 when there is none
          req,       \* refreshes sent, as the API has them
          tab,       \* pages
          call,      \* authenticated calls
          excused, alarms
vars == <<token, code, cookie, req, tab, call, excused, alarms>>
server == <<token, code>>
ghosts == <<excused, alarms>>

TokenStates == {"live", "revoked", "expired"}
ReqStates == {"sent", "revoke", "issue", "ok", "no", "done"}
Booting == {"redeem", "issue", "redeemed", "boot"}
Forms == {"none", "login", "logout", "left"}
Closed == [at |-> "closed", access |-> "none", code |-> NoCode, got |-> 0, form |-> "none", flight |-> 0]
Ids == 0 .. MaxTokens

Init ==
  /\ token = <<>> /\ req = <<>>
  /\ code = [c \in Codes |-> [state |-> "none", opened |-> {}]]
  /\ cookie = [b \in Browsers |-> 0]
  /\ tab = [t \in Tabs |-> Closed]
  /\ call = [c \in Calls |-> "idle"]
  /\ excused = {} /\ alarms = {}

CookieOf(t) == cookie[TabBrowser[t]]
SetCookie(t, id) == cookie' = [cookie EXCEPT ![TabBrowser[t]] = id]
Issue(first) == token' = Append(token, [state |-> "live", first |-> first])
SetState(id, s) == token' = [token EXCEPT ![id].state = s]
Open(i) == req[i].at # "done"
\* Bound: something starts only when the tokens and requests that it and all that
\* is under way may still need fit.
Redeeming == {t \in Tabs : tab[t].at \in {"redeem", "issue", "redeemed"}}
Reserved == Cardinality(Redeeming) + Cardinality({c \in Calls : call[c] = "bad"})
Room ==
  /\ Len(req) + Reserved < MaxRequests
  /\ Len(token) + Reserved + Cardinality({i \in DOMAIN req : Open(i)})
       + Cardinality({t \in Redeeming : tab[t].at # "redeemed"}) + 1 < MaxTokens

-----------------------------------------------------------------------------
(* The landing site and the clock. *)
Mint(c) == /\ Room /\ code[c].state = "none"
           /\ code' = [code EXCEPT ![c].state = "live"]
           /\ UNCHANGED <<token, cookie, req, tab, call, ghosts>>
CodeExpires(c) == /\ code[c].state = "live"
                  /\ code' = [code EXCEPT ![c].state = "expired"]
                  /\ UNCHANGED <<token, cookie, req, tab, call, ghosts>>
TokenExpires(id) == /\ id \in DOMAIN token /\ token[id].state = "live"
                    /\ SetState(id, "expired")
                    /\ UNCHANGED <<code, cookie, req, tab, call, ghosts>>
AccessExpires(t) == /\ tab[t].access = "fresh"
                    /\ tab' = [tab EXCEPT ![t].access = "stale"]
                    /\ UNCHANGED <<server, cookie, req, call, ghosts>>

-----------------------------------------------------------------------------
(* The page.  refreshOnce: join the refresh in flight, or send one.           *)
\* Variant: the page does not share the refresh already in flight.
RefreshEach(t, page) ==
  /\ req' = Append(req, [tab |-> t, tok |-> CookieOf(t), at |-> "sent", new |-> 0])
  /\ tab' = [tab EXCEPT ![t] = [page EXCEPT !.flight = Len(req) + 1]]
RefreshOnce(t, page) ==
  IF page.flight # 0
  THEN /\ tab' = [tab EXCEPT ![t] = page] /\ UNCHANGED req
  ELSE /\ req' = Append(req, [tab |-> t, tok |-> CookieOf(t), at |-> "sent", new |-> 0])
       /\ tab' = [tab EXCEPT ![t] = [page EXCEPT !.flight = Len(req) + 1]]

\* A page is opened, from the landing site with a code or from a bookmark.
Load(t, c) ==
  /\ Room /\ tab[t].at = "closed"
  /\ IF c # NoCode
     THEN /\ code[c].state # "none"
          /\ tab' = [tab EXCEPT ![t] = [Closed EXCEPT !.at = "redeem", !.code = c]] /\ UNCHANGED req
     ELSE RefreshOnce(t, [Closed EXCEPT !.at = "boot"])
  /\ UNCHANGED <<server, cookie, call, ghosts>>

\* Variant: the code is checked and only marked when the session is issued.
RedeemChecksOnly(t) ==
  /\ tab[t].at = "redeem" /\ code[tab[t].code].state = "live"
  /\ tab' = [tab EXCEPT ![t].at = "issue"]
  /\ UNCHANGED <<token, code, cookie, req, call, ghosts>>
\* exchangeHandoffCode: one guarded UPDATE decides, then the session is issued.
Redeem(t) ==
  /\ tab[t].at = "redeem" /\ code[tab[t].code].state = "live"
  /\ code' = [code EXCEPT ![tab[t].code].state = "used"]
  /\ tab' = [tab EXCEPT ![t].at = "issue"]
  /\ UNCHANGED <<token, cookie, req, call, ghosts>>
IssueSession(t) ==
  /\ tab[t].at = "issue"
  /\ Issue(Len(token) + 1)
  /\ code' = [code EXCEPT ![tab[t].code] = [state |-> "used", opened |-> @.opened \cup {Len(token) + 1}]]
  /\ tab' = [tab EXCEPT ![t].at = "redeemed", ![t].got = Len(token) + 1]
  /\ UNCHANGED <<cookie, req, call, ghosts>>
Redeemed(t) ==
  /\ tab[t].at = "redeemed" /\ SetCookie(t, tab[t].got)
  /\ tab' = [tab EXCEPT ![t].at = "open", ![t].access = "fresh", ![t].got = 0]
  /\ UNCHANGED <<server, req, call, ghosts>>
\* Refused, or the answer is lost wherever the API was: fall back to the cookie.
NotRedeemed(t) ==
  /\ \/ tab[t].at = "redeem" /\ code[tab[t].code].state \in {"used", "expired"}
     \/ tab[t].at \in {"issue", "redeemed"}
  /\ RefreshOnce(t, [tab[t] EXCEPT !.at = "boot", !.got = 0])
  /\ UNCHANGED <<server, cookie, call, ghosts>>

\* The user reloads or leaves: the page forgets its calls, the API keeps its requests.
Forget(t) == call' = [c \in Calls |-> IF CallTab[c] = t THEN "idle" ELSE call[c]]
InFlight(t) == {req[i].tok : i \in {j \in DOMAIN req : req[j].tab = t /\ Open(j)}} \ {0}
Leave(t) ==
  /\ tab[t].at # "closed" /\ tab[t].form = "none"
  /\ tab' = [tab EXCEPT ![t] = Closed] /\ Forget(t)
  /\ excused' = excused \cup InFlight(t)
  /\ UNCHANGED <<server, cookie, req, alarms>>

-----------------------------------------------------------------------------
(* POST /auth/refresh at the API: RefreshTokenService.rotate. *)
Answer(i, a) == req' = [req EXCEPT ![i].at = a]
Presented(i) == token[req[i].tok].state
Missing(i) ==
  /\ req[i].at = "sent" /\ req[i].tok = 0 /\ Answer(i, "no")
  /\ UNCHANGED <<server, cookie, tab, call, ghosts>>
\* A revoked token again: every token of the account is revoked.
Reuse(i) ==
  /\ req[i].at = "sent" /\ req[i].tok # 0 /\ Presented(i) = "revoked"
  /\ token' = [id \in DOMAIN token |-> [token[id] EXCEPT !.state = "revoked"]]
  /\ alarms' = alarms \cup {req[i].tok} /\ Answer(i, "no")
  /\ excused' = IF req[i].tok \in excused THEN excused \cup DOMAIN token ELSE excused
  /\ UNCHANGED <<code, cookie, tab, call>>
Expired(i) ==
  /\ req[i].at = "sent" /\ req[i].tok # 0 /\ Presented(i) = "expired"
  /\ SetState(req[i].tok, "revoked") /\ Answer(i, "no")
  /\ excused' = excused \cup {req[i].tok}
  /\ UNCHANGED <<code, cookie, tab, call, alarms>>
Check(i) ==
  /\ req[i].at = "sent" /\ req[i].tok # 0 /\ Presented(i) = "live" /\ Answer(i, "revoke")
  /\ UNCHANGED <<server, cookie, tab, call, ghosts>>
RevokeOld(i) ==
  /\ req[i].at = "revoke" /\ SetState(req[i].tok, "revoked") /\ Answer(i, "issue")
  /\ UNCHANGED <<code, cookie, tab, call, ghosts>>
IssueNew(i) ==
  /\ req[i].at = "issue"
  /\ Issue(token[req[i].tok].first)
  /\ req' = [req EXCEPT ![i].at = "ok", ![i].new = Len(token) + 1]
  /\ UNCHANGED <<code, cookie, tab, call, ghosts>>
\* The API fails on the way, or the answer is lost.
Lost(i) ==
  /\ req[i].at \in {"revoke", "issue", "ok"}
  /\ req' = [req EXCEPT ![i].at = "no", ![i].new = 0]
  /\ excused' = excused \cup {req[i].tok}
  /\ UNCHANGED <<server, cookie, tab, call, alarms>>

-----------------------------------------------------------------------------
(* The answer at the page.  Everyone who joined shares it. *)
Awaited(i) == tab[req[i].tab].flight = i
Joined(t, s) == call' = [c \in Calls |-> IF CallTab[c] = t /\ call[c] = "joined" THEN s ELSE call[c]]
Boots(page) == IF page.at = "boot" THEN "open" ELSE page.at
Refreshed(i) ==
  LET t == req[i].tab IN
  /\ req[i].at = "ok" /\ Awaited(i) /\ Answer(i, "done")
  /\ SetCookie(t, req[i].new) /\ Joined(t, "retry")
  /\ tab' = [tab EXCEPT ![t] = [@ EXCEPT !.flight = 0, !.access = "fresh", !.at = Boots(tab[t])]]
  /\ UNCHANGED <<server, ghosts>>
\* Variant: a failed refresh does not reach `finally setReady(true)`.
NotRefreshedStuck(i) ==
  LET t == req[i].tab IN
  /\ req[i].at = "no" /\ Awaited(i) /\ Answer(i, "done") /\ Joined(t, "idle")
  /\ tab' = [tab EXCEPT ![t] = [@ EXCEPT !.flight = 0]]
  /\ UNCHANGED <<server, cookie, ghosts>>
NotRefreshed(i) ==
  LET t == req[i].tab
      cleared == \E c \in Calls : CallTab[c] = t /\ call[c] = "joined"
  IN
  /\ req[i].at = "no" /\ Awaited(i) /\ Answer(i, "done") /\ Joined(t, "idle")
  /\ tab' = [tab EXCEPT ![t] = [@ EXCEPT !.flight = 0, !.at = Boots(tab[t]),
                                         !.access = IF cleared THEN "none" ELSE tab[t].access]]
  /\ UNCHANGED <<server, cookie, ghosts>>
\* The page is gone: the browser may still take the cookie out of the answer.
Orphaned(i) ==
  /\ req[i].at \in {"ok", "no"} /\ ~Awaited(i) /\ Answer(i, "done")
  /\ \/ req[i].at = "ok" /\ SetCookie(req[i].tab, req[i].new)
     \/ UNCHANGED cookie
  /\ UNCHANGED <<server, tab, call, ghosts>>

\* authFetchUrl: a call with the token at hand; a 401 refreshes and tries once more.
Send(c) ==
  /\ Room /\ tab[CallTab[c]].at = "open" /\ call[c] = "idle"
  /\ call' = [call EXCEPT ![c] = IF tab[CallTab[c]].access = "fresh" THEN "good" ELSE "bad"]
  /\ UNCHANGED <<server, cookie, req, tab, ghosts>>
Reply(c) ==
  /\ call[c] \in {"good", "retry"}
  /\ call' = [call EXCEPT ![c] = "idle"]
  /\ UNCHANGED <<server, cookie, req, tab, ghosts>>
Unauthorized(c) ==
  /\ call[c] = "bad"
  /\ call' = [call EXCEPT ![c] = "joined"]
  /\ RefreshOnce(CallTab[c], tab[CallTab[c]])
  /\ UNCHANGED <<server, cookie, ghosts>>

-----------------------------------------------------------------------------
(* Signing in inside the app, and signing out. *)
Login(t) ==
  /\ Room /\ tab[t].at = "open" /\ tab[t].access = "none" /\ tab[t].form = "none"
  /\ Issue(Len(token) + 1)
  /\ tab' = [tab EXCEPT ![t].form = "login", ![t].got = Len(token) + 1]
  /\ UNCHANGED <<code, cookie, req, call, ghosts>>
LoggedIn(t) ==
  /\ tab[t].form = "login"
  /\ \/ SetCookie(t, tab[t].got) /\ tab' = [tab EXCEPT ![t].form = "none", ![t].got = 0, ![t].access = "fresh"]
     \/ tab' = [tab EXCEPT ![t].form = "none", ![t].got = 0] /\ UNCHANGED cookie
  /\ UNCHANGED <<server, req, call, ghosts>>
Logout(t) ==
  /\ tab[t].at = "open" /\ tab[t].access # "none" /\ tab[t].form = "none"
  /\ tab' = [tab EXCEPT ![t].form = "logout", ![t].got = CookieOf(t)]
  /\ UNCHANGED <<server, cookie, req, call, ghosts>>
Revoke(t) ==
  /\ tab[t].form = "logout"
  /\ IF tab[t].got # 0 THEN SetState(tab[t].got, "revoked") ELSE UNCHANGED token
  /\ excused' = excused \cup ({tab[t].got} \ {0})
  /\ tab' = [tab EXCEPT ![t].form = "left"]
  /\ UNCHANGED <<code, cookie, req, call, alarms>>
\* The answer clears the cookie; with it or without it the page signs out and leaves.
LoggedOut(t) ==
  /\ tab[t].form \in {"logout", "left"}
  /\ \/ tab[t].form = "left" /\ SetCookie(t, 0)
     \/ UNCHANGED cookie
  /\ tab' = [tab EXCEPT ![t] = Closed] /\ Forget(t)
  /\ excused' = excused \cup InFlight(t)
  /\ UNCHANGED <<server, req, alarms>>

-----------------------------------------------------------------------------
Api(i) == Missing(i) \/ Reuse(i) \/ Expired(i) \/ Check(i) \/ RevokeOld(i) \/ IssueNew(i)
Settle(i) == Refreshed(i) \/ NotRefreshed(i) \/ Orphaned(i)
Handoff(t) == Redeem(t) \/ IssueSession(t) \/ Redeemed(t) \/ NotRedeemed(t)
Next ==
  \/ \E c \in Codes : Mint(c) \/ CodeExpires(c)
  \/ \E id \in DOMAIN token : TokenExpires(id)
  \/ \E t \in Tabs : \/ AccessExpires(t) \/ Leave(t) \/ Handoff(t)
                     \/ Login(t) \/ LoggedIn(t) \/ Logout(t) \/ Revoke(t) \/ LoggedOut(t)
                     \/ \E c \in Codes \cup {NoCode} : Load(t, c)
  \/ \E i \in DOMAIN req : Api(i) \/ Lost(i) \/ Settle(i)
  \/ \E c \in Calls : Send(c) \/ Reply(c) \/ Unauthorized(c)
Fairness ==
  /\ \A t \in Tabs : WF_vars(Handoff(t))
  /\ \A i \in 1 .. MaxRequests : WF_vars(i \in DOMAIN req /\ Api(i)) /\ WF_vars(i \in DOMAIN req /\ Settle(i))
  /\ \A c \in Calls : WF_vars(Unauthorized(c))
Spec == Init /\ [][Next]_vars
FairSpec == Spec /\ Fairness

-----------------------------------------------------------------------------
TypeOK ==
  /\ token \in Seq([state : TokenStates, first : 1 .. MaxTokens]) /\ Len(token) <= MaxTokens
  /\ code \in [Codes -> [state : {"none", "live", "used", "expired"}, opened : SUBSET (1 .. MaxTokens)]]
  /\ cookie \in [Browsers -> Ids]
  /\ req \in Seq([tab : Tabs, tok : Ids, at : ReqStates, new : Ids]) /\ Len(req) <= MaxRequests
  /\ tab \in [Tabs -> [at : {"closed", "open"} \cup Booting, access : {"none", "fresh", "stale"},
                       code : Codes \cup {NoCode}, got : Ids, form : Forms, flight : 0 .. MaxRequests]]
  /\ call \in [Calls -> {"idle", "good", "bad", "joined", "retry"}]
  /\ excused \subseteq 1 .. MaxTokens /\ alarms \subseteq 1 .. MaxTokens

\* However often and wherever a code is opened, it gives one session
\* (auth.service.ts:144-163: "exactly one UPDATE can match").
CodeOpensOneSession == \A c \in Codes : Cardinality(code[c].opened) <= 1

\* Refreshing never signs anybody out: the reuse alarm is raised only over a token
\* that has an excuse, never because a page refreshed twice (http.ts:73-89).
NoFalseAlarm == alarms \subseteq excused

\* A code opened anywhere, twice and at once, gives one session, and refreshing in several
\* places never signs anybody out.
SessionsKept == CodeOpensOneSession /\ NoFalseAlarm

\* No page waits for ever on its splash screen and no call on a refresh, whatever
\* is refused or lost on the way (auth.tsx:211-231, http.ts:95-113).
NobodyWaits ==
  /\ \A t \in Tabs : []<>(tab[t].at \notin Booting)
  /\ \A c \in Calls : []<>(call[c] # "joined")

\* Not run.  The alarm leaves no live token behind (refresh-token.service.ts:11-13):
\* a rotation between its check and its issue still issues one.
AlarmEndsSessions == [][alarms' # alarms => \A id \in DOMAIN token' : token'[id].state # "live"]_vars
=============================================================================
