-------------------------------- MODULE Works --------------------------------
(* My Works: the library of an account's dubs, kept by the API
   (api/src/works/works.service.ts) and mirrored by every tab signed in to it
   (frontend/src/lib/works.tsx); the tabs of a browser share its storage.  A record is
   its version: the time of its last local change (updatedAt) and whether the API is
   known to have it (synced). *)
EXTENDS Naturals, FiniteSets

CONSTANTS Users, Nobody, Tabs, Browsers,
          Jobs, Owner,  \* dubs, and the account that ran each
          NoWork,
          MaxClock,     \* bound: local changes
          MaxLists,     \* bound: list requests under way
          MaxPuts       \* bound: saves under way

VARIABLES browser, \* browser[t]: where tab t is open; never changes
          user,    \* user[t]: the account tab t is signed in to
          works,   \* works[t]: the list of tab t, as its last change left it
          shown,   \* shown[t]: the list as it was last drawn (worksRef)
          drawn,   \* drawn[t]: the last change is drawn
          dirty,   \* dirty[t]: changed records that are not drawn yet
          timers,  \* timers[t]: changed records waiting for their debounce
          cache,   \* cache[b][u]: what browser b stores of account u
          puts,    \* saves under way: the record sent, whether the API has written it
          deletes, \* removals on their way
          lists,   \* list requests under way: when asked, and the answer
          rows,    \* the API's table
          clock,
          added, removed,  \* history: dubs ever recorded, ever removed
          kept     \* history: what a tab has drawn and stored, till the API has it or it is removed
tabVars == <<user, works, shown, drawn, dirty, timers>>
vars == <<browser, tabVars, cache, puts, deletes, lists, rows, clock, added, removed, kept>>

Work == [ver : 1 .. MaxClock, synced : BOOLEAN]
Empty == [j \in Jobs |-> NoWork]
Init ==
  /\ browser \in [Tabs -> Browsers]
  /\ user = [t \in Tabs |-> Nobody]
  /\ works = [t \in Tabs |-> Empty] /\ shown = works /\ drawn = [t \in Tabs |-> TRUE]
  /\ dirty = [t \in Tabs |-> {}] /\ timers = dirty
  /\ cache = [b \in Browsers |-> [u \in Users |-> Empty]]
  /\ puts = {} /\ deletes = {} /\ lists = {}
  /\ rows = [u \in Users |-> Empty]
  /\ clock = 0 /\ added = {} /\ removed = {} /\ kept = {}

SignedIn(t) == user[t] # Nobody
\* The only tab of its browser.
Lone(t) == \A s \in Tabs : browser[s] = browser[t] => s = t
Unsaved(w) == w # NoWork /\ ~w.synced
\* setWorks: the list is drawn, and the browser stores it, a moment later.
Lists(t, list) == works' = [works EXCEPT ![t] = list] /\ drawn' = [drawn EXCEPT ![t] = FALSE]

-----------------------------------------------------------------------------
(* The tab: the Studio records a dub and mirrors its progress, a thumbnail is
   captured, the user removes a dub.  No page calls the provider's `clear`. *)
Touch(t, j) == dirty' = [dirty EXCEPT ![t] = @ \cup {j}]
Add(t, j) ==
  /\ SignedIn(t) /\ Owner[j] = user[t] /\ j \notin added /\ clock < MaxClock
  /\ clock' = clock + 1 /\ added' = added \cup {j} /\ Touch(t, j)
  /\ Lists(t, [works[t] EXCEPT ![j] = [ver |-> clock', synced |-> FALSE]])
  /\ UNCHANGED <<browser, user, shown, timers, cache, puts, deletes, lists, rows, removed, kept>>
Update(t, j) ==
  /\ SignedIn(t) /\ works[t][j] # NoWork /\ clock < MaxClock
  /\ clock' = clock + 1 /\ Touch(t, j)
  /\ Lists(t, [works[t] EXCEPT ![j].ver = clock'])
  /\ UNCHANGED <<browser, user, shown, timers, cache, puts, deletes, lists, rows, added, removed, kept>>
\* The list is drawn, stored if the browser has room, and what changed is sent a moment later.
Draw(t) ==
  /\ ~drawn[t] /\ drawn' = [drawn EXCEPT ![t] = TRUE]
  /\ shown' = [shown EXCEPT ![t] = works[t]]
  /\ timers' = [timers EXCEPT ![t] = @ \cup {j \in dirty[t] : works[t][j] # NoWork}]
  /\ dirty' = [dirty EXCEPT ![t] = {}]
  /\ \/ /\ cache' = [cache EXCEPT ![browser[t]][user[t]] = works[t]]
        /\ kept' = kept \cup {<<t, j>> : j \in {j \in Jobs \ removed : Unsaved(works[t][j]) /\ rows[Owner[j]][j] = NoWork}}
     \/ UNCHANGED <<cache, kept>>
  /\ UNCHANGED <<browser, user, works, puts, deletes, lists, rows, clock, added, removed>>
Request(t, j) == [tab |-> t, job |-> j, user |-> user[t], ver |-> shown[t][j].ver, at |-> "request"]
\* The debounce runs out: the record as it is now is sent, if it is still there.
Push(t, j) ==
  /\ j \in timers[t] /\ timers' = [timers EXCEPT ![t] = @ \ {j}]
  /\ puts' = IF shown[t][j] = NoWork THEN puts ELSE puts \cup {Request(t, j)}
  /\ Cardinality(puts') <= MaxPuts
  /\ UNCHANGED <<browser, user, works, shown, drawn, dirty, cache, deletes, lists, rows, clock, added, removed, kept>>
Remove(t, j) ==
  /\ SignedIn(t) /\ works[t][j] # NoWork /\ removed' = removed \cup {j}
  /\ clock < MaxClock /\ clock' = clock + 1
  /\ timers' = [timers EXCEPT ![t] = @ \ {j}] /\ dirty' = [dirty EXCEPT ![t] = @ \ {j}]
  /\ Lists(t, [works[t] EXCEPT ![j] = NoWork])
  /\ deletes' = deletes \cup {[user |-> user[t], job |-> j]}
  /\ kept' = {k \in kept : k[2] # j}
  /\ UNCHANGED <<browser, user, shown, cache, puts, lists, rows, added>>

-----------------------------------------------------------------------------
(* The API: requests are served in any order, or lost. *)
Served(p) == puts' = (puts \ {p}) \cup {[p EXCEPT !.at = "saved"]}
Save(p) ==
  /\ p.at = "request" /\ Served(p)
  /\ rows' = [rows EXCEPT ![p.user][p.job] = [ver |-> p.ver, synced |-> TRUE]]
  /\ kept' = {k \in kept : k[2] # p.job \/ Owner[p.job] # p.user}
  /\ UNCHANGED <<browser, tabVars, cache, deletes, lists, clock, added, removed>>
LosePut(p) ==
  /\ puts' = puts \ {p}
  /\ UNCHANGED <<browser, tabVars, cache, deletes, lists, rows, clock, added, removed, kept>>
\* The answer marks whatever the page now holds under that id.
Saved(p) ==
  /\ p.at = "saved" /\ puts' = puts \ {p}
  /\ IF SignedIn(p.tab)
     THEN Lists(p.tab, IF works[p.tab][p.job] # NoWork THEN [works[p.tab] EXCEPT ![p.job].synced = TRUE] ELSE works[p.tab])
     ELSE UNCHANGED <<works, drawn>>
  /\ UNCHANGED <<browser, user, shown, dirty, timers, cache, deletes, lists, rows, clock, added, removed, kept>>
ServeDelete(r) ==
  /\ deletes' = deletes \ {r}
  /\ \/ rows' = [rows EXCEPT ![r.user][r.job] = NoWork]
     \/ UNCHANGED rows   \* the request is lost, and the page does not hear of it
  /\ UNCHANGED <<browser, tabVars, cache, puts, lists, clock, added, removed, kept>>

-----------------------------------------------------------------------------
(* refresh: the list is asked for, and its answer is merged with what the page
   then shows. *)
Ask(t, u) ==
  /\ Cardinality(lists) < MaxLists
  /\ lists' = lists \cup {[tab |-> t, user |-> u, at |-> clock + 1, answer |-> <<>>]}
Refresh(t) ==
  /\ SignedIn(t) /\ Ask(t, user[t])
  /\ UNCHANGED <<browser, tabVars, cache, puts, deletes, rows, clock, added, removed, kept>>
List(l) ==
  /\ l.answer = <<>> /\ lists' = (lists \ {l}) \cup {[l EXCEPT !.answer = <<rows[l.user]>>]}
  /\ UNCHANGED <<browser, tabVars, cache, puts, deletes, rows, clock, added, removed, kept>>
LoseList(l) ==
  /\ lists' = lists \ {l}
  /\ UNCHANGED <<browser, tabVars, cache, puts, deletes, rows, clock, added, removed, kept>>

\* merge: what only this browser has is kept and sent if the API never had it, or if it
\* changed since the list was asked for.  A change that is not drawn yet is not seen, and
\* is overwritten.
Newer(w, remote) == w.ver > remote.ver
\* Variant: what the list does not contain is gone.
KeepsListed(w, remote, at) == remote # NoWork /\ Newer(w, remote)
Keeps(w, remote, at) ==
  IF remote # NoWork THEN Newer(w, remote) ELSE ~w.synced \/ w.ver >= at
Merge(l) ==
  /\ l.answer # <<>> /\ lists' = lists \ {l}
  /\ LET t == l.tab
         server == l.answer[1]
         keeps == {j \in Jobs : shown[t][j] # NoWork /\ Keeps(shown[t][j], server[j], l.at)}
     IN IF SignedIn(t)
        THEN /\ Lists(t, [j \in Jobs |-> IF j \in keeps THEN shown[t][j] ELSE server[j]])
             /\ puts' = puts \cup {Request(t, j) : j \in keeps}
             /\ Cardinality(puts') <= MaxPuts
        ELSE UNCHANGED <<works, drawn, puts>>
  /\ UNCHANGED <<browser, user, shown, dirty, timers, cache, deletes, rows, clock, added, removed, kept>>

\* The account of the tab changes: signed out or closed, signed in, or the refresh cookie it
\* shares with the other tabs is now another account's.  What is not drawn yet is lost, and
\* what another tab of the browser stored over it too.
Switch(t, u) ==
  /\ u # user[t] /\ user' = [user EXCEPT ![t] = u]
  /\ timers' = [timers EXCEPT ![t] = {}] /\ dirty' = [dirty EXCEPT ![t] = {}]
  /\ LET list == IF u = Nobody THEN Empty ELSE cache[browser[t]][u]
     IN works' = [works EXCEPT ![t] = list] /\ shown' = [shown EXCEPT ![t] = list]
  /\ drawn' = [drawn EXCEPT ![t] = (u = Nobody)]
  /\ kept' = {k \in kept : k[1] # t \/ Lone(t)}
  /\ IF u = Nobody THEN UNCHANGED lists ELSE Ask(t, u)
  /\ UNCHANGED <<browser, cache, puts, deletes, rows, clock, added, removed>>

Page(t) == \/ Draw(t) \/ Refresh(t)
           \/ \E j \in Jobs : Add(t, j) \/ Update(t, j) \/ Push(t, j) \/ Remove(t, j)
           \/ \E u \in Users \cup {Nobody} : Switch(t, u)
Network == \/ \E p \in puts : Save(p) \/ LosePut(p) \/ Saved(p)
           \/ \E r \in deletes : ServeDelete(r)
           \/ \E l \in lists : List(l) \/ LoseList(l) \/ Merge(l)
Next == Network \/ \E t \in Tabs : Page(t)
Spec == Init /\ [][Next]_vars

-----------------------------------------------------------------------------
Table == [Jobs -> Work \cup {NoWork}]
TypeOK ==
  /\ browser \in [Tabs -> Browsers] /\ user \in [Tabs -> Users \cup {Nobody}]
  /\ works \in [Tabs -> Table] /\ shown \in [Tabs -> Table] /\ drawn \in [Tabs -> BOOLEAN]
  /\ dirty \in [Tabs -> SUBSET Jobs] /\ timers \in [Tabs -> SUBSET Jobs]
  /\ cache \in [Browsers -> [Users -> Table]] /\ rows \in [Users -> Table]
  /\ puts \subseteq [tab : Tabs, job : Jobs, user : Users, ver : 1 .. MaxClock, at : {"request", "saved"}]
  /\ deletes \subseteq [user : Users, job : Jobs]
  /\ lists \subseteq [tab : Tabs, user : Users, at : 1 .. MaxClock + 1, answer : {<<>>} \cup {<<t>> : t \in Table}]
  /\ clock \in 0 .. MaxClock /\ added \subseteq Jobs /\ removed \subseteq Jobs /\ kept \subseteq Tabs \X Jobs

\* "holds anything not yet saved until the next sync" (works.tsx:13-15): a dub that was
\* drawn and stored, and that nobody removed, is in the account, or unsaved on the page that
\* drew it, as long as the page stays with its account; and in the storage of its browser if
\* that has no other tab.  Through lost and reordered requests and changes of account.
NoWorkLost ==
  \A t \in Tabs, j \in Jobs : <<t, j>> \in kept =>
    /\ user[t] = Owner[j] => Unsaved(works[t][j])
    /\ Lone(t) => Unsaved(cache[browser[t]][Owner[j]][j])

\* "True once the account API has this record" (works.tsx:72), however the answers of
\* saves and lists overtake one another, until somebody removes it; in a list it strayed
\* into (OwnWorksOnly) the mark still speaks of the account that ran the dub.
SyncedIsStored ==
  \A j \in Jobs \ removed : rows[Owner[j]][j] = NoWork =>
    /\ \A t \in Tabs : works[t][j] = NoWork \/ Unsaved(works[t][j])
    /\ \A b \in Browsers, u \in Users : cache[b][u][j] = NoWork \/ Unsaved(cache[b][u][j])

\* A dub nobody removed is not lost, and a record shown as synced is one the API has.
WorksKept == NoWorkLost /\ SyncedIsStored

\* Not run, and false.  The library "holds anything not yet saved (offline, API asleep) until
\* the next sync pushes it up" (works.tsx:13-15): with two tabs of one browser the list of
\* one is stored over the other's, whose record is gone when it is closed; and a list that
\* arrives before a new record is drawn is shown without it.
EveryWorkIsKept ==
  \A j \in added \ removed :
    \/ rows[Owner[j]][j] # NoWork
    \/ \E t \in Tabs : user[t] = Owner[j] /\ Unsaved(works[t][j])
    \/ \E b \in Browsers : Unsaved(cache[b][Owner[j]][j])

\* Not run, and false.  "a sign-out/sign-in never writes one account's list under the other's key"
\* (works.tsx:200): the answer to a list asked for before the change is merged after it.
OwnWorksOnly == \A b \in Browsers, u \in Users, j \in Jobs : cache[b][u][j] # NoWork => Owner[j] = u

\* Not run.  A record saved while the list was on its way stays on the page
\* (works.tsx:155-156): one sent before the list was asked for does not.
SavedStaysShown ==
  [][\A l \in lists, j \in Jobs \ removed :
       Merge(l) /\ user[l.tab] = l.user /\ shown[l.tab][j] # NoWork => works'[l.tab][j] # NoWork]_vars
\* Not run.  A removed dub stays removed: a save under way brings it back, a lost removal undoes it.
RemovedStaysRemoved == puts = {} /\ deletes = {} => \A u \in Users, j \in removed : rows[u][j] = NoWork
=============================================================================
