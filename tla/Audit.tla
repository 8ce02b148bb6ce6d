------------------------------- MODULE Audit -------------------------------
(* The record of what was done to whom: the label of the account a request  *)
(* is about, read before its handler and off its answer, the row written    *)
(* when the answer has left, and the feed of the admin panel.               *)
EXTENDS Naturals, FiniteSets

CONSTANTS None,
          Accounts, Emails,
          Requests, Admin,  \* Admin: the account that acts
          Names0,           \* the email each account starts with
          Elsewhere,        \* the email table Admin has under an account's number, or None
          MaxNames          \* bound: renames

VARIABLES email,    \* of each account; None once it is deleted
          held,     \* the emails each account has had since a request read its label
          req,      \* a request: what it does to whom, by which routes, where it is, its labels
          rows, feed,
          names
vars == <<email, held, req, rows, feed, names>>

Idle == [kind |-> None, type |-> None, target |-> None, at |-> "idle",
         before |-> None, answer |-> None, ok |-> FALSE]
Init == /\ email = Names0 /\ held = [r \in Requests |-> {}]
        /\ req = [r \in Requests |-> Idle] /\ rows = {} /\ feed = {} /\ names = 0

-----------------------------------------------------------------------------
Kinds == {"rename", "delete", "read", "login"}
\* The routes of the users and those of the admins act on one table of accounts.
Types == {"user", "admin"}
\* Reads are not recorded; signing in names no target.
Auditable(kind) == kind # "read"
HasTarget(kind) == kind \in {"rename", "delete"}
\* The framework lets a request through its guards before the interceptor sees it.
Arrive(r, kind, type, t) ==
  /\ req[r].at = "idle" /\ Auditable(kind)
  /\ req' = [req EXCEPT ![r] = [Idle EXCEPT !.kind = kind, !.type = type, !.target = t,
                                !.at = IF HasTarget(kind) THEN "lookup" ELSE "handle"]]
  /\ UNCHANGED <<email, held, rows, feed, names>>
\* The label is read, or cannot be, before the handler starts: an admin's from a table of
\* its own, which the handler neither reads nor writes.
Labelled(r) == IF req[r].type = "admin" THEN Elsewhere[req[r].target] ELSE email[req[r].target]
Lookup(r) ==
  /\ req[r].at = "lookup"
  /\ \E label \in {Labelled(r), None} : req' = [req EXCEPT ![r].at = "handle", ![r].before = label]
  /\ held' = [held EXCEPT ![r] = {email[req[r].target]} \ {None}]
  /\ UNCHANGED <<email, rows, feed, names>>

\* An answer carries the account acted on, the acting admin, or neither.
\* Variant: any record in the answer is taken for the target.
LabelOfAny(answered, t) == IF answered = None THEN None ELSE email'[answered]
LabelOf(answered, t) == IF answered = t THEN email'[t] ELSE None
Answers(r, answered, ok) ==
  req' = [req EXCEPT ![r].at = "answered", ![r].ok = ok, ![r].answer = LabelOf(answered, req[r].target)]
Keep(e) == held' = [q \in Requests |-> IF req[q].at \in {"handle", "answered"} /\ req[q].target = e
                                       THEN held[q] \cup ({email'[e]} \ {None}) ELSE held[q]]
Rename(r, name) ==
  LET t == req[r].target IN
  /\ req[r].at = "handle" /\ req[r].kind = "rename" /\ names < MaxNames /\ names' = names + 1
  /\ email[t] # None /\ name \notin {email[a] : a \in Accounts}
  /\ email' = [email EXCEPT ![t] = name] /\ Keep(t)
  /\ \E answered \in {t, Admin, None} : Answers(r, answered, TRUE)
  /\ UNCHANGED <<rows, feed>>
Delete(r) ==
  LET t == req[r].target IN
  /\ req[r].at = "handle" /\ req[r].kind = "delete" /\ email[t] # None
  /\ email' = [email EXCEPT ![t] = None] /\ Keep(t)
  /\ \E answered \in {Admin, None} : Answers(r, answered, TRUE)
  /\ UNCHANGED <<rows, feed, names>>
SignIn(r) == /\ req[r].at = "handle" /\ req[r].kind = "login" /\ Answers(r, None, TRUE)
             /\ UNCHANGED <<email, held, rows, feed, names>>
\* The handler refuses, or the account is gone.
Refuse(r) == /\ req[r].at = "handle" /\ Answers(r, None, FALSE)
             /\ UNCHANGED <<email, held, rows, feed, names>>

\* Written after the answer has left, or lost with a line in the log; then published.
\* What the answer says wins over what was read before.
Label(r) == IF req[r].answer # None THEN req[r].answer ELSE req[r].before
WriteRow(r) ==
  /\ req[r].at = "answered"
  /\ LET row == [by |-> r, kind |-> req[r].kind, type |-> req[r].type, ok |-> req[r].ok,
                 target |-> req[r].target, label |-> Label(r), read |-> req[r].before # None,
                 said |-> req[r].answer # None, held |-> held[r]]
     IN \/ rows' = rows \cup {row} /\ feed' = feed \cup {row}
        \/ UNCHANGED <<rows, feed>>
  /\ req' = [req EXCEPT ![r] = [Idle EXCEPT !.at = "done"]] /\ held' = [held EXCEPT ![r] = {}]
  /\ UNCHANGED <<email, names>>

Next == \E r \in Requests :
  \/ Lookup(r) \/ Delete(r) \/ SignIn(r) \/ Refuse(r) \/ WriteRow(r)
  \/ \E k \in Kinds, y \in Types, t \in Accounts : Arrive(r, k, y, t)
  \/ \E name \in Emails : Rename(r, name)
Spec == Init /\ [][Next]_vars

-----------------------------------------------------------------------------
Row == [by : Requests, kind : Kinds, type : Types, ok : BOOLEAN, target : Accounts,
        label : Emails \cup {None}, read : BOOLEAN, said : BOOLEAN, held : SUBSET Emails]
TypeOK == /\ email \in [Accounts -> Emails \cup {None}] /\ rows \subseteq Row /\ feed \subseteq rows
          /\ \A r \in Requests : req[r].at \in {"idle", "lookup", "handle", "answered", "done"}

\* A row of the users' routes, and any whose answer said it, names the account that was
\* touched as it was named while the request ran, never the admin who acted; and the row of
\* a deleted account still says whose it was if it could be read before (audit.target.ts:9-29,
\* 72-78; audit.interceptor.ts:152-161).
RowsNameTheTarget ==
  \A w \in rows : HasTarget(w.kind) =>
    /\ (w.type = "user" \/ w.said) /\ w.label # None => w.label \in w.held
    /\ w.read => w.label # None
\* Not run, and false: an admin's label is read from a table the accounts are not in
\* (audit.target.ts:133-140, admin.service.ts:62-91), so that a DELETE, whose answer is a
\* message, is filed under another record's name or under none.
AdminsAreNamed ==
  \A w \in rows : w.type = "admin" /\ w.kind = "delete" /\ w.ok /\ w.read => w.label \in w.held
\* Not run, and false: the label read before may have changed since, and the answer of a
\* DELETE does not say.
RowsNameItNow == \A w \in rows : w.kind = "delete" /\ w.ok /\ w.label # None => Cardinality(w.held) = 1
=============================================================================
