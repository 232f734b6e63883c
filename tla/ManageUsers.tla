------------------------------ MODULE ManageUsers ------------------------------
(***************************************************************************)
(* The views that manage users and roles, beside the API.  A view calls    *)
(* the adapters in the event loop, so its handlers run one at a time, and  *)
(* the requests of the other threads commit between the database calls of  *)
(* one handler.  The users come in pages of PageSize; the number of users  *)
(* and the rows of the page are two reads.  The search text is kept but    *)
(* never used, so a search is a refresh; a signed-in administrator clicks. *)
(***************************************************************************)
EXTENDS Accounts

CONSTANTS
  Loop,      \* the event loop's thread
  PageSize   \* rows of one page of users

ASSUME LoopAssumption == Loop \in Threads /\ PageSize \in Nat \ {0}

VARIABLE pane   \* the view, what it shows, and where its handler is

manageVars == <<users, nextUser, named, roles, astray, tokens, th, calls, granted, pane>>

\* cur is _cur_page; page, total and rows are what the table shows
Panes == [view : {"none", "users", "roles"},
          at   : {"ready", "erase", "count", "rows", "list"},
          cur  : 1 .. MaxUsers + 1, page : 0 .. MaxUsers + 1,
          total : 0 .. MaxUsers, rows : SUBSET Nat, form : BOOLEAN]

NoPane == [view |-> "none", at |-> "ready", cur |-> 1, page |-> 0,
           total |-> 0, rows |-> {}, form |-> FALSE]

ManageInit == Init /\ pane = NoPane

-----------------------------------------------------------------------------
(* AbstractRepository.paginate *)

\* Mutant of PagesFor: the last, shorter page is not counted.
PagesForFull(total) == total \div PageSize

PagesFor(total) == (total + PageSize - 1) \div PageSize

\* how many rows come before that of a user
Place(id) == Cardinality({i \in Ids : i < id})

\* the rows of page p: offset (p - 1) * PageSize, limit PageSize
PageRows(p) ==
  {id \in Ids : (p - 1) * PageSize <= Place(id) /\ Place(id) < p * PageSize}

\* the repository's count, then its rows, in two statements
Count ==
  /\ pane.at = "count"
  /\ pane' = [pane EXCEPT !.at = "rows", !.total = Cardinality(Ids)]
  /\ UNCHANGED vars

Rows ==
  /\ pane.at = "rows"
  /\ pane' = [pane EXCEPT !.at = "ready", !.page = pane.cur, !.rows = PageRows(pane.cur)]
  /\ UNCHANGED vars

\* ServiceRoleAdapter.list
List ==
  /\ pane.at = "list"
  /\ pane' = [pane EXCEPT !.at = "ready", !.rows = roles]
  /\ UNCHANGED vars

-----------------------------------------------------------------------------
(* Handlers *)

\* a click in a view that shows something
Click(v) ==
  /\ pane.view = v /\ pane.at = "ready"
  /\ calls < MaxCalls /\ calls' = calls + 1

\* the router builds a view afresh, also in place of another
OpenUsers ==
  /\ pane.at = "ready" /\ calls < MaxCalls /\ calls' = calls + 1
  /\ pane' = [NoPane EXCEPT !.view = "users", !.at = "count"]
  /\ UNCHANGED <<users, nextUser, named, roles, astray, tokens, th, granted>>

OpenRoles ==
  /\ pane.at = "ready" /\ calls < MaxCalls /\ calls' = calls + 1
  /\ pane' = [NoPane EXCEPT !.view = "roles", !.at = "list"]
  /\ UNCHANGED <<users, nextUser, named, roles, astray, tokens, th, granted>>

\* _refresh_body, up to its first read
Refreshing(p, form) == [pane EXCEPT !.at = "count", !.cur = p, !.form = form]

\* "Prev" is disabled on page 1, and the handler looks again
Prev ==
  /\ Click("users") /\ pane.page > 1 /\ pane.cur > 1
  /\ pane' = Refreshing(pane.cur - 1, pane.form)
  /\ UNCHANGED <<users, nextUser, named, roles, astray, tokens, th, granted>>

\* "Next" keeps the number of pages the table was built with
NextPage ==
  /\ Click("users") /\ pane.page < PagesFor(pane.total) /\ pane.cur < PagesFor(pane.total)
  /\ pane' = Refreshing(pane.cur + 1, pane.form)
  /\ UNCHANGED <<users, nextUser, named, roles, astray, tokens, th, granted>>

Search ==
  /\ Click("users")
  /\ pane' = Refreshing(pane.cur, pane.form)
  /\ UNCHANGED <<users, nextUser, named, roles, astray, tokens, th, granted>>

ToggleForm ==
  /\ Click("users")
  /\ pane' = Refreshing(pane.cur, ~pane.form)
  /\ UNCHANGED <<users, nextUser, named, roles, astray, tokens, th, granted>>

\* _build_add_form: the form with its "Create" button is there
AddForm == pane.form

\* SimpleService.execute turns the error of a taken name into a result that
\* create_user does not look at: the view goes on as if it had created the user
AddUser(n) ==
  /\ Click("users") /\ AddForm
  /\ pane' = Refreshing(pane.cur, FALSE)
  /\ InsertUser(n) \/ (Taken(n) /\ UNCHANGED <<users, nextUser>>)
  /\ UNCHANGED <<named, roles, astray, tokens, th, granted>>

\* a row may be gone already; delete_user's answer is not looked at either
DeleteRow(id) ==
  /\ Click("users") /\ id \in pane.rows
  /\ IF id \in Ids
       THEN Begin(Loop, "delete", id, 0, RolesOf(id)) /\ pane' = [pane EXCEPT !.at = "erase"]
       ELSE pane' = Refreshing(pane.cur, pane.form) /\ UNCHANGED th
  /\ UNCHANGED <<users, nextUser, named, roles, astray, tokens, granted>>

\* ServiceRoleAdapter.create; the error of a taken name is shown, and no more
AddRole(n) ==
  /\ pane.view = "roles" /\ pane.at = "ready" /\ th[Loop] = Idle
  /\ calls < MaxCalls /\ calls' = calls + 1
  /\ InsertRole(n, Len(named) + 1)
  /\ pane' = [pane EXCEPT !.at = "list"]
  /\ UNCHANGED <<users, nextUser, astray, tokens, th, granted>>

DropRow(r) ==
  /\ Click("roles") /\ r \in pane.rows
  /\ IF r \in roles
       THEN Begin(Loop, "drop", 0, r, {}) /\ pane' = [pane EXCEPT !.at = "erase"]
       ELSE pane' = [pane EXCEPT !.at = "list"] /\ UNCHANGED th
  /\ UNCHANGED <<users, nextUser, named, roles, astray, tokens, granted>>

\* The deletion commits, and the handler goes on to refresh; so does that of the
\* users when it fails, as the service turns an error into a result.
Erased ==
  /\ pane.at = "erase"
  /\ DeleteUserCommit(Loop) \/ DeleteRoleCommit(Loop) \/ (pane.view = "users" /\ Fail(Loop))
  /\ pane' = [pane EXCEPT !.at = IF pane.view = "users" THEN "count" ELSE "list"]

\* A deletion of a role that fails raises out of the handler: no refresh.
DropFails ==
  /\ pane.at = "erase" /\ pane.view = "roles"
  /\ Fail(Loop)
  /\ pane' = [pane EXCEPT !.at = "ready"]

-----------------------------------------------------------------------------
Handler ==
  \/ OpenUsers \/ OpenRoles
  \/ Prev \/ NextPage \/ Search \/ ToggleForm
  \/ \E n \in Names : AddUser(n)
  \/ \E id \in UserIds : DeleteRow(id)
  \/ \E n \in AllNames : AddRole(n)
  \/ \E r \in RoleIds : DropRow(r)
  \/ Count \/ Rows \/ List \/ Erased \/ DropFails

ManageNext ==
  \/ Handler
  \/ (\E t \in Threads \ {Loop} : Request(t) \/ Commit(t)) /\ UNCHANGED pane
  \/ (\E token \in tokens : Expire(token)) /\ UNCHANGED pane

ManageSpec == ManageInit /\ [][ManageNext]_manageVars

-----------------------------------------------------------------------------
(* Properties *)

ManageTypeOK ==
  /\ TypeOK /\ pane \in Panes
  /\ pane.rows \subseteq (IF pane.view = "users" THEN UserIds ELSE RoleIds)
  /\ (pane.at = "erase") = (th[Loop] # Idle)

\* However users come and go between the count, the rows and the clicks, a page
\* that was loaded leaves nobody stranded: an empty page has a way back if there
\* are users, no page lies beyond the last one there ever was, and "Next" leads
\* on while users were counted beyond the page.
NeverStranded ==
  [][pane.at = "rows" /\ pane'.at = "ready" =>
       /\ Ids # {} /\ pane'.rows = {} => pane'.page > 1
       /\ pane'.page > 1 => pane'.page <= PagesFor(nextUser - 1)
       /\ pane'.total > pane'.page * PageSize => pane'.page < PagesFor(pane'.total)]_manageVars
================================================================================
