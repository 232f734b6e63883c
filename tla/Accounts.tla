------------------------------- MODULE Accounts -------------------------------
(***************************************************************************)
(* Accounts: users, roles and who has which, as the worker threads of the  *)
(* API read and change them.  A repository method is one transaction: it   *)
(* reads, decides, and writes when it commits, so another commit may come  *)
(* between.  A Bearer token says who has which roles from the moment the   *)
(* login read them until the token expires.                                *)
(*                                                                         *)
(* External: the database.  It keeps a commit whole and names unique.      *)
(* PostgreSQL enforces the foreign keys of user_roles: it refuses a row    *)
(* that points nowhere, and deletes those of what is deleted.  SQLite, the *)
(* default, does not, as nobody asks it to (PRAGMA foreign_keys): such a   *)
(* row stays, and only the joins do not reach it.                          *)
(* Abstracted: a user's name stands for username and email, which are both *)
(* unique; passwords always match; a request that only reads, or that      *)
(* fails before it begins a transaction that writes, is left out.          *)
(***************************************************************************)
EXTENDS Naturals, Sequences, FiniteSets, Functions

CONSTANTS
  Threads,
  Names,      \* of users
  Root,       \* the user the seed script creates, with the role "admin"
  RoleNames,  \* names of roles besides "admin"
  MaxUsers,   \* bounds the users ever created
  MaxRoles,   \* bounds the roles ever created
  MaxCalls,   \* bounds the requests and clicks
  ForeignKeys \* TRUE: PostgreSQL; FALSE: SQLite

ASSUME KeysAssumption  == ForeignKeys \in BOOLEAN
ASSUME RootAssumption  == Root \in Names /\ "admin" \notin RoleNames
ASSUME BoundAssumption == MaxUsers \in Nat \ {0} /\ MaxRoles \in Nat \ {0} /\ MaxCalls \in Nat

VARIABLES
  users,     \* the rows of users, by id: ids grow in the order of creation
  nextUser,  \* the id of the next user
  named,     \* by id, the name of each role, or the last one that had the id
  roles,     \* the ids of the rows of roles
  astray,    \* rows of user_roles whose user or role is gone
  tokens,    \* the tokens issued and not expired
  th,        \* per thread: the request that is under way
  calls,     \* the requests so far
  granted    \* history: the memberships assigned with success, not undone since

vars == <<users, nextUser, named, roles, astray, tokens, th, calls, granted>>

UserIds  == 1 .. MaxUsers
RoleIds  == 1 .. MaxRoles
AllNames == {"admin"} \cup RoleNames

UserRows  == [name : Names, roles : SUBSET RoleIds]
TokenKind == [user : UserIds, roles : SUBSET AllNames]
Idle      == [pc |-> "idle", user |-> 0, role |-> 0, held |-> {}, names |-> {}]

Ids         == DOMAIN users
RolesOf(id) == users[id].roles
IsMember(id, r) == id \in Ids /\ r \in RolesOf(id)

TypeOK ==
  /\ nextUser \in 2 .. MaxUsers + 1
  /\ Ids \subseteq 1 .. nextUser - 1 /\ users \in [Ids -> UserRows]
  /\ named \in Seq(AllNames) /\ Len(named) <= MaxRoles
  /\ roles \subseteq DOMAIN named
  /\ \A r, q \in roles : named[r] = named[q] => r = q
  /\ \A i, j \in Ids : users[i].name = users[j].name => i = j
  /\ \A id \in Ids : RolesOf(id) \subseteq roles
  /\ astray \subseteq UserIds \X RoleIds /\ (ForeignKeys => astray = {})
  /\ tokens \subseteq TokenKind
  /\ th \in [Threads -> [pc : {"idle", "login", "delete", "assign", "remove", "drop"},
                         user : 0 .. MaxUsers, role : 0 .. MaxRoles,
                         held : SUBSET RoleIds, names : SUBSET AllNames]]
  /\ calls \in 0 .. MaxCalls
  /\ granted \subseteq UserIds \X RoleIds

\* scripts/seed_dev.py
Init ==
  /\ users = [id \in {1} |-> [name |-> Root, roles |-> {1}]] /\ nextUser = 2
  /\ named = <<"admin">> /\ roles = {1}
  /\ astray = {} /\ tokens = {}
  /\ th = [t \in Threads |-> Idle]
  /\ calls = 0 /\ granted = {<<1, 1>>}

-----------------------------------------------------------------------------
(* What the repositories write *)

\* a unique constraint; what register() answers for its IntegrityError
Taken(n) == \E id \in Ids : users[id].name = n

\* AbstractRepository.create
InsertUser(n) ==
  /\ nextUser <= MaxUsers
  /\ ~Taken(n)
  /\ users' = [id \in Ids \cup {nextUser} |->
                IF id = nextUser THEN [name |-> n, roles |-> {}] ELSE users[id]]
  /\ nextUser' = nextUser + 1

\* AbstractRepository.delete at its commit, after it read the roles held.  The
\* memberships it read are deleted first: if one is gone, StaleDataError rolls
\* the deletion back.  One that was added since is left to the foreign key.
EraseUser(id, held) ==
  IF id \in Ids /\ held \subseteq RolesOf(id)
    THEN /\ users' = Restrict(users, Ids \ {id})
         /\ astray' = IF ForeignKeys THEN astray
                      ELSE astray \cup ({id} \X (RolesOf(id) \ held))
    ELSE UNCHANGED <<users, astray>>

\* the rows after the roles of one user are replaced
WithRoles(id, rs) ==
  [i \in Ids |-> IF i = id THEN [users[i] EXCEPT !.roles = rs] ELSE users[i]]

\* roles.name is unique, too
RoleTaken(n) == \E r \in roles : named[r] = n

\* The body may name the id.  PostgreSQL takes one that no row has, also of a
\* role that was deleted; SQLAlchemy's type for the others fails on a string.
GivenIds == IF ForeignKeys THEN DOMAIN named \ roles ELSE {}

InsertRole(n, id) ==
  /\ ~RoleTaken(n)
  /\ \/ /\ id = Len(named) + 1 /\ id <= MaxRoles
        /\ named' = Append(named, n)
     \/ /\ id \in GivenIds
        /\ named' = [named EXCEPT ![id] = n]
  /\ roles' = roles \cup {id}

\* the memberships of a role are looked up when its deletion is flushed
EraseRole(r) ==
  /\ roles' = roles \ {r}
  /\ users' = [id \in Ids |-> [users[id] EXCEPT !.roles = @ \ {r}]]
  /\ granted' = {g \in granted : g[2] # r}

-----------------------------------------------------------------------------
(* Requests: get_current_user and require_roles, then the handler *)

\* a new request may start
Call(t) ==
  /\ th[t] = Idle /\ calls < MaxCalls
  /\ calls' = calls + 1

\* get_current_user: some token is presented, and decodes
Bearer == tokens # {}

\* require_roles("admin"): by the names in the token, not in the database
AdminBearer == \E token \in tokens : "admin" \in token.roles

\* what a transaction has read, until it commits; roles are read with their names
Begin(t, pc, id, r, held) ==
  th' = [th EXCEPT ![t] = [pc |-> pc, user |-> id, role |-> r, held |-> held,
                           names |-> {named[q] : q \in held}]]

Finish(t) == th' = [th EXCEPT ![t] = Idle]

\* UserService.authenticate: find_for_auth reads the user and its roles
LoginRead(t, id) ==
  /\ Call(t) /\ id \in Ids
  /\ Begin(t, "login", id, 0, RolesOf(id))
  /\ UNCHANGED <<users, nextUser, named, roles, astray, tokens, granted>>

\* create_token, after the password was verified
IssueToken(t) ==
  /\ th[t].pc = "login"
  /\ tokens' = tokens \cup {[user |-> th[t].user, roles |-> th[t].names]}
  /\ Finish(t)
  /\ UNCHANGED <<users, nextUser, named, roles, astray, calls, granted>>

\* a token's "exp" has passed
Expire(token) ==
  /\ token \in tokens
  /\ tokens' = tokens \ {token}
  /\ UNCHANGED <<users, nextUser, named, roles, astray, th, calls, granted>>

Register(t, n) ==
  /\ Call(t) /\ InsertUser(n)
  /\ UNCHANGED <<named, roles, astray, tokens, th, granted>>

CreateUser(t, n) == AdminBearer /\ Register(t, n)

DeleteUserRead(t, id) ==
  /\ Call(t) /\ AdminBearer /\ id \in Ids
  /\ Begin(t, "delete", id, 0, RolesOf(id))
  /\ UNCHANGED <<users, nextUser, named, roles, astray, tokens, granted>>

DeleteUserCommit(t) ==
  /\ th[t].pc = "delete"
  /\ EraseUser(th[t].user, th[t].held)
  /\ Finish(t)
  /\ UNCHANGED <<nextUser, named, roles, tokens, calls, granted>>

\* add_role answers False if either is missing or the role is there already
AssignRead(t, id, r) ==
  /\ Call(t) /\ Bearer
  /\ id \in Ids /\ r \in roles /\ ~IsMember(id, r)
  /\ Begin(t, "assign", id, r, {})
  /\ UNCHANGED <<users, nextUser, named, roles, astray, tokens, granted>>

\* The row is inserted, unless another request was faster (the primary key), or
\* deleted one of the two and a foreign key refuses it.  Without foreign keys it
\* is inserted all the same, and the answer is "assigned: True".
AssignCommit(t) ==
  LET id == th[t].user
      r  == th[t].role
      done  == id \in Ids /\ r \in roles /\ ~IsMember(id, r)
      loose == ~ForeignKeys /\ ~(id \in Ids /\ r \in roles)
  IN  /\ th[t].pc = "assign"
      /\ users' = IF done THEN WithRoles(id, RolesOf(id) \cup {r}) ELSE users
      /\ granted' = IF done THEN granted \cup {<<id, r>>} ELSE granted
      /\ astray' = IF loose THEN astray \cup {<<id, r>>} ELSE astray
      /\ Finish(t)
      /\ UNCHANGED <<nextUser, named, roles, tokens, calls>>

RemoveRead(t, id, r) ==
  /\ Call(t) /\ Bearer /\ IsMember(id, r)
  /\ Begin(t, "remove", id, r, RolesOf(id))
  /\ UNCHANGED <<users, nextUser, named, roles, astray, tokens, granted>>

\* Mutant of RemoveCommit: the list that was read is written back.
RemoveCommitList(t) ==
  LET id == th[t].user
      r  == th[t].role
  IN  /\ th[t].pc = "remove"
      /\ users' = WithRoles(id, (th[t].held \cap roles) \ {r})
      /\ granted' = granted \ {<<id, r>>}
      /\ Finish(t)
      /\ UNCHANGED <<nextUser, named, roles, astray, tokens, calls>>

\* user.roles is assigned a list, but only what it lacks is deleted
RemoveCommit(t) ==
  LET id == th[t].user
      r  == th[t].role
  IN  /\ th[t].pc = "remove"
      /\ users' = IF IsMember(id, r) THEN WithRoles(id, RolesOf(id) \ {r}) ELSE users
      /\ granted' = granted \ {<<id, r>>}
      /\ Finish(t)
      /\ UNCHANGED <<nextUser, named, roles, astray, tokens, calls>>

CreateRole(t, n, id) ==
  /\ Call(t) /\ Bearer /\ InsertRole(n, id)
  /\ UNCHANGED <<users, nextUser, astray, tokens, th, granted>>

DeleteRoleRead(t, r) ==
  /\ Call(t) /\ Bearer /\ r \in roles
  /\ Begin(t, "drop", 0, r, {})
  /\ UNCHANGED <<users, nextUser, named, roles, astray, tokens, granted>>

\* Mutant of DeleteRoleCommit: the memberships are kept.
DeleteRoleCommitAlone(t) ==
  /\ th[t].pc = "drop"
  /\ roles' = roles \ {th[t].role}
  /\ Finish(t)
  /\ UNCHANGED <<users, nextUser, named, astray, tokens, calls, granted>>

DeleteRoleCommit(t) ==
  /\ th[t].pc = "drop"
  /\ EraseRole(th[t].role)
  /\ Finish(t)
  /\ UNCHANGED <<nextUser, named, astray, tokens, calls>>

\* The transaction fails, for the database or for rows that another one deleted:
\* SessionFactory.session rolls it back.
Fail(t) ==
  /\ th[t].pc # "idle"
  /\ Finish(t)
  /\ UNCHANGED <<users, nextUser, named, roles, astray, tokens, calls, granted>>

-----------------------------------------------------------------------------
Commit(t) ==
  \/ IssueToken(t) \/ DeleteUserCommit(t) \/ AssignCommit(t) \/ RemoveCommit(t)
  \/ DeleteRoleCommit(t) \/ Fail(t)

Request(t) ==
  \/ \E n \in Names : Register(t, n) \/ CreateUser(t, n)
  \/ \E id \in UserIds : LoginRead(t, id) \/ DeleteUserRead(t, id)
  \/ \E id \in UserIds, r \in RoleIds : AssignRead(t, id, r) \/ RemoveRead(t, id, r)
  \/ \E n \in AllNames, id \in RoleIds : CreateRole(t, n, id)
  \/ \E r \in RoleIds : DeleteRoleRead(t, r)

Next ==
  \/ \E t \in Threads : Request(t) \/ Commit(t)
  \/ \E token \in tokens : Expire(token)

-----------------------------------------------------------------------------
(* Properties *)

\* "assigned: True" is kept: the user has the role until a removal of just that
\* role is answered, or the user or the role is deleted, whichever requests for
\* the same user commit between the read and the write of another, and although
\* a role may be created with the id of one that was deleted.
AssignmentKept ==
  \A g \in granted : g[1] \in Ids /\ g[2] \in roles => IsMember(g[1], g[2])
=============================================================================
