---------------------------- MODULE AccountsProofs ----------------------------
(***************************************************************************)
(* Proofs about ManageUsers, for any threads, names, page size and bounds: *)
(* the types with the uniqueness of names and, where foreign keys are      *)
(* enforced, no membership of a row that is gone; that an assignment is    *)
(* kept; and that no click strands the user.                               *)
(*                                                                         *)
(* A user's id is never used again, and a role's only after its deletion   *)
(* undid what was granted of it: what was granted speaks of ids given      *)
(* before (GrantedBefore), so a new row inherits nothing.  A view counts   *)
(* the users before it turns a page, and their ids only grow: the page it  *)
(* is at is one there was (PaneOK).                                        *)
(***************************************************************************)
EXTENDS ManageUsers, FiniteSetTheorems, SequenceTheorems, TLAPS

\* the tables: the first half of TypeOK, and whom the roles were given to
RowsOK ==
  /\ nextUser \in 2 .. MaxUsers + 1
  /\ Ids \subseteq 1 .. nextUser - 1 /\ users \in [Ids -> UserRows]
  /\ named \in Seq(AllNames) /\ Len(named) <= MaxRoles
  /\ roles \subseteq DOMAIN named
  /\ \A r, q \in roles : named[r] = named[q] => r = q
  /\ \A i, j \in Ids : users[i].name = users[j].name => i = j
  /\ \A id \in Ids : RolesOf(id) \subseteq roles
  /\ astray \subseteq UserIds \X RoleIds /\ (ForeignKeys => astray = {})
  /\ granted \subseteq UserIds \X RoleIds

GrantedBefore ==
  \A g \in granted :
    g[1] < nextUser /\ g[2] \in DOMAIN named /\ (ForeignKeys => g[2] \in roles)

RowsInv == RowsOK /\ GrantedBefore /\ AssignmentKept

ThreadKind == [pc : {"idle", "login", "delete", "assign", "remove", "drop"},
               user : 0 .. MaxUsers, role : 0 .. MaxRoles,
               held : SUBSET RoleIds, names : SUBSET AllNames]

\* a login is of a user, and an assignment of a user and a role
ThreadsInv ==
  /\ tokens \subseteq TokenKind /\ th \in [Threads -> ThreadKind] /\ calls \in 0 .. MaxCalls
  /\ \A t \in Threads : /\ th[t].pc \in {"login", "assign"} => th[t].user \in UserIds
                        /\ th[t].pc = "assign" => th[t].role \in RoleIds

PaneInv ==
  /\ pane \in Panes
  /\ pane.rows \subseteq (IF pane.view = "users" THEN UserIds ELSE RoleIds)
  /\ (pane.at = "erase") = (th[Loop] # Idle)
  /\ pane.at \in {"count", "rows"} => pane.view = "users"
  /\ pane.at = "list" => pane.view = "roles"
  /\ pane.at = "erase" => pane.view # "none"
  /\ pane.total <= nextUser - 1
  /\ pane.cur = 1 \/ pane.cur <= PagesFor(nextUser - 1)

IInv == RowsInv /\ ThreadsInv /\ PaneInv

-----------------------------------------------------------------------------
(* Pages *)

LEMMA Division ==
  ASSUME NEW n \in Nat, NEW p \in Nat \ {0}
  PROVE  /\ n \div p \in Nat
         /\ (n \div p) * p <= n /\ n < (n \div p) * p + p
OBVIOUS

LEMMA TimesMonotone ==
  ASSUME NEW i \in Nat, NEW j \in Nat, NEW p \in Nat, i < j
  PROVE  i * p + p <= j * p
<1>1. PICK d \in Nat : j = i + 1 + d
  <2>1. j - i - 1 \in Nat /\ j = i + 1 + (j - i - 1) OBVIOUS
  <2> QED BY <2>1
<1>2. (i + 1 + d) * p = i * p + p + d * p OBVIOUS
<1>3. d * p \in Nat /\ i * p \in Nat OBVIOUS
<1> QED BY <1>1, <1>2, <1>3

\* Enough pages for the rows, no more than rows, and no fewer for more rows.
LEMMA PagesForFacts ==
  ASSUME NEW a \in Nat
  PROVE  /\ PagesFor(a) \in Nat /\ PagesFor(a) <= a
         /\ \A k \in Nat : k * PageSize < a => k < PagesFor(a)
         /\ \A b \in Nat : a <= b => PagesFor(a) <= PagesFor(b)
<1>1. PageSize \in Nat \ {0} BY LoopAssumption
<1>2. \A n \in Nat :
        /\ PagesFor(n) \in Nat
        /\ PagesFor(n) * PageSize <= n + PageSize - 1
        /\ n + PageSize - 1 < PagesFor(n) * PageSize + PageSize
  <2> SUFFICES ASSUME NEW n \in Nat
               PROVE  /\ PagesFor(n) \in Nat
                      /\ PagesFor(n) * PageSize <= n + PageSize - 1
                      /\ n + PageSize - 1 < PagesFor(n) * PageSize + PageSize
    OBVIOUS
  <2>1. n + PageSize - 1 \in Nat BY <1>1
  <2> QED BY <1>1, <2>1, Division DEF PagesFor
<1>3. \A k \in Nat, n \in Nat : k * PageSize < n => k < PagesFor(n)
  <2> SUFFICES ASSUME NEW k \in Nat, NEW n \in Nat, k * PageSize < n, ~(k < PagesFor(n))
               PROVE  FALSE
    OBVIOUS
  <2>1. PagesFor(n) \in Nat /\ n + PageSize - 1 < PagesFor(n) * PageSize + PageSize BY <1>2
  <2>2. PagesFor(n) * PageSize <= k * PageSize
    <3>1. CASE PagesFor(n) = k BY <1>1, <3>1
    <3>2. CASE PagesFor(n) < k
      <4>1. PagesFor(n) * PageSize + PageSize <= k * PageSize
        BY <1>1, <2>1, <3>2, TimesMonotone
      <4>2. PagesFor(n) * PageSize \in Nat /\ k * PageSize \in Nat BY <1>1, <2>1
      <4> QED BY <1>1, <4>1, <4>2
    <3> QED BY <2>1, <3>1, <3>2
  <2>3. PagesFor(n) * PageSize \in Nat /\ k * PageSize \in Nat BY <1>1, <2>1
  <2> QED BY <1>1, <2>1, <2>2, <2>3
<1>4. \A n \in Nat, b \in Nat : n <= b => PagesFor(n) <= PagesFor(b)
  <2> SUFFICES ASSUME NEW n \in Nat, NEW b \in Nat, n <= b, PagesFor(b) < PagesFor(n)
               PROVE  FALSE
    BY <1>2
  <2>1. PagesFor(b) * PageSize + PageSize <= PagesFor(n) * PageSize
    BY <1>1, <1>2, TimesMonotone
  <2>2. PagesFor(n) * PageSize <= n + PageSize - 1 BY <1>2
  <2>3. b + PageSize - 1 < PagesFor(b) * PageSize + PageSize BY <1>2
  <2>4. PagesFor(n) * PageSize \in Nat /\ PagesFor(b) * PageSize \in Nat BY <1>1, <1>2
  <2> QED BY <1>1, <2>1, <2>2, <2>3, <2>4
<1>5. PagesFor(a) <= a
  <2> SUFFICES ASSUME a < PagesFor(a) PROVE FALSE BY <1>2
  <2>1. a * PageSize + PageSize <= PagesFor(a) * PageSize BY <1>1, <1>2, TimesMonotone
  <2>2. PagesFor(a) * PageSize <= a + PageSize - 1 BY <1>2
  <2>3. a <= a * PageSize
    <3>1. CASE a = 0 BY <1>1, <3>1
    <3>2. PICK c \in Nat : PageSize = c + 1
      <4>1. PageSize - 1 \in Nat /\ PageSize = (PageSize - 1) + 1 BY <1>1
      <4> QED BY <4>1
    <3>3. a * (c + 1) = a * c + a /\ a * c \in Nat OBVIOUS
    <3> QED BY <3>2, <3>3
  <2>4. a * PageSize \in Nat /\ PagesFor(a) * PageSize \in Nat BY <1>1, <1>2
  <2> QED BY <1>1, <2>1, <2>2, <2>3, <2>4
<1> QED BY <1>2, <1>3, <1>4, <1>5

\* A set of users with somebody in it has a first one.
LEMMA FirstUser ==
  ASSUME NEW X, X \subseteq Nat, IsFiniteSet(X), X # {}
  PROVE  \E x \in X : {i \in X : i < x} = {}
<1> DEFINE Before(x) == {i \in X : i < x}
           R == StrictSubsetOrdering(X)
           T == {Before(x) : x \in X}
<1>1. IsWellFoundedOn(R, FiniteSubsetsOf(X)) BY FS_StrictSubsetOrderingWellFounded
<1>2. FiniteSubsetsOf(X) = SUBSET X BY FS_FiniteSubsetsOfFinite
<1>3. T \subseteq SUBSET X /\ T # {} OBVIOUS
<1> HIDE DEF R, T
<1>4. PICK m \in T : \A y \in T : <<y, m>> \notin R
  <2>1. IsWellFoundedOn(R, SUBSET X) BY <1>1, <1>2 DEF R
  <2>2. \E m \in T : \A y \in T : ~(<<y, m>> \in R) BY <1>3, <2>1, WFMin
  <2> QED BY <2>2
<1>5. PICK x \in X : m = Before(x) BY <1>4 DEF T
<1>6. ASSUME NEW i \in X, i < x PROVE FALSE
  <2>1. Before(i) \subseteq Before(x) /\ i \in Before(x) /\ i \notin Before(i)
    <3>1. i \in Nat /\ x \in Nat OBVIOUS
    <3>2. ASSUME NEW a \in X, a < i PROVE a < x BY <1>6, <3>1, <3>2
    <3>3. ~(i < i) BY <3>1
    <3> QED BY <1>6, <3>2, <3>3
  <2>2. Before(i) \in T /\ Before(i) \in SUBSET X /\ Before(x) \in SUBSET X BY DEF T
  <2>3. <<Before(i), Before(x)>> \in R BY <2>1, <2>2 DEF R, StrictSubsetOrdering
  <2> QED BY <1>4, <1>5, <2>2, <2>3
<1> QED BY <1>6

-----------------------------------------------------------------------------
(* What the repositories write *)

LEMMA NamedFacts ==
  ASSUME RowsOK
  PROVE  /\ Len(named) \in Nat /\ DOMAIN named = 1 .. Len(named)
         /\ DOMAIN named \subseteq RoleIds /\ roles \subseteq RoleIds
         /\ \A r \in DOMAIN named : named[r] \in AllNames
BY BoundAssumption DEF RowsOK, RoleIds

\* What a user holds was named.
LEMMA HeldFacts ==
  ASSUME RowsInv, NEW id \in Ids
  PROVE  id \in UserIds /\ id \in 0 .. MaxUsers /\ RolesOf(id) \in SUBSET RoleIds
         /\ RolesOf(id) \subseteq DOMAIN named
<1>1. id \in UserIds BY BoundAssumption DEF RowsInv, RowsOK, UserIds
<1>2. RolesOf(id) \subseteq roles /\ roles \subseteq DOMAIN named /\ roles \subseteq RoleIds
  BY NamedFacts DEF RowsInv, RowsOK
<1> QED BY <1>1, <1>2, BoundAssumption DEF UserIds

\* The memberships of the rows there were are what they were, but for one user at
\* most, and there is no row of a new one: nothing granted is lost.
LEMMA InsertUserRows ==
  ASSUME RowsInv, NEW n \in Names, InsertUser(n), UNCHANGED <<named, roles, astray, granted>>
  PROVE  RowsInv'
<1> USE DEF RowsInv
<1>1. /\ nextUser <= MaxUsers /\ ~Taken(n) /\ nextUser' = nextUser + 1
      /\ users' = [id \in Ids \cup {nextUser} |->
                     IF id = nextUser THEN [name |-> n, roles |-> {}] ELSE users[id]]
  BY DEF InsertUser
<1>2. nextUser \in Nat /\ nextUser \in 2 .. MaxUsers + 1 /\ nextUser \notin Ids
      /\ Ids \subseteq 1 .. nextUser - 1 /\ MaxUsers \in Nat
  BY BoundAssumption DEF RowsOK
<1>3. /\ Ids' = Ids \cup {nextUser} /\ users'[nextUser] = [name |-> n, roles |-> {}]
      /\ \A id \in Ids : users'[id] = users[id]
  BY <1>1, <1>2 DEF Ids
<1>4. nextUser' \in 2 .. MaxUsers + 1 /\ Ids' \subseteq 1 .. nextUser' - 1
  BY <1>1, <1>2, <1>3
<1>5. users' \in [Ids' -> UserRows]
  <2>1. [name |-> n, roles |-> {}] \in UserRows BY DEF UserRows
  <2>2. \A id \in Ids : users[id] \in UserRows BY DEF RowsOK
  <2> QED BY <1>1, <1>3, <2>1, <2>2
<1>6. \A i, j \in Ids' : users'[i].name = users'[j].name => i = j
  BY <1>1, <1>3 DEF RowsOK, Taken
<1>7. \A id \in Ids' : RolesOf(id)' \subseteq roles' BY <1>3 DEF RowsOK, RolesOf
<1>8. RowsOK' BY <1>4, <1>5, <1>6, <1>7 DEF RowsOK
<1>9. GrantedBefore'
  <2>1. \A g \in granted : g[1] \in Nat BY DEF RowsOK, UserIds
  <2> QED BY <1>1, <1>2, <2>1 DEF GrantedBefore
<1>10. AssignmentKept'
  <2> SUFFICES ASSUME NEW g \in granted, g[1] \in Ids', g[2] \in roles
               PROVE  g[2] \in users'[g[1]].roles
    BY DEF AssignmentKept, IsMember, RolesOf
  <2>1. g[1] # nextUser BY <1>2 DEF GrantedBefore
  <2> QED BY <1>3, <2>1 DEF AssignmentKept, IsMember, RolesOf
<1> QED BY <1>8, <1>9, <1>10

LEMMA EraseUserRows ==
  ASSUME RowsInv, NEW id, NEW held, EraseUser(id, held),
         UNCHANGED <<nextUser, named, roles, granted>>
  PROVE  RowsInv'
<1> USE DEF RowsInv
<1>1. Ids' \subseteq Ids /\ users' \in [Ids' -> UserRows] /\ \A i \in Ids' : users'[i] = users[i]
  <2>1. CASE users' = users BY <2>1 DEF RowsOK, Ids
  <2>2. CASE users' = Restrict(users, Ids \ {id})
    <3>1. users' = [i \in Ids \ {id} |-> users[i]] BY <2>2 DEF Restrict
    <3> QED BY <3>1 DEF RowsOK, Ids
  <2> QED BY <2>1, <2>2 DEF EraseUser
<1>2. astray' \subseteq UserIds \X RoleIds /\ (ForeignKeys => astray' = {})
  <2>1. CASE astray' = astray BY <2>1 DEF RowsOK
  <2>2. CASE /\ id \in Ids /\ ~ForeignKeys
             /\ astray' = astray \cup ({id} \X (RolesOf(id) \ held))
    <3>1. id \in UserIds /\ RolesOf(id) \subseteq RoleIds BY <2>2, HeldFacts
    <3> QED BY <2>2, <3>1 DEF RowsOK
  <2> QED BY <2>1, <2>2 DEF EraseUser
<1>3. RowsOK' BY <1>1, <1>2 DEF RowsOK, RolesOf
<1>4. AssignmentKept' BY <1>1 DEF AssignmentKept, IsMember, RolesOf
<1> QED BY <1>3, <1>4 DEF GrantedBefore

\* The new role has a new id, or one that nothing granted speaks of.
LEMMA InsertRoleRows ==
  ASSUME RowsInv, NEW n \in AllNames, NEW id, InsertRole(n, id),
         UNCHANGED <<users, nextUser, astray, granted>>
  PROVE  RowsInv'
<1> USE DEF RowsInv
<1>1. ~RoleTaken(n) /\ roles' = roles \cup {id} BY DEF InsertRole
<1>2. /\ named \in Seq(AllNames) /\ Len(named) \in Nat /\ DOMAIN named = 1 .. Len(named)
      /\ roles \subseteq DOMAIN named /\ Len(named) <= MaxRoles
  BY NamedFacts DEF RowsOK
<1>3. /\ named' \in Seq(AllNames) /\ Len(named') <= MaxRoles
      /\ DOMAIN named' = DOMAIN named \cup {id} /\ id \notin roles
      /\ named'[id] = n /\ \A r \in roles : named'[r] = named[r]
  <2>1. CASE id = Len(named) + 1 /\ id <= MaxRoles /\ named' = Append(named, n)
    <3>1. /\ named' \in Seq(AllNames) /\ Len(named') = Len(named) + 1
          /\ named'[Len(named) + 1] = n /\ \A r \in DOMAIN named : named'[r] = named[r]
          /\ DOMAIN named' = 1 .. Len(named) + 1
      BY <1>2, <2>1, AppendProperties
    <3>2. id \notin DOMAIN named /\ DOMAIN named' = DOMAIN named \cup {id}
      BY <1>2, <2>1, <3>1
    <3> QED BY <1>2, <2>1, <3>1, <3>2
  <2>2. CASE id \in GivenIds /\ named' = [named EXCEPT ![id] = n]
    <3>1. id \in DOMAIN named /\ id \notin roles BY <2>2 DEF GivenIds
    <3>2. /\ named' \in Seq(AllNames) /\ Len(named') = Len(named)
          /\ DOMAIN named' = DOMAIN named
          /\ \A r \in DOMAIN named : named'[r] = IF r = id THEN n ELSE named[r]
      BY <1>2, <2>2, <3>1, ExceptSeq
    <3> QED BY <1>2, <3>1, <3>2
  <2> QED BY <2>1, <2>2 DEF InsertRole
<1>4. \A r, q \in roles' : named'[r] = named'[q] => r = q
  BY <1>1, <1>3 DEF RowsOK, RoleTaken
<1>5. RowsOK' BY <1>1, <1>2, <1>3, <1>4 DEF RowsOK, Ids, RolesOf
<1>6. GrantedBefore' BY <1>1, <1>3 DEF GrantedBefore
<1>7. AssignmentKept'
  <2> SUFFICES ASSUME NEW g \in granted, g[1] \in Ids, g[2] \in roles'
               PROVE  IsMember(g[1], g[2])
    BY DEF AssignmentKept, IsMember, RolesOf, Ids
  <2>1. g[2] \in roles
    <3>1. CASE ForeignKeys BY <3>1 DEF GrantedBefore
    <3>2. CASE ~ForeignKeys
      <4>1. id = Len(named) + 1 BY <3>2 DEF InsertRole, GivenIds
      <4>2. id \notin DOMAIN named BY <1>2, <4>1
      <4> QED BY <1>1, <4>2 DEF GrantedBefore
    <3> QED BY <3>1, <3>2
  <2> QED BY <2>1 DEF AssignmentKept
<1> QED BY <1>5, <1>6, <1>7

\* The rows after only the roles of users, or the roles there are, have changed.
LEMMA SameUsers ==
  ASSUME RowsOK, UNCHANGED <<nextUser, named>>, roles' \subseteq roles,
         astray' \subseteq UserIds \X RoleIds, ForeignKeys => astray' = {},
         granted' \subseteq UserIds \X RoleIds,
         Ids' = Ids, users' \in [Ids' -> UserRows],
         \A i \in Ids : users'[i].name = users[i].name /\ users'[i].roles \subseteq roles'
  PROVE  RowsOK'
<1>1. \A i, j \in Ids' : users'[i].name = users'[j].name => i = j BY DEF RowsOK
<1>2. \A i \in Ids' : RolesOf(i)' \subseteq roles' BY DEF RolesOf
<1>3. \A x, y \in roles' : named'[x] = named'[y] => x = y BY DEF RowsOK
<1> QED BY <1>1, <1>2, <1>3 DEF RowsOK

LEMMA EraseRoleRows ==
  ASSUME RowsInv, NEW r, EraseRole(r), UNCHANGED <<nextUser, named, astray>>
  PROVE  RowsInv'
<1> USE DEF RowsInv
<1>1. /\ roles' = roles \ {r}
      /\ users' = [id \in Ids |-> [users[id] EXCEPT !.roles = @ \ {r}]]
      /\ granted' = {g \in granted : g[2] # r}
  BY DEF EraseRole
<1>2. \A id \in Ids : users[id] \in UserRows BY DEF RowsOK
<1>3. Ids' = Ids BY <1>1 DEF Ids
<1>4. ASSUME NEW id \in Ids
      PROVE  /\ users'[id] \in UserRows /\ users'[id].name = users[id].name
             /\ users'[id].roles = users[id].roles \ {r}
  BY <1>1, <1>2 DEF UserRows
<1>5. users' \in [Ids' -> UserRows] BY <1>1, <1>3, <1>4
<1>6. RowsOK'
  <2>1. ASSUME NEW id \in Ids PROVE users'[id].roles \subseteq roles'
    <3>1. users[id].roles \subseteq roles BY DEF RowsOK, RolesOf
    <3> QED BY <1>1, <1>4, <3>1
  <2> QED BY <1>1, <1>3, <1>4, <1>5, <2>1, SameUsers DEF RowsOK
<1>7. AssignmentKept' BY <1>1, <1>3, <1>4 DEF AssignmentKept, IsMember, RolesOf
<1>8. GrantedBefore' BY <1>1 DEF GrantedBefore
<1> QED BY <1>6, <1>7, <1>8

\* One user's roles change: those of the others do not.
LEMMA WithRolesFacts ==
  ASSUME RowsOK, NEW id, NEW rs, rs \subseteq RoleIds, users' = WithRoles(id, rs)
  PROVE  /\ Ids' = Ids /\ users' \in [Ids' -> UserRows]
         /\ \A i \in Ids : /\ users'[i].name = users[i].name
                           /\ users'[i].roles = IF i = id THEN rs ELSE users[i].roles
<1>1. users' = [i \in Ids |-> IF i = id THEN [users[i] EXCEPT !.roles = rs] ELSE users[i]]
  BY DEF WithRoles
<1>2. \A i \in Ids : users[i] \in UserRows BY DEF RowsOK
<1>3. ASSUME NEW i \in Ids
      PROVE  /\ users'[i] \in UserRows /\ users'[i].name = users[i].name
             /\ users'[i].roles = IF i = id THEN rs ELSE users[i].roles
  BY <1>1, <1>2 DEF UserRows
<1>4. Ids' = Ids BY <1>1 DEF Ids
<1> QED BY <1>1, <1>3, <1>4

LEMMA AssignRows ==
  ASSUME RowsInv, ThreadsInv, NEW t \in Threads, AssignCommit(t)
  PROVE  RowsInv'
<1> USE DEF RowsInv
<1> DEFINE id == th[t].user
           r == th[t].role
           done == id \in Ids /\ r \in roles /\ ~IsMember(id, r)
<1>1. astray' \subseteq UserIds \X RoleIds /\ (ForeignKeys => astray' = {})
  <2>1. id \in UserIds /\ r \in RoleIds BY DEF AssignCommit, ThreadsInv
  <2>2. astray' = astray \/ (~ForeignKeys /\ astray' = astray \cup {<<id, r>>})
    BY DEF AssignCommit
  <2> HIDE DEF id, r
  <2> QED BY <2>1, <2>2 DEF RowsOK
<1>2. /\ users' = IF done THEN WithRoles(id, RolesOf(id) \cup {r}) ELSE users
      /\ granted' = IF done THEN granted \cup {<<id, r>>} ELSE granted
      /\ UNCHANGED <<nextUser, named, roles>>
  BY DEF AssignCommit
<1>3. CASE ~done
  <2>1. UNCHANGED <<users, granted, nextUser, named, roles>> BY <1>2, <1>3
  <2> QED BY <1>1, <2>1 DEF RowsOK, GrantedBefore, AssignmentKept, Ids, IsMember, RolesOf
<1>4. CASE done
  <2>1. id \in Ids /\ r \in roles BY <1>4
  <2>2. /\ users' = WithRoles(id, RolesOf(id) \cup {r}) /\ granted' = granted \cup {<<id, r>>}
    BY <1>2, <1>4
  <2> HIDE DEF id, r, done
  <2>3. r \in RoleIds /\ RolesOf(id) \subseteq roles /\ roles \subseteq RoleIds
    BY <2>1, NamedFacts DEF RowsOK
  <2> DEFINE rs == RolesOf(id) \cup {r}
  <2>4. rs \subseteq roles /\ rs \subseteq RoleIds BY <2>1, <2>3
  <2>5. users' = WithRoles(id, rs) BY <2>2
  <2> HIDE DEF rs
  <2>6. /\ Ids' = Ids /\ users' \in [Ids' -> UserRows]
        /\ \A i \in Ids : /\ users'[i].name = users[i].name
                          /\ users'[i].roles = IF i = id THEN rs ELSE users[i].roles
    BY <2>4, <2>5, WithRolesFacts
  <2>7. id \in UserIds /\ id < nextUser /\ r \in DOMAIN named
    BY <2>1, BoundAssumption DEF RowsOK, UserIds
  <2>8. RowsOK'
    <3>1. \A i \in Ids : users'[i].roles \subseteq roles BY <2>4, <2>6 DEF RowsOK, RolesOf
    <3>2. granted' \subseteq UserIds \X RoleIds BY <2>2, <2>3, <2>7 DEF RowsOK
    <3> QED BY <1>1, <1>2, <2>6, <3>1, <3>2, SameUsers
  <2>9. GrantedBefore' BY <1>2, <2>1, <2>2, <2>7 DEF GrantedBefore
  <2>10. AssignmentKept'
    <3> SUFFICES ASSUME NEW g \in granted', g[1] \in Ids, g[2] \in roles
                 PROVE  g[2] \in users'[g[1]].roles
      BY <1>2, <2>6 DEF AssignmentKept, IsMember, RolesOf
    <3>1. CASE g \in granted
      <4>1. g[2] \in users[g[1]].roles BY <3>1 DEF AssignmentKept, IsMember, RolesOf
      <4> QED BY <2>6, <4>1 DEF RolesOf, rs
    <3>2. CASE g = <<id, r>> BY <2>6, <3>2 DEF rs
    <3> QED BY <2>2, <3>1, <3>2
  <2> QED BY <2>8, <2>9, <2>10
<1> QED BY <1>3, <1>4

LEMMA RemoveRows ==
  ASSUME RowsInv, ThreadsInv, NEW t \in Threads, RemoveCommit(t)
  PROVE  RowsInv'
<1> USE DEF RowsInv
<1> DEFINE id == th[t].user
           r == th[t].role
<1>1. /\ users' = IF IsMember(id, r) THEN WithRoles(id, RolesOf(id) \ {r}) ELSE users
      /\ granted' = granted \ {<<id, r>>}
      /\ UNCHANGED <<nextUser, named, roles, astray>>
  BY DEF RemoveCommit
<1> HIDE DEF id, r
<1>2. GrantedBefore' BY <1>1 DEF GrantedBefore
<1>3. CASE ~IsMember(id, r)
  <2>1. users' = users BY <1>1, <1>3
  <2>2. RowsOK' BY <1>1, <2>1 DEF RowsOK, Ids, RolesOf
  <2>3. AssignmentKept' BY <1>1, <2>1 DEF AssignmentKept, IsMember, RolesOf, Ids
  <2> QED BY <1>2, <2>2, <2>3
<1>4. CASE IsMember(id, r)
  <2>1. users' = WithRoles(id, RolesOf(id) \ {r}) /\ id \in Ids BY <1>1, <1>4 DEF IsMember
  <2>2. RolesOf(id) \subseteq roles /\ roles \subseteq RoleIds
    BY <2>1, NamedFacts DEF RowsOK
  <2> DEFINE rs == RolesOf(id) \ {r}
  <2>3. rs \subseteq roles /\ rs \subseteq RoleIds BY <2>2
  <2>4. users' = WithRoles(id, rs) BY <2>1
  <2> HIDE DEF rs
  <2>5. /\ Ids' = Ids /\ users' \in [Ids' -> UserRows]
        /\ \A i \in Ids : /\ users'[i].name = users[i].name
                          /\ users'[i].roles = IF i = id THEN rs ELSE users[i].roles
    BY <2>3, <2>4, WithRolesFacts
  <2>6. RowsOK'
    <3>1. \A i \in Ids : users'[i].roles \subseteq roles BY <2>3, <2>5 DEF RowsOK, RolesOf
    <3>2. granted' \subseteq UserIds \X RoleIds BY <1>1 DEF RowsOK
    <3>3. astray' \subseteq UserIds \X RoleIds /\ (ForeignKeys => astray' = {})
      BY <1>1 DEF RowsOK
    <3> QED BY <1>1, <2>5, <3>1, <3>2, <3>3, SameUsers
  <2>7. AssignmentKept'
    <3> SUFFICES ASSUME NEW g \in granted, g # <<id, r>>, g[1] \in Ids, g[2] \in roles
                 PROVE  g[2] \in users'[g[1]].roles
      BY <1>1, <2>5 DEF AssignmentKept, IsMember, RolesOf
    <3>1. g[2] \in users[g[1]].roles BY DEF AssignmentKept, IsMember, RolesOf
    <3>2. g = <<g[1], g[2]>> BY DEF RowsOK
    <3> QED BY <2>5, <3>1, <3>2 DEF RolesOf, rs
  <2> QED BY <1>2, <2>6, <2>7
<1> QED BY <1>3, <1>4

LEMMA SameRows ==
  ASSUME RowsInv, UNCHANGED <<users, nextUser, named, roles, astray, granted>>
  PROVE  RowsInv'
BY DEF RowsInv, RowsOK, GrantedBefore, AssignmentKept, Ids, IsMember, RolesOf

-----------------------------------------------------------------------------
(* What the threads hold *)

LEMMA SameThreads ==
  ASSUME ThreadsInv, UNCHANGED th, tokens' \subseteq tokens,
         calls' = calls \/ (calls < MaxCalls /\ calls' = calls + 1)
  PROVE  ThreadsInv'
<1>1. calls' \in 0 .. MaxCalls BY BoundAssumption DEF ThreadsInv
<1> QED BY <1>1 DEF ThreadsInv

LEMMA BeginThreads ==
  ASSUME RowsInv, ThreadsInv, UNCHANGED tokens, NEW t \in Threads,
         calls < MaxCalls, calls' = calls + 1,
         NEW pc \in {"login", "delete", "assign", "remove", "drop"},
         NEW id \in 0 .. MaxUsers, NEW r \in 0 .. MaxRoles, NEW held \in SUBSET RoleIds,
         held \subseteq DOMAIN named, pc \in {"login", "assign"} => id \in UserIds,
         pc = "assign" => r \in RoleIds, Begin(t, pc, id, r, held)
  PROVE  ThreadsInv'
<1> DEFINE names == {named[q] : q \in held}
           new == [pc |-> pc, user |-> id, role |-> r, held |-> held, names |-> names]
<1>1. th' = [th EXCEPT ![t] = new] BY DEF Begin
<1>2. names \in SUBSET AllNames BY NamedFacts DEF RowsInv
<1> HIDE DEF names
<1>3. new \in ThreadKind BY <1>2 DEF ThreadKind
<1>4. calls' \in 0 .. MaxCalls BY BoundAssumption DEF ThreadsInv
<1>5. th' \in [Threads -> ThreadKind] BY <1>1, <1>3 DEF ThreadsInv
<1>6. ASSUME NEW u \in Threads
      PROVE  /\ th'[u].pc \in {"login", "assign"} => th'[u].user \in UserIds
             /\ th'[u].pc = "assign" => th'[u].role \in RoleIds
  <2>1. CASE u = t
    <3>1. th'[u] = new BY <1>1, <2>1 DEF ThreadsInv
    <3> QED BY <3>1
  <2>2. CASE u # t
    <3>1. th'[u] = th[u] BY <1>1, <2>2 DEF ThreadsInv
    <3> QED BY <3>1 DEF ThreadsInv
  <2> QED BY <2>1, <2>2
<1> QED BY <1>4, <1>5, <1>6 DEF ThreadsInv

LEMMA FinishThreads ==
  ASSUME ThreadsInv, UNCHANGED calls, NEW t \in Threads, Finish(t),
         tokens' \subseteq TokenKind
  PROVE  ThreadsInv' /\ th'[t] = Idle
<1>1. th' = [th EXCEPT ![t] = Idle] BY DEF Finish
<1>2. Idle \in ThreadKind BY BoundAssumption DEF ThreadKind, Idle
<1>3. th' \in [Threads -> ThreadKind] /\ th'[t] = Idle BY <1>1, <1>2 DEF ThreadsInv
<1>4. ASSUME NEW u \in Threads
      PROVE  /\ th'[u].pc \in {"login", "assign"} => th'[u].user \in UserIds
             /\ th'[u].pc = "assign" => th'[u].role \in RoleIds
  <2>1. CASE u = t BY <1>3, <2>1 DEF Idle
  <2>2. CASE u # t
    <3>1. th'[u] = th[u] BY <1>1, <2>2 DEF ThreadsInv
    <3> QED BY <3>1 DEF ThreadsInv
  <2> QED BY <2>1, <2>2
<1> QED BY <1>3, <1>4 DEF ThreadsInv

\* Every request of the API, and every commit, of any thread.
LEMMA RequestStep ==
  ASSUME RowsInv, ThreadsInv, NEW t \in Threads, Request(t)
  PROVE  RowsInv' /\ ThreadsInv' /\ (nextUser' = nextUser \/ nextUser' = nextUser + 1)
         /\ \A u \in Threads \ {t} : th'[u] = th[u]
<1>1. CASE \E n \in Names : Register(t, n) \/ CreateUser(t, n)
  <2>1. PICK n \in Names : Register(t, n) BY <1>1 DEF CreateUser
  <2>2. RowsInv' BY <2>1, InsertUserRows DEF Register
  <2>3. ThreadsInv' BY <2>1, SameThreads DEF Register, Call
  <2> QED BY <2>1, <2>2, <2>3 DEF Register, InsertUser
<1>2. CASE \E id \in UserIds : LoginRead(t, id) \/ DeleteUserRead(t, id)
  <2>1. PICK id \in UserIds, pc \in {"login", "delete"} :
          /\ calls < MaxCalls /\ calls' = calls + 1
          /\ id \in Ids /\ Begin(t, pc, id, 0, RolesOf(id))
          /\ UNCHANGED <<users, nextUser, named, roles, astray, tokens, granted>>
    BY <1>2 DEF LoginRead, DeleteUserRead, Call
  <2>2. RowsInv' BY <2>1, SameRows
  <2>3. 0 \in 0 .. MaxRoles BY BoundAssumption
  <2>4. /\ id \in 0 .. MaxUsers /\ RolesOf(id) \in SUBSET RoleIds
        /\ RolesOf(id) \subseteq DOMAIN named
    BY <2>1, HeldFacts
  <2>5. ThreadsInv' BY <2>1, <2>3, <2>4, BeginThreads
  <2>6. \A u \in Threads \ {t} : th'[u] = th[u] BY <2>1 DEF Begin, ThreadsInv
  <2> QED BY <2>1, <2>2, <2>5, <2>6
<1>3. CASE \E id \in UserIds, r \in RoleIds : AssignRead(t, id, r) \/ RemoveRead(t, id, r)
  <2>1. PICK id \in UserIds, r \in RoleIds : AssignRead(t, id, r) \/ RemoveRead(t, id, r) BY <1>3
  <2>2. /\ calls < MaxCalls /\ calls' = calls + 1 /\ id \in Ids
        /\ UNCHANGED <<users, nextUser, named, roles, astray, tokens, granted>>
        /\ Begin(t, "assign", id, r, {}) \/ Begin(t, "remove", id, r, RolesOf(id))
    BY <2>1 DEF AssignRead, RemoveRead, Call, IsMember
  <2>3. RowsInv' BY <2>2, SameRows
  <2>4. r \in 0 .. MaxRoles BY BoundAssumption DEF RoleIds
  <2>5. /\ id \in 0 .. MaxUsers /\ RolesOf(id) \in SUBSET RoleIds
        /\ RolesOf(id) \subseteq DOMAIN named
    BY <2>2, HeldFacts
  <2>6. ThreadsInv' BY <2>2, <2>4, <2>5, BeginThreads
  <2>7. \A u \in Threads \ {t} : th'[u] = th[u] BY <2>2 DEF Begin, ThreadsInv
  <2> QED BY <2>2, <2>3, <2>6, <2>7
<1>4. CASE \E n \in AllNames, id \in RoleIds : CreateRole(t, n, id)
  <2>1. PICK n \in AllNames, id \in RoleIds : CreateRole(t, n, id) BY <1>4
  <2>2. RowsInv' BY <2>1, InsertRoleRows DEF CreateRole
  <2>3. ThreadsInv' BY <2>1, SameThreads DEF CreateRole, Call
  <2> QED BY <2>1, <2>2, <2>3 DEF CreateRole
<1>5. CASE \E r \in RoleIds : DeleteRoleRead(t, r)
  <2>1. PICK r \in RoleIds : /\ calls < MaxCalls /\ calls' = calls + 1
                             /\ Begin(t, "drop", 0, r, {})
                             /\ UNCHANGED <<users, nextUser, named, roles, astray, tokens, granted>>
    BY <1>5 DEF DeleteRoleRead, Call
  <2>2. RowsInv' BY <2>1, SameRows
  <2>3. r \in 0 .. MaxRoles /\ 0 \in 0 .. MaxUsers BY BoundAssumption DEF RoleIds
  <2>4. ThreadsInv' BY <2>1, <2>3, BeginThreads
  <2>5. \A u \in Threads \ {t} : th'[u] = th[u] BY <2>1 DEF Begin, ThreadsInv
  <2> QED BY <2>1, <2>2, <2>4, <2>5
<1> QED BY <1>1, <1>2, <1>3, <1>4, <1>5 DEF Request

LEMMA CommitStep ==
  ASSUME RowsInv, ThreadsInv, NEW t \in Threads, Commit(t)
  PROVE  /\ RowsInv' /\ ThreadsInv' /\ nextUser' = nextUser /\ th'[t] = Idle
         /\ \A u \in Threads \ {t} : th'[u] = th[u]
<1>1. /\ Finish(t) /\ UNCHANGED <<nextUser, calls>>
      /\ \A u \in Threads \ {t} : th'[u] = th[u]
  BY DEF Commit, IssueToken, DeleteUserCommit, AssignCommit, RemoveCommit, DeleteRoleCommit,
         Fail, Finish, ThreadsInv
<1>2. tokens' \subseteq TokenKind
  <2>1. CASE IssueToken(t)
    <3> DEFINE token == [user |-> th[t].user, roles |-> th[t].names]
    <3>1. tokens' = tokens \cup {token} BY <2>1 DEF IssueToken
    <3>2. th[t].user \in UserIds /\ th[t].names \subseteq AllNames
      BY <2>1 DEF IssueToken, ThreadsInv, ThreadKind
    <3>3. token \in TokenKind BY <3>2 DEF TokenKind
    <3> QED BY <3>1, <3>3 DEF ThreadsInv
  <2>2. CASE UNCHANGED tokens BY <2>2 DEF ThreadsInv
  <2> QED
    BY <2>1, <2>2
    DEF Commit, DeleteUserCommit, AssignCommit, RemoveCommit, DeleteRoleCommit, Fail
<1>3. ThreadsInv' /\ th'[t] = Idle BY <1>1, <1>2, FinishThreads
<1>4. RowsInv'
  <2>1. CASE IssueToken(t) BY <2>1, SameRows DEF IssueToken
  <2>2. CASE DeleteUserCommit(t) BY <2>2, EraseUserRows DEF DeleteUserCommit
  <2>3. CASE AssignCommit(t) BY <2>3, AssignRows
  <2>4. CASE RemoveCommit(t) BY <2>4, RemoveRows
  <2>5. CASE DeleteRoleCommit(t) BY <2>5, EraseRoleRows DEF DeleteRoleCommit
  <2>6. CASE Fail(t) BY <2>6, SameRows DEF Fail
  <2> QED BY <2>1, <2>2, <2>3, <2>4, <2>5, <2>6 DEF Commit
<1> QED BY <1>1, <1>3, <1>4

-----------------------------------------------------------------------------
(* The views *)

LEMMA CountFacts ==
  ASSUME RowsInv
  PROVE  /\ IsFiniteSet(Ids) /\ Cardinality(Ids) \in 0 .. MaxUsers
         /\ Cardinality(Ids) <= nextUser - 1 /\ nextUser - 1 \in 1 .. MaxUsers
         /\ nextUser - 1 \in Nat /\ Ids \subseteq UserIds
<1>1. nextUser - 1 \in Nat /\ nextUser - 1 <= MaxUsers /\ MaxUsers \in Nat /\ nextUser - 1 >= 1
  BY BoundAssumption DEF RowsInv, RowsOK
<1>2. IsFiniteSet(1 .. nextUser - 1) /\ Cardinality(1 .. nextUser - 1) = nextUser - 1
  <2>1. 1 \in Int /\ nextUser - 1 \in Int /\ ~(1 > nextUser - 1) /\ nextUser - 1 - 1 + 1 = nextUser - 1
    BY <1>1
  <2>2. /\ IsFiniteSet(1 .. nextUser - 1)
        /\ Cardinality(1 .. nextUser - 1) = nextUser - 1 - 1 + 1
    BY <2>1, FS_Interval
  <2> QED BY <2>1, <2>2
<1>3. Ids \in SUBSET (1 .. nextUser - 1) BY DEF RowsInv, RowsOK
<1>4. IsFiniteSet(Ids) /\ Cardinality(Ids) <= Cardinality(1 .. nextUser - 1)
  BY <1>2, <1>3, FS_Subset
<1>5. Cardinality(Ids) \in Nat BY <1>4, FS_CardinalityType
<1>6. Ids \subseteq UserIds BY <1>1, <1>3 DEF UserIds
<1> QED BY <1>1, <1>2, <1>4, <1>5, <1>6

\* Users come, and their ids are new: there are no fewer pages.
LEMMA PagesGrow ==
  ASSUME RowsInv, nextUser' = nextUser \/ nextUser' = nextUser + 1
  PROVE  /\ nextUser - 1 <= nextUser' - 1
         /\ PagesFor(nextUser - 1) \in Nat /\ PagesFor(nextUser' - 1) \in Nat
         /\ PagesFor(nextUser - 1) <= PagesFor(nextUser' - 1)
<1>1. nextUser - 1 \in Nat /\ nextUser' - 1 \in Nat /\ nextUser - 1 <= nextUser' - 1
  BY CountFacts DEF RowsInv, RowsOK
<1> QED BY <1>1, PagesForFacts

\* The view is not concerned: another thread, or an expiring token.
LEMMA PaneKept ==
  ASSUME RowsInv, PaneInv, UNCHANGED pane, th'[Loop] = th[Loop],
         nextUser' = nextUser \/ nextUser' = nextUser + 1
  PROVE  PaneInv'
<1>1. /\ nextUser - 1 <= nextUser' - 1 /\ nextUser - 1 \in Nat /\ nextUser' - 1 \in Nat
      /\ PagesFor(nextUser - 1) \in Nat /\ PagesFor(nextUser' - 1) \in Nat
      /\ PagesFor(nextUser - 1) <= PagesFor(nextUser' - 1)
  BY PagesGrow, CountFacts DEF RowsInv, RowsOK
<1>2. pane.total \in Nat /\ pane.cur \in Nat BY DEF PaneInv, Panes
<1>3. pane.total <= nextUser' - 1 BY <1>1, <1>2 DEF PaneInv
<1>4. pane.cur = 1 \/ pane.cur <= PagesFor(nextUser' - 1) BY <1>1, <1>2 DEF PaneInv
<1> HIDE DEF PagesFor
<1> QED BY <1>3, <1>4 DEF PaneInv

\* A handler that ends by loading a page of users.
LEMMA RefreshPane ==
  ASSUME RowsInv, PaneInv, pane.view = "users", th'[Loop] = Idle,
         nextUser' = nextUser \/ nextUser' = nextUser + 1,
         NEW p \in 1 .. MaxUsers + 1, p = 1 \/ p <= PagesFor(nextUser - 1),
         NEW form \in BOOLEAN, pane' = Refreshing(p, form)
  PROVE  PaneInv'
<1>1. /\ nextUser - 1 <= nextUser' - 1 /\ nextUser - 1 \in Nat /\ nextUser' - 1 \in Nat
      /\ PagesFor(nextUser - 1) \in Nat /\ PagesFor(nextUser' - 1) \in Nat
      /\ PagesFor(nextUser - 1) <= PagesFor(nextUser' - 1)
  BY PagesGrow, CountFacts DEF RowsInv, RowsOK
<1>2. pane \in Panes /\ pane.total \in Nat BY DEF PaneInv, Panes
<1>3. /\ pane' \in Panes /\ pane'.view = "users" /\ pane'.at = "count" /\ pane'.cur = p
      /\ pane'.total = pane.total /\ pane'.rows = pane.rows
  BY <1>2 DEF Refreshing, Panes
<1>4. pane'.total <= nextUser' - 1 BY <1>1, <1>2, <1>3 DEF PaneInv
<1>5. p = 1 \/ p <= PagesFor(nextUser' - 1) BY <1>1
<1>6. pane'.rows \subseteq UserIds BY <1>3 DEF PaneInv
<1> QED BY <1>3, <1>4, <1>5, <1>6 DEF PaneInv

\* The page "Next" leads to is one there is.
LEMMA NextPageFacts ==
  ASSUME RowsInv, PaneInv, pane.cur < PagesFor(pane.total)
  PROVE  pane.cur + 1 \in 1 .. MaxUsers + 1 /\ pane.cur + 1 <= PagesFor(nextUser - 1)
<1>1. /\ pane.total \in 0 .. MaxUsers /\ pane.cur \in Nat /\ pane.total <= nextUser - 1
      /\ nextUser - 1 \in Nat /\ MaxUsers \in Nat
  BY CountFacts, BoundAssumption DEF PaneInv, Panes
<1>2. /\ PagesFor(pane.total) \in Nat /\ PagesFor(pane.total) <= pane.total
      /\ PagesFor(pane.total) <= PagesFor(nextUser - 1) /\ PagesFor(nextUser - 1) \in Nat
  BY <1>1, PagesForFacts
<1> QED BY <1>1, <1>2

\* Clicks that only lead to another page, or to the same one afresh.
LEMMA PageStep ==
  ASSUME IInv, Prev \/ NextPage \/ Search \/ ToggleForm
  PROVE  IInv'
<1> USE DEF IInv
<1>1. /\ pane.view = "users" /\ pane.at = "ready" /\ calls < MaxCalls /\ calls' = calls + 1
      /\ UNCHANGED <<users, nextUser, named, roles, astray, tokens, th, granted>>
  BY DEF Prev, NextPage, Search, ToggleForm, Click
<1>2. RowsInv' BY <1>1, SameRows
<1>3. ThreadsInv' BY <1>1, SameThreads
<1>4. /\ th'[Loop] = Idle /\ pane.cur \in 1 .. MaxUsers + 1 /\ pane.form \in BOOLEAN
      /\ MaxUsers \in Nat /\ PagesFor(nextUser - 1) \in Nat
  BY <1>1, BoundAssumption, CountFacts, PagesForFacts DEF PaneInv, Panes
<1>5. PaneInv'
  <2>1. CASE Prev
    <3>1. pane.cur > 1 /\ pane' = Refreshing(pane.cur - 1, pane.form) BY <2>1 DEF Prev
    <3>2. pane.cur - 1 \in 1 .. MaxUsers + 1 /\ pane.cur - 1 <= PagesFor(nextUser - 1)
      BY <1>4, <3>1 DEF PaneInv
    <3> QED BY <1>1, <1>4, <3>1, <3>2, RefreshPane
  <2>2. CASE NextPage
    <3>1. pane.cur < PagesFor(pane.total) /\ pane' = Refreshing(pane.cur + 1, pane.form)
      BY <2>2 DEF NextPage
    <3> QED BY <1>1, <1>4, <3>1, NextPageFacts, RefreshPane
  <2>3. CASE Search BY <1>1, <1>4, <2>3, RefreshPane DEF Search, PaneInv
  <2>4. CASE ToggleForm BY <1>1, <1>4, <2>4, RefreshPane DEF ToggleForm, PaneInv
  <2> QED BY <2>1, <2>2, <2>3, <2>4
<1> QED BY <1>2, <1>3, <1>5

LEMMA OpenStep == ASSUME IInv, OpenUsers \/ OpenRoles PROVE IInv'
<1> USE DEF IInv
<1>1. /\ pane.at = "ready" /\ calls < MaxCalls /\ calls' = calls + 1
      /\ UNCHANGED <<users, nextUser, named, roles, astray, tokens, th, granted>>
      /\ \/ pane' = [NoPane EXCEPT !.view = "users", !.at = "count"]
         \/ pane' = [NoPane EXCEPT !.view = "roles", !.at = "list"]
  BY DEF OpenUsers, OpenRoles
<1>2. RowsInv' BY <1>1, SameRows
<1>3. ThreadsInv' BY <1>1, SameThreads
<1>4. /\ pane' \in Panes /\ pane'.cur = 1 /\ pane'.total = 0 /\ pane'.rows = {}
      /\ \/ pane'.view = "users" /\ pane'.at = "count"
         \/ pane'.view = "roles" /\ pane'.at = "list"
  <2>1. 1 \in 1 .. MaxUsers + 1 /\ 0 \in 0 .. MaxUsers + 1 /\ 0 \in 0 .. MaxUsers
    BY BoundAssumption
  <2> QED BY <1>1, <2>1 DEF NoPane, Panes
<1>5. 0 <= nextUser' - 1 BY <1>1, CountFacts
<1>6. th'[Loop] = Idle BY <1>1 DEF PaneInv
<1>7. PaneInv' BY <1>4, <1>5, <1>6 DEF PaneInv
<1> QED BY <1>2, <1>3, <1>7

LEMMA CountStep == ASSUME IInv, Count PROVE IInv'
<1> USE DEF IInv
<1>1. /\ pane.at = "count" /\ pane' = [pane EXCEPT !.at = "rows", !.total = Cardinality(Ids)]
      /\ UNCHANGED <<users, nextUser, named, roles, astray, tokens, th, granted, calls>>
  BY DEF Count, vars
<1>2. RowsInv' BY <1>1, SameRows
<1>3. ThreadsInv' BY <1>1, SameThreads
<1> DEFINE c == Cardinality(Ids)
<1>4. c \in 0 .. MaxUsers /\ c <= nextUser - 1 BY CountFacts
<1>5. pane' = [pane EXCEPT !.at = "rows", !.total = c] BY <1>1
<1> HIDE DEF c
<1>6. /\ pane' \in Panes /\ pane'.at = "rows" /\ pane'.view = pane.view
      /\ pane'.total = c /\ pane'.cur = pane.cur /\ pane'.rows = pane.rows
  BY <1>4, <1>5 DEF PaneInv, Panes
<1>7. PagesFor(nextUser - 1)' = PagesFor(nextUser - 1) BY <1>1 DEF PagesFor
<1>8. PaneInv' BY <1>1, <1>4, <1>6, <1>7 DEF PaneInv
<1> QED BY <1>2, <1>3, <1>8

\* The rows of a page are of the users there are.
LEMMA ShowStep == ASSUME IInv, Rows \/ List PROVE IInv'
<1> USE DEF IInv
<1>1. UNCHANGED <<users, nextUser, named, roles, astray, tokens, th, granted, calls>>
  BY DEF Rows, List, vars
<1>2. RowsInv' BY <1>1, SameRows
<1>3. ThreadsInv' BY <1>1, SameThreads
<1>4. UserIds \subseteq Nat /\ RoleIds \subseteq Nat BY BoundAssumption DEF UserIds, RoleIds
<1>5. PagesFor(nextUser - 1)' = PagesFor(nextUser - 1) BY <1>1 DEF PagesFor
<1>6. CASE Rows
  <2> DEFINE rows == PageRows(pane.cur)
  <2>1. rows \subseteq UserIds BY CountFacts DEF PageRows
  <2>2. pane' = [pane EXCEPT !.at = "ready", !.page = pane.cur, !.rows = rows] BY <1>6 DEF Rows
  <2> HIDE DEF rows
  <2>3. pane.cur \in 0 .. MaxUsers + 1 BY BoundAssumption DEF PaneInv, Panes
  <2>4. /\ pane' \in Panes /\ pane'.at = "ready" /\ pane'.view = pane.view
        /\ pane'.total = pane.total /\ pane'.cur = pane.cur /\ pane'.rows = rows
    BY <1>4, <2>1, <2>2, <2>3 DEF PaneInv, Panes
  <2>5. pane.view = "users" /\ pane.at = "rows" BY <1>6 DEF Rows, PaneInv
  <2>6. PaneInv' BY <1>1, <1>5, <2>1, <2>4, <2>5 DEF PaneInv
  <2> QED BY <1>2, <1>3, <2>6
<1>7. CASE List
  <2>1. roles \subseteq RoleIds BY NamedFacts DEF RowsInv
  <2>2. pane.at = "list" /\ pane' = [pane EXCEPT !.at = "ready", !.rows = roles] BY <1>7 DEF List
  <2>3. /\ pane' \in Panes /\ pane'.at = "ready" /\ pane'.view = pane.view
        /\ pane'.total = pane.total /\ pane'.cur = pane.cur /\ pane'.rows = roles
    BY <1>4, <2>1, <2>2 DEF PaneInv, Panes
  <2>4. PaneInv' BY <1>1, <1>5, <2>1, <2>2, <2>3 DEF PaneInv
  <2> QED BY <1>2, <1>3, <2>4
<1> QED BY <1>6, <1>7

LEMMA AddUserStep == ASSUME IInv, NEW n \in Names, AddUser(n) PROVE IInv'
<1> USE DEF IInv
<1>1. /\ pane.view = "users" /\ pane.at = "ready" /\ calls < MaxCalls /\ calls' = calls + 1
      /\ pane' = Refreshing(pane.cur, FALSE)
      /\ InsertUser(n) \/ UNCHANGED <<users, nextUser>>
      /\ UNCHANGED <<named, roles, astray, tokens, th, granted>>
  BY DEF AddUser, Click
<1>2. RowsInv' BY <1>1, SameRows, InsertUserRows
<1>3. ThreadsInv' BY <1>1, SameThreads
<1>4. nextUser' = nextUser \/ nextUser' = nextUser + 1 BY <1>1 DEF InsertUser
<1>5. /\ th'[Loop] = Idle /\ pane.cur \in 1 .. MaxUsers + 1
      /\ pane.cur = 1 \/ pane.cur <= PagesFor(nextUser - 1)
  BY <1>1 DEF PaneInv, Panes
<1>6. PaneInv' BY <1>1, <1>4, <1>5, RefreshPane
<1> QED BY <1>2, <1>3, <1>6

\* A handler that goes on in another stage, and changes nothing that is shown.
LEMMA StagePane ==
  ASSUME PaneInv, NEW at \in {"ready", "erase", "count", "list"}, pane' = [pane EXCEPT !.at = at],
         nextUser' = nextUser, (at = "erase") = (th'[Loop] # Idle),
         at = "count" => pane.view = "users", at = "list" => pane.view = "roles",
         at = "erase" => pane.view # "none"
  PROVE  PaneInv'
<1>1. /\ pane' \in Panes /\ pane'.at = at /\ pane'.view = pane.view
      /\ pane'.total = pane.total /\ pane'.cur = pane.cur /\ pane'.rows = pane.rows
  BY DEF PaneInv, Panes
<1>2. PagesFor(nextUser - 1)' = PagesFor(nextUser - 1) BY DEF PagesFor
<1> QED BY <1>1, <1>2 DEF PaneInv

LEMMA DeleteRowStep == ASSUME IInv, NEW id \in UserIds, DeleteRow(id) PROVE IInv'
<1> USE DEF IInv
<1>1. /\ pane.view = "users" /\ pane.at = "ready" /\ calls < MaxCalls /\ calls' = calls + 1
      /\ UNCHANGED <<users, nextUser, named, roles, astray, tokens, granted>>
  BY DEF DeleteRow, Click
<1>2. RowsInv' BY <1>1, SameRows
<1>3. CASE id \in Ids
  <2>1. Begin(Loop, "delete", id, 0, RolesOf(id)) /\ pane' = [pane EXCEPT !.at = "erase"]
    BY <1>3 DEF DeleteRow
  <2>2. /\ 0 \in 0 .. MaxRoles /\ id \in 0 .. MaxUsers /\ RolesOf(id) \in SUBSET RoleIds
        /\ RolesOf(id) \subseteq DOMAIN named /\ Loop \in Threads
    BY <1>3, HeldFacts, BoundAssumption, LoopAssumption
  <2>3. ThreadsInv' BY <1>1, <2>1, <2>2, BeginThreads
  <2>4. th'[Loop].pc = "delete" BY <2>1, <2>2 DEF Begin, ThreadsInv
  <2>5. th'[Loop] # Idle BY <2>4 DEF Idle
  <2>6. PaneInv' BY <1>1, <2>1, <2>5, StagePane
  <2> QED BY <1>2, <2>3, <2>6
<1>4. CASE id \notin Ids
  <2>1. pane' = Refreshing(pane.cur, pane.form) /\ UNCHANGED th BY <1>4 DEF DeleteRow
  <2>2. ThreadsInv' BY <1>1, <2>1, SameThreads
  <2>3. /\ th'[Loop] = Idle /\ pane.cur \in 1 .. MaxUsers + 1 /\ pane.form \in BOOLEAN
        /\ pane.cur = 1 \/ pane.cur <= PagesFor(nextUser - 1)
    BY <1>1, <2>1 DEF PaneInv, Panes
  <2>4. PaneInv' BY <1>1, <2>1, <2>3, RefreshPane
  <2> QED BY <1>2, <2>2, <2>4
<1> QED BY <1>3, <1>4

LEMMA AddRoleStep == ASSUME IInv, NEW n \in AllNames, AddRole(n) PROVE IInv'
<1> USE DEF IInv
<1>1. /\ pane.view = "roles" /\ pane.at = "ready" /\ calls < MaxCalls /\ calls' = calls + 1
      /\ InsertRole(n, Len(named) + 1) /\ pane' = [pane EXCEPT !.at = "list"]
      /\ UNCHANGED <<users, nextUser, astray, tokens, th, granted>>
  BY DEF AddRole
<1>2. RowsInv' BY <1>1, InsertRoleRows
<1>3. ThreadsInv' BY <1>1, SameThreads
<1>4. th'[Loop] = Idle BY <1>1 DEF PaneInv
<1>5. PaneInv' BY <1>1, <1>4, StagePane
<1> QED BY <1>2, <1>3, <1>5

LEMMA DropRowStep == ASSUME IInv, NEW r \in RoleIds, DropRow(r) PROVE IInv'
<1> USE DEF IInv
<1>1. /\ pane.view = "roles" /\ pane.at = "ready" /\ calls < MaxCalls /\ calls' = calls + 1
      /\ UNCHANGED <<users, nextUser, named, roles, astray, tokens, granted>>
  BY DEF DropRow, Click
<1>2. RowsInv' BY <1>1, SameRows
<1>3. CASE r \in roles
  <2>1. Begin(Loop, "drop", 0, r, {}) /\ pane' = [pane EXCEPT !.at = "erase"]
    BY <1>3 DEF DropRow
  <2>2. 0 \in 0 .. MaxUsers /\ r \in 0 .. MaxRoles /\ Loop \in Threads
    BY BoundAssumption, LoopAssumption DEF RoleIds
  <2>3. ThreadsInv' BY <1>1, <2>1, <2>2, BeginThreads
  <2>4. th'[Loop].pc = "drop" BY <2>1, <2>2 DEF Begin, ThreadsInv
  <2>5. th'[Loop] # Idle BY <2>4 DEF Idle
  <2>6. PaneInv' BY <1>1, <2>1, <2>5, StagePane
  <2> QED BY <1>2, <2>3, <2>6
<1>4. CASE r \notin roles
  <2>1. pane' = [pane EXCEPT !.at = "list"] /\ UNCHANGED th BY <1>4 DEF DropRow
  <2>2. ThreadsInv' BY <1>1, <2>1, SameThreads
  <2>3. th'[Loop] = Idle BY <1>1, <2>1 DEF PaneInv
  <2>4. PaneInv' BY <1>1, <2>1, <2>3, StagePane
  <2> QED BY <1>2, <2>2, <2>4
<1> QED BY <1>3, <1>4

LEMMA ErasedStep == ASSUME IInv, Erased PROVE IInv'
<1> USE DEF IInv
<1> DEFINE at == IF pane.view = "users" THEN "count" ELSE "list"
<1>1. Commit(Loop) /\ Loop \in Threads /\ pane.at = "erase" /\ pane' = [pane EXCEPT !.at = at]
  BY LoopAssumption DEF Erased, Commit
<1>2. RowsInv' /\ ThreadsInv' /\ nextUser' = nextUser /\ th'[Loop] = Idle BY <1>1, CommitStep
<1>3. at \in {"count", "list"} /\ (at = "count" => pane.view = "users")
      /\ (at = "list" => pane.view = "roles")
  BY <1>1 DEF PaneInv, Panes
<1> HIDE DEF at
<1>4. PaneInv' BY <1>1, <1>2, <1>3, StagePane
<1> QED BY <1>2, <1>4

LEMMA DropFailsStep == ASSUME IInv, DropFails PROVE IInv'
<1> USE DEF IInv
<1>1. Commit(Loop) /\ Loop \in Threads /\ pane' = [pane EXCEPT !.at = "ready"]
  BY LoopAssumption DEF DropFails, Commit
<1>2. RowsInv' /\ ThreadsInv' /\ nextUser' = nextUser /\ th'[Loop] = Idle BY <1>1, CommitStep
<1>3. PaneInv' BY <1>1, <1>2, StagePane
<1> QED BY <1>2, <1>3

-----------------------------------------------------------------------------
(* Every reachable state *)

LEMMA InitIInv == ManageInit => IInv
<1> SUFFICES ASSUME ManageInit PROVE IInv OBVIOUS
<1> DEFINE root == [name |-> Root, roles |-> {1}]
<1>1. /\ users = [id \in {1} |-> root] /\ nextUser = 2 /\ named = <<"admin">> /\ roles = {1}
      /\ astray = {} /\ tokens = {} /\ th = [t \in Threads |-> Idle] /\ calls = 0 /\ granted = {<<1, 1>>}
      /\ pane = NoPane
  BY DEF ManageInit, Init
<1>2. 1 \in UserIds /\ 1 \in RoleIds /\ 1 <= MaxRoles /\ 2 \in 2 .. MaxUsers + 1
  BY BoundAssumption DEF UserIds, RoleIds
<1>3. /\ Ids = {1} /\ users[1] = root /\ RolesOf(1) = {1} /\ root.name = Root
  BY <1>1 DEF Ids, RolesOf
<1>4. root \in UserRows BY <1>2, RootAssumption DEF UserRows
<1>5. users \in [Ids -> UserRows] BY <1>1, <1>3, <1>4
<1> HIDE DEF root
<1>6. /\ named \in Seq(AllNames) /\ Len(named) = 1 /\ DOMAIN named = {1}
  <2>1. "admin" \in AllNames BY DEF AllNames
  <2> QED BY <1>1, <2>1
<1>7. Ids \subseteq 1 .. nextUser - 1 BY <1>1, <1>3
<1>8. RowsOK BY <1>1, <1>2, <1>3, <1>5, <1>6, <1>7 DEF RowsOK
<1>9. GrantedBefore BY <1>1, <1>6 DEF GrantedBefore
<1>10. AssignmentKept BY <1>1, <1>3 DEF AssignmentKept, IsMember
<1>11. ThreadsInv
  <2>1. Idle \in ThreadKind BY BoundAssumption DEF Idle, ThreadKind
  <2>2. th \in [Threads -> ThreadKind] BY <1>1, <2>1
  <2>3. \A t \in Threads : th[t] = Idle /\ Idle.held = {} /\ Idle.pc = "idle"
    BY <1>1 DEF Idle
  <2>4. calls \in 0 .. MaxCalls BY <1>1, BoundAssumption
  <2> QED BY <1>1, <2>2, <2>3, <2>4 DEF ThreadsInv
<1>12. PaneInv
  <2>1. 1 \in 1 .. MaxUsers + 1 /\ 0 \in 0 .. MaxUsers + 1 /\ 0 \in 0 .. MaxUsers
    BY BoundAssumption
  <2>2. pane \in Panes BY <1>1, <2>1 DEF NoPane, Panes
  <2>3. /\ pane.view = "none" /\ pane.at = "ready" /\ pane.rows = {} /\ pane.total = 0
        /\ pane.cur = 1
    BY <1>1 DEF NoPane
  <2>4. th[Loop] = Idle BY <1>1, LoopAssumption
  <2> QED BY <1>1, <2>2, <2>3, <2>4 DEF PaneInv
<1> QED BY <1>8, <1>9, <1>10, <1>11, <1>12 DEF IInv, RowsInv

LEMMA HandlerStep == ASSUME IInv, Handler PROVE IInv'
BY OpenStep, PageStep, AddUserStep, DeleteRowStep, AddRoleStep, DropRowStep, CountStep, ShowStep,
   ErasedStep, DropFailsStep
DEF Handler

LEMMA NextIInv == IInv /\ [ManageNext]_manageVars => IInv'
<1> SUFFICES ASSUME IInv, [ManageNext]_manageVars PROVE IInv' OBVIOUS
<1> USE DEF IInv
<1>1. CASE Handler BY <1>1, HandlerStep
<1>2. CASE (\E t \in Threads \ {Loop} : Request(t) \/ Commit(t)) /\ UNCHANGED pane
  <2>1. PICK t \in Threads \ {Loop} : Request(t) \/ Commit(t) BY <1>2
  <2>2. /\ RowsInv' /\ ThreadsInv' /\ (nextUser' = nextUser \/ nextUser' = nextUser + 1)
        /\ th'[Loop] = th[Loop]
    BY <2>1, RequestStep, CommitStep, LoopAssumption
  <2> QED BY <1>2, <2>2, PaneKept
<1>3. CASE (\E token \in tokens : Expire(token)) /\ UNCHANGED pane
  <2>1. /\ UNCHANGED <<users, nextUser, named, roles, astray, th, calls, granted, pane>>
        /\ tokens' \subseteq tokens
    BY <1>3 DEF Expire
  <2> QED BY <2>1, SameRows, SameThreads, PaneKept
<1>4. CASE UNCHANGED manageVars
  <2>1. UNCHANGED <<users, nextUser, named, roles, astray, tokens, th, calls, granted, pane>>
    BY <1>4 DEF manageVars
  <2> QED BY <2>1, SameRows, SameThreads, PaneKept
<1> QED BY <1>1, <1>2, <1>3, <1>4 DEF ManageNext

LEMMA IInvHolds == ManageSpec => []IInv
<1>1. ManageInit => IInv BY InitIInv
<1>2. IInv /\ [ManageNext]_manageVars => IInv' BY NextIInv
<1> QED BY <1>1, <1>2, PTL DEF ManageSpec

\* Names are unique, a user's roles are roles there are, and where the database
\* enforces foreign keys no row of user_roles points to a user or a role that is
\* gone, whichever requests and clicks delete, assign and remove at the same time.
THEOREM TypeCorrect == ManageSpec => []ManageTypeOK
<1>1. IInv => ManageTypeOK
  <2> SUFFICES ASSUME IInv PROVE ManageTypeOK OBVIOUS
  <2>1. TypeOK BY DEF IInv, RowsInv, RowsOK, ThreadsInv, ThreadKind, TypeOK
  <2> QED BY <2>1 DEF IInv, PaneInv, ManageTypeOK
<1> QED BY <1>1, IInvHolds, PTL

\* An assignment that was answered with success is kept.
THEOREM Assigned == ManageSpec => []AssignmentKept
<1>1. IInv => AssignmentKept BY DEF IInv, RowsInv
<1> QED BY <1>1, IInvHolds, PTL

\* The first page of the users there are has somebody on it.
LEMMA FirstPage == ASSUME RowsInv, Ids # {} PROVE PageRows(1) # {}
<1>1. IsFiniteSet(Ids) /\ Ids \subseteq Nat BY CountFacts DEF RowsInv, RowsOK
<1>2. PICK x \in Ids : {i \in Ids : i < x} = {} BY <1>1, FirstUser
<1>3. Place(x) = 0 BY <1>2, FS_EmptySet DEF Place
<1>4. (1 - 1) * PageSize = 0 /\ 1 * PageSize = PageSize /\ 0 < PageSize BY LoopAssumption
<1>5. x \in PageRows(1) BY <1>3, <1>4 DEF PageRows
<1> QED BY <1>5

\* A page that was loaded leaves nobody stranded.
THEOREM Paging == ManageSpec => NeverStranded
<1> DEFINE Good ==
      /\ Ids # {} /\ pane'.rows = {} => pane'.page > 1
      /\ pane'.page > 1 => pane'.page <= PagesFor(nextUser - 1)
      /\ pane'.total > pane'.page * PageSize => pane'.page < PagesFor(pane'.total)
<1>1. ASSUME IInv, [ManageNext]_manageVars, pane.at = "rows", pane'.at = "ready"
      PROVE  Good
  <2>1. Rows
    <3>1. pane' # pane BY <1>1
    <3>2. Handler BY <1>1, <3>1 DEF ManageNext, manageVars
    <3> QED
      BY <1>1, <3>2
      DEF Handler, OpenUsers, OpenRoles, Prev, NextPage, Search, ToggleForm, AddUser, DeleteRow,
          AddRole, DropRow, Count, List, Erased, DropFails, Click
  <2>2. /\ pane'.page = pane.cur /\ pane'.rows = PageRows(pane.cur) /\ pane'.total = pane.total
        /\ pane.cur \in 1 .. MaxUsers + 1 /\ pane.total \in Nat
        /\ pane.cur = 1 \/ pane.cur <= PagesFor(nextUser - 1)
    BY <1>1, <2>1 DEF Rows, IInv, PaneInv, Panes
  <2>3. Ids # {} /\ pane'.rows = {} => pane'.page > 1
    <3> SUFFICES ASSUME Ids # {}, pane'.rows = {} PROVE pane.cur > 1 BY <2>2
    <3>1. pane.cur # 1 BY <1>1, <2>2, FirstPage DEF IInv
    <3> QED BY <2>2, <3>1, BoundAssumption
  <2>4. pane'.page > 1 => pane'.page <= PagesFor(nextUser - 1) BY <2>2
  <2>5. pane'.total > pane'.page * PageSize => pane'.page < PagesFor(pane'.total)
    <3>1. pane.cur \in Nat /\ pane.cur * PageSize \in Nat
      BY <2>2, BoundAssumption, LoopAssumption
    <3>2. pane.cur * PageSize < pane.total => pane.cur < PagesFor(pane.total)
      BY <2>2, <3>1, PagesForFacts
    <3> QED BY <2>2, <3>1, <3>2
  <2> QED BY <2>3, <2>4, <2>5
<1>2. IInv /\ [ManageNext]_manageVars
        => [pane.at = "rows" /\ pane'.at = "ready" => Good]_manageVars
  BY <1>1
<1> QED BY <1>2, IInvHolds, PTL DEF ManageSpec, NeverStranded
=============================================================================
