---------------------------- MODULE PasswordReset ----------------------------
(***************************************************************************)
(* forgot-password and reset-password: UserService.request_reset and       *)
(* reset_password, which look up, store and consume a token in separate    *)
(* transactions, run by the threads of the API server.                     *)
(*                                                                         *)
(* Abstracted: a token stands for its hash; a user has one email address;  *)
(* a password is known by the token with which it was set.  External: the  *)
(* mail server, the clock, and an administrator who deletes users.         *)
(***************************************************************************)
EXTENDS Naturals

CONSTANTS
  Threads,   \* threads of the server's pool
  Users,
  NoUser,    \* an address nobody registered
  Tokens,    \* values of secrets.token_hex(32): bounds the requests
  NoToken,   \* a token that was never issued; no token
  TTL,       \* lifetime of a token, in ticks of the clock
  MaxTime,   \* bounds the clock
  Cascade,   \* whether the database enforces ON DELETE CASCADE
  Faults     \* "mail": sending fails, "db": the database raises at any step,
             \* or hash_password does, "crash": the server dies at any step

ASSUME NullAssumption  == NoUser \notin Users /\ NoToken \notin Tokens
ASSUME TimeAssumption  == TTL \in Nat \ {0} /\ MaxTime \in Nat
ASSUME FlagAssumption  == Cascade \in BOOLEAN /\ Faults \subseteq {"mail", "db", "crash"}

VARIABLES
  now,      \* the clock
  users,    \* rows of the users table
  rows,     \* rows of password_reset_tokens
  owner,    \* per token: user_id of its row, also when the row is gone
  expires,  \* per token: expires_at of its row
  used,     \* tokens whose row has a used_at
  inbox,    \* tokens that were mailed to their owner
  changes,  \* history, per token: how many passwords it has set
  cut,      \* history: tokens whose call failed right after it consumed them
  spent,    \* history: tokens for which mark_used has been called
  late,     \* history: threads whose last reset began when its token was spent
  pc,       \* per thread: the next step of its call
  user,     \* per thread: the user its call found
  token     \* per thread: the token its call is about

tokenVars == <<rows, owner, expires, used>>
callVars  == <<user, token>>
history  == <<changes, cut, spent, late>>
vars == <<now, users, rows, owner, expires, used, inbox,
          changes, cut, spent, late, pc, user, token>>

Pcs == {"idle", "find_user", "create_token", "send", "find_valid", "mark_used", "update"}

TypeOK ==
  /\ now \in 0 .. MaxTime
  /\ users \in SUBSET Users
  /\ rows \in SUBSET Tokens
  /\ owner \in [Tokens -> Users \cup {NoUser}]
  /\ expires \in [Tokens -> 0 .. MaxTime + TTL]
  /\ used \in SUBSET Tokens
  /\ inbox \in SUBSET Tokens
  /\ changes \in [Tokens -> Nat]
  /\ cut \in SUBSET Tokens
  /\ spent \in SUBSET Tokens
  /\ late \in SUBSET Threads
  /\ pc \in [Threads -> Pcs]
  /\ user \in [Threads -> Users \cup {NoUser}]
  /\ token \in [Threads -> Tokens \cup {NoToken}]

Init ==
  /\ now = 0
  /\ users = Users
  /\ rows = {} /\ used = {} /\ inbox = {}
  /\ cut = {} /\ spent = {} /\ late = {}
  /\ owner = [k \in Tokens |-> NoUser]
  /\ expires = [k \in Tokens |-> 0]
  /\ changes = [k \in Tokens |-> 0]
  /\ pc = [t \in Threads |-> "idle"]
  /\ user = [t \in Threads |-> NoUser]
  /\ token = [t \in Threads |-> NoToken]

Goto(t, l) == pc' = [pc EXCEPT ![t] = l]

-----------------------------------------------------------------------------
(* request_reset *)

ForgotPassword(t, u) ==
  /\ pc[t] = "idle"
  /\ user' = [user EXCEPT ![t] = u]
  /\ Goto(t, "find_user")
  /\ UNCHANGED <<now, users, tokenVars, inbox, history, token>>

\* filter_by(email=...): for an unknown address the answer is the generic one
FindUser(t) ==
  /\ pc[t] = "find_user"
  /\ Goto(t, IF user[t] \in users THEN "create_token" ELSE "idle")
  /\ UNCHANGED <<now, users, tokenVars, inbox, history, callVars>>

\* Mutant of CreateToken: user_id is not a foreign key.
CreateLoose(t) ==
  /\ pc[t] = "create_token"
  /\ \E k \in {x \in Tokens : owner[x] = NoUser} :
       /\ rows' = rows \cup {k}
       /\ owner' = [owner EXCEPT ![k] = user[t]]
       /\ expires' = [expires EXCEPT ![k] = now + TTL]
       /\ token' = [token EXCEPT ![t] = k]
  /\ Goto(t, "send")
  /\ UNCHANGED <<now, users, used, inbox, history, user>>

\* Mutant of CreateToken: the lifetime is off by one.
CreateStale(t) ==
  /\ pc[t] = "create_token"
  /\ user[t] \in users \/ ~Cascade
  /\ \E k \in {x \in Tokens : owner[x] = NoUser} :
       /\ rows' = rows \cup {k}
       /\ owner' = [owner EXCEPT ![k] = user[t]]
       /\ expires' = [expires EXCEPT ![k] = now + TTL + 1]
       /\ token' = [token EXCEPT ![t] = k]
  /\ Goto(t, "send")
  /\ UNCHANGED <<now, users, used, inbox, history, user>>

\* create_for_user: a row of its own; the user may be gone by now, which only a
\* database with foreign keys notices
CreateToken(t) ==
  /\ pc[t] = "create_token"
  /\ user[t] \in users \/ ~Cascade
  /\ \E k \in {x \in Tokens : owner[x] = NoUser} :
       /\ rows' = rows \cup {k}
       /\ owner' = [owner EXCEPT ![k] = user[t]]
       /\ expires' = [expires EXCEPT ![k] = now + TTL]
       /\ token' = [token EXCEPT ![t] = k]
  /\ Goto(t, "send")
  /\ UNCHANGED <<now, users, used, inbox, history, user>>

\* IntegrityError: the call fails, and the route answers 200 all the same
CreateTokenFails(t) ==
  /\ pc[t] = "create_token"
  /\ user[t] \notin users /\ Cascade
  /\ Goto(t, "idle")
  /\ UNCHANGED <<now, users, tokenVars, inbox, history, callVars>>

\* the token is stored before the mail is sent: it stays when that fails
Send(t) ==
  /\ pc[t] = "send"
  /\ \/ inbox' = inbox \cup {token[t]}
     \/ "mail" \in Faults /\ UNCHANGED inbox
  /\ Goto(t, "idle")
  /\ UNCHANGED <<now, users, tokenVars, history, callVars>>

-----------------------------------------------------------------------------
(* reset_password *)

ResetPassword(t, k) ==
  /\ pc[t] = "idle"
  /\ token' = [token EXCEPT ![t] = k]
  /\ Goto(t, "find_valid")
  /\ late' = IF k \in spent THEN late \cup {t} ELSE late \ {t}
  /\ UNCHANGED <<now, users, tokenVars, inbox, changes, cut, spent, user>>

Valid(k) == k \in rows \ used /\ expires[k] > now

\* Mutant of FindValid: the token is consumed before new_password is looked at.
FindAndMark(t) ==
  /\ pc[t] = "find_valid"
  /\ IF Valid(token[t])
     THEN used' = used \cup {token[t]} ELSE UNCHANGED used
  /\ \/ /\ Valid(token[t])
        /\ user' = [user EXCEPT ![t] = owner[token[t]]]
        /\ Goto(t, "mark_used")
     \/ UNCHANGED user /\ Goto(t, "idle")
  /\ UNCHANGED <<now, users, rows, owner, expires, inbox, history, token>>

\* no valid row, or no new password in the request: the call fails
FindValid(t) ==
  /\ pc[t] = "find_valid"
  /\ \/ /\ Valid(token[t])
        /\ user' = [user EXCEPT ![t] = owner[token[t]]]
        /\ Goto(t, "mark_used")
     \/ UNCHANGED user /\ Goto(t, "idle")
  /\ UNCHANGED <<now, users, tokenVars, inbox, history, token>>

\* Mutant of MarkUsed: the row is found, but used_at is not written.
MarkUsedUnwritten(t) ==
  /\ pc[t] = "mark_used"
  /\ spent' = spent \cup {token[t]}
  /\ Goto(t, "update")
  /\ UNCHANGED <<now, users, tokenVars, inbox, changes, cut, late, callVars>>

\* mark_used: its answer, whether the row still exists, is not looked at
MarkUsed(t) ==
  /\ pc[t] = "mark_used"
  /\ used' = used \cup ({token[t]} \cap rows)
  /\ spent' = spent \cup {token[t]}
  /\ Goto(t, "update")
  /\ UNCHANGED <<now, users, rows, owner, expires, inbox, changes, cut, late, callVars>>

\* UserRepository.update: a user who is gone is not an error either
Update(t) ==
  /\ pc[t] = "update"
  /\ changes' = IF user[t] \in users THEN [changes EXCEPT ![token[t]] = @ + 1] ELSE changes
  /\ Goto(t, "idle")
  /\ UNCHANGED <<now, users, tokenVars, inbox, cut, spent, late, callVars>>

\* Calls that have consumed their token and not yet set its password.
InBetween(calls) == {token[t] : t \in {x \in calls : pc[x] = "update"}}

\* The database raises (its connection is lost, the transaction is rolled back,
\* or its commit is not answered: then this follows the step), and so may
\* hash_password: the exception ends the call, and nothing undoes earlier steps.
Fails(t) ==
  /\ "db" \in Faults
  /\ pc[t] # "idle"
  /\ cut' = cut \cup InBetween({t})
  /\ Goto(t, "idle")
  /\ UNCHANGED <<now, users, tokenVars, inbox, changes, spent, late, callVars>>

-----------------------------------------------------------------------------
DeleteUser(u) ==
  /\ u \in users
  /\ users' = users \ {u}
  /\ rows' = IF Cascade THEN {k \in rows : owner[k] # u} ELSE rows
  /\ used' = used \cap rows'
  /\ UNCHANGED <<now, owner, expires, inbox, history, pc, callVars>>

Tick ==
  /\ now < MaxTime
  /\ now' = now + 1
  /\ UNCHANGED <<users, tokenVars, inbox, history, pc, callVars>>

Crash ==
  /\ "crash" \in Faults
  /\ pc' = [t \in Threads |-> "idle"]
  /\ cut' = cut \cup InBetween(Threads)
  /\ UNCHANGED <<now, users, tokenVars, inbox, changes, spent, late, callVars>>

Next ==
  \/ \E t \in Threads :
       \/ FindUser(t) \/ CreateToken(t) \/ CreateTokenFails(t) \/ Send(t)
       \/ FindValid(t) \/ MarkUsed(t) \/ Update(t) \/ Fails(t)
       \/ \E u \in Users \cup {NoUser} : ForgotPassword(t, u)
       \/ \E k \in inbox \cup {NoToken} : ResetPassword(t, k)
  \/ \E u \in Users : DeleteUser(u)
  \/ Tick \/ Crash

Spec == Init /\ [][Next]_vars

-----------------------------------------------------------------------------
(* Properties *)

\* A token sets at most one password, whatever fails: reset_password consumes it
\* before it touches the user, to "prevent reuse even if password update fails".
\* Only requests one at a time get that: find_valid and mark_used are two
\* transactions, and two requests can both pass the first.
SingleUse == \A k \in Tokens : changes[k] <= 1

\* What requests in parallel get: a call that is about to use a token began
\* before any call had consumed it.  A second use of a token after a first one,
\* however many threads there are and whatever fails, is refused.
UsesOverlap == \A t \in late : pc[t] \notin {"mark_used", "update"}

\* A consumed token has set its password, or is about to, unless its user is
\* gone or the very next step of the call that consumed it failed: an exception
\* of hash_password or of the UPDATE, or a crash, leaves it spent for nothing.
UsedMeansSet ==
  \A k \in used :
    \/ changes[k] > 0
    \/ owner[k] \notin users
    \/ k \in cut
    \/ \E t \in Threads : pc[t] = "update" /\ token[t] = k

\* No token outlives its user: the ForeignKey with ondelete="CASCADE" of
\* PasswordResetToken.user_id, whatever request races with the deletion.
RowsHaveUsers == \A k \in rows : owner[k] \in users
=============================================================================
