------------------------- MODULE PasswordResetProofs -------------------------
(***************************************************************************)
(* Theorems about PasswordReset, for any number of threads, users, tokens  *)
(* and ticks of the clock.                                                 *)
(***************************************************************************)
EXTENDS PasswordReset, TLAPS

\* What a call knows at each of its steps, whatever the others have done.
CallsKnow ==
  \A t \in Threads :
    /\ pc[t] = "create_token" => user[t] \in Users
    /\ pc[t] = "send" => token[t] \in Tokens
    /\ pc[t] \in {"mark_used", "update"} =>
         token[t] \in Tokens /\ user[t] \in Users /\ owner[token[t]] = user[t]

\* A token that was issued is never issued again.
Issued ==
  /\ used \subseteq rows
  /\ \A k \in rows : owner[k] \in Users

IInv == TypeOK /\ CallsKnow /\ Issued

\* A database with foreign keys.
Referential == Cascade => RowsHaveUsers

\* A server that handles one request at a time.
OneThread == \A t1, t2 \in Threads : t1 = t2

\* A token that has set its password, or is about to, is no longer valid.
Spent ==
  /\ \A k \in Tokens : changes[k] \in {0, 1}
  /\ \A k \in Tokens : changes[k] = 1 => k \notin rows \ used /\ owner[k] \in Users
  /\ \A t \in Threads :
       /\ pc[t] \in {"mark_used", "update"} => changes[token[t]] = 0
       /\ pc[t] = "update" => token[t] \notin rows \ used

\* A token for which mark_used was called is never valid again, so a call that
\* begins with it after that does not get beyond find_valid.
SpentIsInvalid ==
  /\ \A k \in spent : k \notin rows \ used /\ owner[k] \in Users
  /\ \A t \in late : pc[t] = "find_valid" => token[t] \in spent

-----------------------------------------------------------------------------
LEMMA InitIInv == Init => IInv /\ Referential /\ UsedMeansSet /\ Spent
BY NullAssumption, TimeAssumption
   DEF Init, IInv, TypeOK, Pcs, CallsKnow, Issued, Referential, RowsHaveUsers,
       UsedMeansSet, Spent

\* One step of one thread or of the world around it, split into the actions.
LEMMA NextIInv == IInv /\ [Next]_vars => IInv'
<1> SUFFICES ASSUME IInv, [Next]_vars PROVE IInv'
  OBVIOUS
<1> USE NullAssumption, TimeAssumption DEF IInv, TypeOK, CallsKnow, Issued, Pcs, Goto
<1>1. ASSUME NEW t \in Threads, NEW u \in Users \cup {NoUser}, ForgotPassword(t, u)
      PROVE  IInv'
  BY <1>1 DEF ForgotPassword, history, tokenVars
<1>2. ASSUME NEW t \in Threads, FindUser(t) PROVE IInv'
  BY <1>2 DEF FindUser, history, tokenVars, callVars
<1>3. ASSUME NEW t \in Threads, CreateToken(t) PROVE IInv'
  <2>1. PICK k \in Tokens :
          /\ owner[k] = NoUser
          /\ rows' = rows \cup {k}
          /\ owner' = [owner EXCEPT ![k] = user[t]]
          /\ expires' = [expires EXCEPT ![k] = now + TTL]
          /\ token' = [token EXCEPT ![t] = k]
    BY <1>3 DEF CreateToken, history
  <2>2. now + TTL \in 0 .. MaxTime + TTL
    OBVIOUS
  <2>3. pc[t] = "create_token" /\ pc' = [pc EXCEPT ![t] = "send"] /\ user[t] \in Users
    BY <1>3 DEF CreateToken, history
  <2>4. TypeOK'
    BY <1>3, <2>1, <2>2, <2>3 DEF CreateToken, history
  <2>5. CallsKnow'
    BY <1>3, <2>1, <2>3 DEF CreateToken, history
  <2>6. Issued'
    BY <1>3, <2>1, <2>3 DEF CreateToken, history
  <2>7. QED
    BY <2>4, <2>5, <2>6
<1>4. ASSUME NEW t \in Threads, CreateTokenFails(t) PROVE IInv'
  BY <1>4 DEF CreateTokenFails, history, tokenVars, callVars
<1>5. ASSUME NEW t \in Threads, Send(t) PROVE IInv'
  BY <1>5 DEF Send, history, tokenVars, callVars
<1>6. ASSUME NEW t \in Threads, NEW k \in inbox \cup {NoToken}, ResetPassword(t, k)
      PROVE  IInv'
  BY <1>6 DEF ResetPassword, tokenVars
<1>7. ASSUME NEW t \in Threads, FindValid(t) PROVE IInv'
  BY <1>7 DEF FindValid, history, Valid, tokenVars
<1>8. ASSUME NEW t \in Threads, MarkUsed(t) PROVE IInv'
  BY <1>8 DEF MarkUsed, callVars
<1>9. ASSUME NEW t \in Threads, Update(t) PROVE IInv'
  BY <1>9 DEF Update, tokenVars, callVars
<1>10. ASSUME NEW u \in Users, DeleteUser(u) PROVE IInv'
  BY <1>10 DEF DeleteUser, history, callVars
<1>11. CASE Tick
  BY <1>11 DEF Tick, history, tokenVars, callVars
<1>12. CASE Crash
  BY <1>12 DEF Crash, InBetween, tokenVars, callVars
<1>13. CASE UNCHANGED vars
  BY <1>13 DEF vars, tokenVars, callVars
<1>14. ASSUME NEW t \in Threads, Fails(t) PROVE IInv'
  BY <1>14 DEF Fails, InBetween, tokenVars, callVars
<1>15. QED
  BY <1>1, <1>2, <1>3, <1>4, <1>5, <1>6, <1>7, <1>8, <1>9, <1>10, <1>11, <1>12,
     <1>13, <1>14 DEF Next

\* Only CreateToken adds a row and only DeleteUser takes a user away.
LEMMA NextReferential == IInv /\ Referential /\ [Next]_vars => Referential'
<1> SUFFICES ASSUME IInv, Cascade, RowsHaveUsers, [Next]_vars PROVE RowsHaveUsers'
  BY DEF Referential
<1> USE DEF RowsHaveUsers
<1>1. ASSUME NEW t \in Threads, CreateToken(t) PROVE RowsHaveUsers'
  BY <1>1 DEF CreateToken, IInv, TypeOK
<1>2. ASSUME NEW u \in Users, DeleteUser(u) PROVE RowsHaveUsers'
  BY <1>2 DEF DeleteUser
<1>3. CASE UNCHANGED <<users, rows, owner>>
  BY <1>3
<1>4. QED
  BY <1>1, <1>2, <1>3
     DEF Next, vars, tokenVars, callVars, ForgotPassword, FindUser,
         CreateTokenFails, Send, ResetPassword, FindValid, MarkUsed, Update, Fails,
         Tick, Crash

\* A token is consumed by a thread that goes on to set its password; the step
\* after that one sets it, unless the user is gone.
LEMMA NextKept == IInv /\ UsedMeansSet /\ [Next]_vars => UsedMeansSet'
<1> SUFFICES ASSUME IInv, UsedMeansSet, [Next]_vars PROVE UsedMeansSet'
  OBVIOUS
<1> USE NullAssumption DEF UsedMeansSet, Goto
<1>1. ASSUME NEW t \in Threads, NEW u \in Users \cup {NoUser}, ForgotPassword(t, u)
      PROVE  UsedMeansSet'
  BY <1>1 DEF ForgotPassword, history, tokenVars, IInv, TypeOK
<1>2. ASSUME NEW t \in Threads, FindUser(t) PROVE UsedMeansSet'
  BY <1>2 DEF FindUser, history, tokenVars, callVars, IInv, TypeOK
<1>3. ASSUME NEW t \in Threads, CreateToken(t) PROVE UsedMeansSet'
  BY <1>3 DEF CreateToken, history, IInv, TypeOK, Issued
<1>4. ASSUME NEW t \in Threads, CreateTokenFails(t) PROVE UsedMeansSet'
  BY <1>4 DEF CreateTokenFails, history, tokenVars, callVars, IInv, TypeOK
<1>5. ASSUME NEW t \in Threads, Send(t) PROVE UsedMeansSet'
  BY <1>5 DEF Send, history, tokenVars, callVars, IInv, TypeOK
<1>6. ASSUME NEW t \in Threads, NEW k \in inbox \cup {NoToken}, ResetPassword(t, k)
      PROVE  UsedMeansSet'
  BY <1>6 DEF ResetPassword, tokenVars, IInv, TypeOK
<1>7. ASSUME NEW t \in Threads, FindValid(t) PROVE UsedMeansSet'
  BY <1>7 DEF FindValid, history, tokenVars, IInv, TypeOK
<1>8. ASSUME NEW t \in Threads, MarkUsed(t) PROVE UsedMeansSet'
  BY <1>8 DEF MarkUsed, callVars, IInv, TypeOK
<1>9. ASSUME NEW t \in Threads, Update(t) PROVE UsedMeansSet'
  <2> SUFFICES ASSUME NEW k \in used
               PROVE  \/ changes'[k] > 0
                      \/ owner[k] \notin users
                      \/ k \in cut
                      \/ \E x \in Threads : pc'[x] = "update" /\ token[x] = k
    BY <1>9 DEF Update, tokenVars, callVars
  <2>1. k \in Tokens /\ changes[k] \in Nat /\ changes'[k] \in {changes[k], changes[k] + 1}
    BY <1>9 DEF Update, IInv, TypeOK
  <2>2. CASE changes[k] > 0
    BY <2>1, <2>2
  <2>3. CASE owner[k] \notin users \/ k \in cut
    BY <2>3
  <2>4. CASE \E x \in Threads : pc[x] = "update" /\ token[x] = k
    <3>1. PICK x \in Threads : pc[x] = "update" /\ token[x] = k
      BY <2>4
    <3>2. CASE x # t
      BY <1>9, <3>1, <3>2 DEF Update, IInv, TypeOK
    <3>3. CASE x = t /\ user[t] \in users
      BY <1>9, <2>1, <3>1, <3>3 DEF Update, IInv, TypeOK
    <3>4. CASE x = t /\ user[t] \notin users
      BY <3>1, <3>4 DEF IInv, CallsKnow
    <3>5. QED
      BY <3>2, <3>3, <3>4
  <2>5. QED
    BY <2>2, <2>3, <2>4
<1>10. ASSUME NEW u \in Users, DeleteUser(u) PROVE UsedMeansSet'
  BY <1>10 DEF DeleteUser, history, callVars, IInv, TypeOK
<1>11. CASE Tick
  BY <1>11 DEF Tick, history, tokenVars, callVars
<1>12. CASE Crash
  BY <1>12 DEF Crash, InBetween, tokenVars, callVars
<1>13. CASE UNCHANGED vars
  BY <1>13 DEF vars, tokenVars, callVars
<1>14. ASSUME NEW t \in Threads, Fails(t) PROVE UsedMeansSet'
  BY <1>14 DEF Fails, InBetween, tokenVars, callVars, IInv, TypeOK
<1>15. QED
  BY <1>1, <1>2, <1>3, <1>4, <1>5, <1>6, <1>7, <1>8, <1>9, <1>10, <1>11, <1>12,
     <1>13, <1>14 DEF Next

\* With one thread nothing runs between finding a token valid and consuming it.
LEMMA NextSpent ==
  ASSUME OneThread PROVE IInv /\ Spent /\ [Next]_vars => Spent'
<1> SUFFICES ASSUME IInv, Spent, [Next]_vars PROVE Spent'
  OBVIOUS
<1> USE NullAssumption DEF IInv, TypeOK, CallsKnow, Issued, Spent, Goto
<1>1. ASSUME NEW t \in Threads, NEW u \in Users \cup {NoUser}, ForgotPassword(t, u)
      PROVE  Spent'
  BY <1>1 DEF ForgotPassword, history, tokenVars
<1>2. ASSUME NEW t \in Threads, FindUser(t) PROVE Spent'
  BY <1>2 DEF FindUser, history, tokenVars, callVars
<1>3. ASSUME NEW t \in Threads, CreateToken(t) PROVE Spent'
  BY <1>3 DEF CreateToken, history
<1>4. ASSUME NEW t \in Threads, CreateTokenFails(t) PROVE Spent'
  BY <1>4 DEF CreateTokenFails, history, tokenVars, callVars
<1>5. ASSUME NEW t \in Threads, Send(t) PROVE Spent'
  BY <1>5 DEF Send, history, tokenVars, callVars
<1>6. ASSUME NEW t \in Threads, NEW k \in inbox \cup {NoToken}, ResetPassword(t, k)
      PROVE  Spent'
  BY <1>6 DEF ResetPassword, tokenVars
<1>7. ASSUME NEW t \in Threads, FindValid(t) PROVE Spent'
  BY <1>7 DEF FindValid, history, Valid, tokenVars
<1>8. ASSUME NEW t \in Threads, MarkUsed(t) PROVE Spent'
  BY <1>8 DEF MarkUsed, callVars
<1>9. ASSUME NEW t \in Threads, Update(t) PROVE Spent'
  <2>1. \A x \in Threads : x = t
    BY DEF OneThread
  <2>2. /\ pc[t] = "update" /\ pc' = [pc EXCEPT ![t] = "idle"]
        /\ UNCHANGED <<rows, owner, used, user, token>>
    BY <1>9 DEF Update, tokenVars, callVars
  <2>3. \A k \in Tokens : changes'[k] = changes[k] \/ (k = token[t] /\ changes'[k] = 1)
    <3>1. token[t] \in Tokens /\ changes[token[t]] = 0
      BY <2>2
    <3>2. changes' = changes \/ changes' = [changes EXCEPT ![token[t]] = 0 + 1]
      BY <1>9, <3>1 DEF Update
    <3>3. QED
      BY <3>1, <3>2
  <2>4. token[t] \in Tokens /\ token[t] \notin rows \ used /\ owner[token[t]] \in Users
    BY <2>2
  <2>5. \A x \in Threads : pc'[x] = "idle"
    BY <2>1, <2>2
  <2>6. /\ \A k \in Tokens : changes'[k] \in {0, 1}
        /\ \A k \in Tokens : changes'[k] = 1 =>
             k \notin rows' \ used' /\ owner'[k] \in Users
    BY <2>2, <2>3, <2>4
  <2>7. QED
    BY <2>5, <2>6
<1>10. ASSUME NEW u \in Users, DeleteUser(u) PROVE Spent'
  BY <1>10 DEF DeleteUser, history, callVars
<1>11. CASE Tick
  BY <1>11 DEF Tick, history, tokenVars, callVars
<1>12. CASE Crash
  BY <1>12 DEF Crash, InBetween, tokenVars, callVars
<1>13. CASE UNCHANGED vars
  BY <1>13 DEF vars, tokenVars, callVars
<1>14. ASSUME NEW t \in Threads, Fails(t) PROVE Spent'
  BY <1>14 DEF Fails, InBetween, tokenVars, callVars
<1>15. QED
  BY <1>1, <1>2, <1>3, <1>4, <1>5, <1>6, <1>7, <1>8, <1>9, <1>10, <1>11, <1>12,
     <1>13, <1>14 DEF Next

\* A call that passes find_valid began before its token was spent.
LEMMA NextOverlap ==
  IInv /\ SpentIsInvalid /\ UsesOverlap /\ [Next]_vars => SpentIsInvalid' /\ UsesOverlap'
<1> DEFINE Good == SpentIsInvalid /\ UsesOverlap
<1> SUFFICES ASSUME IInv, Good, [Next]_vars PROVE Good'
  OBVIOUS
<1> USE NullAssumption DEF IInv, TypeOK, CallsKnow, Issued, SpentIsInvalid, UsesOverlap, Goto
<1>1. ASSUME NEW t \in Threads, NEW u \in Users \cup {NoUser}, ForgotPassword(t, u)
      PROVE  Good'
  BY <1>1 DEF ForgotPassword, tokenVars, history
<1>2. ASSUME NEW t \in Threads, FindUser(t) PROVE Good'
  BY <1>2 DEF FindUser, tokenVars, callVars, history
<1>3. ASSUME NEW t \in Threads, CreateToken(t) PROVE Good'
  BY <1>3 DEF CreateToken, history
<1>4. ASSUME NEW t \in Threads, CreateTokenFails(t) PROVE Good'
  BY <1>4 DEF CreateTokenFails, tokenVars, callVars, history
<1>5. ASSUME NEW t \in Threads, Send(t) PROVE Good'
  BY <1>5 DEF Send, tokenVars, callVars, history
<1>6. ASSUME NEW t \in Threads, NEW k \in inbox \cup {NoToken}, ResetPassword(t, k)
      PROVE  Good'
  BY <1>6 DEF ResetPassword, tokenVars
<1>7. ASSUME NEW t \in Threads, FindValid(t) PROVE Good'
  BY <1>7 DEF FindValid, Valid, tokenVars, history
<1>8. ASSUME NEW t \in Threads, MarkUsed(t) PROVE Good'
  BY <1>8 DEF MarkUsed, callVars
<1>9. ASSUME NEW t \in Threads, Update(t) PROVE Good'
  BY <1>9 DEF Update, tokenVars, callVars
<1>10. ASSUME NEW u \in Users, DeleteUser(u) PROVE Good'
  BY <1>10 DEF DeleteUser, callVars, history
<1>11. CASE Tick
  BY <1>11 DEF Tick, tokenVars, callVars, history
<1>12. CASE Crash
  BY <1>12 DEF Crash, tokenVars, callVars
<1>13. CASE UNCHANGED vars
  BY <1>13 DEF vars, tokenVars, callVars
<1>14. ASSUME NEW t \in Threads, Fails(t) PROVE Good'
  BY <1>14 DEF Fails, tokenVars, callVars
<1>15. QED
  BY <1>1, <1>2, <1>3, <1>4, <1>5, <1>6, <1>7, <1>8, <1>9, <1>10, <1>11, <1>12,
     <1>13, <1>14 DEF Next

-----------------------------------------------------------------------------
\* Every reachable state satisfies the inductive invariant.
THEOREM Invariance == Spec => []IInv
<1>1. Init => IInv
  BY InitIInv
<1>2. IInv /\ [Next]_vars => IInv'
  BY NextIInv
<1>3. QED
  BY <1>1, <1>2, PTL DEF Spec

\* Type correctness.
THEOREM TypeCorrect == Spec => []TypeOK
<1>1. IInv => TypeOK
  BY DEF IInv
<1>2. QED
  BY <1>1, Invariance, PTL

\* On a database that enforces foreign keys, no token outlives its user.
THEOREM TokensHaveUsers == ASSUME Cascade PROVE Spec => []RowsHaveUsers
<1>1. Init => Referential
  BY InitIInv
<1>2. IInv /\ Referential /\ [Next]_vars => Referential'
  BY NextReferential
<1>3. Referential => RowsHaveUsers
  BY DEF Referential
<1>4. QED
  BY <1>1, <1>2, <1>3, Invariance, PTL DEF Spec

\* A consumed token sets its password, unless its user is gone or the step right
\* after it was consumed fails, by an exception or with the whole server.
THEOREM NoTokenIsLost == Spec => []UsedMeansSet
<1>1. Init => UsedMeansSet
  BY InitIInv
<1>2. IInv /\ UsedMeansSet /\ [Next]_vars => UsedMeansSet'
  BY NextKept
<1>3. QED
  BY <1>1, <1>2, Invariance, PTL DEF Spec

\* One request at a time, whatever fails or crashes, a token sets at most one
\* password, and not even that when the step after the consumption fails.  Two
\* threads break it: both may find it valid before one marks it.
THEOREM OnePasswordPerToken == ASSUME OneThread PROVE Spec => []SingleUse
<1>1. Init => Spent
  BY InitIInv
<1>2. IInv /\ Spent /\ [Next]_vars => Spent'
  BY NextSpent
<1>3. Spent => SingleUse
  BY DEF Spent, SingleUse
<1>4. QED
  BY <1>1, <1>2, <1>3, Invariance, PTL DEF Spec

\* Requests in parallel: every use of a token was under way when it was first
\* consumed; a request that begins after that is refused.
THEOREM UsesOfATokenOverlap == Spec => []UsesOverlap
<1>1. Init => SpentIsInvalid /\ UsesOverlap
  BY DEF Init, SpentIsInvalid, UsesOverlap
<1>2. IInv /\ SpentIsInvalid /\ UsesOverlap /\ [Next]_vars => SpentIsInvalid' /\ UsesOverlap'
  BY NextOverlap
<1>3. QED
  BY <1>1, <1>2, Invariance, PTL DEF Spec
=============================================================================
