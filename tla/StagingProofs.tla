---------------------------- MODULE StagingProofs ----------------------------
(***************************************************************************)
(* Theorems about Staging, for any number of threads, sessions and names.  *)
(***************************************************************************)
EXTENDS Staging, TLAPS

\* Steps at which a thread has a Session of its own.
Holding == {"insert", "roles", "assign", "create_commit", "body", "exit"}

\* Steps at which that Session holds the inserted user.
Inserted == {"roles", "assign", "create_commit"}

\* The rows of open transactions are new to the table and locked for others.
RowsExclusive ==
  /\ \A s \in Sessions : row[s] # NoName => st[s] = "open" /\ row[s] \notin db
  /\ \A s, u \in Sessions : row[s] = row[u] /\ row[s] # NoName => s = u

\* A Session in a local variable belongs to one thread, at a step that needs
\* it, and to nobody else.
HeldIsPrivate ==
  /\ \A t \in Threads : held[t] # NoSession <=> pc[t] \in Holding
  /\ \A t, u \in Threads : held[t] = held[u] /\ held[t] # NoSession => t = u
  /\ \A t \in Threads : held[t] # NoSession =>
       /\ held[t] # pending /\ held[t] \notin previewed
       /\ st[held[t]] # "free" /\ name[t] # NoName

\* What the transaction of a running call holds.
HeldRow ==
  \A t \in Threads :
    /\ pc[t] = "insert" => st[held[t]] = "open" /\ row[held[t]] = NoName
    /\ pc[t] \in Inserted \cup {"body"} => st[held[t]] = "open" /\ row[held[t]] = name[t]
    /\ pc[t] = "exit" => row[held[t]] \in {NoName, name[t]}

\* self._pending refers to a live object; while its transaction is open it
\* holds a user and its preview was answered.
PendingStaged ==
  /\ pending # NoSession => st[pending] # "free"
  /\ pending # NoSession /\ st[pending] = "open" => pending \in previewed
  /\ \A s \in previewed : st[s] = "open" /\ row[s] # NoName

IInv == TypeOK /\ RowsExclusive /\ HeldIsPrivate /\ HeldRow /\ PendingStaged

-----------------------------------------------------------------------------
LEMMA InitIInv == Init => IInv
BY NameAssumption, SessionAssumption
   DEF Init, IInv, TypeOK, RowsExclusive, HeldIsPrivate, HeldRow, PendingStaged,
       Holding, Inserted, Pcs, AllOps, Outcomes

LEMMA NextIInv == IInv /\ [Next]_vars => IInv'
<1> SUFFICES ASSUME IInv, [Next]_vars PROVE IInv'
  OBVIOUS
<1> USE NameAssumption, SessionAssumption
    DEF IInv, TypeOK, RowsExclusive, HeldIsPrivate, HeldRow, PendingStaged,
        Holding, Inserted, Pcs, Outcomes, AllOps, Goto
<1>1. ASSUME NEW t \in Threads, NEW o \in Ops, NEW n \in Names \cup {NoName}, Call(t, o, n)
      PROVE  IInv'
  BY <1>1, OpsAssumption DEF Call, Entry, sessionVars
<1>2. ASSUME NEW t \in Threads, Step(t) PROVE IInv'
  <2>1. CASE StageIf(t)
    BY <2>1 DEF StageIf, sessionVars, callVars
  <2>2. CASE CancelIf(t)
    BY <2>2 DEF CancelIf, Return, sessionVars, callVars
  <2>3. CASE Rollback(t)
    BY <2>3 DEF Rollback, EndTransaction, callVars
  <2>4. CASE RollbackRaises(t)
    BY <2>4 DEF RollbackRaises, EndTransaction, Fail, Return, callVars
  <2>5. CASE Close(t)
    BY <2>5 DEF Close, EndTransaction, callVars
  <2>6. CASE AttributeError(t)
    BY <2>6 DEF AttributeError, Fail, Return, sessionVars, callVars
  <2>7. CASE Clear(t)
    BY <2>7 DEF Clear, Return, sessionVars, callVars
  <2>8. CASE Connect(t)
    BY <2>8 DEF Connect, callVars
  <2>9. CASE ConnectFails(t)
    BY <2>9 DEF ConnectFails, Fail, Return, sessionVars, callVars
  <2>10. CASE Insert(t)
    BY <2>10 DEF Insert, Locked, Excludes, callVars
  <2>11. CASE InsertFails(t)
    BY <2>11 DEF InsertFails, Fail, Return, callVars
  <2>12. CASE Roles(t)
    BY <2>12 DEF Roles, sessionVars, callVars
  <2>13. CASE RolesRaise(t)
    BY <2>13 DEF RolesRaise, Fail, Return, sessionVars, callVars
  <2>14. CASE Assign(t)
    BY <2>14 DEF Assign, Return, callVars
  <2>15. CASE ConfirmIf(t)
    BY <2>15 DEF ConfirmIf, Fail, Return, sessionVars, callVars
  <2>16. CASE Commit(t)
    BY <2>16 DEF Commit, EndTransaction, Written, callVars
  <2>17. CASE CommitRaises(t)
    BY <2>17 DEF CommitRaises, EndTransaction, sessionVars, callVars
  <2>18. CASE ConfirmRollback(t)
    BY <2>18 DEF ConfirmRollback, EndTransaction, sessionVars, callVars
  <2>19. CASE CreateCommit(t)
    BY <2>19 DEF CreateCommit, EndTransaction, Fail, Return, callVars
  <2>20. CASE Delete(t)
    BY <2>20 DEF Delete, Return, sessionVars, callVars
  <2>21. CASE DeleteFails(t)
    BY <2>21 DEF DeleteFails, Fail, Return, sessionVars, callVars
  <2>22. CASE WithBody(t)
    <3>1. /\ pc[t] = "body" /\ held[t] \in Sessions
          /\ row[held[t]] = name[t] /\ name[t] \in Names /\ st[held[t]] = "open"
      BY <2>22 DEF WithBody
    <3>2. CASE UNCHANGED <<sessionVars, db>>
      BY <2>22, <3>1, <3>2 DEF WithBody, sessionVars, callVars
    <3>3. CASE EndTransaction(held[t], "none") /\ db' = db \cup {name[t]}
      <4>1. TypeOK' /\ RowsExclusive'
        BY <2>22, <3>1, <3>3 DEF WithBody, EndTransaction, callVars
      <4>2. HeldIsPrivate' /\ HeldRow' /\ PendingStaged'
        BY <2>22, <3>1, <3>3 DEF WithBody, EndTransaction, callVars
      <4>3. QED
        BY <4>1, <4>2
    <3>4. QED
      BY <2>22, <3>1, <3>2, <3>3 DEF WithBody, Written
  <2>23. CASE WithExit(t)
    BY <2>23 DEF WithExit, EndTransaction, Return, callVars
  <2>24. QED
    BY <1>2, <2>1, <2>2, <2>3, <2>4, <2>5, <2>6, <2>7, <2>8, <2>9, <2>10, <2>11, <2>12,
       <2>13, <2>14, <2>15, <2>16, <2>17, <2>18, <2>19, <2>20, <2>21, <2>22, <2>23
       DEF Step, StagingStep, ImmediateStep
<1>3. ASSUME NEW s \in Sessions, Gc(s) PROVE IInv'
  BY <1>3 DEF Gc, EndTransaction, callVars
<1>4. CASE UNCHANGED vars
  BY <1>4 DEF vars
<1>5. QED
  BY <1>1, <1>2, <1>3, <1>4 DEF Next

\* The inductive invariant holds in every reachable state.
THEOREM Invariance == Spec => []IInv
BY InitIInv, NextIInv, PTL DEF Spec

\* Every state the service, its threads and its sessions reach is well typed:
\* in particular a request without a user name never writes to the table.
THEOREM TypeCorrect == Spec => []TypeOK
<1>1. IInv => TypeOK
  BY DEF IInv
<1>2. QED
  BY <1>1, Invariance, PTL

-----------------------------------------------------------------------------
(* What reaches the database. *)

\* A step that grows the table is a confirm, an immediate create or a commit()
\* in a `with` block, and it adds the row of the transaction that commits.
LEMMA GrowingSteps ==
  ASSUME IInv, [Next]_vars, NEW n \in db' \ db
  PROVE  \E t \in Threads :
           \/ CreateCommit(t) /\ row[held[t]] = n
           \/ WithBody(t) /\ st[held[t]] = "open" /\ row[held[t]] = n
           \/ Commit(t) /\ st[pending] = "open" /\ row[pending] = n
<1>1. ASSUME NEW t \in Threads, NEW o \in Ops, NEW m \in Names \cup {NoName}, Call(t, o, m)
      PROVE  FALSE
  BY <1>1 DEF Call
<1>2. ASSUME NEW s \in Sessions, Gc(s) PROVE FALSE
  BY <1>2 DEF Gc
<1>3. CASE UNCHANGED vars
  BY <1>3 DEF vars
<1>4. ASSUME NEW t \in Threads, Step(t)
      PROVE  \/ CreateCommit(t) /\ row[held[t]] = n
             \/ WithBody(t) /\ st[held[t]] = "open" /\ row[held[t]] = n
             \/ Commit(t) /\ st[pending] = "open" /\ row[pending] = n
  <2>1. CASE CreateCommit(t) \/ WithBody(t) \/ Commit(t)
    BY <2>1 DEF CreateCommit, WithBody, Commit, Written
  <2>2. CASE ~(CreateCommit(t) \/ WithBody(t) \/ Commit(t))
    BY <1>4, <2>2 DEF Step, StagingStep, ImmediateStep, StageIf, CancelIf, Rollback,
       RollbackRaises, Close, AttributeError, Clear, Connect, ConnectFails, Insert, InsertFails,
       Roles, RolesRaise, Assign, ConfirmIf, CommitRaises, ConfirmRollback, Delete, DeleteFails,
       WithExit
  <2>3. QED
    BY <2>1, <2>2
<1>5. QED
  BY <1>1, <1>2, <1>3, <1>4 DEF Next

\* A user enters the table only by an immediate operation called for it, or by
\* the confirm of a unit of work whose preview was answered: stage alone, in
\* any interleaving and with any failure, writes nothing.
THEOREM AnswerableWrites == Spec => WritesAreAnswerable
<1> DEFINE Answerable ==
      \A n \in db' \ db : \E t \in Threads :
        \/ pc[t] \in {"create_commit", "body"} /\ name[t] = n
        \/ pc[t] = "commit" /\ pending \in previewed /\ row[pending] = n
<1>1. IInv /\ [Next]_vars => [Answerable]_vars
  <2> SUFFICES ASSUME IInv, [Next]_vars, NEW n \in db' \ db
               PROVE  \E t \in Threads :
                        \/ pc[t] \in {"create_commit", "body"} /\ name[t] = n
                        \/ pc[t] = "commit" /\ pending \in previewed /\ row[pending] = n
    OBVIOUS
  <2>1. PICK t \in Threads :
           \/ CreateCommit(t) /\ row[held[t]] = n
           \/ WithBody(t) /\ st[held[t]] = "open" /\ row[held[t]] = n
           \/ Commit(t) /\ st[pending] = "open" /\ row[pending] = n
    BY GrowingSteps
  <2>2. QED
    BY <2>1 DEF CreateCommit, WithBody, Commit, IInv, HeldRow, PendingStaged, Inserted
<1>2. QED
  BY <1>1, Invariance, PTL DEF Spec, WritesAreAnswerable

-----------------------------------------------------------------------------
(* The service implements the one-place slot. *)

\* Every step maps to a step of the slot or to a stutter.
LEMMA NextRefines == IInv /\ IInv' /\ [Next]_vars => [Slot!SlotNext]_(Slot!slotVars)
<1> SUFFICES ASSUME IInv, IInv', [Next]_vars PROVE [Slot!SlotNext]_(Slot!slotVars)
  OBVIOUS
<1> USE NameAssumption, SessionAssumption
    DEF IInv, TypeOK, Staged, Slot!slotVars, Slot!SlotNext
<1>1. ASSUME NEW t \in Threads, NEW o \in Ops, NEW n \in Names \cup {NoName}, Call(t, o, n)
      PROVE  UNCHANGED Slot!slotVars
  BY <1>1 DEF Call, sessionVars
<1>2. ASSUME NEW t \in Threads, Step(t) PROVE [Slot!SlotNext]_(Slot!slotVars)
  <2>1. ASSUME StageIf(t) \/ CancelIf(t) \/ AttributeError(t) \/ ConnectFails(t) \/ Roles(t) \/ RolesRaise(t) \/ ConfirmIf(t) \/ DeleteFails(t)
        PROVE  UNCHANGED Slot!slotVars
    BY <2>1 DEF StageIf, CancelIf, AttributeError, ConnectFails, Roles, RolesRaise, ConfirmIf, DeleteFails, sessionVars
  <2>2. ASSUME Rollback(t) \/ RollbackRaises(t) \/ Close(t) \/ ConfirmRollback(t) \/ CommitRaises(t) \/ Clear(t)
        PROVE  Slot!SlotDiscard \/ UNCHANGED Slot!slotVars
    BY <2>2 DEF Rollback, RollbackRaises, Close, ConfirmRollback, CommitRaises, Clear, EndTransaction, sessionVars, Slot!SlotDiscard
  <2>3. ASSUME Connect(t) \/ Insert(t) \/ InsertFails(t) \/ WithExit(t)
        PROVE  UNCHANGED Slot!slotVars
    BY <2>3 DEF Connect, Insert, InsertFails, WithExit, EndTransaction, HeldIsPrivate, Holding, PendingStaged
  <2>4. ASSUME Assign(t)
        PROVE  \E n \in Names : Slot!SlotStage(n)
    BY <2>4 DEF Assign, RowsExclusive, HeldIsPrivate, HeldRow, Holding, Inserted, Slot!SlotStage
  <2>5. ASSUME Commit(t)
        PROVE  Slot!SlotConfirm \/ UNCHANGED Slot!slotVars
    BY <2>5 DEF Commit, EndTransaction, Written, RowsExclusive, PendingStaged, Slot!SlotConfirm
  <2>6. ASSUME CreateCommit(t) \/ WithBody(t)
        PROVE  (\E n \in Names : Slot!SlotCreate(n)) \/ UNCHANGED Slot!slotVars
    BY <2>6 DEF CreateCommit, WithBody, EndTransaction, Written, sessionVars,
           RowsExclusive, HeldIsPrivate, HeldRow, PendingStaged, Holding, Inserted, Slot!SlotCreate
  <2>7. ASSUME Delete(t)
        PROVE  \E n \in Names : Slot!SlotDelete(n)
    BY <2>7 DEF Delete, sessionVars, Slot!SlotDelete
  <2>8. QED
    BY <1>2, <2>1, <2>2, <2>3, <2>4, <2>5, <2>6, <2>7 DEF Step, StagingStep, ImmediateStep
<1>3. ASSUME NEW s \in Sessions, Gc(s) PROVE UNCHANGED Slot!slotVars
  BY <1>3 DEF Gc, EndTransaction
<1>4. CASE UNCHANGED vars
  BY <1>4 DEF vars
<1>5. QED
  BY <1>1, <1>2, <1>3, <1>4 DEF Next

\* Whatever the interleaving of the threads and whichever calls fail, the
\* database and the staged change behave as one atomic slot (StagingSlot).
THEOREM Refinement == Spec => ImplementsSlot
<1>1. Init => Slot!SlotInit
  BY DEF Init, Slot!SlotInit, Staged
<1>2. QED
  BY <1>1, NextRefines, Invariance, PTL DEF Spec, ImplementsSlot, Slot!SlotSpec

-----------------------------------------------------------------------------
(* Dead units of work, and threads that wait for each other. *)

\* As long as rollback() itself does not raise, a unit of work whose
\* transaction has ended is left in self._pending only while some thread is on
\* its way to clear it.
THEOREM DeadPendingCleared ==
  ASSUME "rollback" \notin Faults
  PROVE  Spec => []DeadPendingIsBeingCleared
<1>1. Init => DeadPendingIsBeingCleared
  BY DEF Init, DeadPendingIsBeingCleared
<1>2. IInv /\ DeadPendingIsBeingCleared /\ [Next]_vars => DeadPendingIsBeingCleared'
  <2> SUFFICES ASSUME IInv, DeadPendingIsBeingCleared, [Next]_vars
               PROVE  DeadPendingIsBeingCleared'
    OBVIOUS
  <2> USE SessionAssumption DEF IInv, TypeOK, DeadPendingIsBeingCleared, Goto
  <2>1. ASSUME NEW t \in Threads, NEW o \in Ops, NEW n \in Names \cup {NoName}, Call(t, o, n)
        PROVE  DeadPendingIsBeingCleared'
    BY <2>1 DEF Call, sessionVars
  <2>2. ASSUME NEW t \in Threads, Step(t) PROVE DeadPendingIsBeingCleared'
    <3>1. CASE StageIf(t)
      BY <3>1 DEF StageIf, sessionVars, callVars
    <3>2. CASE CancelIf(t)
      BY <3>2 DEF CancelIf, Return, sessionVars, callVars
    <3>3. CASE Rollback(t)
      BY <3>3 DEF Rollback, EndTransaction, callVars
    <3>4. CASE RollbackRaises(t)
      BY <3>4 DEF RollbackRaises, EndTransaction, Fail, Return, callVars
    <3>5. CASE Close(t)
      BY <3>5 DEF Close, EndTransaction, callVars
    <3>6. CASE AttributeError(t)
      BY <3>6 DEF AttributeError, Fail, Return, sessionVars, callVars
    <3>7. CASE Clear(t)
      BY <3>7 DEF Clear, Return, sessionVars, callVars
    <3>8. CASE Connect(t)
      BY <3>8 DEF Connect, callVars,
             HeldIsPrivate, HeldRow, PendingStaged, Holding, Inserted
    <3>9. CASE ConnectFails(t)
      BY <3>9 DEF ConnectFails, Fail, Return, sessionVars, callVars
    <3>10. CASE Insert(t)
      BY <3>10 DEF Insert, Locked, Excludes, callVars,
             HeldIsPrivate, HeldRow, PendingStaged, Holding, Inserted
    <3>11. CASE InsertFails(t)
      BY <3>11 DEF InsertFails, Fail, Return, callVars,
             HeldIsPrivate, HeldRow, PendingStaged, Holding, Inserted
    <3>12. CASE Roles(t)
      BY <3>12 DEF Roles, sessionVars, callVars
    <3>13. CASE RolesRaise(t)
      BY <3>13 DEF RolesRaise, Fail, Return, sessionVars, callVars
    <3>14. CASE Assign(t)
      BY <3>14 DEF Assign, Return, callVars,
             HeldIsPrivate, HeldRow, PendingStaged, Holding, Inserted
    <3>15. CASE ConfirmIf(t)
      BY <3>15 DEF ConfirmIf, Fail, Return, sessionVars, callVars
    <3>16. CASE Commit(t)
      BY <3>16 DEF Commit, EndTransaction, Written, callVars
    <3>17. CASE CommitRaises(t)
      BY <3>17 DEF CommitRaises, EndTransaction, sessionVars, callVars
    <3>18. CASE ConfirmRollback(t)
      BY <3>18 DEF ConfirmRollback, EndTransaction, sessionVars, callVars
    <3>19. CASE CreateCommit(t)
      BY <3>19 DEF CreateCommit, EndTransaction, Fail, Return, callVars,
             HeldIsPrivate, HeldRow, PendingStaged, Holding, Inserted
    <3>20. CASE Delete(t)
      BY <3>20 DEF Delete, Return, sessionVars, callVars
    <3>21. CASE DeleteFails(t)
      BY <3>21 DEF DeleteFails, Fail, Return, sessionVars, callVars
    <3>22. CASE WithBody(t)
      BY <3>22 DEF WithBody, EndTransaction, Written, sessionVars, callVars,
             HeldIsPrivate, HeldRow, PendingStaged, Holding, Inserted
    <3>23. CASE WithExit(t)
      BY <3>23 DEF WithExit, EndTransaction, Return, callVars,
             HeldIsPrivate, HeldRow, PendingStaged, Holding, Inserted
    <3>24. QED
      BY <2>2, <3>1, <3>2, <3>3, <3>4, <3>5, <3>6, <3>7, <3>8, <3>9, <3>10, <3>11, <3>12,
         <3>13, <3>14, <3>15, <3>16, <3>17, <3>18, <3>19, <3>20, <3>21, <3>22, <3>23
         DEF Step, StagingStep, ImmediateStep
  <2>3. ASSUME NEW s \in Sessions, Gc(s) PROVE DeadPendingIsBeingCleared'
    BY <2>3 DEF Gc, EndTransaction, callVars
  <2>4. CASE UNCHANGED vars
    BY <2>4 DEF vars
  <2>5. QED
    BY <2>1, <2>2, <2>3, <2>4 DEF Next
<1>3. QED
  BY <1>1, <1>2, Invariance, PTL DEF Spec

\* If every thread of the server waits for a lock, they all wait for the staged
\* user: stopping the service takes a client that neither confirms nor cancels.
THEOREM DeadlockNeedsPending == Spec => []DeadlockOnlyBehindPending
<1>1. IInv => DeadlockOnlyBehindPending
  <2> SUFFICES ASSUME IInv,
                      \A t \in Threads : Waiting(t),
                      \A s \in Sessions : st[s] = "free" \/ s = pending
                                          \/ \E t \in Threads : held[t] = s,
                      NEW t \in Threads
               PROVE  Staged # NoName /\ (Backend = "postgres" => name[t] = Staged)
    BY DEF DeadlockOnlyBehindPending
  <2>1. PICK s \in Sessions : Excludes(s, name[t])
    BY DEF Waiting, Locked
  <2>2. \A u \in Threads : held[u] # s
    BY <2>1 DEF Waiting, Excludes, IInv, HeldRow
  <2>3. s = pending
    BY <2>1, <2>2 DEF Excludes
  <2>4. QED
    BY <2>1, <2>3, SessionAssumption DEF Excludes, Staged
<1>2. QED
  BY <1>1, Invariance, PTL

-----------------------------------------------------------------------------
(* One caller at a time: what a client sees of its own calls. *)

OneThread == \A t, u \in Threads : t = u

\* A confirm that found nothing to write: only a transaction that has ended is
\* still in self._pending when commit() is called.
LEMMA VacuousSteps ==
  ASSUME IInv, [Next]_vars, NEW t \in Threads, res'[t] = "vacuous", res[t] # "vacuous"
  PROVE  Commit(t) /\ st[pending] # "open"
<1> USE DEF IInv, TypeOK
<1>1. \A u \in Threads, r \in Outcomes :
        res' = [res EXCEPT ![u] = r] /\ r # "vacuous" => res'[t] # "vacuous"
  OBVIOUS
<1>2. \A u \in Threads : Fail(u) => res' = [res EXCEPT ![u] = "failed"] BY DEF Fail, Return
<1>3. ASSUME NEW u \in Threads, Step(u) PROVE Commit(t) /\ st[pending] # "open"
  <2>1. CASE Commit(u) BY <1>1, <2>1 DEF Commit
  <2>2. CASE Clear(u) \/ WithExit(u)
    BY <2>2 DEF Clear, WithExit, Return
  <2>3. CASE CreateCommit(u) \/ WithBody(u)
    BY <1>1, <1>2, <2>3 DEF CreateCommit, WithBody, Return, Outcomes
  <2>4. ASSUME StageIf(u) \/ CancelIf(u) \/ Rollback(u) \/ RollbackRaises(u) \/ Close(u)
               \/ AttributeError(u) \/ Connect(u) \/ ConnectFails(u) \/ Insert(u)
               \/ InsertFails(u) \/ Roles(u) \/ RolesRaise(u) \/ Assign(u)
        PROVE  FALSE
    BY <2>4 DEF StageIf, CancelIf, Rollback, RollbackRaises, Close, AttributeError, Connect,
         ConnectFails, Insert, InsertFails, Roles, RolesRaise, Assign, Fail, Return
  <2>5. ASSUME ConfirmIf(u) \/ CommitRaises(u) \/ ConfirmRollback(u) \/ Delete(u) \/ DeleteFails(u)
        PROVE  FALSE
    BY <2>5 DEF ConfirmIf, CommitRaises, ConfirmRollback, Delete, DeleteFails, Fail, Return
  <2> QED BY <1>3, <2>1, <2>2, <2>3, <2>4, <2>5 DEF Step, StagingStep, ImmediateStep
<1>4. ASSUME NEW u \in Threads, NEW o \in Ops, NEW n \in Names \cup {NoName}, Call(u, o, n)
      PROVE  FALSE
  BY <1>4 DEF Call
<1>5. ASSUME NEW s \in Sessions, Gc(s) PROVE FALSE BY <1>5 DEF Gc
<1>6. CASE UNCHANGED vars BY <1>6 DEF vars
<1> QED BY <1>3, <1>4, <1>5, <1>6 DEF Next

\* Called by one thread at a time, and with a rollback() that does not raise, a
\* confirm that answers {"confirmed": True} has written the staged user.
THEOREM ConfirmHasWritten ==
  ASSUME OneThread, "rollback" \notin Faults
  PROVE  Spec => []ConfirmWrites
<1> DEFINE NoneVacuous == \A t \in Threads : res[t] # "vacuous"
<1>1. Init => NoneVacuous BY DEF Init
<1>2. IInv /\ DeadPendingIsBeingCleared /\ NoneVacuous /\ [Next]_vars => NoneVacuous'
  <2> SUFFICES ASSUME IInv, DeadPendingIsBeingCleared, NoneVacuous, [Next]_vars,
                      NEW t \in Threads, res'[t] = "vacuous"
               PROVE  FALSE
    OBVIOUS
  <2>1. Commit(t) /\ st[pending] # "open" BY VacuousSteps
  <2>2. pc[t] = "commit" /\ pending # NoSession BY <2>1 DEF Commit
  <2> QED BY <2>1, <2>2 DEF OneThread, DeadPendingIsBeingCleared
<1>3. NoneVacuous => ConfirmWrites BY DEF ConfirmWrites
<1> QED BY <1>1, <1>2, <1>3, Invariance, DeadPendingCleared, PTL DEF Spec

\* A staging call is at its own steps; it has cleared self._pending before it
\* connects, and nothing is previewed once close() has returned.
StagesAlone ==
  \A t \in Threads :
    /\ pc[t] \in {"roles", "assign"} => op[t] = "stage"
    /\ pc[t] \in {"connect", "insert", "roles", "assign"} /\ op[t] = "stage" => pending = NoSession
    /\ pc[t] = "clear" => previewed = {}

\* Called by one thread at a time, the unit of work whose preview was answered
\* stays in self._pending until it is confirmed, cancelled or replaced.
THEOREM PreviewStays == ASSUME OneThread PROVE Spec => []PreviewKept
<1>1. Init => StagesAlone /\ PreviewKept BY DEF Init, StagesAlone, PreviewKept
<1>2. IInv /\ StagesAlone /\ PreviewKept /\ [Next]_vars => (StagesAlone /\ PreviewKept)'
  <2> SUFFICES ASSUME IInv, StagesAlone, PreviewKept, [Next]_vars
               PROVE  StagesAlone' /\ PreviewKept'
    OBVIOUS
  <2> USE SessionAssumption DEF IInv, TypeOK, OneThread, StagesAlone, PreviewKept, Goto
  <2>1. ASSUME NEW t \in Threads, NEW o \in Ops, NEW n \in Names \cup {NoName}, Call(t, o, n)
        PROVE  StagesAlone' /\ PreviewKept'
    BY <2>1, OpsAssumption DEF Call, Entry, sessionVars, AllOps
  <2>2. ASSUME NEW t \in Threads, Step(t) PROVE StagesAlone' /\ PreviewKept'
    <3>1. CASE StageIf(t)
      BY <3>1 DEF StageIf, sessionVars, callVars
    <3>2. CASE CancelIf(t)
      BY <3>2 DEF CancelIf, Return, sessionVars, callVars
    <3>3. CASE Rollback(t)
      BY <3>3 DEF Rollback, EndTransaction, callVars
    <3>4. CASE RollbackRaises(t)
      BY <3>4 DEF RollbackRaises, EndTransaction, Fail, Return, callVars
    <3>5. CASE Close(t)
      BY <3>5 DEF Close, EndTransaction, callVars
    <3>6. CASE AttributeError(t)
      BY <3>6 DEF AttributeError, Fail, Return, sessionVars, callVars
    <3>7. CASE Clear(t)
      BY <3>7 DEF Clear, Return, sessionVars, callVars
    <3>8. CASE Connect(t)
      BY <3>8 DEF Connect, callVars
    <3>9. CASE ConnectFails(t)
      BY <3>9 DEF ConnectFails, Fail, Return, sessionVars, callVars
    <3>10. CASE Insert(t)
      BY <3>10 DEF Insert, callVars
    <3>11. CASE InsertFails(t)
      BY <3>11 DEF InsertFails, Fail, Return, callVars
    <3>12. CASE Roles(t)
      BY <3>12 DEF Roles, sessionVars, callVars
    <3>13. CASE RolesRaise(t)
      BY <3>13 DEF RolesRaise, Fail, Return, sessionVars, callVars
    <3>14. CASE Assign(t)
      BY <3>14 DEF Assign, Return, callVars, PendingStaged
    <3>15. CASE ConfirmIf(t)
      BY <3>15 DEF ConfirmIf, Fail, Return, sessionVars, callVars
    <3>16. CASE Commit(t)
      BY <3>16 DEF Commit, EndTransaction, Written, callVars
    <3>17. CASE CommitRaises(t)
      BY <3>17 DEF CommitRaises, EndTransaction, sessionVars, callVars
    <3>18. CASE ConfirmRollback(t)
      BY <3>18 DEF ConfirmRollback, EndTransaction, sessionVars, callVars
    <3>19. CASE CreateCommit(t)
      BY <3>19 DEF CreateCommit, EndTransaction, Fail, Return, callVars
    <3>20. CASE Delete(t)
      BY <3>20 DEF Delete, Return, sessionVars, callVars
    <3>21. CASE DeleteFails(t)
      BY <3>21 DEF DeleteFails, Fail, Return, sessionVars, callVars
    <3>22. CASE WithBody(t)
      BY <3>22 DEF WithBody, EndTransaction, sessionVars, callVars
    <3>23. CASE WithExit(t)
      BY <3>23 DEF WithExit, EndTransaction, Return, callVars
    <3>24. QED
      BY <2>2, <3>1, <3>2, <3>3, <3>4, <3>5, <3>6, <3>7, <3>8, <3>9, <3>10, <3>11, <3>12,
         <3>13, <3>14, <3>15, <3>16, <3>17, <3>18, <3>19, <3>20, <3>21, <3>22, <3>23
         DEF Step, StagingStep, ImmediateStep
  <2>3. ASSUME NEW s \in Sessions, Gc(s) PROVE StagesAlone' /\ PreviewKept'
    BY <2>3 DEF Gc, EndTransaction, callVars
  <2>4. CASE UNCHANGED vars
    BY <2>4 DEF vars
  <2>5. QED
    BY <2>1, <2>2, <2>3, <2>4 DEF Next
<1>3. QED
  BY <1>1, <1>2, Invariance, PTL DEF Spec
=============================================================================
