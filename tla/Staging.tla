------------------------------- MODULE Staging -------------------------------
(***************************************************************************)
(* The stage / confirm / cancel flow of StagingService, as UserService     *)
(* uses it, on top of UnitOfWork and SessionFactory.                       *)
(*                                                                         *)
(* The users routes keep ONE service per database and FastAPI runs their   *)
(* `def` endpoints in a thread pool, so several threads run the methods of *)
(* the same object and share self._pending without a lock.  A step of a    *)
(* thread is one access to self._pending, or one call to the database.     *)
(*                                                                         *)
(* External: the database (unique user names, row locks or a file lock, a  *)
(* bounded connection pool) and SQLAlchemy's Session, which may be used    *)
(* again after close(): a commit of a Session without a transaction        *)
(* succeeds and writes nothing.                                            *)
(***************************************************************************)
EXTENDS Naturals, FiniteSets

CONSTANTS
  Threads,    \* threads of the server's pool
  Names,      \* user names, the unique key of the users table
  NoName,     \* no name: a missing key in the request, an empty transaction
  Sessions,   \* identities of Session objects
  NoSession,  \* Python's None
  PoolSize,   \* connections of the engine's pool, overflow included
  Backend,    \* "postgres" or "sqlite": how writers exclude each other
  Ops,        \* the operations clients call
  Faults      \* database calls that may raise: "commit", "rollback"

AllOps == {"stage", "confirm", "cancel", "create", "delete", "with"}

ASSUME NameAssumption    == NoName \notin Names
ASSUME SessionAssumption == NoSession \notin Sessions
ASSUME PoolAssumption    == PoolSize \in Nat \ {0}
ASSUME BackendAssumption == Backend \in {"postgres", "sqlite"}
ASSUME OpsAssumption     == Ops \subseteq AllOps
ASSUME FaultAssumption   == Faults \subseteq {"commit", "rollback"}

VARIABLES
  pending,   \* self._pending
  st,        \* per Session: "free" (no object), "none" (no transaction),
             \*   "open", or "broken" (a statement failed, not yet rolled back)
  row,       \* per Session: the user its transaction has inserted
  db,        \* names of the committed users
  pc,        \* per thread: the next step of its call
  op,        \* per thread: the operation it runs, or ran last
  name,      \* per thread: the user name of the request
  held,      \* per thread: the Session in its local variable `uow` or `s`
  res,       \* per thread: the outcome of its call
  previewed  \* history: Sessions whose preview was answered and is unresolved

sessionVars == <<st, row, previewed>>
callVars    == <<op, name>>
vars == <<pending, st, row, db, pc, op, name, held, res, previewed>>

Pcs == {"idle", "stage_if", "confirm_if", "cancel_if", "rollback", "close",
        "clear", "commit", "confirm_rollback", "connect", "insert", "roles",
        "assign", "create_commit", "delete", "body", "exit"}

\* "committed", "vacuous": confirm answered {"confirmed": True}; the commit
\* wrote a row, or found nothing to write.  "failed": ActionResult(success=False).
Outcomes == {"none", "ok", "committed", "vacuous", "failed"}

TypeOK ==
  /\ pending \in Sessions \cup {NoSession}
  /\ st \in [Sessions -> {"free", "none", "open", "broken"}]
  /\ row \in [Sessions -> Names \cup {NoName}]
  /\ db \in SUBSET Names
  /\ pc \in [Threads -> Pcs]
  /\ op \in [Threads -> AllOps]
  /\ name \in [Threads -> Names \cup {NoName}]
  /\ held \in [Threads -> Sessions \cup {NoSession}]
  /\ res \in [Threads -> Outcomes]
  /\ previewed \in SUBSET Sessions

Init ==
  /\ pending = NoSession
  /\ st = [s \in Sessions |-> "free"]
  /\ row = [s \in Sessions |-> NoName]
  /\ db \in SUBSET Names
  /\ pc = [t \in Threads |-> "idle"]
  /\ op = [t \in Threads |-> "cancel"]
  /\ name = [t \in Threads |-> NoName]
  /\ held = [t \in Threads |-> NoSession]
  /\ res = [t \in Threads |-> "none"]
  /\ previewed = {}

-----------------------------------------------------------------------------
(* The database and its sessions. *)

\* Sessions that keep a connection of the pool: a transaction does, and so
\* does one that failed, until it is rolled back.
Connected == {s \in Sessions : st[s] \in {"open", "broken"}}

PoolHasRoom == Cardinality(Connected) < PoolSize

\* An open transaction excludes the insertion of name n by another session:
\* PostgreSQL locks the key, SQLite the whole file.
Excludes(s, n) ==
  /\ st[s] = "open"
  /\ row[s] # NoName
  /\ Backend = "postgres" => row[s] = n

Locked(n) == \E s \in Sessions : Excludes(s, n)

\* Session s ends without a transaction, in object state x.
EndTransaction(s, x) ==
  /\ st' = [st EXCEPT ![s] = x]
  /\ row' = [row EXCEPT ![s] = NoName]
  /\ previewed' = previewed \ {s}

-----------------------------------------------------------------------------
(* SimpleService.execute: a call starts a handler, and turns what the      *)
(* handler returns or raises into an answer.                               *)

Entry == [stage |-> "stage_if", confirm |-> "confirm_if", cancel |-> "cancel_if",
          create |-> "connect", delete |-> "delete", with |-> "connect"]

Goto(t, l) == pc' = [pc EXCEPT ![t] = l]

Call(t, o, n) ==
  /\ pc[t] = "idle"
  /\ o \in {"confirm", "cancel"} => n = NoName
  /\ Goto(t, Entry[o])
  /\ op' = [op EXCEPT ![t] = o]
  /\ name' = [name EXCEPT ![t] = n]
  /\ res' = [res EXCEPT ![t] = "none"]
  /\ UNCHANGED <<pending, sessionVars, db, held>>

Return(t, r) ==
  /\ Goto(t, "idle")
  /\ res' = [res EXCEPT ![t] = r]

Fail(t) == Return(t, "failed")

-----------------------------------------------------------------------------
(* StagingService: the part stage and cancel share, and confirm's cleanup. *)

\* `if self._pending` at the top of stage
StageIf(t) ==
  /\ pc[t] = "stage_if"
  /\ Goto(t, IF pending = NoSession THEN "connect" ELSE "rollback")
  /\ UNCHANGED <<pending, sessionVars, db, callVars, held, res>>

\* Mutant of CancelIf: forgets the transaction instead of rolling it back.
CancelIfForgets(t) ==
  /\ pc[t] = "cancel_if"
  /\ Goto(t, "clear")
  /\ UNCHANGED <<pending, sessionVars, db, callVars, held, res>>

\* `if self._pending` at the top of cancel
CancelIf(t) ==
  /\ pc[t] = "cancel_if"
  /\ IF pending = NoSession
       THEN Return(t, "ok")
       ELSE Goto(t, "rollback") /\ UNCHANGED res
  /\ UNCHANGED <<pending, sessionVars, db, callVars, held>>

\* `self._pending.rollback()` in stage and cancel
Rollback(t) ==
  /\ pc[t] = "rollback" /\ pending # NoSession
  /\ EndTransaction(pending, "none")
  /\ Goto(t, "close")
  /\ UNCHANGED <<pending, db, callVars, held, res>>

\* ... raises: the connection is lost, and the transaction with it
RollbackRaises(t) ==
  /\ "rollback" \in Faults
  /\ pc[t] = "rollback" /\ pending # NoSession
  /\ EndTransaction(pending, "none")
  /\ Fail(t)
  /\ UNCHANGED <<pending, db, callVars, held>>

\* Mutant of Close: self._pending is not cleared after a failed commit.
CloseKeepsFailed(t) ==
  /\ pc[t] = "close" /\ pending # NoSession
  /\ EndTransaction(pending, "none")
  /\ IF res[t] = "failed" THEN Return(t, "failed") ELSE Goto(t, "clear") /\ UNCHANGED res
  /\ UNCHANGED <<pending, db, callVars, held>>

\* `self._pending.close()` in stage, cancel and confirm
Close(t) ==
  /\ pc[t] = "close" /\ pending # NoSession
  /\ EndTransaction(pending, "none")
  /\ Goto(t, "clear")
  /\ UNCHANGED <<pending, db, callVars, held, res>>

\* `None.rollback()`, `None.close()`: another thread cleared self._pending
AttributeError(t) ==
  /\ pc[t] \in {"rollback", "close"} /\ pending = NoSession
  /\ Fail(t)
  /\ UNCHANGED <<pending, sessionVars, db, callVars, held>>

\* Mutant of Clear: confirm leaves self._pending as it is.
ClearSkipsConfirm(t) ==
  /\ pc[t] = "clear"
  /\ pending' = IF op[t] = "confirm" THEN pending ELSE NoSession
  /\ IF op[t] = "stage" THEN Goto(t, "connect") /\ UNCHANGED res ELSE Return(t, res[t])
  /\ UNCHANGED <<sessionVars, db, callVars, held>>

\* `self._pending = None` in stage, cancel and confirm
Clear(t) ==
  /\ pc[t] = "clear"
  /\ pending' = NoSession
  /\ CASE op[t] = "stage"  -> Goto(t, "connect") /\ UNCHANGED res
       [] op[t] = "cancel" -> Return(t, "ok")
       [] OTHER            -> Return(t, res[t])
  /\ UNCHANGED <<sessionVars, db, callVars, held>>

-----------------------------------------------------------------------------
(* stage: a new unit of work, UserService._stage_impl, the preview.  The   *)
(* immediate create and a `with factory.unit_of_work()` block connect and  *)
(* insert in the same way.                                                 *)

\* Mutant of Connect: a request without a user name goes through.
ConnectUnchecked(t) ==
  /\ pc[t] = "connect" /\ PoolHasRoom
  /\ \E s \in Sessions :
       /\ st[s] = "free"
       /\ st' = [st EXCEPT ![s] = "open"]
       /\ held' = [held EXCEPT ![t] = s]
  /\ Goto(t, "insert")
  /\ UNCHANGED <<pending, row, previewed, db, callVars, res>>

Connect(t) ==
  /\ pc[t] = "connect" /\ name[t] # NoName
  /\ PoolHasRoom
  /\ \E s \in Sessions :
       /\ st[s] = "free"
       /\ st' = [st EXCEPT ![s] = "open"]
       /\ held' = [held EXCEPT ![t] = s]
  /\ Goto(t, "insert")
  /\ UNCHANGED <<pending, row, previewed, db, callVars, res>>

\* a key is missing in the request, or the pool's wait for a connection ends
ConnectFails(t) ==
  /\ pc[t] = "connect"
  /\ name[t] = NoName \/ ~PoolHasRoom
  /\ Fail(t)
  /\ UNCHANGED <<pending, sessionVars, db, callVars, held>>

\* Mutant of Insert: the session proxy passes the repository's commit through.
InsertCommits(t) ==
  /\ pc[t] = "insert"
  /\ ~Locked(name[t]) /\ name[t] \notin db
  /\ row' = [row EXCEPT ![held[t]] = name[t]]
  /\ db' = db \cup {name[t]}
  /\ Goto(t, CASE op[t] = "stage"  -> "roles"
               [] op[t] = "create" -> "create_commit"
               [] OTHER            -> "body")
  /\ UNCHANGED <<pending, st, previewed, callVars, held, res>>

\* the flush in BaseRepository.create
Insert(t) ==
  /\ pc[t] = "insert"
  /\ ~Locked(name[t]) /\ name[t] \notin db
  /\ row' = [row EXCEPT ![held[t]] = name[t]]
  /\ Goto(t, CASE op[t] = "stage"  -> "roles"
               [] op[t] = "create" -> "create_commit"
               [] OTHER            -> "body")
  /\ UNCHANGED <<pending, st, previewed, db, callVars, held, res>>

\* ... raises: the name is taken, or SQLite's busy timeout ends.  `session()`
\* and the `with` block roll back and close; stage keeps no reference to its
\* unit of work, whose session stays connected
InsertFails(t) ==
  /\ pc[t] = "insert"
  /\ \/ name[t] \in db /\ ~Locked(name[t])
     \/ Backend = "sqlite" /\ Locked(name[t])
  /\ st' = [st EXCEPT ![held[t]] = CASE op[t] = "stage"  -> "broken"
                                     [] op[t] = "create" -> "free"
                                     [] OTHER            -> "none"]
  /\ held' = [held EXCEPT ![t] = NoSession]
  /\ Fail(t)
  /\ UNCHANGED <<pending, row, previewed, db, callVars>>

\* Mutant of Roles: self._pending is assigned before the preview is made.
RolesAssignEarly(t) ==
  /\ pc[t] = "roles"
  /\ pending' = held[t]
  /\ Goto(t, "assign")
  /\ UNCHANGED <<sessionVars, db, callVars, held, res>>

\* the role loop of _stage_impl and the flush in UnitOfWork.stage
Roles(t) ==
  /\ pc[t] = "roles"
  /\ Goto(t, "assign")
  /\ UNCHANGED <<pending, sessionVars, db, callVars, held, res>>

\* Mutant of RolesRaise: the exception, whose traceback refers to the frame of
\* stage, is kept, and the unit of work with it.
RolesRaiseKept(t) ==
  /\ pc[t] = "roles"
  /\ Fail(t)
  /\ UNCHANGED <<pending, sessionVars, db, callVars, held>>

\* Mutant of RolesRaise: tries again in the same transaction.
RolesRaiseRetries(t) ==
  /\ pc[t] = "roles"
  /\ Goto(t, "insert")
  /\ UNCHANGED <<pending, sessionVars, db, callVars, held, res>>

\* ... raises (a role id that is no UUID): the user is already inserted, and
\* the transaction stays open without an owner
RolesRaise(t) ==
  /\ pc[t] = "roles"
  /\ held' = [held EXCEPT ![t] = NoSession]
  /\ Fail(t)
  /\ UNCHANGED <<pending, sessionVars, db, callVars>>

\* `self._pending = uow`, and the preview is answered
Assign(t) ==
  /\ pc[t] = "assign"
  /\ pending' = held[t]
  /\ previewed' = previewed \cup {held[t]}
  /\ held' = [held EXCEPT ![t] = NoSession]
  /\ Return(t, "ok")
  /\ UNCHANGED <<st, row, db, callVars>>

-----------------------------------------------------------------------------
(* confirm *)

ConfirmIf(t) ==
  /\ pc[t] = "confirm_if"
  /\ IF pending = NoSession
       THEN Fail(t)
       ELSE Goto(t, "commit") /\ UNCHANGED res
  /\ UNCHANGED <<pending, sessionVars, db, callVars, held>>

Written(s) == IF st[s] = "open" THEN {row[s]} ELSE {}

\* `self._pending.commit()`; its transaction, if it still has one, is written
Commit(t) ==
  /\ pc[t] = "commit" /\ pending # NoSession
  /\ st[pending] # "broken"
  /\ db' = db \cup Written(pending)
  /\ EndTransaction(pending, "none")
  /\ Goto(t, "close")
  /\ res' = [res EXCEPT ![t] = IF st[pending] = "open" THEN "committed" ELSE "vacuous"]
  /\ UNCHANGED <<pending, callVars, held>>

\* ... raises: in the database, in the Session when another thread's commit of
\* it has just failed, or on None when another thread cleared self._pending
CommitRaises(t) ==
  /\ pc[t] = "commit"
  /\ \/ /\ pending # NoSession
        /\ "commit" \in Faults \/ st[pending] = "broken"
        /\ EndTransaction(pending, "broken")
     \/ pending = NoSession /\ UNCHANGED sessionVars
  /\ Goto(t, "confirm_rollback")
  /\ UNCHANGED <<pending, db, callVars, held, res>>

\* the except clause: whether or not rollback() raises in turn, the finally
\* clause runs next and the call fails
ConfirmRollback(t) ==
  /\ pc[t] = "confirm_rollback"
  /\ IF pending = NoSession THEN UNCHANGED sessionVars ELSE EndTransaction(pending, "none")
  /\ Goto(t, "close")
  /\ res' = [res EXCEPT ![t] = "failed"]
  /\ UNCHANGED <<pending, db, callVars, held>>

-----------------------------------------------------------------------------
(* Immediate operations and the context manager. *)

\* the commit and close at the end of SessionFactory.session()
CreateCommit(t) ==
  /\ pc[t] = "create_commit"
  /\ \/ db' = db \cup {row[held[t]]} /\ Return(t, "ok")
     \/ "commit" \in Faults /\ UNCHANGED db /\ Fail(t)
  /\ EndTransaction(held[t], "free")
  /\ held' = [held EXCEPT ![t] = NoSession]
  /\ UNCHANGED <<pending, callVars>>

\* UserService.delete: get, delete and commit in one short session
Delete(t) ==
  /\ pc[t] = "delete"
  /\ PoolHasRoom /\ name[t] \in db
  /\ Backend = "sqlite" => ~Locked(name[t])
  /\ db' = db \ {name[t]}
  /\ Return(t, "ok")
  /\ UNCHANGED <<pending, sessionVars, callVars, held>>

DeleteFails(t) ==
  /\ pc[t] = "delete"
  /\ \/ ~PoolHasRoom \/ name[t] \notin db
     \/ Backend = "sqlite" /\ Locked(name[t])
  /\ Fail(t)
  /\ UNCHANGED <<pending, sessionVars, db, callVars, held>>

\* the body of a `with` block: commits explicitly, ends without doing so, or raises
WithBody(t) ==
  /\ pc[t] = "body"
  /\ \/ /\ db' = db \cup Written(held[t])
        /\ EndTransaction(held[t], "none")
        /\ res' = [res EXCEPT ![t] = "committed"]
     \/ /\ \E r \in {"ok", "failed"} : res' = [res EXCEPT ![t] = r]
        /\ UNCHANGED <<sessionVars, db>>
  /\ Goto(t, "exit")
  /\ UNCHANGED <<pending, callVars, held>>

\* UnitOfWork.__exit__: rolls back unless committed, and closes
WithExit(t) ==
  /\ pc[t] = "exit"
  /\ EndTransaction(held[t], "none")
  /\ held' = [held EXCEPT ![t] = NoSession]
  /\ Return(t, res[t])
  /\ UNCHANGED <<pending, db, callVars>>

\* Python's cyclic collector: the before_flush listener ties a Session and its
\* UnitOfWork into a cycle, so one that nobody references is freed only here
Gc(s) ==
  /\ st[s] # "free" /\ s # pending /\ \A t \in Threads : held[t] # s
  /\ EndTransaction(s, "free")
  /\ UNCHANGED <<pending, db, pc, callVars, held, res>>

-----------------------------------------------------------------------------
StagingStep(t) ==
  \/ StageIf(t) \/ CancelIf(t) \/ Rollback(t) \/ RollbackRaises(t)
  \/ Close(t) \/ AttributeError(t) \/ Clear(t)
  \/ Connect(t) \/ ConnectFails(t) \/ Insert(t) \/ InsertFails(t)
  \/ Roles(t) \/ RolesRaise(t) \/ Assign(t)
  \/ ConfirmIf(t) \/ Commit(t) \/ CommitRaises(t) \/ ConfirmRollback(t)

ImmediateStep(t) ==
  CreateCommit(t) \/ Delete(t) \/ DeleteFails(t) \/ WithBody(t) \/ WithExit(t)

Step(t) == StagingStep(t) \/ ImmediateStep(t)

Next ==
  \/ \E t \in Threads :
       \/ Step(t)
       \/ \E o \in Ops, n \in Names \cup {NoName} : Call(t, o, n)
  \/ \E s \in Sessions : Gc(s)

Spec == Init /\ [][Next]_vars

\* A thread runs on: strongly, because PostgreSQL wakes the sessions that wait
\* for a lock when it is released.  The collector runs while memory is allocated.
Fairness ==
  /\ \A t \in Threads : SF_vars(Step(t))
  /\ \A s \in Sessions : WF_vars(Gc(s))

FairSpec == Spec /\ Fairness

-----------------------------------------------------------------------------
(* Properties *)

Staged == IF pending = NoSession THEN NoName
          ELSE IF st[pending] = "open" THEN row[pending] ELSE NoName

Slot == INSTANCE StagingSlot WITH slot <- Staged, users <- db

\* Whatever the threads do to self._pending, what reaches the database is what
\* an atomic one-place slot would let through: a confirmed change is the one
\* that was staged last, it is written once, it never collides with a name the
\* table has, and discarding it writes nothing.
ImplementsSlot == Slot!SlotSpec

\* Only an immediate operation, or the confirm of a unit of work whose preview
\* was answered, puts a user in the table, and only the user it was called for.
WritesAreAnswerable ==
  [][\A n \in db' \ db : \E t \in Threads :
       \/ pc[t] \in {"create_commit", "body"} /\ name[t] = n
       \/ pc[t] = "commit" /\ pending \in previewed /\ row[pending] = n]_vars

\* When self._pending refers to a unit of work whose transaction has ended, some
\* thread is about to clear it: no quiet service offers a dead unit of work for
\* confirmation.
DeadPendingIsBeingCleared ==
  pending # NoSession /\ st[pending] # "open"
     => \E t \in Threads : pc[t] \in {"confirm_rollback", "close", "clear"}

\* A confirm that answers {"confirmed": True} has written the staged user
\* (interfaces.py: action="confirm" -> commits).
ConfirmWrites == \A t \in Threads : ~(pc[t] = "idle" /\ res[t] = "vacuous")

\* A unit of work whose preview was answered stays in self._pending, where
\* confirm and cancel find it, until its transaction ends.
PreviewKept == previewed \subseteq {pending}

\* When every thread waits for a lock and the collector has nothing to free, it
\* is the staged, unconfirmed user that they all wait for.
Waiting(t) == pc[t] = "insert" /\ Locked(name[t])
DeadlockOnlyBehindPending ==
  (/\ \A t \in Threads : Waiting(t)
   /\ \A s \in Sessions : st[s] = "free" \/ s = pending \/ \E t \in Threads : held[t] = s)
  => \A t \in Threads : Staged # NoName /\ (Backend = "postgres" => name[t] = Staged)

\* If clients keep confirming or cancelling what is staged, every call returns.
CallsReturn ==
  ([]<>(pending = NoSession)) =>
     \A t \in Threads : pc[t] # "idle" ~> pc[t] = "idle"
=============================================================================
