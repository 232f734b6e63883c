# FlexTemplates 2.0 in TLA+

FlexTemplates is a Python template for applications with a Flet user interface,
a FastAPI server, SQLAlchemy databases, Redis caches and an encrypted vault for
the secrets of all of them. One process runs everything: the Flet pages, each
with its own session, the uvicorn thread with its event loop, and the thread
pool in which FastAPI runs every `def` endpoint. Services are objects of that
process and most of them are shared, which is where this project looks: what
the threads, coroutines, page sessions and processes may do to each other, and
what a failure between two steps leaves behind.

1. [The system](#the-system)
2. [Modules](#modules)
3. [Runs](#runs)
4. [Bounds and fairness](#bounds-and-fairness)
5. [Proofs](#proofs)
6. [Disagreements](#disagreements)
7. [Not modelled](#not-modelled)
8. [Plan](#plan)

`PROJECT.json` lists the runs, the theorems, the source lines behind every
definition, the mutant of every property and the hazards. Every module states
its abstractions at its top.

## The system

| component | state | operations | interacts with | hard behaviour | what makes it correct |
|---|---|---|---|---|---|
| **Staged operations** `core/interfaces.py`, `database/uow.py`, `database/session.py`, `services/user_service.py` | `self._pending` of one service that all API threads share; the transaction of every Session; the pool; the users table | stage, confirm, cancel; create, delete; `with unit_of_work()` | users routes, repositories, SQLAlchemy, the database | unlocked shared field, lock waits, exceptions between flush and assignment, garbage collection | what is written is what was staged last, once, by a confirm; confirm and cancel answer the truth; nothing waits for ever |
| **Vault** `security/vault_service.py`, `vault_store.py`, `vault.py`, `config/cli.py`, `views/security.py` | `.secrets/.env`, `.secrets/vault.json`, keys and secrets in memory | bootstrap, unlock, set, delete, save, lock; flex-encrypt | the settings file of `AppConfig`, the registries (through `vault.unlocked`) | two files, two-step writes, crashes, several processes | the key on disk opens the vault on disk; saved secrets stay |
| **Password reset** `services/user_service.py`, `repositories/password_reset_token_repository.py`, `api/routes/auth.py` | token rows, users, mail that was sent | request_reset, reset_password | email sender, users table | check and use in separate transactions, expiry, deletion, mail failure | a token works once, for its owner, while he exists |
| **WebSocket rooms** `api/websocket/manager.py`, `api/routes/ws.py` | sets of sockets per room; the coroutine of every socket | connect, disconnect, broadcast, broadcast_all | JWT check, Starlette's WebSocket, the clients | every await is a point of interleaving; clients die at any time | rooms hold who is there; a dead client harms nobody else |
| **Navigation** `services/navigation_service.py`, `services/nav.py`, `core/events.py`, `ui/adapter.py`, `ui/router.py`, `ui/layouts/`, `views/login.py` | two stacks, the page of the adapter, the route of each page, what it shows | visit, back, forward, clear; route_change, view_pop; sign in and out | Flet's page, ServiceAuthAdapter | the echo of page.go, redirects from inside a handler, one service behind several pages, URLs typed by the user | the stacks are a history with a cursor; the page that is bound is at its current entry |
| **Registries and wiring** `database/session.py`, `services/cache_registry.py`, `main.py`, `_service_cache` of the routes | named factories and adapters, the services built from them | register, get; rebuild on `vault.unlocked` | everything | references to replaced factories, first requests that race | the interface is on the primary database; what is staged is found again |
| **Admin probes** `views/admin/databases.py`, `caches.py`, `services/connection_tester.py`, `cache_tester.py` | status dictionaries shared by all views of a class; the probe tasks | open, refresh, probe | registries, worker threads | probes that overlap refreshes, other pages and unlocks | "connecting..." is answered; a refresh renews |
| **Rate limiter** `api/rate_limiter.py`, `api/v1.py` | lists of timestamps, or sorted sets in Redis | one check per request | CacheRegistry, all routers | concurrent checks, shared keys, a switch to Redis while requests run | no 429 below the limit, no more than the limit admitted |
| **Users and roles** `repositories/`, `services/role_service.py`, the routes, `auth/` | users, roles, memberships; tokens | create, delete, assign, remove, login, require_roles | database, staged operations | transactions that read, then write | unique names, no dangling membership, no lost assignment |
| **Manage views** `views/manage/`, `adapters/users_adapter.py`, `roles_adapter.py` | the page of a list, what is shown | previous, next, search, add, delete | users and roles | the count and the rows are two reads; pages shift | nobody is stranded beyond the last page |
| **Products** `services/product_service.py`, `repositories/product_repository.py`, `views/product_detail.py` | products; the form of the detail view | create, update, delete, edit, save | database | read, then write the columns that changed; a form that is older than the row | updates of different fields do not undo each other |
| **Scheduler**, **API server and mounting**, **Pong demo**, **Redis, file, HTTP and email adapters**, **configuration, migrations, hashing, plain views** | see [Not modelled](#not-modelled) | | | | |

All paths are under `src/lib/` except `games/` and `main.py`.

### Interactions

* A request reaches `execute` of a service in a thread of the pool.
  `SimpleService.execute` turns exceptions into `ActionResult(success=False)`,
  so a handler that raises half-way leaves its state behind and the process
  goes on. `Staging` and `PasswordReset` model exactly that.
* `get_service` of the users routes keeps one `UserService` per factory, so all
  threads share `_pending` (`Staging`) until the vault registers another
  factory (`Backends`).
* `.secrets/.env` is both the key file of the vault and the settings file of
  `AppConfig`; `flex-encrypt` is a second process on the same files (`Vault`).
* An unlock publishes `vault.unlocked`, whose handler registers databases and
  caches one by one and rebuilds the backend. Admin views probe the registries
  meanwhile, and a rate limiter asks whether there is a cache "redis": `Probes`
  and `RateLimit` extend `Backends`, and so run beside every unlock.
* All pages share one `NavigationService`, one adapter that is bound to the
  page opened last, and one signed-in user per backend (`Navigation`,
  `Backends`).
* Manage views call the same repositories as the API, in the event loop:
  `ManageUsers` extends `Accounts`, and so runs beside every request.
* The sockets of a room meet only in `ConnectionManager._rooms`, at the awaits.

## Modules

| module | what it is |
|---|---|
| `StagingSlot` | abstract: a place in which one change waits; stage, confirm, discard, and writes beside it |
| `Staging` | the threads of the API on one `StagingService`, the Sessions, the pool, the database's locks |
| `Vault` | both files, the services in their processes, browser sessions and a flex-encrypt command |
| `PasswordReset` | requests and resets of concurrent threads, the clock, deletions, crashes |
| `WsRooms` | `ConnectionManager`, one `ws_endpoint` per socket, and a caller of `broadcast_all` |
| `History` | abstract: a browser-like history, entries and a cursor |
| `Navigation` | the service with its two stacks, the adapter, the router, the views that redirect, several pages and their events |
| `Backends` | start-up, the registries, unlocks that rewire them, sessions, and the routes' `_service_cache` |
| `Probes` | extends `Backends`: the admin views and their probe tasks |
| `RateLimit` | extends `Backends`: both limiters of the /v1 router, the local dictionary, the Redis pipeline |
| `Accounts` | users, roles, memberships and bearer tokens under concurrent requests |
| `ManageUsers` | extends `Accounts`: the manage views with their pages |
| `Products` | products under concurrent requests, and the form of the detail view |
| `StagingProofs`, `VaultProofs`, `PasswordResetProofs`, `WsRoomsProofs`, `NavigationProofs`, `ProductsProofs` | theorems about the module of that name |
| `BackendsProofs`, `AccountsProofs` | theorems about `Backends`, `Probes` and `RateLimit`, about `Accounts` and `ManageUsers` |
| `MC...` | instances for TLC: symmetry, and which actor calls which service |

### Staging

`pending` is `self._pending`. A Session is an identity with a state (`free`,
`none` = no transaction, `open`, `broken` = a statement failed and nobody has
rolled back yet) and the user that its transaction has inserted. A thread has a
program counter, the request's name, the Session in its local variable and the
outcome of its call. Every access to `self._pending` is a step of its own,
since CPython may switch threads between any two of them: `stage` is `StageIf`,
`Rollback`, `Close`, `Clear`, `Connect`, `Insert`, `Roles`, `Assign`, and each
has the form in which it raises. After an exception `self._pending` is what the
code leaves there: this is how `RolesRaise` loses a flushed transaction, which
only `Gc` ends (the `before_flush` listener makes a reference cycle).

The database is external: unique names, and a lock that PostgreSQL takes per
key and SQLite per file. A waiting INSERT is an action that is not enabled; on
SQLite the busy timeout makes it fail instead. SQLAlchemy's rule that a Session
can be used after `close()`, and then commits an empty transaction
successfully, is what `Commit` answers as "vacuous".

Each operation maps to the code as `PROJECT.json` says, `map`. The abstract
`StagingSlot` sees only `Staged` (the user of the pending unit of work, while
its transaction is open) and the table.

### Vault

`env` and `vault` are the two files, `master` and `secrets` the fields of each
`VaultService`. A write is two steps, `open(path, "w")`, which truncates, and
the write. A process starts (`Launch`, the constructor reads the key), ends
between calls, and crashes anywhere when `Faults` says so; `"io"` makes a write
raise. `OpenView` is the security view, which bootstraps whenever the status is
not ready. History variables: `kept` is what was saved and neither deleted
since nor overwritten by a save whose snapshot lacks it (`fresh` says whose
does not); `bare` is the part of it that came in a `vault.json` without
`.secrets/.env` and has not been saved since, which the first bootstrap
destroys; `faulted` is whether a crash or the disk has hit a call. A bootstrap
changes none of them. The initial states are the combinations of files a
deployment can start with.

### PasswordReset

Each database transaction is a step: the lookup by email, the insert of the
token, the lookup of a valid token, `mark_used`, the update of the user. The
clock, an administrator who deletes users, mail that fails and a crash run in
between, and each of the steps has a form in which it raises (`Fails`): the
update raises after the token was consumed, which the code allows for.
`Cascade` says whether the database enforces the foreign key, which PostgreSQL
does and SQLite, as configured here, does not. History: `changes` counts the
passwords a token has set, `cut` has the tokens whose call failed right after
it consumed them, and `late` the requests that began after their token had been
consumed (`spent`).

### WsRooms

A step runs from one await to the next. `todo` is what is left of the snapshot
that `broadcast` iterates, `dead` its dead set; `SendLast` and `NoticeLast` are
the last send together with the pruning that follows without an await. The
client and Starlette's WebSocket are external: a send may still succeed after
the client is gone, then raises, and after that `receive_json` raises
RuntimeError, which `ws_endpoint` does not catch (`After`).

### Navigation

`nav` holds `_back_stack` and `_forward_stack`. A handler runs to its end in
the event loop, so a step is one handler: a click changes the stacks, publishes
`nav.route_changed`, and the adapter calls `page.go` on the page it is bound
to. What Flet does is external: the event arrives later (`queue`), in order
unless the user changed the URL in between (`Browse`), and is dropped for the
route the page already has. `Deliver` is `route_change`: the service visits the
URL, the view is built, and a protected one without a user visits `/login` from
inside (`RouteChange`). The refinement mapping to `History` is `back \o
Reverse(forward)` with the length of `back` as the cursor.

### Backends and Probes

A factory is its name and its generation, the number of registrations of the
name. `RegisterDatabase` and `RegisterCache` are single steps of the handler of
`vault.unlocked`, since API threads run in between; `Rebind` is its end.
`GetService` and `MakeService` are the two halves of the unlocked lookup in
`_service_cache`; two requests that are between them for the same factory have
`raced`. The interface works on `config.primary_database`, the API on the
database named "postgres" (`Default`), and `user_repo`, which `main` hands to
every view, stays what the start-up made it. In `Probes` a view schedules a
task; the task reads the shared statuses (`StartProbe`), its worker threads ask
(`Measure`), and it resumes (`EndProbe`) after any number of refreshes, other
views and unlocks.

### RateLimit

A request is a call with a place in `_check_redis` or `_check_local`. `Enter`
asks `_redis_available`, whose answer is the registry of `Backends`, so the
switch to Redis comes in the middle of an unlock; `TakeTime` reads the clock.
`CheckRedis` is the whole pipeline, a transaction of Redis, and `RedisFails` a
pipeline that raises: its answer may be lost after Redis has run it, and Redis
may run it later (`RedisRuns`), so a request that failed can count; `ReadLocal`
and `StoreLocal` are the two halves of `_check_local`, between which other
threads run. An entry of the dictionary's list is the call that appended it:
its time is the call's, calls with equal times are different entries, and the
length of a list is a cardinality. In Redis the members of the sorted set are
the times themselves. `alone` says whether another call that counts in the same
place was under way at the same time.

### Accounts, ManageUsers and Products

A request that changes rows is a transaction: what it reads is kept in `th[t]`,
and its commit looks at the rows of that moment, as the database does, through
the unique indexes, primary keys and foreign keys. What SQLAlchemy writes at a
flush is external and modelled by what it does: only the columns that differ
from what was read, only the memberships that were added or taken away, an
error if a row it updates or a membership it deletes is gone. `ForeignKeys` is
TRUE on PostgreSQL and FALSE on SQLite, the fallback, where an assignment that
races with a deletion inserts a row that points nowhere: such rows are
`astray`, and the joins that make `users[id].roles` do not reach them. A view's
handler calls the database once or twice, in the loop's thread; API threads
commit in between.

`users` is a function from the ids of the rows there are to the rows; ids are
drawn upwards and never again, except that the body of a request may give a new
role the id of a deleted one (`GivenIds`). Its domain in order is the table:
`Place(id)` is the number of rows up to id, and `PageRows` the ids whose place
is on a page.

## Runs

| run | instance | shows |
|---|---|---|
| `StagingSequential` | 1 thread, SQLite, all operations, failing commits | alone on the service, a caller gets what stage and confirm promise, and nothing deadlocks |
| `StagingPostgres` | 2 threads, 2 names, all operations, row locks | the service implements `StagingSlot`; every write is answerable to a request or a previewed stage; a dead unit of work is about to be cleared; total waiting is waiting for the staged user |
| `StagingLiveness` | 2 threads, row locks, failing commits and rollbacks, fairness | every call returns if what is staged is confirmed or cancelled again and again |
| `VaultFiles` | one browser session and flex-encrypt, crashes and disk failures anywhere, all initial files | until a call is hit by a failure, the key on disk opens the vault on disk; after any failure, `vault.json` is torn or has all that was saved here |
| `ResetTwoThreads` | 2 threads, foreign keys, expiry, deletions, crashes, failing mail | a consumed token has set its password, or is about to, or its user is gone, or that very step raised or crashed; tokens do not outlive users; a request that begins after a token was consumed does not use it |
| `Rooms` | 2 sockets, 2 rooms, broadcast_all, malformed frames, fair event loop | no empty room, who left stays out, broadcasts reach whoever is there, the dead are pruned; a client that is gone leaves its room unless its endpoint crashed |
| `Pages` | 2 pages, 3 URLs, one of them protected and failing, 5 navigations, fair events | the stacks are a history; the page that is bound ends up where the history is; an echo leaves the history alone; a redirect arrives |
| `Wiring` | 2 databases, each of them primary, a cache, 3 API threads, an unlock | the interface ends on the primary database's factory, and so do requests where that is the API's database; a staged operation is found again unless its factory was replaced or first requests overlapped |
| `AdminProbes` | 2 pages, a database and a cache, 3 tasks, an unlock, fair tasks | a card that says connecting is answered; a refresh renews |
| `Limiters` | 3 requests, 2 hosts, limits 2 and 1, a window of 2 ticks, an unlock | a 429 only beyond the limit, failed requests that Redis counted included; no more admitted than the limit by requests that neither overlap nor share a time |
| `Accounts` | 2 API threads and the loop, 3 users, 2 roles, pages of 2, foreign keys | names stay unique and memberships between existing rows; an assignment lasts until it is taken away; an empty page has a way back |
| `Products` | 2 API threads and the loop, 2 products, 2 fields, 2 values | names stay unique; what was answered with success is stored |

Every property has a mutant in `PROJECT.json`: a plausible bug in a mapped
definition under which the run refutes the property. What a document or a
comment says and the code does not do is no property;
[Disagreements](#disagreements) lists it, and which property bounds it.

`CHECK_DEADLOCK FALSE` is set where the system really stops, or where the model
has used up a bound on what users do: on PostgreSQL all threads can wait for
the lock of a staged user that nobody confirms (this is the state
`DeadlockOnlyBehindPending` describes), rooms end with their sockets, and
`Pages`, `AdminProbes`, `Limiters`, `Accounts` and `Products` count calls and
clicks. `StagingSequential`, `VaultFiles`, `ResetTwoThreads` and `Wiring` check
deadlock.

## Bounds and fairness

* Staging: two threads are enough for every race on `self._pending`, because a
  step reads or writes it once and each hazard is one thread's write between
  two reads of another. Three Sessions are one pending, one held and one orphan
  (or one per thread and one pending); two connections let the pool run out.
  Two names make the wrong name distinguishable from the right one. The
  theorems lift all of these bounds except for liveness, and they hold for both
  backends and with rollbacks that raise, where two threads on SQLite have no
  run.
* Vault: three keys are the initial one and two bootstraps; two secrets tell a
  part of a snapshot from the whole; two actors race. The browser sessions of
  the application are one actor: their handlers are synchronous, and the event
  loop runs one to its end before the next.
* PasswordReset: two tokens and two users tell the owner from another user;
  `TTL = 1` and `MaxTime = 2` let a token expire before, during and after a
  call and be followed by another one. The clock stops at `MaxTime`; `Tokens`
  bounds the requests.
* WsRooms: two sockets, one room each or both in one, and two frames give a
  sender with a live or dead receiver, and with the notice three broadcasts
  that overlap the joins and leaves of both. The theorems cover any number of
  them. `MaxFrames` and `MaxNotices` bound what clients and the server send.

* Navigation: two pages are one that is bound and one that was; three URLs are
  the home page, the login page and a protected one, whose view may also fail.
  Five navigations are enough for a redirect, a step back, a visit that drops
  the forward stack and two navigations that overlap. `MaxSteps = 2` includes
  the 0 that back and forward refuse.
* Wiring: a second database distinguishes the primary one from the default one;
  each of them is the primary one in some behaviours. Start-up and an unlock
  give two generations, so a session, a service and a request may be on the old
  one while others get the new one. Three threads are two that make a service
  each and one that comes later. Probes have one unlock and three tasks: two
  that overlap and one after them.
* RateLimit: limits of 1 and 2 tell the limiters apart, and three calls exceed
  either, all at once or one after another; a clock that goes to 2 moves the
  window of 2 past the first calls. One unlock registers Redis before, between
  or after the steps of a call. The theorems lift these bounds.
* Accounts: three users in pages of two are two pages, the second of which a
  deletion empties; two threads race for a row while the view reads. `MaxCalls`
  counts requests and clicks. The run has the foreign keys of PostgreSQL; the
  theorems hold without them as well. Ids count up, because a page is ordered
  by them.
* Products: two products compete for a name; two fields are the unique one and
  another. The theorems lift these bounds.

Fairness. `Staging!Fairness` is strong for the steps of a thread: PostgreSQL
wakes a session when the lock it waits for is released, and the lock may be
taken again in between; it is weak for `Gc`, which Python runs while memory is
allocated. No fairness is assumed of clients (`Call`); `CallsReturn` says under
which behaviour of theirs it holds. `WsRooms!FairSpec` is weak for every
coroutine, as asyncio's ready queue is: a send returns because uvicorn's
keepalive gives up a peer that does not answer. Nothing is assumed of clients
here either. `Navigation!FairSpec` is weak for the handling of events: Flet's
client answers `page.go`, and the loop handles what has arrived.
`Probes!FairProbesSpec` is weak for tasks that were scheduled, for their worker
threads, which every connection's timeout ends, and for the handler of
`vault.unlocked`, which runs to its end. The others have no liveness property:
a step that does not happen there is a request or a process that has ended.

## Proofs

`tlapm` proves these for every value of the constants that satisfies the named
assumptions of the module (`NoName \notin Names` and the like: distinct nulls,
a positive pool, known flags). All are safety.

**Staging** (`StagingProofs`). The invariant `IInv` is type correctness and:
rows of open transactions are exclusive and new to the table (`RowsExclusive`);
a Session in a local variable belongs to one thread and is not pending
(`HeldIsPrivate`); what it holds at each step (`HeldRow`); what is pending, if
open, was previewed and holds a user (`PendingStaged`). The refinement needs
the first of them: a confirm may be a step of the abstract slot only if its
name is not in the table, and no test in the code says so, only the locks do.
`Refinement` shows step by step that each action is one of `StagingSlot`'s or
leaves the slot alone; `AnswerableWrites` needs `PendingStaged`;
`DeadPendingCleared` assumes `"rollback" \notin Faults`: a rollback that raises
leaves a dead unit of work pending; `DeadlockNeedsPending` is a consequence of
`HeldRow`: a thread that waits holds no lock. `ConfirmHasWritten` and
`PreviewStays` are about a service with one caller (`OneThread`), what the
interface promises and several threads break. The first rests on
`DeadPendingCleared`: only a commit of a unit of work that is no longer open
answers "vacuous" (`VacuousSteps`), and the one thread cannot be at that commit
and on its way to clear. The second adds where a stage stands (`StagesAlone`).

**WsRooms** (`WsRoomsProofs`). The invariant adds to the properties: a socket
is in no room but its own and only while its endpoint lives or has crashed
(`MembersBelong`); snapshots and dead sets hold only sockets that have joined,
and the dead are gone (`Snapshots`), so that no later `Join` brings back
somebody a finished broadcast has pruned; where each coroutine works
(`Places`). The lemma `Removal` says what `discard` and `pop` on the
defaultdict do.

**PasswordReset** (`PasswordResetProofs`). `CallsKnow` is what a call knows at
each step whatever others did meanwhile, `Issued` that a token is issued once.
Four theorems follow: with foreign keys no token outlives its user; no consumed
token is lost, unless the step right after its consumption raises or crashes
(`cut`); with one thread, crashes or not, a token sets one password (`Spent`).
With more threads that is false, and `UsesOverlap` is what is left of it: a
token for which `mark_used` was called is never valid again, whatever fails
afterwards (`SpentIsInvalid`), so a request that begins later does not get
beyond `find_valid`, and all uses overlap.

**Products** (`ProductsProofs`). `AnsweredIsStored` is not inductive: an update
does not write a field whose value it has read already, and relies on that
value being there still. `Unmet` says that it is: a field nobody else has
written since a transaction read the row is as it was read. Each commit is its
own lemma, `MeetThreads` says what a commit does to the transactions of the
others, and `NextIInv` puts the view and the API together.

**Vault** (`VaultProofs`). `SavedWholeOrTorn` rests on what is in memory and on
what is about to be written: a service that is fresh holds all that was saved
(`Snapshots`), so does what it is writing, which is no more than it holds
(`Pending`), and before there is a file nothing was saved (`NothingYet`). That
a bootstrap overwrites nothing that was saved is the other half (`BootsAlone`,
part of `BootInv`): while one is under way nothing that counts as saved is on
disk, no command is unlocked, and none holds the key of the file about to be
replaced; without `.secrets/.env` nobody has a key, so what is in `vault.json`
came with it (`BareStart`). The theorem assumes one application (`OneSession`)
and that no two actors share a service (`OneCaller`), which the event loop
gives. Crashes and disk failures are allowed everywhere. The types
(`TypeCorrect`) include that what is written is sealed with a generated key,
and need no such assumption.

`Readable` proves `VaultReadable` for one application and any number of
flex-encrypt commands. It is far from inductive: while a bootstrap is between
its two files these do not belong together, and commands start, unlock and save
meanwhile. `ReadInv` has three parts: the keys in memory against the files
(`KeysInv`: an unlocked service has the key on disk, and so has whoever could
open the file), who calls what (`CallsInv`: only the session bootstraps, and
who writes is unlocked with the key it writes), and where a bootstrap stands
(`FilesInv`: it begins where nobody can have unlocked the vault, `Locks` and
`HalfThere`; a torn settings file is one that is being written, `TornEnv`; from
then on the key on disk is the one the session is about to seal with, `NewKey`
and `ViewKey`; and the files belong together unless a step of it is missing,
`Together`). The property says nothing after a fault, and the invariant is
claimed only before one.

**Navigation** (`NavigationProofs`). `Refinement` says that every click, event
and redirect opens pages after the cursor, moves the cursor, forgets all but
the current page, or leaves the abstract `History` alone. The mapping is `back
\o Reverse(forward)`, so the proof begins with lemmas about reversed and
concatenated sequences; `VisitOpens`, `BackMoves`, `ForwardMoves` and
`ClearKeepsCurrent` say what one operation of the service does to the stacks,
`NextPast` what a step does to the history. `BoundPageFollows` says where the
bound page is once it has handled its events; the inductive form, `Synced`,
covers the time until then: while that page and the service are at different
URLs, some event under way will move the page. `EchoKeepsHistory` needs that at
most one event is under way on a page if no two navigations have overlapped
(`OneUnderWay`).

**Backends and Probes** (`BackendsProofs`). `InterfaceOnPrimary` says nothing
while the handler of `vault.unlocked` is at work. The handler ends by building
the backend anew if it has registered the primary database; `OnFallback` covers
the other end: nothing is ever unregistered, so a primary that is missing has
been missing all along, and the interface is on SQLite. The property also
speaks of requests; for these it takes that no service is ahead of the registry
(`Behind`). `TypeOK` bounds the number of services: a request makes one only if
it found none in the cache for that factory, so the services of one factory
have different makers (`Makers`, an injection from services to threads and
generations). `StagedIsReachable` rests on `Singles`: a factory that was not
raced for has no service and at most one request that will make it, or just the
one in the cache. `RefreshRenews` rests on what is in flight: what a probe has
measured is not older than the last refresh that met no probe of its kind
(`Sound`). That a name was registered when it was asked for, which the code
relies on, goes back to the cards of the view (`Shown`) and to each number
being of one view, whatever page shows it and whatever task it has (`ViewsOK`).
The wiring's invariant is proved once and used under every step of the probes.

**RateLimit** (`BackendsProofs`). Both properties are about a count, so each is
a comparison of two sets. A 429 needs that whatever was counted is a call that
was decided for that place and host (`Entries`, `Members`, `Reads`): the list
is a subset of the calls in the window, and these map onto the times in the
sorted set. An admission needs the converse, that no call in the window was
missed. Overlapping checks of the dictionary do lose calls, and then the
property says nothing; what it rests on is that a call that met nobody is never
lost. It stays where it counts until it leaves the window (`Kept`), and in
every list that another thread holds between `ReadLocal` and `StoreLocal`
(`ReadsKept`), since who is alone has nobody beside him (`Apart`). So a call
that is alone has missed nothing of its own window (`Fresh`). `DecisionAdmits`
then needs only that the count is at least the number of calls: by inclusion in
the dictionary, by an injection into the times in Redis, for which these must
differ. Windows end at the time of a call, not at that of the decision; the
clock may have moved in between.

**Accounts and ManageUsers** (`AccountsProofs`). `RowsInv` is about the tables:
names are unique, the memberships a join finds are between rows there are and,
with foreign keys, no others are left; ids of users count up, and what was
granted speaks of ids that were given (`GrantedBefore`), so that a new user
inherits nothing. A new role may have the id of a deleted one, whose deletion
has taken back what was granted of it. Each commit has a lemma about the rows
alone, whichever thread or view makes it; `ThreadsInv` and `PaneInv` are
carried beside it. `AssignmentKept` is part of `RowsInv`: a commit that assigns
or removes one role leaves the other memberships as they are at that moment,
not as they were when the request read them. `NeverStranded`, an action
property, needs arithmetic on pages (`PagesForFacts`, from the division
theorem) and that the count a view has read is no more than the ids that were
given (`PagesGrow`); that a first page has somebody on it is the existence of a
least id (`FirstUser`).

Only model-checked is liveness (`CallsReturn`, `GoneLeaves`, `RedirectArrives`,
`ConnectingIsAnswered`): fairness and ENABLED are out of the prover's reach.

## Disagreements

Where the code does something else than its documentation, comments or tests
say, or than a user would expect. The models contain these behaviours; the
properties that hold are stated so that they do not hide them.

* **Staging.** confirm answers `{"confirmed": True}` with nothing written,
  after another thread's stage or cancel rolled the pending work back
  (`interfaces.py:94`). A `rollback()` that raises leaves a dead unit of work
  in `self._pending`, and the next confirm answers success (`RollbackRaises`,
  then `Commit`). A role id that is no UUID raises after the user's INSERT was
  flushed and leaves an open transaction, its lock and its connection to the
  garbage collector (`RolesRaise`, `Gc`). Of two concurrent cancels one fails
  on `None`. A `with` block that ends without `commit()` is rolled back,
  against the docstring of `unit_of_work` (`WithBody`, `WithExit`).
* **Vault.** A deployed `vault.json` without `.secrets/.env` is overwritten by
  the first visit of the security view (`vault_service.py:189`): the guard asks
  whether both files are there. `tests/test_vault_service.py:208` says that
  bootstrap "won't overwrite an existing vault", and `VAULT_USAGE.md:421` that
  the file may be committed. `SavedWholeOrTorn` excepts those secrets, and only
  those. A bootstrap truncates a `.secrets/.env` that holds other settings
  (`EnvOpen`). The application's save erases what flex-encrypt wrote after the
  unlock (`vault_service.py:159`). A bootstrap whose second write fails leaves
  both files, and every retry is refused (`BootRefused`). A save without a
  confirm key is persisted (`Save`).
* **Password reset.** Two requests with one token can both set a password: the
  check and the use are two transactions (`user_service.py:238`), although the
  comment at line 237 says "prevents reuse"; `UsesOverlap` says that nothing
  but such an overlap does it. An exception after the token was consumed spends
  it for nothing (`UsedMeansSet` says that it is only the very next step). With
  `Cascade = FALSE`, as SQLite is configured, tokens outlive their users. A
  token that expires after `find_valid` still works.
* **Rooms.** After a failed send, a client's leaving is never announced, and
  its socket stays in the room: `ws.py:77` catches only `WebSocketDisconnect`.
  A frame whose payload is no object ends the endpoint with a TypeError
  (`RelayMalformed`), although the comments beside it say that malformed frames
  keep the connection alive.
* **Navigation.** Two navigations that overlap, say two quick clicks on "back",
  let the echo of the first cut the forward stack off. The browser's own back
  button is a visit. `view_pop` leaves a blank page. One session's clicks move
  the page that was opened last.
* **Wiring.** The interface uses `PRIMARY_DATABASE`, or SQLite if that is
  missing, and the API always "postgres" (`main.py:134`, `users.py:42`),
  although `server.py:4` and `main.py:181` say that they share their database;
  `InterfaceOnPrimary` says what each of them has. `user_repo` (`main.py:213`)
  stays what the start-up made it. Registering a database anew leaves the old
  factory's pool open, the operations staged on its service unreachable, and
  everybody signed out, as the new backend has no user. Two first requests may
  get different services, so that what one of them stages cannot be confirmed,
  which the comment at `users.py:33` rules out; `StagedIsReachable` says that
  it takes one of these two.
* **Probes.** A view that was opened while another one cleared the statuses may
  say "connecting..." until it is opened again. A refresh probes the names the
  view was opened with.
* **Rate limiter.** In Redis both limiters of a host share one key, so requests
  use up the budget of a login, although `SECURITY.md:60` and `:130`
  give logins one of their own. A request that fails because the answer of Redis is lost may count.
  Once Redis is registered, a server that goes away makes requests fail,
  without the fallback to memory. Concurrent checks in memory overwrite each
  other's timestamps, although `SECURITY.md:122` calls it safe for one process;
  in Redis, equal times count once.
* **Users and roles.** The manage view says "Created" and "Deleted" whatever
  the service answered (`views/manage/users.py`), and its search text is never
  used. A token carries its roles until it expires. Without ORDER BY
  (`base.py:84`) a page of users is in whatever order the database has; the
  model takes the order of ids. On SQLite, where nothing sets `PRAGMA
  foreign_keys`, an assignment that races with a deletion leaves a membership
  of nobody and is answered with success (`user_repository.py:33`, against its
  docstring). A deletion of a role that fails raises out of the view's handler
  (`DropFails`). A role can be created with an id of the client's choice.
* **Products.** The form sends all fields as they were when the view was built,
  so saving one of them undoes what the API has changed in the others. PATCH
  `/products/{id}` updates another product if the body has an `id`.

## Not modelled

What only reads (`get`, `list`, `status`, flex-decrypt, the lists of products)
changes nothing and appears where a view keeps what it has read. Hashing and
encryption are modelled by the one fact that a blob opens with its own key.

* **Scheduler**: a thin wrapper around APScheduler, which holds all the state
  and is not in the repository; `main.py` adds no job.
* **API server, mounting, logging**: set up once, before the first request.
* **HTTP adapters**: the alternative to `ServiceBackendAdapter` that nothing
  wires.
* **Redis, file and email adapters**: stateless calls of libraries; that they
  fail is a choice in the models of those who call them.
* **Configuration, migrations**: read or generated once.
* **Pong demo**: floating-point geometry of one task, apart from the framework.
* **Layouts, components, plain views**: Flet controls without state of their
  own; their clicks are actions of `Navigation` and `ManageUsers`.

## Plan

Every component whose state several actors share is modelled, and every safety
property that a run checks is proved for every value of the constants. What is
left:

1. `Vault`: what the other settings in `.secrets/.env` are worth, which a
   bootstrap drops.
2. `Backends` with `Staging`: that a confirm through a service that is no
   longer the cached one finds nothing, in one composed run.
3. `PasswordReset` without foreign keys: what a token that outlives its user
   may still do.
