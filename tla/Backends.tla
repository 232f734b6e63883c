------------------------------- MODULE Backends -------------------------------
(***************************************************************************)
(* Backends: how main.py wires the application to its databases, and       *)
(* rewires it each time the vault is unlocked, while the threads of the    *)
(* HTTP API go on looking their database up.                               *)
(*                                                                         *)
(* The user interface runs in one event loop: its handlers do not overlap, *)
(* but the handler of "vault.unlocked" registers one connection after the  *)
(* other, and a request of the API may see the registry in between.  The   *)
(* interface works on config.primary_database; the API asks the registry   *)
(* for its default name, "postgres", whatever the primary one is.          *)
(*                                                                         *)
(* Abstracted: a SessionFactory or a cache adapter is its name and its     *)
(* generation, the number of registrations of that name; URLs, passwords   *)
(* and the rows of the databases are left out.                             *)
(***************************************************************************)
EXTENDS Naturals, Sequences, SequencesExt, FiniteSets

CONSTANTS
  Databases,   \* names of databases
  Caches,      \* names of cache adapters
  Default,     \* "postgres", the name ConnectionRegistry.get assumes
  Sqlite,      \* the fallback ./dev.db, which no registry knows
  Threads,     \* worker threads of the API
  MaxUnlocks   \* bounds the unlocks of the vault

ASSUME DefaultAssumption == Default \in Databases /\ Sqlite \notin Databases
ASSUME NamesAssumption   == Databases \cap Caches = {} /\ IsFiniteSet(Databases \cup Caches)
ASSUME ThreadsAssumption == IsFiniteSet(Threads)
ASSUME UnlockAssumption  == MaxUnlocks \in Nat

VARIABLES
  primary,   \* config.primary_database
  registry,  \* per name: the generation registered, 0 if none
  ctx,       \* _ctx: the backend, and the database of the services in it
  user_repo, \* the factory of the views' "user_repo"; {} if that is None
  sessions,  \* the backends whose auth adapter holds a signed-in user
  todo,      \* what the handler of vault.unlocked has yet to register
  rewiring,  \* whether that handler is under way
  unlocks,
  services,  \* the UserServices the API made: the generation of their factory
  cache,     \* _service_cache: per generation of Default, a service or 0
  req,       \* per thread: the request it is at
  staged,    \* the services with a staged operation
  raced      \* history: the generations that two requests missed at once

wiring == <<primary, user_repo, registry, ctx, sessions, todo, rewiring, unlocks>>
api    == <<services, cache, req, staged, raced>>

Names == Databases \cup Caches
Generations == 0 .. MaxUnlocks + 1
Factories == (Databases \X Generations) \cup {<<Sqlite, 0>>}
Idle == [pc |-> "idle", gen |-> 0, service |-> 0]
MaxServices == Cardinality(Threads) * (MaxUnlocks + 1)

TypeOK ==
  /\ primary \in Databases
  /\ registry \in [Names -> Generations]
  /\ ctx \in [backend : 1 .. MaxUnlocks + 1, users : Factories, products : Factories]
  /\ user_repo \subseteq {<<primary, 1>>}
  /\ sessions \subseteq 1 .. ctx.backend
  /\ todo \subseteq Names /\ rewiring \in BOOLEAN /\ (todo # {} => rewiring)
  /\ unlocks \in 0 .. MaxUnlocks
  /\ services \in Seq(Generations) /\ Len(services) <= MaxServices
  /\ cache \in [Generations -> 0 .. Len(services)]
  /\ req \in [Threads -> [pc : {"idle", "missed", "ready"}, gen : Generations,
                          service : 0 .. Len(services)]]
  /\ staged \subseteq DOMAIN services /\ raced \subseteq Generations

-----------------------------------------------------------------------------
(* The registries *)

Register(n) == registry' = [registry EXCEPT ![n] = @ + 1]

\* SessionFactory of a registered name
Factory(r, n) == <<n, r[n]>>

Registered(r, n) == r[n] # 0

\* _make_backend and ProductService for one factory
Wire(id, f) == [backend |-> id, users |-> f, products |-> f]

\* main: the databases of the environment whose URL is accepted are registered,
\* then the backend is made for the primary one, or for SQLite if there is none.
\* user_repo is made for the primary one only, and never again.
Startup(env) ==
  /\ registry = [n \in Names |-> IF n \in env THEN 1 ELSE 0]
  /\ ctx = Wire(1, IF Registered(registry, primary) THEN Factory(registry, primary)
                   ELSE <<Sqlite, 0>>)
  /\ user_repo = IF Registered(registry, primary) THEN {Factory(registry, primary)} ELSE {}

Init ==
  /\ primary \in Databases
  /\ \E env \in SUBSET Databases : Startup(env)
  /\ sessions = {}
  /\ todo = {} /\ rewiring = FALSE /\ unlocks = 0
  /\ services = <<>> /\ cache = [g \in Generations |-> 0]
  /\ req = [t \in Threads |-> Idle] /\ staged = {} /\ raced = {}

-----------------------------------------------------------------------------
(* The security view unlocks the vault *)

\* no handler occupies the event loop
LoopFree == ~rewiring

\* vault.unlocked: the handler reads the keys; names are those it will register,
\* the ones whose URL is rejected left out
Unlock(names) ==
  /\ LoopFree /\ unlocks < MaxUnlocks
  /\ unlocks' = unlocks + 1
  /\ rewiring' = TRUE
  /\ todo' = names
  /\ UNCHANGED <<primary, user_repo, registry, ctx, sessions>>

RegisterDatabase(n) ==
  /\ n \in todo \cap Databases
  /\ Register(n)
  /\ todo' = todo \ {n}
  /\ UNCHANGED <<primary, user_repo, ctx, sessions, rewiring, unlocks>>

\* _register_caches_from_vault, after the databases
RegisterCache(n) ==
  /\ n \in todo /\ todo \subseteq Caches
  /\ Register(n)
  /\ todo' = todo \ {n}
  /\ UNCHANGED <<primary, user_repo, ctx, sessions, rewiring, unlocks>>

\* Mutant of Rebind: the database of the startup is kept once there is one.
RebindOnce ==
  /\ rewiring /\ todo = {}
  /\ rewiring' = FALSE
  /\ ctx' = IF Registered(registry, primary) /\ ctx.users[1] = Sqlite
            THEN Wire(ctx.backend + 1, Factory(registry, primary)) ELSE ctx
  /\ UNCHANGED <<primary, user_repo, registry, sessions, todo, unlocks>>

\* a new backend, with nobody signed in, if the primary database is registered
Rebind ==
  /\ rewiring /\ todo = {}
  /\ rewiring' = FALSE
  /\ ctx' = IF Registered(registry, primary)
            THEN Wire(ctx.backend + 1, Factory(registry, primary)) ELSE ctx
  /\ UNCHANGED <<primary, user_repo, registry, sessions, todo, unlocks>>

-----------------------------------------------------------------------------
(* The login view keeps the backend it was built with, which may be an old one *)

SignIn(backend) ==
  /\ LoopFree
  /\ sessions' = sessions \cup {backend}
  /\ UNCHANGED <<primary, user_repo, registry, ctx, todo, rewiring, unlocks>>

SignOut(backend) ==
  /\ LoopFree
  /\ sessions' = sessions \ {backend}
  /\ UNCHANGED <<primary, user_repo, registry, ctx, todo, rewiring, unlocks>>

-----------------------------------------------------------------------------
(* The requests of the API *)

\* Mutant of GetService: a missing service is not noticed.
GetServiceUnchecked(t) ==
  /\ req[t] = Idle /\ Registered(registry, Default)
  /\ LET g == registry[Default]
     IN  req' = [req EXCEPT ![t] = [pc |-> "ready", gen |-> g, service |-> cache[g]]]
  /\ UNCHANGED <<services, cache, staged, raced>>

\* the requests that found no service for a generation, and will make one
Missing(g) == {t \in Threads : req[t].pc = "missed" /\ req[t].gen = g}

\* ConnectionRegistry.get() and the lookup in _service_cache; a request that
\* finds no database fails
GetService(t) ==
  /\ req[t] = Idle /\ Registered(registry, Default)
  /\ LET g == registry[Default]
     IN  /\ req' = [req EXCEPT ![t] =
                      [pc |-> IF cache[g] = 0 THEN "missed" ELSE "ready",
                       gen |-> g, service |-> cache[g]]]
         /\ raced' = IF Missing(g) # {} THEN raced \cup {g} ELSE raced
  /\ UNCHANGED <<services, cache, staged>>

\* Mutant of MakeService: the new service is not kept.
MakeServiceUnkept(t) ==
  /\ req[t].pc = "missed"
  /\ services' = Append(services, req[t].gen)
  /\ req' = [req EXCEPT ![t].pc = "ready", ![t].service = Len(services')]
  /\ UNCHANGED <<cache, staged, raced>>

MakeService(t) ==
  /\ req[t].pc = "missed"
  /\ services' = Append(services, req[t].gen)
  /\ cache' = [cache EXCEPT ![req[t].gen] = Len(services')]
  /\ req' = [req EXCEPT ![t].pc = "ready", ![t].service = Len(services')]
  /\ UNCHANGED <<staged, raced>>

\* a request that stages an operation
Stage(t) ==
  /\ req[t].pc = "ready"
  /\ staged' = staged \cup {req[t].service}
  /\ req' = [req EXCEPT ![t] = Idle]
  /\ UNCHANGED <<services, cache, raced>>

\* ... and one that confirms or cancels what is staged, if anything
Settle(t) ==
  /\ req[t].pc = "ready"
  /\ staged' = staged \ {req[t].service}
  /\ req' = [req EXCEPT ![t] = Idle]
  /\ UNCHANGED <<services, cache, raced>>

-----------------------------------------------------------------------------
Rewire ==
  \/ \E n \in Names : RegisterDatabase(n) \/ RegisterCache(n)
  \/ Rebind

Interface ==
  \/ \E names \in SUBSET Names : Unlock(names)
  \/ \E backend \in 1 .. ctx.backend : SignIn(backend) \/ SignOut(backend)

Request(t) == GetService(t) \/ MakeService(t) \/ Stage(t) \/ Settle(t)

WiringStep == (Interface \/ Rewire) /\ UNCHANGED api
ApiStep    == (\E t \in Threads : Request(t)) /\ UNCHANGED wiring

Next == WiringStep \/ ApiStep

Spec == Init /\ [][Next]_<<wiring, api>>

-----------------------------------------------------------------------------
(* Properties *)

\* Whenever the handler of vault.unlocked is not at work, users and products of
\* the interface live in the very factory the registry holds for the primary
\* database, or in SQLite if it holds none.  If the primary database is the one
\* the API asks for, so does the service each request uses, but for a request
\* that found its service before the handler replaced the factory.  If it is not,
\* interface and API are on different databases, which server.py says they are not.
InterfaceOnPrimary ==
  LoopFree =>
    /\ ctx.users = ctx.products
    /\ ctx.users = IF Registered(registry, primary) THEN Factory(registry, primary)
                   ELSE <<Sqlite, 0>>
    /\ \A t \in Threads : primary = Default /\ req[t].pc = "ready" =>
         LET g == services[req[t].service]
         IN  ctx.users = <<Default, g>> \/ g < registry[Default]

\* What a request staged is in the service that the next request gets, which can
\* confirm or cancel it, unless its factory was replaced since, or the first
\* requests for its factory overlapped and each made a service (the comment on
\* _service_cache, that one instance handles the whole pair, does not see these two).
StagedIsReachable ==
  \A s \in staged : LET g == services[s] IN
    g = registry[Default] /\ g \notin raced => cache[g] = s
=============================================================================
