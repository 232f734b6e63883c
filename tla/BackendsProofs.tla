---------------------------- MODULE BackendsProofs ----------------------------
(***************************************************************************)
(* Proofs about Backends, Probes and RateLimit, for any databases, caches, *)
(* threads, pages, requests, limits and numbers of unlocks and tasks: the  *)
(* types, that the interface is on the factory of the primary database,    *)
(* when what was staged is within reach, that a refresh of an admin view   *)
(* renews, and that a limiter admits and rejects what it should.           *)
(*                                                                         *)
(* InterfaceOnPrimary says nothing while the handler of vault.unlocked is  *)
(* at work.  Two facts carry it across: the handler ends by building the   *)
(* backend anew, and, as nothing is ever unregistered, a primary database  *)
(* that is missing at its end has been missing all along (OnFallback).     *)
(* The services of the API are never ahead of the registry (Behind).       *)
(*                                                                         *)
(* How many services there are follows from naming each by the thread that *)
(* made it and its generation (Makers).  StagedIsReachable rests on there  *)
(* being one service per generation that was not raced for, or one request *)
(* that will make it (Singles); RefreshRenews, on what the probes under    *)
(* way hold (Sound); the rate limiters, on that what met no other call is  *)
(* never lost (Kept, ReadsKept, Fresh).                                    *)
(***************************************************************************)
EXTENDS Probes, RateLimit, FiniteSetTheorems, SequenceTheorems, TLAPS

\* as much of TypeOK as the argument needs
WiringOK ==
  /\ primary \in Databases
  /\ registry \in [Names -> Nat]
  /\ todo \subseteq Names /\ (todo # {} => rewiring)

OnFallback ==
  ~Registered(registry, primary) =>
    ctx.users = <<Sqlite, 0>> /\ ctx.products = <<Sqlite, 0>>

\* InterfaceOnPrimary, but for the requests of the API
Rebound ==
  LoopFree =>
    /\ ctx.users = ctx.products
    /\ ctx.users = IF Registered(registry, primary) THEN Factory(registry, primary)
                   ELSE <<Sqlite, 0>>

IInv == WiringOK /\ OnFallback /\ Rebound

-----------------------------------------------------------------------------
(* Facts about the operators *)

\* Both services of a new backend have its factory.
LEMMA Wired ==
  ASSUME NEW id, NEW f
  PROVE  Wire(id, f).users = f /\ Wire(id, f).products = f
BY DEF Wire

\* A registration gives a name its next generation, which is not 0, and leaves
\* the other names alone.
LEMMA Registration ==
  ASSUME WiringOK, NEW n \in Names, Register(n)
  PROVE  /\ registry' \in [Names -> Nat]
         /\ \A m \in Names : Registered(registry, m) => Registered(registry', m)
BY DEF WiringOK, Register, Registered

-----------------------------------------------------------------------------
(* The initial states and every step *)

LEMMA InitIInv == Init => IInv
<1> SUFFICES ASSUME Init PROVE IInv OBVIOUS
<1>1. PICK env \in SUBSET Databases : Startup(env) BY DEF Init
<1>2. WiringOK BY <1>1 DEF Init, Startup, WiringOK
<1>3. /\ Registered(registry, primary) =>
           ctx.users = Factory(registry, primary) /\ ctx.products = Factory(registry, primary)
      /\ ~Registered(registry, primary) =>
           ctx.users = <<Sqlite, 0>> /\ ctx.products = <<Sqlite, 0>>
  BY <1>1, Wired DEF Startup
<1> QED BY <1>2, <1>3 DEF IInv, OnFallback, Rebound

\* Registrations happen while the handler is at work, so the interface may lag
\* behind the registry.
LEMMA RegisterStep ==
  ASSUME IInv, NEW n \in Names, n \in todo, Register(n),
         todo' = todo \ {n}, UNCHANGED <<primary, ctx, rewiring>>
  PROVE  IInv'
<1>1. rewiring BY DEF IInv, WiringOK
<1>2. WiringOK' BY Registration DEF IInv, WiringOK
<1>3. OnFallback'
  <2>1. primary \in Names BY DEF IInv, WiringOK, Names
  <2>2. ~Registered(registry', primary) => ~Registered(registry, primary)
    BY <2>1, Registration DEF IInv
  <2> QED BY <2>2 DEF IInv, OnFallback
<1>4. Rebound' BY <1>1 DEF Rebound, LoopFree
<1> QED BY <1>2, <1>3, <1>4 DEF IInv

\* The handler ends with the interface on the primary database, or still on SQLite.
LEMMA RebindStep == IInv /\ Rebind => IInv'
<1> SUFFICES ASSUME IInv, Rebind PROVE IInv' OBVIOUS
<1>1. /\ UNCHANGED <<primary, registry, todo>> /\ todo = {}
      /\ ctx' = IF Registered(registry, primary)
                THEN Wire(ctx.backend + 1, Factory(registry, primary)) ELSE ctx
  BY DEF Rebind
<1>2. WiringOK' BY <1>1 DEF IInv, WiringOK
<1>3. CASE Registered(registry, primary)
  <2>1. ctx'.users = Factory(registry, primary) /\ ctx'.products = Factory(registry, primary)
    BY <1>1, <1>3, Wired
  <2> QED BY <1>1, <1>2, <1>3, <2>1
        DEF IInv, OnFallback, Rebound, Registered, Factory
<1>4. CASE ~Registered(registry, primary)
  <2>1. ctx' = ctx BY <1>1, <1>4
  <2> QED BY <1>1, <1>2, <1>4, <2>1
        DEF IInv, OnFallback, Rebound, Registered, Factory
<1> QED BY <1>3, <1>4

LEMMA NextIInv == IInv /\ [Next]_<<wiring, api>> => IInv'
<1> SUFFICES ASSUME IInv, [Next]_<<wiring, api>> PROVE IInv' OBVIOUS
<1>1. ASSUME UNCHANGED <<primary, registry, ctx, todo, rewiring>> PROVE IInv'
  BY <1>1 DEF IInv, WiringOK, OnFallback, Rebound, LoopFree, Registered, Factory
<1>2. CASE UNCHANGED wiring BY <1>1, <1>2 DEF wiring
<1>3. ASSUME NEW names \in SUBSET Names, Unlock(names) PROVE IInv'
  BY <1>3 DEF Unlock, IInv, WiringOK, OnFallback, Rebound, LoopFree, Registered
<1>4. ASSUME NEW backend, SignIn(backend) \/ SignOut(backend) PROVE IInv'
  BY <1>1, <1>4 DEF SignIn, SignOut
<1>5. ASSUME NEW n \in Names, RegisterDatabase(n) \/ RegisterCache(n) PROVE IInv'
  <2>1. /\ n \in todo /\ Register(n) /\ todo' = todo \ {n}
        /\ UNCHANGED <<primary, ctx, rewiring>>
    BY <1>5 DEF RegisterDatabase, RegisterCache
  <2> QED BY <2>1, RegisterStep
<1>6. CASE Rebind BY <1>6, RebindStep
<1>7. CASE WiringStep
  BY <1>3, <1>4, <1>5, <1>6, <1>7 DEF WiringStep, Interface, Rewire
<1>8. CASE ApiStep BY <1>2, <1>8 DEF ApiStep
<1> QED BY <1>2, <1>7, <1>8 DEF Next, wiring

-----------------------------------------------------------------------------
(* Types of the wiring *)

\* TypeOK bounds the generations by MaxUnlocks: each unlock registers a name at
\* most once, and makes at most one backend.
WiringTypes ==
  /\ primary \in Databases
  /\ registry \in [Names -> 0 .. unlocks + 1]
  /\ \A n \in todo : registry[n] <= unlocks
  /\ ctx \in [backend : 1 .. unlocks + 1, users : Factories, products : Factories]
  /\ rewiring => ctx.backend <= unlocks
  /\ user_repo \subseteq {<<primary, 1>>}
  /\ sessions \subseteq 1 .. ctx.backend
  /\ todo \subseteq Names /\ rewiring \in BOOLEAN /\ (todo # {} => rewiring)
  /\ unlocks \in 0 .. MaxUnlocks

LEMMA Wires ==
  ASSUME NEW id, NEW f \in Factories, NEW N, id \in N
  PROVE  /\ Wire(id, f) \in [backend : N, users : Factories, products : Factories]
         /\ Wire(id, f).backend = id
BY DEF Wire

LEMMA FactoryTypes ==
  ASSUME unlocks \in 0 .. MaxUnlocks, registry \in [Names -> 0 .. unlocks + 1],
         primary \in Databases
  PROVE  Factory(registry, primary) \in Factories /\ <<Sqlite, 0>> \in Factories
<1>1. primary \in Names BY DEF Names
<1>2. registry[primary] \in Generations
  <2>1. registry[primary] \in 0 .. unlocks + 1 BY <1>1
  <2> QED BY <2>1, UnlockAssumption DEF Generations
<1> QED BY <1>1, <1>2 DEF Factory, Factories

LEMMA InitWiring == Init => WiringTypes
<1> SUFFICES ASSUME Init PROVE WiringTypes OBVIOUS
<1>1. PICK env \in SUBSET Databases : Startup(env) BY DEF Init
<1>2. /\ primary \in Databases /\ unlocks = 0 /\ unlocks \in 0 .. MaxUnlocks
      /\ sessions = {} /\ todo = {} /\ rewiring = FALSE
  BY UnlockAssumption DEF Init
<1>3. registry \in [Names -> 0 .. unlocks + 1] BY <1>1, <1>2 DEF Startup
<1>4. ctx \in [backend : 1 .. unlocks + 1, users : Factories, products : Factories]
  <2>1. Factory(registry, primary) \in Factories /\ <<Sqlite, 0>> \in Factories
    BY <1>2, <1>3, FactoryTypes
  <2>2. 1 \in 1 .. unlocks + 1 BY <1>2
  <2>3. \A f \in Factories :
          Wire(1, f) \in [backend : 1 .. unlocks + 1, users : Factories, products : Factories]
    BY <2>2, Wires
  <2> QED BY <1>1, <2>1, <2>3 DEF Startup
<1>5. user_repo \subseteq {<<primary, 1>>}
  <2>1. primary \in Names BY <1>2 DEF Names
  <2>2. Registered(registry, primary) => Factory(registry, primary) = <<primary, 1>>
    BY <1>1, <2>1 DEF Startup, Registered, Factory
  <2> QED BY <1>1, <2>2 DEF Startup
<1> QED BY <1>2, <1>3, <1>4, <1>5 DEF WiringTypes

LEMMA WiringKeepsTypes == ASSUME WiringTypes, WiringStep PROVE WiringTypes'
<1> USE DEF WiringTypes
<1>u. unlocks \in Nat BY UnlockAssumption
<1>1. ASSUME NEW names \in SUBSET Names, Unlock(names) PROVE WiringTypes'
  <2>1. /\ ~rewiring /\ unlocks < MaxUnlocks /\ unlocks' = unlocks + 1 /\ rewiring' = TRUE
        /\ todo' = names /\ UNCHANGED <<primary, user_repo, registry, ctx, sessions>>
    BY <1>1 DEF Unlock, LoopFree
  <2>2. unlocks' \in 0 .. MaxUnlocks BY <1>u, <2>1, UnlockAssumption
  <2>3. registry' \in [Names -> 0 .. unlocks' + 1] /\ \A n \in todo' : registry'[n] <= unlocks'
    <3>1. \A n \in Names : registry[n] \in 0 .. unlocks + 1 OBVIOUS
    <3>2. \A n \in Names : registry[n] \in 0 .. unlocks' + 1 /\ registry[n] <= unlocks'
      BY <1>u, <2>1, <3>1
    <3> QED BY <2>1, <3>2
  <2>4. /\ ctx' \in [backend : 1 .. unlocks' + 1, users : Factories, products : Factories]
        /\ ctx'.backend <= unlocks'
    BY <1>u, <2>1
  <2> QED BY <2>1, <2>2, <2>3, <2>4
<1>2. ASSUME NEW n \in Names, RegisterDatabase(n) \/ RegisterCache(n) PROVE WiringTypes'
  <2>1. /\ n \in todo /\ registry' = [registry EXCEPT ![n] = registry[n] + 1]
        /\ todo' = todo \ {n}
        /\ UNCHANGED <<primary, user_repo, ctx, sessions, rewiring, unlocks>>
    BY <1>2 DEF RegisterDatabase, RegisterCache, Register
  <2>2. registry[n] \in 0 .. unlocks + 1 /\ registry[n] <= unlocks BY <2>1
  <2>3. registry[n] + 1 \in 0 .. unlocks + 1 BY <1>u, <2>2
  <2>4. registry' \in [Names -> 0 .. unlocks + 1] BY <2>1, <2>3
  <2>5. \A m \in todo' : registry'[m] <= unlocks BY <2>1
  <2> QED BY <2>1, <2>4, <2>5
<1>3. CASE Rebind
  <2>1. /\ rewiring /\ todo = {} /\ rewiring' = FALSE
        /\ ctx' = IF Registered(registry, primary)
                  THEN Wire(ctx.backend + 1, Factory(registry, primary)) ELSE ctx
        /\ UNCHANGED <<primary, user_repo, registry, sessions, todo, unlocks>>
    BY <1>3 DEF Rebind
  <2>2. ctx.backend \in 1 .. unlocks + 1 /\ ctx.backend + 1 \in 1 .. unlocks + 1
    BY <1>u, <2>1
  <2>3. /\ ctx' \in [backend : 1 .. unlocks + 1, users : Factories, products : Factories]
        /\ ctx'.backend \in {ctx.backend, ctx.backend + 1}
    <3>1. Factory(registry, primary) \in Factories BY FactoryTypes
    <3>2. /\ Wire(ctx.backend + 1, Factory(registry, primary))
               \in [backend : 1 .. unlocks + 1, users : Factories, products : Factories]
          /\ Wire(ctx.backend + 1, Factory(registry, primary)).backend = ctx.backend + 1
      BY <2>2, <3>1, Wires
    <3> QED BY <2>1, <3>2
  <2>4. sessions' \subseteq 1 .. ctx'.backend BY <2>1, <2>2, <2>3
  <2> QED BY <2>1, <2>3, <2>4
<1>4. ASSUME NEW backend \in 1 .. ctx.backend, SignIn(backend) \/ SignOut(backend)
      PROVE  WiringTypes'
  <2>1. /\ UNCHANGED <<primary, user_repo, registry, ctx, todo, rewiring, unlocks>>
        /\ sessions' \subseteq sessions \cup {backend}
    BY <1>4 DEF SignIn, SignOut
  <2>2. sessions' \subseteq 1 .. ctx'.backend BY <1>4, <2>1
  <2> QED BY <2>1, <2>2
<1> QED BY <1>1, <1>2, <1>3, <1>4 DEF WiringStep, Interface, Rewire

-----------------------------------------------------------------------------
(* The services of the API *)

\* Requests that miss the cache for the same factory all make a service.  Each was
\* made by a thread that had missed it, and a thread misses a factory once: when a
\* service is made, the next lookups find it.  So a service can be told by its
\* thread and its generation.
Made == 1 .. MaxUnlocks + 1

Makers ==
  \E f \in [DOMAIN services -> Threads \X Made] :
    /\ \A i, j \in DOMAIN services : f[i] = f[j] => i = j
    /\ \A i \in DOMAIN services : f[i][2] = services[i]
    /\ \A t \in Threads : req[t].pc = "missed" =>
         \A i \in DOMAIN services : f[i] # <<t, req[t].gen>>

ServicesInv ==
  /\ services \in Seq(Made)
  /\ cache \in [Generations -> 0 .. Len(services)]
  /\ req \in [Threads -> [pc : {"idle", "missed", "ready"}, gen : Generations,
                          service : 0 .. Len(services)]]
  /\ staged \subseteq DOMAIN services /\ raced \subseteq Generations
  /\ \A t \in Threads : /\ req[t].pc = "missed" => req[t].gen \in Made
                        /\ req[t].pc = "ready" => req[t].service \in DOMAIN services
  /\ \A g \in Generations : cache[g] # 0 => services[cache[g]] = g
  /\ \A i \in DOMAIN services : cache[services[i]] # 0
  /\ Makers

LEMMA InitServices == Init => ServicesInv
<1> SUFFICES ASSUME Init PROVE ServicesInv OBVIOUS
<1>1. services = <<>> /\ DOMAIN services = {} /\ Len(services) = 0 /\ services \in Seq(Made)
  BY DEF Init
<1>2. cache = [g \in Generations |-> 0] /\ req = [t \in Threads |-> Idle] /\ staged = {}
      /\ raced = {}
  BY DEF Init
<1>3. Idle \in [pc : {"idle", "missed", "ready"}, gen : Generations, service : 0 .. 0]
      /\ Idle.pc = "idle"
  BY UnlockAssumption DEF Idle, Generations
<1>4. Makers
  <2>1. [i \in {} |-> i] \in [DOMAIN services -> Threads \X Made] BY <1>1
  <2> QED BY <1>1, <2>1 DEF Makers
<1> QED BY <1>1, <1>2, <1>3, <1>4 DEF ServicesInv

\* A lookup: what it misses has no service yet.
LEMMA LookupServices ==
  ASSUME WiringTypes, ServicesInv, NEW t \in Threads, GetService(t) PROVE ServicesInv'
<1> DEFINE g == registry[Default]
           r == [pc |-> IF cache[g] = 0 THEN "missed" ELSE "ready",
                 gen |-> g, service |-> cache[g]]
<1>1. /\ g # 0 /\ UNCHANGED <<services, cache, staged>> /\ req' = [req EXCEPT ![t] = r]
      /\ raced' \subseteq raced \cup {g}
  BY DEF GetService, Registered
<1>2. g \in Made /\ g \in Generations
  <2>1. g \in 0 .. unlocks + 1 /\ unlocks \in 0 .. MaxUnlocks
    BY DefaultAssumption DEF WiringTypes, Names
  <2> QED BY <1>1, <2>1, UnlockAssumption DEF Made, Generations
<1>3. cache[g] \in 0 .. Len(services) /\ (cache[g] # 0 => cache[g] \in DOMAIN services)
  <2>1. DOMAIN services = 1 .. Len(services) /\ Len(services) \in Nat BY DEF ServicesInv
  <2> QED BY <1>2, <2>1 DEF ServicesInv
<1>4. r \in [pc : {"idle", "missed", "ready"}, gen : Generations, service : 0 .. Len(services)]
  BY <1>2, <1>3
<1>5. req'[t] = r /\ \A u \in Threads \ {t} : req'[u] = req[u] BY <1>1 DEF ServicesInv
<1>6. Makers'
  <2>1. PICK f \in [DOMAIN services -> Threads \X Made] :
          /\ \A i, j \in DOMAIN services : f[i] = f[j] => i = j
          /\ \A i \in DOMAIN services : f[i][2] = services[i]
          /\ \A u \in Threads : req[u].pc = "missed" =>
               \A i \in DOMAIN services : f[i] # <<u, req[u].gen>>
    BY DEF ServicesInv, Makers
  <2>2. ASSUME cache[g] = 0, NEW i \in DOMAIN services PROVE f[i] # <<t, g>>
    BY <2>1, <2>2 DEF ServicesInv
  <2>3. \A u \in Threads : req'[u].pc = "missed" =>
          \A i \in DOMAIN services : f[i] # <<u, req'[u].gen>>
    <3>1. r.pc = "missed" => cache[g] = 0 OBVIOUS
    <3>2. r.gen = g OBVIOUS
    <3> HIDE DEF r, g
    <3> QED BY <1>5, <2>1, <2>2, <3>1, <3>2
  <2> QED BY <1>1, <2>1, <2>3 DEF Makers
<1>7. req' \in [Threads -> [pc : {"idle", "missed", "ready"}, gen : Generations,
                            service : 0 .. Len(services')]]
  BY <1>1, <1>4 DEF ServicesInv
<1>8. \A u \in Threads : /\ req'[u].pc = "missed" => req'[u].gen \in Made
                         /\ req'[u].pc = "ready" => req'[u].service \in DOMAIN services
  <2>1. r.gen = g /\ r.service = cache[g] /\ (r.pc = "ready" => cache[g] # 0) OBVIOUS
  <2> HIDE DEF r, g
  <2> QED BY <1>2, <1>3, <1>5, <2>1 DEF ServicesInv
<1>9. raced' \subseteq Generations BY <1>1, <1>2 DEF ServicesInv
<1> QED BY <1>1, <1>6, <1>7, <1>8, <1>9 DEF ServicesInv

LEMMA MakeServices ==
  ASSUME ServicesInv, NEW t \in Threads, MakeService(t) PROVE ServicesInv'
<1> DEFINE g == req[t].gen
           n == Len(services) + 1
<1>1. /\ req[t].pc = "missed" /\ services' = Append(services, g)
      /\ cache' = [cache EXCEPT ![g] = Len(services')]
      /\ req' = [req EXCEPT ![t].pc = "ready", ![t].service = Len(services')]
      /\ UNCHANGED <<staged, raced>>
  BY DEF MakeService
<1>2. g \in Made /\ g \in Generations
  BY <1>1, UnlockAssumption DEF ServicesInv, Made, Generations
<1>3. /\ services' \in Seq(Made) /\ Len(services') = n /\ n \in Nat /\ Len(services) \in Nat
      /\ DOMAIN services = 1 .. Len(services) /\ DOMAIN services' = 1 .. n
      /\ n \notin DOMAIN services /\ DOMAIN services' = DOMAIN services \cup {n}
      /\ services'[n] = g /\ \A i \in DOMAIN services : services'[i] = services[i]
  <2>1. services \in Seq(Made) BY DEF ServicesInv
  <2>2. /\ services' \in Seq(Made) /\ Len(services') = n /\ n \in Nat /\ Len(services) \in Nat
        /\ DOMAIN services = 1 .. Len(services) /\ DOMAIN services' = 1 .. n
        /\ services'[n] = g /\ \A i \in 1 .. Len(services) : services'[i] = services[i]
    BY <1>1, <1>2, <2>1
  <2>3. \A k \in Nat : k + 1 \notin 1 .. k /\ 1 .. (k + 1) = (1 .. k) \cup {k + 1} OBVIOUS
  <2> QED BY <2>2, <2>3
<1> DEFINE r == [req[t] EXCEPT !.pc = "ready", !.service = n]
<1>4. req'[t] = r /\ req' = [req EXCEPT ![t] = r] /\ \A u \in Threads \ {t} : req'[u] = req[u]
  BY <1>1, <1>3 DEF ServicesInv
<1>5. /\ r \in [pc : {"idle", "missed", "ready"}, gen : Generations, service : 0 .. n]
      /\ r.pc = "ready" /\ r.service = n
  <2>1. req[t] \in [pc : {"idle", "missed", "ready"}, gen : Generations,
                    service : 0 .. Len(services)]
    BY DEF ServicesInv
  <2>2. n \in 0 .. n BY <1>3
  <2> QED BY <2>1, <2>2
<1> HIDE DEF r, g, n
<1>6. \A k \in 0 .. Len(services) : k \in 0 .. n BY <1>3 DEF n
<1>7. cache' \in [Generations -> 0 .. n] /\ cache'[g] = n
      /\ \A h \in Generations \ {g} : cache'[h] = cache[h]
  <2>1. n \in 0 .. n /\ cache' = [cache EXCEPT ![g] = n] BY <1>1, <1>3
  <2>2. \A h \in Generations : cache[h] \in 0 .. n BY <1>6 DEF ServicesInv
  <2> QED BY <1>2, <2>1, <2>2 DEF ServicesInv
<1>8. req' \in [Threads -> [pc : {"idle", "missed", "ready"}, gen : Generations,
                            service : 0 .. n]]
  <2>1. \A u \in Threads :
          req[u] \in [pc : {"idle", "missed", "ready"}, gen : Generations, service : 0 .. n]
    BY <1>6 DEF ServicesInv
  <2> QED BY <1>4, <1>5, <2>1 DEF ServicesInv
<1>9. \A u \in Threads : /\ req'[u].pc = "missed" => req'[u].gen \in Made
                         /\ req'[u].pc = "ready" => req'[u].service \in DOMAIN services'
  BY <1>3, <1>4, <1>5 DEF ServicesInv
<1>10. \A h \in Generations : cache'[h] # 0 => services'[cache'[h]] = h
  <2>1. ASSUME NEW h \in Generations \ {g}, cache[h] # 0 PROVE services'[cache[h]] = h
    <3>1. cache[h] \in DOMAIN services BY <1>3, <2>1 DEF ServicesInv
    <3> QED BY <1>3, <2>1, <3>1 DEF ServicesInv
  <2> QED BY <1>3, <1>7, <2>1
<1>11. \A i \in DOMAIN services' : cache'[services'[i]] # 0
  <2>1. n # 0 BY <1>3 DEF n
  <2>2. \A i \in DOMAIN services : services[i] \in Generations
    BY UnlockAssumption DEF ServicesInv, Made, Generations
  <2> QED BY <1>3, <1>7, <2>1, <2>2 DEF ServicesInv
<1>12. Makers'
  <2>1. PICK f \in [DOMAIN services -> Threads \X Made] :
          /\ \A i, j \in DOMAIN services : f[i] = f[j] => i = j
          /\ \A i \in DOMAIN services : f[i][2] = services[i]
          /\ \A u \in Threads : req[u].pc = "missed" =>
               \A i \in DOMAIN services : f[i] # <<u, req[u].gen>>
    BY DEF ServicesInv, Makers
  <2> DEFINE h == [i \in DOMAIN services' |-> IF i = n THEN <<t, g>> ELSE f[i]]
  <2>2. h[n] = <<t, g>> /\ \A i \in DOMAIN services : h[i] = f[i] BY <1>3
  <2>3. h \in [DOMAIN services' -> Threads \X Made] BY <1>2, <1>3, <2>1
  <2> HIDE DEF h
  <2>4. \A i \in DOMAIN services : f[i] # <<t, g>> BY <1>1, <2>1 DEF g
  <2>5. \A i, j \in DOMAIN services' : h[i] = h[j] => i = j BY <1>3, <2>1, <2>2, <2>4
  <2>6. \A i \in DOMAIN services' : h[i][2] = services'[i]
    <3>1. h[n][2] = g BY <2>2
    <3> QED BY <1>3, <2>1, <2>2, <3>1
  <2>7. ASSUME NEW u \in Threads, req'[u].pc = "missed", NEW i \in DOMAIN services'
        PROVE  h[i] # <<u, req'[u].gen>>
    <3>1. u # t /\ req'[u] = req[u] BY <1>4, <1>5, <2>7
    <3>2. CASE i = n BY <2>2, <3>1, <3>2
    <3>3. CASE i # n BY <1>3, <2>1, <2>2, <2>7, <3>1, <3>3
    <3> QED BY <3>2, <3>3
  <2> QED BY <2>3, <2>5, <2>6, <2>7 DEF Makers
<1>13. staged' \subseteq DOMAIN services' /\ raced' \subseteq Generations
  BY <1>1, <1>3 DEF ServicesInv
<1> QED BY <1>3, <1>7, <1>8, <1>9, <1>10, <1>11, <1>12, <1>13 DEF ServicesInv

LEMMA MakersKept ==
  ASSUME ServicesInv, UNCHANGED services,
         \A t \in Threads : req'[t].pc = "missed" => req'[t] = req[t]
  PROVE  Makers'
<1>1. PICK f \in [DOMAIN services -> Threads \X Made] :
        /\ \A i, j \in DOMAIN services : f[i] = f[j] => i = j
        /\ \A i \in DOMAIN services : f[i][2] = services[i]
        /\ \A u \in Threads : req[u].pc = "missed" =>
             \A i \in DOMAIN services : f[i] # <<u, req[u].gen>>
  BY DEF ServicesInv, Makers
<1>2. f \in [DOMAIN services' -> Threads \X Made] OBVIOUS
<1>3. \A u \in Threads : req'[u].pc = "missed" =>
        \A i \in DOMAIN services : f[i] # <<u, req'[u].gen>>
  BY <1>1
<1> QED BY <1>1, <1>2, <1>3 DEF Makers

\* A request ends, having staged something or settled it.
LEMMA EndServices ==
  ASSUME ServicesInv, NEW t \in Threads, Stage(t) \/ Settle(t) PROVE ServicesInv'
<1>1. /\ req[t].pc = "ready" /\ req' = [req EXCEPT ![t] = Idle]
      /\ UNCHANGED <<services, cache, raced>>
      /\ staged' \subseteq staged \cup {req[t].service}
  BY DEF Stage, Settle
<1>2. /\ Idle \in [pc : {"idle", "missed", "ready"}, gen : Generations,
                   service : 0 .. Len(services)]
      /\ Idle.pc = "idle"
  <2>1. Len(services) \in Nat BY DEF ServicesInv
  <2> QED BY <2>1, UnlockAssumption DEF Idle, Generations
<1>3. req'[t] = Idle /\ \A u \in Threads \ {t} : req'[u] = req[u] BY <1>1 DEF ServicesInv
<1>4. staged' \subseteq DOMAIN services BY <1>1 DEF ServicesInv
<1>5. req' \in [Threads -> [pc : {"idle", "missed", "ready"}, gen : Generations,
                            service : 0 .. Len(services)]]
  BY <1>1, <1>2 DEF ServicesInv
<1>6. Makers'
  <2>1. \A u \in Threads : req'[u].pc = "missed" => req'[u] = req[u] BY <1>2, <1>3
  <2> QED BY <1>1, <2>1, MakersKept
<1> QED BY <1>1, <1>2, <1>3, <1>4, <1>5, <1>6 DEF ServicesInv

\* No service, and no request that will make one, is ahead of the registry.
Behind ==
  /\ \A i \in DOMAIN services : services[i] <= registry[Default]
  /\ \A t \in Threads : req[t].pc = "missed" => req[t].gen <= registry[Default]

\* A generation that was not raced for has one service, or one request to make it.
Singles ==
  \A g \in Generations \ raced :
    /\ \A t, u \in Missing(g) : t = u
    /\ Missing(g) # {} => \A i \in DOMAIN services : services[i] # g
    /\ \A i, j \in DOMAIN services : services[i] = g /\ services[j] = g => i = j

ReachInv == Behind /\ Singles

LEMMA InitReach == Init => ReachInv
<1> SUFFICES ASSUME Init PROVE ReachInv OBVIOUS
<1>1. DOMAIN services = {} /\ \A t \in Threads : req[t].pc = "idle" BY DEF Init, Idle
<1> QED BY <1>1 DEF ReachInv, Behind, Singles, Missing

\* The registry only grows.
LEMMA WiringReach ==
  ASSUME WiringTypes, ServicesInv, ReachInv, WiringStep PROVE ReachInv'
<1>1. UNCHANGED <<services, cache, req, staged, raced>> BY DEF WiringStep, api
<1>2. registry[Default] \in Nat /\ registry'[Default] \in Nat
      /\ registry[Default] <= registry'[Default]
  <2>1. registry[Default] \in Nat /\ registry \in [Names -> 0 .. unlocks + 1]
        /\ Default \in Names
    BY UnlockAssumption, DefaultAssumption DEF WiringTypes, Names
  <2>2. CASE UNCHANGED registry BY <2>1, <2>2
  <2>3. ASSUME NEW n \in Names, Register(n)
        PROVE  registry'[Default] \in Nat /\ registry[Default] <= registry'[Default]
    BY <2>1, <2>3 DEF Register
  <2> QED
    BY <2>1, <2>2, <2>3
    DEF WiringStep, Interface, Rewire, Unlock, SignIn, SignOut, RegisterDatabase,
        RegisterCache, Rebind
<1>3. Behind'
  <2>1. \A i \in DOMAIN services : services[i] \in Nat
    <3>1. Made \subseteq Nat BY UnlockAssumption DEF Made
    <3>2. services \in Seq(Made) BY DEF ServicesInv
    <3>3. \A i \in DOMAIN services : services[i] \in Made BY <3>2
    <3> QED BY <3>1, <3>3
  <2>2. \A t \in Threads : req[t].gen \in Nat BY UnlockAssumption DEF ServicesInv, Generations
  <2> QED BY <1>1, <1>2, <2>1, <2>2 DEF ReachInv, Behind
<1>4. Singles' BY <1>1 DEF ReachInv, Singles, Missing
<1> QED BY <1>3, <1>4 DEF ReachInv

LEMMA LookupReach ==
  ASSUME WiringTypes, ServicesInv, ReachInv, NEW t \in Threads, GetService(t),
         UNCHANGED registry
  PROVE  ReachInv'
<1> DEFINE g == registry[Default]
           r == [pc |-> IF cache[g] = 0 THEN "missed" ELSE "ready",
                 gen |-> g, service |-> cache[g]]
<1>1. /\ req[t] = Idle /\ UNCHANGED <<services, cache>> /\ req' = [req EXCEPT ![t] = r]
      /\ raced' = IF Missing(g) # {} THEN raced \cup {g} ELSE raced
  BY DEF GetService
<1>2. g \in Nat BY UnlockAssumption, DefaultAssumption DEF WiringTypes, Names
<1>3. /\ req'[t] = r /\ \A u \in Threads \ {t} : req'[u] = req[u] BY <1>1 DEF ServicesInv
<1>4. r.gen = g /\ (r.pc = "missed" => cache[g] = 0) OBVIOUS
<1>5. g' = g OBVIOUS
<1> HIDE DEF r, g
<1>6. Behind'
  <2>1. \A i \in DOMAIN services : services[i] <= g BY DEF ReachInv, Behind, g
  <2>2. \A u \in Threads : req[u].pc = "missed" => req[u].gen <= g
    BY DEF ReachInv, Behind, g
  <2>3. \A u \in Threads : req'[u].pc = "missed" => req'[u].gen <= g
    BY <1>2, <1>3, <1>4, <2>2
  <2> QED BY <1>1, <2>1, <2>3 DEF Behind, g
<1>7. Singles'
  <2> SUFFICES ASSUME NEW h \in Generations, h \notin raced'
               PROVE  /\ \A u, v \in Missing(h)' : u = v
                      /\ Missing(h)' # {} => \A i \in DOMAIN services : services[i] # h
                      /\ \A i, j \in DOMAIN services : services[i] = h /\ services[j] = h => i = j
    BY <1>1 DEF Singles
  <2>1. h \notin raced /\ (h = g => Missing(h) = {}) BY <1>1
  <2>2. \A u \in Missing(h)' : u # t => u \in Missing(h) BY <1>3 DEF Missing
  <2>3. t \in Missing(h)' => h = g /\ cache[h] = 0 BY <1>3, <1>4 DEF Missing
  <2>4. CASE t \in Missing(h)'
    <3>1. Missing(h)' \subseteq {t} BY <2>1, <2>2, <2>3, <2>4
    <3>2. \A i \in DOMAIN services : services[i] # h BY <2>3, <2>4 DEF ServicesInv
    <3> QED BY <3>1, <3>2
  <2>5. CASE t \notin Missing(h)'
    <3>1. Missing(h)' \subseteq Missing(h) BY <2>2, <2>5
    <3> QED BY <2>1, <3>1 DEF ReachInv, Singles
  <2> QED BY <2>4, <2>5
<1> QED BY <1>6, <1>7 DEF ReachInv

LEMMA MakeReach ==
  ASSUME WiringTypes, ServicesInv, ReachInv, NEW t \in Threads, MakeService(t),
         UNCHANGED registry
  PROVE  ReachInv'
<1> DEFINE g == req[t].gen
           n == Len(services) + 1
<1>1. /\ req[t].pc = "missed" /\ services' = Append(services, g)
      /\ req' = [req EXCEPT ![t].pc = "ready", ![t].service = Len(services')]
      /\ raced' = raced
  BY DEF MakeService
<1>2. g \in Made BY <1>1 DEF ServicesInv
<1>3. /\ DOMAIN services' = DOMAIN services \cup {n} /\ n \notin DOMAIN services
      /\ services'[n] = g /\ \A i \in DOMAIN services : services'[i] = services[i]
  <2>1. services \in Seq(Made) BY DEF ServicesInv
  <2>2. /\ Len(services) \in Nat /\ DOMAIN services = 1 .. Len(services)
        /\ DOMAIN services' = 1 .. n
        /\ services'[n] = g /\ \A i \in 1 .. Len(services) : services'[i] = services[i]
    BY <1>1, <1>2, <2>1
  <2>3. \A k \in Nat : k + 1 \notin 1 .. k /\ 1 .. (k + 1) = (1 .. k) \cup {k + 1} OBVIOUS
  <2> QED BY <2>2, <2>3
<1>4. req'[t].pc = "ready" /\ \A u \in Threads \ {t} : req'[u] = req[u]
  BY <1>1 DEF ServicesInv
<1> HIDE DEF g, n
<1>5. t \in Missing(g) /\ g <= registry[Default] BY <1>1 DEF Missing, ReachInv, Behind, g
<1>6. Behind' BY <1>3, <1>4, <1>5 DEF ReachInv, Behind
<1>7. Singles'
  <2> SUFFICES ASSUME NEW h \in Generations, h \notin raced
               PROVE  /\ \A u, v \in Missing(h)' : u = v
                      /\ Missing(h)' # {} => \A i \in DOMAIN services' : services'[i] # h
                      /\ \A i, j \in DOMAIN services' :
                           services'[i] = h /\ services'[j] = h => i = j
    BY <1>1 DEF Singles
  <2>1. t \notin Missing(h)' /\ Missing(h)' \subseteq Missing(h) BY <1>4 DEF Missing
  <2>2. /\ \A u, v \in Missing(h) : u = v
        /\ Missing(h) # {} => \A i \in DOMAIN services : services[i] # h
        /\ \A i, j \in DOMAIN services : services[i] = h /\ services[j] = h => i = j
    BY DEF ReachInv, Singles
  <2>3. CASE h = g
    <3>1. Missing(h)' = {} BY <1>5, <2>1, <2>2, <2>3
    <3>2. \A i \in DOMAIN services : services[i] # h BY <1>5, <2>2, <2>3
    <3> QED BY <1>3, <3>1, <3>2
  <2>4. CASE h # g BY <1>3, <2>1, <2>2, <2>4
  <2> QED BY <2>3, <2>4
<1> QED BY <1>6, <1>7 DEF ReachInv

LEMMA EndReach ==
  ASSUME ServicesInv, ReachInv, NEW t \in Threads, Stage(t) \/ Settle(t), UNCHANGED registry
  PROVE  ReachInv'
<1>1. req' = [req EXCEPT ![t] = Idle] /\ UNCHANGED <<services, raced>> BY DEF Stage, Settle
<1>2. \A u \in Threads : req'[u] = req[u] \/ req'[u].pc # "missed"
  BY <1>1 DEF ServicesInv, Idle
<1>3. \A g \in Generations : Missing(g)' \subseteq Missing(g) BY <1>2 DEF Missing
<1>4. Behind' BY <1>1, <1>2 DEF ReachInv, Behind
<1>5. Singles' BY <1>1, <1>3 DEF ReachInv, Singles
<1> QED BY <1>4, <1>5 DEF ReachInv

TInv == WiringTypes /\ ServicesInv /\ ReachInv

LEMMA NextTInv == TInv /\ [Next]_<<wiring, api>> => TInv'
<1> SUFFICES ASSUME TInv, [Next]_<<wiring, api>> PROVE TInv' OBVIOUS
<1>1. UNCHANGED wiring => WiringTypes' BY DEF wiring, TInv, WiringTypes
<1>2. ASSUME UNCHANGED api PROVE ServicesInv'
  <2>1. UNCHANGED <<services, cache, req, staged, raced>> BY <1>2 DEF api
  <2>2. Makers' BY <2>1, MakersKept DEF TInv
  <2> QED BY <2>1, <2>2 DEF TInv, ServicesInv
<1>3. CASE WiringStep
  <2>1. UNCHANGED api BY <1>3 DEF WiringStep
  <2> QED BY <1>2, <1>3, <2>1, WiringKeepsTypes, WiringReach DEF TInv
<1>4. CASE ApiStep
  <2>1. UNCHANGED wiring /\ UNCHANGED registry BY <1>4 DEF ApiStep, wiring
  <2>2. ServicesInv'
    BY <1>4, LookupServices, MakeServices, EndServices DEF ApiStep, Request, TInv
  <2>3. ReachInv'
    BY <1>4, <2>1, LookupReach, MakeReach, EndReach DEF ApiStep, Request, TInv
  <2> QED BY <1>1, <2>1, <2>2, <2>3 DEF TInv
<1>5. CASE UNCHANGED <<wiring, api>>
  <2>1. ReachInv' BY <1>5 DEF wiring, api, TInv, ReachInv, Behind, Singles, Missing
  <2> QED BY <1>1, <1>2, <1>5, <2>1 DEF TInv
<1> QED BY <1>3, <1>4, <1>5 DEF Next

-----------------------------------------------------------------------------
(* Counting the services *)

\* There are no more services than threads and generations.
LEMMA FewServices == ServicesInv => Len(services) <= MaxServices
<1> SUFFICES ASSUME ServicesInv PROVE Len(services) <= MaxServices OBVIOUS
<1>1. PICK f \in [DOMAIN services -> Threads \X Made] :
        \A i, j \in DOMAIN services : f[i] = f[j] => i = j
  BY DEF ServicesInv, Makers
<1>2. IsFiniteSet(Made) /\ Cardinality(Made) = MaxUnlocks + 1
  BY UnlockAssumption, FS_Interval DEF Made
<1>3. /\ IsFiniteSet(Threads \X Made)
      /\ Cardinality(Threads \X Made) = MaxServices
  BY <1>2, ThreadsAssumption, FS_Product DEF MaxServices
<1>4. Len(services) \in Nat /\ DOMAIN services = 1 .. Len(services) BY DEF ServicesInv
<1>5. IsFiniteSet(DOMAIN services) /\ Cardinality(DOMAIN services) = Len(services)
  <2>1. \A n \in Nat : IsFiniteSet(1 .. n) /\ Cardinality(1 .. n) = n BY FS_Interval
  <2> QED BY <1>4, <2>1
<1>6. ~(Cardinality(Threads \X Made) < Cardinality(DOMAIN services))
  BY <1>1, <1>3, <1>5, FS_PigeonHole
<1>7. MaxServices \in Nat BY <1>3, FS_CardinalityType
<1> QED BY <1>3, <1>4, <1>5, <1>6, <1>7

LEMMA TypesFollow == TInv => TypeOK
<1> SUFFICES ASSUME TInv PROVE TypeOK OBVIOUS
<1>1. /\ unlocks \in 0 .. MaxUnlocks /\ primary \in Databases
      /\ user_repo \subseteq {<<primary, 1>>} /\ sessions \subseteq 1 .. ctx.backend
      /\ todo \subseteq Names /\ rewiring \in BOOLEAN /\ (todo # {} => rewiring)
  BY DEF TInv, WiringTypes
<1>2. 0 .. unlocks + 1 \subseteq Generations /\ 1 .. unlocks + 1 \subseteq 1 .. MaxUnlocks + 1
  BY <1>1, UnlockAssumption DEF Generations
<1>3. /\ registry \in [Names -> Generations]
      /\ ctx \in [backend : 1 .. MaxUnlocks + 1, users : Factories, products : Factories]
  BY <1>2 DEF TInv, WiringTypes
<1>4. services \in Seq(Generations) /\ Len(services) <= MaxServices
  <2>1. Made \subseteq Generations BY UnlockAssumption DEF Made, Generations
  <2> QED BY <2>1, FewServices DEF TInv, ServicesInv
<1> QED BY <1>1, <1>3, <1>4 DEF TypeOK, TInv, ServicesInv

\* Whatever is unlocked and requested: no factory's generation, no backend and no
\* number of services exceeds what the unlocks and the threads account for.
LEMMA TInvHolds == Spec => []TInv
<1>1. Init => TInv BY InitWiring, InitServices, InitReach DEF TInv
<1> QED BY <1>1, NextTInv, PTL DEF Spec

\* Whatever is unlocked and requested: no factory's generation, no backend and no
\* number of services exceeds what the unlocks and the threads account for, and
\* user_repo stays with the factory of the start-up.
THEOREM TypeCorrect == Spec => []TypeOK
BY TInvHolds, TypesFollow, PTL

\* Whatever the vault registers, and however often it is unlocked, users and
\* products of the interface live in the factory registered for the primary
\* database, or in SQLite if there is none (main.py, _on_vault_unlocked); and if
\* that is the database the API asks for, a request under way uses the same
\* factory, or had found its service before an unlock replaced it.
THEOREM OnPrimary == Spec => []InterfaceOnPrimary
<1>1. IInv /\ TInv => InterfaceOnPrimary
  <2> SUFFICES ASSUME IInv, TInv, LoopFree,
                      NEW t \in Threads, primary = Default, req[t].pc = "ready"
               PROVE  LET g == services[req[t].service]
                      IN  ctx.users = <<Default, g>> \/ g < registry[Default]
    BY DEF IInv, Rebound, InterfaceOnPrimary
  <2> DEFINE g == services[req[t].service]
  <2>1. req[t].service \in DOMAIN services BY DEF TInv, ServicesInv
  <2>2. g <= registry[Default] /\ g \in Made BY <2>1 DEF TInv, ReachInv, Behind, ServicesInv
  <2>3. registry[Default] \in Nat
    BY UnlockAssumption, DefaultAssumption DEF TInv, WiringTypes, Names
  <2> HIDE DEF g
  <2>4. g \in Nat /\ g # 0 BY <2>2 DEF Made
  <2>5. Registered(registry, Default) BY <2>2, <2>3, <2>4 DEF Registered
  <2>6. ctx.users = <<Default, registry[Default]>> BY <2>5 DEF IInv, Rebound, Factory
  <2>7. g = registry[Default] \/ g < registry[Default] BY <2>2, <2>3, <2>4
  <2> QED BY <2>6, <2>7 DEF g
<1>2. Spec => []IInv BY InitIInv, NextIInv, PTL DEF Spec
<1> QED BY <1>1, <1>2, TInvHolds, PTL

\* What a request staged is in the service that the next request gets, unless its
\* factory was replaced or the first requests for it overlapped (users.py,
\* get_service).
THEOREM Reachable == Spec => []StagedIsReachable
<1>1. TInv => StagedIsReachable
  <2> SUFFICES ASSUME TInv, NEW s \in staged, services[s] \notin raced
               PROVE  cache[services[s]] = s
    BY DEF StagedIsReachable
  <2> DEFINE g == services[s]
  <2>1. s \in DOMAIN services /\ g \in Made /\ g \in Generations
    BY UnlockAssumption DEF TInv, ServicesInv, Made, Generations
  <2>2. cache[g] # 0 /\ cache[g] \in 0 .. Len(services) /\ services[cache[g]] = g
    BY <2>1 DEF TInv, ServicesInv
  <2>3. DOMAIN services = 1 .. Len(services) /\ Len(services) \in Nat BY DEF TInv, ServicesInv
  <2>4. cache[g] \in DOMAIN services BY <2>2, <2>3
  <2>5. \A i, j \in DOMAIN services : services[i] = g /\ services[j] = g => i = j
    BY <2>1 DEF TInv, ReachInv, Singles
  <2> QED BY <2>1, <2>2, <2>4, <2>5
<1> QED BY <1>1, TInvHolds, PTL

-----------------------------------------------------------------------------
(* The admin views: what a probe under way, and a card, can hold *)

Kinds == {"databases", "caches"}

Task ==
  [pc : {"scheduled", "measuring", "ended"}, page : Pages, kind : Kinds, view : Nat \ {0},
   names : SUBSET Names, todo : SUBSET Names, got : Partial(Names, Generations)]

\* A task probes registered names of its kind, and what it has measured is not
\* older than the last refresh that met no probe.
Sound(task, reg, since) ==
  /\ task.names \subseteq NamesOf(task.kind)
  /\ \A n \in task.names : reg[n] # 0
  /\ task.todo \subseteq task.names /\ DOMAIN task.got \subseteq task.todo
  /\ task.todo # {} => task.pc = "measuring"
  /\ \A n \in DOMAIN task.got : task.got[n] # 0 /\ task.got[n] >= since[n]

Pane == [kind : Kinds \cup {"none"}, view : Nat, cards : Partial(Names, Generations),
         met : BOOLEAN]

Shown(v, reg) ==
  /\ v.kind = "none" => v = NoView
  /\ v.kind # "none" => v.view # 0 /\ DOMAIN v.cards \subseteq NamesOf(v.kind)
  /\ \A n \in DOMAIN v.cards : reg[n] # 0

StatusOK ==
  /\ status \in [Names -> Generations] /\ floor \in [Names -> Generations]
  /\ \A n \in Names : floor[n] <= registry[n]

TasksOK ==
  /\ tasks \in Seq(Task) /\ Len(tasks) <= MaxTasks
  /\ \A i \in DOMAIN tasks : Sound(tasks[i], registry, floor) /\ tasks[i].view <= Len(tasks)

PanesOK ==
  /\ pane \in [Pages -> Pane]
  /\ \A p \in Pages : Shown(pane[p], registry) /\ pane[p].view <= Len(tasks)

\* a number belongs to one view, whatever page shows it and whatever task it has
ViewsOK ==
  /\ \A p, q \in Pages : pane[p].view = pane[q].view => pane[p].kind = pane[q].kind
  /\ \A p \in Pages : \A i \in DOMAIN tasks :
       pane[p].view = tasks[i].view => pane[p].kind = tasks[i].kind

PInv == StatusOK /\ RefreshRenews /\ TasksOK /\ PanesOK /\ ViewsOK

LEMMA KindNames ==
  ASSUME NEW kind \in Kinds
  PROVE  NamesOf(kind) \subseteq Names
         /\ \A other \in Kinds \ {kind} : NamesOf(kind) \cap NamesOf(other) = {}
<1>1. /\ kind \in {"databases", "caches"}
      /\ NamesOf("databases") = Databases /\ NamesOf("caches") = Caches
  BY DEF Kinds, NamesOf
<1> QED BY <1>1, NamesAssumption DEF Kinds, Names

\* A function on some of the names, and nothing else, is partial.
LEMMA Partials ==
  ASSUME NEW S, NEW T
  PROVE  /\ \A f \in Partial(S, T) : DOMAIN f \subseteq S /\ f \in [DOMAIN f -> T]
         /\ \A D \in SUBSET S : \A f \in [D -> T] : f \in Partial(S, T)
BY DEF Partial

LEMMA NothingIsPartial == ASSUME NEW S, NEW T PROVE <<>> \in Partial(S, T) /\ DOMAIN <<>> = {}
<1>1. <<>> \in [1 .. 0 -> T] /\ 1 .. 0 = {}
  <2>1. <<>> \in Seq(T) /\ Len(<<>>) = 0 OBVIOUS
  <2>2. \A seq \in Seq(T) : seq \in [1 .. Len(seq) -> T] BY LenProperties
  <2> QED BY <2>1, <2>2
<1>2. <<>> \in [{} -> T] BY <1>1
<1> QED BY <1>2 DEF Partial

\* What is registered stays registered, under a generation that only grows.
LEMMA Grows ==
  ASSUME WiringTypes, WiringStep
  PROVE  \A n \in Names : registry[n] \in Nat /\ registry'[n] \in Nat /\ registry[n] <= registry'[n]
<1>1. \A n \in Names : registry[n] \in Nat BY UnlockAssumption DEF WiringTypes
<1>2. registry' = registry \/ \E n \in Names : Register(n)
  BY DEF WiringStep, Interface, Rewire, Unlock, SignIn, SignOut, Rebind, RegisterDatabase,
         RegisterCache
<1>3. ASSUME NEW n \in Names, Register(n)
      PROVE  \A m \in Names : registry'[m] \in {registry[m], registry[m] + 1}
  BY <1>3 DEF Register, WiringTypes
<1> QED BY <1>1, <1>2, <1>3

LEMMA WiringKeepsProbes ==
  ASSUME WiringTypes, PInv, WiringStep, UNCHANGED probing PROVE PInv'
<1>1. \A n \in Names : registry[n] \in Nat /\ registry'[n] \in Nat /\ registry[n] <= registry'[n]
  BY Grows
<1>2. UNCHANGED <<status, pane, tasks, floor>> BY DEF probing
<1>3. \A n \in Names : floor[n] \in Nat BY UnlockAssumption DEF PInv, StatusOK, Generations
<1>4. StatusOK' /\ RefreshRenews' BY <1>1, <1>2, <1>3 DEF PInv, StatusOK, RefreshRenews
<1>5. TasksOK'
  <2>1. ASSUME NEW i \in DOMAIN tasks PROVE Sound(tasks[i], registry', floor)
    <3>1. Sound(tasks[i], registry, floor) /\ tasks[i] \in Task BY DEF PInv, TasksOK
    <3>n. tasks[i].names \subseteq Names BY <3>1 DEF Task
    <3>2. \A n \in tasks[i].names : registry'[n] # 0 BY <1>1, <3>1, <3>n DEF Sound
    <3> QED BY <3>1, <3>2 DEF Sound
  <2> QED BY <1>2, <2>1 DEF PInv, TasksOK
<1>6. PanesOK'
  <2>1. ASSUME NEW p \in Pages PROVE Shown(pane[p], registry')
    <3>1. Shown(pane[p], registry) /\ DOMAIN pane[p].cards \subseteq Names
      BY Partials DEF PInv, PanesOK, Pane
    <3>2. \A n \in DOMAIN pane[p].cards : registry'[n] # 0 BY <1>1, <3>1 DEF Shown
    <3> QED BY <3>1, <3>2 DEF Shown
  <2> QED BY <1>2, <2>1 DEF PInv, PanesOK
<1>7. ViewsOK' BY <1>2 DEF PInv, ViewsOK
<1> QED BY <1>4, <1>5, <1>6, <1>7 DEF PInv

\* A task is scheduled, with nothing measured yet.
LEMMA Schedules ==
  ASSUME TasksOK, NEW p \in Pages, NEW kind \in Kinds, NEW view \in Nat \ {0},
         NEW names \in SUBSET Names, Len(tasks) < MaxTasks,
         tasks' = Scheduled(p, kind, view, names)
  PROVE  /\ tasks' \in Seq(Task) /\ Len(tasks') <= MaxTasks
         /\ Len(tasks') = Len(tasks) + 1 /\ Len(tasks) \in Nat
         /\ DOMAIN tasks' = DOMAIN tasks \cup {Len(tasks) + 1}
         /\ \A i \in DOMAIN tasks : tasks'[i] = tasks[i]
         /\ Len(tasks) + 1 \notin DOMAIN tasks
         /\ tasks'[Len(tasks) + 1].kind = kind /\ tasks'[Len(tasks) + 1].view = view
         /\ \A reg, since : names \subseteq NamesOf(kind) /\ (\A n \in names : reg[n] # 0) =>
              Sound(tasks'[Len(tasks) + 1], reg, since)
<1> DEFINE k == [pc |-> "scheduled", page |-> p, kind |-> kind, view |-> view,
                 names |-> names, todo |-> {}, got |-> <<>>]
<1>1. k \in Task BY NothingIsPartial DEF Task
<1>2. /\ k.kind = kind /\ k.view = view /\ k.names = names /\ k.todo = {}
      /\ k.got = <<>> /\ k.pc = "scheduled"
  OBVIOUS
<1>3. \A reg, since : names \subseteq NamesOf(kind) /\ (\A n \in names : reg[n] # 0) =>
        Sound(k, reg, since)
  <2>1. DOMAIN k.got = {} BY <1>2, NothingIsPartial
  <2> HIDE DEF k
  <2> QED BY <1>2, <2>1 DEF Sound
<1>4. tasks' = Append(tasks, k) /\ tasks \in Seq(Task) BY DEF Scheduled, TasksOK
<1> HIDE DEF k
<1>5. /\ tasks' \in Seq(Task) /\ Len(tasks') = Len(tasks) + 1 /\ Len(tasks) \in Nat
      /\ DOMAIN tasks = 1 .. Len(tasks) /\ DOMAIN tasks' = 1 .. (Len(tasks) + 1)
      /\ \A i \in 1 .. Len(tasks) : tasks'[i] = tasks[i]
      /\ tasks'[Len(tasks) + 1] = k
  BY <1>1, <1>4
<1>6. \A n \in Nat : n + 1 \notin 1 .. n /\ 1 .. (n + 1) = (1 .. n) \cup {n + 1} OBVIOUS
<1>7. Len(tasks') <= MaxTasks BY <1>5, TasksAssumption
<1>8. /\ DOMAIN tasks' = DOMAIN tasks \cup {Len(tasks) + 1}
      /\ Len(tasks) + 1 \notin DOMAIN tasks
  BY <1>5, <1>6
<1>9. /\ tasks'[Len(tasks) + 1].kind = kind /\ tasks'[Len(tasks) + 1].view = view
      /\ \A reg, since : names \subseteq NamesOf(kind) /\ (\A n \in names : reg[n] # 0) =>
           Sound(tasks'[Len(tasks) + 1], reg, since)
  BY <1>2, <1>3, <1>5
<1> QED BY <1>5, <1>7, <1>8, <1>9

LEMMA OpenProbes ==
  ASSUME WiringTypes, PInv, NEW p \in Pages, NEW kind \in Kinds, Open(p, kind), UNCHANGED registry
  PROVE  PInv'
<1> DEFINE names == {n \in NamesOf(kind) : Registered(registry, n)}
           view  == Len(tasks) + 1
           v     == [kind |-> kind, view |-> view, met |-> FALSE, cards |-> Cards(names, status)]
<1>1. /\ Len(tasks) < MaxTasks /\ pane' = [pane EXCEPT ![p] = v]
      /\ tasks' = Scheduled(p, kind, view, names) /\ UNCHANGED <<status, floor>>
  BY DEF Open, MayOpen
<1>2. names \subseteq NamesOf(kind) /\ names \in SUBSET Names /\ \A n \in names : registry[n] # 0
  BY KindNames DEF Registered
<1>3. Len(tasks) \in Nat /\ view \in Nat \ {0} BY DEF PInv, TasksOK
<1>4. Cards(names, status) \in [names -> Generations] BY <1>2 DEF Cards, PInv, StatusOK
<1>5. v \in Pane BY <1>2, <1>3, <1>4, Partials DEF Pane, Kinds
<1>6. /\ v.kind = kind /\ v.view = view /\ DOMAIN v.cards = names
  BY <1>4
<1>7. Shown(v, registry)
  <2>1. kind # "none" BY DEF Kinds
  <2> HIDE DEF v
  <2> QED BY <1>2, <1>3, <1>6, <2>1 DEF Shown
<1> HIDE DEF names, view, v
<1>8. pane' \in [Pages -> Pane] /\ pane'[p] = v /\ \A q \in Pages \ {p} : pane'[q] = pane[q]
  BY <1>1, <1>5 DEF PInv, PanesOK
<1>9. /\ tasks' \in Seq(Task) /\ Len(tasks') <= MaxTasks
      /\ Len(tasks') = Len(tasks) + 1
      /\ DOMAIN tasks' = DOMAIN tasks \cup {Len(tasks) + 1}
      /\ \A i \in DOMAIN tasks : tasks'[i] = tasks[i]
      /\ tasks'[Len(tasks) + 1].kind = kind /\ tasks'[Len(tasks) + 1].view = view
      /\ Sound(tasks'[Len(tasks) + 1], registry, floor)
  BY <1>1, <1>2, <1>3, Schedules DEF PInv
<1>10. /\ \A i \in DOMAIN tasks : tasks[i].view \in Nat /\ tasks[i].view <= Len(tasks)
       /\ \A q \in Pages : pane[q].view \in Nat /\ pane[q].view <= Len(tasks)
  <2>1. \A i \in DOMAIN tasks : tasks[i] \in Task /\ tasks[i].view <= Len(tasks)
    BY DEF PInv, TasksOK
  <2>2. \A q \in Pages : pane[q] \in Pane /\ pane[q].view <= Len(tasks)
    BY DEF PInv, PanesOK
  <2> QED BY <2>1, <2>2 DEF Task, Pane
<1>11. StatusOK' /\ RefreshRenews' BY <1>1 DEF PInv, StatusOK, RefreshRenews
<1>12. TasksOK'
  BY <1>1, <1>3, <1>9, <1>10 DEF PInv, TasksOK, view
<1>13. PanesOK'
  BY <1>3, <1>6, <1>7, <1>8, <1>9, <1>10 DEF PInv, PanesOK, view
<1>14. ViewsOK'
  <2>1. /\ \A i \in DOMAIN tasks : tasks[i].view # view
        /\ \A q \in Pages : pane[q].view # view
    BY <1>3, <1>10 DEF view
  <2> QED BY <1>6, <1>8, <1>9, <2>1 DEF PInv, ViewsOK
<1> QED BY <1>11, <1>12, <1>13, <1>14 DEF PInv

\* The bookkeeping of met touches nothing else.
LEMMA MeetsKeeps ==
  ASSUME pane \in [Pages -> Pane], NEW kind \in Kinds, NEW view
  PROVE  /\ Meets(pane, kind, view) \in [Pages -> Pane]
         /\ \A p \in Pages :
              /\ Meets(pane, kind, view)[p].kind = pane[p].kind
              /\ Meets(pane, kind, view)[p].view = pane[p].view
              /\ Meets(pane, kind, view)[p].cards = pane[p].cards
              /\ \A reg : Shown(pane[p], reg) => Shown(Meets(pane, kind, view)[p], reg)
<1> DEFINE m == Meets(pane, kind, view)
<1>1. ASSUME NEW p \in Pages
      PROVE  /\ m[p] \in Pane /\ m[p].kind = pane[p].kind /\ m[p].view = pane[p].view
             /\ m[p].cards = pane[p].cards /\ \A reg : Shown(pane[p], reg) => Shown(m[p], reg)
  <2> DEFINE v == pane[p]
             b == v.met \/ (v.kind = kind /\ v.view # view)
  <2>1. m[p] = [v EXCEPT !.met = b] BY DEF Meets
  <2>2. v \in Pane OBVIOUS
  <2>3. b \in BOOLEAN BY <2>2 DEF Pane
  <2>4. v.kind = "none" => b = v.met BY <2>2, <2>3 DEF Kinds, Pane
  <2> HIDE DEF v, b, m
  <2>5. /\ m[p] \in Pane /\ m[p].kind = v.kind /\ m[p].view = v.view /\ m[p].cards = v.cards
    BY <2>1, <2>2, <2>3 DEF Pane
  <2>6. v.kind = "none" => m[p] = v BY <2>1, <2>2, <2>4 DEF Pane
  <2>7. \A reg : Shown(v, reg) => Shown(m[p], reg) BY <2>5, <2>6 DEF Shown
  <2> QED BY <2>5, <2>7 DEF v
<1>2. m \in [Pages -> Pane]
  <2>1. m = [p \in Pages |-> m[p]] BY DEF Meets
  <2> QED BY <1>1, <2>1
<1> QED BY <1>1, <1>2

\* A task is replaced by one of the same view.
LEMMA TaskMoves ==
  ASSUME TasksOK, NEW i \in DOMAIN tasks, NEW k \in Task, Sound(k, registry, floor),
         k.view = tasks[i].view, k.kind = tasks[i].kind, tasks' = [tasks EXCEPT ![i] = k],
         UNCHANGED <<registry, floor>>
  PROVE  /\ TasksOK' /\ DOMAIN tasks' = DOMAIN tasks /\ Len(tasks') = Len(tasks)
         /\ \A j \in DOMAIN tasks :
              tasks'[j].view = tasks[j].view /\ tasks'[j].kind = tasks[j].kind
<1>1. tasks \in Seq(Task) /\ DOMAIN tasks = 1 .. Len(tasks) BY DEF TasksOK
<1>2. /\ tasks' \in Seq(Task) /\ Len(tasks') = Len(tasks)
      /\ \A j \in 1 .. Len(tasks) : tasks'[j] = IF j = i THEN k ELSE tasks[j]
  BY <1>1, ExceptSeq
<1>3. DOMAIN tasks' = DOMAIN tasks BY <1>1, <1>2
<1>4. TasksOK' BY <1>1, <1>2, <1>3 DEF TasksOK
<1> QED BY <1>1, <1>2, <1>3, <1>4

LEMMA EndedTask ==
  ASSUME NEW task \in Task
  PROVE  /\ Ended(task) \in Task /\ Ended(task).view = task.view /\ Ended(task).kind = task.kind
         /\ \A reg, since : Sound(Ended(task), reg, since)
<1> DEFINE k == Ended(task)
<1>1. /\ k.view = task.view /\ k.kind = task.kind /\ k.names = {} /\ k.todo = {}
      /\ k.got = <<>>
  BY DEF Ended, Task
<1>2. k \in Task BY NothingIsPartial DEF Ended, Task
<1>3. DOMAIN k.got = {} BY <1>1, NothingIsPartial
<1> HIDE DEF k
<1>4. \A reg, since : Sound(k, reg, since) BY <1>1, <1>3 DEF Sound
<1> QED BY <1>1, <1>2, <1>4 DEF k

LEMMA RefreshProbes ==
  ASSUME WiringTypes, PInv, NEW p \in Pages, Refresh(p), UNCHANGED registry PROVE PInv'
<1> DEFINE v == pane[p]
           cleared == [n \in Names |-> IF n \in NamesOf(v.kind) THEN 0 ELSE status[n]]
           seen == Meets(pane, v.kind, v.view)
<1>1. /\ v # NoView /\ Len(tasks) < MaxTasks /\ status' = cleared
      /\ pane' = [seen EXCEPT ![p].cards = Cards(DOMAIN v.cards, cleared)]
      /\ tasks' = Scheduled(p, v.kind, v.view, DOMAIN v.cards)
      /\ floor' = [n \in Names |-> IF n \in NamesOf(v.kind) /\ NoneMeasuring(v.kind)
                                   THEN registry[n] ELSE floor[n]]
  BY DEF Refresh
<1>2. /\ v \in Pane /\ Shown(v, registry) /\ v.view <= Len(tasks)
      /\ pane \in [Pages -> Pane]
  BY DEF PInv, PanesOK
<1>3. v.kind \in Kinds /\ v.view \in Nat \ {0} BY <1>1, <1>2 DEF Shown, Pane
<1>4. /\ DOMAIN v.cards \subseteq NamesOf(v.kind) /\ DOMAIN v.cards \in SUBSET Names
      /\ \A n \in DOMAIN v.cards : registry[n] # 0
  <2>1. v.kind # "none" BY <1>3 DEF Kinds
  <2> QED BY <1>2, <1>3, <2>1, KindNames DEF Shown
<1>5. /\ \A n \in Names : registry[n] \in Generations /\ registry[n] \in Nat
      /\ \A n \in Names : floor[n] \in Generations /\ status[n] \in Generations
      /\ 0 \in Generations
  <2>1. \A n \in Names : registry[n] \in 0 .. unlocks + 1 /\ unlocks \in 0 .. MaxUnlocks
    BY DEF WiringTypes
  <2> QED BY <2>1, UnlockAssumption DEF PInv, StatusOK, Generations
<1>6. StatusOK'
  <2>1. \A n \in Names : floor'[n] <= registry[n] BY <1>1, <1>5 DEF PInv, StatusOK
  <2>2. floor' \in [Names -> Generations] /\ status' \in [Names -> Generations]
    BY <1>1, <1>5
  <2> QED BY <2>1, <2>2 DEF StatusOK
<1>7. RefreshRenews'
  <2>1. ASSUME NEW n \in Names, status'[n] # 0 PROVE status'[n] >= floor'[n]
    <3>1. n \notin NamesOf(v.kind) BY <1>1, <2>1
    <3>2. status'[n] = status[n] /\ floor'[n] = floor[n] BY <1>1, <3>1
    <3> QED BY <2>1, <3>2 DEF PInv, RefreshRenews
  <2> QED BY <2>1 DEF RefreshRenews
<1>s. Cards(DOMAIN v.cards, cleared) \in [DOMAIN v.cards -> Generations]
  BY <1>4, <1>5 DEF Cards
<1> DEFINE cards == Cards(DOMAIN v.cards, cleared)
<1>8. /\ seen \in [Pages -> Pane]
      /\ \A q \in Pages : /\ seen[q].kind = pane[q].kind /\ seen[q].view = pane[q].view
                          /\ Shown(seen[q], registry)
      /\ seen[p].kind = v.kind /\ seen[p].view = v.view
  <2>1. \A q \in Pages : Shown(pane[q], registry) BY DEF PInv, PanesOK
  <2> QED BY <1>2, <1>3, <2>1, MeetsKeeps
<1>9. /\ tasks' \in Seq(Task) /\ Len(tasks') <= MaxTasks
      /\ Len(tasks') = Len(tasks) + 1 /\ Len(tasks) \in Nat
      /\ DOMAIN tasks' = DOMAIN tasks \cup {Len(tasks) + 1}
      /\ \A i \in DOMAIN tasks : tasks'[i] = tasks[i]
      /\ tasks'[Len(tasks) + 1].kind = v.kind /\ tasks'[Len(tasks) + 1].view = v.view
      /\ Sound(tasks'[Len(tasks) + 1], registry, floor')
  BY <1>1, <1>3, <1>4, Schedules DEF PInv
<1> HIDE DEF v, cleared, seen, cards
<1>10. /\ pane' \in [Pages -> Pane]
       /\ \A q \in Pages : /\ pane'[q].kind = pane[q].kind /\ pane'[q].view = pane[q].view
                           /\ Shown(pane'[q], registry)
  <2> DEFINE w == [seen[p] EXCEPT !.cards = cards]
  <2>1. cards \in Partial(Names, Generations) /\ DOMAIN cards = DOMAIN v.cards
    BY <1>4, <1>s, Partials DEF cards
  <2>2. w \in Pane /\ w.kind = v.kind /\ w.view = v.view /\ w.cards = cards
    BY <1>8, <2>1 DEF Pane
  <2>3. v.kind # "none" BY <1>3 DEF Kinds
  <2>4. pane' = [seen EXCEPT ![p] = w] BY <1>1, <1>8 DEF cards
  <2> HIDE DEF w
  <2>5. Shown(w, registry) BY <1>3, <1>4, <2>1, <2>2, <2>3 DEF Shown
  <2>6. pane' \in [Pages -> Pane] /\ pane'[p] = w /\ \A q \in Pages \ {p} : pane'[q] = seen[q]
    BY <1>8, <2>2, <2>4
  <2> QED BY <1>8, <2>2, <2>5, <2>6 DEF v
<1>11. TasksOK'
  <2>1. ASSUME NEW i \in DOMAIN tasks PROVE Sound(tasks[i], registry, floor')
    <3>1. Sound(tasks[i], registry, floor) /\ tasks[i] \in Task BY DEF PInv, TasksOK
    <3>2. tasks[i].kind \in Kinds /\ tasks[i].names \subseteq Names BY <3>1 DEF Task
    <3>3. ASSUME NEW n \in DOMAIN tasks[i].got PROVE floor'[n] = floor[n]
      <4>1. n \in tasks[i].names /\ tasks[i].pc = "measuring" /\ n \in NamesOf(tasks[i].kind)
        BY <3>1, <3>3 DEF Sound
      <4>2. n \in NamesOf(v.kind) => tasks[i].kind = v.kind BY <1>3, <3>2, <4>1, KindNames
      <4>3. ~(n \in NamesOf(v.kind) /\ NoneMeasuring(v.kind)) BY <4>1, <4>2 DEF NoneMeasuring
      <4> QED BY <1>1, <3>2, <4>1, <4>3
    <3> QED BY <3>1, <3>3 DEF Sound
  <2>2. \A i \in DOMAIN tasks : tasks[i].view <= Len(tasks) /\ tasks[i].view \in Nat
    <3>1. \A i \in DOMAIN tasks : tasks[i] \in Task /\ tasks[i].view <= Len(tasks)
      BY DEF PInv, TasksOK
    <3> QED BY <3>1 DEF Task
  <2>3. \A i \in DOMAIN tasks' : tasks'[i].view <= Len(tasks')
    BY <1>2, <1>3, <1>9, <2>2
  <2>4. \A i \in DOMAIN tasks' : Sound(tasks'[i], registry, floor') BY <1>9, <2>1
  <2> QED BY <1>9, <2>3, <2>4 DEF TasksOK
<1>12. PanesOK'
  <2>1. \A q \in Pages : pane[q].view \in Nat /\ pane[q].view <= Len(tasks)
    BY <1>2 DEF PInv, PanesOK, Pane
  <2>2. \A q \in Pages : pane'[q].view <= Len(tasks') BY <1>9, <1>10, <2>1
  <2> QED BY <1>10, <2>2 DEF PanesOK
<1>13. ViewsOK' BY <1>9, <1>10 DEF PInv, ViewsOK, v
<1> QED BY <1>6, <1>7, <1>11, <1>12, <1>13 DEF PInv

\* A step of a task that leaves the statuses and the panes alone.
LEMMA TaskKeepsProbes ==
  ASSUME PInv, NEW i \in DOMAIN tasks, NEW k \in Task, Sound(k, registry, floor),
         k.view = tasks[i].view, k.kind = tasks[i].kind, tasks' = [tasks EXCEPT ![i] = k],
         UNCHANGED <<registry, status, pane, floor>>
  PROVE  PInv'
<1>1. /\ TasksOK' /\ DOMAIN tasks' = DOMAIN tasks /\ Len(tasks') = Len(tasks)
      /\ \A j \in DOMAIN tasks :
           tasks'[j].view = tasks[j].view /\ tasks'[j].kind = tasks[j].kind
  BY TaskMoves DEF PInv
<1>2. StatusOK' /\ RefreshRenews' BY DEF PInv, StatusOK, RefreshRenews
<1>3. PanesOK' BY <1>1 DEF PInv, PanesOK
<1>4. ViewsOK' BY <1>1 DEF PInv, ViewsOK
<1> QED BY <1>1, <1>2, <1>3, <1>4 DEF PInv

LEMMA StartProbes ==
  ASSUME PInv, NEW i \in DOMAIN tasks, StartProbe(i), UNCHANGED registry PROVE PInv'
<1> DEFINE uncached == {n \in tasks[i].names : status[n] = 0}
           k == IF uncached = {} THEN Ended(tasks[i])
                ELSE [tasks[i] EXCEPT !.pc = "measuring", !.todo = uncached]
<1>1. /\ tasks[i].pc = "scheduled" /\ tasks' = [tasks EXCEPT ![i] = k]
      /\ UNCHANGED <<status, pane, floor>>
  BY DEF StartProbe
<1>2. tasks[i] \in Task /\ Sound(tasks[i], registry, floor) BY DEF PInv, TasksOK
<1>3. /\ k \in Task /\ Sound(k, registry, floor)
      /\ k.view = tasks[i].view /\ k.kind = tasks[i].kind
  <2>1. CASE uncached = {} BY <1>2, <2>1, EndedTask
  <2>2. CASE uncached # {}
    <3> DEFINE task == tasks[i]
    <3>1. k = [task EXCEPT !.pc = "measuring", !.todo = uncached] BY <2>2
    <3>2. uncached \subseteq task.names /\ uncached \in SUBSET Names /\ task \in Task
      BY <1>2 DEF Task
    <3> HIDE DEF k, uncached, task
    <3>3. /\ k \in Task /\ k.pc = "measuring" /\ k.todo = uncached /\ k.names = task.names
          /\ k.got = task.got /\ k.view = task.view /\ k.kind = task.kind
      BY <3>1, <3>2 DEF Task
    <3>4. Sound(task, registry, floor) /\ task.todo = {}
      BY <1>1, <1>2 DEF Sound, task
    <3>5. Sound(k, registry, floor) BY <3>2, <3>3, <3>4 DEF Sound
    <3> QED BY <3>3, <3>5 DEF task
  <2> QED BY <2>1, <2>2
<1> HIDE DEF k
<1> QED BY <1>1, <1>3, TaskKeepsProbes

\* What is measured now is at least as new as the last refresh.
LEMMA MeasureProbes ==
  ASSUME WiringTypes, PInv, NEW i \in DOMAIN tasks, NEW n \in Names, Measure(i, n),
         UNCHANGED registry
  PROVE  PInv'
<1> DEFINE task == tasks[i]
           got  == [m \in DOMAIN task.got \cup {n} |-> IF m = n THEN registry[n] ELSE task.got[m]]
           k    == [task EXCEPT !.got = got]
<1>1. /\ n \in task.todo \ DOMAIN task.got /\ tasks' = [tasks EXCEPT ![i] = k]
      /\ UNCHANGED <<status, pane, floor>>
  BY DEF Measure
<1>2. task \in Task /\ Sound(task, registry, floor) BY DEF PInv, TasksOK
<1>3. registry[n] \in Generations /\ registry[n] # 0 /\ registry[n] >= floor[n]
  <2>1. registry[n] \in 0 .. unlocks + 1 /\ unlocks \in 0 .. MaxUnlocks BY DEF WiringTypes
  <2>2. registry[n] # 0 BY <1>1, <1>2 DEF Sound
  <2>3. floor[n] \in Generations /\ floor[n] <= registry[n] BY DEF PInv, StatusOK
  <2> QED BY <2>1, <2>2, <2>3, UnlockAssumption DEF Generations
<1>4. task.got \in [DOMAIN task.got -> Generations] /\ DOMAIN task.got \subseteq Names
  <2>1. task.got \in Partial(Names, Generations) BY <1>2 DEF Task
  <2> QED BY <2>1, Partials
<1>5. /\ got \in [DOMAIN task.got \cup {n} -> Generations] /\ got[n] = registry[n]
      /\ DOMAIN got = DOMAIN task.got \cup {n}
      /\ \A m \in DOMAIN task.got \ {n} : got[m] = task.got[m]
  BY <1>3, <1>4
<1> HIDE DEF got
<1>6. got \in Partial(Names, Generations) BY <1>4, <1>5, Partials
<1> HIDE DEF task
<1>7. /\ k \in Task /\ k.pc = task.pc /\ k.todo = task.todo /\ k.names = task.names
      /\ k.got = got /\ k.view = task.view /\ k.kind = task.kind
  BY <1>2, <1>6 DEF Task
<1> HIDE DEF k
<1>8. Sound(k, registry, floor)
  <2>1. \A m \in DOMAIN got : got[m] # 0 /\ got[m] >= floor[m]
    BY <1>1, <1>2, <1>3, <1>5 DEF Sound
  <2> QED BY <1>1, <1>2, <1>5, <1>7, <2>1 DEF Sound
<1> QED BY <1>1, <1>7, <1>8, TaskKeepsProbes DEF task

LEMMA EndProbes ==
  ASSUME PInv, NEW i \in DOMAIN tasks, EndProbe(i), UNCHANGED registry PROVE PInv'
<1> DEFINE task == tasks[i]
           new  == [n \in Names |-> IF n \in task.todo THEN task.got[n] ELSE status[n]]
           seen == Meets(pane, task.kind, task.view)
           shows == pane[task.page].view = task.view
<1>1. /\ DOMAIN task.got = task.todo /\ status' = new
      /\ tasks' = [tasks EXCEPT ![i] = Ended(task)]
      /\ pane' = IF shows THEN [seen EXCEPT ![task.page].cards = Cards(task.names, new)]
                 ELSE seen
      /\ UNCHANGED floor
  BY DEF EndProbe
<1>2. /\ task \in Task /\ Sound(task, registry, floor) /\ pane \in [Pages -> Pane]
      /\ status \in [Names -> Generations]
  BY DEF PInv, TasksOK, PanesOK, StatusOK
<1>3. /\ task.page \in Pages /\ task.kind \in Kinds /\ task.view \in Nat \ {0}
      /\ task.names \in SUBSET Names /\ task.got \in Partial(Names, Generations)
  BY <1>2 DEF Task
<1>4. new \in [Names -> Generations]
  <2>1. task.got \in [task.todo -> Generations] BY <1>1, <1>3, Partials
  <2> QED BY <1>2, <2>1
<1>5. StatusOK' BY <1>1, <1>4 DEF PInv, StatusOK
<1>6. RefreshRenews'
  <2>1. ASSUME NEW n \in Names, new[n] # 0 PROVE new[n] >= floor[n]
    <3>1. CASE n \in task.todo
      <4>1. new[n] = task.got[n] BY <3>1
      <4> QED BY <1>1, <1>2, <3>1, <4>1 DEF Sound
    <3>2. CASE n \notin task.todo
      <4>1. new[n] = status[n] BY <3>2
      <4> QED BY <2>1, <4>1 DEF PInv, RefreshRenews
    <3> QED BY <3>1, <3>2
  <2> QED BY <1>1, <2>1 DEF RefreshRenews
<1>7. /\ TasksOK' /\ DOMAIN tasks' = DOMAIN tasks /\ Len(tasks') = Len(tasks)
      /\ \A j \in DOMAIN tasks :
           tasks'[j].view = tasks[j].view /\ tasks'[j].kind = tasks[j].kind
  <2>1. TasksOK BY DEF PInv
  <2> QED BY <1>1, <1>2, <2>1, EndedTask, TaskMoves
<1>8. /\ seen \in [Pages -> Pane]
      /\ \A q \in Pages : /\ seen[q].kind = pane[q].kind /\ seen[q].view = pane[q].view
                          /\ Shown(seen[q], registry)
  <2>1. \A q \in Pages : Shown(pane[q], registry) BY DEF PInv, PanesOK
  <2> QED BY <1>2, <1>3, <2>1, MeetsKeeps
<1> DEFINE cards == Cards(task.names, new)
<1>9. cards \in [task.names -> Generations] BY <1>3, <1>4 DEF Cards
<1>k. shows => pane[task.page].kind = task.kind BY <1>3 DEF PInv, ViewsOK
<1> HIDE DEF task, new, seen, cards, shows
<1>10. /\ pane' \in [Pages -> Pane]
       /\ \A q \in Pages : /\ pane'[q].kind = pane[q].kind /\ pane'[q].view = pane[q].view
                           /\ Shown(pane'[q], registry)
  <2>1. CASE shows
    <3> DEFINE pg == task.page
               w  == [seen[pg] EXCEPT !.cards = cards]
    <3>1. cards \in Partial(Names, Generations) /\ DOMAIN cards = task.names
      BY <1>3, <1>9, Partials
    <3>2. /\ w \in Pane /\ w.kind = seen[pg].kind /\ w.view = seen[pg].view /\ w.cards = cards
      BY <1>3, <1>8, <3>1 DEF Pane
    <3>3. seen[pg].kind = task.kind /\ task.kind # "none" /\ seen[pg].view = task.view
      BY <1>3, <1>8, <1>k, <2>1 DEF Kinds, shows
    <3>4. pane' = [seen EXCEPT ![pg] = w] BY <1>1, <1>3, <1>8, <2>1 DEF cards
    <3> HIDE DEF w
    <3>5. Shown(w, registry) BY <1>2, <1>3, <3>1, <3>2, <3>3 DEF Shown, Sound
    <3>6. pane' \in [Pages -> Pane] /\ pane'[pg] = w /\ \A q \in Pages \ {pg} : pane'[q] = seen[q]
      BY <1>3, <1>8, <3>2, <3>4
    <3> QED BY <1>3, <1>8, <3>2, <3>5, <3>6
  <2>2. CASE ~shows BY <1>1, <1>8, <2>2
  <2> QED BY <2>1, <2>2
<1>11. PanesOK' BY <1>7, <1>10 DEF PInv, PanesOK
<1>12. ViewsOK' BY <1>7, <1>10 DEF PInv, ViewsOK
<1> QED BY <1>5, <1>6, <1>7, <1>11, <1>12 DEF PInv

-----------------------------------------------------------------------------
(* The initial states and every step of Probes *)

LEMMA InitProbes == ProbesInit => PInv
<1> SUFFICES ASSUME ProbesInit PROVE PInv OBVIOUS
<1>1. /\ status = [n \in Names |-> 0] /\ floor = [n \in Names |-> 0]
      /\ pane = [p \in Pages |-> NoView] /\ tasks = <<>> /\ Init
  BY DEF ProbesInit
<1>2. \A n \in Names : registry[n] \in Nat
  BY <1>1, InitWiring, UnlockAssumption DEF WiringTypes
<1>3. StatusOK /\ RefreshRenews
  BY <1>1, <1>2, UnlockAssumption DEF StatusOK, RefreshRenews, Generations
<1>4. TasksOK /\ Len(tasks) = 0 /\ DOMAIN tasks = {}
  <2>1. tasks \in Seq(Task) /\ Len(tasks) = 0 /\ DOMAIN tasks = {} BY <1>1
  <2> QED BY <2>1, TasksAssumption DEF TasksOK
<1>5. /\ NoView \in Pane /\ Shown(NoView, registry) /\ NoView.view = 0
  <2>1. NoView.kind = "none" /\ NoView.view = 0 /\ NoView.cards = <<>> /\ NoView.met = FALSE
    BY DEF NoView
  <2>2. NoView \in Pane BY NothingIsPartial DEF NoView, Pane
  <2>3. DOMAIN NoView.cards = {} BY <2>1, NothingIsPartial
  <2> QED BY <2>1, <2>2, <2>3 DEF Shown
<1>6. PanesOK BY <1>1, <1>4, <1>5 DEF PanesOK
<1>7. ViewsOK BY <1>1, <1>4 DEF ViewsOK
<1> QED BY <1>3, <1>4, <1>6, <1>7 DEF PInv

ProbesInv == TInv /\ PInv

LEMMA NextProbes == ProbesInv /\ [ProbesNext]_all => ProbesInv'
<1> SUFFICES ASSUME ProbesInv, [ProbesNext]_all PROVE ProbesInv' OBVIOUS
<1>1. CASE WiringStep /\ UNCHANGED probing
  <2>1. TInv' BY <1>1, NextTInv DEF ProbesInv, Next
  <2>2. PInv' BY <1>1, WiringKeepsProbes DEF ProbesInv, TInv
  <2> QED BY <2>1, <2>2 DEF ProbesInv
<1>2. CASE ProbeStep
  <2>1. UNCHANGED <<wiring, api>> /\ UNCHANGED registry BY <1>2 DEF ProbeStep, wiring
  <2>2. TInv' BY <2>1, NextTInv DEF ProbesInv
  <2>3. ASSUME NEW p \in Pages, AdminViews(p) PROVE PInv'
    <3>1. "databases" \in Kinds /\ "caches" \in Kinds BY DEF Kinds
    <3> QED BY <2>1, <2>3, <3>1, OpenProbes, RefreshProbes
          DEF AdminViews, OpenDatabases, OpenCaches, ProbesInv, TInv
  <2>4. ASSUME NEW i \in DOMAIN tasks, Probe(i) PROVE PInv'
    BY <2>1, <2>4, StartProbes, MeasureProbes, EndProbes
       DEF Probe, TestDatabase, TestCache, ProbesInv, TInv
  <2> QED BY <1>2, <2>2, <2>3, <2>4 DEF ProbeStep, ProbesInv
<1>3. CASE UNCHANGED all
  <2>1. UNCHANGED <<wiring, api>> /\ UNCHANGED <<registry, status, pane, tasks, floor>>
    BY <1>3 DEF all, wiring, probing
  <2>2. TInv' BY <2>1, NextTInv DEF ProbesInv
  <2>3. PInv'
    BY <2>1 DEF ProbesInv, PInv, StatusOK, RefreshRenews, TasksOK, PanesOK, ViewsOK
  <2> QED BY <2>2, <2>3 DEF ProbesInv
<1> QED BY <1>1, <1>2, <1>3 DEF ProbesNext

LEMMA ProbesTypes == ASSUME ProbesInv, TypeOK PROVE ProbesTypeOK
<1>1. ASSUME NEW p \in Pages
      PROVE  /\ pane[p].kind \in {"none", "databases", "caches"}
             /\ pane[p].view \in 0 .. Len(tasks) /\ pane[p].met \in BOOLEAN
             /\ pane[p].cards \in Partial(Names, Generations)
  <2>1. pane[p] \in Pane /\ pane[p].view <= Len(tasks) BY DEF ProbesInv, PInv, PanesOK
  <2>2. Len(tasks) \in Nat BY DEF ProbesInv, PInv, TasksOK
  <2> QED BY <2>1, <2>2 DEF Pane, Kinds
<1>2. ASSUME NEW i \in DOMAIN tasks
      PROVE  /\ tasks[i].pc \in {"scheduled", "measuring", "ended"}
             /\ tasks[i].names \subseteq Names /\ tasks[i].todo \subseteq tasks[i].names
             /\ tasks[i].got \in Partial(tasks[i].todo, Generations \ {0})
  <2>1. tasks[i] \in Task /\ Sound(tasks[i], registry, floor)
    BY DEF ProbesInv, PInv, TasksOK
  <2>2. tasks[i].got \in Partial(Names, Generations) BY <2>1 DEF Task
  <2>3. tasks[i].got \in [DOMAIN tasks[i].got -> Generations \ {0}]
    BY <2>1, <2>2, Partials DEF Sound
  <2>4. DOMAIN tasks[i].got \subseteq tasks[i].todo BY <2>1 DEF Sound
  <2>5. tasks[i].got \in Partial(tasks[i].todo, Generations \ {0}) BY <2>3, <2>4, Partials
  <2>6. tasks[i].pc \in {"scheduled", "measuring", "ended"} /\ tasks[i].names \subseteq Names
    BY <2>1 DEF Task
  <2> QED BY <2>1, <2>5, <2>6 DEF Sound
<1>3. /\ status \in [Names -> Generations] /\ floor \in [Names -> Generations]
      /\ Len(tasks) <= MaxTasks
  BY DEF ProbesInv, PInv, StatusOK, TasksOK
<1> QED BY <1>1, <1>2, <1>3 DEF ProbesTypeOK

\* Whatever is unlocked, opened, refreshed and probed meanwhile: cards and probes
\* are of registered names, and a probe holds what it was asked to measure.
THEOREM ProbesTypeCorrect == ProbesSpec => []ProbesTypeOK
<1>1. ProbesInv => ProbesTypeOK BY TypesFollow, ProbesTypes DEF ProbesInv
<1>2. ProbesInit => ProbesInv
  BY InitProbes, InitWiring, InitServices, InitReach DEF ProbesInv, TInv, ProbesInit
<1> QED BY <1>1, <1>2, NextProbes, PTL DEF ProbesSpec

\* A refresh that meets no probe of its kind under way renews: nothing registered
\* before it is shown, or comes back, in any interleaving of views, probes and
\* unlocks of the vault (database_admin.py and cache_admin.py, _on_refresh).
THEOREM Renews == ProbesSpec => []RefreshRenews
<1>1. ProbesInv => RefreshRenews BY DEF ProbesInv, PInv
<1>2. ProbesInit => ProbesInv
  BY InitProbes, InitWiring, InitServices, InitReach DEF ProbesInv, TInv, ProbesInit
<1> QED BY <1>1, <1>2, NextProbes, PTL DEF ProbesSpec

-----------------------------------------------------------------------------
(* The rate limiter *)

\* c and d count in the same place; d cannot have met anybody who lost it
SamePlace(c, d) == call[c].store = call[d].store /\ call[c].host = call[d].host
Settled(d) == call[d].pc = "done" /\ call[d].alone

\* the place where d counts has its time; d has left the window of a call at a
Has(d) == IF call[d].store = "redis" THEN call[d].at \in zset[call[d].host]
          ELSE d \in local[call[d].store][call[d].host]
Gone(d, a) == call[d].at + Window <= a

\* what is counted was decided, or run by Redis without an answer, for the same
\* store and host
Entries == \A l \in Limiters, h \in Hosts : \A d \in local[l][h] :
             call[d].pc = "done" /\ call[d].store = l /\ call[d].host = h
Members == \A h \in Hosts : \A a \in zset[h] : \E d \in Calls :
             Counts(d) /\ call[d].store = "redis" /\ call[d].host = h /\ call[d].at = a
Running == \A c \in Calls : call[c].ran => call[c].pc \in {"timed", "failed"} /\ call[c].store = "redis"
Reads   == \A c \in Calls : call[c].pc = "read" =>
             /\ call[c].store # "redis"
             /\ \A d \in call[c].read : call[d].pc = "done" /\ SamePlace(c, d)

\* Who is alone has nobody beside him.  So what was decided alone stays where it
\* counts, and in every list that was read, until it leaves the window; and a
\* call that is alone has missed nothing that is in its own window.  A call that
\* failed may still be run by Redis: its window ends before that of whoever is
\* alone, for it was under way when nobody could be.
Apart == \A c, d \in Calls : UnderWay(c) /\ call[c].alone /\ UnderWay(d) /\ SamePlace(c, d) => c = d
Kept  == \A d \in Calls : Settled(d) => Has(d) \/ Gone(d, now)
ReadsKept == \A c, d \in Calls : call[c].pc = "read" /\ Settled(d) /\ SamePlace(c, d) =>
               d \in call[c].read \/ Gone(d, now)
Fresh == \A c, d \in Calls : UnderWay(c) /\ call[c].alone /\ Settled(d) /\ SamePlace(c, d) =>
           \/ IF call[c].pc = "read" THEN d \in call[c].read ELSE Has(d)
           \/ Gone(d, call[c].at)

Older == \A c, e \in Calls :
           call[c].pc = "failed" /\ UnderWay(e) /\ call[e].alone /\ SamePlace(c, e) =>
             call[c].at <= call[e].at

CountedOK == Entries /\ Members /\ Reads /\ Running
AloneOK   == Apart /\ Kept /\ ReadsKept /\ Fresh /\ Older
LimitInv  == LimitsTypeOK /\ CountedOK /\ AloneOK

\* the calls of a host in the window that ends at a, and those that were admitted
Within(s, h, a) == {c \in Recent(s, h, a) : call[c].pc = "done" /\ call[c].at <= a}
Admitted(s, h, a, l) == {c \in Within(s, h, a) : call[c].limiter = l /\ call[c].ok}

LEMMA CallFacts ==
  ASSUME LimitsTypeOK, NEW c \in Calls
  PROVE  /\ call[c] \in CallKind
         /\ call[c].pc \in {"new", "chosen", "timed", "read", "done", "failed"}
         /\ call[c].limiter \in Limiters /\ call[c].store \in Stores
         /\ call[c].at \in Nat /\ call[c].at \in Times /\ call[c].read \subseteq Calls
         /\ call[c].alone \in BOOLEAN /\ call[c].ok \in BOOLEAN /\ call[c].ran \in BOOLEAN
         /\ call[c].pc # "new" => call[c].host \in Hosts
         /\ call[c].store # "redis" => call[c].store \in Limiters
         /\ call[c].at <= now /\ now \in Nat /\ Window \in Nat \ {0}
<1>1. call[c] \in CallKind BY DEF LimitsTypeOK
<1>2. Times \subseteq Nat BY TimeAssumption DEF Times
<1> QED BY <1>1, <1>2, TimeAssumption DEF LimitsTypeOK, CallKind, Stores

LEMMA InitLimits == LimitsInit => LimitInv /\ AdmittedWithinLimit
<1> SUFFICES ASSUME LimitsInit PROVE LimitInv /\ AdmittedWithinLimit OBVIOUS
<1>1. \A c \in Calls : call[c] = NewCall BY DEF LimitsInit
<1>2. 0 \in Times BY TimeAssumption DEF Times
<1>3. NewCall \in CallKind BY <1>2 DEF NewCall, CallKind, Limiters, Stores
<1>4. NewCall.pc = "new" /\ NewCall.at = 0 /\ ~NewCall.ran BY DEF NewCall
<1>5. LimitsTypeOK BY <1>1, <1>2, <1>3, <1>4 DEF LimitsInit, LimitsTypeOK
<1>6. CountedOK BY <1>1, <1>4 DEF LimitsInit, CountedOK, Entries, Members, Reads, Running
<1>7. AloneOK BY <1>1, <1>4 DEF AloneOK, Apart, Kept, ReadsKept, Fresh, Older, UnderWay, Settled
<1>8. ASSUME NEW s \in Stores, NEW h \in Hosts, NEW a \in Times, NEW l \in Limiters
      PROVE  Cardinality(Admitted(s, h, a, l)) <= Limit(l)
  <2>1. Admitted(s, h, a, l) = {} BY <1>1, <1>4 DEF Admitted, Within, Recent, Counts
  <2>2. Limit(l) \in Nat BY LimitAssumption DEF Limit
  <2> QED BY <2>1, <2>2, FS_EmptySet
<1>9. AdmittedWithinLimit BY <1>8 DEF AdmittedWithinLimit, Admitted, Within
<1> QED BY <1>5, <1>6, <1>7, <1>9 DEF LimitInv

\* A step that decides nothing admits nobody.
LEMMA UndecidedAdmits ==
  ASSUME AdmittedWithinLimit,
         \A c \in Calls : call'[c].pc = "done" <=> call[c].pc = "done",
         \A c \in Calls : call[c].pc = "done" => call'[c] = call[c]
  PROVE  AdmittedWithinLimit'
<1> SUFFICES ASSUME NEW s \in Stores, NEW h \in Hosts, NEW a \in Times,
                    \A d \in Within(s, h, a)' : call'[d].alone,
                    s = "redis" => Distinct(Within(s, h, a))',
                    NEW l \in Limiters
             PROVE  Cardinality(Admitted(s, h, a, l)') <= Limit(l)
  BY DEF AdmittedWithinLimit, Within, Admitted
<1>1. Within(s, h, a)' = Within(s, h, a) BY DEF Within, Recent, Counts
<1>2. \A c \in Within(s, h, a) : c \in Calls /\ call'[c] = call[c] BY DEF Within, Recent, Counts
<1>3. \A c \in Within(s, h, a) : call[c].alone BY <1>1, <1>2
<1>4. s = "redis" => Distinct(Within(s, h, a)) BY <1>1, <1>2 DEF Distinct
<1>5. Cardinality(Admitted(s, h, a, l)) <= Limit(l)
  BY <1>3, <1>4 DEF AdmittedWithinLimit, Admitted, Within
<1>6. Admitted(s, h, a, l)' = Admitted(s, h, a, l) BY <1>1, <1>2 DEF Admitted
<1> QED BY <1>5, <1>6

\* A decision that has counted all that was decided alone in its window.
LEMMA DecisionAdmits ==
  ASSUME LimitsTypeOK, AdmittedWithinLimit, NEW c \in Calls, call[c].pc # "done",
         NEW count \in Nat, Decide(c, count),
         \A B \in SUBSET Calls :
           /\ call[c].alone
           /\ \A d \in B : /\ Settled(d) /\ SamePlace(c, d) /\ ~Gone(d, call[c].at)
                           /\ d # c
           /\ call[c].store = "redis" => Distinct(B \cup {c})
           => Cardinality(B \cup {c}) <= count
  PROVE  AdmittedWithinLimit'
<1> SUFFICES ASSUME NEW s \in Stores, NEW h \in Hosts, NEW a \in Times,
                    \A d \in Within(s, h, a)' : call'[d].alone,
                    s = "redis" => Distinct(Within(s, h, a))',
                    NEW l \in Limiters
             PROVE  Cardinality(Admitted(s, h, a, l)') <= Limit(l)
  BY DEF AdmittedWithinLimit, Within, Admitted
<1> DEFINE calls == Within(s, h, a)
           after == Within(s, h, a)'
           old   == Admitted(s, h, a, l)
           new   == Admitted(s, h, a, l)'
<1>c. call[c] \in CallKind /\ call \in [Calls -> CallKind] BY DEF LimitsTypeOK
<1>1. /\ \A d \in Calls \ {c} : call'[d] = call[d]
      /\ call'[c].pc = "done" /\ call'[c].limiter = call[c].limiter
      /\ call'[c].store = call[c].store /\ call'[c].host = call[c].host
      /\ call'[c].at = call[c].at /\ call'[c].alone = call[c].alone
      /\ call'[c].ok = (count <= Limit(call[c].limiter))
  BY <1>c DEF Decide, CallKind
<1>2. calls \subseteq after /\ after \subseteq calls \cup {c} /\ c \notin calls
  BY <1>1 DEF Within, Recent, Counts
<1>5. \A d \in calls : d \in Calls \ {c} /\ call'[d] = call[d] /\ d \in after
  BY <1>1, <1>2 DEF Within, Recent, Counts
<1>3. CASE c \notin new
  <2>0. \A d : d \in new <=> d \in after /\ call'[d].limiter = l /\ call'[d].ok BY DEF Admitted
  <2>1. \A d : d \in new <=> d \in old
    <3>1. \A d : d \in old <=> d \in calls /\ call[d].limiter = l /\ call[d].ok BY DEF Admitted
    <3> HIDE DEF new, old, calls, after
    <3> QED BY <1>2, <1>3, <1>5, <2>0, <3>1
  <2>2. \A d \in calls : call[d].alone BY <1>5
  <2>3. s = "redis" => Distinct(calls) BY <1>5 DEF Distinct
  <2>4. Cardinality(old) <= Limit(l) BY <2>2, <2>3 DEF AdmittedWithinLimit, Admitted, Within
  <2>5. new = old BY <2>1
  <2> QED BY <2>4, <2>5
<1>4. CASE c \in new
  <2> DEFINE B == new \ {c}
  <2>1. /\ call[c].alone /\ call[c].store = s /\ call[c].host = h /\ call[c].at <= a
        /\ call[c].limiter = l /\ count <= Limit(l)
    BY <1>1, <1>4 DEF Admitted, Within, Recent, Counts
  <2>2. B \in SUBSET Calls /\ B \cup {c} = new BY <1>4 DEF Admitted, Within, Recent, Counts
  <2>3. ASSUME NEW d \in B
        PROVE  Settled(d) /\ SamePlace(c, d) /\ ~Gone(d, call[c].at) /\ d # c
    <3>1. d \in Calls \ {c} /\ d \in after /\ call'[d] = call[d] BY <1>1 DEF Admitted, Within, Recent, Counts
    <3>2. /\ call[d].pc = "done" /\ call[d].alone /\ call[d].store = s /\ call[d].host = h
          /\ call[d].at + Window > a
      BY <3>1 DEF Within, Recent, Counts
    <3>3. /\ call[d].at \in Nat /\ call[c].at \in Nat /\ Window \in Nat /\ a \in Nat
      BY <3>1, CallFacts, TimeAssumption DEF Times
    <3>4. ~(call[d].at + Window <= call[c].at) BY <2>1, <3>2, <3>3
    <3> QED BY <2>1, <3>1, <3>2, <3>4 DEF Settled, SamePlace, Gone
  <2>4. call[c].store = "redis" => Distinct(B \cup {c})
    BY <1>1, <2>1, <2>2 DEF Distinct, Admitted, Within, Recent, Counts
  <2>5. Cardinality(new) <= count BY <2>1, <2>2, <2>3, <2>4
  <2>6. Cardinality(new) \in Nat
    <3>1. new \in SUBSET Calls BY DEF Admitted, Within, Recent, Counts
    <3> QED BY <3>1, CallsAssumption, FS_Subset, FS_CardinalityType
  <2>7. Limit(l) \in Nat BY LimitAssumption DEF Limit
  <2> QED BY <2>1, <2>5, <2>6, <2>7
<1> QED BY <1>3, <1>4

\* The clock: what has left the window stays out of it.
LEMMA TickLimits == ASSUME LimitInv, AdmittedWithinLimit, Tick PROVE LimitInv' /\ AdmittedWithinLimit'
<1> USE DEF LimitInv
<1>1. now \in Nat /\ now' = now + 1 /\ now' \in Times /\ UNCHANGED <<local, zset, call>>
  BY TimeAssumption DEF Tick, LimitsTypeOK, Times
<1>2. \A c \in Calls : call[c].at \in Nat /\ call[c].at <= now BY CallFacts
<1>3. \A h \in Hosts : \A a \in zset[h] : a \in Nat /\ a <= now
  BY TimeAssumption DEF LimitsTypeOK, Times
<1>4. LimitsTypeOK' BY <1>1, <1>2, <1>3 DEF LimitsTypeOK
<1>5. CountedOK' BY <1>1 DEF CountedOK, Entries, Members, Reads, Running, Counts, SamePlace
<1>6. \A d \in Calls : Gone(d, now) => Gone(d, now)'
  BY <1>1, <1>2, TimeAssumption DEF Gone
<1>7. AloneOK'
  <2>1. Apart' /\ Fresh' /\ Older'
    BY <1>1 DEF AloneOK, Apart, Fresh, Older, UnderWay, Settled, SamePlace, Has, Gone
  <2>2. Kept' /\ ReadsKept'
    BY <1>1, <1>6 DEF AloneOK, Kept, ReadsKept, Settled, SamePlace, Has
  <2> QED BY <2>1, <2>2 DEF AloneOK
<1>8. AdmittedWithinLimit' BY <1>1, UndecidedAdmits
<1> QED BY <1>4, <1>5, <1>7, <1>8

\* A step of one call that neither decides nor touches what is counted.
LEMMA MovesLimits ==
  ASSUME LimitInv, AdmittedWithinLimit, NEW c \in Calls, UNCHANGED <<now, local, zset>>,
         call[c].pc # "done", call'[c].pc # "done", call' \in [Calls -> CallKind],
         \A d \in Calls \ {c} : call'[d] = call[d],
         call'[c].at <= now, call'[c].pc # "new" => call'[c].host \in Hosts,
         call[c].ran => /\ call'[c].ran /\ call'[c].store = call[c].store
                        /\ call'[c].host = call[c].host /\ call'[c].at = call[c].at,
         call'[c].ran => call'[c].pc \in {"timed", "failed"} /\ call'[c].store = "redis"
  PROVE  /\ LimitsTypeOK' /\ Entries' /\ Members' /\ Running' /\ Kept' /\ AdmittedWithinLimit'
         /\ \A d \in Calls : Settled(d)' <=> Settled(d)
         /\ \A d \in Calls : Settled(d) => d # c
<1> USE DEF LimitInv
<1>1. LimitsTypeOK' BY DEF LimitsTypeOK
<1>2. \A d \in Calls : call[d].pc = "done" \/ call'[d].pc = "done" => d # c /\ call'[d] = call[d]
  OBVIOUS
<1>3. Entries' BY <1>2 DEF CountedOK, Entries, LimitsTypeOK
<1>4. Members' /\ Running'
  <2>1. \A d \in Calls : Counts(d) => /\ Counts(d)' /\ call'[d].store = call[d].store
                                      /\ call'[d].host = call[d].host /\ call'[d].at = call[d].at
    BY DEF Counts
  <2>2. Members' BY <2>1 DEF CountedOK, Members
  <2>3. Running' BY DEF CountedOK, Running
  <2> QED BY <2>2, <2>3
<1>5. \A d \in Calls : Settled(d)' <=> Settled(d) BY <1>2 DEF Settled
<1>6. \A d \in Calls : Settled(d) => d # c /\ call'[d] = call[d] BY <1>2 DEF Settled
<1>7. Kept' BY <1>5, <1>6 DEF AloneOK, Kept, Has, Gone
<1>8. AdmittedWithinLimit' BY <1>2, UndecidedAdmits
<1> QED BY <1>1, <1>3, <1>4, <1>5, <1>6, <1>7, <1>8

\* The same, for a call that is not under way afterwards.
LEMMA OutsideLimits ==
  ASSUME LimitInv, AdmittedWithinLimit, NEW c \in Calls, UNCHANGED <<now, local, zset>>,
         call[c].pc # "done", call'[c].pc # "done", call' \in [Calls -> CallKind],
         \A d \in Calls \ {c} : call'[d] = call[d],
         call'[c].at <= now, call'[c].pc # "new" => call'[c].host \in Hosts,
         call'[c].pc \notin {"timed", "read"},
         call[c].ran => /\ call'[c].ran /\ call'[c].store = call[c].store
                        /\ call'[c].host = call[c].host /\ call'[c].at = call[c].at,
         call'[c].ran => call'[c].pc \in {"timed", "failed"} /\ call'[c].store = "redis",
         call'[c].pc = "failed" => /\ UnderWay(c) /\ call'[c].store = call[c].store
                                   /\ call'[c].host = call[c].host
  PROVE  LimitInv' /\ AdmittedWithinLimit'
<1> USE DEF LimitInv
<1>1. /\ LimitsTypeOK' /\ Entries' /\ Members' /\ Running' /\ Kept' /\ AdmittedWithinLimit'
      /\ \A d \in Calls : Settled(d)' <=> Settled(d)
      /\ \A d \in Calls : Settled(d) => d # c
  BY MovesLimits
<1>2. \A d \in Calls : call'[d].pc \in {"timed", "read"} => d # c /\ call'[d] = call[d] OBVIOUS
<1>3. Reads'
  <2>1. ASSUME NEW d \in Calls, call'[d].pc = "read"
        PROVE  /\ call'[d].store # "redis"
               /\ \A e \in call'[d].read : call'[e].pc = "done" /\ SamePlace(d, e)'
    <3>1. d # c /\ call'[d] = call[d] BY <1>2, <2>1
    <3>2. call[d].store # "redis" /\ \A e \in call[d].read : call[e].pc = "done" /\ SamePlace(d, e)
      BY <2>1, <3>1 DEF CountedOK, Reads
    <3>3. \A e \in call[d].read : e \in Calls \ {c} BY <3>2, CallFacts
    <3> QED BY <3>1, <3>2, <3>3 DEF SamePlace
  <2> QED BY <2>1 DEF Reads
<1>4. Apart' BY <1>2 DEF AloneOK, Apart, UnderWay, SamePlace
<1>5. ReadsKept' BY <1>1, <1>2 DEF AloneOK, ReadsKept, SamePlace, Gone
<1>6. Fresh' BY <1>1, <1>2 DEF AloneOK, Fresh, UnderWay, SamePlace, Gone, Has
<1>7. Older'
  <2> SUFFICES ASSUME NEW d \in Calls, NEW e \in Calls, call'[d].pc = "failed", UnderWay(e)',
                      call'[e].alone, SamePlace(d, e)'
               PROVE  call'[d].at <= call'[e].at
    BY DEF Older
  <2>1. e # c /\ call'[e] = call[e] /\ UnderWay(e) /\ call[e].alone BY <1>2 DEF UnderWay
  <2>2. CASE d = c
    <3>1. UnderWay(c) /\ SamePlace(e, c) BY <2>1, <2>2 DEF SamePlace
    <3> QED BY <2>1, <3>1 DEF AloneOK, Apart
  <2>3. CASE d # c
    <3>1. call'[d] = call[d] BY <2>3
    <3> QED BY <2>1, <3>1 DEF AloneOK, Older, SamePlace
  <2> QED BY <2>2, <2>3
<1> QED BY <1>1, <1>3, <1>4, <1>5, <1>6, <1>7 DEF CountedOK, AloneOK

LEMMA EnterLimits ==
  ASSUME LimitInv, AdmittedWithinLimit, NEW c \in Calls, NEW l \in Limiters, NEW h \in Hosts,
         Enter(c, l, h)
  PROVE  LimitInv' /\ AdmittedWithinLimit'
<1> USE DEF LimitInv
<1> DEFINE s == IF Registered(registry, Redis) THEN "redis" ELSE l
           k == [NewCall EXCEPT !.pc = "chosen", !.limiter = l, !.host = h, !.store = s]
<1>1. /\ call[c].pc = "new" /\ call' = [call EXCEPT ![c] = k] /\ UNCHANGED <<now, local, zset>>
  BY DEF Enter
<1>2. s \in Stores BY DEF Stores
<1> HIDE DEF s
<1>3. k \in CallKind /\ k.pc = "chosen" /\ k.at = 0 /\ k.host = h /\ ~k.ran
  <2>1. 0 \in Times BY TimeAssumption DEF Times
  <2> QED BY <1>2, <2>1 DEF NewCall, CallKind, Limiters
<1> HIDE DEF k
<1>4. /\ call' \in [Calls -> CallKind] /\ call'[c] = k
      /\ \A d \in Calls \ {c} : call'[d] = call[d]
  BY <1>1, <1>3 DEF LimitsTypeOK
<1>5. now \in Nat BY CallFacts
<1>6. ~call[c].ran BY <1>1 DEF CountedOK, Running
<1> QED BY <1>1, <1>3, <1>4, <1>5, <1>6, OutsideLimits

LEMMA FailsLimits ==
  ASSUME LimitInv, AdmittedWithinLimit, NEW c \in Calls, RedisFails(c)
  PROVE  LimitInv' /\ AdmittedWithinLimit'
<1> USE DEF LimitInv
<1>1. /\ call[c].pc = "timed" /\ call' = [call EXCEPT ![c] = [call[c] EXCEPT !.pc = "failed"]]
      /\ UNCHANGED <<now, local, zset>>
  BY DEF RedisFails
<1>2. call[c] \in CallKind BY CallFacts
<1>3. /\ call'[c] \in CallKind /\ call'[c].pc = "failed" /\ call'[c].at = call[c].at
      /\ call'[c].host = call[c].host /\ call'[c].store = call[c].store
      /\ call'[c].ran = call[c].ran
  BY <1>1, <1>2 DEF CallKind, LimitsTypeOK
<1>4. call' \in [Calls -> CallKind] /\ \A d \in Calls \ {c} : call'[d] = call[d]
  BY <1>1, <1>3 DEF LimitsTypeOK
<1>5. UnderWay(c) /\ (call[c].ran => call[c].store = "redis")
  BY <1>1 DEF UnderWay, CountedOK, Running
<1> QED BY <1>1, <1>3, <1>4, <1>5, CallFacts, OutsideLimits

\* What a call that takes the time has missed has left its window, for that ends now.
LEMMA TakeTimeLimits ==
  ASSUME LimitInv, AdmittedWithinLimit, NEW c \in Calls, TakeTime(c)
  PROVE  LimitInv' /\ AdmittedWithinLimit'
<1> USE DEF LimitInv
<1> DEFINE meet == Meeting(call[c].store, call[c].host)
           k == [call[c] EXCEPT !.pc = "timed", !.at = now, !.alone = (meet = {})]
<1>1. /\ call[c].pc = "chosen" /\ UNCHANGED <<now, local, zset>>
      /\ call' = [d \in Calls |-> IF d = c THEN k
                   ELSE IF d \in meet THEN [call[d] EXCEPT !.alone = FALSE] ELSE call[d]]
  BY DEF TakeTime
<1>2. \A d \in meet : /\ d \in Calls /\ d # c /\ call[d].pc \in {"timed", "read"}
                      /\ SamePlace(c, d)
  BY <1>1 DEF Meeting, UnderWay, SamePlace
<1>3. ASSUME NEW d \in Calls, UnderWay(d), SamePlace(c, d) PROVE d \in meet
  BY <1>3 DEF Meeting, SamePlace
<1> HIDE DEF meet
<1>4. /\ call[c] \in CallKind /\ now \in Times /\ now \in Nat BY CallFacts DEF LimitsTypeOK
<1>5. /\ k \in CallKind /\ k.pc = "timed" /\ k.at = now /\ (k.alone <=> meet = {})
      /\ k.store = call[c].store /\ k.host = call[c].host /\ k.host \in Hosts
      /\ k.ran = call[c].ran
  <2>1. call[c].host \in Hosts BY <1>1, CallFacts
  <2> QED BY <1>4, <2>1 DEF CallKind
<1> HIDE DEF k
<1>6. ASSUME NEW d \in Calls, d # c
      PROVE  /\ call'[d] \in CallKind
             /\ call'[d].pc = call[d].pc /\ call'[d].store = call[d].store
             /\ call'[d].host = call[d].host /\ call'[d].at = call[d].at
             /\ call'[d].read = call[d].read /\ call'[d].ran = call[d].ran
             /\ call'[d].alone => call[d].alone /\ d \notin meet
             /\ call[d].pc = "done" => call'[d] = call[d]
  <2>1. call[d] \in CallKind BY CallFacts
  <2>2. CASE d \in meet
    <3>1. call'[d] = [call[d] EXCEPT !.alone = FALSE] BY <1>1, <1>6, <2>2
    <3>2. call[d].pc # "done" BY <1>2, <2>2
    <3> QED BY <2>1, <3>1, <3>2 DEF CallKind
  <2>3. CASE d \notin meet
    <3>1. call'[d] = call[d] BY <1>1, <1>6, <2>3
    <3> QED BY <2>1, <2>3, <3>1
  <2> QED BY <2>2, <2>3
<1>7. call'[c] = k BY <1>1
<1>8. \A d \in Calls : call[d].pc = "done" \/ call'[d].pc = "done" =>
        d # c /\ call[d].pc = "done" /\ call'[d] = call[d]
  BY <1>1, <1>5, <1>6, <1>7
<1>9. LimitsTypeOK'
  <2>1. call' \in [Calls -> CallKind] BY <1>1, <1>5, <1>6, <1>7
  <2>2. ASSUME NEW d \in Calls
        PROVE  call'[d].at <= now /\ (call'[d].pc # "new" => call'[d].host \in Hosts)
    BY <1>4, <1>5, <1>6, <1>7 DEF LimitsTypeOK
  <2> QED BY <1>1, <2>1, <2>2 DEF LimitsTypeOK
<1>10. Entries' BY <1>1, <1>8 DEF CountedOK, Entries, LimitsTypeOK
<1>11. Members' /\ Running'
  <2>1. ~call[c].ran BY <1>1 DEF CountedOK, Running
  <2>2. ~Counts(c) BY <1>1, <2>1 DEF Counts
  <2>3. \A d \in Calls : Counts(d) => /\ Counts(d)' /\ call'[d].store = call[d].store
                                      /\ call'[d].host = call[d].host /\ call'[d].at = call[d].at
    BY <1>6, <2>2 DEF Counts
  <2>4. Members' BY <1>1, <2>3 DEF CountedOK, Members
  <2>5. Running' BY <1>5, <1>6, <1>7, <2>1 DEF CountedOK, Running
  <2> QED BY <2>4, <2>5
<1>12. Reads'
  <2>1. ASSUME NEW d \in Calls, call'[d].pc = "read"
        PROVE  /\ call'[d].store # "redis"
               /\ \A e \in call'[d].read : call'[e].pc = "done" /\ SamePlace(d, e)'
    <3>1. d # c /\ call[d].pc = "read" BY <1>5, <1>6, <1>7, <2>1
    <3>2. call[d].store # "redis" /\ \A e \in call[d].read : call[e].pc = "done" /\ SamePlace(d, e)
      BY <3>1 DEF CountedOK, Reads
    <3>3. \A e \in call[d].read : e \in Calls /\ call'[e] = call[e] BY <1>8, <3>2, CallFacts
    <3> QED BY <1>6, <3>1, <3>2, <3>3 DEF SamePlace
  <2> QED BY <2>1 DEF Reads
<1>13. \A d \in Calls : Settled(d)' <=> Settled(d) BY <1>8 DEF Settled
<1>14. \A d \in Calls : Settled(d) => d # c /\ call'[d] = call[d] BY <1>8 DEF Settled
<1>15. Kept' BY <1>1, <1>13, <1>14 DEF AloneOK, Kept, Has, Gone
<1>16. Apart'
  <2> SUFFICES ASSUME NEW d \in Calls, NEW e \in Calls, UnderWay(d)', call'[d].alone,
                      UnderWay(e)', SamePlace(d, e)', d # e
               PROVE  FALSE
    BY DEF Apart
  <2>1. CASE d = c
    <3>1. UnderWay(e) /\ SamePlace(c, e) BY <1>5, <1>6, <1>7, <2>1 DEF UnderWay, SamePlace
    <3> QED BY <1>3, <1>5, <1>7, <2>1, <3>1
  <2>2. CASE e = c
    <3>1. UnderWay(d) /\ SamePlace(c, d) BY <1>5, <1>6, <1>7, <2>2 DEF UnderWay, SamePlace
    <3> QED BY <1>3, <1>6, <2>2, <3>1
  <2>3. CASE d # c /\ e # c
    BY <1>6, <2>3 DEF AloneOK, Apart, UnderWay, SamePlace
  <2> QED BY <2>1, <2>2, <2>3
<1>17. ReadsKept'
  <2> SUFFICES ASSUME NEW e \in Calls, NEW d \in Calls, call'[e].pc = "read", Settled(d)',
                      SamePlace(e, d)'
               PROVE  d \in call'[e].read \/ Gone(d, now)'
    BY DEF ReadsKept
  <2>1. e # c /\ call[e].pc = "read" /\ call'[e].read = call[e].read
    BY <1>5, <1>6, <1>7
  <2>2. Settled(d) /\ d # c /\ call'[d] = call[d] BY <1>13, <1>14
  <2>3. SamePlace(e, d) BY <1>6, <2>1, <2>2 DEF SamePlace
  <2> QED BY <1>1, <2>1, <2>2, <2>3 DEF AloneOK, ReadsKept, Gone
<1>18. Fresh'
  <2> SUFFICES ASSUME NEW e \in Calls, NEW d \in Calls, UnderWay(e)', call'[e].alone, Settled(d)',
                      SamePlace(e, d)'
               PROVE  \/ IF call'[e].pc = "read" THEN d \in call'[e].read ELSE Has(d)'
                      \/ call'[d].at + Window <= call'[e].at
    BY DEF Fresh, Gone
  <2>1. Settled(d) /\ d # c /\ call'[d] = call[d] BY <1>13, <1>14
  <2>2. Has(d)' <=> Has(d) BY <1>1, <2>1 DEF Has
  <2>3. CASE e = c
    <3>1. Has(d) \/ call[d].at + Window <= now BY <2>1 DEF AloneOK, Kept, Gone
    <3> QED BY <1>5, <1>7, <2>1, <2>2, <2>3, <3>1
  <2>4. CASE e # c
    <3>1. UnderWay(e) /\ call[e].alone /\ SamePlace(e, d)
      BY <1>6, <2>1, <2>4 DEF UnderWay, SamePlace
    <3>2. \/ IF call[e].pc = "read" THEN d \in call[e].read ELSE Has(d)
          \/ call[d].at + Window <= call[e].at
      BY <2>1, <3>1 DEF AloneOK, Fresh, Gone
    <3> QED BY <1>6, <2>1, <2>2, <2>4, <3>2
  <2> QED BY <2>3, <2>4
<1>19. Older'
  <2> SUFFICES ASSUME NEW d \in Calls, NEW e \in Calls, call'[d].pc = "failed", UnderWay(e)',
                      call'[e].alone, SamePlace(d, e)'
               PROVE  call'[d].at <= call'[e].at
    BY DEF Older
  <2>1. d # c /\ call[d].pc = "failed" /\ call'[d].at = call[d].at BY <1>5, <1>6, <1>7
  <2>2. CASE e = c BY <1>5, <1>7, <2>1, <2>2, CallFacts
  <2>3. CASE e # c
    <3>1. UnderWay(e) /\ call[e].alone /\ SamePlace(d, e)
      BY <1>6, <2>1, <2>3 DEF UnderWay, SamePlace
    <3> QED BY <1>6, <2>1, <2>3, <3>1 DEF AloneOK, Older
  <2> QED BY <2>2, <2>3
<1>20. AdmittedWithinLimit' BY <1>8, UndecidedAdmits
<1> QED BY <1>9, <1>10, <1>11, <1>12, <1>15, <1>16, <1>17, <1>18, <1>19, <1>20
        DEF CountedOK, AloneOK

\* Who reads the list finds in it whoever is kept.
LEMMA ReadLimits ==
  ASSUME LimitInv, AdmittedWithinLimit, NEW c \in Calls, ReadLocal(c)
  PROVE  LimitInv' /\ AdmittedWithinLimit'
<1> USE DEF LimitInv
<1> DEFINE list == local[call[c].store][call[c].host]
<1>1. /\ call[c].pc = "timed" /\ call[c].store # "redis"
      /\ call' = [call EXCEPT ![c] = [call[c] EXCEPT !.pc = "read", !.read = list]]
      /\ UNCHANGED <<now, local, zset>>
  <2>1. [call EXCEPT ![c].pc = "read", ![c].read = list]
          = [call EXCEPT ![c] = [call[c] EXCEPT !.pc = "read", !.read = list]]
    BY DEF LimitsTypeOK
  <2> QED BY <2>1 DEF ReadLocal
<1>2. call[c] \in CallKind /\ call[c].store \in Limiters /\ call[c].host \in Hosts
  BY <1>1, CallFacts
<1>3. list \subseteq Calls BY <1>2 DEF LimitsTypeOK
<1>4. \A d \in list : d \in Calls /\ call[d].pc = "done" /\ SamePlace(c, d)
  BY <1>2, <1>3 DEF CountedOK, Entries, SamePlace
<1>5. ASSUME NEW d \in Calls, SamePlace(c, d), Has(d) PROVE d \in list
  BY <1>1, <1>5 DEF Has, SamePlace
<1> HIDE DEF list
<1>6. /\ call'[c] \in CallKind /\ call'[c].pc = "read" /\ call'[c].at = call[c].at
      /\ call'[c].host = call[c].host /\ call'[c].store = call[c].store
      /\ call'[c].alone = call[c].alone /\ call'[c].read = list /\ call'[c].ran = call[c].ran
  BY <1>1, <1>2, <1>3 DEF CallKind, LimitsTypeOK
<1>7. call' \in [Calls -> CallKind] /\ \A d \in Calls \ {c} : call'[d] = call[d]
  BY <1>1, <1>6 DEF LimitsTypeOK
<1>13. ~call[c].ran BY <1>1 DEF CountedOK, Running
<1>8. /\ LimitsTypeOK' /\ Entries' /\ Members' /\ Running' /\ Kept' /\ AdmittedWithinLimit'
      /\ \A d \in Calls : Settled(d)' <=> Settled(d)
      /\ \A d \in Calls : Settled(d) => d # c
  BY <1>1, <1>6, <1>7, <1>13, CallFacts, MovesLimits
<1>9. Reads'
  <2> SUFFICES ASSUME NEW d \in Calls, call'[d].pc = "read"
               PROVE  /\ call'[d].store # "redis"
                      /\ \A e \in call'[d].read : call'[e].pc = "done" /\ SamePlace(d, e)'
    BY DEF Reads
  <2>1. CASE d = c
    <3>1. \A e \in list : e # c /\ call'[e] = call[e] BY <1>1, <1>4, <1>7
    <3> QED BY <1>1, <1>4, <1>6, <2>1, <3>1 DEF SamePlace
  <2>2. CASE d # c
    <3>1. call'[d] = call[d] BY <1>7, <2>2
    <3>2. call[d].store # "redis" /\ \A e \in call[d].read : call[e].pc = "done" /\ SamePlace(d, e)
      BY <3>1 DEF CountedOK, Reads
    <3>3. \A e \in call[d].read : e \in Calls \ {c} BY <1>1, <3>2, CallFacts
    <3> QED BY <1>7, <3>1, <3>2, <3>3 DEF SamePlace
  <2> QED BY <2>1, <2>2
<1>10. Apart'
  <2>1. \A d \in Calls : /\ UnderWay(d)' <=> UnderWay(d)
                         /\ call'[d].alone = call[d].alone /\ call'[d].store = call[d].store
                         /\ call'[d].host = call[d].host
    BY <1>1, <1>6, <1>7 DEF UnderWay
  <2> QED BY <2>1 DEF AloneOK, Apart, SamePlace
<1>11. ReadsKept'
  <2> SUFFICES ASSUME NEW e \in Calls, NEW d \in Calls, call'[e].pc = "read", Settled(d)',
                      SamePlace(e, d)'
               PROVE  d \in call'[e].read \/ Gone(d, now)'
    BY DEF ReadsKept
  <2>1. Settled(d) /\ d # c /\ call'[d] = call[d] BY <1>7, <1>8
  <2>2. SamePlace(e, d) BY <1>6, <1>7, <2>1 DEF SamePlace
  <2>3. CASE e = c
    <3>1. Has(d) \/ Gone(d, now) BY <2>1 DEF AloneOK, Kept
    <3> QED BY <1>1, <1>5, <1>6, <2>1, <2>2, <2>3, <3>1 DEF Gone
  <2>4. CASE e # c
    <3>1. call'[e] = call[e] BY <1>7, <2>4
    <3> QED BY <1>1, <2>1, <2>2, <3>1 DEF AloneOK, ReadsKept, Gone
  <2> QED BY <2>3, <2>4
<1>12. Fresh'
  <2> SUFFICES ASSUME NEW e \in Calls, NEW d \in Calls, UnderWay(e)', call'[e].alone, Settled(d)',
                      SamePlace(e, d)'
               PROVE  \/ IF call'[e].pc = "read" THEN d \in call'[e].read ELSE Has(d)'
                      \/ call'[d].at + Window <= call'[e].at
    BY DEF Fresh, Gone
  <2>1. Settled(d) /\ d # c /\ call'[d] = call[d] BY <1>7, <1>8
  <2>2. /\ SamePlace(e, d) /\ UnderWay(e) /\ call[e].alone
        /\ call'[e].at = call[e].at
    BY <1>1, <1>6, <1>7, <2>1 DEF SamePlace, UnderWay
  <2>3. \/ IF call[e].pc = "read" THEN d \in call[e].read ELSE Has(d)
        \/ call[d].at + Window <= call[e].at
    BY <2>1, <2>2 DEF AloneOK, Fresh, Gone
  <2>4. CASE e = c BY <1>1, <1>5, <1>6, <2>1, <2>2, <2>3, <2>4
  <2>5. CASE e # c
    <3>1. call'[e] = call[e] BY <1>7, <2>5
    <3>2. Has(d)' <=> Has(d) BY <1>1, <2>1 DEF Has
    <3> QED BY <2>1, <2>3, <3>1, <3>2
  <2> QED BY <2>4, <2>5
<1>14. Older'
  <2>1. \A d \in Calls : /\ UnderWay(d)' <=> UnderWay(d)
                         /\ call'[d].pc = "failed" => call[d].pc = "failed"
                         /\ call'[d].alone = call[d].alone /\ call'[d].store = call[d].store
                         /\ call'[d].host = call[d].host /\ call'[d].at = call[d].at
    BY <1>1, <1>6, <1>7 DEF UnderWay
  <2> QED BY <2>1 DEF AloneOK, Older, SamePlace
<1> QED BY <1>8, <1>9, <1>10, <1>11, <1>12, <1>14 DEF CountedOK, AloneOK

LEMMA DecideFacts ==
  ASSUME LimitsTypeOK, NEW c \in Calls, NEW count \in Nat, Decide(c, count)
  PROVE  /\ call' \in [Calls -> CallKind]
         /\ \A d \in Calls \ {c} : call'[d] = call[d]
         /\ call'[c].pc = "done" /\ call'[c].limiter = call[c].limiter
         /\ call'[c].store = call[c].store /\ call'[c].host = call[c].host
         /\ call'[c].at = call[c].at /\ call'[c].alone = call[c].alone
         /\ call'[c].ok = (count <= Limit(call[c].limiter)) /\ ~call'[c].ran
<1>1. call[c] \in CallKind /\ call \in [Calls -> CallKind] BY CallFacts DEF LimitsTypeOK
<1>2. {} \in SUBSET Calls /\ (count <= Limit(call[c].limiter)) \in BOOLEAN OBVIOUS
<1> DEFINE k == [call[c] EXCEPT !.pc = "done", !.read = {}, !.ran = FALSE,
                                !.ok = (count <= Limit(call[c].limiter))]
<1>3. /\ k \in CallKind /\ k.pc = "done" /\ k.limiter = call[c].limiter
      /\ k.store = call[c].store /\ k.host = call[c].host /\ k.at = call[c].at
      /\ k.alone = call[c].alone /\ k.ok = (count <= Limit(call[c].limiter)) /\ ~k.ran
  BY <1>1, <1>2 DEF CallKind
<1>4. call' = [call EXCEPT ![c] = k] BY DEF Decide
<1> HIDE DEF k
<1> QED BY <1>1, <1>3, <1>4

\* A decision of c: who is beside it is not alone, and has read what he has read.
LEMMA DecidesLimits ==
  ASSUME LimitInv, NEW c \in Calls, UnderWay(c), NEW count \in Nat, Decide(c, count), now' = now,
         \A d \in Calls : Settled(d) /\ ~SamePlace(c, d) /\ Has(d) => Has(d)'
  PROVE  Reads' /\ Running' /\ Apart' /\ ReadsKept' /\ Fresh' /\ Older'
<1> USE DEF LimitInv
<1>1. /\ \A d \in Calls \ {c} : call'[d] = call[d]
      /\ call'[c].pc = "done" /\ call'[c].store = call[c].store
      /\ call'[c].host = call[c].host /\ call'[c].at = call[c].at
      /\ call'[c].alone = call[c].alone /\ ~call'[c].ran
  BY DecideFacts
<1>2. call[c].pc # "done" BY DEF UnderWay
<1>3. \A d \in Calls : UnderWay(d)' => d # c /\ UnderWay(d) /\ call'[d] = call[d]
  BY <1>1 DEF UnderWay
<1>4. \A d, e \in Calls : SamePlace(d, e)' <=> SamePlace(d, e) BY <1>1 DEF SamePlace
<1>5. ASSUME NEW e \in Calls, NEW d \in Calls, UnderWay(e)', Settled(d)', SamePlace(e, d)'
      PROVE  \/ d # c /\ call'[d] = call[d] /\ Settled(d)
             \/ d = c /\ call[c].alone /\ SamePlace(c, e)
  BY <1>1, <1>5, <1>4 DEF Settled, SamePlace
<1>6. Reads'
  <2> SUFFICES ASSUME NEW d \in Calls, call'[d].pc = "read"
               PROVE  /\ call'[d].store # "redis"
                      /\ \A e \in call'[d].read : call'[e].pc = "done" /\ SamePlace(d, e)'
    BY DEF Reads
  <2>1. call'[d] = call[d] BY <1>1
  <2>2. call[d].store # "redis" /\ \A e \in call[d].read : call[e].pc = "done" /\ SamePlace(d, e)
    BY <2>1 DEF CountedOK, Reads
  <2>3. \A e \in call[d].read : e \in Calls \ {c} BY <1>2, <2>2, CallFacts
  <2> QED BY <1>1, <1>4, <2>1, <2>2, <2>3
<1>7. Apart' BY <1>3, <1>4 DEF AloneOK, Apart
<1>8. ReadsKept'
  <2> SUFFICES ASSUME NEW e \in Calls, NEW d \in Calls, call'[e].pc = "read", Settled(d)',
                      SamePlace(e, d)'
               PROVE  d \in call'[e].read \/ Gone(d, now)'
    BY DEF ReadsKept
  <2>1. UnderWay(e)' BY DEF UnderWay
  <2>2. e # c /\ UnderWay(e) /\ call'[e] = call[e] BY <1>3, <2>1
  <2>3. ~(d = c /\ call[c].alone /\ SamePlace(c, e)) BY <2>2 DEF AloneOK, Apart
  <2>4. call'[d] = call[d] /\ Settled(d) /\ SamePlace(e, d) BY <1>4, <1>5, <2>1, <2>3
  <2> QED BY <2>2, <2>4 DEF AloneOK, ReadsKept, Gone
<1>9. Fresh'
  <2> SUFFICES ASSUME NEW e \in Calls, NEW d \in Calls, UnderWay(e)', call'[e].alone, Settled(d)',
                      SamePlace(e, d)'
               PROVE  \/ IF call'[e].pc = "read" THEN d \in call'[e].read ELSE Has(d)'
                      \/ call'[d].at + Window <= call'[e].at
    BY DEF Fresh, Gone
  <2>1. e # c /\ UnderWay(e) /\ call'[e] = call[e] /\ call[e].alone BY <1>3
  <2>2. ~SamePlace(e, c) BY <2>1 DEF AloneOK, Apart
  <2>3. ~(d = c /\ call[c].alone /\ SamePlace(c, e)) BY <2>2 DEF SamePlace
  <2>4. d # c /\ call'[d] = call[d] /\ Settled(d) /\ SamePlace(e, d) BY <1>4, <1>5, <2>3
  <2>5. \/ IF call[e].pc = "read" THEN d \in call[e].read ELSE Has(d)
        \/ call[d].at + Window <= call[e].at
    BY <2>1, <2>4 DEF AloneOK, Fresh, Gone
  <2>6. ~SamePlace(c, d) BY <2>2, <2>4 DEF SamePlace
  <2>7. Has(d) => Has(d)' BY <2>4, <2>6
  <2> QED BY <2>1, <2>4, <2>5, <2>7
<1>10. Running' BY <1>1 DEF CountedOK, Running
<1>11. Older'
  <2>1. \A d \in Calls : call'[d].pc = "failed" => call'[d] = call[d] BY <1>1
  <2> QED BY <1>3, <1>4, <2>1 DEF AloneOK, Older
<1> QED BY <1>6, <1>7, <1>8, <1>9, <1>10, <1>11

\* the calls that a decision about c may count, and what RejectedOnlyOverLimit says of a step
Counted(c) == Recent(call[c].store, call[c].host, call[c].at)
Rejections == \A c \in Calls : Rejected(c)' /\ ~Rejected(c) =>
                Cardinality(Counted(c)') > Limit(call[c].limiter)

\* A decision that has counted no more than that rejects nobody below the limit.
LEMMA DecisionRejects ==
  ASSUME LimitsTypeOK, NEW c \in Calls, NEW count \in Nat, Decide(c, count),
         count <= Cardinality(Counted(c)')
  PROVE  Rejections
<1> SUFFICES ASSUME NEW d \in Calls, Rejected(d)', ~Rejected(d)
             PROVE  Cardinality(Counted(d)') > Limit(call[d].limiter)
  BY DEF Rejections
<1>1. \A e \in Calls \ {c} : call'[e] = call[e] BY DecideFacts
<1>2. d = c BY <1>1 DEF Rejected
<1>3. ~(count <= Limit(call[c].limiter)) BY <1>2, DecideFacts DEF Rejected
<1>4. Limit(call[c].limiter) \in Nat BY LimitAssumption DEF Limit
<1>5. Cardinality(Counted(c)') \in Nat
  <2>1. Counted(c)' \in SUBSET Calls BY DEF Counted, Recent
  <2> QED BY <2>1, CallsAssumption, FS_Subset, FS_CardinalityType
<1> QED BY <1>2, <1>3, <1>4, <1>5

\* Redis runs the pipeline of c: its time is in the set, and what leaves the set
\* has left the window of c.
LEMMA WindowStep ==
  ASSUME LimitsTypeOK, NEW c \in Calls, call[c].pc # "new", call[c].store = "redis",
         zset' = [zset EXCEPT ![call[c].host] = InWindow(c)]
  PROVE  /\ \A a : a \in InWindow(c) <=>
                     (a \in zset[call[c].host] \/ a = call[c].at) /\ a + Window > call[c].at
         /\ call[c].at \in InWindow(c) /\ InWindow(c) \in SUBSET Times
         /\ IsFiniteSet(InWindow(c)) /\ Cardinality(InWindow(c)) \in Nat
         /\ zset'[call[c].host] = InWindow(c)
         /\ \A g \in Hosts \ {call[c].host} : zset'[g] = zset[g]
         /\ zset' \in [Hosts -> SUBSET Times] /\ \A g \in Hosts : \A a \in zset'[g] : a <= now
         /\ \A d \in Calls : Has(d) /\ call[d].store = "redis" =>
              \/ call[d].at \in zset'[call[d].host]
              \/ SamePlace(c, d) /\ Gone(d, call[c].at)
<1> DEFINE h == call[c].host
           left == InWindow(c)
<1>1. h \in Hosts /\ call[c].at \in Times /\ call[c].at \in Nat /\ call[c].at <= now
  BY CallFacts
<1>2. zset[h] \subseteq Times /\ \A a \in zset[h] : a <= now BY <1>1 DEF LimitsTypeOK
<1>3. Times \subseteq Nat /\ Window \in Nat \ {0} BY TimeAssumption DEF Times
<1>4. \A a : a \in left <=> (a \in zset[h] \/ a = call[c].at) /\ a + Window > call[c].at
  BY DEF InWindow
<1> HIDE DEF left
<1>5. call[c].at \in left BY <1>1, <1>3, <1>4
<1>6. left \in SUBSET Times /\ \A a \in left : a <= now BY <1>1, <1>2, <1>4
<1>7. IsFiniteSet(left) /\ Cardinality(left) \in Nat
  <2>1. IsFiniteSet(Times) BY TimeAssumption, FS_Interval DEF Times
  <2> QED BY <1>6, <2>1, FS_Subset, FS_CardinalityType
<1>8. zset' = [zset EXCEPT ![h] = left] BY DEF left
<1>9. /\ zset'[h] = left /\ \A g \in Hosts \ {h} : zset'[g] = zset[g]
      /\ zset' \in [Hosts -> SUBSET Times]
  BY <1>1, <1>6, <1>8 DEF LimitsTypeOK
<1>10. \A g \in Hosts : \A a \in zset'[g] : a <= now BY <1>6, <1>9 DEF LimitsTypeOK
<1>11. ASSUME NEW d \in Calls, Has(d), call[d].store = "redis"
       PROVE  call[d].at \in zset'[call[d].host] \/ (SamePlace(c, d) /\ Gone(d, call[c].at))
  <2>1. call[d].at \in zset[call[d].host] BY <1>11 DEF Has
  <2>2. CASE call[d].host # h
    <3>1. zset'[call[d].host] = zset[call[d].host] BY <1>8, <2>2 DEF LimitsTypeOK
    <3> QED BY <2>1, <3>1
  <2>3. CASE call[d].host = h
    <3>1. call[d].at \in left \/ ~(call[d].at + Window > call[c].at) BY <1>4, <2>1, <2>3
    <3>2. call[d].at \in Nat BY CallFacts
    <3>3. call[d].at \in left \/ Gone(d, call[c].at) BY <1>1, <1>3, <3>1, <3>2 DEF Gone
    <3> QED BY <1>9, <1>11, <2>3, <3>3 DEF SamePlace
  <2> QED BY <2>2, <2>3
<1> QED BY <1>4, <1>5, <1>6, <1>7, <1>9, <1>10, <1>11 DEF left

\* Redis: the times that are left are those of calls in the window, and two calls
\* with different times have one each.
LEMMA CheckRedisLimits ==
  ASSUME LimitInv, AdmittedWithinLimit, NEW c \in Calls, CheckRedis(c)
  PROVE  LimitInv' /\ AdmittedWithinLimit' /\ Rejections
<1> USE DEF LimitInv
<1> DEFINE h     == call[c].host
           left  == InWindow(c)
           count == Cardinality(left)
<1>1. /\ call[c].pc = "timed" /\ call[c].store = "redis" /\ zset' = [zset EXCEPT ![h] = left]
      /\ Decide(c, count) /\ UNCHANGED <<now, local>>
  BY DEF CheckRedis
<1>2. /\ h \in Hosts /\ call[c].at \in Nat /\ call[c].at <= now
      /\ Times \subseteq Nat /\ Window \in Nat \ {0}
  BY <1>1, CallFacts, TimeAssumption DEF Times
<1>5. /\ \A a : a \in left <=> (a \in zset[h] \/ a = call[c].at) /\ a + Window > call[c].at
      /\ call[c].at \in left /\ left \in SUBSET Times /\ IsFiniteSet(left) /\ count \in Nat
      /\ zset'[h] = left /\ \A g \in Hosts \ {h} : zset'[g] = zset[g]
      /\ zset' \in [Hosts -> SUBSET Times] /\ \A g \in Hosts : \A a \in zset'[g] : a <= now
      /\ \A d \in Calls : Has(d) /\ call[d].store = "redis" =>
           \/ call[d].at \in zset'[call[d].host]
           \/ SamePlace(c, d) /\ Gone(d, call[c].at)
  BY <1>1, WindowStep
<1> HIDE DEF left
<1>9. /\ call' \in [Calls -> CallKind] /\ \A d \in Calls \ {c} : call'[d] = call[d]
      /\ call'[c].pc = "done" /\ call'[c].store = "redis" /\ call'[c].host = h
      /\ call'[c].at = call[c].at /\ call'[c].alone = call[c].alone
  BY <1>1, <1>5, DecideFacts
<1>12. LimitsTypeOK'
  <2>1. \A d \in Calls : /\ call'[d].at <= now
                         /\ call'[d].pc # "new" => call'[d].host \in Hosts
    BY <1>2, <1>9 DEF LimitsTypeOK
  <2> QED BY <1>1, <1>5, <1>9, <2>1 DEF LimitsTypeOK
<1>13. \A d \in Calls : call[d].pc = "done" => d # c /\ call'[d] = call[d] BY <1>1, <1>9
<1>14. Entries' BY <1>1, <1>13 DEF CountedOK, Entries, LimitsTypeOK
<1>15. Members'
  <2> SUFFICES ASSUME NEW g \in Hosts, NEW a \in zset'[g]
               PROVE  \E d \in Calls : /\ Counts(d)' /\ call'[d].store = "redis"
                                       /\ call'[d].host = g /\ call'[d].at = a
    BY DEF Members
  <2>1. CASE g = h /\ a = call[c].at BY <1>9, <2>1 DEF Counts
  <2>2. CASE ~(g = h /\ a = call[c].at)
    <3>1. a \in zset[g] BY <1>5, <2>2
    <3>2. PICK d \in Calls : /\ Counts(d) /\ call[d].store = "redis"
                             /\ call[d].host = g /\ call[d].at = a
      BY <3>1 DEF CountedOK, Members
    <3>3. d # c BY <2>2, <3>2
    <3> QED BY <1>9, <3>2, <3>3 DEF Counts
  <2> QED BY <2>1, <2>2
<1>16. ASSUME NEW d \in Calls, d # c, Has(d) PROVE Has(d)' \/ (SamePlace(c, d) /\ Gone(d, call[c].at))
  <2>1. call'[d] = call[d] BY <1>9, <1>16
  <2>2. CASE call[d].store # "redis" BY <1>1, <1>16, <2>1, <2>2 DEF Has
  <2>3. CASE call[d].store = "redis" BY <1>5, <1>16, <2>1, <2>3 DEF Has
  <2> QED BY <2>2, <2>3
<1>17. Reads' /\ Running' /\ Apart' /\ ReadsKept' /\ Fresh' /\ Older'
  <2>1. UnderWay(c) BY <1>1 DEF UnderWay
  <2>2. \A d \in Calls : Settled(d) /\ ~SamePlace(c, d) /\ Has(d) => Has(d)'
    BY <1>13, <1>16 DEF Settled
  <2> QED BY <1>1, <1>5, <2>1, <2>2, DecidesLimits
<1>18. Kept'
  <2> SUFFICES ASSUME NEW d \in Calls, Settled(d)' PROVE Has(d)' \/ call'[d].at + Window <= now
    BY <1>1 DEF Kept, Gone
  <2>1. CASE d = c BY <1>5, <1>9, <2>1 DEF Has
  <2>2. CASE d # c
    <3>1. call'[d] = call[d] /\ Settled(d) BY <1>9, <2>2 DEF Settled
    <3>2. CASE Has(d)
      <4>1. Has(d)' \/ call[d].at + Window <= call[c].at BY <1>16, <2>2, <3>2 DEF Gone
      <4>2. call[d].at \in Nat /\ now \in Nat BY CallFacts
      <4>3. call[d].at + Window <= call[c].at => call[d].at + Window <= now
        BY <1>2, <4>2
      <4> QED BY <3>1, <4>1, <4>3
    <3>3. CASE ~Has(d) BY <3>1, <3>3 DEF AloneOK, Kept, Gone
    <3> QED BY <3>2, <3>3
  <2> QED BY <2>1, <2>2
<1>19. AdmittedWithinLimit'
  <2>1. ASSUME NEW B \in SUBSET Calls, call[c].alone,
               \A d \in B : /\ Settled(d) /\ SamePlace(c, d) /\ ~Gone(d, call[c].at)
                            /\ d # c,
               call[c].store = "redis" => Distinct(B \cup {c})
        PROVE  Cardinality(B \cup {c}) <= count
    <3> DEFINE f == [d \in B \cup {c} |-> call[d].at]
    <3>1. \A d \in B : call[d].at \in left
      <4> TAKE d \in B
      <4>1. UnderWay(c) /\ d \in Calls BY <1>1 DEF UnderWay
      <4>2. call[c].pc # "read" BY <1>1
      <4>3. Has(d) BY <2>1, <4>1, <4>2 DEF AloneOK, Fresh
      <4>4. call[d].at \in zset[h] BY <1>1, <2>1, <4>3 DEF Has, SamePlace
      <4>5. call[d].at \in Nat BY <4>1, CallFacts
      <4>6. call[d].at + Window > call[c].at BY <1>2, <2>1, <4>5 DEF Gone
      <4> QED BY <1>5, <4>4, <4>6
    <3>2. f \in Injection(B \cup {c}, left)
      <4>1. \A d, e \in B \cup {c} : f[d] = f[e] => d = e BY <1>1, <2>1 DEF Distinct
      <4>2. f \in [B \cup {c} -> left] BY <1>5, <3>1
      <4> HIDE DEF f
      <4> QED BY <4>1, <4>2 DEF Injection, IsInjective
    <3> HIDE DEF f
    <3> QED BY <1>5, <3>2, FS_Injection
  <2>2. call[c].pc # "done" BY <1>1
  <2> HIDE DEF count
  <2> QED BY <1>1, <1>5, <2>1, <2>2, DecisionAdmits
<1>20. Rejections
  <2> DEFINE R == {d \in Counted(c)' : call'[d].at \in left}
             f == [d \in R |-> call'[d].at]
  <2>1. \A d : d \in Counted(c)' <=>
          /\ d \in Calls /\ Counts(d)' /\ call'[d].store = "redis"
          /\ call'[d].host = h /\ call'[d].at + Window > call[c].at
    BY <1>9 DEF Counted, Recent
  <2>2. IsFiniteSet(Counted(c)')
    <3>1. Counted(c)' \in SUBSET Calls BY <2>1
    <3> QED BY <3>1, CallsAssumption, FS_Subset
  <2>3. IsFiniteSet(R) /\ Cardinality(R) <= Cardinality(Counted(c)')
    <3>1. R \in SUBSET Counted(c)' OBVIOUS
    <3> QED BY <2>2, <3>1, FS_Subset
  <2>4. ASSUME NEW a \in left PROVE \E d \in R : call'[d].at = a
    <3>1. a \in zset'[h] /\ a + Window > call[c].at BY <1>5
    <3>2. PICK d \in Calls : /\ Counts(d)' /\ call'[d].store = "redis"
                             /\ call'[d].host = h /\ call'[d].at = a
      BY <1>2, <1>15, <3>1 DEF Members
    <3> QED BY <2>1, <3>1, <3>2
  <2>5. f \in Surjection(R, left)
    <3>1. f \in [R -> left] OBVIOUS
    <3>2. \A a \in left : \E d \in R : f[d] = a BY <2>4
    <3> HIDE DEF f, R
    <3> QED BY <3>1, <3>2 DEF Surjection
  <2> HIDE DEF f, R
  <2>6. count <= Cardinality(R) BY <2>3, <2>5, FS_Surjection
  <2>7. Cardinality(R) \in Nat /\ Cardinality(Counted(c)') \in Nat
    BY <2>2, <2>3, FS_CardinalityType
  <2>8. count <= Cardinality(Counted(c)') BY <1>5, <2>3, <2>6, <2>7
  <2> HIDE DEF count
  <2> QED BY <1>1, <1>5, <2>8, DecisionRejects
<1> QED BY <1>12, <1>14, <1>15, <1>17, <1>18, <1>19, <1>20 DEF CountedOK, AloneOK

\* The same without a decision.  Who runs late has an older window than whoever is
\* alone, so he takes nothing out of the set that such a call would count.
LEMMA RunsLimits ==
  ASSUME LimitInv, AdmittedWithinLimit, NEW c \in Calls, RedisRuns(c)
  PROVE  LimitInv' /\ AdmittedWithinLimit'
<1> USE DEF LimitInv
<1> DEFINE h == call[c].host
           left == InWindow(c)
<1>1. /\ call[c].pc \in {"timed", "failed"} /\ call[c].store = "redis"
      /\ zset' = [zset EXCEPT ![h] = left]
      /\ call' = [call EXCEPT ![c] = [call[c] EXCEPT !.ran = TRUE]] /\ UNCHANGED <<now, local>>
  BY DEF RedisRuns
<1>2. /\ call[c] \in CallKind /\ call[c].at \in Nat /\ call[c].at <= now /\ now \in Nat
      /\ Window \in Nat \ {0}
  BY CallFacts
<1>3. /\ \A a : a \in left <=> (a \in zset[h] \/ a = call[c].at) /\ a + Window > call[c].at
      /\ zset'[h] = left /\ \A g \in Hosts \ {h} : zset'[g] = zset[g]
      /\ zset' \in [Hosts -> SUBSET Times] /\ \A g \in Hosts : \A a \in zset'[g] : a <= now
      /\ \A d \in Calls : Has(d) /\ call[d].store = "redis" =>
           \/ call[d].at \in zset'[call[d].host]
           \/ SamePlace(c, d) /\ Gone(d, call[c].at)
  BY <1>1, WindowStep
<1> HIDE DEF left
<1>4. /\ call'[c] \in CallKind /\ call'[c].ran /\ call'[c].pc = call[c].pc
      /\ call'[c].store = call[c].store /\ call'[c].host = call[c].host
      /\ call'[c].at = call[c].at /\ call'[c].alone = call[c].alone
      /\ call'[c].read = call[c].read
  BY <1>1, <1>2 DEF CallKind, LimitsTypeOK
<1>5. call' \in [Calls -> CallKind] /\ \A d \in Calls \ {c} : call'[d] = call[d]
  BY <1>1, <1>4 DEF LimitsTypeOK
<1>6. \A d \in Calls : /\ call'[d].pc = call[d].pc /\ call'[d].store = call[d].store
                       /\ call'[d].host = call[d].host /\ call'[d].at = call[d].at
                       /\ call'[d].alone = call[d].alone /\ call'[d].read = call[d].read
  BY <1>4, <1>5
<1>7. \A d \in Calls : call[d].pc = "done" => d # c /\ call'[d] = call[d] BY <1>1, <1>5
<1>8. \A d \in Calls : Settled(d)' <=> Settled(d) BY <1>6 DEF Settled
<1>9. \A d, e \in Calls : SamePlace(d, e)' <=> SamePlace(d, e) BY <1>6 DEF SamePlace
<1>10. \A d \in Calls : UnderWay(d)' <=> UnderWay(d) BY <1>6 DEF UnderWay
<1>11. LimitsTypeOK'
  <2>1. \A d \in Calls : /\ call'[d].at <= now
                         /\ call'[d].pc # "new" => call'[d].host \in Hosts
    BY <1>6 DEF LimitsTypeOK
  <2> QED BY <1>1, <1>3, <1>5, <2>1 DEF LimitsTypeOK
<1>12. Entries' BY <1>1, <1>7 DEF CountedOK, Entries, LimitsTypeOK
<1>13. Members'
  <2> SUFFICES ASSUME NEW g \in Hosts, NEW a \in zset'[g]
               PROVE  \E d \in Calls : /\ Counts(d)' /\ call'[d].store = "redis"
                                       /\ call'[d].host = g /\ call'[d].at = a
    BY DEF Members
  <2>1. CASE g = h /\ a = call[c].at BY <1>1, <1>4, <2>1 DEF Counts
  <2>2. CASE ~(g = h /\ a = call[c].at)
    <3>1. a \in zset[g] BY <1>3, <2>2
    <3>2. PICK d \in Calls : /\ Counts(d) /\ call[d].store = "redis"
                             /\ call[d].host = g /\ call[d].at = a
      BY <3>1 DEF CountedOK, Members
    <3>3. d # c BY <2>2, <3>2
    <3> QED BY <1>5, <3>2, <3>3 DEF Counts
  <2> QED BY <2>1, <2>2
<1>14. Running' BY <1>1, <1>4, <1>5 DEF CountedOK, Running
<1>15. Reads'
  <2> SUFFICES ASSUME NEW d \in Calls, call'[d].pc = "read"
               PROVE  /\ call'[d].store # "redis"
                      /\ \A e \in call'[d].read : call'[e].pc = "done" /\ SamePlace(d, e)'
    BY DEF Reads
  <2>1. call[d].store # "redis" /\ \A e \in call[d].read : call[e].pc = "done" /\ SamePlace(d, e)
    BY <1>6 DEF CountedOK, Reads
  <2>2. \A e \in call[d].read : e \in Calls BY CallFacts
  <2> QED BY <1>6, <1>9, <2>1, <2>2
<1>16. Apart' BY <1>6, <1>9, <1>10 DEF AloneOK, Apart
<1>17. Older' BY <1>6, <1>9, <1>10 DEF AloneOK, Older
<1>18. ReadsKept' BY <1>1, <1>6, <1>8, <1>9 DEF AloneOK, ReadsKept, Gone
<1>19. ASSUME NEW d \in Calls, Settled(d), Has(d)
       PROVE  Has(d)' \/ (SamePlace(c, d) /\ Gone(d, call[c].at))
  <2>1. call'[d] = call[d] BY <1>7, <1>19 DEF Settled
  <2>2. CASE call[d].store # "redis" BY <1>1, <1>19, <2>1, <2>2 DEF Has
  <2>3. CASE call[d].store = "redis" BY <1>3, <1>19, <2>1, <2>3 DEF Has
  <2> QED BY <2>2, <2>3
<1>20. Kept'
  <2> SUFFICES ASSUME NEW d \in Calls, Settled(d)' PROVE Has(d)' \/ call'[d].at + Window <= now
    BY <1>1 DEF Kept, Gone
  <2>1. Settled(d) /\ call'[d].at = call[d].at /\ call[d].at \in Nat BY <1>6, <1>8, CallFacts
  <2>2. CASE Has(d)
    <3>1. Has(d)' \/ call[d].at + Window <= call[c].at BY <1>19, <2>1, <2>2 DEF Gone
    <3> QED BY <1>2, <2>1, <3>1
  <2>3. CASE ~Has(d) BY <2>1, <2>3 DEF AloneOK, Kept, Gone
  <2> QED BY <2>2, <2>3
<1>21. Fresh'
  <2> SUFFICES ASSUME NEW e \in Calls, NEW d \in Calls, UnderWay(e)', call'[e].alone, Settled(d)',
                      SamePlace(e, d)'
               PROVE  \/ IF call'[e].pc = "read" THEN d \in call'[e].read ELSE Has(d)'
                      \/ call'[d].at + Window <= call'[e].at
    BY DEF Fresh, Gone
  <2>1. /\ UnderWay(e) /\ call[e].alone /\ Settled(d) /\ SamePlace(e, d)
        /\ call'[d].at = call[d].at /\ call'[e].at = call[e].at
        /\ call[d].at \in Nat /\ call[e].at \in Nat
    BY <1>6, <1>8, <1>9, <1>10, CallFacts
  <2>2. \/ IF call[e].pc = "read" THEN d \in call[e].read ELSE Has(d)
        \/ call[d].at + Window <= call[e].at
    BY <2>1 DEF AloneOK, Fresh, Gone
  <2>3. CASE call[e].pc = "read" BY <1>6, <2>1, <2>2, <2>3
  <2>4. CASE call[e].pc # "read" /\ Has(d)
    <3>1. CASE Has(d)' BY <1>6, <2>4, <3>1
    <3>2. CASE SamePlace(c, d) /\ Gone(d, call[c].at)
      <4>1. SamePlace(c, e) /\ SamePlace(e, c) BY <2>1, <3>2 DEF SamePlace
      <4>2. call[c].at <= call[e].at
        <5>1. CASE call[c].pc = "timed"
          <6>1. UnderWay(c) BY <5>1 DEF UnderWay
          <6>2. e = c BY <2>1, <4>1, <6>1 DEF AloneOK, Apart
          <6> QED BY <1>2, <6>2
        <5>2. CASE call[c].pc = "failed" BY <2>1, <4>1, <5>2 DEF AloneOK, Older
        <5> QED BY <1>1, <5>1, <5>2
      <4> QED BY <1>2, <2>1, <3>2, <4>2 DEF Gone
    <3> QED BY <1>19, <2>1, <2>4, <3>1, <3>2
  <2>5. CASE ~Has(d) /\ call[e].pc # "read" BY <2>1, <2>2, <2>5
  <2> QED BY <2>3, <2>4, <2>5
<1>22. AdmittedWithinLimit' BY <1>6, <1>7, UndecidedAdmits
<1> QED BY <1>11, <1>12, <1>13, <1>14, <1>15, <1>16, <1>17, <1>18, <1>20, <1>21, <1>22
        DEF CountedOK, AloneOK

\* The dictionary: the list that is written back has whoever was in the one that
\* was read, and has not left the window.
LEMMA StoreLocalLimits ==
  ASSUME LimitInv, AdmittedWithinLimit, NEW c \in Calls, StoreLocal(c)
  PROVE  LimitInv' /\ AdmittedWithinLimit' /\ Rejections
<1> USE DEF LimitInv
<1> DEFINE s     == call[c].store
           h     == call[c].host
           times == {d \in call[c].read : call[d].at + Window > call[c].at} \cup {c}
           count == Cardinality(times)
<1>1. /\ call[c].pc = "read" /\ local' = [local EXCEPT ![s][h] = times]
      /\ Decide(c, count) /\ UNCHANGED <<now, zset>>
  BY DEF StoreLocal
<1>2. /\ s # "redis" /\ \A d \in call[c].read : d \in Calls /\ call[d].pc = "done" /\ SamePlace(c, d)
  BY <1>1, CallFacts DEF CountedOK, Reads
<1>3. /\ s \in Limiters /\ h \in Hosts /\ call[c].at \in Nat /\ call[c].at <= now /\ now \in Nat
      /\ Window \in Nat \ {0}
  BY <1>1, <1>2, CallFacts
<1>4. \A d : d \in times <=> (d \in call[c].read /\ call[d].at + Window > call[c].at) \/ d = c
  OBVIOUS
<1>5. times \in SUBSET Calls BY <1>2, <1>4
<1>6. IsFiniteSet(times) /\ count \in Nat BY <1>5, CallsAssumption, FS_Subset, FS_CardinalityType
<1> HIDE DEF times
<1>7. /\ call' \in [Calls -> CallKind] /\ \A d \in Calls \ {c} : call'[d] = call[d]
      /\ call'[c].pc = "done" /\ call'[c].store = s /\ call'[c].host = h
      /\ call'[c].at = call[c].at /\ call'[c].alone = call[c].alone
  BY <1>1, <1>6, DecideFacts
<1>8. /\ local' \in [Limiters -> [Hosts -> SUBSET Calls]] /\ local'[s][h] = times
      /\ \A l \in Limiters, g \in Hosts : ~(l = s /\ g = h) => local'[l][g] = local[l][g]
  BY <1>1, <1>3, <1>5 DEF LimitsTypeOK
<1>9. LimitsTypeOK'
  <2>1. \A d \in Calls : /\ call'[d].at <= now
                         /\ call'[d].pc # "new" => call'[d].host \in Hosts
    BY <1>3, <1>7 DEF LimitsTypeOK
  <2> QED BY <1>1, <1>7, <1>8, <2>1 DEF LimitsTypeOK
<1>10. \A d \in Calls : call[d].pc = "done" => d # c /\ call'[d] = call[d] BY <1>1, <1>7
<1>11. Entries'
  <2> SUFFICES ASSUME NEW l \in Limiters, NEW g \in Hosts, NEW d \in local'[l][g]
               PROVE  call'[d].pc = "done" /\ call'[d].store = l /\ call'[d].host = g
    BY DEF Entries
  <2>1. CASE l = s /\ g = h
    <3>1. d = c \/ d \in call[c].read BY <1>4, <1>8, <2>1
    <3> QED BY <1>2, <1>7, <1>10, <2>1, <3>1 DEF SamePlace
  <2>2. CASE ~(l = s /\ g = h)
    <3>1. d \in local[l][g] BY <1>8, <2>2
    <3>2. d \in Calls BY <3>1 DEF LimitsTypeOK
    <3> QED BY <1>10, <3>1, <3>2 DEF CountedOK, Entries
  <2> QED BY <2>1, <2>2
<1>12. Members'
  <2>1. \A d \in Calls : Counts(d) /\ call[d].store = "redis" => Counts(d)' /\ call'[d] = call[d]
    BY <1>2, <1>7 DEF Counts
  <2> QED BY <1>1, <2>1 DEF CountedOK, Members
<1>13. ASSUME NEW d \in Calls, d # c, ~SamePlace(c, d), Has(d), Settled(d) PROVE Has(d)'
  <2>1. call'[d] = call[d] /\ call[d].host \in Hosts
    BY <1>7, <1>13, CallFacts DEF Settled
  <2>2. CASE call[d].store = "redis" BY <1>1, <1>13, <2>1, <2>2 DEF Has
  <2>3. CASE call[d].store # "redis"
    <3>1. call[d].store \in Limiters BY <2>3, CallFacts
    <3>2. local'[call[d].store][call[d].host] = local[call[d].store][call[d].host]
      BY <1>8, <1>13, <2>1, <3>1 DEF SamePlace
    <3> QED BY <1>13, <2>1, <2>3, <3>2 DEF Has
  <2> QED BY <2>2, <2>3
<1>14. Reads' /\ Running' /\ Apart' /\ ReadsKept' /\ Fresh' /\ Older'
  <2>1. UnderWay(c) BY <1>1 DEF UnderWay
  <2>2. \A d \in Calls : Settled(d) /\ ~SamePlace(c, d) /\ Has(d) => Has(d)'
    BY <1>10, <1>13 DEF Settled
  <2> QED BY <1>1, <1>6, <2>1, <2>2, DecidesLimits
<1>15. Kept'
  <2> SUFFICES ASSUME NEW d \in Calls, Settled(d)' PROVE Has(d)' \/ call'[d].at + Window <= now
    BY <1>1 DEF Kept, Gone
  <2>1. CASE d = c BY <1>2, <1>4, <1>7, <1>8, <2>1 DEF Has
  <2>2. CASE d # c
    <3>1. call'[d] = call[d] /\ Settled(d) BY <1>7, <2>2 DEF Settled
    <3>2. call[d].at \in Nat BY CallFacts
    <3>3. CASE SamePlace(c, d)
      <4>1. d \in call[c].read \/ call[d].at + Window <= now
        BY <1>1, <3>1, <3>3 DEF AloneOK, ReadsKept, Gone
      <4>2. d \in call[c].read => d \in times \/ call[d].at + Window <= now
        BY <1>3, <1>4, <3>2
      <4>3. d \in times => Has(d)' BY <1>2, <1>8, <3>1, <3>3 DEF Has, SamePlace
      <4> QED BY <3>1, <4>1, <4>2, <4>3
    <3>4. CASE ~SamePlace(c, d)
      <4>1. Has(d) \/ call[d].at + Window <= now BY <3>1 DEF AloneOK, Kept, Gone
      <4> QED BY <1>13, <2>2, <3>1, <3>4, <4>1
    <3> QED BY <3>3, <3>4
  <2> QED BY <2>1, <2>2
<1>16. AdmittedWithinLimit'
  <2>1. ASSUME NEW B \in SUBSET Calls, call[c].alone,
               \A d \in B : /\ Settled(d) /\ SamePlace(c, d) /\ ~Gone(d, call[c].at)
                            /\ d # c,
               call[c].store = "redis" => Distinct(B \cup {c})
        PROVE  Cardinality(B \cup {c}) <= count
    <3>1. ASSUME NEW d \in B PROVE d \in times
      <4>1. UnderWay(c) /\ d \in Calls BY <1>1 DEF UnderWay
      <4>2. d \in call[c].read BY <1>1, <2>1, <4>1 DEF AloneOK, Fresh
      <4>3. call[d].at \in Nat BY <4>1, CallFacts
      <4>4. call[d].at + Window > call[c].at BY <1>3, <2>1, <4>3 DEF Gone
      <4> QED BY <1>4, <4>2, <4>4
    <3>2. B \cup {c} \in SUBSET times BY <1>4, <3>1
    <3> QED BY <1>6, <3>2, FS_Subset
  <2>2. call[c].pc # "done" BY <1>1
  <2> HIDE DEF count
  <2> QED BY <1>1, <1>6, <2>1, <2>2, DecisionAdmits
<1>17. Rejections
  <2>1. Counted(c)' \in SUBSET Calls BY DEF Counted, Recent, Counts
  <2>2. ASSUME NEW d \in times PROVE d \in Counted(c)'
    <3>1. CASE d = c BY <1>3, <1>7, <3>1 DEF Counted, Recent, Counts
    <3>2. CASE d # c
      <4>1. d \in call[c].read /\ call[d].at + Window > call[c].at BY <1>4, <3>2
      <4>2. d \in Calls /\ call[d].pc = "done" /\ SamePlace(c, d) BY <1>2, <4>1
      <4> QED BY <1>7, <1>10, <4>1, <4>2 DEF Counted, Recent, Counts, SamePlace
    <3> QED BY <3>1, <3>2
  <2>3. times \in SUBSET Counted(c)' BY <2>2
  <2>4. count <= Cardinality(Counted(c)') BY <2>1, <2>3, CallsAssumption, FS_Subset
  <2> HIDE DEF count
  <2> QED BY <1>1, <1>6, <2>4, DecisionRejects
<1> QED BY <1>9, <1>11, <1>12, <1>14, <1>15, <1>16, <1>17 DEF CountedOK, AloneOK

\* A step of the wiring, or one that changes nothing, leaves the limiters alone.
LEMMA AsideLimits ==
  ASSUME LimitInv, AdmittedWithinLimit, UNCHANGED limiting
  PROVE  LimitInv' /\ AdmittedWithinLimit'
<1>1. UNCHANGED <<now, local, zset, call>> BY DEF limiting
<1>2. LimitsTypeOK' BY <1>1 DEF LimitInv, LimitsTypeOK
<1>3. CountedOK' BY <1>1 DEF LimitInv, CountedOK, Entries, Members, Reads, Running, Counts, SamePlace
<1>4. AloneOK'
  BY <1>1 DEF LimitInv, AloneOK, Apart, Kept, ReadsKept, Fresh, Older, UnderWay, Settled,
             SamePlace, Has, Gone
<1>5. AdmittedWithinLimit' BY <1>1, UndecidedAdmits
<1> QED BY <1>2, <1>3, <1>4, <1>5 DEF LimitInv

\* A step that does not finish a call rejects none.
LEMMA UndecidedRejects ==
  ASSUME \A c \in Calls : call'[c].pc = "done" => call[c].pc = "done" /\ call'[c] = call[c]
  PROVE  Rejections
BY DEF Rejections, Rejected

LEMMA NextLimits ==
  ASSUME LimitInv, AdmittedWithinLimit, [LimitsNext]_limitVars
  PROVE  LimitInv' /\ AdmittedWithinLimit' /\ Rejections
<1>1. CASE UNCHANGED limiting
  <2>1. call' = call BY <1>1 DEF limiting
  <2> QED BY <1>1, <2>1, AsideLimits, UndecidedRejects
<1>2. CASE Tick
  <2>1. call' = call BY <1>2 DEF Tick
  <2> QED BY <1>2, <2>1, TickLimits, UndecidedRejects
<1>3. ASSUME NEW c \in Calls, NEW l \in Limiters, NEW h \in Hosts, Enter(c, l, h)
      PROVE  LimitInv' /\ AdmittedWithinLimit' /\ Rejections
  <2>1. \A d \in Calls : call'[d].pc = "done" => call[d].pc = "done" /\ call'[d] = call[d]
    BY <1>3 DEF LimitInv, LimitsTypeOK, Enter, NewCall
  <2> QED BY <1>3, <2>1, EnterLimits, UndecidedRejects
<1>4. ASSUME NEW c \in Calls, TakeTime(c) PROVE LimitInv' /\ AdmittedWithinLimit' /\ Rejections
  <2>1. \A d \in Calls : call'[d].pc = "done" => call[d].pc = "done" /\ call'[d] = call[d]
    BY <1>4 DEF LimitInv, LimitsTypeOK, TakeTime, CallKind, Meeting, UnderWay
  <2> QED BY <1>4, <2>1, TakeTimeLimits, UndecidedRejects
<1>5. ASSUME NEW c \in Calls, RedisFails(c) PROVE LimitInv' /\ AdmittedWithinLimit' /\ Rejections
  <2>1. \A d \in Calls : call'[d].pc = "done" => call[d].pc = "done" /\ call'[d] = call[d]
    BY <1>5 DEF LimitInv, LimitsTypeOK, RedisFails, CallKind
  <2> QED BY <1>5, <2>1, FailsLimits, UndecidedRejects
<1>6. ASSUME NEW c \in Calls, ReadLocal(c) PROVE LimitInv' /\ AdmittedWithinLimit' /\ Rejections
  <2>1. \A d \in Calls : call'[d].pc = "done" => call[d].pc = "done" /\ call'[d] = call[d]
    BY <1>6 DEF LimitInv, LimitsTypeOK, ReadLocal, CallKind
  <2> QED BY <1>6, <2>1, ReadLimits, UndecidedRejects
<1>8. ASSUME NEW c \in Calls, RedisRuns(c) PROVE LimitInv' /\ AdmittedWithinLimit' /\ Rejections
  <2>1. \A d \in Calls : call'[d].pc = "done" => call[d].pc = "done" /\ call'[d] = call[d]
    BY <1>8 DEF LimitInv, LimitsTypeOK, RedisRuns, CallKind
  <2> QED BY <1>8, <2>1, RunsLimits, UndecidedRejects
<1>7. CASE LimitStep
  BY <1>2, <1>3, <1>4, <1>5, <1>6, <1>7, <1>8, CheckRedisLimits, StoreLocalLimits DEF LimitStep
<1> QED BY <1>1, <1>7 DEF LimitsNext, limitVars

LEMMA LimitsInductive == LimitsSpec => [](LimitInv /\ AdmittedWithinLimit)
<1>1. LimitInv /\ AdmittedWithinLimit /\ [LimitsNext]_limitVars => (LimitInv /\ AdmittedWithinLimit)'
  BY NextLimits
<1> QED BY <1>1, InitLimits, PTL DEF LimitsSpec

\* The types of the rate limiters: no call, and no time in Redis, is from the future.
THEOREM LimitsTypeCorrect == LimitsSpec => []LimitsTypeOK
<1>1. LimitInv => LimitsTypeOK BY DEF LimitInv
<1> QED BY <1>1, LimitsInductive, PTL

\* No host is admitted more often in a window than the limit of a limiter allows, by
\* calls that no other one overlapped and, in Redis, that had times of their own: in
\* _check_local and in _check_redis, and whenever the cache is registered.
THEOREM AdmitsWithin == LimitsSpec => []AdmittedWithinLimit
BY LimitsInductive, PTL

\* A 429 is answered only when more calls than the limit counted in the same place for
\* the same host, however the checks of the dictionary overwrite each other; a request
\* that failed counts as soon as Redis has run its pipeline.
THEOREM RejectsOver == LimitsSpec => RejectedOnlyOverLimit
<1>1. LimitInv /\ AdmittedWithinLimit /\ [LimitsNext]_limitVars =>
        [\A c \in Calls : Rejected(c)' /\ ~Rejected(c) =>
           Cardinality(Recent(call[c].store, call[c].host, call[c].at)') > Limit(call[c].limiter)
        ]_limitVars
  BY NextLimits DEF Rejections, Counted
<1> QED BY <1>1, LimitsInductive, PTL DEF LimitsSpec, RejectedOnlyOverLimit
=============================================================================
