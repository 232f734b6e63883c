------------------------------ MODULE VaultProofs ------------------------------
(***************************************************************************)
(* Proofs about Vault, for any number of processes, keys and secrets, and  *)
(* with crashes and disk failures at any step: the types, and, if there is *)
(* one application, that a whole vault.json has all that was saved.        *)
(*                                                                         *)
(* SavedWholeOrTorn is not inductive: it rests on what is in memory, on    *)
(* what is about to be written, and on when a bootstrap can begin.  A      *)
(* service that is fresh has in memory what was saved (Snapshots), and so  *)
(* does what it is writing (Pending); what a bootstrap is about to replace *)
(* nobody has saved, and nobody can unlock (BootsAlone).                   *)
(***************************************************************************)
EXTENDS Vault, TLAPS

Writing == {"env_open", "env_write", "vault_open", "vault_write", "boot_done"}

\* who is unlocked has a key, and what is being written is encrypted with one
Keyed  == \A s \in Services : Unlocked(s) => master[s] # NoKey
Sealed == \A a \in Actors : pc[a] \in Writing => blob[a].kind = "blob"

TypeInv == TypeOK /\ Keyed /\ Sealed

-----------------------------------------------------------------------------
(* Facts about the operators *)

\* What the fields of vault.json can be, and that a blob has what was put in it.
LEMMA VaultKinds ==
  /\ \A v \in Vaults : /\ v.kind \in {"none", "torn", "blob"}
                       /\ v.key \in Keys \cup {NoKey} /\ v.data \in SUBSET Secrets
                       /\ v.kind = "blob" => v.key \in Keys
  /\ \A k \in Keys, d \in SUBSET Secrets :
       /\ Blob(k, d) \in Vaults
       /\ Blob(k, d).kind = "blob" /\ Blob(k, d).key = k /\ Blob(k, d).data = d
  /\ NoVault \in Vaults /\ NoVault.kind = "none"
  /\ Torn \in Vaults /\ Torn.kind = "torn"
<1>1. \A k, d : Blob(k, d).kind = "blob" /\ Blob(k, d).key = k /\ Blob(k, d).data = d
  BY DEF Blob
<1>2. \A k \in Keys, d \in SUBSET Secrets : Blob(k, d) \in Vaults BY DEF Vaults
<1>3. /\ NoVault \in Vaults /\ NoVault.kind = "none" /\ NoVault.key = NoKey /\ NoVault.data = {}
      /\ Torn \in Vaults /\ Torn.kind = "torn" /\ Torn.key = NoKey /\ Torn.data = {}
  BY DEF Vaults, NoVault, Torn
<1>4. ASSUME NEW v \in Vaults
      PROVE  /\ v.kind \in {"none", "torn", "blob"}
             /\ v.key \in Keys \cup {NoKey} /\ v.data \in SUBSET Secrets
             /\ v.kind = "blob" => v.key \in Keys
  <2>1. v = NoVault \/ v = Torn \/ \E k \in Keys, d \in SUBSET Secrets : v = Blob(k, d)
    BY DEF Vaults
  <2>2. CASE v = NoVault \/ v = Torn BY <1>3, <2>2
  <2>3. ASSUME NEW k \in Keys, NEW d \in SUBSET Secrets, v = Blob(k, d)
        PROVE  /\ v.kind = "blob" /\ v.key = k /\ v.data = d
    BY <1>1, <2>3
  <2> QED BY <2>1, <2>2, <2>3
<1> QED BY <1>1, <1>2, <1>3, <1>4

\* An unlocked service has a set of secrets and a key.
LEMMA UnlockedHas ==
  ASSUME TypeInv, NEW s \in Services, Unlocked(s)
  PROVE  secrets[s] \in SUBSET Secrets /\ master[s] \in Keys
BY DEF TypeInv, TypeOK, Keyed, Unlocked

-----------------------------------------------------------------------------
(* Types *)

LEMMA InitTypeInv == Init => TypeInv
<1> SUFFICES ASSUME Init PROVE TypeInv OBVIOUS
<1>1. PICK k \in Keys, d \in SUBSET Secrets :
        /\ used = {k} /\ env \in {"none", k} /\ vault \in {NoVault, Blob(k, d)}
        /\ kept = IF vault.kind = "blob" THEN d ELSE {}
        /\ bare = IF env = "none" THEN kept ELSE {}
  BY DEF Init
<1>2. TypeOK
  <2>1. vault \in Vaults /\ kept \in SUBSET Secrets /\ bare \in SUBSET Secrets
    BY <1>1, VaultKinds
  <2>2. /\ env \in {"none", "torn"} \cup Keys /\ used \in SUBSET Keys
    BY <1>1
  <2>3. pc \in [Actors -> Pcs] BY DEF Init, Pcs
  <2>4. blob \in [Actors -> Vaults] BY VaultKinds DEF Init
  <2> QED BY <2>1, <2>2, <2>3, <2>4 DEF Init, TypeOK
<1>3. Keyed BY DEF Init, Keyed, Unlocked
<1>4. Sealed BY DEF Init, Sealed, Writing
<1> QED BY <1>2, <1>3, <1>4 DEF TypeInv

\* An actor moves on: its program counter is at l, the others' are where they were.
LEMMA Moves ==
  ASSUME TypeOK, NEW a \in Actors, NEW l \in Pcs, Goto(a, l)
  PROVE  /\ pc' \in [Actors -> Pcs] /\ pc'[a] = l
         /\ \A b \in Actors \ {a} : pc'[b] = pc[b]
BY DEF TypeOK, Goto

\* A write is prepared with a sealed blob.
LEMMA StartsWrite ==
  ASSUME TypeInv, NEW a \in Actors, NEW o \in {"unlock", "save"},
         NEW k \in Keys, NEW d \in SUBSET Secrets, StartWrite(a, o, Blob(k, d))
  PROVE  /\ pc' \in [Actors -> Pcs] /\ op' \in [Actors -> {"boot", "unlock", "save"}]
         /\ blob' \in [Actors -> Vaults]
         /\ pc'[a] = "vault_open" /\ op'[a] = o /\ blob'[a] = Blob(k, d)
         /\ \A b \in Actors \ {a} :
              pc'[b] = pc[b] /\ op'[b] = op[b] /\ blob'[b] = blob[b]
         /\ Sealed'
<1>1. Goto(a, "vault_open") /\ "vault_open" \in Pcs BY DEF StartWrite, Pcs
<1>2. /\ pc' \in [Actors -> Pcs] /\ pc'[a] = "vault_open"
      /\ \A b \in Actors \ {a} : pc'[b] = pc[b]
  BY <1>1, Moves DEF TypeInv
<1>3. Blob(k, d) \in Vaults /\ Blob(k, d).kind = "blob" BY VaultKinds
<1>4. /\ op' \in [Actors -> {"boot", "unlock", "save"}] /\ blob' \in [Actors -> Vaults]
      /\ op'[a] = o /\ blob'[a] = Blob(k, d)
      /\ \A b \in Actors \ {a} : op'[b] = op[b] /\ blob'[b] = blob[b]
  BY <1>3 DEF TypeInv, TypeOK, StartWrite
<1>5. Sealed' BY <1>2, <1>3, <1>4 DEF TypeInv, Sealed
<1> QED BY <1>2, <1>4, <1>5

LEMMA BootTypes == ASSUME TypeInv, NEW a \in Actors, BootStep(a) PROVE TypeInv'
<1> USE DEF TypeInv
<1>1. CASE BootRefused(a)
  <2>1. pc' \in [Actors -> Pcs] /\ \A b \in Actors : pc'[b] \in Writing => pc'[b] = pc[b]
    BY <1>1 DEF TypeOK, BootRefused, Goto, Pcs, Writing
  <2> QED BY <1>1, <2>1
        DEF BootRefused, TypeOK, Keyed, Sealed, Unlocked, diskVars, callVars, history
<1>2. CASE BootGuard(a)
  <2>1. PICK k \in Keys \ used :
          used' = used \cup {k} /\ blob' = [blob EXCEPT ![a] = Blob(k, {})]
    BY <1>2 DEF BootGuard
  <2>2. Blob(k, {}) \in Vaults /\ Blob(k, {}).kind = "blob" BY VaultKinds
  <2>3. Goto(a, "env_open") /\ op' = [op EXCEPT ![a] = "boot"]
        /\ UNCHANGED <<diskVars, up, master, secrets, history>>
    BY <1>2 DEF BootGuard
  <2>4. /\ pc' \in [Actors -> Pcs] /\ \A b \in Actors \ {a} : pc'[b] = pc[b]
    BY <2>3, Moves DEF Pcs
  <2>5. TypeOK' BY <2>1, <2>2, <2>3, <2>4 DEF TypeOK, diskVars, history
  <2>6. Keyed' BY <2>3 DEF Keyed, Unlocked
  <2>7. Sealed' BY <2>1, <2>2, <2>4 DEF Sealed, TypeOK
  <2> QED BY <2>5, <2>6, <2>7
<1>3. CASE EnvOpen(a)
  <2>1. pc' \in [Actors -> Pcs] /\ \A b \in Actors \ {a} : pc'[b] = pc[b]
    BY <1>3, Moves DEF EnvOpen, Pcs
  <2>2. Sealed' BY <1>3, <2>1 DEF EnvOpen, Sealed, Writing, callVars
  <2> QED BY <1>3, <2>1, <2>2
        DEF EnvOpen, TypeOK, Keyed, Unlocked, callVars, history
<1>4. CASE EnvWrite(a)
  <2>1. pc' \in [Actors -> Pcs] /\ \A b \in Actors \ {a} : pc'[b] = pc[b]
    BY <1>4, Moves DEF EnvWrite, Pcs
  <2>2. Sealed' BY <1>4, <2>1 DEF EnvWrite, Sealed, Writing, callVars
  <2>3. blob[a] \in Vaults /\ blob[a].kind = "blob"
    BY <1>4 DEF EnvWrite, Sealed, Writing, TypeOK
  <2>4. env' \in Keys BY <1>4, <2>3, VaultKinds DEF EnvWrite
  <2> QED BY <1>4, <2>1, <2>2, <2>4
        DEF EnvWrite, TypeOK, Keyed, Unlocked, callVars, history
<1>5. CASE EnvWriteFails(a)
  <2>1. pc' \in [Actors -> Pcs] /\ \A b \in Actors : pc'[b] \in Writing => pc'[b] = pc[b]
    BY <1>5 DEF TypeOK, EnvWriteFails, Goto, Pcs, Writing
  <2> QED BY <1>5, <2>1
        DEF EnvWriteFails, TypeOK, Keyed, Sealed, Unlocked, diskVars, callVars
<1>6. CASE BootDone(a)
  <2>1. pc' \in [Actors -> Pcs] /\ \A b \in Actors : pc'[b] \in Writing => pc'[b] = pc[b]
    BY <1>6 DEF TypeOK, BootDone, Goto, Pcs, Writing
  <2>2. blob[a].key \in Keys \cup {NoKey} BY VaultKinds DEF TypeOK
  <2>3. ServiceOf[a] \in Services BY ActorAssumption
  <2>4. /\ master' \in [Services -> Keys \cup {NoKey}]
        /\ secrets' \in [Services -> {Locked} \cup SUBSET Secrets]
    BY <1>6, <2>2 DEF BootDone, TypeOK
  <2>5. Keyed' BY <1>6, <2>3 DEF BootDone, Keyed, Unlocked, TypeOK
  <2>6. Sealed' BY <1>6, <2>1 DEF BootDone, Sealed, callVars
  <2> QED BY <1>6, <2>1, <2>4, <2>5, <2>6 DEF BootDone, TypeOK, diskVars, callVars, history
<1> QED BY <1>1, <1>2, <1>3, <1>4, <1>5, <1>6 DEF BootStep

LEMMA WriteTypes == ASSUME TypeInv, NEW a \in Actors, WriteStep(a) PROVE TypeInv'
<1> USE DEF TypeInv
<1>1. CASE VaultOpen(a)
  <2>1. pc' \in [Actors -> Pcs] /\ \A b \in Actors \ {a} : pc'[b] = pc[b]
    BY <1>1, Moves DEF VaultOpen, Pcs
  <2>2. Sealed' BY <1>1, <2>1 DEF VaultOpen, Sealed, Writing, callVars
  <2>3. vault' \in Vaults BY <1>1, VaultKinds DEF VaultOpen
  <2> QED BY <1>1, <2>1, <2>2, <2>3
        DEF VaultOpen, TypeOK, Keyed, Unlocked, callVars, history
<1>2. CASE VaultWrite(a)
  <2>1. pc' \in [Actors -> Pcs] /\ \A b \in Actors \ {a} : pc'[b] = pc[b]
    BY <1>2, Moves DEF VaultWrite, Pcs
  <2>2. Sealed' BY <1>2, <2>1 DEF VaultWrite, Sealed, Writing, callVars
  <2>3. vault' \in Vaults /\ blob[a].data \in SUBSET Secrets
    BY <1>2, VaultKinds DEF VaultWrite, TypeOK
  <2>4. kept \in SUBSET Secrets /\ bare \in SUBSET Secrets BY DEF TypeOK
  <2>5. kept' \in SUBSET Secrets /\ bare' \in SUBSET Secrets
    BY <1>2, <2>3, <2>4 DEF VaultWrite
  <2>6. fresh' \in SUBSET Services BY <1>2, ActorAssumption DEF VaultWrite, TypeOK
  <2> QED BY <1>2, <2>1, <2>2, <2>3, <2>5, <2>6
        DEF VaultWrite, TypeOK, Keyed, Unlocked, callVars
<1>3. CASE VaultWriteFails(a)
  <2>1. pc' \in [Actors -> Pcs] /\ \A b \in Actors : pc'[b] \in Writing => pc'[b] = pc[b]
    BY <1>3 DEF TypeOK, VaultWriteFails, Goto, Pcs, Writing
  <2> QED BY <1>3, <2>1
        DEF VaultWriteFails, TypeOK, Keyed, Sealed, Unlocked, diskVars, callVars
<1> QED BY <1>1, <1>2, <1>3 DEF WriteStep

LEMMA RequestTypes == ASSUME TypeInv, NEW a \in Actors, Request(a) PROVE TypeInv'
<1> USE DEF TypeInv
<1> DEFINE s == ServiceOf[a]
<1>s. s \in Services BY ActorAssumption
<1>1. CASE OpenView(a)
  <2>1. pc' \in [Actors -> Pcs] /\ \A b \in Actors : pc'[b] \in Writing => pc'[b] = pc[b]
    BY <1>1 DEF TypeOK, OpenView, Goto, Pcs, Writing
  <2> QED BY <1>1, <2>1
        DEF OpenView, TypeOK, Keyed, Sealed, Unlocked, diskVars, callVars, history
<1>2. CASE Unlock(a)
  <2>1. master[s] \in Keys BY <1>2, <1>s DEF Unlock, TypeOK
  <2>2. /\ fresh' = fresh \cup {s}
        /\ UNCHANGED <<env, vault, used, up, master, kept, bare, faulted>>
    BY <1>2 DEF Unlock, diskVars
  <2>3. Keyed' BY <1>2, <1>s, <2>1, <2>2 DEF Unlock, Keyed, Unlocked, TypeOK
  <2>4. CASE VaultExists
    <3>1. secrets' = [secrets EXCEPT ![s] = vault.data] /\ UNCHANGED <<pc, op, blob>>
      BY <1>2, <2>4 DEF Unlock, callVars
    <3>2. vault.data \in SUBSET Secrets BY VaultKinds DEF TypeOK
    <3>3. TypeOK' BY <1>s, <2>2, <3>1, <3>2 DEF TypeOK
    <3>4. Sealed' BY <3>1 DEF Sealed
    <3> QED BY <2>3, <3>3, <3>4
  <2>5. CASE ~VaultExists
    <3>1. secrets' = [secrets EXCEPT ![s] = {}]
          /\ StartWrite(a, "unlock", Blob(master[s], {}))
      BY <1>2, <2>5 DEF Unlock
    <3>2. /\ pc' \in [Actors -> Pcs] /\ op' \in [Actors -> {"boot", "unlock", "save"}]
          /\ blob' \in [Actors -> Vaults] /\ Sealed'
      BY <2>1, <3>1, StartsWrite
    <3>3. TypeOK' BY <1>s, <2>2, <3>1, <3>2 DEF TypeOK
    <3> QED BY <2>3, <3>2, <3>3
  <2> QED BY <2>4, <2>5
<1>3. CASE Lock(a)
  BY <1>3 DEF Lock, TypeOK, Keyed, Sealed, Unlocked, diskVars, callVars, history
<1>4. CASE Save(a)
  <2>1. secrets[s] \in SUBSET Secrets /\ master[s] \in Keys
    BY <1>4, <1>s, UnlockedHas DEF Save
  <2>2. StartWrite(a, "save", Blob(master[s], secrets[s])) BY <1>4 DEF Save
  <2>3. /\ pc' \in [Actors -> Pcs] /\ op' \in [Actors -> {"boot", "unlock", "save"}]
        /\ blob' \in [Actors -> Vaults] /\ Sealed'
    BY <2>1, <2>2, StartsWrite
  <2> QED BY <1>4, <2>3 DEF Save, TypeOK, Keyed, Unlocked, diskVars, history
<1>5. ASSUME NEW n \in Secrets, Set(a, n) PROVE TypeInv'
  <2>1. secrets[s] \in SUBSET Secrets /\ master[s] \in Keys
    BY <1>5, <1>s, UnlockedHas DEF Set
  <2>2. secrets' = [secrets EXCEPT ![s] = secrets[s] \cup {n}] BY <1>5 DEF Set
  <2>3. UNCHANGED <<env, vault, used, up, master, pc, op, blob, kept, bare, fresh, faulted>>
    BY <1>5 DEF Set, diskVars, callVars, history
  <2>4. TypeOK' BY <1>s, <2>1, <2>2, <2>3 DEF TypeOK
  <2>5. Keyed' BY <1>s, <2>1, <2>2, <2>3, KeyAssumption DEF TypeOK, Keyed, Unlocked
  <2> QED BY <2>3, <2>4, <2>5 DEF Sealed
<1>6. ASSUME NEW n \in Secrets, Delete(a, n) PROVE TypeInv'
  <2>1. secrets[s] \in SUBSET Secrets /\ master[s] \in Keys
    BY <1>6, <1>s, UnlockedHas DEF Delete
  <2>2. secrets' = [secrets EXCEPT ![s] = secrets[s] \ {n}] /\ kept' = kept \ {n}
    BY <1>6 DEF Delete
  <2>3. UNCHANGED <<env, vault, used, up, master, pc, op, blob, bare, fresh, faulted>>
    BY <1>6 DEF Delete, diskVars, callVars
  <2>4. TypeOK' BY <1>s, <2>1, <2>2, <2>3 DEF TypeOK
  <2>5. Keyed' BY <1>s, <2>1, <2>2, <2>3, KeyAssumption DEF TypeOK, Keyed, Unlocked
  <2> QED BY <2>3, <2>4, <2>5 DEF Sealed
<1> QED BY <1>1, <1>2, <1>3, <1>4, <1>5, <1>6 DEF Request

LEMMA ProcessTypes == ASSUME TypeInv, NEW s \in Services, Launch(s) \/ Exit(s) PROVE TypeInv'
<1> USE DEF TypeInv
<1>1. CASE Launch(s)
  BY <1>1 DEF Launch, TypeOK, Keyed, Sealed, Unlocked, diskVars, callVars, history
<1>2. CASE Exit(s)
  <2>1. pc' \in [Actors -> Pcs] /\ \A b \in Actors : pc'[b] \in Writing => pc'[b] = pc[b]
    BY <1>2 DEF TypeOK, Exit, Pcs, Writing
  <2>2. faulted' \in BOOLEAN BY <1>2 DEF Exit, TypeOK
  <2> QED BY <1>2, <2>1, <2>2
        DEF Exit, TypeOK, Keyed, Sealed, Unlocked, diskVars, callVars
<1> QED BY <1>1, <1>2

LEMMA NextTypeInv == TypeInv /\ [Next]_vars => TypeInv'
<1> SUFFICES ASSUME TypeInv, [Next]_vars PROVE TypeInv' OBVIOUS
<1>1. ASSUME NEW a \in Actors, BootStep(a) \/ WriteStep(a) \/ Request(a) PROVE TypeInv'
  BY <1>1, BootTypes, WriteTypes, RequestTypes
<1>2. ASSUME NEW s \in Services, Launch(s) \/ Exit(s) PROVE TypeInv'
  BY <1>2, ProcessTypes
<1>3. CASE UNCHANGED vars
  BY <1>3 DEF vars, TypeInv, TypeOK, Keyed, Sealed, Unlocked
<1> QED BY <1>1, <1>2, <1>3 DEF Next

\* Whatever crashes and disk failures do: what is on disk is nothing, a torn file
\* or a blob sealed with a generated key, and the services hold keys and secrets.
THEOREM TypeCorrect == Spec => []TypeOK
<1>1. TypeInv => TypeOK BY DEF TypeInv
<1> QED BY <1>1, InitTypeInv, NextTypeInv, PTL DEF Spec

-----------------------------------------------------------------------------
(* Bootstraps *)

\* The parts below say, wherever processes crash and the disk fails, who can be
\* where during a bootstrap, and that nothing that was saved is there to be lost.

\* the calls of bootstrap, and those that have not written vault.json yet
Boots(a)     == op[a] = "boot" /\ pc[a] \in Writing
Replacing(a) == Boots(a) /\ pc[a] # "boot_done"

\* the calls of save and unlock that are writing
Writes(a) == pc[a] \in {"vault_open", "vault_write"} /\ op[a] # "boot"

\* the keys in use have been generated
Given ==
  /\ env \in Keys => env \in used
  /\ vault.kind = "blob" => vault.key \in used
  /\ \A s \in Services : master[s] \in used \cup {NoKey}
  /\ \A a \in Actors : pc[a] \in Writing => blob[a].key \in used

\* who calls what
Running   == \A a \in Actors : pc[a] # "idle" => ServiceOf[a] \in up
ViewBoots == \A a \in Actors : pc[a] = "boot_guard" \/ Boots(a) => ServiceOf[a] \notin Clis
BootsOnly == \A a \in Actors : pc[a] \in {"env_open", "env_write", "boot_done"} => op[a] = "boot"
WritesUp  == \A a \in Actors : Writes(a) => Unlocked(ServiceOf[a])

\* without .secrets/.env nobody has a key, and without vault.json no command is unlocked
BareStart == env = "none" => Saved = {} /\ \A s \in up : master[s] = NoKey
CliWaits  == ~VaultExists => \A s \in up \cap Clis : ~Unlocked(s)
EnvGone   == \A a \in Actors : Boots(a) /\ pc[a] # "env_open" => env # "none"

\* what a bootstrap is going to replace nobody has saved, and nobody can unlock
BootsAlone ==
  \A a \in Actors : Replacing(a) =>
    /\ Saved = {}
    /\ \A s \in up \cap Clis : ~Unlocked(s)
    /\ vault.kind = "blob" =>
         /\ env # vault.key /\ blob[a].key # vault.key
         /\ \A s \in up \cap Clis : master[s] # vault.key

CallInv == Running /\ ViewBoots /\ BootsOnly /\ WritesUp
BootInv == Given /\ CallInv /\ BareStart /\ CliWaits /\ EnvGone /\ BootsAlone

\* one actor for each service: the event loop of the application, one command per process
OneCaller == \A a, b \in Actors : ServiceOf[a] = ServiceOf[b] => a = b

\* one application
OneSession == \A a, b \in Actors : ServiceOf[a] \notin Clis /\ ServiceOf[b] \notin Clis => a = b

LEMMA InitBoot == Init => BootInv
<1> SUFFICES ASSUME Init PROVE BootInv OBVIOUS
<1>1. PICK k \in Keys, d \in SUBSET Secrets :
        /\ used = {k} /\ env \in {"none", k} /\ vault \in {NoVault, Blob(k, d)}
        /\ bare = IF env = "none" THEN kept ELSE {}
  BY DEF Init
<1>2. /\ up = {} /\ \A a \in Actors : pc[a] = "idle"
      /\ \A s \in Services : master[s] = NoKey
  BY DEF Init
<1>3. Given
  <2>1. vault.kind = "blob" => vault.key \in used BY <1>1, VaultKinds
  <2> QED BY <1>1, <1>2, <2>1, KeyAssumption DEF Given, Writing
<1>4. BareStart BY <1>1, <1>2 DEF BareStart, Saved
<1> QED BY <1>2, <1>3, <1>4
      DEF BootInv, CallInv, Running, ViewBoots, BootsOnly, WritesUp, CliWaits, EnvGone, BootsAlone,
          Boots, Replacing, Writes, Writing

\* While a save or an unlock writes, nobody boots and .secrets/.env is there.
LEMMA NobodyBoots ==
  ASSUME OneSession, TypeInv, BootInv, NEW a \in Actors, Writes(a)
  PROVE  env # "none" /\ \A b \in Actors : ~Replacing(b)
<1> DEFINE s == ServiceOf[a]
<1>1. s \in Services /\ s \in up /\ Unlocked(s)
  BY ActorAssumption DEF BootInv, CallInv, Running, WritesUp, Writes
<1>2. env # "none" BY <1>1 DEF BootInv, BareStart, TypeInv, Keyed
<1>3. ASSUME NEW b \in Actors, Replacing(b) PROVE FALSE
  <2>1. ServiceOf[b] \notin Clis BY <1>3 DEF BootInv, CallInv, ViewBoots, Replacing
  <2>2. s \notin Clis BY <1>1, <1>3 DEF BootInv, BootsAlone
  <2>3. b = a BY <2>1, <2>2 DEF OneSession
  <2> QED BY <1>3, <2>3 DEF Replacing, Boots, Writes
<1> QED BY <1>2, <1>3

\* A step that leaves the files alone, unlocks nothing, saves nothing, and starts
\* no call but that of the view: others end, or go on where they were.
LEMMA BootFrame ==
  ASSUME TypeInv, BootInv, UNCHANGED <<env, vault, used>>,
         Saved = {} => Saved' = {},
         \A s \in up' : s \in up /\ master'[s] = master[s] /\ (Unlocked(s)' => Unlocked(s)),
         \A s \in Services : master'[s] = master[s],
         \A b \in Actors :
           \/ pc'[b] = "idle"
           \/ pc'[b] = "boot_guard" /\ ServiceOf[b] \in up' \ Clis
           \/ /\ pc'[b] = pc[b] /\ op'[b] = op[b] /\ blob'[b] = blob[b]
              /\ ServiceOf[b] \in up'
              /\ Writes(b) => Unlocked(ServiceOf[b])'
  PROVE  BootInv'
<1>1. ASSUME NEW b \in Actors, pc'[b] \notin {"idle", "boot_guard"}
      PROVE  /\ pc'[b] = pc[b] /\ op'[b] = op[b] /\ blob'[b] = blob[b]
             /\ ServiceOf[b] \in up'
             /\ Writes(b) => Unlocked(ServiceOf[b])'
  BY <1>1
<1>2. \A b \in Actors : /\ Boots(b)' => Boots(b) /\ pc'[b] = pc[b]
                        /\ Replacing(b)' => Replacing(b) /\ blob'[b] = blob[b]
                        /\ Writes(b)' => Writes(b) /\ Unlocked(ServiceOf[b])'
  BY <1>1 DEF Boots, Replacing, Writes, Writing
<1>3. Given' BY <1>1 DEF BootInv, Given, Writing
<1>4. CallInv'
  <2>1. Running' BY DEF Running
  <2>2. ViewBoots' BY <1>2 DEF BootInv, CallInv, ViewBoots
  <2>3. BootsOnly' BY <1>1 DEF BootInv, CallInv, BootsOnly
  <2>4. WritesUp' BY <1>2 DEF WritesUp
  <2> QED BY <2>1, <2>2, <2>3, <2>4 DEF CallInv
<1>5. BareStart' BY DEF BootInv, BareStart
<1>6. CliWaits' BY DEF BootInv, CliWaits, VaultExists
<1>7. EnvGone' BY <1>2 DEF BootInv, EnvGone
<1>8. BootsAlone' BY <1>2 DEF BootInv, BootsAlone
<1> QED BY <1>3, <1>4, <1>5, <1>6, <1>7, <1>8 DEF BootInv

\* The view's call reaches its guard; what it is going to replace nobody has saved.
LEMMA BootGuardAlone ==
  ASSUME OneSession, TypeInv, BootInv, Saved = {} \/ VaultExists,
         NEW a \in Actors, BootGuard(a)
  PROVE  BootInv'
<1>1. PICK k \in Keys \ used : used' = used \cup {k} /\ blob' = [blob EXCEPT ![a] = Blob(k, {})]
  BY DEF BootGuard
<1>2. /\ pc[a] = "boot_guard" /\ ~(VaultExists /\ EnvExists)
      /\ op' = [op EXCEPT ![a] = "boot"] /\ Goto(a, "env_open")
      /\ UNCHANGED <<env, vault, up, master, secrets, kept, bare>>
  BY DEF BootGuard, diskVars, history
<1>3. pc'[a] = "env_open" /\ \A b \in Actors \ {a} : pc'[b] = pc[b]
  BY <1>2, Moves DEF TypeInv, Pcs
<1>4. /\ op'[a] = "boot" /\ blob'[a] = Blob(k, {})
      /\ \A b \in Actors \ {a} : op'[b] = op[b] /\ blob'[b] = blob[b]
  BY <1>1, <1>2 DEF TypeInv, TypeOK
<1>5. Blob(k, {}).key = k BY VaultKinds
<1>6. ServiceOf[a] \in up \ Clis BY <1>2 DEF BootInv, CallInv, Running, ViewBoots
<1>7. Saved' = Saved /\ \A s \in Services : Unlocked(s)' <=> Unlocked(s)
  BY <1>2 DEF Saved, Unlocked
<1>8. \A b \in Actors \ {a} : /\ Boots(b)' <=> Boots(b)
                              /\ Writes(b)' <=> Writes(b)
  BY <1>3, <1>4 DEF Boots, Writes
<1>9. Given'
  <2>1. \A b \in Actors : pc'[b] \in Writing => blob'[b].key \in used'
    BY <1>1, <1>3, <1>4, <1>5 DEF BootInv, Given
  <2> QED BY <1>1, <1>2, <2>1 DEF BootInv, Given
<1>10. CallInv'
  <2>1. Running' BY <1>2, <1>3, <1>6 DEF BootInv, CallInv, Running
  <2>2. ViewBoots' BY <1>3, <1>6, <1>8 DEF BootInv, CallInv, ViewBoots
  <2>3. BootsOnly' BY <1>3, <1>4 DEF BootInv, CallInv, BootsOnly
  <2>4. WritesUp' BY <1>3, <1>7, <1>8, ActorAssumption DEF BootInv, CallInv, WritesUp, Writes
  <2> QED BY <2>1, <2>2, <2>3, <2>4 DEF CallInv
<1>11. BareStart' /\ CliWaits'
  BY <1>2, <1>7 DEF BootInv, BareStart, CliWaits, VaultExists, TypeInv, TypeOK
<1>12. EnvGone' BY <1>2, <1>3, <1>8 DEF BootInv, EnvGone
<1>13. BootsAlone'
  <2>1. ASSUME NEW b \in Actors, Replacing(b)' PROVE b = a
    <3>1. ASSUME b # a PROVE FALSE
      <4>1. ServiceOf[b] \notin Clis BY <1>8, <2>1, <3>1 DEF Replacing, BootInv, CallInv, ViewBoots
      <4> QED BY <1>6, <3>1, <4>1 DEF OneSession
    <3> QED BY <3>1
  <2>2. CASE ~VaultExists
    <3>1. vault'.kind = "none" BY <1>2, <2>2 DEF VaultExists
    <3>2. \A s \in up \cap Clis : ~Unlocked(s) BY <2>2 DEF BootInv, CliWaits
    <3>3. Saved' = {} BY <1>7, <2>2
    <3> QED BY <1>2, <1>7, <2>1, <3>1, <3>2, <3>3 DEF BootsAlone, TypeInv, TypeOK
  <2>3. CASE VaultExists
    <3>1. env = "none" BY <1>2, <2>3 DEF EnvExists
    <3>2. Saved' = {} /\ \A s \in up : master[s] = NoKey BY <1>7, <3>1 DEF BootInv, BareStart
    <3>3. \A s \in up : ~Unlocked(s) BY <3>2 DEF TypeInv, TypeOK, Keyed
    <3>4. vault.kind = "blob" => vault.key \in Keys \cap used
      BY VaultKinds DEF TypeInv, TypeOK, BootInv, Given
    <3>5. vault.kind = "blob" => /\ env # vault.key /\ k # vault.key
                                 /\ \A s \in up : master[s] # vault.key
      BY <3>1, <3>2, <3>4, KeyAssumption
    <3>6. blob'[a].key = k BY <1>4, <1>5
    <3> QED BY <1>2, <1>7, <2>1, <3>2, <3>3, <3>5, <3>6 DEF BootsAlone, TypeInv, TypeOK
  <2> QED BY <2>2, <2>3
<1> QED BY <1>9, <1>10, <1>11, <1>12, <1>13 DEF BootInv

\* The two steps of the settings file.
LEMMA EnvAlone ==
  ASSUME TypeInv, BootInv, NEW a \in Actors, EnvOpen(a) \/ EnvWrite(a) PROVE BootInv'
<1>1. /\ pc[a] \in {"env_open", "env_write"}
      /\ UNCHANGED <<vault, used, up, master, secrets, op, blob, kept, bare>>
      /\ Goto(a, "env_write") \/ Goto(a, "vault_open")
  BY DEF EnvOpen, EnvWrite, callVars, history
<1>2. pc'[a] \in {"env_write", "vault_open"} /\ \A b \in Actors \ {a} : pc'[b] = pc[b]
  BY <1>1, Moves DEF TypeInv, Pcs
<1>3. op[a] = "boot" /\ Replacing(a)
  BY <1>1 DEF BootInv, CallInv, BootsOnly, Replacing, Boots, Writing
<1>4. env' \in {"torn", blob[a].key} BY DEF EnvOpen, EnvWrite
<1>5. blob[a].key \in used /\ blob[a].key \in Keys
  BY <1>3, VaultKinds DEF BootInv, Given, Replacing, Boots, TypeInv, TypeOK, Sealed
<1>6. env' # "none" BY <1>4, <1>5, KeyAssumption
<1>7. Saved' = Saved /\ \A s \in Services : Unlocked(s)' <=> Unlocked(s)
  BY <1>1 DEF Saved, Unlocked
<1>8. \A b \in Actors : /\ Boots(b)' <=> Boots(b)
                        /\ Replacing(b)' <=> Replacing(b)
                        /\ Writes(b)' <=> Writes(b)
  BY <1>1, <1>2, <1>3 DEF Boots, Replacing, Writes, Writing
<1>9. Given' BY <1>1, <1>2, <1>3, <1>4, <1>5, KeyAssumption
             DEF BootInv, Given, Replacing, Boots
<1>10. CallInv'
  BY <1>1, <1>2, <1>3, <1>7, <1>8, ActorAssumption
  DEF BootInv, CallInv, Running, ViewBoots, BootsOnly, WritesUp
<1>11. BareStart' /\ CliWaits' /\ EnvGone'
  BY <1>1, <1>6, <1>7 DEF BootInv, BareStart, CliWaits, EnvGone, VaultExists, TypeInv, TypeOK
<1>12. BootsAlone'
  <2>1. vault.kind = "blob" => env' # vault.key
    <3>1. vault.kind = "blob" => vault.key \in Keys BY VaultKinds DEF TypeInv, TypeOK
    <3>2. vault.kind = "blob" => blob[a].key # vault.key BY <1>3 DEF BootInv, BootsAlone
    <3> QED BY <1>4, <3>1, <3>2, KeyAssumption
  <2> QED BY <1>1, <1>7, <1>8, <2>1 DEF BootInv, BootsAlone, TypeInv, TypeOK
<1> QED BY <1>9, <1>10, <1>11, <1>12 DEF BootInv

LEMMA BootDoneAlone ==
  ASSUME OneCaller, TypeInv, BootInv, NEW a \in Actors, BootDone(a) PROVE BootInv'
<1> DEFINE s == ServiceOf[a]
<1>1. /\ pc[a] = "boot_done" /\ Goto(a, "idle")
      /\ master' = [master EXCEPT ![s] = blob[a].key]
      /\ secrets' = [secrets EXCEPT ![s] = Locked]
      /\ UNCHANGED <<env, vault, used, up, op, blob, kept, bare>>
  BY DEF BootDone, diskVars, callVars, history
<1>2. pc'[a] = "idle" /\ \A b \in Actors \ {a} : pc'[b] = pc[b]
  BY <1>1, Moves DEF TypeInv, Pcs
<1>3. Boots(a) /\ s \notin Clis /\ s \in Services
  BY <1>1, ActorAssumption DEF BootInv, CallInv, BootsOnly, ViewBoots, Boots, Writing
<1>4. env # "none" /\ blob[a].key \in used
  BY <1>1, <1>3 DEF BootInv, EnvGone, Given, Boots
<1>5. /\ master'[s] = blob[a].key
      /\ \A r \in Services \ {s} : master'[r] = master[r] /\ secrets'[r] = secrets[r]
  BY <1>1, <1>3 DEF TypeInv, TypeOK
<1>6. Saved' = Saved /\ \A r \in Services \ {s} : Unlocked(r)' <=> Unlocked(r)
  BY <1>1, <1>5 DEF Saved, Unlocked
<1>7. \A b \in Actors : /\ Boots(b)' => Boots(b) /\ pc'[b] = pc[b]
                        /\ Replacing(b)' => Replacing(b)
                        /\ Writes(b)' => Writes(b)
  BY <1>1, <1>2 DEF Boots, Replacing, Writes, Writing
<1>8. Given' BY <1>1, <1>2, <1>4, <1>5 DEF BootInv, Given, Writing
<1>9. CallInv'
  <2>1. \A b \in Actors : Writes(b) => Unlocked(ServiceOf[b])'
    <3>1. ASSUME NEW b \in Actors, Writes(b), ServiceOf[b] = s PROVE Unlocked(s)'
      BY <3>1, <1>1 DEF OneCaller, Writes
    <3> QED BY <1>6, <3>1, ActorAssumption DEF BootInv, CallInv, WritesUp
  <2> QED BY <1>1, <1>2, <1>7, <2>1
        DEF BootInv, CallInv, Running, ViewBoots, BootsOnly, WritesUp
<1>10. BareStart' /\ EnvGone' BY <1>1, <1>4 DEF BareStart, EnvGone
<1>11. CliWaits'
  BY <1>1, <1>3, <1>6 DEF BootInv, CliWaits, VaultExists, TypeInv, TypeOK
<1>12. BootsAlone'
  BY <1>1, <1>3, <1>5, <1>6, <1>7 DEF BootInv, BootsAlone, TypeInv, TypeOK
<1> QED BY <1>8, <1>9, <1>10, <1>11, <1>12 DEF BootInv

\* The two steps of vault.json: by a bootstrap, or by a save or unlock that no
\* bootstrap is beside.
LEMMA VaultAlone ==
  ASSUME OneSession, TypeInv, BootInv, NEW a \in Actors, VaultOpen(a) \/ VaultWrite(a)
  PROVE  BootInv'
<1>1. /\ pc[a] \in {"vault_open", "vault_write"}
      /\ vault' \in {Torn, blob[a]}
      /\ UNCHANGED <<env, used, up, master, secrets, op, blob>>
  BY DEF VaultOpen, VaultWrite, callVars
<1>2. /\ pc'[a] \in {"vault_write", "boot_done", "idle"}
      /\ pc'[a] = "vault_write" => pc[a] = "vault_open" /\ vault' = Torn
      /\ pc'[a] = "boot_done" => op[a] = "boot"
      /\ \A b \in Actors \ {a} : pc'[b] = pc[b]
  <2>1. CASE VaultOpen(a) BY <2>1, Moves DEF TypeInv, VaultOpen, Pcs
  <2>2. CASE VaultWrite(a) BY <2>2, Moves DEF TypeInv, VaultWrite, Pcs
  <2> QED BY <2>1, <2>2
<1>3. Replacing(a) \/ Writes(a) BY <1>1 DEF Replacing, Boots, Writes, Writing
<1>4. /\ blob[a].kind = "blob" /\ blob[a].key \in used
  BY <1>1 DEF TypeInv, Sealed, BootInv, Given, Writing
<1>5. vault'.kind # "none" /\ (vault'.kind = "blob" => vault' = blob[a])
  BY <1>1, <1>4, VaultKinds
<1>6. \A s \in Services : Unlocked(s)' <=> Unlocked(s) BY <1>1 DEF Unlocked
<1>7. \A b \in Actors : /\ Boots(b)' => Boots(b)
                        /\ Replacing(b)' => Replacing(b)
                        /\ Writes(b)' => Writes(b)
  BY <1>1, <1>2 DEF Boots, Replacing, Writes, Writing
<1>8. Given' BY <1>1, <1>2, <1>4, <1>5 DEF BootInv, Given, Writing
<1>9. CallInv'
  BY <1>1, <1>2, <1>6, <1>7, ActorAssumption
  DEF BootInv, CallInv, Running, ViewBoots, BootsOnly, WritesUp, Boots
<1>10. CliWaits' BY <1>5 DEF CliWaits, VaultExists
<1>11. env # "none"
  <2>1. CASE Writes(a) BY <2>1, NobodyBoots
  <2>2. CASE Replacing(a) BY <1>1, <2>2 DEF BootInv, EnvGone, Replacing
  <2> QED BY <1>3, <2>1, <2>2
<1>12. BareStart' /\ EnvGone' BY <1>1, <1>11 DEF BareStart, EnvGone
<1>13. BootsAlone'
  <2>1. CASE Writes(a) BY <1>7, <2>1, NobodyBoots DEF BootsAlone
  <2>2. CASE Replacing(a)
    <3>1. Saved' = Saved
      <4>1. op[a] = "boot" BY <2>2 DEF Replacing, Boots
      <4> QED BY <4>1 DEF VaultOpen, VaultWrite, history, Saved
    <3>2. ASSUME NEW b \in Actors, Replacing(b)' PROVE b = a
      BY <1>7, <2>2, <3>2 DEF BootInv, CallInv, ViewBoots, Replacing, OneSession
    <3>3. Replacing(a)' => vault'.kind = "torn"
      BY <1>2, VaultKinds DEF Replacing, Boots, Writing
    <3> QED BY <1>1, <1>6, <2>2, <3>1, <3>2, <3>3 DEF BootInv, BootsAlone, TypeInv, TypeOK
  <2> QED BY <1>3, <2>1, <2>2
<1> QED BY <1>8, <1>9, <1>10, <1>12, <1>13 DEF BootInv

\* A request starts a write of a service that has a key and is unlocked.
LEMMA StartAlone ==
  ASSUME OneCaller, TypeInv, BootInv, NEW a \in Actors, NEW o \in {"unlock", "save"},
         NEW k \in Keys, NEW d \in SUBSET Secrets, StartWrite(a, o, Blob(k, d)),
         pc[a] = "idle", ServiceOf[a] \in up, k = master[ServiceOf[a]], Unlocked(ServiceOf[a])',
         UNCHANGED <<env, vault, used, up, master, kept, bare>>,
         \A s \in Services \ {ServiceOf[a]} : secrets'[s] = secrets[s],
         ServiceOf[a] \in Clis => Unlocked(ServiceOf[a])
  PROVE  BootInv'
<1> DEFINE s == ServiceOf[a]
<1>1. /\ pc'[a] = "vault_open" /\ op'[a] = o /\ blob'[a] = Blob(k, d)
      /\ \A b \in Actors \ {a} : pc'[b] = pc[b] /\ op'[b] = op[b] /\ blob'[b] = blob[b]
  BY StartsWrite
<1>2. Blob(k, d).key = k /\ k \in used /\ s \in Services
  BY VaultKinds, ActorAssumption, KeyAssumption DEF BootInv, Given
<1>3. \A b \in Actors : /\ Boots(b)' => Boots(b) /\ b # a
                        /\ Replacing(b)' => Replacing(b) /\ b # a
                        /\ Writes(b)' => Writes(b) \/ b = a
  BY <1>1 DEF Boots, Replacing, Writes, Writing
<1>4. \A r \in Services \ {s} : Unlocked(r)' <=> Unlocked(r) BY DEF Unlocked
<1>5. Given' BY <1>1, <1>2 DEF BootInv, Given
<1>6. CallInv'
  <2>1. WritesUp'
    BY <1>3, <1>4, ActorAssumption DEF BootInv, CallInv, WritesUp
  <2> QED BY <1>1, <1>3, <2>1 DEF BootInv, CallInv, Running, ViewBoots, BootsOnly
<1>7. Saved' = Saved BY DEF Saved
<1>8. \A r \in up \cap Clis : Unlocked(r)' => Unlocked(r) BY <1>4 DEF TypeInv, TypeOK
<1>9. BareStart' /\ CliWaits' /\ EnvGone'
  BY <1>1, <1>3, <1>7, <1>8 DEF BootInv, BareStart, CliWaits, EnvGone, VaultExists
<1>10. BootsAlone' BY <1>1, <1>3, <1>7, <1>8 DEF BootInv, BootsAlone
<1> QED BY <1>5, <1>6, <1>9, <1>10 DEF BootInv

LEMMA UnlockAlone ==
  ASSUME OneCaller, OneSession, TypeInv, BootInv, NEW a \in Actors, Unlock(a) PROVE BootInv'
<1> DEFINE s == ServiceOf[a]
<1>1. /\ pc[a] = "idle" /\ s \in up /\ s \in Services /\ master[s] \in Keys
      /\ s \in Clis => VaultExists
      /\ UNCHANGED <<env, vault, used, up, master, kept, bare>>
  BY ActorAssumption DEF Unlock, Idle, diskVars, TypeInv, TypeOK
<1>2. CASE VaultExists
  <2>1. /\ vault.kind = "blob" /\ vault.key = master[s]
        /\ secrets' = [secrets EXCEPT ![s] = vault.data] /\ UNCHANGED <<pc, op, blob>>
    BY <1>2 DEF Unlock, callVars
  <2>2. /\ \A r \in Services \ {s} : Unlocked(r)' <=> Unlocked(r)
        /\ Unlocked(s)'
    <3>1. vault.data \in SUBSET Secrets BY VaultKinds DEF TypeInv, TypeOK
    <3> QED BY <1>1, <2>1, <3>1, KeyAssumption DEF TypeInv, TypeOK, Unlocked
  <2>3. Saved' = Saved BY <1>1 DEF Saved
  <2>4. \A b \in Actors : /\ Boots(b)' <=> Boots(b)
                          /\ Replacing(b)' <=> Replacing(b)
                          /\ Writes(b)' <=> Writes(b)
    BY <2>1 DEF Boots, Replacing, Writes
  <2>5. Given' BY <1>1, <2>1 DEF BootInv, Given
  <2>6. CallInv'
    BY <1>1, <2>1, <2>2, <2>4, ActorAssumption
    DEF BootInv, CallInv, Running, ViewBoots, BootsOnly, WritesUp
  <2>7. BareStart' /\ CliWaits' /\ EnvGone'
    BY <1>1, <1>2, <2>1, <2>3, <2>4 DEF BootInv, BareStart, CliWaits, EnvGone, VaultExists
  <2>8. ASSUME NEW b \in Actors, Replacing(b) PROVE FALSE
    <3>1. s \notin Clis BY <1>1, <2>1, <2>8 DEF BootInv, BootsAlone
    <3>2. b = a BY <2>8, <3>1 DEF BootInv, CallInv, ViewBoots, Replacing, OneSession
    <3> QED BY <1>1, <2>8, <3>2 DEF Replacing, Boots, Writing
  <2> QED BY <2>4, <2>5, <2>6, <2>7, <2>8 DEF BootInv, BootsAlone
<1>3. CASE ~VaultExists
  <2>1. /\ secrets' = [secrets EXCEPT ![s] = {}] /\ s \notin Clis
        /\ StartWrite(a, "unlock", Blob(master[s], {}))
    BY <1>1, <1>3 DEF Unlock
  <2>2. /\ \A r \in Services \ {s} : secrets'[r] = secrets[r]
        /\ Unlocked(s)'
    BY <1>1, <2>1, KeyAssumption DEF TypeInv, TypeOK, Unlocked
  <2> QED BY <1>1, <2>1, <2>2, StartAlone
<1> QED BY <1>2, <1>3

LEMMA SaveAlone ==
  ASSUME OneCaller, TypeInv, BootInv, NEW a \in Actors, Save(a) PROVE BootInv'
<1> DEFINE s == ServiceOf[a]
<1>1. /\ pc[a] = "idle" /\ s \in up /\ s \in Services /\ Unlocked(s)
      /\ UNCHANGED <<env, vault, used, up, master, secrets, kept, bare>>
      /\ StartWrite(a, "save", Blob(master[s], secrets[s]))
  BY ActorAssumption DEF Save, Idle, diskVars, history
<1>2. secrets[s] \in SUBSET Secrets /\ master[s] \in Keys BY <1>1, UnlockedHas
<1>3. Unlocked(s)' BY <1>1 DEF Unlocked
<1> QED BY <1>1, <1>2, <1>3, StartAlone

LEMMA LaunchAlone ==
  ASSUME TypeInv, BootInv, NEW s \in Services, Launch(s) PROVE BootInv'
<1>1. /\ s \notin up /\ up' = up \cup {s}
      /\ UNCHANGED <<env, vault, used, pc, op, blob, kept, bare>>
  BY DEF Launch, diskVars, callVars, history
<1>2. /\ master'[s] = IF env \in Keys THEN env ELSE NoKey
      /\ ~Unlocked(s)'
      /\ \A r \in Services \ {s} : master'[r] = master[r] /\ secrets'[r] = secrets[r]
  BY DEF Launch, TypeInv, TypeOK, Unlocked
<1>3. /\ \A r \in up' : Unlocked(r)' => r \in up /\ Unlocked(r)
      /\ \A r \in up' : r # s => r \in up /\ master'[r] = master[r]
  <2>1. up \subseteq Services BY DEF TypeInv, TypeOK
  <2>2. \A r \in up' : r # s => r \in up /\ r \in Services \ {s} BY <1>1, <2>1
  <2> QED BY <1>2, <2>2 DEF Unlocked
<1>4. Saved' = Saved BY <1>1 DEF Saved
<1>5. \A b \in Actors : /\ Boots(b)' <=> Boots(b)
                        /\ Replacing(b)' <=> Replacing(b)
                        /\ Writes(b)' <=> Writes(b)
  BY <1>1 DEF Boots, Replacing, Writes
<1>6. Given' BY <1>1, <1>2 DEF BootInv, Given
<1>7. CallInv'
  <2>1. \A b \in Actors : Writes(b) => ServiceOf[b] \in Services \ {s}
    BY <1>1, ActorAssumption DEF BootInv, CallInv, Running, Writes
  <2>2. WritesUp' BY <1>2, <1>5, <2>1 DEF BootInv, CallInv, WritesUp, Unlocked
  <2> QED BY <1>1, <1>5, <2>2 DEF BootInv, CallInv, Running, ViewBoots, BootsOnly
<1>8. BareStart' /\ CliWaits' /\ EnvGone'
  BY <1>1, <1>2, <1>3, <1>4, <1>5, KeyAssumption
  DEF BootInv, BareStart, CliWaits, EnvGone, VaultExists
<1>9. BootsAlone'
  <2>1. vault.kind = "blob" => vault.key \in Keys BY VaultKinds DEF TypeInv, TypeOK
  <2> QED BY <1>1, <1>2, <1>3, <1>4, <1>5, <2>1, KeyAssumption DEF BootInv, BootsAlone
<1> QED BY <1>6, <1>7, <1>8, <1>9 DEF BootInv

\* The steps that end a call, change the secrets in memory, or open the view.
LEMMA OthersAlone ==
  ASSUME OneCaller, TypeInv, BootInv,
         \/ \E a \in Actors : BootRefused(a) \/ EnvWriteFails(a) \/ VaultWriteFails(a)
                                \/ OpenView(a) \/ Lock(a)
                                \/ \E n \in Secrets : Set(a, n) \/ Delete(a, n)
         \/ \E s \in Services : Exit(s)
         \/ UNCHANGED vars
  PROVE  BootInv'
<1>r. \A b \in Actors : /\ Writes(b) => Unlocked(ServiceOf[b])
                        /\ pc[b] # "idle" => ServiceOf[b] \in up
  BY DEF BootInv, CallInv, WritesUp, Running
<1>t. pc \in [Actors -> Pcs] /\ secrets \in [Services -> {Locked} \cup SUBSET Secrets]
      /\ up \subseteq Services /\ \A b \in Actors : ServiceOf[b] \in Services
  BY ActorAssumption DEF TypeInv, TypeOK
<1>1. ASSUME NEW a \in Actors, BootRefused(a) \/ EnvWriteFails(a) \/ VaultWriteFails(a) \/ OpenView(a)
      PROVE  BootInv'
  <2>1. /\ UNCHANGED <<env, vault, used, up, master, secrets, op, blob, kept, bare>>
        /\ \/ Goto(a, "idle")
           \/ Goto(a, "boot_guard") /\ ServiceOf[a] \in up \ Clis
    BY <1>1 DEF BootRefused, EnvWriteFails, VaultWriteFails, OpenView, Idle, diskVars, callVars, history
  <2>2. /\ \/ pc'[a] = "idle"
           \/ pc'[a] = "boot_guard" /\ ServiceOf[a] \in up \ Clis
        /\ \A b \in Actors \ {a} : pc'[b] = pc[b]
    BY <1>t, <2>1 DEF Goto
  <2>3. Saved' = Saved /\ \A s \in Services : Unlocked(s)' <=> Unlocked(s)
    BY <2>1 DEF Saved, Unlocked
  <2>4. ASSUME NEW b \in Actors
        PROVE  \/ pc'[b] = "idle"
               \/ pc'[b] = "boot_guard" /\ ServiceOf[b] \in up' \ Clis
               \/ /\ pc'[b] = pc[b] /\ op'[b] = op[b] /\ blob'[b] = blob[b]
                  /\ ServiceOf[b] \in up'
                  /\ Writes(b) => Unlocked(ServiceOf[b])'
    BY <1>r, <1>t, <2>1, <2>2, <2>3
  <2> QED BY <1>t, <2>1, <2>3, <2>4, BootFrame
<1>2. ASSUME NEW a \in Actors, Lock(a) \/ \E n \in Secrets : Set(a, n) \/ Delete(a, n)
      PROVE  BootInv'
  <2> DEFINE s == ServiceOf[a]
  <2>1. /\ UNCHANGED <<env, vault, used, up, master, pc, op, blob, bare>>
        /\ kept' \subseteq kept /\ pc[a] = "idle" /\ Unlocked(s)
        /\ \E x : secrets' = [secrets EXCEPT ![s] = x]
    BY <1>2 DEF Lock, Set, Delete, Idle, diskVars, callVars, history
  <2>2. \A r \in Services \ {s} : secrets'[r] = secrets[r] BY <1>t, <2>1
  <2>3. Saved' \subseteq Saved /\ \A r \in Services : Unlocked(r)' => Unlocked(r)
    BY <2>1, <2>2 DEF Saved, Unlocked
  <2>4. \A b \in Actors : Writes(b) => Unlocked(ServiceOf[b])'
    <3>1. \A b \in Actors : Writes(b) => ServiceOf[b] \in Services \ {s}
      BY <1>t, <2>1 DEF OneCaller, Writes
    <3> QED BY <1>r, <2>2, <3>1 DEF Unlocked
  <2>5. ASSUME NEW b \in Actors
        PROVE  \/ pc'[b] = "idle"
               \/ pc'[b] = "boot_guard" /\ ServiceOf[b] \in up' \ Clis
               \/ /\ pc'[b] = pc[b] /\ op'[b] = op[b] /\ blob'[b] = blob[b]
                  /\ ServiceOf[b] \in up'
                  /\ Writes(b) => Unlocked(ServiceOf[b])'
    BY <1>r, <2>1, <2>4
  <2> QED BY <1>t, <2>1, <2>3, <2>5, BootFrame
<1>3. ASSUME NEW s \in Services, Exit(s) PROVE BootInv'
  <2>1. /\ up' = up \ {s}
        /\ UNCHANGED <<env, vault, used, master, secrets, op, blob, kept, bare>>
        /\ pc' = [a \in Actors |-> IF ServiceOf[a] = s THEN "idle" ELSE pc[a]]
    BY <1>3 DEF Exit, diskVars, callVars
  <2>2. Saved' = Saved /\ \A r \in Services : Unlocked(r)' <=> Unlocked(r)
    BY <2>1 DEF Saved, Unlocked
  <2>3. ASSUME NEW b \in Actors
        PROVE  \/ pc'[b] = "idle"
               \/ pc'[b] = "boot_guard" /\ ServiceOf[b] \in up' \ Clis
               \/ /\ pc'[b] = pc[b] /\ op'[b] = op[b] /\ blob'[b] = blob[b]
                  /\ ServiceOf[b] \in up'
                  /\ Writes(b) => Unlocked(ServiceOf[b])'
    BY <1>r, <1>t, <2>1, <2>2
  <2> QED BY <1>t, <2>1, <2>2, <2>3, BootFrame
<1>4. CASE UNCHANGED vars
  <2>1. UNCHANGED <<env, vault, used, up, master, secrets, pc, op, blob, kept, bare>>
    BY <1>4 DEF vars
  <2>2. Saved' = Saved /\ \A r \in Services : Unlocked(r)' <=> Unlocked(r)
    BY <2>1 DEF Saved, Unlocked
  <2>3. ASSUME NEW b \in Actors
        PROVE  \/ pc'[b] = "idle"
               \/ pc'[b] = "boot_guard" /\ ServiceOf[b] \in up' \ Clis
               \/ /\ pc'[b] = pc[b] /\ op'[b] = op[b] /\ blob'[b] = blob[b]
                  /\ ServiceOf[b] \in up'
                  /\ Writes(b) => Unlocked(ServiceOf[b])'
    BY <1>r, <1>t, <2>1, <2>2
  <2> QED BY <1>t, <2>1, <2>2, <2>3, BootFrame
<1> QED BY <1>1, <1>2, <1>3, <1>4

LEMMA NextBoot ==
  ASSUME OneCaller, OneSession, TypeInv, BootInv, Saved = {} \/ VaultExists, [Next]_vars
  PROVE  BootInv'
<1>1. ASSUME NEW a \in Actors, BootStep(a) PROVE BootInv'
  BY <1>1, BootGuardAlone, EnvAlone, BootDoneAlone, OthersAlone DEF BootStep
<1>2. ASSUME NEW a \in Actors, WriteStep(a) PROVE BootInv'
  BY <1>2, VaultAlone, OthersAlone DEF WriteStep
<1>3. ASSUME NEW a \in Actors, Request(a) PROVE BootInv'
  BY <1>3, UnlockAlone, SaveAlone, OthersAlone DEF Request
<1>4. ASSUME NEW s \in Services, Launch(s) \/ Exit(s) PROVE BootInv'
  BY <1>4, LaunchAlone, OthersAlone
<1> QED BY <1>1, <1>2, <1>3, <1>4, OthersAlone DEF Next

-----------------------------------------------------------------------------
(* What was saved *)

NothingYet == ~VaultExists => Saved = {}

Snapshots == \A s \in fresh : Unlocked(s) => Saved \subseteq secrets[s]

Pending ==
  \A a \in Actors : Writes(a) =>
    /\ Unlocked(ServiceOf[a]) => blob[a].data \subseteq secrets[ServiceOf[a]]
    /\ ServiceOf[a] \in fresh => Saved \subseteq blob[a].data

SavedInv == SavedWholeOrTorn /\ NothingYet /\ Snapshots /\ Pending

LEMMA InitSaved == Init => SavedInv
<1> SUFFICES ASSUME Init PROVE SavedInv OBVIOUS
<1>1. PICK k \in Keys, d \in SUBSET Secrets :
        /\ vault \in {NoVault, Blob(k, d)}
        /\ kept = IF vault.kind = "blob" THEN d ELSE {}
  BY DEF Init
<1>2. SavedWholeOrTorn BY <1>1, VaultKinds DEF SavedWholeOrTorn, Saved
<1>3. NothingYet BY <1>1 DEF NothingYet, VaultExists, Saved
<1>4. Snapshots /\ Pending BY DEF Init, Snapshots, Pending, Writes
<1> QED BY <1>2, <1>3, <1>4 DEF SavedInv

\* A step that starts no write, and leaves the file, the snapshots and what was
\* saved as they are, except that a snapshot may be given up.
LEMMA NothingWritten ==
  ASSUME TypeInv, SavedInv, UNCHANGED <<vault, kept, bare, fresh>>,
         \A s \in Services : secrets'[s] \in {secrets[s], Locked},
         \A b \in Actors : Writes(b)' => Writes(b) /\ blob'[b] = blob[b]
  PROVE  SavedInv'
<1>s. Saved' = Saved BY DEF Saved
<1>1. SavedWholeOrTorn' /\ NothingYet'
  BY <1>s DEF SavedInv, SavedWholeOrTorn, NothingYet, VaultExists
<1>2. \A s \in Services : Unlocked(s)' => Unlocked(s) /\ secrets'[s] = secrets[s]
  BY DEF Unlocked
<1>3. Pending'
  <2>1. ASSUME NEW b \in Actors, Writes(b)' PROVE
           /\ Unlocked(ServiceOf[b])' => blob'[b].data \subseteq secrets'[ServiceOf[b]]
           /\ ServiceOf[b] \in fresh' => Saved' \subseteq blob'[b].data
    <3>1. Writes(b) /\ blob'[b] = blob[b] /\ ServiceOf[b] \in Services BY <2>1, ActorAssumption
    <3> QED BY <3>1, <1>s, <1>2 DEF SavedInv, Pending
  <2> QED BY <2>1 DEF Pending
<1>4. Snapshots' BY <1>s, <1>2 DEF SavedInv, Snapshots, TypeInv, TypeOK
<1> QED BY <1>1, <1>3, <1>4 DEF SavedInv

\* A step of one actor that only moves its program counter, not to a write.
LEMMA OnlyMoves ==
  ASSUME TypeInv, SavedInv, NEW a \in Actors, NEW l \in Pcs, Goto(a, l),
         UNCHANGED <<vault, op, blob, kept, bare, fresh>>,
         \A s \in Services : secrets'[s] \in {secrets[s], Locked},
         l \notin {"vault_open", "vault_write"} \/ op[a] = "boot"
  PROVE  SavedInv'
<1>1. pc'[a] = l /\ \A b \in Actors \ {a} : pc'[b] = pc[b] BY Moves DEF TypeInv
<1>2. \A b \in Actors : Writes(b)' => Writes(b) /\ blob'[b] = blob[b] BY <1>1 DEF Writes
<1> QED BY <1>2, NothingWritten

LEMMA BootSaved ==
  ASSUME TypeInv, BootInv, SavedInv, NEW a \in Actors, BootStep(a) PROVE SavedInv'
<1>b. pc[a] \in {"env_open", "env_write"} => op[a] = "boot"
  BY DEF BootInv, CallInv, BootsOnly
<1>1. CASE BootRefused(a)
  BY <1>1, OnlyMoves DEF BootRefused, Pcs, diskVars, callVars, history
<1>2. CASE BootGuard(a)
  <2>1. /\ Goto(a, "env_open") /\ op' = [op EXCEPT ![a] = "boot"]
        /\ UNCHANGED <<vault, secrets, kept, bare, fresh>>
        /\ \E k : blob' = [blob EXCEPT ![a] = Blob(k, {})]
    BY <1>2 DEF BootGuard, diskVars, history
  <2>2. pc'[a] = "env_open" /\ \A b \in Actors \ {a} : pc'[b] = pc[b]
    BY <2>1, Moves DEF TypeInv, Pcs
  <2>3. /\ op'[a] = "boot"
        /\ \A b \in Actors \ {a} : op'[b] = op[b] /\ blob'[b] = blob[b]
    BY <2>1 DEF TypeInv, TypeOK
  <2>4. \A b \in Actors : Writes(b)' => Writes(b) /\ blob'[b] = blob[b]
    BY <2>2, <2>3 DEF Writes
  <2> QED BY <2>1, <2>4, NothingWritten
<1>3. CASE EnvOpen(a)
  BY <1>3, OnlyMoves DEF EnvOpen, Pcs, callVars, history
<1>4. CASE EnvWrite(a)
  BY <1>4, <1>b, OnlyMoves DEF EnvWrite, Pcs, callVars, history
<1>5. CASE EnvWriteFails(a)
  BY <1>5, OnlyMoves DEF EnvWriteFails, Pcs, diskVars, callVars
<1>6. CASE BootDone(a)
  <2>1. \A s \in Services : secrets'[s] \in {secrets[s], Locked}
    BY <1>6 DEF BootDone, TypeInv, TypeOK
  <2> QED BY <1>6, <2>1, OnlyMoves DEF BootDone, Pcs, diskVars, callVars, history
<1> QED BY <1>1, <1>2, <1>3, <1>4, <1>5, <1>6 DEF BootStep

\* The step the argument is about: what is written has all that was saved, and
\* is what the service has in memory; a bootstrap writes where nothing was saved.
LEMMA WriteSaved ==
  ASSUME OneCaller, OneSession, TypeInv, BootInv, SavedInv, NEW a \in Actors, WriteStep(a)
  PROVE  SavedInv'
<1> DEFINE s == ServiceOf[a]
<1>1. CASE VaultOpen(a)
  <2>1. pc'[a] = "vault_write" /\ \A b \in Actors \ {a} : pc'[b] = pc[b]
    BY <1>1, Moves DEF TypeInv, VaultOpen, Pcs
  <2>2. /\ vault' = Torn /\ UNCHANGED <<secrets, op, blob, kept, bare, fresh>>
        /\ pc[a] = "vault_open" /\ Saved' = Saved
    BY <1>1 DEF VaultOpen, callVars, history, Saved
  <2>3. SavedWholeOrTorn' /\ NothingYet'
    BY <2>2, VaultKinds DEF SavedWholeOrTorn, NothingYet, VaultExists
  <2>4. \A b \in Actors : Writes(b)' => Writes(b) BY <2>1, <2>2 DEF Writes
  <2>5. Snapshots' BY <2>2 DEF SavedInv, Snapshots, Unlocked
  <2>6. Pending' BY <2>2, <2>4 DEF SavedInv, Pending, Unlocked
  <2> QED BY <2>3, <2>5, <2>6 DEF SavedInv
<1>2. CASE VaultWrite(a)
  <2>1. /\ pc'[a] \in {"boot_done", "idle"} /\ \A b \in Actors \ {a} : pc'[b] = pc[b]
    BY <1>2, Moves DEF TypeInv, VaultWrite, Pcs
  <2>2. vault' = blob[a] /\ UNCHANGED <<secrets, op, blob>> /\ pc[a] = "vault_write"
    BY <1>2 DEF VaultWrite, callVars
  <2>3. blob[a].kind = "blob" BY <2>2 DEF TypeInv, Sealed, Writing
  <2>4. NothingYet' BY <2>2, <2>3 DEF NothingYet, VaultExists
  <2>5. CASE op[a] = "boot"
    <3>1. UNCHANGED <<kept, bare, fresh>> BY <1>2, <2>5 DEF VaultWrite
    <3>2. Replacing(a) BY <2>2, <2>5 DEF Replacing, Boots, Writing
    <3>3. Saved' = {} BY <3>1, <3>2 DEF BootInv, BootsAlone, Saved
    <3>4. SavedWholeOrTorn' /\ Snapshots' BY <3>3 DEF SavedWholeOrTorn, Snapshots
    <3>5. \A b \in Actors : Writes(b)' => Writes(b) BY <2>1, <2>2 DEF Writes
    <3>6. Pending' BY <2>2, <3>3, <3>5 DEF SavedInv, Pending, Unlocked
    <3> QED BY <2>4, <3>4, <3>6 DEF SavedInv
  <2>6. CASE op[a] # "boot"
    <3>1. /\ kept' = (IF s \in fresh THEN kept ELSE {}) \cup blob[a].data
          /\ bare' = bare \ blob[a].data /\ fresh' = {s}
      BY <1>2, <2>6 DEF VaultWrite
    <3>2. Writes(a) BY <2>2, <2>6 DEF Writes
    <3>3. Saved' \subseteq blob[a].data
      <4>1. s \in fresh => Saved \subseteq blob[a].data BY <3>2 DEF SavedInv, Pending
      <4> QED BY <3>1, <4>1 DEF Saved
    <3>4. SavedWholeOrTorn' BY <2>2, <3>3 DEF SavedWholeOrTorn
    <3>5. Snapshots'
      <4>1. Unlocked(s) => blob[a].data \subseteq secrets[s] BY <3>2 DEF SavedInv, Pending
      <4> QED BY <2>2, <3>1, <3>3, <4>1 DEF Snapshots, Unlocked
    <3>6. Pending'
      <4>1. ASSUME NEW b \in Actors, Writes(b)'
            PROVE  Writes(b) /\ ServiceOf[b] \notin fresh'
        BY <2>1, <2>2, <3>1, <4>1 DEF Writes, OneCaller
      <4> QED BY <2>2, <4>1 DEF SavedInv, Pending, Unlocked
    <3> QED BY <2>4, <3>4, <3>5, <3>6 DEF SavedInv
  <2> QED BY <2>5, <2>6
<1>3. CASE VaultWriteFails(a)
  BY <1>3, OnlyMoves DEF VaultWriteFails, Pcs, diskVars, callVars
<1> QED BY <1>1, <1>2, <1>3 DEF WriteStep

LEMMA RequestSaved ==
  ASSUME OneCaller, TypeInv, SavedInv, NEW a \in Actors, Request(a) PROVE SavedInv'
<1> DEFINE s == ServiceOf[a]
<1>s. s \in Services BY ActorAssumption
<1>i. Idle(a) => \A b \in Actors : Writes(b) => ServiceOf[b] # s
  BY DEF Idle, Writes, OneCaller
<1>1. CASE OpenView(a)
  BY <1>1, OnlyMoves DEF OpenView, Pcs, diskVars, callVars, history
<1>2. CASE Unlock(a)
  <2>1. /\ Idle(a) /\ fresh' = fresh \cup {s}
        /\ UNCHANGED <<vault, kept, bare, master>> /\ master[s] \in Keys
        /\ Saved' = Saved
    BY <1>2, <1>s DEF Unlock, diskVars, TypeInv, TypeOK, Saved
  <2>2. SavedWholeOrTorn' /\ NothingYet'
    BY <2>1 DEF SavedInv, SavedWholeOrTorn, NothingYet, VaultExists
  <2>3. CASE VaultExists
    <3>1. /\ secrets' = [secrets EXCEPT ![s] = vault.data] /\ UNCHANGED <<pc, op, blob>>
          /\ vault.kind = "blob"
      BY <1>2, <2>3 DEF Unlock, callVars
    <3>2. secrets'[s] = vault.data /\ \A r \in Services \ {s} : secrets'[r] = secrets[r]
      BY <1>s, <3>1 DEF TypeInv, TypeOK
    <3>3. Saved \subseteq vault.data BY <3>1 DEF SavedInv, SavedWholeOrTorn
    <3>4. Snapshots'
      BY <2>1, <3>2, <3>3 DEF SavedInv, Snapshots, Unlocked, TypeInv, TypeOK
    <3>5. Pending'
      <4>1. ASSUME NEW b \in Actors, Writes(b)'
            PROVE  Writes(b) /\ ServiceOf[b] \in Services \ {s}
        BY <1>i, <2>1, <3>1, <4>1, ActorAssumption DEF Writes
      <4> QED BY <2>1, <3>1, <3>2, <4>1 DEF SavedInv, Pending, Unlocked
    <3> QED BY <2>2, <3>4, <3>5 DEF SavedInv
  <2>4. CASE ~VaultExists
    <3>1. /\ secrets' = [secrets EXCEPT ![s] = {}]
          /\ StartWrite(a, "unlock", Blob(master[s], {}))
      BY <1>2, <2>4 DEF Unlock
    <3>2. /\ pc'[a] = "vault_open" /\ blob'[a] = Blob(master[s], {})
          /\ \A b \in Actors \ {a} :
               pc'[b] = pc[b] /\ op'[b] = op[b] /\ blob'[b] = blob[b]
      BY <2>1, <3>1, StartsWrite
    <3>3. secrets'[s] = {} /\ \A r \in Services \ {s} : secrets'[r] = secrets[r]
      BY <1>s, <3>1 DEF TypeInv, TypeOK
    <3>4. Saved = {} /\ Saved' = {} BY <2>1, <2>4 DEF SavedInv, NothingYet
    <3>5. Snapshots' BY <3>4 DEF Snapshots
    <3>6. Pending'
      <4>1. blob'[a].data = {} BY <2>1, <3>2, VaultKinds
      <4>2. ASSUME NEW b \in Actors \ {a}, Writes(b)'
            PROVE  Writes(b) /\ blob'[b] = blob[b] /\ ServiceOf[b] \in Services \ {s}
        BY <1>i, <2>1, <3>2, <4>2, ActorAssumption DEF Writes
      <4> QED BY <3>3, <3>4, <4>1, <4>2 DEF SavedInv, Pending, Unlocked
    <3> QED BY <2>2, <3>5, <3>6 DEF SavedInv
  <2> QED BY <2>3, <2>4
<1>3. CASE Lock(a)
  <2>1. \A r \in Services : secrets'[r] \in {secrets[r], Locked}
    BY <1>3 DEF Lock, TypeInv, TypeOK
  <2>2. UNCHANGED <<vault, kept, bare, fresh, pc, op, blob>>
    BY <1>3 DEF Lock, diskVars, callVars, history
  <2>3. \A b \in Actors : Writes(b)' => Writes(b) /\ blob'[b] = blob[b]
    BY <2>2 DEF Writes
  <2> QED BY <2>1, <2>2, <2>3, NothingWritten
<1>4. CASE Save(a)
  <2>1. Unlocked(s) /\ UNCHANGED <<vault, secrets, kept, bare, fresh>> /\ Saved' = Saved
    BY <1>4 DEF Save, diskVars, history, Saved
  <2>2. secrets[s] \in SUBSET Secrets /\ master[s] \in Keys BY <1>s, <2>1, UnlockedHas
  <2>3. StartWrite(a, "save", Blob(master[s], secrets[s])) BY <1>4 DEF Save
  <2>4. /\ pc'[a] = "vault_open" /\ blob'[a] = Blob(master[s], secrets[s])
        /\ \A b \in Actors \ {a} :
             pc'[b] = pc[b] /\ op'[b] = op[b] /\ blob'[b] = blob[b]
    BY <2>2, <2>3, StartsWrite
  <2>5. blob'[a].data = secrets[s] BY <2>2, <2>4, VaultKinds
  <2>6. SavedWholeOrTorn' /\ NothingYet'
    BY <2>1 DEF SavedInv, SavedWholeOrTorn, NothingYet, VaultExists
  <2>7. Snapshots' BY <2>1 DEF SavedInv, Snapshots, Unlocked
  <2>8. Pending'
    <3>1. s \in fresh => Saved \subseteq secrets[s] BY <2>1 DEF SavedInv, Snapshots
    <3>2. ASSUME NEW b \in Actors \ {a}, Writes(b)'
          PROVE  Writes(b) /\ blob'[b] = blob[b]
      BY <2>4, <3>2 DEF Writes
    <3> QED BY <2>1, <2>5, <3>1, <3>2 DEF SavedInv, Pending, Unlocked
  <2> QED BY <2>6, <2>7, <2>8 DEF SavedInv
<1>5. ASSUME NEW n \in Secrets, Set(a, n) \/ Delete(a, n) PROVE SavedInv'
  <2>1. /\ Idle(a) /\ Unlocked(s) /\ UNCHANGED <<vault, fresh, pc, op, blob>>
    BY <1>5 DEF Set, Delete, diskVars, callVars, history
  <2>2. secrets[s] \in SUBSET Secrets BY <1>s, <2>1, UnlockedHas
  <2>3. /\ \A r \in Services \ {s} : secrets'[r] = secrets[r]
        /\ Saved' \subseteq Saved
        /\ Saved \subseteq secrets[s] => Saved' \subseteq secrets'[s]
    <3>1. CASE Set(a, n)
      BY <1>s, <3>1 DEF Set, TypeInv, TypeOK, history, Saved
    <3>2. CASE Delete(a, n)
      BY <1>s, <3>2 DEF Delete, TypeInv, TypeOK, Saved
    <3> QED BY <1>5, <3>1, <3>2
  <2>4. SavedWholeOrTorn' /\ NothingYet'
    BY <2>1, <2>3 DEF SavedInv, SavedWholeOrTorn, NothingYet, VaultExists
  <2>5. Snapshots'
    <3>1. ASSUME NEW r \in fresh, Unlocked(r)' PROVE Saved' \subseteq secrets'[r]
      <4>1. CASE r = s BY <2>1, <2>3, <4>1 DEF SavedInv, Snapshots
      <4>2. CASE r # s
        <5>1. r \in Services \ {s} BY <4>2 DEF TypeInv, TypeOK
        <5> QED BY <2>3, <3>1, <5>1 DEF SavedInv, Snapshots, Unlocked
      <4> QED BY <4>1, <4>2
    <3> QED BY <2>1, <3>1 DEF Snapshots
  <2>6. Pending'
    <3>1. ASSUME NEW b \in Actors, Writes(b)'
          PROVE  Writes(b) /\ ServiceOf[b] \in Services \ {s}
      BY <1>i, <2>1, <3>1, ActorAssumption DEF Writes
    <3> QED BY <2>1, <2>3, <3>1 DEF SavedInv, Pending, Unlocked
  <2> QED BY <2>4, <2>5, <2>6 DEF SavedInv
<1> QED BY <1>1, <1>2, <1>3, <1>4, <1>5 DEF Request

LEMMA ProcessSaved ==
  ASSUME TypeInv, SavedInv, NEW s \in Services, Launch(s) \/ Exit(s) PROVE SavedInv'
<1>1. UNCHANGED <<vault, op, blob, kept, bare, fresh>>
  BY DEF Launch, Exit, diskVars, callVars, history
<1>2. \A r \in Services : secrets'[r] \in {secrets[r], Locked}
  BY DEF Launch, Exit, TypeInv, TypeOK
<1>3. \A b \in Actors : pc'[b] \in {pc[b], "idle"} BY DEF Launch, Exit, TypeInv, TypeOK
<1>4. \A b \in Actors : Writes(b)' => Writes(b) /\ blob'[b] = blob[b]
  BY <1>1, <1>3 DEF Writes
<1> QED BY <1>1, <1>2, <1>4, NothingWritten

LEMMA NextSaved ==
  OneCaller /\ OneSession /\ TypeInv /\ BootInv /\ SavedInv /\ [Next]_vars => (BootInv /\ SavedInv)'
<1> SUFFICES ASSUME OneCaller, OneSession, TypeInv, BootInv, SavedInv, [Next]_vars
             PROVE  (BootInv /\ SavedInv)'
  OBVIOUS
<1>1. ASSUME NEW a \in Actors, BootStep(a) \/ WriteStep(a) \/ Request(a) PROVE SavedInv'
  BY <1>1, BootSaved, WriteSaved, RequestSaved
<1>2. ASSUME NEW s \in Services, Launch(s) \/ Exit(s) PROVE SavedInv'
  BY <1>2, ProcessSaved
<1>3. ASSUME UNCHANGED vars PROVE SavedInv'
  <2>1. UNCHANGED <<vault, secrets, pc, op, blob, kept, bare, fresh>> BY <1>3 DEF vars
  <2>2. \A b \in Actors : Writes(b)' => Writes(b) /\ blob'[b] = blob[b] BY <2>1 DEF Writes
  <2>3. \A s \in Services : secrets'[s] \in {secrets[s], Locked} BY <2>1
  <2> QED BY <2>1, <2>2, <2>3, NothingWritten
<1>4. BootInv'
  <2>1. Saved = {} \/ VaultExists BY DEF SavedInv, NothingYet
  <2> QED BY <2>1, NextBoot
<1> QED BY <1>1, <1>2, <1>3, <1>4 DEF Next

\* With one application, and one actor for each service, a vault.json that is
\* whole has every secret that was saved, wherever the processes crash and the
\* disk fails: no save, crash or bootstrap loses one, except the bootstrap over a
\* file that came without .secrets/.env, whose secrets Saved leaves out.
THEOREM SavedWhole == ASSUME OneCaller, OneSession PROVE Spec => []SavedWholeOrTorn
<1>1. SavedInv => SavedWholeOrTorn BY DEF SavedInv
<1>2. TypeInv /\ BootInv /\ SavedInv /\ [Next]_vars => (TypeInv /\ BootInv /\ SavedInv)'
  BY NextTypeInv, NextSaved
<1> QED BY <1>1, <1>2, InitTypeInv, InitBoot, InitSaved, PTL DEF Spec

-----------------------------------------------------------------------------
(* Until a fault: the two files belong together *)

\* VaultReadable is not inductive: while a bootstrap is between its two files they
\* do not belong together, and other processes start, unlock and save meanwhile.
\* The parts below say who can be where during a bootstrap, and which key each
\* service has then.

\* the calls of bootstrap that have not replaced the key yet
Keying(a) == pc[a] \in {"boot_guard", "env_open", "env_write"}

\* the keys in memory and the two files
InStep    == \A s \in up : Unlocked(s) => env = master[s]
NoKeyYet  == env = "none" => \A s \in up : master[s] = NoKey
KeyOfFile == \A s \in up : vault.kind = "blob" /\ vault.key = master[s] => env = master[s]

\* what a call writes is sealed with the key of its service
WritesOwn == \A a \in Actors : Writes(a) =>
               Unlocked(ServiceOf[a]) /\ blob[a].key = master[ServiceOf[a]]

\* a bootstrap begins only where nobody can have unlocked the vault
Locks     == \A a \in Actors : Keying(a) => \A s \in up : ~Unlocked(s)
HalfThere == \A a \in Actors : pc[a] \in {"boot_guard", "env_open"} => ~(VaultExists /\ EnvExists)
FirstFile == \A s \in up : Unlocked(s) =>
               \/ VaultExists
               \/ \E a \in Actors : /\ ServiceOf[a] = s /\ s \notin Clis
                                    /\ pc[a] = "vault_open" /\ op[a] = "unlock"

\* the settings file during a bootstrap, and the key the application has
TornEnv   == /\ env = "torn" => \E a \in Actors : pc[a] = "env_write"
             /\ \A a \in Actors : pc[a] = "env_write" => env = "torn"
NewKey    == \A a \in Actors :
               Boots(a) /\ pc[a] \in {"vault_open", "vault_write", "boot_done"} => env = blob[a].key
ViewKey   == \A a \in Actors : ServiceOf[a] \in up \ Clis =>
               \/ Boots(a) /\ pc[a] # "env_open"
               \/ env = "none" /\ master[ServiceOf[a]] = NoKey
               \/ env \in Keys /\ env = master[ServiceOf[a]]

Together  == VaultExists /\ EnvExists =>
               \/ \E a \in Actors : \/ pc[a] \in {"env_write", "vault_write"}
                                    \/ pc[a] = "vault_open" /\ op[a] = "boot"
               \/ vault.kind = "blob" /\ vault.key = env

KeysInv  == InStep /\ NoKeyYet /\ KeyOfFile
CallsInv == Running /\ ViewBoots /\ BootsOnly /\ WritesOwn
FilesInv == Locks /\ HalfThere /\ FirstFile /\ TornEnv /\ NewKey /\ ViewKey /\ Together
ReadInv  == KeysInv /\ CallsInv /\ FilesInv

LEMMA ReadableFollows == ReadInv => VaultReadable
<1> SUFFICES ASSUME ReadInv PROVE VaultReadable OBVIOUS
<1>1. ASSUME Quiet, VaultExists, EnvExists PROVE vault.kind = "blob" /\ env = vault.key
  <2>1. \A a \in Actors : pc[a] \notin {"env_write", "vault_write", "vault_open"}
    BY <1>1 DEF Quiet
  <2> QED BY <1>1, <2>1 DEF ReadInv, FilesInv, Together
<1>2. \A s \in up : Unlocked(s) => env = master[s] BY DEF ReadInv, KeysInv, InStep
<1> QED BY <1>1, <1>2 DEF VaultReadable

LEMMA InitReadable == Init => ReadInv
<1> SUFFICES ASSUME Init PROVE ReadInv OBVIOUS
<1>1. PICK k \in Keys, d \in SUBSET Secrets :
        env \in {"none", k} /\ vault \in {NoVault, Blob(k, d)}
  BY DEF Init
<1>2. up = {} /\ \A a \in Actors : pc[a] = "idle" BY DEF Init
<1>3. KeysInv BY <1>2 DEF KeysInv, InStep, NoKeyYet, KeyOfFile
<1>4. CallsInv
  BY <1>2 DEF CallsInv, Running, ViewBoots, BootsOnly, WritesOwn, Boots, Writes, Writing
<1>5. Together
  <2>1. CASE vault = NoVault BY <2>1, VaultKinds DEF Together, VaultExists
  <2>2. CASE vault = Blob(k, d) BY <1>1, <2>2, VaultKinds DEF Together, EnvExists
  <2> QED BY <1>1, <2>1, <2>2
<1>6. env # "torn" BY <1>1, KeyAssumption
<1>7. FilesInv
  BY <1>2, <1>5, <1>6 DEF FilesInv, Locks, HalfThere, FirstFile, TornEnv, NewKey, ViewKey,
                          Keying, Boots, Writing
<1> QED BY <1>3, <1>4, <1>7 DEF ReadInv

\* Only the application boots: nobody else is at one of the steps of bootstrap.
LEMMA OneBoots ==
  ASSUME OneSession, ReadInv, NEW a \in Actors, ServiceOf[a] \notin Clis
  PROVE  \A b \in Actors : pc[b] = "boot_guard" \/ Boots(b) \/ Keying(b) => b = a
<1>1. \A b \in Actors : Keying(b) => pc[b] = "boot_guard" \/ Boots(b)
  BY DEF ReadInv, CallsInv, BootsOnly, Boots, Keying, Writing
<1>2. \A b \in Actors : pc[b] = "boot_guard" \/ Boots(b) => ServiceOf[b] \notin Clis
  BY DEF ReadInv, CallsInv, ViewBoots
<1> QED BY <1>1, <1>2 DEF OneSession

LEMMA OpenViewReadable ==
  ASSUME OneSession, TypeInv, ReadInv, NEW a \in Actors, OpenView(a) PROVE ReadInv'
<1> DEFINE s == ServiceOf[a]
<1>1. /\ pc[a] = "idle" /\ s \in up /\ s \notin Clis /\ ~Ready(s)
      /\ UNCHANGED <<env, vault, up, master, secrets, op, blob>>
  BY DEF OpenView, Idle, diskVars, callVars
<1>2. pc'[a] = "boot_guard" /\ \A b \in Actors \ {a} : pc'[b] = pc[b]
  BY Moves DEF TypeInv, OpenView, Pcs
<1>3. (env = "none" /\ master[s] = NoKey) \/ (env \in Keys /\ env = master[s])
  BY <1>1 DEF ReadInv, FilesInv, ViewKey, Boots, Writing
<1>4. ~(VaultExists /\ EnvExists)
  BY <1>1, <1>3, KeyAssumption DEF Ready, EnvExists
<1>5. \A r \in up : ~Unlocked(r)
  <2>1. CASE ~VaultExists
    BY <1>1, <2>1 DEF ReadInv, FilesInv, FirstFile, OneSession
  <2>2. CASE env = "none"
    BY <2>2 DEF ReadInv, KeysInv, NoKeyYet, TypeInv, TypeOK, Keyed
  <2> QED BY <1>4, <2>1, <2>2 DEF EnvExists
<1>6. KeysInv' BY <1>1 DEF ReadInv, KeysInv, InStep, NoKeyYet, KeyOfFile, Unlocked
<1>7. CallsInv'
  <2>1. Running' /\ BootsOnly' BY <1>1, <1>2 DEF ReadInv, CallsInv, Running, BootsOnly
  <2>2. ViewBoots' /\ WritesOwn'
    BY <1>1, <1>2 DEF ReadInv, CallsInv, ViewBoots, WritesOwn, Boots, Writes, Writing, Unlocked
  <2> QED BY <2>1, <2>2 DEF CallsInv
<1>8. FilesInv'
  <2>1. Locks' BY <1>1, <1>5 DEF Locks, Unlocked
  <2>2. HalfThere' BY <1>1, <1>2, <1>4 DEF ReadInv, FilesInv, HalfThere, VaultExists, EnvExists
  <2>3. FirstFile' BY <1>1, <1>5 DEF FirstFile, Unlocked
  <2>4. TornEnv' BY <1>1, <1>2 DEF ReadInv, FilesInv, TornEnv
  <2>5. NewKey' BY <1>1, <1>2 DEF ReadInv, FilesInv, NewKey, Boots, Writing
  <2>6. ViewKey' BY <1>1, <1>2 DEF ReadInv, FilesInv, ViewKey, Boots, Writing
  <2>7. Together' BY <1>1, <1>2 DEF ReadInv, FilesInv, Together, VaultExists, EnvExists
  <2> QED BY <2>1, <2>2, <2>3, <2>4, <2>5, <2>6, <2>7 DEF FilesInv
<1> QED BY <1>6, <1>7, <1>8 DEF ReadInv

LEMMA BootGuardReadable ==
  ASSUME OneSession, TypeInv, ReadInv, NEW a \in Actors, BootGuard(a) PROVE ReadInv'
<1> DEFINE s == ServiceOf[a]
<1>1. /\ pc[a] = "boot_guard" /\ UNCHANGED <<env, vault, up, master, secrets>>
      /\ op' = [op EXCEPT ![a] = "boot"] /\ Goto(a, "env_open")
      /\ \E k : blob' = [blob EXCEPT ![a] = Blob(k, {})]
  BY DEF BootGuard, diskVars, history
<1>2. /\ pc'[a] = "env_open" /\ op'[a] = "boot"
      /\ \A b \in Actors \ {a} : pc'[b] = pc[b] /\ op'[b] = op[b] /\ blob'[b] = blob[b]
  BY <1>1, Moves DEF TypeInv, TypeOK, Pcs
<1>3. s \in up /\ s \notin Clis BY <1>1 DEF ReadInv, CallsInv, Running, ViewBoots
<1>4. KeysInv' BY <1>1 DEF ReadInv, KeysInv, InStep, NoKeyYet, KeyOfFile, Unlocked
<1>5. CallsInv'
  <2>1. Running' /\ BootsOnly' BY <1>1, <1>2, <1>3 DEF ReadInv, CallsInv, Running, BootsOnly
  <2>2. ViewBoots' BY <1>1, <1>2, <1>3 DEF ReadInv, CallsInv, ViewBoots, Boots, Writing
  <2>3. WritesOwn' BY <1>1, <1>2 DEF ReadInv, CallsInv, WritesOwn, Writes, Unlocked
  <2> QED BY <2>1, <2>2, <2>3 DEF CallsInv
<1>6. FilesInv'
  <2>1. Locks' BY <1>1, <1>2 DEF ReadInv, FilesInv, Locks, Keying, Unlocked
  <2>2. HalfThere' BY <1>1, <1>2 DEF ReadInv, FilesInv, HalfThere, VaultExists, EnvExists
  <2>3. FirstFile' BY <1>1, <1>2 DEF ReadInv, FilesInv, FirstFile, Locks, Keying, Unlocked
  <2>4. TornEnv' BY <1>1, <1>2 DEF ReadInv, FilesInv, TornEnv
  <2>5. NewKey' BY <1>1, <1>2 DEF ReadInv, FilesInv, NewKey, Boots, Writing
  <2>6. ViewKey' BY <1>1, <1>2 DEF ReadInv, FilesInv, ViewKey, Boots, Writing
  <2>7. Together' BY <1>1, <1>2 DEF ReadInv, FilesInv, Together, VaultExists, EnvExists
  <2> QED BY <2>1, <2>2, <2>3, <2>4, <2>5, <2>6, <2>7 DEF FilesInv
<1> QED BY <1>4, <1>5, <1>6 DEF ReadInv

\* The old key goes: nobody can have it, because vault.json was not readable with it.
LEMMA EnvOpenReadable ==
  ASSUME OneSession, TypeInv, ReadInv, NEW a \in Actors, EnvOpen(a) PROVE ReadInv'
<1> DEFINE s == ServiceOf[a]
<1>1. /\ pc[a] = "env_open" /\ env' = "torn"
      /\ UNCHANGED <<vault, up, master, secrets, op, blob>>
  BY DEF EnvOpen, callVars
<1>2. pc'[a] = "env_write" /\ \A b \in Actors \ {a} : pc'[b] = pc[b]
  BY Moves DEF TypeInv, EnvOpen, Pcs
<1>3. op[a] = "boot" /\ Boots(a) /\ s \in up /\ s \notin Clis
  BY <1>1 DEF ReadInv, CallsInv, BootsOnly, Running, ViewBoots, Boots, Writing
<1>4. \A b \in Actors : pc[b] = "boot_guard" \/ Boots(b) \/ Keying(b) => b = a
  BY <1>3, OneBoots
<1>5. \A r \in up : ~Unlocked(r) BY <1>1 DEF ReadInv, FilesInv, Locks, Keying
<1>6. KeysInv'
  <2>1. InStep' /\ NoKeyYet' BY <1>1, <1>5 DEF InStep, NoKeyYet, Unlocked
  <2>2. ASSUME NEW r \in up, vault.kind = "blob", vault.key = master[r] PROVE FALSE
    <3>1. env = "none" BY <1>1, <2>2 DEF ReadInv, FilesInv, HalfThere, VaultExists, EnvExists
    <3>2. vault.key \in Keys BY <2>2, VaultKinds DEF TypeInv, TypeOK
    <3>3. env = vault.key BY <2>2 DEF ReadInv, KeysInv, KeyOfFile
    <3> QED BY <3>1, <3>2, <3>3, KeyAssumption
  <2>3. KeyOfFile' BY <1>1, <2>2 DEF KeyOfFile
  <2> QED BY <2>1, <2>3 DEF KeysInv
<1>7. CallsInv'
  <2>1. Running' /\ BootsOnly' BY <1>1, <1>2, <1>3 DEF ReadInv, CallsInv, Running, BootsOnly
  <2>2. ViewBoots' BY <1>1, <1>2, <1>3 DEF ReadInv, CallsInv, ViewBoots, Boots, Writing
  <2>3. WritesOwn' BY <1>1, <1>2 DEF ReadInv, CallsInv, WritesOwn, Writes, Unlocked
  <2> QED BY <2>1, <2>2, <2>3 DEF CallsInv
<1>8. FilesInv'
  <2>1. Locks' BY <1>1, <1>5 DEF Locks, Unlocked
  <2>2. HalfThere' BY <1>2, <1>4 DEF HalfThere, Keying
  <2>3. FirstFile' BY <1>1, <1>5 DEF FirstFile, Unlocked
  <2>4. TornEnv' BY <1>1, <1>2 DEF TornEnv
  <2>5. NewKey' BY <1>1, <1>2, <1>4 DEF NewKey, Boots, Writing
  <2>6. ViewKey' BY <1>1, <1>2, <1>3 DEF ViewKey, Boots, Writing, OneSession
  <2>7. Together' BY <1>2 DEF Together
  <2> QED BY <2>1, <2>2, <2>3, <2>4, <2>5, <2>6, <2>7 DEF FilesInv
<1> QED BY <1>6, <1>7, <1>8 DEF ReadInv

LEMMA EnvWriteReadable ==
  ASSUME OneSession, TypeInv, ReadInv, NEW a \in Actors, EnvWrite(a) PROVE ReadInv'
<1> DEFINE s == ServiceOf[a]
<1>1. /\ pc[a] = "env_write" /\ env' = blob[a].key
      /\ UNCHANGED <<vault, up, master, secrets, op, blob>>
  BY DEF EnvWrite, callVars
<1>2. pc'[a] = "vault_open" /\ \A b \in Actors \ {a} : pc'[b] = pc[b]
  BY Moves DEF TypeInv, EnvWrite, Pcs
<1>3. op[a] = "boot" /\ Boots(a) /\ s \in up /\ s \notin Clis
  BY <1>1 DEF ReadInv, CallsInv, BootsOnly, Running, ViewBoots, Boots, Writing
<1>4. \A b \in Actors : pc[b] = "boot_guard" \/ Boots(b) \/ Keying(b) => b = a
  BY <1>3, OneBoots
<1>5. \A r \in up : ~Unlocked(r) BY <1>1 DEF ReadInv, FilesInv, Locks, Keying
<1>k. env' \in Keys
  <2>1. blob[a] \in Vaults /\ blob[a].kind = "blob"
    BY <1>1 DEF TypeInv, TypeOK, Sealed, Writing
  <2> QED BY <1>1, <2>1, VaultKinds
<1>6. KeysInv'
  <2>1. InStep' /\ NoKeyYet' BY <1>1, <1>5, <1>k, KeyAssumption DEF InStep, NoKeyYet, Unlocked
  <2>2. ASSUME NEW r \in up, vault.kind = "blob", vault.key = master[r] PROVE FALSE
    <3>1. env = "torn" BY <1>1 DEF ReadInv, FilesInv, TornEnv
    <3>2. vault.key \in Keys BY <2>2, VaultKinds DEF TypeInv, TypeOK
    <3>3. env = vault.key BY <2>2 DEF ReadInv, KeysInv, KeyOfFile
    <3> QED BY <3>1, <3>2, <3>3, KeyAssumption
  <2>3. KeyOfFile' BY <1>1, <2>2 DEF KeyOfFile
  <2> QED BY <2>1, <2>3 DEF KeysInv
<1>7. CallsInv'
  <2>1. Running' /\ BootsOnly' BY <1>1, <1>2, <1>3 DEF ReadInv, CallsInv, Running, BootsOnly
  <2>2. ViewBoots' BY <1>1, <1>2, <1>3 DEF ReadInv, CallsInv, ViewBoots, Boots, Writing
  <2>3. WritesOwn' BY <1>1, <1>2, <1>3 DEF ReadInv, CallsInv, WritesOwn, Writes, Unlocked
  <2> QED BY <2>1, <2>2, <2>3 DEF CallsInv
<1>8. FilesInv'
  <2>1. Locks' BY <1>1, <1>5 DEF Locks, Unlocked
  <2>2. HalfThere' BY <1>2, <1>4 DEF HalfThere, Keying
  <2>3. FirstFile' BY <1>1, <1>5 DEF FirstFile, Unlocked
  <2>4. TornEnv' BY <1>2, <1>4, <1>k, KeyAssumption DEF TornEnv, Keying
  <2>5. NewKey' BY <1>1, <1>2, <1>4 DEF NewKey, Boots, Writing
  <2>6. ViewKey' BY <1>1, <1>2, <1>3 DEF ViewKey, Boots, Writing, OneSession
  <2>7. Together' BY <1>1, <1>2, <1>3 DEF Together
  <2> QED BY <2>1, <2>2, <2>3, <2>4, <2>5, <2>6, <2>7 DEF FilesInv
<1> QED BY <1>6, <1>7, <1>8 DEF ReadInv

LEMMA BootDoneReadable ==
  ASSUME OneCaller, OneSession, TypeInv, ReadInv, NEW a \in Actors, BootDone(a) PROVE ReadInv'
<1> DEFINE s == ServiceOf[a]
<1>1. /\ pc[a] = "boot_done" /\ UNCHANGED <<env, vault, up, op, blob>>
  BY DEF BootDone, diskVars, callVars
<1>2. pc'[a] = "idle" /\ \A b \in Actors \ {a} : pc'[b] = pc[b]
  BY Moves DEF TypeInv, BootDone, Pcs
<1>3. op[a] = "boot" /\ Boots(a) /\ s \in up /\ s \notin Clis
  BY <1>1 DEF ReadInv, CallsInv, BootsOnly, Running, ViewBoots, Boots, Writing
<1>4. \A b \in Actors : pc[b] = "boot_guard" \/ Boots(b) \/ Keying(b) => b = a
  BY <1>3, OneBoots
<1>5. /\ master'[s] = blob[a].key /\ ~Unlocked(s)'
      /\ \A r \in Services \ {s} : master'[r] = master[r] /\ secrets'[r] = secrets[r]
  BY ActorAssumption DEF BootDone, TypeInv, TypeOK, Unlocked
<1>k. env = blob[a].key /\ env \in Keys
  <2>1. blob[a] \in Vaults /\ blob[a].kind = "blob"
    BY <1>1 DEF TypeInv, TypeOK, Sealed, Writing
  <2>2. env = blob[a].key BY <1>1, <1>3 DEF ReadInv, FilesInv, NewKey
  <2> QED BY <2>1, <2>2, VaultKinds
<1>u. up \subseteq Services BY DEF TypeInv, TypeOK
<1>6. KeysInv'
  <2>1. InStep' BY <1>1, <1>5, <1>u DEF ReadInv, KeysInv, InStep, Unlocked
  <2>2. NoKeyYet' BY <1>1, <1>k, KeyAssumption DEF NoKeyYet
  <2>3. KeyOfFile' BY <1>1, <1>5, <1>k, <1>u DEF ReadInv, KeysInv, KeyOfFile
  <2> QED BY <2>1, <2>2, <2>3 DEF KeysInv
<1>7. CallsInv'
  <2>1. Running' /\ BootsOnly' BY <1>1, <1>2 DEF ReadInv, CallsInv, Running, BootsOnly
  <2>2. ViewBoots' BY <1>1, <1>2 DEF ReadInv, CallsInv, ViewBoots, Boots, Writing
  <2>3. WritesOwn'
    <3>1. ASSUME NEW b \in Actors, Writes(b)' PROVE Writes(b) /\ ServiceOf[b] \in Services \ {s}
      BY <1>1, <1>2, <3>1, ActorAssumption DEF Writes, OneCaller
    <3> QED BY <1>1, <1>5, <3>1 DEF ReadInv, CallsInv, WritesOwn, Unlocked
  <2> QED BY <2>1, <2>2, <2>3 DEF CallsInv
<1>8. FilesInv'
  <2>1. \A b \in Actors : ~Keying(b)' BY <1>1, <1>2, <1>4 DEF Keying
  <2>2. Locks' /\ HalfThere' BY <2>1 DEF Locks, HalfThere, Keying
  <2>3. FirstFile'
    <3>1. \A r \in up : Unlocked(r)' => Unlocked(r) BY <1>5, <1>u DEF Unlocked
    <3> QED BY <1>1, <1>2, <3>1 DEF ReadInv, FilesInv, FirstFile, VaultExists
  <2>4. TornEnv' BY <1>1, <1>k, <2>1, KeyAssumption DEF TornEnv, Keying
  <2>5. NewKey' BY <1>1, <1>2, <1>4 DEF NewKey, Boots, Writing
  <2>6. ViewKey' BY <1>1, <1>3, <1>5, <1>k DEF ViewKey, OneSession
  <2>7. Together' BY <1>1, <1>2 DEF ReadInv, FilesInv, Together, VaultExists, EnvExists
  <2> QED BY <2>2, <2>3, <2>4, <2>5, <2>6, <2>7 DEF FilesInv
<1> QED BY <1>6, <1>7, <1>8 DEF ReadInv

\* While somebody writes vault.json, nobody is before the new key.
LEMMA NobodyKeying ==
  ASSUME OneSession, TypeInv, ReadInv, NEW a \in Actors, pc[a] \in {"vault_open", "vault_write"}
  PROVE  \A b \in Actors : ~Keying(b)
<1> DEFINE s == ServiceOf[a]
<1>1. s \in up BY DEF ReadInv, CallsInv, Running
<1>2. CASE op[a] = "boot"
  <2>1. Boots(a) BY <1>2 DEF Boots, Writing
  <2>2. s \notin Clis BY <2>1 DEF ReadInv, CallsInv, ViewBoots
  <2> QED BY <2>2, OneBoots DEF Keying
<1>3. CASE op[a] # "boot"
  <2>1. Unlocked(s) BY <1>3 DEF ReadInv, CallsInv, WritesOwn, Writes
  <2> QED BY <1>1, <2>1 DEF ReadInv, FilesInv, Locks
<1> QED BY <1>2, <1>3

LEMMA VaultOpenReadable ==
  ASSUME OneSession, TypeInv, ReadInv, NEW a \in Actors, VaultOpen(a) PROVE ReadInv'
<1>1. /\ pc[a] = "vault_open" /\ vault' = Torn
      /\ UNCHANGED <<env, up, master, secrets, op, blob>>
  BY DEF VaultOpen, callVars
<1>2. pc'[a] = "vault_write" /\ \A b \in Actors \ {a} : pc'[b] = pc[b]
  BY Moves DEF TypeInv, VaultOpen, Pcs
<1>3. vault'.kind = "torn" /\ VaultExists' BY <1>1, VaultKinds DEF VaultExists
<1>4. \A b \in Actors : ~Keying(b)' BY <1>1, <1>2, NobodyKeying DEF Keying
<1>5. KeysInv'
  BY <1>1, <1>3 DEF ReadInv, KeysInv, InStep, NoKeyYet, KeyOfFile, Unlocked
<1>6. CallsInv'
  <2>1. Running' /\ BootsOnly' BY <1>1, <1>2 DEF ReadInv, CallsInv, Running, BootsOnly
  <2>2. ViewBoots' BY <1>1, <1>2 DEF ReadInv, CallsInv, ViewBoots, Boots, Writing
  <2>3. WritesOwn' BY <1>1, <1>2 DEF ReadInv, CallsInv, WritesOwn, Writes, Unlocked
  <2> QED BY <2>1, <2>2, <2>3 DEF CallsInv
<1>7. FilesInv'
  <2>1. Locks' /\ HalfThere' BY <1>4 DEF Locks, HalfThere, Keying
  <2>2. FirstFile' BY <1>3 DEF FirstFile
  <2>3. TornEnv' BY <1>1, <1>2 DEF ReadInv, FilesInv, TornEnv
  <2>4. NewKey' BY <1>1, <1>2 DEF ReadInv, FilesInv, NewKey, Boots, Writing
  <2>5. ViewKey' BY <1>1, <1>2 DEF ReadInv, FilesInv, ViewKey, Boots, Writing
  <2>6. Together' BY <1>2 DEF Together
  <2> QED BY <2>1, <2>2, <2>3, <2>4, <2>5, <2>6 DEF FilesInv
<1> QED BY <1>5, <1>6, <1>7 DEF ReadInv

\* What is written is encrypted with the key in .secrets/.env, by whoever writes it.
LEMMA VaultWriteReadable ==
  ASSUME OneSession, TypeInv, ReadInv, NEW a \in Actors, VaultWrite(a) PROVE ReadInv'
<1> DEFINE s == ServiceOf[a]
<1>1. /\ pc[a] = "vault_write" /\ vault' = blob[a]
      /\ UNCHANGED <<env, up, master, secrets, op, blob>>
  BY DEF VaultWrite, callVars
<1>2. /\ pc'[a] = IF op[a] = "boot" THEN "boot_done" ELSE "idle"
      /\ \A b \in Actors \ {a} : pc'[b] = pc[b]
  BY Moves DEF TypeInv, VaultWrite, Pcs
<1>3. vault'.kind = "blob" /\ VaultExists' /\ s \in up
  BY <1>1 DEF TypeInv, Sealed, Writing, VaultExists, ReadInv, CallsInv, Running
<1>4. \A b \in Actors : ~Keying(b)' BY <1>1, <1>2, NobodyKeying DEF Keying
<1>k. vault'.key = env
  <2>1. CASE op[a] = "boot" BY <1>1, <2>1 DEF ReadInv, FilesInv, NewKey, Boots, Writing
  <2>2. CASE op[a] # "boot"
    BY <1>1, <1>3, <2>2 DEF ReadInv, CallsInv, WritesOwn, Writes, KeysInv, InStep
  <2> QED BY <2>1, <2>2
<1>5. KeysInv'
  BY <1>1, <1>k DEF ReadInv, KeysInv, InStep, NoKeyYet, KeyOfFile, Unlocked
<1>6. CallsInv'
  <2>1. Running' /\ BootsOnly' BY <1>1, <1>2 DEF ReadInv, CallsInv, Running, BootsOnly
  <2>2. ViewBoots' BY <1>1, <1>2 DEF ReadInv, CallsInv, ViewBoots, Boots, Writing
  <2>3. WritesOwn' BY <1>1, <1>2 DEF ReadInv, CallsInv, WritesOwn, Writes, Unlocked
  <2> QED BY <2>1, <2>2, <2>3 DEF CallsInv
<1>7. FilesInv'
  <2>1. Locks' /\ HalfThere' BY <1>4 DEF Locks, HalfThere, Keying
  <2>2. FirstFile' BY <1>3 DEF FirstFile
  <2>3. TornEnv' BY <1>1, <1>2 DEF ReadInv, FilesInv, TornEnv
  <2>4. NewKey' BY <1>1, <1>2 DEF ReadInv, FilesInv, NewKey, Boots, Writing
  <2>5. ViewKey' BY <1>1, <1>2 DEF ReadInv, FilesInv, ViewKey, Boots, Writing
  <2>6. Together' BY <1>1, <1>3, <1>k DEF Together
  <2> QED BY <2>1, <2>2, <2>3, <2>4, <2>5, <2>6 DEF FilesInv
<1> QED BY <1>5, <1>6, <1>7 DEF ReadInv

\* A write by a service that is unlocked with the key in .secrets/.env.
LEMMA StartsReadable ==
  ASSUME OneSession, TypeInv, ReadInv, NEW a \in Actors, NEW o \in {"unlock", "save"},
         NEW d \in SUBSET Secrets, Idle(a), Unlocked(ServiceOf[a])',
         env = master[ServiceOf[a]], env \in Keys,
         StartWrite(a, o, Blob(master[ServiceOf[a]], d)),
         UNCHANGED <<env, vault, up, master>>,
         \A r \in Services \ {ServiceOf[a]} : secrets'[r] = secrets[r],
         \A b \in Actors : ~Keying(b),
         VaultExists \/ (o = "unlock" /\ ServiceOf[a] \notin Clis)
  PROVE  ReadInv'
<1> DEFINE s == ServiceOf[a]
<1>1. pc[a] = "idle" /\ s \in up /\ s \in Services /\ up \subseteq Services
  BY ActorAssumption DEF Idle, TypeInv, TypeOK
<1>2. /\ pc'[a] = "vault_open" /\ op'[a] = o /\ blob'[a] = Blob(master[s], d)
      /\ \A b \in Actors \ {a} : pc'[b] = pc[b] /\ op'[b] = op[b] /\ blob'[b] = blob[b]
  BY StartsWrite
<1>3. blob'[a].key = master[s] BY <1>2, VaultKinds
<1>4. \A b \in Actors : ~Keying(b)' BY <1>2 DEF Keying
<1>5. \A r \in Services : Unlocked(r) => Unlocked(r)' BY DEF Unlocked
<1>6. KeysInv'
  <2>1. InStep' BY <1>1 DEF ReadInv, KeysInv, InStep, Unlocked
  <2> QED BY <2>1 DEF ReadInv, KeysInv, NoKeyYet, KeyOfFile
<1>7. CallsInv'
  <2>1. Running' /\ BootsOnly' BY <1>1, <1>2 DEF ReadInv, CallsInv, Running, BootsOnly
  <2>2. ViewBoots' BY <1>1, <1>2 DEF ReadInv, CallsInv, ViewBoots, Boots, Writing
  <2>3. ASSUME NEW b \in Actors, Writes(b)'
        PROVE  Unlocked(ServiceOf[b])' /\ blob'[b].key = master'[ServiceOf[b]]
    <3>1. CASE b = a BY <1>3, <3>1
    <3>2. CASE b # a
      <4>1. Writes(b) /\ ServiceOf[b] \in Services
        BY <1>2, <2>3, <3>2, ActorAssumption DEF Writes
      <4> QED BY <1>2, <1>5, <3>2, <4>1 DEF ReadInv, CallsInv, WritesOwn
    <3> QED BY <3>1, <3>2
  <2>4. WritesOwn' BY <2>3 DEF WritesOwn
  <2> QED BY <2>1, <2>2, <2>4 DEF CallsInv
<1>8. FilesInv'
  <2>1. Locks' /\ HalfThere' BY <1>4 DEF Locks, HalfThere, Keying
  <2>2. FirstFile'
    <3>1. CASE VaultExists BY <3>1 DEF FirstFile, VaultExists
    <3>2. CASE o = "unlock" /\ s \notin Clis
      <4>1. ASSUME NEW r \in up, r # s, Unlocked(r)' PROVE VaultExists'
        <5>1. Unlocked(r) BY <1>1, <4>1 DEF Unlocked
        <5>2. ASSUME NEW b \in Actors, ServiceOf[b] = r, r \notin Clis PROVE FALSE
          BY <3>2, <4>1, <5>2 DEF OneSession
        <5> QED BY <5>1, <5>2 DEF ReadInv, FilesInv, FirstFile, VaultExists
      <4> QED BY <1>2, <3>2, <4>1 DEF FirstFile
    <3> QED BY <3>1, <3>2
  <2>3. TornEnv' BY <1>4, KeyAssumption DEF TornEnv, Keying
  <2>4. NewKey' BY <1>1, <1>2 DEF ReadInv, FilesInv, NewKey, Boots, Writing
  <2>5. ViewKey' BY <1>1, <1>2 DEF ReadInv, FilesInv, ViewKey, Boots, Writing
  <2>6. Together' BY <1>1, <1>2 DEF ReadInv, FilesInv, Together, VaultExists, EnvExists
  <2> QED BY <2>1, <2>2, <2>3, <2>4, <2>5, <2>6 DEF FilesInv
<1> QED BY <1>6, <1>7, <1>8 DEF ReadInv

LEMMA UnlockReadable ==
  ASSUME OneCaller, OneSession, TypeInv, ReadInv, NEW a \in Actors, Unlock(a) PROVE ReadInv'
<1> DEFINE s == ServiceOf[a]
<1>1. /\ Idle(a) /\ pc[a] = "idle" /\ s \in up /\ s \in Services /\ up \subseteq Services
      /\ master[s] \in Keys /\ UNCHANGED <<env, vault, up, master>>
  BY ActorAssumption DEF Unlock, Idle, diskVars, TypeInv, TypeOK
<1>2. CASE VaultExists
  <2>1. /\ secrets' = [secrets EXCEPT ![s] = vault.data] /\ UNCHANGED <<pc, op, blob>>
        /\ vault.kind = "blob" /\ vault.key = master[s]
    BY <1>2 DEF Unlock, callVars
  <2>2. env = master[s] BY <1>1, <2>1 DEF ReadInv, KeysInv, KeyOfFile
  <2>3. /\ \A r \in Services \ {s} : secrets'[r] = secrets[r]
        /\ vault.data # Locked /\ secrets'[s] = vault.data
    BY <1>1, <2>1, VaultKinds, KeyAssumption DEF TypeInv, TypeOK
  <2>4. \A r \in Services : Unlocked(r) => Unlocked(r)' BY <2>3 DEF Unlocked
  <2>5. \A b \in Actors : ~Keying(b)
    BY <1>1, <1>2, <2>2, KeyAssumption DEF ReadInv, FilesInv, HalfThere, TornEnv, EnvExists, Keying
  <2>6. KeysInv'
    <3>1. InStep' BY <1>1, <2>2, <2>3 DEF ReadInv, KeysInv, InStep, Unlocked
    <3> QED BY <1>1, <3>1 DEF ReadInv, KeysInv, NoKeyYet, KeyOfFile
  <2>7. CallsInv'
    <3>1. WritesOwn'
      BY <1>1, <2>1, <2>4, ActorAssumption DEF ReadInv, CallsInv, WritesOwn, Writes
    <3> QED BY <1>1, <2>1, <3>1
          DEF ReadInv, CallsInv, Running, BootsOnly, ViewBoots, Boots
  <2>8. FilesInv'
    <3>1. Locks' /\ HalfThere' BY <2>1, <2>5 DEF Locks, HalfThere, Keying
    <3>2. FirstFile' BY <1>1, <1>2 DEF FirstFile, VaultExists
    <3> QED BY <1>1, <2>1, <3>1, <3>2
          DEF ReadInv, FilesInv, TornEnv, NewKey, ViewKey, Together, Boots, VaultExists, EnvExists
  <2> QED BY <2>6, <2>7, <2>8 DEF ReadInv
<1>3. CASE ~VaultExists
  <2>1. /\ secrets' = [secrets EXCEPT ![s] = {}] /\ s \notin Clis
        /\ StartWrite(a, "unlock", Blob(master[s], {}))
    BY <1>3 DEF Unlock
  <2>2. /\ \A r \in Services \ {s} : secrets'[r] = secrets[r]
        /\ Unlocked(s)'
    BY <1>1, <2>1, KeyAssumption DEF TypeInv, TypeOK, Unlocked
  <2>3. env = master[s] /\ env \in Keys
    BY <1>1, <2>1, KeyAssumption DEF ReadInv, FilesInv, ViewKey, Boots, Writing
  <2>4. \A b \in Actors : ~Keying(b) BY <1>1, <2>1, OneBoots DEF Keying
  <2> QED BY <1>1, <2>1, <2>2, <2>3, <2>4, StartsReadable
<1> QED BY <1>2, <1>3

LEMMA SaveReadable ==
  ASSUME OneCaller, OneSession, TypeInv, ReadInv, NEW a \in Actors, Save(a) PROVE ReadInv'
<1> DEFINE s == ServiceOf[a]
<1>1. /\ Idle(a) /\ pc[a] = "idle" /\ s \in up /\ s \in Services /\ Unlocked(s)
      /\ UNCHANGED <<env, vault, up, master, secrets>>
      /\ StartWrite(a, "save", Blob(master[s], secrets[s]))
  BY ActorAssumption DEF Save, Idle, diskVars
<1>2. secrets[s] \in SUBSET Secrets /\ master[s] \in Keys BY <1>1, UnlockedHas
<1>3. env = master[s] /\ env \in Keys BY <1>1, <1>2 DEF ReadInv, KeysInv, InStep
<1>4. \A b \in Actors : ~Keying(b) BY <1>1 DEF ReadInv, FilesInv, Locks
<1>5. VaultExists
  <2>1. \A b \in Actors : ServiceOf[b] = s => pc[b] # "vault_open" BY <1>1 DEF OneCaller
  <2> QED BY <1>1, <2>1 DEF ReadInv, FilesInv, FirstFile
<1>6. Unlocked(s)' BY <1>1 DEF Unlocked
<1> QED BY <1>1, <1>2, <1>3, <1>4, <1>5, <1>6, StartsReadable

\* Lock, and a change of the secrets in memory, of a service nobody else calls.
LEMMA InMemoryReadable ==
  ASSUME OneCaller, TypeInv, ReadInv, NEW a \in Actors,
         Lock(a) \/ \E n \in Secrets : Set(a, n) \/ Delete(a, n)
  PROVE  ReadInv'
<1> DEFINE s == ServiceOf[a]
<1>1. /\ pc[a] = "idle" /\ s \in up /\ s \in Services /\ Unlocked(s)
      /\ UNCHANGED <<env, vault, up, master, pc, op, blob>>
  BY ActorAssumption DEF Lock, Set, Delete, Idle, diskVars, callVars
<1>2. /\ \A r \in Services \ {s} : secrets'[r] = secrets[r]
      /\ up \subseteq Services
  BY <1>1 DEF Lock, Set, Delete, TypeInv, TypeOK
<1>3. \A r \in up : Unlocked(r)' => Unlocked(r) BY <1>1, <1>2 DEF Unlocked
<1>4. KeysInv' BY <1>1, <1>3 DEF ReadInv, KeysInv, InStep, NoKeyYet, KeyOfFile
<1>5. CallsInv'
  <2>1. ASSUME NEW b \in Actors, Writes(b)'
        PROVE  Writes(b) /\ ServiceOf[b] \in Services \ {s}
    BY <1>1, <2>1, ActorAssumption DEF Writes, OneCaller
  <2>2. WritesOwn' BY <1>1, <1>2, <2>1 DEF ReadInv, CallsInv, WritesOwn, Unlocked
  <2> QED BY <1>1, <2>2 DEF ReadInv, CallsInv, Running, BootsOnly, ViewBoots, Boots
<1>6. FilesInv'
  <2>1. Locks' BY <1>1, <1>3 DEF ReadInv, FilesInv, Locks, Keying
  <2>2. FirstFile' BY <1>1, <1>3 DEF ReadInv, FilesInv, FirstFile, VaultExists
  <2> QED BY <1>1, <2>1, <2>2
        DEF ReadInv, FilesInv, HalfThere, TornEnv, NewKey, ViewKey, Together, Boots,
            VaultExists, EnvExists
<1> QED BY <1>4, <1>5, <1>6 DEF ReadInv

LEMMA LaunchReadable ==
  ASSUME OneSession, TypeInv, ReadInv, NEW s \in Services, Launch(s) PROVE ReadInv'
<1>1. /\ s \notin up /\ up' = up \cup {s}
      /\ UNCHANGED <<env, vault, pc, op, blob>>
  BY DEF Launch, diskVars, callVars
<1>2. /\ master'[s] = IF env \in Keys THEN env ELSE NoKey
      /\ ~Unlocked(s)'
      /\ \A r \in Services \ {s} : master'[r] = master[r] /\ secrets'[r] = secrets[r]
  BY DEF Launch, TypeInv, TypeOK, Unlocked
<1>3. up \subseteq Services /\ env \in {"none", "torn"} \cup Keys BY DEF TypeInv, TypeOK
<1>4. \A a \in Actors : ServiceOf[a] = s => pc[a] = "idle"
  BY <1>1 DEF ReadInv, CallsInv, Running
<1>5. \A r \in up' : Unlocked(r)' => r \in up /\ r # s /\ Unlocked(r)
  BY <1>1, <1>2, <1>3 DEF Unlocked
<1>6. KeysInv'
  <2>1. InStep' BY <1>1, <1>2, <1>3, <1>5 DEF ReadInv, KeysInv, InStep
  <2>2. NoKeyYet' BY <1>1, <1>2, <1>3, KeyAssumption DEF ReadInv, KeysInv, NoKeyYet
  <2>3. vault.kind = "blob" => vault.key \in Keys BY VaultKinds DEF TypeInv, TypeOK
  <2>4. KeyOfFile'
    BY <1>1, <1>2, <1>3, <2>3, KeyAssumption DEF ReadInv, KeysInv, KeyOfFile
  <2> QED BY <2>1, <2>2, <2>4 DEF KeysInv
<1>7. CallsInv'
  <2>1. ASSUME NEW b \in Actors, Writes(b)'
        PROVE  Writes(b) /\ ServiceOf[b] \in Services \ {s}
    BY <1>1, <1>4, <2>1, ActorAssumption DEF Writes
  <2>2. WritesOwn' BY <1>1, <1>2, <2>1 DEF ReadInv, CallsInv, WritesOwn, Unlocked
  <2> QED BY <1>1, <2>2 DEF ReadInv, CallsInv, Running, BootsOnly, ViewBoots, Boots
<1>8. FilesInv'
  <2>1. Locks' BY <1>1, <1>5 DEF ReadInv, FilesInv, Locks, Keying
  <2>2. FirstFile' BY <1>1, <1>5 DEF ReadInv, FilesInv, FirstFile, VaultExists
  <2>3. ASSUME NEW a \in Actors, ServiceOf[a] \in up' \ Clis
        PROVE  \/ Boots(a)' /\ pc'[a] # "env_open"
               \/ env' = "none" /\ master'[ServiceOf[a]] = NoKey
               \/ env' \in Keys /\ env' = master'[ServiceOf[a]]
    <3>1. CASE ServiceOf[a] = s
      <4>1. env # "torn"
        <5>1. ASSUME NEW b \in Actors, pc[b] = "env_write" PROVE FALSE
          <6>1. Boots(b) BY <5>1 DEF ReadInv, CallsInv, BootsOnly, Boots, Writing
          <6>2. ServiceOf[b] \notin Clis BY <6>1 DEF ReadInv, CallsInv, ViewBoots
          <6>3. b = a BY <2>3, <6>2 DEF OneSession
          <6> QED BY <1>4, <3>1, <5>1, <6>3
        <5> QED BY <5>1 DEF ReadInv, FilesInv, TornEnv
      <4> QED BY <1>1, <1>2, <1>3, <3>1, <4>1, KeyAssumption
    <3>2. CASE ServiceOf[a] # s
      <4>1. ServiceOf[a] \in up \ Clis /\ ServiceOf[a] \in Services \ {s}
        BY <1>1, <1>3, <2>3, <3>2
      <4> QED BY <1>1, <1>2, <4>1 DEF ReadInv, FilesInv, ViewKey, Boots
    <3> QED BY <3>1, <3>2
  <2>4. ViewKey' BY <2>3 DEF ViewKey
  <2> QED BY <1>1, <2>1, <2>2, <2>4
        DEF ReadInv, FilesInv, HalfThere, TornEnv, NewKey, Together, Boots, VaultExists, EnvExists
<1> QED BY <1>6, <1>7, <1>8 DEF ReadInv

\* A process that ends in no call.
LEMMA ExitReadable ==
  ASSUME TypeInv, ReadInv, NEW s \in Services, Exit(s), ~faulted' PROVE ReadInv'
<1>1. /\ up' = up \ {s} /\ pc' = pc
      /\ UNCHANGED <<env, vault, master, secrets, op, blob>>
      /\ pc' = [a \in Actors |-> IF ServiceOf[a] = s THEN "idle" ELSE pc[a]]
  BY DEF Exit, diskVars, callVars
<1>2. \A a \in Actors : ServiceOf[a] = s => pc[a] = "idle" BY <1>1
<1>3. \A r \in up' : r \in up /\ (Unlocked(r)' <=> Unlocked(r)) BY <1>1 DEF Unlocked
<1>4. KeysInv' BY <1>1, <1>3 DEF ReadInv, KeysInv, InStep, NoKeyYet, KeyOfFile
<1>5. CallsInv'
  BY <1>1, <1>2 DEF ReadInv, CallsInv, Running, BootsOnly, ViewBoots, WritesOwn, Boots, Writes,
                    Unlocked
<1>6. FilesInv'
  <2>1. Locks' BY <1>1, <1>3 DEF ReadInv, FilesInv, Locks, Keying
  <2>2. FirstFile' BY <1>1, <1>3 DEF ReadInv, FilesInv, FirstFile, VaultExists
  <2>3. ViewKey' BY <1>1 DEF ReadInv, FilesInv, ViewKey, Boots
  <2> QED BY <1>1, <2>1, <2>2, <2>3
        DEF ReadInv, FilesInv, HalfThere, TornEnv, NewKey, Together, Boots, VaultExists, EnvExists
<1> QED BY <1>4, <1>5, <1>6 DEF ReadInv

LEMMA NextReadable ==
  ASSUME OneCaller, OneSession, TypeInv, ~faulted => ReadInv, [Next]_vars
  PROVE  ~faulted' => ReadInv'
<1> SUFFICES ASSUME ~faulted' PROVE ReadInv' OBVIOUS
<1>1. ASSUME NEW a \in Actors, BootStep(a) PROVE ReadInv'
  <2>1. ~EnvWriteFails(a) /\ ReadInv
    BY <1>1 DEF BootStep, BootRefused, BootGuard, EnvOpen, EnvWrite, EnvWriteFails, BootDone,
                history
  <2>2. ~BootRefused(a) BY <2>1 DEF BootRefused, ReadInv, FilesInv, HalfThere
  <2> QED BY <1>1, <2>1, <2>2, BootGuardReadable, EnvOpenReadable, EnvWriteReadable,
             BootDoneReadable DEF BootStep
<1>2. ASSUME NEW a \in Actors, WriteStep(a) PROVE ReadInv'
  <2>1. ~VaultWriteFails(a) /\ ReadInv
    BY <1>2 DEF WriteStep, VaultOpen, VaultWrite, VaultWriteFails, history
  <2> QED BY <1>2, <2>1, VaultOpenReadable, VaultWriteReadable DEF WriteStep
<1>3. ASSUME NEW a \in Actors, Request(a) PROVE ReadInv'
  <2>1. ReadInv
    BY <1>3 DEF Request, OpenView, Unlock, Lock, Save, Set, Delete, history
  <2> QED BY <1>3, <2>1, OpenViewReadable, UnlockReadable, SaveReadable,
             InMemoryReadable DEF Request
<1>4. ASSUME NEW s \in Services, Launch(s) \/ Exit(s) PROVE ReadInv'
  <2>1. ReadInv BY <1>4 DEF Launch, Exit, history
  <2> QED BY <1>4, <2>1, LaunchReadable, ExitReadable
<1>5. CASE UNCHANGED vars
  <2>1. ReadInv BY <1>5 DEF vars
  <2>2. KeysInv' BY <1>5, <2>1 DEF vars, ReadInv, KeysInv, InStep, NoKeyYet, KeyOfFile, Unlocked
  <2>3. CallsInv'
    BY <1>5, <2>1 DEF vars, ReadInv, CallsInv, Running, BootsOnly, ViewBoots, WritesOwn, Boots,
                      Writes, Unlocked
  <2>4. FilesInv'
    BY <1>5, <2>1 DEF vars, ReadInv, FilesInv, Locks, HalfThere, FirstFile, TornEnv, NewKey,
                      ViewKey, Together, Boots, Keying, VaultExists, EnvExists, Unlocked
  <2> QED BY <2>2, <2>3, <2>4 DEF ReadInv
<1> QED BY <1>1, <1>2, <1>3, <1>4, <1>5 DEF Next

\* With one application, and one caller for each service, any number of
\* flex-encrypt commands, keys and secrets: until a process dies in a call or the
\* disk fails, the key on disk decrypts the vault on disk whenever nobody is
\* writing, and is the key of every service that is unlocked.
THEOREM Readable == ASSUME OneCaller, OneSession PROVE Spec => []VaultReadable
<1> DEFINE RInv == TypeInv /\ (~faulted => ReadInv)
<1>1. Init => RInv BY InitTypeInv, InitReadable
<1>2. RInv /\ [Next]_vars => RInv' BY NextTypeInv, NextReadable
<1>3. RInv => VaultReadable
  <2>1. faulted => VaultReadable BY DEF VaultReadable
  <2> QED BY <2>1, ReadableFollows
<1> QED BY <1>1, <1>2, <1>3, PTL DEF Spec
=============================================================================
