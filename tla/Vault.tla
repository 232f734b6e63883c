-------------------------------- MODULE Vault --------------------------------
(***************************************************************************)
(* The encrypted vault: VaultService in memory, and its two files on disk, *)
(* .secrets/.env with the keys and .secrets/vault.json with the secrets.   *)
(*                                                                         *)
(* A service is one VaultService object, in a process of its own: the      *)
(* application's, which all browser sessions share, or that of a           *)
(* flex-encrypt command.  An actor is a thread that calls a service: the   *)
(* handlers of all sessions are synchronous and run one after the other in *)
(* the event loop of the application, which makes them one actor.  A file  *)
(* is written in two steps, open(path, "w") and the write, and the process *)
(* may die or the disk may fail at either.                                 *)
(*                                                                         *)
(* Abstracted: the value of a secret (a secret is there or it is not), and *)
(* the pair of master and confirm key, generated and stored together, is   *)
(* one key.  The keys come from the file only: VAULT_MASTER_KEY is not set *)
(* in the environment of the process.                                      *)
(***************************************************************************)
EXTENDS Naturals, FiniteSets

CONSTANTS
  Actors,     \* threads that call a service
  Services,   \* VaultService objects
  ServiceOf,  \* the service an actor calls
  Clis,       \* the services of flex-encrypt commands
  Secrets,    \* names of secrets
  Keys,       \* keys that generate_key can produce: bounds the bootstraps
  NoKey,      \* the empty string
  Locked,     \* self._secrets is None
  Faults      \* "crash": a process dies at any time, "io": the disk fails

ASSUME ActorAssumption == ServiceOf \in [Actors -> Services] /\ Clis \subseteq Services
ASSUME KeyAssumption   ==
  Keys \cap {NoKey, "none", "torn"} = {} /\ \A d \in SUBSET Secrets : d # Locked
ASSUME FaultAssumption == Faults \subseteq {"crash", "io"}

VARIABLES
  env,       \* .secrets/.env: "none", "torn" (truncated), or the key it holds
  vault,     \* vault.json: its kind, "none", "torn" or "blob", and for a blob
             \*   the key it is encrypted with and the secrets in it
  used,      \* keys generated so far
  up,        \* the services whose process runs
  master,    \* per service: self._master_key
  secrets,   \* per service: self._secrets
  pc,        \* per actor: the next step of its call
  op,        \* per actor: "boot", "unlock" or "save", while it writes
  blob,      \* per actor: what it is about to write to vault.json
  kept,      \* history: secrets saved, and neither deleted by anybody since nor
             \*   overwritten from an older snapshot
  bare,      \* history: of those, the ones that came in a vault.json without
             \*   .secrets/.env, and have not been saved since
  fresh,     \* history: services whose snapshot has all that was saved
  faulted    \* history: a process died in a call, or the disk failed

diskVars == <<env, vault>>
callVars == <<op, blob>>
history  == <<kept, bare, fresh, faulted>>
vars == <<env, vault, used, up, master, secrets, pc, op, blob, kept, bare, fresh, faulted>>

NoVault == [kind |-> "none", key |-> NoKey, data |-> {}]
Torn    == [kind |-> "torn", key |-> NoKey, data |-> {}]
Blob(k, d) == [kind |-> "blob", key |-> k, data |-> d]
Vaults  == {NoVault, Torn} \cup {Blob(k, d) : k \in Keys, d \in SUBSET Secrets}

Pcs == {"idle", "boot_guard", "env_open", "env_write", "vault_open", "vault_write", "boot_done"}

TypeOK ==
  /\ env \in {"none", "torn"} \cup Keys
  /\ vault \in Vaults
  /\ used \in SUBSET Keys
  /\ up \in SUBSET Services
  /\ master \in [Services -> Keys \cup {NoKey}]
  /\ secrets \in [Services -> {Locked} \cup SUBSET Secrets]
  /\ pc \in [Actors -> Pcs]
  /\ op \in [Actors -> {"boot", "unlock", "save"}]
  /\ blob \in [Actors -> Vaults]
  /\ kept \in SUBSET Secrets /\ bare \in SUBSET Secrets
  /\ fresh \in SUBSET Services /\ faulted \in BOOLEAN

\* Nothing there yet, only the settings file, both files, or a vault.json that
\* came without .secrets/.env, which is not under version control.
Init ==
  /\ \E k \in Keys, d \in SUBSET Secrets :
       /\ used = {k}
       /\ env \in {"none", k}
       /\ vault \in {NoVault, Blob(k, d)}
       /\ kept = IF vault.kind = "blob" THEN d ELSE {}
       /\ bare = IF env = "none" THEN kept ELSE {}
  /\ up = {}
  /\ master = [s \in Services |-> NoKey]
  /\ secrets = [s \in Services |-> Locked]
  /\ pc = [a \in Actors |-> "idle"]
  /\ op = [a \in Actors |-> "save"]
  /\ blob = [a \in Actors |-> NoVault]
  /\ fresh = {} /\ faulted = FALSE

-----------------------------------------------------------------------------
VaultExists == vault.kind # "none"
EnvExists   == env # "none"

\* "ready" in the answer to status
Ready(s) == VaultExists /\ master[s] # NoKey

Unlocked(s) == secrets[s] # Locked

Idle(a) == pc[a] = "idle" /\ ServiceOf[a] \in up

Goto(a, l) == pc' = [pc EXCEPT ![a] = l]

\* Mutant of Launch: takes what there is of the file for a key.
LaunchTorn(s) ==
  /\ s \notin up
  /\ up' = up \cup {s}
  /\ master' = [master EXCEPT ![s] = IF env = "none" THEN NoKey ELSE env]
  /\ secrets' = [secrets EXCEPT ![s] = Locked]
  /\ UNCHANGED <<diskVars, used, pc, callVars, history>>

\* A process starts: the constructor reads the keys from the file.
Launch(s) ==
  /\ s \notin up
  /\ up' = up \cup {s}
  /\ master' = [master EXCEPT ![s] = IF env \in Keys THEN env ELSE NoKey]
  /\ secrets' = [secrets EXCEPT ![s] = Locked]
  /\ UNCHANGED <<diskVars, used, pc, callVars, history>>

\* A process ends, between calls, or anywhere if it may crash.
Exit(s) ==
  /\ s \in up
  /\ "crash" \notin Faults => \A a \in Actors : ServiceOf[a] = s => pc[a] = "idle"
  /\ up' = up \ {s}
  /\ pc' = [a \in Actors |-> IF ServiceOf[a] = s THEN "idle" ELSE pc[a]]
  /\ faulted' = (faulted \/ pc' # pc)
  /\ UNCHANGED <<diskVars, used, master, secrets, callVars, kept, bare, fresh>>

-----------------------------------------------------------------------------
(* VaultStore.save *)

StartWrite(a, o, b) ==
  /\ op' = [op EXCEPT ![a] = o]
  /\ blob' = [blob EXCEPT ![a] = b]
  /\ Goto(a, "vault_open")

\* open(path, "w") truncates the file
VaultOpen(a) ==
  /\ pc[a] = "vault_open"
  /\ vault' = Torn
  /\ Goto(a, "vault_write")
  /\ UNCHANGED <<env, used, up, master, secrets, callVars, history>>

\* json.dump, flush and fsync; a save is then answered with success
VaultWrite(a) ==
  /\ pc[a] = "vault_write"
  /\ vault' = blob[a]
  /\ Goto(a, IF op[a] = "boot" THEN "boot_done" ELSE "idle")
  /\ IF op[a] = "boot"
       THEN UNCHANGED <<kept, bare, fresh>>
       ELSE /\ kept' = (IF ServiceOf[a] \in fresh THEN kept ELSE {}) \cup blob[a].data
            /\ bare' = bare \ blob[a].data
            /\ fresh' = {ServiceOf[a]}
  /\ UNCHANGED <<env, used, up, master, secrets, callVars, faulted>>

\* IOError at either step: RuntimeError, and the call fails
VaultWriteFails(a) ==
  /\ "io" \in Faults
  /\ pc[a] \in {"vault_open", "vault_write"}
  /\ Goto(a, "idle")
  /\ faulted' = TRUE
  /\ UNCHANGED <<diskVars, used, up, master, secrets, callVars, kept, bare, fresh>>

-----------------------------------------------------------------------------
(* bootstrap, as the security view calls it: SecurityView._resolve_state *)

OpenView(a) ==
  /\ Idle(a) /\ ServiceOf[a] \notin Clis
  /\ ~Ready(ServiceOf[a])
  /\ Goto(a, "boot_guard")
  /\ UNCHANGED <<diskVars, used, up, master, secrets, callVars, history>>

\* "Vault already initialized"
BootRefused(a) ==
  /\ pc[a] = "boot_guard"
  /\ VaultExists /\ EnvExists
  /\ Goto(a, "idle")
  /\ UNCHANGED <<diskVars, used, up, master, secrets, callVars, history>>

\* Mutant of BootGuard: leaves a .secrets/.env that is already there alone.
BootKeepsEnvFile(a) ==
  /\ pc[a] = "boot_guard"
  /\ ~(VaultExists /\ EnvExists)
  /\ \E k \in Keys \ used :
       /\ used' = used \cup {k}
       /\ blob' = [blob EXCEPT ![a] = Blob(k, {})]
  /\ op' = [op EXCEPT ![a] = "boot"]
  /\ Goto(a, IF EnvExists THEN "vault_open" ELSE "env_open")
  /\ UNCHANGED <<diskVars, up, master, secrets, history>>

\* two fresh keys, and the empty vault encrypted with them
BootGuard(a) ==
  /\ pc[a] = "boot_guard"
  /\ ~(VaultExists /\ EnvExists)
  /\ \E k \in Keys \ used :
       /\ used' = used \cup {k}
       /\ blob' = [blob EXCEPT ![a] = Blob(k, {})]
  /\ op' = [op EXCEPT ![a] = "boot"]
  /\ Goto(a, "env_open")
  /\ UNCHANGED <<diskVars, up, master, secrets, history>>

\* _write_env_file: open(path, "w"), which drops every other setting in it
EnvOpen(a) ==
  /\ pc[a] = "env_open"
  /\ env' = "torn"
  /\ Goto(a, "env_write")
  /\ UNCHANGED <<vault, used, up, master, secrets, callVars, history>>

EnvWrite(a) ==
  /\ pc[a] = "env_write"
  /\ env' = blob[a].key
  /\ Goto(a, "vault_open")
  /\ UNCHANGED <<vault, used, up, master, secrets, callVars, history>>

EnvWriteFails(a) ==
  /\ "io" \in Faults
  /\ pc[a] \in {"env_open", "env_write"}
  /\ Goto(a, "idle")
  /\ faulted' = TRUE
  /\ UNCHANGED <<diskVars, used, up, master, secrets, callVars, kept, bare, fresh>>

\* the new keys are in effect, and the view shows them to the user
BootDone(a) ==
  /\ pc[a] = "boot_done"
  /\ master' = [master EXCEPT ![ServiceOf[a]] = blob[a].key]
  /\ secrets' = [secrets EXCEPT ![ServiceOf[a]] = Locked]
  /\ Goto(a, "idle")
  /\ UNCHANGED <<diskVars, used, up, callVars, history>>

-----------------------------------------------------------------------------
(* unlock, set, delete, save, lock *)

\* The key the user entered is the master key, or there was none entered and
\* there is a master key.  A wrong key changes nothing, nor does a vault.json
\* that cannot be read or decrypted.
Unlock(a) ==
  LET s == ServiceOf[a] IN
  /\ Idle(a) /\ master[s] # NoKey
  /\ s \in Clis => VaultExists
  /\ IF VaultExists
       THEN /\ vault.kind = "blob" /\ vault.key = master[s]
            /\ secrets' = [secrets EXCEPT ![s] = vault.data]
            /\ UNCHANGED <<pc, callVars>>
       ELSE /\ secrets' = [secrets EXCEPT ![s] = {}]
            /\ StartWrite(a, "unlock", Blob(master[s], {}))
  /\ fresh' = fresh \cup {s}
  /\ UNCHANGED <<diskVars, used, up, master, kept, bare, faulted>>

Set(a, n) ==
  LET s == ServiceOf[a] IN
  /\ Idle(a) /\ Unlocked(s)
  /\ secrets' = [secrets EXCEPT ![s] = @ \cup {n}]
  /\ UNCHANGED <<diskVars, used, up, master, pc, callVars, history>>

Delete(a, n) ==
  LET s == ServiceOf[a] IN
  /\ Idle(a) /\ s \notin Clis /\ Unlocked(s)
  /\ n \in secrets[s]
  /\ secrets' = [secrets EXCEPT ![s] = @ \ {n}]
  /\ kept' = kept \ {n}
  /\ UNCHANGED <<diskVars, used, up, master, pc, callVars, bare, fresh, faulted>>

\* Mutant of Save: writes only the secrets that were saved before.
SaveStale(a) ==
  LET s == ServiceOf[a] IN
  /\ Idle(a) /\ Unlocked(s)
  /\ StartWrite(a, "save", Blob(master[s], {}))
  /\ UNCHANGED <<diskVars, used, up, master, secrets, history>>

\* a wrong confirm key changes nothing; without one the check is skipped
Save(a) ==
  LET s == ServiceOf[a] IN
  /\ Idle(a) /\ Unlocked(s)
  /\ StartWrite(a, "save", Blob(master[s], secrets[s]))
  /\ UNCHANGED <<diskVars, used, up, master, secrets, history>>

Lock(a) ==
  /\ Idle(a) /\ Unlocked(ServiceOf[a])
  /\ secrets' = [secrets EXCEPT ![ServiceOf[a]] = Locked]
  /\ UNCHANGED <<diskVars, used, up, master, pc, callVars, history>>

-----------------------------------------------------------------------------
BootStep(a) ==
  \/ BootRefused(a) \/ BootGuard(a) \/ EnvOpen(a) \/ EnvWrite(a) \/ EnvWriteFails(a) \/ BootDone(a)

WriteStep(a) == VaultOpen(a) \/ VaultWrite(a) \/ VaultWriteFails(a)

Request(a) ==
  \/ OpenView(a) \/ Unlock(a) \/ Lock(a) \/ Save(a)
  \/ \E n \in Secrets : Set(a, n) \/ Delete(a, n)

Next ==
  \/ \E a \in Actors : BootStep(a) \/ WriteStep(a) \/ Request(a)
  \/ \E s \in Services : Launch(s) \/ Exit(s)

Spec == Init /\ [][Next]_vars

-----------------------------------------------------------------------------
(* Properties *)

Quiet == \A a \in Actors : pc[a] \in {"idle", "boot_guard", "env_open"}

\* Until a process dies in a call or the disk fails: when nobody is writing and
\* both files are there, the key in .secrets/.env decrypts vault.json, so the
\* application can be restarted and unlocked; and a service that is unlocked has
\* that key, so what it saves can be unlocked again.
VaultReadable ==
  ~faulted =>
    /\ Quiet /\ VaultExists /\ EnvExists => vault.kind = "blob" /\ env = vault.key
    /\ \A s \in up : Unlocked(s) => env = master[s]

Saved == kept \ bare

\* Crashes and disk failures can tear vault.json, but a file that is whole has
\* every secret that was saved: a save is never lost in part, and no bootstrap
\* replaces a vault that was saved here.  Two things take a secret back: a save
\* from a snapshot that lacks what another process has saved since, and the
\* bootstrap over a vault.json that came without .secrets/.env.
SavedWholeOrTorn == vault.kind = "blob" => Saved \subseteq vault.data
=============================================================================
