---------------------------- MODULE ControlPlane ----------------------------
(* The control plane's configuration: one copy in memory under a mutex, one   *)
(* in config.yaml.  API requests change the copy in memory and save it in a   *)
(* later step; the file watcher reloads the file after a change, its own      *)
(* saves suppressed by a flag; operators edit the file.  Session tokens are   *)
(* signed by a signer cached next to the copy in memory.                      *)
(* Source: internal/controlplane, internal/watcher, internal/auth and the     *)
(* handlers of internal/api that change settings.                             *)
EXTENDS Naturals, FiniteSets

CONSTANTS
    Requests,    \* the API requests under way
    Providers,   \* provider types
    MaxChanges,  \* bound on changes of the configuration
    MaxFileEdits \* bound on edits of the file from outside

ASSUME ControlPlaneAssumption ==
    MaxChanges \in Nat /\ MaxFileEdits \in Nat /\ Providers # {} /\ IsFiniteSet(Providers)

VARIABLES
    mem,       \* ControlPlane.config
    disk,      \* config.yaml
    signer,    \* ControlPlane.signer: the secret it signs with, 0 is nil
    skip,      \* skipNextReload
    request,   \* [request -> what it does next; start between requests]
    saving,    \* the request whose write of the file is half done, or 0
    changed,   \* the watcher has seen a change of the file it has not dispatched
    reload,    \* the Reload under way
    fresh,     \* changes so far; they number the hashes, secrets and settings
    fileEdits

cpVars == <<mem, disk, signer, skip, request, saving, changed, reload, fresh, fileEdits>>

Empty == [hash |-> 0, secret |-> 0, providers |-> {}, setting |-> 0]
Gone == [gone |-> TRUE]      \* no file
NoReload == [pc |-> "idle"]
Unlocked == saving = 0

CPInit ==
    /\ mem = [hash |-> 1, secret |-> 0, providers |-> Providers, setting |-> 0]
    /\ disk = mem
    /\ signer = 0 /\ skip = FALSE /\ saving = 0 /\ changed = FALSE
    /\ request = [r \in Requests |-> "start"]
    /\ reload = NoReload
    /\ fresh = 1 /\ fileEdits = 0

Goto(r, pc) == request' = [request EXCEPT ![r] = pc]

-----------------------------------------------------------------------------
(* The requests.  Settings, secrets, cluster settings: one change of the copy *)
(* in memory, saved in a second step.                                         *)
ChangeSetting(r) ==
    /\ request[r] = "start" /\ Unlocked /\ fresh < MaxChanges
    /\ mem' = [mem EXCEPT !.setting = fresh + 1]
    /\ fresh' = fresh + 1
    /\ Goto(r, "save")
    /\ UNCHANGED <<disk, signer, skip, saving, changed, reload, fileEdits>>

(* SetProvider.                                                               *)
PutProvider(r, p) ==
    /\ request[r] = "start" /\ Unlocked /\ fresh < MaxChanges
    /\ mem' = [mem EXCEPT !.providers = @ \cup {p}]
    /\ fresh' = fresh + 1
    /\ Goto(r, "save")
    /\ UNCHANGED <<disk, signer, skip, saving, changed, reload, fileEdits>>

(* handleDeleteProvider: refuses the only provider, and deletes it in a       *)
(* second step.                                                               *)
CheckDelete(r) ==
    /\ request[r] = "start" /\ Unlocked
    /\ Goto(r, IF Cardinality(mem.providers) <= 1 THEN "start" ELSE "delete")
    /\ UNCHANGED <<mem, disk, signer, skip, saving, changed, reload, fresh, fileEdits>>

DeleteProvider(r, p) ==
    /\ request[r] = "delete" /\ Unlocked /\ fresh < MaxChanges
    /\ mem' = [mem EXCEPT !.providers = @ \ {p}]
    /\ fresh' = fresh + 1
    /\ Goto(r, "save")
    /\ UNCHANGED <<disk, signer, skip, saving, changed, reload, fileEdits>>

(* SetPasswordHash, of a password change or of the setup: the secret goes     *)
(* with the old password.                                                     *)
SetPasswordHash(r) ==
    /\ request[r] = "start" /\ Unlocked /\ fresh < MaxChanges
    /\ mem' = [mem EXCEPT !.hash = fresh + 1, !.secret = 0]
    /\ fresh' = fresh + 1
    /\ signer' = 0
    /\ Goto(r, "saveThenSign")
    /\ UNCHANGED <<disk, skip, saving, changed, reload, fileEdits>>

(* A login whose password fits asks for the signer.                           *)
Login(r) ==
    /\ request[r] = "start" /\ Unlocked /\ mem.hash # 0
    /\ Goto(r, "sign")
    /\ UNCHANGED <<mem, disk, signer, skip, saving, changed, reload, fresh, fileEdits>>

(* TokenSigner: the cached signer, or one for the stored secret, or one for a *)
(* new secret, which is saved at once; when that fails it is taken back.      *)
TokenSigner(r) ==
    /\ request[r] = "sign" /\ Unlocked
    /\ Goto(r, "start")
    /\ \/ /\ signer # 0 \/ mem.secret # 0
          /\ signer' = IF signer # 0 THEN signer ELSE mem.secret
          /\ UNCHANGED <<mem, disk, skip, changed, fresh>>
       \/ /\ signer = 0 /\ mem.secret = 0 /\ fresh < MaxChanges
          /\ mem' = [mem EXCEPT !.secret = fresh + 1]
          /\ fresh' = fresh + 1
          /\ signer' = fresh + 1
          /\ disk' = mem' /\ skip' = TRUE /\ changed' = TRUE
       \/ /\ signer = 0 /\ mem.secret = 0
          /\ UNCHANGED <<mem, disk, signer, skip, changed, fresh>>
    /\ UNCHANGED <<saving, reload, fileEdits>>

(* Save, with the mutex held: WriteFile empties the file and then fills it;   *)
(* the flag is set only after that.  Nothing is written of an empty           *)
(* configuration; a save that fails leaves the change in memory.              *)
After(r) == IF request[r] = "saveThenSign" THEN "sign" ELSE "start"

SaveBegins(r) ==
    /\ request[r] \in {"save", "saveThenSign"} /\ Unlocked
    /\ \/ /\ mem # Empty
          /\ disk' = Empty /\ changed' = TRUE /\ saving' = r
          /\ UNCHANGED request
       \/ /\ Goto(r, After(r))
          /\ UNCHANGED <<disk, changed, saving>>
    /\ UNCHANGED <<mem, signer, skip, reload, fresh, fileEdits>>

SaveEnds(r) ==
    /\ saving = r
    /\ disk' = mem /\ changed' = TRUE /\ skip' = TRUE /\ saving' = 0
    /\ Goto(r, After(r))
    /\ UNCHANGED <<mem, signer, reload, fresh, fileEdits>>

(* Reset: memory and file are emptied; no flag is set.                        *)
Reset(r) ==
    /\ request[r] = "start" /\ Unlocked
    /\ mem' = Empty /\ signer' = 0 /\ disk' = Gone /\ changed' = TRUE
    /\ Goto(r, "start")
    /\ UNCHANGED <<skip, saving, reload, fresh, fileEdits>>

(* An operator edits the file: another password, secret or setting.           *)
ExternalEdit(f) ==
    /\ fileEdits < MaxFileEdits /\ fresh < MaxChanges /\ Unlocked
    /\ disk # Gone
    /\ disk' = [disk EXCEPT ![f] = fresh + 1]
    /\ fresh' = fresh + 1 /\ fileEdits' = fileEdits + 1 /\ changed' = TRUE
    /\ UNCHANGED <<mem, signer, skip, request, saving, reload>>

-----------------------------------------------------------------------------
(* The watcher's loop: the changes of one debounce window are one batch, and  *)
(* the next batch waits for the handler.                                      *)
Dispatch ==
    /\ changed /\ reload.pc = "idle"
    /\ changed' = FALSE
    /\ reload' = [pc |-> "flag"]
    /\ UNCHANGED <<mem, disk, signer, skip, request, saving, fresh, fileEdits>>

(* Reload: the flag is read and cleared under the mutex ...                   *)
ReloadFlag ==
    /\ reload.pc = "flag" /\ Unlocked
    /\ skip' = FALSE
    /\ reload' = IF skip THEN NoReload ELSE [pc |-> "read"]
    /\ UNCHANGED <<mem, disk, signer, request, saving, changed, fresh, fileEdits>>

(* ... the file without it: a missing file keeps the current state ...        *)
ReloadRead ==
    /\ reload.pc = "read"
    /\ reload' = IF disk = Gone THEN NoReload
                 ELSE [pc |-> "replace", cfg |-> disk]
    /\ UNCHANGED <<mem, disk, signer, skip, request, saving, changed, fresh, fileEdits>>

(* ... and the copy in memory is replaced under it; the signer is dropped     *)
(* when the password or the secret is another one.                            *)
KeepSignerSamePassword(cfg) == cfg.hash = mem.hash
KeepSigner(cfg) == cfg.hash = mem.hash /\ cfg.secret = mem.secret

ReloadReplace ==
    /\ reload.pc = "replace" /\ Unlocked
    /\ mem' = reload.cfg
    /\ signer' = IF KeepSigner(reload.cfg) THEN signer ELSE 0
    /\ reload' = NoReload
    /\ UNCHANGED <<disk, skip, request, saving, changed, fresh, fileEdits>>

(* The process stops after a last save, or is killed, even in the middle of a *)
(* write, and loads the file as it is.                                        *)
Restarted(saved) ==
    /\ saved => Unlocked
    /\ disk' = IF saved /\ mem # Empty THEN mem ELSE disk
    /\ mem' = IF disk' = Gone THEN Empty ELSE disk'
    /\ signer' = 0 /\ skip' = FALSE /\ changed' = FALSE
    /\ request' = [r \in Requests |-> "start"]
    /\ reload' = NoReload /\ saving' = 0
    /\ UNCHANGED <<fresh, fileEdits>>

RequestStep(r) ==
    \/ ChangeSetting(r)
    \/ \E p \in Providers : PutProvider(r, p) \/ DeleteProvider(r, p)
    \/ CheckDelete(r)
    \/ SetPasswordHash(r)
    \/ Login(r)
    \/ TokenSigner(r)
    \/ SaveBegins(r)
    \/ SaveEnds(r)
    \/ Reset(r)

CPNext ==
    \/ \E r \in Requests : RequestStep(r)
    \/ \E f \in {"hash", "secret", "setting"} : ExternalEdit(f)
    \/ Dispatch \/ ReloadFlag \/ ReloadRead \/ ReloadReplace
    \/ \E saved \in BOOLEAN : Restarted(saved)

CPSpec == CPInit /\ [][CPNext]_cpVars

-----------------------------------------------------------------------------
Configs == [hash : Nat, secret : Nat, providers : SUBSET Providers, setting : Nat]

CPTypeOK ==
    /\ mem \in Configs /\ disk \in Configs \cup {Gone}
    /\ signer \in Nat /\ fresh \in Nat /\ fileEdits \in Nat /\ skip \in BOOLEAN /\ changed \in BOOLEAN
    /\ request \in [Requests -> {"start", "delete", "save", "saveThenSign", "sign"}]
    /\ reload \in [pc : {"idle", "flag", "read"}] \cup [pc : {"replace"}, cfg : Configs]
    /\ saving \in Requests \cup {0}

(* The cached signer signs with the secret of the configuration in memory,    *)
(* whatever requests, reloads of the file, edits from outside and restarts    *)
(* come in between: a session signed with a secret that was rotated away is   *)
(* refused at once (controlplane.go:258-264, controlplane_auth.go:30-38).     *)
SignerIsCurrent == signer # 0 => signer = mem.secret
=============================================================================
