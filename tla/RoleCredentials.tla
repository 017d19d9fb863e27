---------------------------- MODULE RoleCredentials ----------------------------
(***************************************************************************)
(* The passwords of the players' roles (player_auth_config.go,             *)
(* role_credential_store.go and the mod's RoleCredentialStore.cs,          *)
(* RolePasswordPolicy.cs).                                                 *)
(*                                                                         *)
(* Two processes write the store: the panel for its administrators, one     *)
(* update at a time, and the control mod in the game when a role logs in    *)
(* for the first time.  They take turns by a lock file that either may      *)
(* break when it is two minutes old.  A record of the store opens only with *)
(* the key it was made with, and that key is in .env, another file.         *)
(*                                                                         *)
(* There is one save; the records of the others are only carried along.     *)
(* A holder of the lock that lives is done within the two minutes, and      *)
(* releases it in one step.  A read of the marker and the store is one      *)
(* step too: one that falls around the first publication fails as it does   *)
(* between the two writes.                                                  *)
(***************************************************************************)
EXTENDS Naturals, FiniteSets

CONSTANTS PlayerRoles,        \* roles of the save
          UpdateSize,         \* bound: passwords set or cleared by one update
          RoleKeys,           \* bound: keys that are ever generated
          CredentialFaults    \* bound: writes that fail, and deaths of the panel or the game

ASSUME CredentialAssumption == RoleKeys \in Nat \ {0} /\ {UpdateSize, CredentialFaults} \subseteq Nat

VARIABLES
    authEnv,    \* .env: the mode and the key
    oldRoles,   \* roles whose passwords an older panel has left in .env
    store,      \* role-passwords.json
    marker,     \* role-passwords.initialized
    roleLock,   \* .role-passwords.lock: whose it is; dead, and old after two minutes
    access,     \* by process: where it is, the store it has read, the one it writes,
                \* and how it ends
    update,     \* what the panel is updating
    player,     \* the role that logs in
    box,        \* the environment of the game's container
    gameAuth,   \* down, or what the mod makes of it: open or closed
    lastKey, cfaults,
    robbed,     \* a lock was taken from a process that lives
    stuck       \* an update could not be undone

credentialVars == <<authEnv, oldRoles, store, marker, roleLock, access, update, player, box, gameAuth, lastKey,
                    cfaults, robbed, stuck>>

Processes == {"panel", "game"}
NoRecord  == 0    \* a password is the key its record was made with
NoStore   == [there |-> FALSE, by |-> [r \in PlayerRoles |-> NoRecord]]
NoWork    == [step |-> "idle", read |-> NoStore, next |-> NoStore.by, end |-> "none"]
NoUpdate  == [mode |-> "other", key |-> 0, set |-> {}, cleared |-> {}, commit |-> FALSE,
              staged |-> FALSE, was |-> [mode |-> "other", key |-> 0]]

\* A new installation, or one whose older panel kept the passwords in .env
CredentialInit ==
    /\ oldRoles \in SUBSET PlayerRoles
    /\ \/ authEnv = [mode |-> "other", key |-> 0] /\ oldRoles = {} /\ lastKey = 0
       \/ authEnv \in [mode : {"other", "role"}, key : {1}] /\ lastKey = 1
    /\ store = NoStore /\ marker = FALSE /\ roleLock = "free"
    /\ access = [a \in Processes |-> NoWork] /\ update = NoUpdate /\ player = {}
    /\ box = NoUpdate.was /\ gameAuth = "down" /\ cfaults = 0 /\ robbed = FALSE /\ stuck = FALSE

\* readRoleCredentialStorePath
Readable == marker = store.there
\* roleCredentialsForSave, and what a first write takes over from .env
Migrated(file) ==
    IF file.there THEN file.by
    ELSE [r \in PlayerRoles |-> IF r \in oldRoles THEN 1 ELSE NoRecord]
Credentials == Migrated(store)

At(a, step) == access[a].step = step
Proceeds(a, step) == access' = [access EXCEPT ![a].step = step]
Concludes(a, step, end) == access' = [access EXCEPT ![a].step = step, ![a].end = end]
Faulty == cfaults < CredentialFaults /\ cfaults' = cfaults + 1
envSide  == <<authEnv, oldRoles, lastKey>>
gameSide == <<player, box, gameAuth>>
history  == <<robbed, stuck>>

-----------------------------------------------------------------------------
(* The lock                                                                 *)

\* Mutant: the lock file is opened without asking that it be new.
LockedAnyway(a, step) == roleLock' = a /\ Proceeds(a, step) /\ UNCHANGED robbed
Locked(a, step) == roleLock = "free" /\ roleLock' = a /\ Proceeds(a, step) /\ UNCHANGED robbed
\* breakStaleRoleCredentialStoreLock: it looks at the age of a lock ...
SeesOld(a) == At(a, "lock") /\ roleLock = "old" /\ Proceeds(a, "aged") /\ UNCHANGED <<roleLock, robbed>>
\* ... and renames the lock that is there then.
Breaks(a) ==
    /\ At(a, "aged") /\ Proceeds(a, "lock") /\ roleLock' = "free"
    /\ robbed' = (robbed \/ roleLock \in Processes)
\* acquireRoleCredentialStoreLock, AcquireLock
Acquire(a) ==
    /\ (At(a, "lock") /\ Locked(a, "load")) \/ SeesOld(a) \/ Breaks(a)
    /\ UNCHANGED <<envSide, store, marker, update, gameSide, cfaults, stuck>>
LockAges ==
    /\ roleLock = "dead" /\ roleLock' = "old"
    /\ UNCHANGED <<envSide, store, marker, access, update, gameSide, cfaults, history>>

\* The panel has its .env to restore.
Released(a) == [access EXCEPT ![a] = IF a = "panel" THEN [NoWork EXCEPT !.step = "settle", !.end = access[a].end] ELSE NoWork]
\* release, Dispose: the lock is removed if it is still one's own.
ReleaseStore(a) ==
    /\ At(a, "release") /\ access' = Released(a) /\ player' = IF a = "game" THEN {} ELSE player
    /\ roleLock' = IF roleLock = a THEN "free" ELSE roleLock
    /\ UNCHANGED <<envSide, store, marker, update, box, gameAuth, cfaults, history>>
\* Five seconds are over, the lock cannot be written, or the save has no name.
GivesUpTurn(a) ==
    /\ At(a, "lock") /\ Concludes(a, "release", "refused")
    /\ UNCHANGED <<envSide, store, marker, roleLock, update, gameSide, cfaults, history>>

-----------------------------------------------------------------------------
(* The store, written under the lock                                        *)

\* A failing write is undone by the panel, and given up by the mod.
WriteFails(a) == Faulty /\ (IF a = "panel" THEN Proceeds(a, "undo") ELSE Concludes(a, "release", "no"))

\* writeRoleCredentialStore, Write: the new store in a file of its own and the marker, unless it is
\* there; the mod's stays if only its permissions could not be set ...
WriteMarker(a) ==
    /\ At(a, "write")
    /\ \/ marker' = TRUE /\ Proceeds(a, "move") /\ UNCHANGED cfaults
       \/ marker' \in {marker, TRUE} /\ WriteFails(a)
    /\ UNCHANGED <<envSide, store, roleLock, update, gameSide, history>>
\* ... and the store takes its name.
PublishStore(a) ==
    /\ At(a, "move")
    /\ \/ /\ store' = [there |-> TRUE, by |-> access[a].next] /\ UNCHANGED cfaults
          /\ IF a = "panel" /\ update.commit THEN Proceeds(a, "commit") ELSE Concludes(a, "release", "ok")
       \/ WriteFails(a) /\ UNCHANGED store
    /\ UNCHANGED <<envSide, marker, roleLock, update, gameSide, history>>

-----------------------------------------------------------------------------
(* The panel                                                                *)

\* Mutant: a new key reaches .env with everything else.
KeyWithRest(creds, old, new) == FALSE
\* A key that new records are made with is in .env before them.
KeyFirst(creds, old, new) == creds /\ old = 0 /\ new # 0
\* UpdatePlayerAuthConfig, up to its first write.  A request on an old revision is refused.
UpdatePlayerAuth(mode, set, cleared, tuned) ==
    LET wanted == authEnv.key = 0 /\ (mode = "role" \/ set # {})
        key    == IF wanted THEN lastKey + 1 ELSE authEnv.key
        creds  == set \cup cleared # {}
        commit == tuned \/ mode # authEnv.mode \/ key # authEnv.key
        staged == KeyFirst(creds, authEnv.key, key)
    IN /\ At("panel", "idle") /\ set \cap cleared = {} /\ Cardinality(set \cup cleared) <= UpdateSize
       /\ wanted => Readable /\ (\A r \in PlayerRoles : Credentials[r] = NoRecord) /\ lastKey < RoleKeys
       /\ mode = "role" => Readable
       /\ lastKey' = key
       /\ update' = [mode |-> mode, key |-> key, set |-> set, cleared |-> cleared, commit |-> commit,
                     staged |-> staged, was |-> authEnv]
       /\ Proceeds("panel", IF staged THEN "stage" ELSE IF creds THEN "lock" ELSE IF commit THEN "commit" ELSE "idle")
       /\ UNCHANGED <<authEnv, oldRoles, store, marker, roleLock, gameSide, cfaults, history>>
\* handleInstanceServerPassword: not while the mode is by role
SetServerPassword == authEnv.mode # "role" /\ UpdatePlayerAuth("other", {}, {}, TRUE)

\* UpdateEnvFile: .env is replaced as a whole, or stays as it is.
EnvWritten(env) == authEnv' = env /\ UNCHANGED cfaults
EnvKept         == UNCHANGED authEnv /\ Faulty

\* stagePlayerAuthRoleKey
StageKey ==
    /\ At("panel", "stage")
    /\ \/ EnvWritten([authEnv EXCEPT !.key = update.key]) /\ Proceeds("panel", "lock")
       \/ EnvKept /\ Concludes("panel", "settle", "refused")
    /\ UNCHANGED <<oldRoles, lastKey, store, marker, roleLock, update, gameSide, history>>

Changed(by) == [r \in PlayerRoles |-> IF r \in update.set THEN update.key
                                ELSE IF r \in update.cleared THEN NoRecord ELSE by[r]]
\* mutateRoleCredentialStoreAndCommit
PanelLoads ==
    /\ At("panel", "load")
    /\ access' = [access EXCEPT !["panel"] =
           IF Readable THEN [step |-> "write", read |-> store, next |-> Changed(Migrated(store)), end |-> "none"]
           ELSE [@ EXCEPT !.step = "release", !.end = "refused"]]
    /\ UNCHANGED <<envSide, store, marker, roleLock, update, gameSide, cfaults, history>>
\* commitEnv, under the lock when the store was written
CommitEnv ==
    /\ At("panel", "commit")
    /\ \/ /\ EnvWritten([mode |-> update.mode, key |-> update.key])
          /\ Concludes("panel", IF update.set \cup update.cleared = {} THEN "settle" ELSE "release", "ok")
       \/ /\ EnvKept
          /\ IF update.set \cup update.cleared = {} THEN Concludes("panel", "settle", "no") ELSE Proceeds("panel", "undo")
    /\ UNCHANGED <<oldRoles, lastKey, store, marker, roleLock, update, gameSide, history>>

\* restoreRoleCredentialStoreSnapshot
UndoStore ==
    /\ \/ /\ At("panel", "undo") /\ access["panel"].read.there
          /\ store' = access["panel"].read /\ marker' = TRUE /\ Concludes("panel", "release", "no") /\ UNCHANGED cfaults
       \/ /\ At("panel", "undo") /\ ~access["panel"].read.there
          /\ store' = NoStore /\ Proceeds("panel", "unmark") /\ UNCHANGED <<marker, cfaults>>
       \/ /\ At("panel", "unmark") /\ marker' = FALSE /\ Concludes("panel", "release", "no") /\ UNCHANGED <<store, cfaults>>
       \/ /\ (At("panel", "undo") \/ At("panel", "unmark")) /\ Faulty
          /\ Concludes("panel", "release", "undone") /\ UNCHANGED <<store, marker>>
    /\ stuck' = (stuck \/ access'["panel"].end = "undone")
    /\ UNCHANGED <<envSide, roleLock, update, gameSide, robbed>>
\* restoreStagedEnv, after the lock is released; and what is answered
RestoreStaged ==
    /\ At("panel", "settle")
    /\ \/ /\ access["panel"].end # "ok" /\ update.staged
          /\ authEnv' = update.was /\ Proceeds("panel", "told") /\ UNCHANGED cfaults
       \/ /\ access["panel"].end # "ok" /\ update.staged /\ Faulty
          /\ Concludes("panel", "told", "undone") /\ UNCHANGED authEnv
       \/ (access["panel"].end = "ok" \/ ~update.staged) /\ Proceeds("panel", "told") /\ UNCHANGED <<authEnv, cfaults>>
    /\ stuck' = (stuck \/ access'["panel"].end = "undone")
    /\ UNCHANGED <<oldRoles, lastKey, store, marker, roleLock, update, gameSide, robbed>>
PanelAnswers ==
    /\ At("panel", "told") /\ access' = [access EXCEPT !["panel"] = NoWork] /\ update' = NoUpdate
    /\ UNCHANGED <<envSide, store, marker, roleLock, gameSide, cfaults, history>>

\* buildPlayerAuthConfigResult
RoleStatus(r) ==
    IF ~Readable \/ (authEnv.key = 0 /\ \E x \in PlayerRoles : Credentials[x] # NoRecord) THEN "error"
    ELSE IF Credentials[r] # NoRecord THEN "configured" ELSE "waiting"

-----------------------------------------------------------------------------
(* The game                                                                 *)

\* LoadFromEnvironment, in the mode that looks at the store.  A start makes the container anew, and
\* none runs beside an update; docker restarts the one there is.
GameBoots(env) ==
    /\ gameAuth = "down" /\ env.mode = "role" /\ (env # box => At("panel", "idle"))
    /\ box' = env /\ gameAuth' = IF Readable THEN "open" ELSE "closed"
    /\ UNCHANGED <<envSide, store, marker, roleLock, access, update, player, cfaults, history>>
GameStops ==
    /\ gameAuth # "down" /\ At("game", "idle") /\ gameAuth' = "down"
    /\ UNCHANGED <<envSide, store, marker, roleLock, access, update, player, box, cfaults, history>>

\* RewritePassword: a policy that is invalid, or a store that is, lets nobody in.
LogsIn(r) ==
    /\ gameAuth = "open" /\ At("game", "idle") /\ Readable
    /\ player' = {r} /\ Proceeds("game", "lock")
    /\ UNCHANGED <<envSide, store, marker, roleLock, update, box, gameAuth, cfaults, history>>
Enrolls(r, by) == by[r] = NoRecord
\* TryAuthenticateOrEnroll.  A wrong password is refused as a failure is.
GameLoads(r) ==
    LET by == Migrated(store)
        write(next) == access' = [access EXCEPT !["game"] = [NoWork EXCEPT !.step = "write", !.next = next]]
    IN /\ At("game", "load") /\ player = {r}
       /\ \/ Readable /\ Enrolls(r, by) /\ write([by EXCEPT ![r] = box.key])
          \/ Readable /\ ~Enrolls(r, by) /\ ~store.there /\ write(by)
          \/ Readable /\ ~Enrolls(r, by) /\ store.there /\ \E end \in {"ok", "no"} :
                 (end = "ok" => by[r] = box.key) /\ Concludes("game", "release", end)
          \/ ~Readable /\ Concludes("game", "release", "no")
       /\ UNCHANGED <<envSide, store, marker, roleLock, update, gameSide, cfaults, history>>

\* The panel dies and boots, or the game dies or is stopped.
Dies(a) ==
    /\ Faulty /\ access' = [access EXCEPT ![a] = NoWork] /\ roleLock' = IF roleLock = a THEN "dead" ELSE roleLock
    /\ IF a = "panel" THEN update' = NoUpdate /\ UNCHANGED <<player, gameAuth>>
       ELSE gameAuth' = "down" /\ player' = {} /\ UNCHANGED update
    /\ UNCHANGED <<envSide, store, marker, box, history>>

StoreStep(a) == Acquire(a) \/ ReleaseStore(a) \/ GivesUpTurn(a) \/ WriteMarker(a) \/ PublishStore(a)
PanelStep == StageKey \/ PanelLoads \/ CommitEnv \/ UndoStore \/ RestoreStaged \/ PanelAnswers
CredentialNext ==
    \/ \E mode \in {"other", "role"}, set, cleared \in SUBSET PlayerRoles, tuned \in BOOLEAN :
           UpdatePlayerAuth(mode, set, cleared, tuned)
    \/ SetServerPassword \/ PanelStep
    \/ (\E env \in {authEnv, box} : GameBoots(env)) \/ GameStops \/ LockAges
    \/ \E r \in PlayerRoles : LogsIn(r) \/ GameLoads(r)
    \/ \E a \in Processes : StoreStep(a) \/ Dies(a)

CredentialSpec == CredentialInit /\ [][CredentialNext]_credentialVars

-----------------------------------------------------------------------------
(* Properties                                                               *)

\* Every variable has its type.
CredentialTypeOK ==
    /\ authEnv \in [mode : {"other", "role"}, key : 0..RoleKeys] /\ box \in [mode : {"other", "role"}, key : 0..RoleKeys]
    /\ store \in [there : BOOLEAN, by : [PlayerRoles -> 0..RoleKeys]] /\ marker \in BOOLEAN
    /\ roleLock \in {"free", "dead", "old"} \cup Processes /\ gameAuth \in {"down", "open", "closed"}
    /\ \A a \in Processes :
          /\ access[a].step \in {"idle", "stage", "lock", "aged", "load", "write", "move", "commit", "undo",
                               "unmark", "release", "settle", "told"}
          /\ access[a].end \in {"none", "ok", "no", "refused", "undone"}
    /\ {oldRoles, player, update.set, update.cleared} \subseteq SUBSET PlayerRoles
    /\ lastKey \in 0..RoleKeys

\* Wherever a write fails or a process dies, the key in .env opens every password there is.
KeyOpensAll == \A r \in PlayerRoles : Credentials[r] # NoRecord => Credentials[r] = authEnv.key

\* An update that is refused leaves .env and the store as it found them, one that is accepted has
\* done all of it; so each stands when the panel gives up its turn and when it answers.
UpdatedWhole ==
    LET panel == access["panel"]
        done  == update.commit => authEnv = [mode |-> update.mode, key |-> update.key]
    IN /\ At("panel", "release") /\ panel.end = "no" => store = panel.read /\ Readable
       /\ At("panel", "release") /\ panel.end = "ok" =>
             done /\ store = [there |-> TRUE, by |-> Changed(Migrated(panel.read))]
       /\ At("panel", "told") => IF panel.end = "ok" THEN done ELSE panel.end = "undone" \/ authEnv = update.was

\* What the panel shows of a role is what happens when it logs in.
ShownIsPlayed ==
    gameAuth = "open" =>
        \A r \in PlayerRoles :
            /\ RoleStatus(r) = "waiting" => Readable /\ Enrolls(r, Credentials)
            /\ RoleStatus(r) = "configured" => Readable /\ ~Enrolls(r, Credentials) /\ Credentials[r] = box.key

\* The two files and the game agree whatever fails, until an update could not be undone, or a
\* process was robbed of its turn.
FilesAgree == stuck \/ (KeyOpensAll /\ (robbed \/ (UpdatedWhole /\ ShownIsPlayed)))

\* A role that has a password can be enrolled again only after an administrator has cleared it or
\* the update that set it is undone, unless a process was robbed of its turn.
NeverReopened ==
    [][\A r \in PlayerRoles :
          Credentials[r] # NoRecord /\ Credentials'[r] = NoRecord =>
             \/ robbed
             \/ r \in update.cleared
             \/ r \in update.set /\ At("panel", "undo")]_credentialVars
=============================================================================
