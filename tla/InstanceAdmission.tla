-------------------------- MODULE InstanceAdmission --------------------------
(***************************************************************************)
(* Which jobs may work on one Stardew instance at the same time.           *)
(*                                                                         *)
(* Every operation that creates a job is a method of the Junimo driver     *)
(* that takes runtimeUpdateMu, reads the active jobs and the durable       *)
(* markers of unfinished work, and inserts its own row before it lets the  *)
(* mutex go (backend/internal/games/stardew_junimo).  Other jobs only end  *)
(* meanwhile, so an admission is one step.  Three kinds of request are     *)
(* checked earlier by the web layer, outside the mutex, and what it saw    *)
(* may be stale when the driver is called: these are "cleared".  The Mod   *)
(* install is the odd one: its row is inserted without the mutex and its   *)
(* runner holds the mutex while it writes.                                 *)
(*                                                                         *)
(* The runners appear with what the admissions and the reconciler read:    *)
(* the persisted state, the server container, the new-game owner and the   *)
(* import journal.  Panel crashes are the subject of JobManager.           *)
(***************************************************************************)
EXTENDS Naturals, FiniteSets

CONSTANTS
    Jobs,   \* job rows that may be active at the same time
    None    \* nobody holds the mutex; the reconciler has read nothing

ASSUME NoneAssumption == None \notin Jobs

\* Operations recorded in the payload of a stardew_lifecycle job.
Lifecycle == {"start", "stop", "restart", "restore", "new_game", "rollback"}
\* The Junimo and the SMAPI workflows share their gate; a repair runs as an
\* apply and is admitted by a stronger one.
Updates   == {"dry_run", "apply"}
Downloads == {"install", "auth"}
Kinds     == Lifecycle \cup Updates \cup Downloads \cup {"import", "farmhand", "mod"}

VARIABLES
    job,      \* kind of each active job, "none" when there is no active row
    stage,    \* how far its runner is
    state,    \* instances.state; "maintenance" is stopped under the import
              \* phase, "missing_files" an error that a later look may heal
    server,   \* the server container
    owner,    \* the durable new-game owner: none, unfinished or rolling back
    journal,  \* the unfinished import journal: none, without a job, with one
    deleting, \* the instance has a deletion record
    lock,     \* the Mod job that holds runtimeUpdateMu
    cleared,  \* requests that passed the checks of the web layer
    seen      \* the state a reconciliation has loaded, or "orphan": its
              \* verdict that nobody owns the starting server any more

markers == <<owner, journal, deleting>>
vars == <<job, stage, state, server, owner, journal, deleting, lock, cleared, seen>>

States == {"stopped", "starting", "running", "installing", "maintenance",
           "error", "missing_files"}
Stages == {"idle", "begun", "refused", "prepare", "restart", "recreate", "waiting",
           "stop", "stopping", "files", "changing", "changing_online",
           "maintenance", "writing"}

TypeOK ==
    /\ job \in [Jobs -> Kinds \cup {"none"}]
    /\ stage \in [Jobs -> Stages]
    /\ \A j \in Jobs : job[j] = "none" <=> stage[j] = "idle"
    /\ state \in States
    /\ server \in {"up", "down"}
    /\ owner \in {"none", "unfinished", "rolling_back"}
    /\ journal \in {"none", "unbound", "bound"}
    /\ deleting \in BOOLEAN
    /\ lock \in Jobs \cup {None}
    /\ cleared \in SUBSET {"mod", "update", "auth", "farmhand"}
    /\ seen \in States \cup {"orphan", None}

Init ==
    /\ job = [j \in Jobs |-> "none"]
    /\ stage = [j \in Jobs |-> "idle"]
    /\ \/ state = "stopped" /\ server = "down"
       \/ state = "running" /\ server = "up"
    /\ owner = "none"
    /\ journal = "none"
    /\ deleting = FALSE
    /\ lock = None
    /\ cleared = {}
    /\ seen = None

-----------------------------------------------------------------------------
(* The gates                                                               *)

NoActive(kinds) == \A j \in Jobs : job[j] \notin kinds

MutexFree == lock = None

\* A row is inserted; the trigger of migration 015 refuses it once the instance
\* has a deletion record.
Row(j, kind, first) ==
    /\ job[j] = "none" /\ ~deleting
    /\ job' = [job EXCEPT ![j] = kind]
    /\ stage' = [stage EXCEPT ![j] = first]

\* Mutant: the gate knows the downloads only.
DownloadsFree == NoActive(Downloads \cup {"mod"})

\* rejectActiveRuntimeUpdate
RuntimeUpdateFree == NoActive(Updates \cup Downloads \cup {"mod"})

\* rejectActiveSaveImport
SaveImportFree == NoActive({"import"}) /\ journal = "none"

\* rejectActiveFarmhandDelete
FarmhandFree == NoActive({"farmhand"})

\* Mutant: only a rollback still owed closes the gate.
OwnerFreeUnlessRollingBack == owner # "rolling_back"

\* rejectUnfinishedNewGameOwner
OwnerFree == owner = "none"

\* What every lifecycle operation checks; only one lifecycle row is active, by
\* the explicit check of the operation or by CreateExclusiveJob.
LifecycleAdmitted ==
    /\ MutexFree /\ ~deleting
    /\ NoActive(Lifecycle)
    /\ SaveImportFree /\ FarmhandFree /\ RuntimeUpdateFree

-----------------------------------------------------------------------------
(* Admissions of lifecycle jobs                                            *)

\* Start of an existing save.
Start(j) ==
    /\ LifecycleAdmitted /\ OwnerFree
    /\ Row(j, "start", "prepare")
    /\ UNCHANGED <<state, server, markers, lock, cleared, seen>>

\* Start with a new game: the job row first, then the durable owner, both under
\* the mutex.  A failed reservation leaves a job whose runner only fails.
StartNewGame(j) ==
    /\ LifecycleAdmitted /\ server = "down"
    /\ \/ OwnerFree /\ owner' = "unfinished" /\ Row(j, "new_game", "prepare")
       \/ Row(j, "new_game", "refused") /\ UNCHANGED owner
    /\ UNCHANGED <<state, server, journal, deleting, lock, cleared, seen>>

\* Start finds an unfinished owner and resumes its transaction, forward or
\* through the rollback that is still owed.
Resume(j) ==
    /\ LifecycleAdmitted
    /\ \/ owner = "unfinished" /\ Row(j, "new_game", "prepare")
       \/ owner = "rolling_back" /\ Row(j, "rollback", "begun")
    /\ UNCHANGED <<state, server, markers, lock, cleared, seen>>

\* Stop, Restart and RestoreBackupWithRestart; a restore stops the server first
\* when the instance is shown as up.
StopRestartRestore(j) ==
    /\ LifecycleAdmitted /\ OwnerFree
    /\ \/ Row(j, "stop", "stop")
       \/ Row(j, "restart", "restart")
       \/ Row(j, "restore", IF state \in {"running", "starting"}
                            THEN "stop" ELSE "files")
    /\ UNCHANGED <<state, server, markers, lock, cleared, seen>>

-----------------------------------------------------------------------------
(* The other admissions                                                    *)

\* Checks of the web layer that the driver does not repeat: no unfinished
\* import before an update; a stopped server before a Mod install or a Steam
\* authorization; a running instance before a farmhand is deleted.
Clear(request) ==
    /\ MutexFree /\ ~deleting
    /\ CASE request = "update" -> journal = "none"
         [] request = "mod" ->
              /\ journal = "none" /\ OwnerFree /\ NoActive(Lifecycle)
              /\ server = "down" /\ state \notin {"running", "starting"}
         [] request = "auth" ->
              /\ OwnerFree /\ NoActive(Lifecycle) /\ server = "down"
              /\ state \in {"stopped", "maintenance"}
         [] request = "farmhand" -> OwnerFree /\ state = "running"
    /\ cleared' = cleared \cup {request}
    /\ UNCHANGED <<job, stage, state, server, markers, lock, seen>>

\* StartRuntimeUpdateDryRun, StartRuntimeUpdateApply, their SMAPI counterparts
\* and the repairs.
StartUpdate(j) ==
    /\ "update" \in cleared
    /\ MutexFree /\ OwnerFree
    /\ NoActive(Downloads \cup Lifecycle \cup Updates)
    /\ \E kind \in Updates : Row(j, kind, "begun")
    /\ cleared' = cleared \ {"update"}
    /\ UNCHANGED <<state, server, markers, lock, seen>>

\* driver.Install of the base game.
Install(j) ==
    /\ MutexFree /\ ~deleting
    /\ OwnerFree /\ SaveImportFree /\ RuntimeUpdateFree
    /\ state \notin {"running", "starting"} /\ server = "down"
    /\ Row(j, "install", "begun")
    /\ UNCHANGED <<state, server, markers, lock, cleared, seen>>

\* driver.Install for a Steam invite authorization.
Authorize(j) ==
    /\ "auth" \in cleared
    /\ MutexFree /\ ~deleting
    /\ OwnerFree /\ SaveImportFree /\ RuntimeUpdateFree
    /\ Row(j, "auth", "begun")
    /\ cleared' = cleared \ {"auth"}
    /\ UNCHANGED <<state, server, markers, lock, seen>>

\* ImportSaveAndStart writes its journal, then creates its job.  A journal whose
\* job could not be created stays, and only its own operation may try again.
ImportSaveAndStart(j) ==
    /\ MutexFree
    /\ RuntimeUpdateFree /\ OwnerFree
    /\ state \in {"stopped", "maintenance"} /\ server = "down"
    /\ NoActive({"import"}) /\ journal \in {"none", "unbound"}
    /\ \/ Row(j, "import", "begun") /\ journal' = "bound"
       \/ journal' = "unbound" /\ UNCHANGED <<job, stage>>
    /\ UNCHANGED <<state, server, owner, deleting, lock, cleared, seen>>

\* DeleteFarmhand: nothing else may be active.
DeleteFarmhand(j) ==
    /\ "farmhand" \in cleared
    /\ MutexFree /\ OwnerFree /\ NoActive(Kinds)
    /\ Row(j, "farmhand", "begun")
    /\ cleared' = cleared \ {"farmhand"}
    /\ UNCHANGED <<state, server, markers, lock, seen>>

\* handleModNexusInstall and handleModRemoteInstall create their job without
\* the mutex.
InstallMod(j) ==
    /\ "mod" \in cleared
    /\ Row(j, "mod", "begun")
    /\ cleared' = cleared \ {"mod"}
    /\ UNCHANGED <<state, server, markers, lock, seen>>

\* DeleteInstance, up to the record that BeginInstanceDeletion writes.
DeleteInstance ==
    /\ MutexFree /\ ~deleting
    /\ state \notin {"running", "starting"} /\ server = "down"
    /\ OwnerFree /\ journal = "none" /\ NoActive(Kinds)
    /\ deleting' = TRUE
    /\ state' = "error"
    /\ UNCHANGED <<job, stage, server, owner, journal, lock, cleared, seen>>

-----------------------------------------------------------------------------
(* Lifecycle runners                                                       *)

\* Mutant: the runner's stage outlives its row.
EndKeepsStage(j) ==
    /\ job' = [job EXCEPT ![j] = "none"]
    /\ UNCHANGED stage

\* The job's row becomes terminal.
End(j) ==
    /\ job' = [job EXCEPT ![j] = "none"]
    /\ stage' = [stage EXCEPT ![j] = "idle"]

Advance(j, next) ==
    /\ stage' = [stage EXCEPT ![j] = next]
    /\ UNCHANGED job

\* The deferred settlement of doStart for a failed new game: irreversible
\* progress is kept for recovery; otherwise the server is stopped and the
\* transaction rolled back, which may itself fail.
NewGameFails ==
    \/ state' = "error" /\ UNCHANGED <<server, owner>>
    \/ state' = "stopped" /\ server' = "down" /\ owner' = "none"
    \/ state' = "error" /\ owner' = "rolling_back" /\ server' \in {server, "down"}

\* doStart before it publishes "starting": the game files are verified.
Prepare(j) ==
    /\ stage[j] = "prepare"
    /\ \/ state' = "starting" /\ Advance(j, "recreate") /\ UNCHANGED <<server, owner>>
       \/ /\ End(j)
          /\ IF job[j] = "new_game" THEN NewGameFails
             ELSE /\ state' \in {"stopped", "error", "missing_files"}
                  /\ UNCHANGED <<server, owner>>
    /\ UNCHANGED <<journal, deleting, lock, cleared, seen>>

\* doRestart publishes "starting" first.
RestartBegins(j) ==
    /\ stage[j] = "restart"
    /\ state' = "starting"
    /\ Advance(j, "recreate")
    /\ UNCHANGED <<server, markers, lock, cleared, seen>>

\* ComposeRecreateServices, which may fail after it started the container.
Recreate(j) ==
    /\ stage[j] = "recreate"
    /\ \/ server' = "up" /\ Advance(j, "waiting") /\ UNCHANGED <<state, owner>>
       \/ /\ End(j)
          /\ IF job[j] = "new_game" THEN NewGameFails
             ELSE /\ state' = IF job[j] = "restart" THEN "error" ELSE "stopped"
                  /\ server' \in {"up", "down"}
                  /\ UNCHANGED owner
    /\ UNCHANGED <<journal, deleting, lock, cleared, seen>>

\* The server and Control answer; a new game is confirmed and commits.
Ready(j) ==
    /\ stage[j] = "waiting"
    /\ state' = "running"
    /\ owner' = IF job[j] = "new_game" THEN "none" ELSE owner
    /\ End(j)
    /\ UNCHANGED <<server, journal, deleting, lock, cleared, seen>>

\* They do not answer: the container is left alone (waitForServer), stopped
\* (stopAfterControlRuntimeFailure), or the job's context ends and nothing more
\* is published.
NotReady(j) ==
    /\ stage[j] = "waiting"
    /\ End(j)
    /\ IF job[j] = "new_game" THEN NewGameFails
       ELSE /\ UNCHANGED owner
            /\ \/ state' = (IF job[j] = "restart" THEN "error" ELSE "stopped")
                  /\ UNCHANGED server
               \/ state' \in {"stopped", "error"} /\ server' = "down"
               \/ state' = "error" /\ UNCHANGED server
               \/ UNCHANGED <<state, server>>
    /\ UNCHANGED <<journal, deleting, lock, cleared, seen>>

\* doStop publishes "stopped" before it stops the services.
StopBegins(j) ==
    /\ stage[j] = "stop"
    /\ state' = "stopped"
    /\ Advance(j, "stopping")
    /\ UNCHANGED <<server, markers, lock, cleared, seen>>

StopEnds(j) ==
    /\ stage[j] = "stopping"
    /\ \/ /\ server' = "down" /\ state' = "stopped"
          /\ IF job[j] = "restore" THEN Advance(j, "files") ELSE End(j)
       \/ state' = "error" /\ End(j) /\ UNCHANGED server
    /\ UNCHANGED <<markers, lock, cleared, seen>>

\* doRestoreAndRestart restores the backup and starts the server again when it
\* had stopped it.
RestoreFiles(j) ==
    /\ stage[j] = "files"
    /\ \/ Advance(j, "prepare") /\ UNCHANGED state
       \/ End(j) /\ state' = "stopped"
    /\ UNCHANGED <<server, markers, lock, cleared, seen>>

\* doResumeNewGameRollback stops the server and finishes the rollback.
Rollback(j) ==
    /\ job[j] = "rollback" /\ stage[j] = "begun"
    /\ \/ server' = "down" /\ state' = "stopped" /\ owner' = "none"
       \/ state' = "error" /\ server' \in {server, "down"} /\ UNCHANGED owner
    /\ End(j)
    /\ UNCHANGED <<journal, deleting, lock, cleared, seen>>

-----------------------------------------------------------------------------
(* The other runners                                                       *)

\* A runner ends without a trace: the new-game runner without a reservation, a
\* preflight or an apply that fails before its first change, an authorization,
\* a farmhand deletion (which acts inside the game), a Mod job that is refused.
EndsAlone(j) ==
    /\ \/ stage[j] = "refused"
       \/ stage[j] = "begun" /\ job[j] \in Updates \cup {"auth", "farmhand"}
       \/ /\ stage[j] = "begun" /\ job[j] = "mod" /\ MutexFree
          /\ (deleting \/ ~OwnerFree \/ ~NoActive(Lifecycle) \/ server = "up")
    /\ End(j)
    /\ UNCHANGED <<state, server, markers, lock, cleared, seen>>

\* runRuntimeUpdateApply stops the server, changes the components and starts
\* the server to verify them.
ApplyStops(j) ==
    /\ job[j] = "apply" /\ stage[j] = "begun"
    /\ Advance(j, IF server = "up" THEN "changing_online" ELSE "changing")
    /\ state' = IF server = "up" THEN "stopped" ELSE state
    /\ server' = "down"
    /\ UNCHANGED <<markers, lock, cleared, seen>>

ApplyVerifies(j) ==
    /\ stage[j] \in {"changing", "changing_online"}
    /\ server' = "up"
    /\ UNCHANGED <<job, stage, state, markers, lock, cleared, seen>>

\* It or its rollback ends in the run state it found, or stopped when it was
\* told to keep the server so; a rollback that fails leaves things as they are.
ApplyEnds(j) ==
    /\ stage[j] \in {"changing", "changing_online"}
    /\ \/ /\ stage[j] = "changing_online" /\ server = "up"
          /\ state' = "running" /\ UNCHANGED server
       \/ state' = "stopped" /\ server' = "down"
       \/ UNCHANGED <<state, server>>
    /\ End(j)
    /\ UNCHANGED <<markers, lock, cleared, seen>>

\* The install runner reports its phases and its result.
InstallRuns(j) ==
    /\ job[j] = "install"
    /\ \/ state' = "installing" /\ UNCHANGED <<job, stage>>
       \/ state' \in {"stopped", "error", "missing_files"} /\ End(j)
    /\ UNCHANGED <<server, markers, lock, cleared, seen>>

\* runImportMaintenance checks again that the instance is offline, publishes
\* its phase and starts the private server.  When the check fails the journal
\* stays behind.
ImportMaintains(j) ==
    /\ job[j] = "import" /\ stage[j] = "begun"
    /\ \/ /\ state \in {"stopped", "maintenance"} /\ server = "down"
          /\ state' = "maintenance" /\ server' = "up"
          /\ Advance(j, "maintenance")
       \/ End(j) /\ UNCHANGED <<state, server>>
    /\ UNCHANGED <<markers, lock, cleared, seen>>

\* The import commits; or the server is stopped and the instance restored; or
\* the effect is uncertain and a person has to decide.
ImportEnds(j) ==
    /\ stage[j] = "maintenance"
    /\ \/ state' = "running" /\ journal' = "none" /\ UNCHANGED server
       \/ state' = "stopped" /\ server' = "down" /\ UNCHANGED journal
       \/ server' \in {server, "down"} /\ UNCHANGED <<state, journal>>
    /\ End(j)
    /\ UNCHANGED <<owner, deleting, lock, cleared, seen>>

\* autoRecoverSafeFailedSaveImport closes the journal of an import that ended
\* without a possible effect.
ImportRecovers ==
    /\ journal # "none" /\ NoActive({"import"}) /\ state # "maintenance"
    /\ journal' = "none"
    /\ UNCHANGED <<job, stage, state, server, owner, deleting, lock, cleared, seen>>

\* withStardewOfflineMutation: the runner takes the mutex, checks, and writes
\* the Mod files while it holds it.
ModLocks(j) ==
    /\ job[j] = "mod" /\ stage[j] = "begun"
    /\ MutexFree
    /\ ~deleting /\ OwnerFree /\ NoActive(Lifecycle) /\ server = "down"
    /\ lock' = j
    /\ Advance(j, "writing")
    /\ UNCHANGED <<state, server, markers, cleared, seen>>

ModEnds(j) ==
    /\ stage[j] = "writing"
    /\ lock' = None
    /\ End(j)
    /\ UNCHANGED <<state, server, markers, cleared, seen>>

-----------------------------------------------------------------------------
(* Reads that write, and the container                                     *)

\* A request loads the instance it is about to reconcile ...
ReconcileReads ==
    /\ seen = None /\ ~deleting
    /\ seen' = state
    /\ UNCHANGED <<job, stage, state, server, markers, lock, cleared>>

\* The state ReconcileState writes for the one it was given.
Reconciled(loaded) ==
    LET owned == ~NoActive(Lifecycle)
    IN  IF deleting \/ (loaded = "starting" /\ owned) THEN {state}
        ELSE IF server = "down"
             THEN IF loaded \in {"running", "starting"} THEN {"stopped"}
                  ELSE IF loaded \in {"stopped", "maintenance"}
                       THEN {state, "missing_files"} ELSE {state}
        ELSE IF loaded \in {"maintenance", "running"} \/ owned \/ ~OwnerFree
             THEN {state}
        ELSE {state, "running"}

\* ... and writes the verdict without a lease.
ReconcileWrites ==
    /\ seen \in States \ {"missing_files"}
    /\ seen' = None
    /\ state' \in Reconciled(seen)
    /\ UNCHANGED <<job, stage, server, markers, lock, cleared>>

\* A start nobody owns, and whose Control has been silent for too long, is
\* given up ...
ReconcileGivesUp ==
    /\ seen = "starting" /\ server = "up" /\ ~deleting
    /\ NoActive(Lifecycle) /\ OwnerFree
    /\ seen' = "orphan"
    /\ UNCHANGED <<job, stage, state, server, markers, lock, cleared>>

\* ... and the services are stopped, without the mutex.
OrphanStops ==
    /\ seen = "orphan"
    /\ seen' = None
    /\ \/ server' = "down" /\ state' = IF deleting THEN state ELSE "stopped"
       \/ state' = (IF deleting THEN state ELSE "error") /\ UNCHANGED server
    /\ UNCHANGED <<job, stage, markers, lock, cleared>>

\* reconcileRestoredGameFiles looks at the files again under the mutex.
RecheckFiles ==
    /\ seen = "missing_files"
    /\ seen' = None
    /\ \/ /\ MutexFree /\ ~deleting /\ OwnerFree /\ NoActive(Kinds)
          /\ state = "missing_files" /\ server = "down"
          /\ state' = "stopped"
       \/ UNCHANGED state
    /\ UNCHANGED <<job, stage, server, markers, lock, cleared>>

\* The server container exits by itself.
ServerExits ==
    /\ server = "up"
    /\ server' = "down"
    /\ UNCHANGED <<job, stage, state, markers, lock, cleared, seen>>

-----------------------------------------------------------------------------
Admit(j) ==
    \/ Start(j) \/ StartNewGame(j) \/ Resume(j) \/ StopRestartRestore(j)
    \/ StartUpdate(j) \/ Install(j) \/ Authorize(j) \/ ImportSaveAndStart(j)
    \/ DeleteFarmhand(j) \/ InstallMod(j)

Run(j) ==
    \/ Prepare(j) \/ RestartBegins(j) \/ Recreate(j) \/ Ready(j) \/ NotReady(j)
    \/ StopBegins(j) \/ StopEnds(j) \/ RestoreFiles(j) \/ Rollback(j)
    \/ EndsAlone(j) \/ ApplyStops(j) \/ ApplyVerifies(j) \/ ApplyEnds(j)
    \/ InstallRuns(j) \/ ImportMaintains(j) \/ ImportEnds(j)
    \/ ModLocks(j) \/ ModEnds(j)

Next ==
    \/ \E j \in Jobs : Admit(j) \/ Run(j)
    \/ \E request \in {"mod", "update", "auth", "farmhand"} : Clear(request)
    \/ DeleteInstance \/ ImportRecovers
    \/ ReconcileReads \/ ReconcileWrites \/ ReconcileGivesUp \/ OrphanStops
    \/ RecheckFiles \/ ServerExits

Spec == Init /\ [][Next]_vars

-----------------------------------------------------------------------------
(* Properties                                                              *)

\* While a new-game transaction owns the instance, whether its job runs, has
\* failed or was never resumed, the only other active jobs are Mod installs
\* that have not written anything, no import is unfinished and the instance is
\* not being deleted: the snapshot a rollback restores stays the right one.
OwnerExclusive ==
    owner # "none" =>
        /\ \A j \in Jobs : \/ job[j] \in {"none", "new_game", "rollback"}
                           \/ job[j] = "mod" /\ stage[j] = "begun"
        /\ journal = "none" /\ ~deleting /\ lock = None

\* A runtime update never shares the instance with a lifecycle job, a download
\* or another update, in whichever order they were requested.
UpdateAlone ==
    \A j, k \in Jobs :
        job[j] \in Updates /\ job[k] \in Lifecycle \cup Downloads \cup Updates
        => j = k

\* No lifecycle job stops or replaces the server while a farmhand is being
\* deleted inside the running game.
FarmhandUndisturbed == ~NoActive({"farmhand"}) => NoActive(Lifecycle)

\* While a Mod install writes, no lifecycle job is active, and no new-game
\* owner or deletion record exists, although its row was inserted without the
\* mutex on the strength of checks that may be stale.
ModWritesAlone ==
    \A j \in Jobs : stage[j] = "writing" =>
        /\ lock = j /\ NoActive(Lifecycle)
        /\ owner = "none" /\ ~deleting

\* Once an instance has a deletion record no job of it is active, also not one
\* whose request was checked before, and nothing brings its server up.
DeletedQuiet == deleting => NoActive(Kinds) /\ server = "down" /\ state = "error"

\* Jobs whose work would collide are kept apart in every order of the requests,
\* and a job is never beside a deletion record.
JobsApart == UpdateAlone /\ FarmhandUndisturbed /\ ModWritesAlone /\ DeletedQuiet

\* Claimed by docs/02-backend.md: an unfinished import journal excludes start,
\* stop, restart, restore, installs, Mod writes and runtime updates.
UnfinishedImportAlone ==
    journal # "none" =>
        NoActive(Lifecycle \cup Updates \cup {"install"}) /\ lock = None

\* Claimed by the comment in ReconcileState: a reconcile never turns a starting
\* state that a lifecycle runner owns into stopped.
ReconcileLeavesStarting ==
    [][ReconcileWrites /\ state = "starting" /\ ~NoActive(Lifecycle)
       => state' # "stopped"]_vars
=============================================================================
