# Formal models of the Stardew Server Anxi Panel

The panel is a Go service (`src/backend`) that installs, starts, updates and
repairs a modded Stardew Valley server (JunimoServer under SMAPI) in Docker. Its
state is spread over an SQLite database, JSON journals in the data directory of
each instance, the Docker containers themselves and the memory of one process.
Long operations are *jobs*: a row in the database and a goroutine. What goes
wrong in such a program goes wrong between those four places: a crash after one
of them was written, a job admitted on the strength of a check that is no longer
true, two jobs on one instance. That is what these modules are about.

    tlc -workers 2 -config jobs_recovery.cfg MCJobManager.tla
    tlc -workers 2 -config instance.cfg MCInstance.tla
    tlc -workers 2 -config operations.cfg MCPanelOperations.tla
    tlc -workers 2 -config runtime_update.cfg MCRuntimeUpdate.tla
    tlapm JobManagerProofs.tla

## Inventory

Paths are relative to `src/backend/internal`; `sj` is `games/stardew_junimo`.

| Component | State | Operations | What makes it correct |
|---|---|---|---|
| Job manager (`jobs/manager.go`, `storage/jobs.go`) | rows of `jobs` with unique indexes; goroutines, their contexts, the map of cancel functions | Start (plain, exclusive, idempotent), BeforeRun, run, settle, Cancel, ClearJobs, RecoverInterruptedJobs at boot | one install per instance; one job per idempotency key; a terminal status is final; every job ends; no instance is stranded in a phase of a dead job |
| Instance state (`storage/instances.go`) | `state`, `driver_phase`, `driver_payload` | leased write (while the job is active), unleased write, snapshot restore | a job writes only while it holds the instance |
| Install, Steam authorization (`sj/installer.go`, `junimo140_install.go`, `steam_invite_*.go`) | volume plan, `.env`, SteamCMD's login, the session and its container | choose and fill a volume, download, verify, retry, authorize invite codes, recover at boot | what is shown as installed is whole; a retry keeps what was downloaded |
| Lifecycle (`sj/lifecycle.go`) | job with an operation, state, server container | Start, Stop, Restart, RestoreBackupWithRestart, new game, resumption, rollback | one operation at a time; never beside an update, import, download or farmhand deletion |
| New-game transaction (`sj/new_game_transaction*.go`) | durable record, owner directory, marker in the world | claim, resume, rotate, commit, rollback, release | an owner is released only when the game is committed or the old one restored |
| Save import (`sj/save_import_*.go`, `web/pending_uploads.go`) | journal, upload token, maintenance container | validate, stage, back up, submit, confirm, activate, verify, recover | an import is submitted at most once, and never rolled back once confirmed |
| Runtime, SMAPI updates (`sj/runtime_update_*.go`, `smapi_update_workflow.go`) | status file, recovery manifest, images, volumes | preflight, apply, rollback, repair, recovery at boot | after any crash the old or the new pair runs, never a mixture |
| Group and full-stack upgrades (`sj/junimo140_group_*.go`, `full_stack_*.go`) | group journal, lease, coordinator operation | prepare, confirm, apply, roll back over several instances | all worlds of a group end on the same side |
| Saves and backups (`sj/saves.go`, save handlers, `web/backup_maintenance*.go`) | saves directory, backups, save events, policy | select, delete, back up, restore, retain, maintain | what the panel removes is in a backup; a running server has its world |
| Mods (`sj/mods.go`, `mod_profiles.go`, `web/stardew_mutation_guard.go`) | mods and mods-disabled, profiles | upload, install, update, delete, apply a profile at a start | an installed Mod stays until somebody deletes it; a start loads what the profile says |
| Control commands (`storage/control_commands.go`, `web/control_commands.go`, C# mod) | ledger, command and result files | give, record, scan, mark stale, clean up; the mod's consume, act, answer, resume | an outcome reaches its reader; an interrupted command is not repeated |
| Restart scheduler (`web/restart_schedule_handlers.go`) | schedule rows, warnings sent | tick, warn, shut down, start up | one shutdown and one startup per window |
| Role passwords (`sj/role_credential_store.go`, `player_auth_config.go`, C# mod) | store, marker, lock file, key in `.env` | set and clear, first login, roll back | the key opens every password; nobody reopens a role by accident |
| Farmhand deletion (`sj/farmhand_delete.go`) | job, game API | broadcast, save, delete, verify | the server is not stopped underneath it |
| Reconciliation (`sj/driver.go` ReconcileState) | a copy of the instance row | compare with Docker, correct the state, give up an orphaned start | it does not overrule the job that owns the instance |
| Provisioning, deletion (`sj/instance_provision*.go`, `instance_delete.go`, `storage/instance_*.go`) | provision token, deletion record with triggers | create, recover, delete in stages | a deleted instance stays deleted and quiet |
| Panel self-updater (`updater`) | status file, helper container, heartbeat | prepare, hand over, apply, verify, roll back | the panel that ends up running is verified |
| Accounts (`storage/auth.go`, `web/auth_handlers.go`, `users_handlers.go`) | users, sessions, the flag initialized | set up, sign in, administer | there is always exactly one first administrator, and only it makes others |
| Rosters and player commands, Nexus client, Docker wrapper, frontend, browser extension, deployment | rows, files, nothing | request handlers, parsers, external commands | sequential code that tests reach |

**How they interact.** A web handler reconciles and checks the instance, then
calls the driver. Every driver operation that creates a job takes one process
mutex, `runtimeUpdateMu`, reads the active jobs and the durable markers (new-game
owner, import journal, deletion record) and inserts its row before it releases
the mutex; the job manager then runs the job in its own goroutine, which writes
the instance state through a lease (the row must still be active) and drives
Docker. Mod installs insert their row without the mutex and hold it while they
write instead. Status requests reconcile the state with Docker at any time, with
an unleased write. With the game the panel shares directories: commands and
results, save events, the role passwords; the control mod inside the game is the
other side, a process of its own with its own crashes. At boot the panel first
recovers interrupted jobs, then provisions, updates, imports and group upgrades,
and only then serves.

**What is hard.** Crashes between two durable writes; checks made before a mutex
is taken; a writer without a lease; a context that expires after the effect and
before its record; runners that fail in the middle; retries with the same key;
two processes on one file. `PROJECT.json` lists the hazards at their lines.

## Modules

| Module | Models | In the run |
|---|---|---|
| `JobManager`, `MCJobManager` | the job manager, the `jobs` table and the instance state its recovery repairs | `jobs_recovery`, `jobs_faults` |
| `InstanceAdmission`, `MCInstanceAdmission` | which jobs may work on one instance at the same time | `instance` |
| `NewGameTransaction` | one durable new-game transaction with its runner, its files and the game | `instance` |
| `NewGameOutcome` | what a new game promises to the rest of the panel; NewGameTransaction implements it | `instance` |
| `SaveLibrary` | the saves of an instance, their backups, restores and maintenance | `instance` |
| `ModLibrary` | the Mods of an instance, their profiles and what a start makes of them | `instance` |
| `ControlCommands` | commands to the game, their results and the ledger | `instance` |
| `MCInstance` | the five above in one run, of which one moves | `instance` |
| `RuntimeUpdate` | one instance's Junimo update: apply, rollback, repair, recovery at boot | `runtime_update` |
| `SmapiUpdate` | one instance's SMAPI update: clone, switch, rollback, recovery at boot | `runtime_update` |
| `Installer` | the installation of the game and the authorization of invite codes | `runtime_update` |
| `MCRuntimeUpdate` | the three above in one run | `runtime_update` |
| `SaveImport` | one import of an uploaded save, from the request to players being let in | `operations` |
| `InstanceLifetime` | creation and staged deletion of worlds, with their claims on jobs | `operations` |
| `GroupUpgrade` | the upgrade of all worlds that share a game volume | `operations` |
| `PanelUpgrade` | the panel's own upgrade by a helper container and the full-stack operation after it | `operations` |
| `Accounts` | users, sessions and requests that are let in on them | `operations` |
| `RestartScheduler` | the daily maintenance window of an instance | `operations` |
| `RoleCredentials` | the passwords of the players' roles, written by panel and game | `operations` |
| `MCPanelOperations` | the seven above in one run | `operations` |

The proofs are in modules of their own, grouped by what they are about:

| Module | Proves about |
|---|---|
| `JobManagerProofs` | `JobManager` |
| `NewGameProofs` | `NewGameTransaction` and that it implements `NewGameOutcome` |
| `InstanceProofs` | `InstanceAdmission`, `SaveLibrary`, `ModLibrary`, `ControlCommands`, and `MCInstance` as their composition |
| `ImportProofs` | `SaveImport` |
| `UpdateProofs` | `Installer`, `SmapiUpdate`, and `MCRuntimeUpdate` as their composition with `RuntimeUpdate` |
| `RuntimeProofs` | `RuntimeUpdate` |
| `PanelProofs` | `Accounts`, `RoleCredentials`, `InstanceLifetime`, `RestartScheduler`, `PanelUpgrade` |
| `GroupProofs` | `GroupUpgrade`, and `MCPanelOperations` as the composition of the seven |

The composing MC modules hold a variable `focus` that picks the module that
moves; the others rest. Those modules share no record (each takes the others as
its surroundings, as a step that may happen to it), and the admission rules
checked in InstanceAdmission keep one operation from starting inside another. So
every behaviour of each module is a behaviour of the run, and the state space is
the sum of theirs. The type invariants are asked of the module that moves.

### JobManager

Durable state: `status` (the column, `"absent"` without a row), `spec` (the
columns that never change: type, target, idempotency key, captured snapshot) and
`inst` (what the properties tell apart of `state` and `driver_phase`). State of
the process, lost in a crash: `pc` (where the goroutine is), `ctx` (its context),
`cancels` (the map of cancel functions), `canceling` (Cancel calls between their
read and their write). `panel` is up, down, or recovering with the rows in `todo`
still to be marked; `crashes` counts.

Each action is one statement group that commits: `CreateExclusive` and
`CreateIdempotent` are the two transactions of Start; `PrepareFails` and `Launch`
are what follows in it; `StartRow`, `RunnerWrites`, `RunnerSucceeds`,
`RunnerFails`, `RunnerPanics` and `Settle` are `Manager.run` with the runner;
`CancelRunning`, `CancelReads` and `CancelWrites` are Cancel and CancelActive;
`Clear` is ClearJobs; `ListInterrupted`, `MarkInterrupted` and `FailInterrupted`
are RecoverInterruptedJobs, which may be interrupted anywhere by `Crash`. Three
job types stand for all: an exclusive install, an exclusive authorization with a
snapshot and an import with an idempotency key.

`Faults` says which failures besides crashes occur: `"db"` (a database call of
the manager fails), `"panic"` (a runner panics), `"cancel"` (Cancel is called).

Left out: job logs and their subscriptions. (Read there: a page that opens a
job's stream replays the log before it subscribes, `web/jobs_handlers.go`
351-420, so an event between the two is not sent to it; the page polls as well.)

### InstanceAdmission

One instance and the rows of its jobs. `job` and `stage` are the active jobs and
how far their runners are; `state` and `server` the persisted state and the
container; `owner`, `journal`, `deleting` the three durable markers; `lock` the
Mod job that holds the mutex; `cleared` the requests whose early checks in the
web layer have passed and may have become stale; `seen` the state a
reconciliation has loaded.

An admission is one step, because the mutex is held from the reads to the insert
and meanwhile other jobs can only end, which opens gates and never closes them.
The gates are named after the functions: `RuntimeUpdateFree`
(rejectActiveRuntimeUpdate), `SaveImportFree` (rejectActiveSaveImport),
`FarmhandFree` (rejectActiveFarmhandDelete), `OwnerFree`
(rejectUnfinishedNewGameOwner), `Row` (the insert under the trigger of migration
015). The runners appear with every write of the state, the container and the
markers, including their failures: doStart, doStop, doRestart,
doRestoreAndRestart, the rollback of a new game, a runtime update, an import, an
install. ReconcileState is split at its read, so that its verdict may be stale.
`ServerExits` is the environment.

The panel process does not crash in this module; JobManager does that.

### NewGameTransaction

`disk` is transaction.json, `mem` the copy the runner works on, `pc` where the
runner is: every `tx.persist` is one step that replaces `disk` or fails and leaves
it, so memory may be ahead of the file. `reserved` is the durable owner, `start` a
manual Start between its read of the record and its job. The world is `files`
(the seven reversible files, the Mod set among them), `target` (the save the
pending marker names), `loader` (the game's pointer), `dirs` and `quar` (the new
save directories and those in quarantine), `game` (container and status file),
`published` and `finished` (save-now commands), `posts` (requests sent).

The actions follow the code in its order. Admission: `Claim`, `Reserve`,
`StartRead`, `StartCleans`, `StartJoins`, `StartJob`. doStart: `Preflight` to
`AwaitServer`, with `PrepareFiles` for the files it writes. sendNewGameCommand:
`AwaitCatalog` to `Release`, among them `PostNewGame`, `BindCandidate`,
`Publish`, `AwaitSaved`, `VerifyDisk`, `CommitProfile` and `Complete`. `GiveUp`
lets any of the forward steps return an error before it did anything; steps with
a partial effect have a failing disjunct of their own. The two deferred failure
handlers are `Prefail` and `Recheck` with `Preserve` or `Undo`; a rollback is
`StopContainers`, then `Apply` and `Checkpoint` for each step, then
`FinishRollback`; `Recover` is doResumeNewGameRollback and `TakeOver` a Start
that goes on. `Crash` ends the panel anywhere; containers stay. The game creates
saves, writes directory and pointer in either order, loads, saves, answers the
catalog request and exits on its own.

Abstractions: the owner's token and its rotation are left out (one panel process
has one runner, so a fence cannot fail); a save directory is a name, its XML files
appear with it, and the repair of a truncated pointer is part of `GameWrites`;
`Seen` is the whole of observeNewGameProgress. The branch of continueRollback
for `mod_profile_commit_failed` is left out because a profile is committed only
after progress was recorded, which excludes a rollback.

**NewGameOutcome** says the same without journal, steps and game: the world is
old, between or new, the outcome none, open, kept or undone, and the instance is
reserved or not. It is freed only with the world of its outcome, and the outcome
does not change. In NewGameTransaction `Outcome == INSTANCE NewGameOutcome WITH`
maps `world` to what the files, the saves, the pointer and the marker add up to,
`outcome` to the record's verdict while the owner exists, and `held` to
`reserved`;
`ImplementsOutcome` is checked as a property of the run. It covers a race of the
code: a Start that read an unfinished record may run a transaction that is over
by then, rehydrated without token or fence (newGameOwner); such a run ends
without effect.

Seen and not claimed otherwise: the comment at `sj/lifecycle.go:1046` says that a
late advance of pointer or directory is never erased, but the game goes on between
that look and the end of the stop, and a pointer it writes then is restored to the
old value. In `Decided` a rollback answers for the saves that existed when it
began (its durable plan); one created later, as under the finding
`newgame_stop_first`, stays where it is.

### SaveLibrary

Two farms. A save is the number of the game's write it holds (`take`) with its
game day; `pointer` is the save the next start loads; `zips` the backups, whose
names are a kind, a save and a second or a game day, so two may collide;
`saveEvents` what the control mod has announced; `loaded` and `played` the
running server. `asked` is a request that has made its checks and waits for the
mutex, `act` what holds it or the restore_restart job, `maint` the maintenance
and `cron` the schedule's backup, which holds nothing. The actions follow
selection, deletion (`DeleteEnter` to `DeleteSave`), restores in place and with
a restart, the maintenance from `ReadSaveEvent` to `ConsumeEvent`, and the two
writers outside the panel, the game and the schedule. `removed` are the writes
the panel has taken out of the saves directory, `waived` those whose only backup
an administrator deleted or overwrote: `WorldKept` says every other is still in
a save or a backup.

### ModLibrary

Three packages stand for the relations between Mods: one needs another, and two
come from one page. All that writes holds `runtimeUpdateMu` with the server down
and nothing else looks meanwhile, so an operation is one step, with the outcome
of its success or one that a failing step or the death of the panel leaves
behind. `place` is where the folder of a Mod is, `aside` a copy an update has set
aside, `profile` mod-profiles.json, `run` what the server has loaded. `owed` are
the Mods somebody installed and nobody asked to delete; `spilled` and `unlucky`
the two ways in which the code loses one all the same (the undoing of a batch
that takes a Mod along that was there before, and a failed update whose undoing
fails), which `ModsKept` excepts.

### ControlCommands

Both sides of the directory of commands and results. `given`, `ledger`, `scans`
are the panel's: the request that gives a command, its row, and the readers that
move results into rows, any number at once; `queue`, `result` the files; `hand`,
`pending`, `saveJournal` the mod's: the command it is on, the save it waits for,
its own journal. `ways` says whether a command is plain, a save, or a save whose
id a transaction has on record (`waiting`). A time is twice the number of the
result, plus one unless it is the same millisecond. `answered` and `cut` are
history: commands the mod gave an outcome, and plain commands the game died over
without one.

### RuntimeUpdate

`status` is apply-status.json, `man` manifest.json with the recovery directory,
`mem` the job's copy of it; `env`, `control` and `mods` are the files, `server`
and `auth` the containers by the configuration they started with, `session` and
`snapshot` the volumes, `images` what can still be restored, `db` the persisted
running state. `need` is what differs from the target, `asked` and `checked` the
request that waits and its dry run.

`Runner` is the job: `Apply` (from the snapshot of the materials over the changes,
verification and cleanup to the terminal phase), `Rollback`, `Repair`. `Boot` is
what reconcileRuntimeUpdateRecovery does: settle, roll back or clean up. `User`
asks for a dry run, an update, a repair or a retry and starts and stops the
server. Every step may fail, and `Crash` may fall between any two. The phases
between stopping and restoring_state are one, since no code reads the difference;
a retry uses a directory of its own.

`unrecorded` is a history variable for two things that no manifest says, and
that two invariants except: a job that ended without a terminal phase, after
which the user starts the server or another update; and a first intent that could
not be written although the rollback runs all the same.

### SmapiUpdate

`report` is apply-status.json, `kit` the recovery directory, `volume` what .env
names, `clone` the copy and how far it is, `controlMod`, `bundled`, `spare` the
files that are replaced, `game` the containers; `work`, `held` and `duty` are the
job, `late` a boot that has read a phase and is about to write it again. The
apply runs `BackupControl` ... `SmapiSucceeds`, `Tidy`; the rollback
`UndoStop` ... `SmapiRolledBack`; the boot resumes, undoes or notes. `was` and
`origin` record what was there when the update was asked for, and `SmapiOutcome`
compares with it. `unnoted` marks the stop of the finding `smapi_switch_crash`,
which `SmapiOutcome` excepts. Seen: the branch of the rollback for a server that
is kept stopped without a switch is unreachable, and a rollback at boot leaves
the clone behind.

### Installer

One instance and "elsewhere" (SteamCMD running for another). `base` is the
instance's state, `named` the volume .env names, `disk` and `plan` the volumes and
their journals, `using` the volumes a container refers to, `left` the volumes an
abandoned container still writes into, `task` and `authStep` the two jobs,
`invite`, `inviteSession`, `holder` the authorization. `RequestInstall` ...
`VerifyInstall` are the installation, `RequestAuth` ... `EndAuth` the
authorization, `BootJobs` and `BootInvite` the recovery. A part of a game is one
where a file that the verification asks for is missing; database writes of the
state succeed (JobManager has the others); Play is a start and a stop. Left out:
the change of the shared account outside an installation, the one-time
convergence of instances whose invite codes are off, and the login as the wrong
account, which counts as a failed one.

Seen and not claimed otherwise: an installation whose completed volume a stopped
container refers to is refused for good (ValidateUnused), as is the cloning of an
empty older volume; a cancelled installation leaves the state steam_auth_running
and a fresh volume for the next; after a failed early step of a *re*installation
the retry goes on in the completed volume (`sj/junimo140_install.go:162`).

### SaveImport

`token` and `payload` are the upload, `journal` journal.json, `row` the job,
`target`, `pointer`, `intent`, `boot` the saves directory, `inst` the instance
row, `game`, `cmd`, `save` the container, Junimo's progress with the import and
the save-now command; `pc`, `work`, `kept` are memory; `submits` and `saves`
count the commands published. The groups follow the files: the request (handler,
move of the upload, job row), `ImportStages` with the private game
(`RecreateServer`), the restore (`SwapRollback`), the submission and conclusion
from the disk, activation and durable save, rollback, cleanup, the recovery at
boot, and what the game does by itself. A stage and its evidence are written by
one step, or not.

Seen and not claimed otherwise: between the move of the upload and the insert of
the job row, and between the name, the build, the record and the selection of a
bootstrap save, a stop leaves a transaction that only an operator can remove;
RecoverImportTransactions reads, changes and writes journals, which would lose
an update of a live import (it is called only where none runs); a swap that
finishes before the first poll is taken for half a conversion and restored; the
outcome "contradictory" is unreachable.

### InstanceLifetime

`db` holds per world its row, the claim of its creation and the record of its
deletion, `res` what exists in Docker and on disk and whose it is, `jobs` the
active jobs, `next` the ordinal. `step`, `who`, `cause` are the holder of
`instanceCreateMu`, `todo` what the boot has still to look at. `Provision` makes
a world, `TakeBack` removes what carries its token, `Deletion` works off the
record, `Booting` does either for what it finds, `Surroundings` are jobs, the
game and other users of the same names. Two dead ends of the code appear in it:
a removal that ends after `owner.json` and before the rest leaves a directory
that cleanup takes for another's, so the template stays fenced (a retry, as
`web/instance_handlers.go:231` advises, does not help); and a failed row without a
claim whose directory has no `.env` cannot be deleted.

### GroupUpgrade

Durable: `lease` per member, the owner's `manifest` and `txn`, the `published`
status, `rows` of the members. Docker: `image`, `runs`, `staging`. `content` is
what a member's files and session consist of, `command` its save-now. `hold`,
`at`, `member` and `turn` are the process. A checkpoint writes manifest and
transaction.json one after the other, and a stop may fall between. `StartSteps`,
`ApplySteps` and `RollbackSteps` are the job; `GroupBoot`, `RecoverGroup` and
`NothingToRecover` what boot does, which it asks for every member in turn.
`refused` turns TRUE when a validator of the panel rejects what the panel wrote.

Seen and not claimed otherwise: a lease that was torn by a stop blocks every
member for good; a terminal record whose later writes fail leaves leases until
the next boot; a server that dies between the snapshot and its stop intent makes
every abort fail; what was played between the restart of the servers and the
commit is lost if the commit fails.

### PanelUpgrade

Three processes: the panel (`process`, `panelImage`), the helper container
(`helper`, `apply`, `tried`), and in the panel's memory the coordinator
(`coord`) and the job of a group (`job140`). `stack` is the full-stack operation
on disk, `txn140`, `told`, `leased` and `receipt` what it knows of each group, in
the order in which the group writes them; the group's own steps are GroupUpgrade.
`AdminApply`, `AbortBeforeHelper`, `ApplyUnwritten` and `StartApplyHelper` hand
over to the helper (`AdvanceHelper`); `PanelStopped`, `PanelStarts` and
`Recover140` are the recreation of the panel, by the helper or by itself;
`PrepareFullStack`, `Preflight`, `Confirm140`, `CancelPrepared`, `Expire` the
operation's requests; `TickSteps` and `RunnerSteps` the coordinator,
`RecoverGroups`, `GroupEnds`, `GroupTells` and `GroupReleases` the group. An
image is the old one, the new one or the new tag after it was moved, because an
apply without a digest pulls it. The directory of an operation's transaction is
made once (`claimJunimo140Group` refuses to reuse it), so `StartGroup` fails where
there is one, and changes nothing by it; a start that fails on its way leaves what
it has written, the leases included.

Left out: conversion of legacy deployments, dry runs, an error of `docker run`
that leaves a live helper behind, a restore of the database under a panel that
could be neither stopped nor inspected, a group status that cannot be read, the
removal of images afterwards. Seen and not claimed otherwise: an operation
can still be cancelled after its first group was started when the write of
"applying" failed; an apply that lost its helper blocks every later one; an
operation whose panel was updated by an ordinary apply waits until it is
cancelled.

### Accounts

`users` and `signedIn` are the tables, `ready` the flag initialized in the
process, `requests` what each request under way has read. A request is let in on
a session (`RequireAdmin`) before its body is decoded and a password hashed; what
it does afterwards is one transaction (`CreateUser`, `UpdateUser`, `DeleteUser`),
and the others may have changed the accounts meanwhile. `SetupBegins` ...
`SetWorldState` is the set-up, which is a check, a transaction and three further
writes. A name stands for its row; `legacy` and `world` are the two places where
the set-up leaves a state.

### RestartScheduler

`plan` is the configured half of the row, `marks` its two timestamps, `tick` the
tick under way with the row as it was listed, `warned` the announcements of this
panel, `host` the server with the lifecycle job on it. The clock counts units in
each of which a tick fits. `maintained`, `closed` and `disturbed` are history:
`ScheduleKept` promises a window with no disturbance (a fault, a user's
operation, a change of the plan, a slow tick) one shutdown and one startup, and
any window at most one shutdown. A startup configured for the same time as the
shutdown comes a whole day later, as in the code.

### RoleCredentials

`authEnv` is .env, `store`, `marker` and `roleLock` the three files, `access` by
process where panel and game are on the store and what they have read, `update`
what the panel is writing, `player` the role that logs in, `gameAuth` what the
mod makes of the files. A password is the key its record was made with. One
save; the records of others are carried along. A read of the marker and the store
is one step, a release one step, one game login at a time happens on the main
thread, refusals by revision leave no trace, and a live holder of the lock is
done within the two minutes after which it may be broken (`robbed` records that
one was not). `stuck` is an update that could not be undone.

Seen and not claimed otherwise: two processes that both look at a stale lock can
break it one after the other, the second a live one, and an enrolment is lost; a
first publication interrupted between marker and store leaves a state with no
remedy in the panel (`sj/role_credential_store.go:386`); when a rollback of the
store fails and the one of .env does not, a key is gone that passwords need.

## Runs

| Run | Bounds | Distinct states | Shows |
|---|---|---|---|
| `jobs_recovery` | 3 jobs, 1 instance, 1 key, 2 crashes, no other fault, with fairness | 88,109 | no phase without a job, authorizations give back, every job ends |
| `jobs_faults` | 2 jobs, 2 instances, 1 key, 1 crash, database errors, panics, cancellation | 3,266,813 (up to symmetry) | one install per instance |
| `instance` | 2 jobs; a new game with 2 saves, 2 failing steps, 1 stop; 2 writes of the game, 3 requests, 1 fault, 1 stop on the saves; 3 requests, 1 fault, 1 stop on the Mods; 1 command, 2 readers, 1 death of the game | 3.24 million: jobs 305 k, new game 1.06 M, saves 1.31 M, Mods 276 k, commands 288 k | what one instance promises while its jobs, its new game, its saves, Mods and commands go on |
| `operations` | import: 3 faults, 3 stops; 2 worlds, 2 faults, 1 stop; a group of 2, 2 faults, 2 stops; a full-stack operation over 2 groups, 2 faults, 1 stop; 3 names, 2 requests; days of 3 units, 2 disturbances; 2 roles, 2 keys, 1 fault or death | 2,187,181: import 151 k, lifetime 400 k, group 494 k, panel upgrade 228 k, accounts 64 k, schedule 458 k, passwords 392 k | what each operation reports or publishes is true of what it leaves |
| `runtime_update` | Junimo: 1 repair, 2 failing steps, 2 stops; SMAPI: 3 and 3; 2 volumes, 2 failing steps, 1 stop | 1,886,906: Junimo 1.54 M, SMAPI 143 k, installations 202 k | what is reported as installed, updated or rolled back is so, a boot starts nothing, a crash settles |
| `import_busy`, `reconcile_starting` | 2 jobs | stop at the counterexample | disagreements of docs or comments with the code, below |
| `newgame_stop_first` | 1 save, 1 failing step, 1 stop | stops at the counterexample | a disagreement, below |
| `runtime_cleanup_crash`, `smapi_switch_crash` | 1 stop | stop at the counterexample | disagreements, below |
| `result_lost` | 1 command, 1 reader | stops at the counterexample | a disagreement, below |
| `downloads_overlap` | 1 volume, 1 failing step | stops at the counterexample | a disagreement, below |

Some properties are the conjunction of what a component promises at its end:
`OutcomeTrue` is `RolledBackIsOriginal`, `SucceededIsTarget` and
`FailedKeepsMaterials`; `Decided` is `SettledBeforeFree` and `SuccessIsDurable`;
`ServedAsRecorded` is `PublishedWhenDurable` and `PrivateAccounted`;
`FailedChangesNothing` is `CanceledLeavesNothing` and `RolledBackRestored`;
`ScheduleKept` is `ComesBack` and `AnsweredOnce`; `OutcomesReachReaders`,
`GroupAccounted` and `ReportsTrue` likewise name their parts where they are
defined.

**Bounds.** Two crashes are the smallest number that interrupts a recovery and
then completes it; three jobs let a job that was created after the first recovery
meet one that it failed. Rows are reused after ClearJobs, so sequences of jobs
are not bounded by the number of rows. A violated exclusion between jobs needs
two; markers and states are finite by themselves. For a new game two saves are
what ambiguity needs, and two failures let a rollback fail and its continuation
fail again. The saves have two writes of the game, so that an older one can be
restored over a newer one, and three requests, of which one may wait while two
change what it has read; the Mods likewise. A command needs two readers to be
imported twice. In `runtime_update` one stop interrupts the job and another the
boot that resolves it, and of two faults one fails a rollback and one its repair
(`RepairLimit`). In `operations` an import needs three faults to fail forward, in
its rollback and in the repetition of that; two worlds share one template; a
group of two is where one member is done and the other is not; `Plans` is one
full-stack operation, after which evidence of it remains. Two requests under way
are one that has looked and one that changes what it saw. A day of three units
has a time before, at and after the shutdown, and `Horizon` is two days and a
bit, so that a stale mark of the day before meets the next. `CredentialFaults`
counts failing writes and deaths together and is one, so `stuck`, which takes
two, never arises in the run; the theorems cover it. `UpdateSize` is one role
per update, `RoleKeys` the old key and a new one. The theorems remove the bounds
where there are theorems.

**Fairness.** `FairSpec` asks weak fairness of the goroutine of each job (the Go
scheduler runs it, and its context expires, so a runner that hangs returns), of
the rest of a Start call and of the steps of the boot recovery (the deployment
restarts the panel, which serves only after recovery). Nothing is asked of
creation, cancellation or crashes, whose number is bounded. `RuntimeUpdate` asks
it of the runner, whose Docker calls all have timeouts, and of the steps of the
boot; users, crashes and failures are free. The other modules check safety only.

**Deadlock** is checked in the job runs. It is not in the others: an instance
with a deletion record accepts nothing more, a transaction, an update or an
operation ends, and one whose game never answers waits.

### Findings

* `import_busy`: `docs/02-backend.md:933` says that an unfinished import excludes
  start, stop, restart and updates. ImportSaveAndStart does not look at active
  lifecycle jobs, so it is admitted while a start prepares; the other direction
  is refused.
* `reconcile_starting`: the comment in ReconcileState (`sj/driver.go:695`) says
  that a reconcile must not turn a `starting` owned by a lifecycle runner into
  `stopped`. It compares the row its caller loaded earlier, and so it does.
* `newgame_stop_first`: `docs/02-backend.md:1023` says that a failure first stops
  the server and then restores, and the comment at `sj/lifecycle.go:917` that no
  runtime mutation has happened when the early handler runs. After a stop of the
  panel the containers keep running; a Start that takes the transaction over and
  fails early rolls back under them, because the handler does not look, and the
  main one stops only what its own job started.
* `runtime_cleanup_crash`: `docs/02-backend.md:721` says that success and
  rollback alike are durable before snapshot, images and directory go. The
  rollback does so; a successful apply removes them first. After a stop in between
  the boot rolls back, restores the session from a volume that Docker creates
  empty, and reports a rollback.
* `smapi_switch_crash`: the comment at `sj/smapi_update_workflow.go:269` says that
  before the switch of the volume a recovery discards the staging volume and after
  it restores the old one. `.env` names the clone before the manifest says so; a
  stop in between makes the boot discard the volume that `.env` names.
* `result_lost`: `docs/02-backend.md:2295` says that a result's file goes only
  after the result is in the ledger. A command is visible to the mod before its
  row exists; a result that is older than the row changes nothing in the ledger,
  without an error, and its file is deleted.
* `downloads_overlap`: the comment at `games/steamcmd/manager.go:186` says that
  game downloads must not write the login volumes at the same time. A download
  whose context ends leaves its container running, for only the client is killed,
  and gives up its turn.

## Proofs

A theorem holds for all values of the constants: any number of jobs, instances,
saves, worlds, names, requests, faults and stops. Each rests on an inductive
invariant that TLC checked on a bounded instance before it was proved; where the
invariant needs one fact more than the property, that fact is the argument.

* **JobManagerProofs.** The type invariant; at most one active install per
  instance (`SingleInstall`) from the partial unique index, which `RowStep`
  reduces every step to: a step inserts a row, moves the status of one row or
  deletes terminal rows; one job per idempotency key (`KeyBoundOnce`). Nothing is
  assumed about the faults. With crashes as the only fault (`CrashesOnly`, stated
  in each theorem) `InstallPhaseOwned`, `AuthGivesBack` and `TerminalIsFinal`. None
  of them is inductive. `IInv` adds that goroutine and row agree while the panel
  serves (`Handshake`), that installs and authorizations of an instance exclude
  each other (`OneWriter`), that a phase is held by a running job or by a row
  recovery has still to mark (`PhaseHeld`), and where the instance of an active
  authorization can be (`Borrowed`). The last two carry the crash: recovery marks
  before it fails the rows, so a second crash finds them active again. With
  database errors, panics or Cancel the three do not hold as stated; the hazards
  say how.
* **NewGameProofs.** Type correctness, `PostedOnce`, `OneSaveCommand`,
  `TargetBound`, `WriteAhead`, `ProgressIsNeverUndone`. The argument is about
  memory and file: `Follows` says that while a runner is at work its copy knows
  everything the file says (a sent request, progress), and that save, command and
  rollback are never ahead of the file; `Positions` what the runner may rely on
  where it is; `Sole` that every command is the one on record. Most actions leave
  a record that says no less (`SaysNoLess`). A second invariant is about the world:
  `Records` (what the file says of where the transaction is), `Stands` (whether
  the owner stands), `Play` and `Evidence` (what a success rests on), `Journal`
  (how far a rollback is, and what it has put back), `Over` (what is left when the
  owner is gone). From it follow `Decided`, and `ImplementsOutcomeHolds`: every
  step of the transaction is a step of `NewGameOutcome` or a stutter. TLC found,
  while the invariant was made, that a runner whose "success" could not be written
  keeps it in memory when it goes on to fail and preserve; the invariant allows it
  there and only there.
* **InstanceProofs.** *Admission:* type correctness, `UpdateAlone`,
  `FarmhandUndisturbed`, `DeletedQuiet`, `OwnerExclusive`, `ModWritesAlone` and
  `JobsApart`. The first four need only what an admission (`Gated`) and a runner
  (`RunEffect`) do to the table. The last ones depend on each other: `IInv` adds
  that lifecycle jobs are alone, that a new-game job past its reservation has an
  owner, and that only a Mod job writes under the mutex.
  *Commands:* `CutNeverRetried` and `OutcomesReachReaders`,
  from where a command is (`Begun`, `OnHand`, `Saving`), what was cut stays
  unanswered (`CutStays`), the result a transaction waits for is not yet taken
  (`Awaited`), and an entry in the audit log is written once (`AuditedOnce`).
  *Mods:* `ModsKept`, `StartsAsProfiled` and the invariant `MInv` of where a Mod
  may be; an operation on several Mods is a walk, about which `WalkReaches` is the
  lemma. *Saves:* `WorldKept`, from `SLInv`: what is removed is in a backup or
  waived (`RemovedSafe`), what an operation is about to remove it has covered
  (`Covered`), nobody plays while a save is restored (`Calm`), and what was played
  is a save of a farm (`PlaysOne`).
* **ImportProofs.** `CommandsOnce`, `FailedChangesNothing` and `ServedAsRecorded`.
  `ImportInv` has six parts: types; what the journal says of itself (`Journaled`:
  a stage implies the evidence for it, and no row means nothing was begun); the
  commands (`Commanded`: none was published that the journal does not announce);
  the world (`WorldSound`: what files, instance and game are by the journal); a cleanup
  (`Cleaned`: it began only where nothing was sent or nothing came of it, and what
  it has removed is gone); and the place of the panel (`Placed`). The place is
  memory and a stop forgets it, so whatever a boot relies on has to be in the other
  parts: `Recoveries` is the lemma that what it reads there leads it to a place
  whose conditions hold.
* **UpdateProofs.** *Installations:* `ShownIsTrue` and `DownloadKept`, from
  `InstallInv`: a volume into which something was downloaded is a prepared one of
  a plan (`Planning`), where an installation is tells what its volume has
  (`Working`), a container that nobody waits for writes to a prepared volume and
  never to one that is shown as installed or that a step of the installation reads
  (`Leaving`), and a login on record has its session (`Inviting`). A prepared
  volume is never cleared again, which is `DownloadKept`. *SMAPI:* `SmapiOutcome`,
  from `SmapiInv`, for any number of failing steps and stops. The job decides by
  memory, a boot by the files, and the two must lead to the same end: `Memory` is
  what the job knows, `Kept` what its kit of originals can put back, `Placed` what
  is in place at each step, `Reported` what a report implies. All of it is said
  until a stop falls between the switch of .env and its note, which the model
  names (`unnoted`) as the property does.
* **RuntimeProofs.** `OutcomeTrue` and `BootNeverStarts`, for any number of failing
  steps and stops, whoever rolls back. `UpdateInv` says who runs (`WhoRuns`), what
  an apply has put in place when it comes to a step (`Applied`, from which a success
  is the whole target whatever was recorded), that everything that differs from
  the original is named by the manifest on disk, or nothing differs (`Recorded`,
  `OnlyWhat`), and what a running job knows and has put back (`Knowing`). The last
  two carry the stops: intent is written before each change, so a boot or a repair
  that reads only the manifest finds all there is to undo. They are said until
  something happened that no manifest says (`unrecorded`), as in the property.
* **PanelProofs.** *Accounts:* `Administered` and `AdminsGranted`, from
  `AccountInv`: the first administrator, once there is one, never loses what makes
  it so, for it is the only one, and the check for the last of its kind always
  refuses. *Passwords:* `KeyOpensAll`, `StoreIsHeldByOne`, `NeverReopened` and
  `FilesAgree`. A new key is in .env before the records made with it and leaves
  only when they are gone (`KeyInv`); the lock excludes until somebody is robbed
  of it (`LockInv`), and what its holder has read is still so; what an update
  answers and what the next one finds (`AnswerInv`, `TurnInv`) give `FilesAgree`.
  *Creation and deletion:* `WholeOrNothing`, `ClaimsExcludeJobs`
  and `OthersKept`, from `LInv`: what row, claim and resources of each world say of
  one another (`Worldly`), what the holder of the lock has done (`Position`), that
  a job works on a world that has everything (`Served`), that an ordinal not yet
  given has no row (`Unused`), and that only a live panel is at work (`LiveAtWork`).
  *Maintenance:* `ScheduleKept`, for days of any length and any two times. `SInv`
  says that a tick works on the marks as they are (`TickKnows`), that a startup is
  marked when it is due and no shutdown twice (`MarksPast`); and of a window that
  nothing has disturbed, that its startup is the next thing to come (`StartupAhead`), that
  a tick sees it as it is (`Prompt`), and that the server is down until then, is
  brought up by the tick of that moment, and stays up (`ServesWindow`). Its lemmas are
  about remainders: which time of a day comes next. *The panel's upgrade:*
  `ReportsTrue` and `GroupsNeedConsent`, from `UpgradeInv`, for any number of
  operations, failing steps and deaths. Only a running panel has something in memory
  (`Awake`); what the helper has done to container, deployment and database can be
  read off its step (`Deployed`); the coordinator is at work only on a confirmed
  operation and, in the loop over the groups, on the confirmed panel, which neither a
  launch nor the helper takes from it without ending it (`Consented`). Of each group
  the transaction of the newest operation, its status, its leases and its job fit
  each other (`Grouped`), and whoever recovers it recovers that one. From this
  follows that what the operation calls succeeded is committed (`PartsTold`), and that
  the groups it has gone through at its end have their proof (`CoordTold`, `GroupProven`),
  which no later step takes from them.
* **GroupProofs.** `GroupAccounted` and `WritersSaved`, from `GroupInv`, for any
  number of worlds, live, idle or cold, failing steps and deaths of the panel. The
  panel decides by its marks, so the invariant says what each vouches for
  (`Member140`, `Describes`: a world without an update announced is the old one, one
  marked updated is the new one, an empty root has a restore announced; before the
  first stop intent every server and row is as it was found) and what the phase adds
  (`Phased`). `OnRecord` says what manifest, leases and status have to do with it:
  a transaction that is not terminal has every lease. Where the panel goes on, it
  holds the transaction on disk (`HoldsTxn`), and `RunPlace` and `UndoPlace` say what each
  place of the run and of the rollback relies on. Three lemmas carry the steps:
  `CheckpointKeeps` (a valid checkpoint that goes on from the last and says what is
  so keeps the invariant, written wholly, cut short or failed), `WorldKeeps` (so
  does a step on the worlds after which the transaction is still true, even half
  done) and `StepKeeps` for the others. `GroupAccounted` then follows from the
  records alone, and that recovery accepts them (`HeldRecovers`) because a root is
  empty only under an announced restore. `WritersSaved` needs the order saved,
  stop intent, stopped of every world that `Valid` demands.

**The composed runs.** The theorems above are about one module each, the runs
check several at once. `InstanceComposes` (InstanceProofs), `UpdatesCompose`
(UpdateProofs) and `OperationsCompose` (GroupProofs) close the gap: the
specification of a run implies that of each module in it, because a step moves one
of them and leaves the variables of the others. So every theorem about a module
holds of its run. `UpdatesCompose` leaves out fairness, which no invariant needs;
the proofs of `OutcomeTrue` and `BootNeverStarts` do not use it either. From these
follow the types of the runs, `InstanceTypes`, `UpdatesTypes` and
`OperationTypes`.

Proved and not run, because TLC checked them while the proofs were made:
`KeyBoundOnce`, `TerminalIsFinal`, `OneSaveCommand`, `TargetBound`, `WriteAhead`,
`UpdateAlone`, `FarmhandUndisturbed`, `DeletedQuiet`, `ModWritesAlone`,
`KeyOpensAll` and `StoreIsHeldByOne`.

Assumed are only the types of the constants, as each module states them (there is
at least one key of the role passwords, the one an older installation has), and
`CrashesOnly` where it is said. Model-checked only: `EveryJobEnds` and
`CrashSettles`, which are liveness under fairness and out of the provers' reach;
and the findings, which are counterexamples.

## Not modelled, and the plan

Player rosters and the commands about one player, whose rows are written by one
request at a time, are what could be modelled next.

Left out for good: the coordinator of required runtimes
(`sj/required_runtime_update.go`), which nothing calls any more; settings, the
synchronisation of the Mods that clients need, the Nexus client, the catalogue of
farms, file formats, the Docker and Compose wrapper, remote clients, the frontend,
the browser extension and packaging. They have no concurrency of their own, or
only input and output; a Docker call appears as the set of outcomes the code
distinguishes.
