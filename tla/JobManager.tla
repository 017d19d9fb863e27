----------------------------- MODULE JobManager -----------------------------
(***************************************************************************)
(* The panel's job manager (backend/internal/jobs/manager.go) over the     *)
(* jobs and instances tables (backend/internal/storage).  A job is a       *)
(* durable row plus, while the panel process lives, a goroutine; a panel   *)
(* crash keeps the rows and loses the goroutines, and the next boot        *)
(* recovers the rows before it serves a request.                           *)
(*                                                                         *)
(* Two job types write the instance row and are modelled with those        *)
(* writes: stardew_install moves it through its install phases, and        *)
(* stardew_steam_auth borrows it and gives it back as it found it.  The    *)
(* save import stands for the types created with an idempotency key.       *)
(*                                                                         *)
(* Every statement of the storage package is one transaction on the single *)
(* SQLite connection (db.go), hence one atomic step.                       *)
(***************************************************************************)
EXTENDS Naturals, FiniteSets

CONSTANTS
    Jobs,        \* job identities that may exist at the same time
    Instances,   \* instance identities
    Keys,        \* idempotency keys callers may send
    None,        \* the absent key, type, target or snapshot
    Faults,      \* which faults happen: subset of {"db", "panic", "cancel"}
    MaxCrashes   \* bound on the number of panel crashes

ASSUME FaultsAssumption == Faults \subseteq {"db", "panic", "cancel"}
ASSUME CrashesAssumption == MaxCrashes \in Nat

Install == "stardew_install"
Auth    == "stardew_steam_auth"
Import  == "stardew_import_save_and_start"
Types   == {Install, Auth, Import}

ASSUME NoneAssumption == None \notin Types

VARIABLES
    status,    \* jobs.status, "absent" when there is no row
    spec,      \* the columns a row never changes: type, target, key, payload
    inst,      \* instances.state and driver_phase
    panel,     \* "up", "down" or "recovering"
    todo,      \* rows RecoverInterruptedJobs has listed and not yet marked
    pc,        \* what the goroutine of a job is doing
    ctx,       \* the context of that goroutine
    cancels,   \* keys of Manager.cancels
    canceling, \* jobs a Cancel call read as active and is about to cancel
    crashes    \* panel crashes so far

durable  == <<status, spec, inst>>
memory   == <<pc, ctx, cancels, canceling>>
vars     == <<status, spec, inst, panel, todo, pc, ctx, cancels, canceling,
              crashes>>

ActiveStatuses   == {"queued", "running"}
TerminalStatuses == {"succeeded", "failed", "canceled"}
Statuses == ActiveStatuses \cup TerminalStatuses \cup {"absent"}

\* What the properties tell apart of state and driver_phase.  "authorizing" is
\* an installed state under a Steam authorization phase.
InstalledStates == {"ready_to_start", "stopped", "authorizing"}
InstStates == InstalledStates \cup {"scaffolded", "installing", "error"}

Specs  == [type : Types, target : Instances, key : Keys \cup {None},
           snapshot : InstStates \cup {None}]
NoSpec == [type |-> None, target |-> None, key |-> None, snapshot |-> None]

PCs == {"idle", "created", "launched", "running", "succeeding", "failing"}

TypeOK ==
    /\ status \in [Jobs -> Statuses]
    /\ spec \in [Jobs -> Specs \cup {NoSpec}]
    /\ \A j \in Jobs : status[j] # "absent" => spec[j] \in Specs
    /\ inst \in [Instances -> InstStates]
    /\ panel \in {"up", "down", "recovering"}
    /\ todo \in SUBSET Jobs
    /\ pc \in [Jobs -> PCs]
    /\ ctx \in [Jobs -> {"live", "canceled", "expired"}]
    /\ cancels \in SUBSET Jobs
    /\ canceling \in SUBSET Jobs
    /\ crashes \in 0..MaxCrashes

Active(j) == status[j] \in ActiveStatuses

\* The active rows of one type on one target.
ActiveOn(type, i) ==
    {j \in Jobs : Active(j) /\ spec[j].type = type /\ spec[j].target = i}

Init ==
    /\ status = [j \in Jobs |-> "absent"]
    /\ spec = [j \in Jobs |-> NoSpec]
    /\ inst \in [Instances -> {"scaffolded", "ready_to_start", "stopped"}]
    /\ panel = "up"
    /\ todo = {}
    /\ pc = [j \in Jobs |-> "idle"]
    /\ ctx = [j \in Jobs |-> "live"]
    /\ cancels = {}
    /\ canceling = {}
    /\ crashes = 0

-----------------------------------------------------------------------------
(* Creation                                                                *)


\* A row with this key exists, whatever its status.
KeyTaken(type, i, key) ==
    \E j \in Jobs : /\ status[j] # "absent"
                    /\ spec[j].type = type
                    /\ spec[j].target = i
                    /\ spec[j].key = key

\* Mutant: migration 012 is missing.
NoInstallIndex(j, type, i) == TRUE

\* The partial unique index of migration 012: one active install per target.
\* It refuses an insert and an update of status alike.
InstallIndexAllows(j, type, i) ==
    type = Install => \A k \in ActiveOn(Install, i) : k = j

\* driver.Install holds runtimeUpdateMu from these reads to the insert.  A base
\* install waits for every other download of the panel; an authorization is
\* per instance and needs an installed game.
InstallAdmitted(type, i) ==
    /\ ActiveOn(Import, i) = {}
    /\ ActiveOn(Install, i) = {}
    /\ ActiveOn(Auth, i) = {}
    /\ type = Install => \A k \in Instances : ActiveOn(Install, k) = {}
    /\ type = Auth => inst[i] \in InstalledStates

\* ImportSaveAndStart: no install or authorization, no other import.
ImportAdmitted(i) ==
    /\ ActiveOn(Install, i) = {}
    /\ ActiveOn(Auth, i) = {}
    /\ ActiveOn(Import, i) = {}
    /\ inst[i] \in InstalledStates

\* Mutant: the row is written without its columns.
InsertBareRow(j, type, i, key, snapshot) ==
    /\ status[j] = "absent" /\ pc[j] = "idle" /\ j \notin canceling
    /\ status' = [status EXCEPT ![j] = "queued"]
    /\ pc' = [pc EXCEPT ![j] = "created"]
    /\ UNCHANGED <<spec, inst, panel, todo, ctx, cancels, canceling, crashes>>

Insert(j, type, i, key, snapshot) ==
    /\ status[j] = "absent" /\ pc[j] = "idle" /\ j \notin canceling
    /\ InstallIndexAllows(j, type, i)
    /\ status' = [status EXCEPT ![j] = "queued"]
    /\ spec' = [spec EXCEPT ![j] = [type |-> type, target |-> i, key |-> key,
                                    snapshot |-> snapshot]]
    /\ pc' = [pc EXCEPT ![j] = "created"]
    /\ ctx' = [ctx EXCEPT ![j] = "live"]
    /\ UNCHANGED <<inst, panel, todo, cancels, canceling, crashes>>

\* Manager.Start with Exclusive: CreateExclusiveJob refuses while a job of the
\* same type on the same target is active.  An authorization carries the
\* instance row it captured in its payload.
CreateExclusive(j, type, i) ==
    /\ panel = "up"
    /\ InstallAdmitted(type, i)
    /\ ActiveOn(type, i) = {}
    /\ Insert(j, type, i, None, IF type = Auth THEN inst[i] ELSE None)

\* Manager.Start with an IdempotencyKey: a key already bound answers with the
\* job it is bound to and creates nothing.
CreateIdempotent(j, i, key) ==
    /\ panel = "up"
    /\ ImportAdmitted(i)
    /\ ~KeyTaken(Import, i, key)
    /\ Insert(j, Import, i, key, None)

-----------------------------------------------------------------------------
(* Launching and running                                                   *)

\* StartJob, FinishJob, FailJob and CancelJob update by id alone, whatever the
\* status is; a deleted row stays deleted.
SetStatus(j, value) ==
    status' = IF status[j] = "absent" THEN status
              ELSE [status EXCEPT ![j] = value]

HasBeforeRun(j) == spec[j].type \in {Auth, Import}

\* The write-ahead handshake succeeded, or there is none: register the cancel
\* function and launch the goroutine.
Launch(j) ==
    /\ panel = "up" /\ pc[j] = "created"
    /\ pc' = [pc EXCEPT ![j] = "launched"]
    /\ cancels' = cancels \cup {j}
    /\ UNCHANGED <<status, spec, inst, panel, todo, ctx, canceling, crashes>>


\* BeforeRun failed: terminalise the row, never launch a goroutine.  When the
\* database refuses that write too the row stays queued until the next boot.
PrepareFails(j) ==
    /\ panel = "up" /\ pc[j] = "created" /\ HasBeforeRun(j)
    /\ pc' = [pc EXCEPT ![j] = "idle"]
    /\ \/ SetStatus(j, "failed")
       \/ "db" \in Faults /\ UNCHANGED status
    /\ UNCHANGED <<spec, inst, panel, todo, ctx, cancels, canceling, crashes>>

Leave(j) ==
    /\ pc' = [pc EXCEPT ![j] = "idle"]
    /\ cancels' = cancels \ {j}

\* The goroutine's first statement, StartJob, finds the context alive and the
\* row there.
StartRow(j) ==
    /\ panel = "up" /\ pc[j] = "launched" /\ ctx[j] = "live"
    /\ status[j] # "absent"
    /\ InstallIndexAllows(j, spec[j].type, spec[j].target)
    /\ SetStatus(j, "running")
    /\ pc' = [pc EXCEPT ![j] = "running"]
    /\ UNCHANGED <<spec, inst, panel, todo, ctx, cancels, canceling, crashes>>

\* StartJob failed.  Only a canceled context terminalises the row; a deadline
\* or a database error leaves it queued with no goroutine.
StartRowFails(j) ==
    /\ panel = "up" /\ pc[j] = "launched"
    /\ \/ ctx[j] # "live"
       \/ "db" \in Faults
       \/ status[j] = "absent"
       \/ ~InstallIndexAllows(j, spec[j].type, spec[j].target)
    /\ IF ctx[j] = "canceled" THEN SetStatus(j, "canceled") ELSE UNCHANGED status
    /\ Leave(j)
    /\ UNCHANGED <<spec, inst, panel, todo, ctx, canceling, crashes>>

\* UpdateInstanceStateForActiveJob: an instance write that takes effect only
\* while the writing job's row is active.
LeasedWrite(j, value) ==
    inst' = IF Active(j) THEN [inst EXCEPT ![spec[j].target] = value] ELSE inst

\* The runner reports a phase: an install in progress, or an authorization
\* phase over the unchanged base state.
RunnerWrites(j) ==
    /\ panel = "up" /\ pc[j] = "running"
    /\ \/ spec[j].type = Install /\ LeasedWrite(j, "installing")
       \/ spec[j].type = Auth /\ LeasedWrite(j, "authorizing")
    /\ UNCHANGED <<status, spec, panel, todo, memory, crashes>>

\* The runner returns nil: an install has published its result, and the
\* deferred function of an authorization puts the captured row back without
\* a lease.
RunnerSucceeds(j) ==
    /\ panel = "up" /\ pc[j] = "running"
    /\ CASE spec[j].type = Install -> LeasedWrite(j, "ready_to_start")
         [] spec[j].type = Auth ->
              inst' = [inst EXCEPT ![spec[j].target] = spec[j].snapshot]
         [] OTHER -> UNCHANGED inst
    /\ pc' = [pc EXCEPT ![j] = "succeeding"]
    /\ UNCHANGED <<status, spec, panel, todo, ctx, cancels, canceling, crashes>>

\* The runner returns an error.  explainFailure marks the instance unless the
\* context was canceled; the authorization puts the captured row back.
RunnerFails(j) ==
    /\ panel = "up" /\ pc[j] = "running"
    /\ CASE spec[j].type = Install ->
              IF ctx[j] = "canceled" THEN UNCHANGED inst
                                     ELSE LeasedWrite(j, "error")
         [] spec[j].type = Auth ->
              inst' = [inst EXCEPT ![spec[j].target] = spec[j].snapshot]
         [] OTHER -> UNCHANGED inst
    /\ pc' = [pc EXCEPT ![j] = "failing"]
    /\ UNCHANGED <<status, spec, panel, todo, ctx, cancels, canceling, crashes>>

\* The runner panics: only deferred functions still run, so an install leaves
\* the instance in the phase it last reported.
RunnerPanics(j) ==
    /\ "panic" \in Faults
    /\ panel = "up" /\ pc[j] = "running"
    /\ inst' = IF spec[j].type = Auth
               THEN [inst EXCEPT ![spec[j].target] = spec[j].snapshot] ELSE inst
    /\ SetStatus(j, "failed")
    /\ Leave(j)
    /\ UNCHANGED <<spec, panel, todo, ctx, canceling, crashes>>

\* The runner has returned: finish, fail or cancel the row.  A database error
\* is logged and leaves the row active with no goroutine.
Settle(j) ==
    /\ panel = "up" /\ pc[j] \in {"succeeding", "failing"}
    /\ \/ SetStatus(j, IF ctx[j] = "canceled" THEN "canceled"
                       ELSE IF pc[j] = "succeeding" THEN "succeeded"
                       ELSE "failed")
       \/ "db" \in Faults /\ UNCHANGED status
    /\ Leave(j)
    /\ UNCHANGED <<spec, inst, panel, todo, ctx, canceling, crashes>>

\* The deadline of the job's context passes.
Expire(j) ==
    /\ panel = "up" /\ pc[j] = "running" /\ ctx[j] = "live"
    /\ ctx' = [ctx EXCEPT ![j] = "expired"]
    /\ UNCHANGED <<durable, panel, todo, pc, cancels, canceling, crashes>>

-----------------------------------------------------------------------------
(* Cancel, CancelActive and Clear                                          *)

\* Manager.Cancel finds a cancel function: the goroutine's context ends.
CancelRunning(j) ==
    /\ "cancel" \in Faults
    /\ panel = "up" /\ j \in cancels
    /\ ctx' = [ctx EXCEPT ![j] = IF @ = "live" THEN "canceled" ELSE @]
    /\ UNCHANGED <<durable, panel, todo, pc, cancels, canceling, crashes>>

\* Manager.Cancel finds none and reads an active row ...
CancelReads(j) ==
    /\ "cancel" \in Faults
    /\ panel = "up" /\ j \notin cancels /\ Active(j)
    /\ canceling' = canceling \cup {j}
    /\ UNCHANGED <<durable, panel, todo, pc, ctx, cancels, crashes>>

\* ... which it then cancels by id, whatever has happened to it meanwhile.
CancelWrites(j) ==
    /\ panel = "up" /\ j \in canceling
    /\ canceling' = canceling \ {j}
    /\ SetStatus(j, "canceled")
    /\ UNCHANGED <<spec, inst, panel, todo, pc, ctx, cancels, crashes>>

\* ClearJobs refuses while a job is active and deletes every row.
Clear ==
    /\ panel = "up"
    /\ \A j \in Jobs : ~Active(j)
    /\ \E j \in Jobs : status[j] # "absent"
    /\ status' = [j \in Jobs |-> "absent"]
    /\ spec' = [j \in Jobs |-> IF pc[j] = "idle" THEN NoSpec ELSE spec[j]]
    /\ UNCHANGED <<inst, panel, todo, memory, crashes>>

-----------------------------------------------------------------------------
(* Crash and recovery                                                      *)

\* The panel process dies at any point, the recovery included.
Crash ==
    /\ panel # "down" /\ crashes < MaxCrashes
    /\ crashes' = crashes + 1
    /\ panel' = "down"
    /\ todo' = {}
    /\ pc' = [j \in Jobs |-> "idle"]
    /\ ctx' = [j \in Jobs |-> "live"]
    /\ cancels' = {}
    /\ canceling' = {}
    /\ UNCHANGED durable

\* Mutant: the rows are terminalised before their instances are marked.
ListAndTerminalise ==
    /\ panel = "down"
    /\ panel' = "recovering"
    /\ todo' = {j \in Jobs : Active(j)}
    /\ status' = [j \in Jobs |-> IF Active(j) THEN "failed" ELSE status[j]]
    /\ UNCHANGED <<spec, inst, memory, crashes>>

\* Boot: ListInterruptedJobs.
ListInterrupted ==
    /\ panel = "down"
    /\ panel' = "recovering"
    /\ todo' = {j \in Jobs : Active(j)}
    /\ UNCHANGED <<durable, memory, crashes>>

\* Mutant: recovery knows installs only.
RecoveredInstallOnly(j) ==
    IF spec[j].type = Install /\ inst[spec[j].target] \notin InstalledStates
    THEN LeasedWrite(j, "error") ELSE UNCHANGED inst

\* What recovery does to the instance of one listed job: an install that is
\* not already installed is marked under that job's own lease, and an
\* authorization gives the captured row back.
Recovered(j) ==
    IF spec[j].type = Install /\ inst[spec[j].target] \notin InstalledStates
    THEN LeasedWrite(j, "error")
    ELSE IF spec[j].type = Auth
         THEN inst' = [inst EXCEPT ![spec[j].target] = spec[j].snapshot]
         ELSE UNCHANGED inst

\* A database error here is logged and the recovery goes on.
MarkInterrupted(j) ==
    /\ panel = "recovering" /\ j \in todo
    /\ Recovered(j) \/ ("db" \in Faults /\ UNCHANGED inst)
    /\ todo' = todo \ {j}
    /\ UNCHANGED <<status, spec, panel, memory, crashes>>

\* Mutant: only running rows are failed.
FailRunning ==
    /\ panel = "recovering" /\ todo = {}
    /\ status' = [j \in Jobs |-> IF status[j] = "running" THEN "failed"
                                                         ELSE status[j]]
    /\ panel' = "up"
    /\ UNCHANGED <<spec, inst, todo, memory, crashes>>

\* FailInterruptedJobs, once every listed job is marked; the panel then serves.
FailInterrupted ==
    /\ panel = "recovering" /\ todo = {}
    /\ status' = [j \in Jobs |-> IF Active(j) THEN "failed" ELSE status[j]]
    /\ panel' = "up"
    /\ UNCHANGED <<spec, inst, todo, memory, crashes>>

-----------------------------------------------------------------------------
Recovery == ListInterrupted \/ FailInterrupted \/ \E j \in Jobs : MarkInterrupted(j)

RunnerReturns(j) == RunnerSucceeds(j) \/ RunnerFails(j)

Step(j) ==
    \/ Launch(j) \/ PrepareFails(j) \/ StartRow(j) \/ StartRowFails(j)
    \/ RunnerWrites(j) \/ RunnerReturns(j) \/ RunnerPanics(j)
    \/ Settle(j) \/ Expire(j)
    \/ CancelRunning(j) \/ CancelReads(j) \/ CancelWrites(j)

Create(j) ==
    \E i \in Instances :
        \/ \E type \in {Install, Auth} : CreateExclusive(j, type, i)
        \/ \E key \in Keys : CreateIdempotent(j, i, key)

Next ==
    \/ \E j \in Jobs : Create(j) \/ Step(j)
    \/ Clear \/ Crash \/ Recovery

Spec == Init /\ [][Next]_vars

\* A goroutine that can move does; a runner returns because its context ends
\* and every external call it makes takes that context; the panel's container
\* is restarted after a crash.
Fairness ==
    /\ \A j \in Jobs : /\ WF_vars(Launch(j) \/ PrepareFails(j))
                       /\ WF_vars(StartRow(j) \/ StartRowFails(j))
                       /\ WF_vars(RunnerReturns(j))
                       /\ WF_vars(Settle(j))
    /\ WF_vars(Recovery)

FairSpec == Spec /\ Fairness

-----------------------------------------------------------------------------
(* Properties                                                              *)

\* At most one install is queued or running on an instance, whatever
\* cancellations, database errors, late goroutines and crashes did to the rows
\* before: two of them would write the same game volume and the same lease.
SingleInstall ==
    \A j, k \in Jobs :
        /\ Active(j) /\ spec[j].type = Install
        /\ Active(k) /\ spec[k].type = Install
        /\ spec[j].target = spec[k].target
        => j = k

\* An idempotency key names at most one row of its type and target, so a
\* retried request cannot start a second runner.
KeyBoundOnce ==
    \A j, k \in Jobs :
        /\ status[j] # "absent" /\ status[k] # "absent"
        /\ spec[j].key # None /\ spec[j].key = spec[k].key
        /\ spec[j].type = spec[k].type /\ spec[j].target = spec[k].target
        => j = k

\* While the panel serves, an instance shown as installing or authorizing has
\* a live job of that kind behind it: no crash, at any point of the run or of
\* the recovery itself, leaves an instance in a phase nobody will end.
InstallPhaseOwned ==
    panel = "up" =>
        \A i \in Instances :
            /\ inst[i] = "installing" =>
                 \E j \in ActiveOn(Install, i) : pc[j] = "running"
            /\ inst[i] = "authorizing" =>
                 \E j \in ActiveOn(Auth, i) : pc[j] = "running"

\* When a Steam authorization reaches a terminal status, by its runner, by its
\* failed preparation or by the recovery after a crash, the instance row is
\* the one it captured when it was requested.
AuthGivesBack ==
    [][\A j \in Jobs :
         Active(j) /\ ~Active(j)' /\ spec[j].type = Auth
         => inst'[spec[j].target] = spec[j].snapshot]_vars

\* A terminal status is never rewritten: no late goroutine revives a job, and
\* recovery does not touch one.
TerminalIsFinal ==
    [][\A j \in Jobs :
         status[j] \in TerminalStatuses
         => status'[j] \in {status[j], "absent"}]_vars

\* Every job comes to an end, across crashes: either its own goroutine or the
\* recovery of a later boot makes its row terminal.
EveryJobEnds == \A j \in Jobs : Active(j) ~> ~Active(j)
=============================================================================
