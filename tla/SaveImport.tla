----------------------------- MODULE SaveImport -----------------------------
(***************************************************************************)
(* The import of an uploaded save (stardew_junimo/save_import_*.go with    *)
(* web/pending_uploads.go and the handlers in web/lifecycle_handlers.go).  *)
(*                                                                         *)
(* A request moves the upload into a transaction directory with a journal  *)
(* and starts a job.  The job stages the save, starts the game privately   *)
(* ("maintenance"), writes one import command into its FIFO, concludes     *)
(* from the disk what Junimo did, brings up the target world and, after a  *)
(* host swap, saves it once.  Until the effect is confirmed a failure puts *)
(* the instance back and the import can be canceled; afterwards it may     *)
(* only go forward, or be rolled back as a whole.  What is ambiguous is    *)
(* left to an operator ("manual").                                         *)
(*                                                                         *)
(* One upload and one operation on one instance.  Other jobs stay away as  *)
(* InstanceAdmission says, and nobody calls RecoverImportTransactions      *)
(* beside a running import.  Panics of the runner, the removal of the job  *)
(* row of an unfinished import (which the clear of the job table refuses)  *)
(* and saves of that name made by others are left out.                     *)
(***************************************************************************)
EXTENDS Naturals

CONSTANTS
    ImportFaults,   \* bound on failing steps and exits of the game
    ImportCrashes   \* bound on stops of the panel

ASSUME ImportAssumption == ImportFaults \in Nat /\ ImportCrashes \in Nat

VARIABLES
    swap,     \* HostHandling is swap_host_to, not server_owns_original
    first,    \* the active save before the import: "orig" or "none"
    token,    \* token.json, and the cleanup receipt beside it
    payload,  \* where the upload is
    importJournal,  \* journal.json
    row,      \* the job row with the operation's idempotency key
    pc, work, \* what the panel is doing, and for which job
    kept,     \* the copy a failed restore writes back: its maintenance flag
    inst,     \* the instance row: as before, in maintenance or running
    target, pointer, intent, boot, \* saves, active pointer, pending intent
    game,     \* the container: down, loading or with a world
    cmd,      \* Junimo's progress with the import command
    save,     \* the save-now command
    submits, saves, \* commands published by this operation (history)
    panel, faults, crashes

files   == <<target, pointer, intent, boot>>
runtime == <<game, cmd, save>>
upload  == <<token, payload>>
control == <<pc, work, row>>
count   == <<submits, saves>>
fixed   == <<swap, first, panel, crashes>>
importVars    == <<swap, first, token, payload, importJournal, row, pc, work, kept, inst, target,
             pointer, intent, boot, game, cmd, save, submits, saves, panel, faults, crashes>>

ImportStages == <<"validated", "staged", "backup_created", "runtime_ready", "submitted",
            "confirmed", "activating", "finalize_confirmed", "persisting", "verified",
            "completed">>
Index(s)   == CHOOSE i \in 1..11 : ImportStages[i] = s
AtLeast(s) == importJournal.stage \notin {"absent", "canceled", "rolled_back"} /\ Index(importJournal.stage) >= Index(s)
Ended      == {"completed", "canceled", "rolled_back"}

NoJournal  == [stage |-> "absent", original |-> "none", owned |-> FALSE, bind |-> "no",
               boot |-> "none", maint |-> FALSE, mrec |-> "none", manual |-> FALSE,
               fifo |-> FALSE, submitted |-> FALSE, confirmed |-> FALSE, outcome |-> "none",
               restarted |-> FALSE, command |-> FALSE, unsent |-> FALSE,
               rollback |-> "none", clean |-> "none"]
NewJournal == [NoJournal EXCEPT !.stage = "validated", !.original = pointer]
Exists     == importJournal.stage # "absent"

NoToken == [status |-> "none", job |-> FALSE, receipt |-> FALSE]

ImportInit ==
    /\ swap \in BOOLEAN /\ first \in {"orig", "none"}
    /\ token = NoToken /\ payload = "gone" /\ importJournal = NoJournal
    /\ row = "none" /\ pc = "idle" /\ work = "none" /\ kept = "no" /\ inst = "orig"
    /\ target = "none" /\ pointer = first /\ intent = FALSE /\ boot = FALSE
    /\ game = "down" /\ cmd = "none" /\ save = "none"
    /\ submits = 0 /\ saves = 0 /\ panel = TRUE /\ faults = 0 /\ crashes = 0

-----------------------------------------------------------------------------
(* Steps                                                                   *)

\* "failed" ends the job, or the boot recovery, with an error.
Goto(p) == IF p = "failed"
           THEN /\ pc' = "idle" /\ work' = "none"
                /\ row' = IF work = "import" THEN "failed" ELSE row
           ELSE pc' = p /\ UNCHANGED <<work, row>>
Ok(p)   == Goto(p) /\ UNCHANGED faults
Fail(p) == faults < ImportFaults /\ faults' = faults + 1 /\ Goto(p)

\* WriteImportJournal: a failed write may have replaced the file all the same.
Put(j, good, bad) == \/ Ok(good) /\ importJournal' = j
                     \/ Fail(bad) /\ importJournal' \in {importJournal, j}

\* A step that only writes the journal.
Record(p, j, good, bad) ==
    /\ pc = p
    /\ Put(j, good, bad)
    /\ UNCHANGED <<upload, kept, inst, files, runtime, count, fixed>>

\* Nothing but the files changes.
OnFiles == UNCHANGED <<upload, importJournal, kept, inst, runtime, count, fixed>>

\* stopImportPhaseAForJournal: stop, then prove it stopped.  What was in the
\* FIFO is gone with the container.
Stop(p, good, bad) ==
    /\ pc = p
    /\ \/ Ok(good) /\ game' = "down" /\ cmd' = "none"
       \/ Fail(bad) /\ game' \in {"down", game}
          /\ cmd' = IF game' = "down" THEN "none" ELSE cmd
    /\ UNCHANGED <<upload, importJournal, kept, inst, files, save, count, fixed>>

\* ComposeRecreateServices: a fresh container.
RecreateServer(p, good, bad) ==
    /\ pc = p
    /\ \/ Ok(good) /\ game' = "loading" /\ cmd' = "none"
       \/ Fail(bad) /\ game' \in {"down", "loading", game}
          /\ cmd' = IF game' = game THEN cmd ELSE "none"
    /\ UNCHANGED <<upload, importJournal, kept, inst, files, save, count, fixed>>

\* A write of the instance row.
Publish(p, i, good, bad) ==
    /\ pc = p
    /\ \/ Ok(good) /\ inst' = i
       \/ Fail(bad) /\ UNCHANGED inst
    /\ UNCHANGED <<upload, importJournal, kept, files, runtime, count, fixed>>

\* A check that fails, or a wait that ends without its result.
Miss(p, bad) == /\ pc = p
                /\ Fail(bad)
                /\ UNCHANGED <<upload, importJournal, kept, inst, files, runtime, count, fixed>>

-----------------------------------------------------------------------------
(* The upload and the request                                              *)

Serving == panel /\ pc = "idle" /\ work = "none"

\* put: the preview of an upload, refused beside an unfinished import.
Upload ==
    /\ Serving /\ token.status = "none" /\ importJournal.stage \in Ended \cup {"absent"}
    /\ token' = [NoToken EXCEPT !.status = "available"] /\ payload' = "upload"
    /\ UNCHANGED <<importJournal, control, kept, inst, files, runtime, count, fixed, faults>>

\* cancel of a preview that no operation has reserved, or its expiry.
Drop ==
    /\ Serving /\ token.status = "available"
    /\ token' = NoToken /\ payload' = "gone"
    /\ UNCHANGED <<importJournal, control, kept, inst, files, runtime, count, fixed, faults>>

\* The commit: reserve, or reuse the reservation of an earlier attempt.
Commit ==
    /\ Serving /\ token.status \in {"available", "reserved"} /\ inst # "running"
    /\ Ok("admit")
    /\ token' = [token EXCEPT !.status = "reserved"]
    /\ UNCHANGED <<payload, importJournal, kept, inst, files, runtime, count, fixed>>

\* The gates of ImportSaveAndStart, then the journal of a new operation, or
\* the one it has.  Refused, a reservation without a journal is released.
AdmitImport ==
    /\ pc = "admit"
    /\ IF Exists
       THEN /\ IF game = "down" /\ importJournal.stage # "canceled"
               THEN Ok(IF importJournal.owned THEN "start" ELSE "move") ELSE Ok("refused")
            /\ UNCHANGED <<importJournal, count, save>>
       ELSE /\ IF game = "down" /\ target = "none" THEN Put(NewJournal, "move", "refused")
               ELSE Ok("refused") /\ UNCHANGED importJournal
            /\ submits' = 0 /\ saves' = 0 /\ save' = "none"
    /\ UNCHANGED <<upload, kept, inst, files, game, cmd, fixed>>

Refused ==
    /\ pc = "refused"
    /\ Ok("idle")
    /\ token' = IF token.status = "reserved" /\ ~Exists
                THEN [token EXCEPT !.status = "available"] ELSE token
    /\ UNCHANGED <<payload, importJournal, kept, inst, files, runtime, count, fixed>>

\* transferOwnership: the upload moves first; a payload that has moved before
\* cannot move again.
MovePayload ==
    /\ pc = "move"
    /\ \/ payload = "upload" /\ Ok("own") /\ payload' = "source"
       \/ payload = "upload" /\ Fail("refused") /\ UNCHANGED payload
       \/ payload # "upload" /\ Ok("refused") /\ UNCHANGED payload
    /\ UNCHANGED <<token, importJournal, kept, inst, files, runtime, count, fixed>>

OwnToken ==
    /\ pc = "own"
    /\ LET t == [token EXCEPT !.status = "owned"] IN
       \/ Ok("ownjournal") /\ token' = t
       \/ Fail("refused") /\ token' \in {token, t}
    /\ UNCHANGED <<payload, importJournal, kept, inst, files, runtime, count, fixed>>

OwnJournal == Record("ownjournal", [importJournal EXCEPT !.owned = TRUE], "start", "refused")

\* jobs.Start; the row is bound to journal and token before the runner runs.
StartJob ==
    /\ pc = "start" /\ row = "none"
    /\ \/ pc' = "bind" /\ work' = "import" /\ row' = "active" /\ UNCHANGED faults
       \/ Fail("refused")
    /\ UNCHANGED <<upload, importJournal, kept, inst, files, runtime, count, fixed>>

Attach == Record("bind", [importJournal EXCEPT !.bind = "attached"], "bindtoken", "failed")

AttachToken ==
    /\ pc = "bindtoken"
    /\ LET t == [token EXCEPT !.job = TRUE] IN
       \/ Ok("bindready") /\ token' = t
       \/ Fail("failed") /\ token' \in {token, t}
    /\ UNCHANGED <<payload, importJournal, kept, inst, files, runtime, count, fixed>>

Confirm == Record("bindready", [importJournal EXCEPT !.bind = "ready"], "stage", "failed")

Request == \/ Upload \/ Drop \/ Commit \/ AdmitImport \/ Refused \/ MovePayload \/ OwnToken
           \/ OwnJournal \/ StartJob \/ Attach \/ AttachToken \/ Confirm

-----------------------------------------------------------------------------
(* Staging (prepareImportStaging, prepareImportBootstrap)                  *)

StageTarget ==
    /\ pc = "stage"
    /\ \/ Ok("staged") /\ target' = "staged" /\ payload' = "saves"
       \/ Fail("failed") /\ UNCHANGED <<target, payload>>
    /\ UNCHANGED <<token, importJournal, kept, inst, pointer, intent, boot, runtime, count, fixed>>

RecordStaged == Record("staged", [importJournal EXCEPT !.stage = "staged"], "backup", "failed")

Backup == Record("backup", [importJournal EXCEPT !.stage = "backup_created"],
                 IF importJournal.original = "none" THEN "bootname" ELSE "check", "failed")

\* Without an active save the private game needs a world of its own.
NameBootstrap  == Record("bootname", [importJournal EXCEPT !.boot = "named"], "bootbuild", "failed")
BuildBootstrap == Record("bootbuild", [importJournal EXCEPT !.boot = "built"], "bootmake", "failed")

PublishBootstrap ==
    /\ pc = "bootmake"
    /\ \/ Ok("bootmade") /\ boot' = TRUE
       \/ Fail("failed") /\ UNCHANGED boot
    /\ UNCHANGED <<target, pointer, intent>> /\ OnFiles

RecordBootstrap == Record("bootmade", [importJournal EXCEPT !.boot = "created"], "bootselect", "failed")

SelectBootstrap ==
    /\ pc = "bootselect"
    /\ \/ Ok("bootselected") /\ pointer' = "boot"
       \/ Fail("failed") /\ UNCHANGED pointer
    /\ UNCHANGED <<target, intent, boot>> /\ OnFiles

RecordOriginal == Record("bootselected", [importJournal EXCEPT !.original = "boot"], "check", "failed")

Staging == \/ StageTarget \/ RecordStaged \/ Backup \/ NameBootstrap \/ BuildBootstrap
           \/ PublishBootstrap \/ RecordBootstrap \/ SelectBootstrap \/ RecordOriginal

-----------------------------------------------------------------------------
(* The private game (runImportMaintenance)                                 *)

\* The checks, then the snapshot of the instance row, before it changes.
Capture ==
    \/ /\ game = "down" /\ pointer = importJournal.original
       /\ Record("check", [importJournal EXCEPT !.mrec = "captured"], "publish", "failed")
    \/ Miss("check", "failed")

PublishMaintenance == Publish("publish", "maint", "startintent", "mstop")

StartIntent == Record("startintent", [importJournal EXCEPT !.maint = TRUE, !.mrec = "intent"],
                      "up", "mstop")

ComposeUp  == RecreateServer("up", "upreturned", "mstop")
UpReturned == Record("upreturned", [importJournal EXCEPT !.mrec = "up"], "ready", "mstop")

RuntimeReady ==
    \/ /\ game \in {"orig", "boot"}
       /\ Record("ready", [importJournal EXCEPT !.stage = "runtime_ready", !.mrec = "ready"],
                 "republish", "mstop")
    \/ Miss("ready", "mstop")

Republish == Publish("republish", "maint", "prepare", "mstop")

\* The deferred stopAndRestoreImportMaintenance.
StopMaintenance == Stop("mstop", "restore", "failed")

Maintenance == \/ Capture \/ PublishMaintenance \/ StartIntent \/ ComposeUp \/ UpReturned
               \/ RuntimeReady \/ Republish \/ StopMaintenance

-----------------------------------------------------------------------------
(* Putting the instance back (restoreImportMaintenanceSnapshot)            *)

Submitted   == importJournal.fifo \/ importJournal.submitted \/ importJournal.confirmed \/ AtLeast("submitted")
NoEffectNow == target = "staged" /\ pointer = importJournal.original /\ ~intent
Proven      == importJournal.outcome = "no_effect" /\ ~importJournal.confirmed

\* Where a failed restore leads: some callers only report it.
Unrestored == IF kept = "no" THEN "failed" ELSE "giveup"

RestorePending ==
    \/ /\ ~Submitted \/ (Proven /\ NoEffectNow)
       /\ Record("restore", [importJournal EXCEPT !.maint = FALSE, !.mrec = "pending"],
                 "restorerow", Unrestored)
    \/ /\ pc = "restore" /\ ~(~Submitted \/ (Proven /\ NoEffectNow))
       /\ Ok(Unrestored)
       /\ UNCHANGED <<upload, importJournal, kept, inst, files, runtime, count, fixed>>

RestoreRow == Publish("restorerow", "orig", "restored", Unrestored)

Restored == /\ pc = "restored"
            /\ Put([importJournal EXCEPT !.mrec = "restored", !.manual = FALSE], "failed", Unrestored)
            /\ kept' = IF pc' = "idle" THEN "no" ELSE kept
            /\ UNCHANGED <<upload, inst, files, runtime, count, fixed>>

\* persistImportManualRecovery, of the journal as it was before the restore.
GiveUp == /\ pc = "giveup"
          /\ Put([importJournal EXCEPT !.maint = (kept = "up"), !.mrec = "manual", !.manual = TRUE],
                 "failed", "failed")
          /\ kept' = "no"
          /\ UNCHANGED <<upload, inst, files, runtime, count, fixed>>

Restore == RestorePending \/ RestoreRow \/ Restored \/ GiveUp

-----------------------------------------------------------------------------
(* The submission (runImportPhaseA)                                        *)

\* What the disk says Junimo did (classifyImportPhaseA).
Verdict ==
    LET moved == pointer = "target"
        same  == pointer = importJournal.original
        fresh == target = "staged"
    IN  CASE fresh /\ ~intent /\ same                -> "no_effect"
          [] ~swap /\ fresh /\ ~intent /\ moved      -> "confirmed"
          [] swap /\ ~fresh /\ intent /\ moved       -> "confirmed"
          [] swap /\ ~fresh /\ intent /\ ~moved      -> "recovery"
          [] ~fresh /\ ~intent                       -> "half"
          [] OTHER                                   -> "contradictory"

\* prepareImportPhaseASubmission, then the point of no return.
FifoIntent ==
    \/ /\ importJournal.stage = "runtime_ready" /\ importJournal.maint
       /\ game \in {"orig", "boot"} /\ ~intent /\ pointer # "target"
       /\ Record("prepare", [importJournal EXCEPT !.fifo = TRUE], "fifo", "ambiguous")
    \/ Miss("prepare", "mstop")

WriteFifo ==
    /\ pc = "fifo"
    /\ \/ game # "down" /\ Ok("submitted") /\ cmd' = "queued" /\ submits' = submits + 1
       \/ /\ Fail("ambiguous")
          /\ \/ game # "down" /\ cmd' = "queued" /\ submits' = submits + 1
             \/ UNCHANGED <<cmd, submits>>
       \/ game = "down" /\ Ok("ambiguous") /\ UNCHANGED <<cmd, submits>>
    /\ UNCHANGED <<upload, importJournal, kept, inst, files, game, save, saves, fixed>>

RecordSubmitted == Record("submitted", [importJournal EXCEPT !.submitted = TRUE, !.stage = "submitted"],
                          "observe", "phasestop")

Confirmed(running) == [importJournal EXCEPT !.submitted = TRUE, !.confirmed = TRUE, !.stage = "confirmed",
                                      !.outcome = "confirmed", !.maint = running]

\* Only a confirmation ends the observation before its deadline.
Observe ==
    \/ Verdict = "confirmed" /\ Record("observe", Confirmed(TRUE), "activate", "ambiguous")
    \/ /\ pc = "observe" /\ Ok("phasestop")
       /\ UNCHANGED <<upload, importJournal, kept, inst, files, runtime, count, fixed>>

\* finalizeTimedOutImportPhaseA: stop the game, then judge.
StopPhaseA == Stop("phasestop", "judge", "phasefailed")

Judge ==
    \/ Verdict = "confirmed" /\ Record("judge", Confirmed(FALSE), "activate", "failed")
    \/ /\ Verdict = "no_effect" /\ pc = "judge"
       /\ Put([importJournal EXCEPT !.outcome = "no_effect"], "restore", "restore")
       /\ kept' = "up"
       /\ UNCHANGED <<upload, inst, files, runtime, count, fixed>>
    \/ Verdict \in {"recovery", "contradictory"} /\ Record("judge",
            [importJournal EXCEPT !.outcome = Verdict], "failed", "failed")
    \/ /\ Verdict = "half" /\ pc = "judge"
       /\ \/ Ok("half") /\ target' = "staged"
          \/ Fail("half") /\ UNCHANGED target
       /\ UNCHANGED <<pointer, intent, boot>> /\ OnFiles

HalfRestored == Record("half", [importJournal EXCEPT !.outcome = "half"], "failed", "failed")
PhaseFailed  == Record("phasefailed", [importJournal EXCEPT !.outcome = "recovery"], "failed", "failed")

\* failImportPhaseAAmbiguous
Ambiguous == Record("ambiguous", [importJournal EXCEPT !.mrec = "manual", !.manual = TRUE,
                                                 !.outcome = "recovery"], "ambstop", "ambstop")
StopAmbiguous == Stop("ambstop", "failed", "failed")

PhaseA == \/ FifoIntent \/ WriteFifo \/ RecordSubmitted \/ Observe \/ StopPhaseA \/ Judge
          \/ HalfRestored \/ PhaseFailed \/ Ambiguous \/ StopAmbiguous

-----------------------------------------------------------------------------
(* The target world (runImportActivation)                                  *)

\* A failure after the confirmation rolls a swap back and leaves the rest up.
Lost == IF swap THEN "rollback" ELSE "failed"

Loaded == game = "target" /\ ~intent

\* waitForImportActivation and finishImportActivation
Activated(p) == /\ Loaded
                /\ Record(p, [importJournal EXCEPT !.stage = "finalize_confirmed"], "durable", Lost)

\* The first observation; without a result there is one controlled restart.
Activate ==
    \/ importJournal.maint /\ Activated("activate")
    \/ importJournal.maint /\ Miss("activate", Lost)
    \/ /\ pc = "activate"
       /\ Ok(IF importJournal.maint /\ importJournal.restarted THEN Lost ELSE "restartintent")
       /\ UNCHANGED <<upload, importJournal, kept, inst, files, runtime, count, fixed>>

RestartIntent == Record("restartintent", [importJournal EXCEPT !.stage = "activating", !.restarted = TRUE],
                        "restart", Lost)
Restart       == RecreateServer("restart", "restarted", Lost)
RecordRestart == Record("restarted", [importJournal EXCEPT !.maint = TRUE], "await", Lost)

\* A world that does not come up, or that shows a fault, ends the activation.
Await == \/ Activated("await")
         \/ /\ pc = "await" /\ Ok(Lost)
            /\ UNCHANGED <<upload, importJournal, kept, inst, files, runtime, count, fixed>>

Activation == Activate \/ RestartIntent \/ Restart \/ RecordRestart \/ Await

-----------------------------------------------------------------------------
(* The durable save (runImportDurableSave)                                 *)

\* Mutant: whether the command has an identifier already is not looked at.
DurableAgain ==
    /\ pc = "durable"
    /\ IF ~swap THEN Ok("asis") ELSE IF importJournal.unsent THEN Ok(Lost) ELSE Ok("reserve")
    /\ UNCHANGED <<upload, importJournal, kept, inst, files, runtime, count, fixed>>

Durable ==
    /\ pc = "durable"
    /\ IF ~swap THEN Ok("asis")
       ELSE IF importJournal.unsent THEN Ok(Lost)
       ELSE IF importJournal.command THEN Ok("saving") ELSE Ok("reserve")
    /\ UNCHANGED <<upload, importJournal, kept, inst, files, runtime, count, fixed>>

\* The identifier of the command is durable before the command.
ReserveCommand ==
    \/ /\ game # "down"
       /\ Record("reserve", [importJournal EXCEPT !.command = TRUE, !.stage = "persisting"], "send", Lost)
    \/ /\ pc = "reserve" /\ game = "down" /\ Ok(Lost)
       /\ UNCHANGED <<upload, importJournal, kept, inst, files, runtime, count, fixed>>

SendSave ==
    /\ pc = "send"
    /\ \/ Ok("sent") /\ save' = "sent" /\ saves' = saves + 1
       \/ Fail("unsent") /\ UNCHANGED <<save, saves>>
    /\ UNCHANGED <<upload, importJournal, kept, inst, files, game, cmd, submits, fixed>>

Unsent     == Record("unsent", [importJournal EXCEPT !.unsent = TRUE], Lost, Lost)
RecordSent == Record("sent", importJournal, "saving", Lost)

\* Mutant: any save of the world passes for this one.
AwaitAnySave ==
    \/ Loaded /\ Record("saving", [importJournal EXCEPT !.stage = "verified"], "unboot", Lost)
    \/ /\ pc = "saving" /\ Ok(Lost)
       /\ UNCHANGED <<upload, importJournal, kept, inst, files, runtime, count, fixed>>

\* The result of that command, the bindings and the file on disk agree.
AwaitSave ==
    \/ /\ save = "done" /\ target = "saved"
       /\ Record("saving", [importJournal EXCEPT !.stage = "verified"], "unboot", Lost)
    \/ /\ pc = "saving" /\ Ok(Lost)
       /\ UNCHANGED <<upload, importJournal, kept, inst, files, runtime, count, fixed>>

\* completeAsIsImportDurably
VerifyAsIs ==
    \/ Loaded /\ Record("asis", [importJournal EXCEPT !.stage = "verified"], "unboot", Lost)
    \/ /\ pc = "asis" /\ ~Loaded /\ Ok(Lost)
       /\ UNCHANGED <<upload, importJournal, kept, inst, files, runtime, count, fixed>>

\* cleanupCompletedImportBootstrap
DropBootstrap ==
    /\ pc = "unboot"
    /\ \/ (importJournal.boot = "none" \/ pointer = "target") /\ Ok("complete") /\ boot' = FALSE
       \/ Fail(Lost) /\ UNCHANGED boot
       \/ importJournal.boot # "none" /\ pointer # "target" /\ Ok(Lost) /\ UNCHANGED boot
    /\ UNCHANGED <<target, pointer, intent>> /\ OnFiles

Complete == Record("complete", [importJournal EXCEPT !.stage = "completed"], "running", Lost)

\* markCompletedImportRuntimeRunning; its failure does not undo the import.
PublishRunning == Publish("running", "running", "succeed", "failed")

\* The job succeeds; that the token says so may be deferred.
Succeed ==
    /\ pc = "succeed"
    /\ pc' = "idle" /\ work' = "none"
    /\ row' = IF work = "import" THEN "succeeded" ELSE row
    /\ \/ token' = (IF work = "import" THEN [token EXCEPT !.status = "succeeded"] ELSE token)
          /\ UNCHANGED faults
       \/ work = "import" /\ faults < ImportFaults /\ faults' = faults + 1 /\ UNCHANGED token
    /\ UNCHANGED <<payload, importJournal, kept, inst, files, runtime, count, fixed>>

Saving == \/ Durable \/ ReserveCommand \/ SendSave \/ Unsent \/ RecordSent \/ AwaitSave
          \/ VerifyAsIs \/ DropBootstrap \/ Complete \/ PublishRunning \/ Succeed

-----------------------------------------------------------------------------
(* The rollback of a confirmed swap (rollbackConfirmedHostSwapFailure)     *)

\* A completed import is left alone.
RollbackIntent ==
    \/ /\ importJournal.stage \notin Ended
       /\ Record("rollback", [importJournal EXCEPT !.rollback = "pending"], "rstop", "failed")
    \/ /\ pc = "rollback" /\ importJournal.stage \in Ended /\ Ok("failed")
       /\ UNCHANGED <<upload, importJournal, kept, inst, files, runtime, count, fixed>>

StopRollback == Stop("rstop", "rstopped", "rmanual")
RecordStopped == Record("rstopped", [importJournal EXCEPT !.rollback = "server_stopped"], "rsave", "failed")

RestoreSave ==
    /\ pc = "rsave"
    /\ \/ pointer = "target" /\ Ok("rsaved") /\ target' = "staged"
       \/ Fail("rmanual") /\ UNCHANGED target
       \/ pointer # "target" /\ Ok("rmanual") /\ UNCHANGED target
    /\ UNCHANGED <<pointer, intent, boot>> /\ OnFiles
RecordSave == Record("rsaved", [importJournal EXCEPT !.rollback = "save_restored"], "rpointer", "failed")

\* Mutant: the bootstrap world stays.
RestorePointerOnly ==
    /\ pc = "rpointer"
    /\ LET old == IF importJournal.boot # "none" THEN "none" ELSE importJournal.original
       IN  \/ Ok("rpointed") /\ pointer' = old
           \/ Fail("rmanual") /\ pointer' \in {pointer, old}
    /\ UNCHANGED <<target, intent, boot>> /\ OnFiles

RestorePointer ==
    /\ pc = "rpointer"
    /\ LET bootstrap == importJournal.boot # "none"
       IN  \/ /\ Ok("rpointed")
              /\ pointer' = IF bootstrap THEN "none" ELSE importJournal.original
              /\ boot' = FALSE
           \/ /\ Fail("rmanual")
              /\ pointer' \in {pointer, IF bootstrap THEN "none" ELSE importJournal.original}
              /\ UNCHANGED boot
    /\ UNCHANGED <<target, intent>> /\ OnFiles
RecordPointer == Record("rpointed", [importJournal EXCEPT !.rollback = "pointer_restored"], "rrow", "failed")

RestoreInstance == Publish("rrow", "orig", "rrowed", "rmanual")
RecordInstance  == Record("rrowed", [importJournal EXCEPT !.rollback = "instance_restored"], "rend", "failed")

RolledBack == Record("rend", [importJournal EXCEPT !.stage = "rolled_back", !.maint = FALSE,
                                             !.rollback = "completed"], "failed", "failed")
RollbackManual == Record("rmanual", [importJournal EXCEPT !.rollback = "manual", !.manual = TRUE],
                         "failed", "failed")

SwapRollback == \/ RollbackIntent \/ StopRollback \/ RecordStopped \/ RestoreSave \/ RecordSave
            \/ RestorePointer \/ RecordPointer \/ RestoreInstance \/ RecordInstance
            \/ RolledBack \/ RollbackManual

-----------------------------------------------------------------------------
(* Canceling and cleaning up                                               *)

\* reconcilePendingImportJobIdentity, for a commit that is repeated, a cancel
\* or autoRecoverSafeFailedSaveImport; the last two go on to clean a failure.
Reconcile ==
    /\ Serving /\ token.status = "owned" /\ ~token.receipt
    /\ row \in {"failed", "succeeded"} /\ Exists /\ importJournal.owned
    /\ \/ /\ importJournal' = [importJournal EXCEPT !.bind = "ready"]
          /\ token' = [token EXCEPT !.job = TRUE, !.status =
                IF row = "succeeded" /\ importJournal.stage = "completed" THEN "succeeded" ELSE "owned"]
          /\ \/ Ok("idle")
             \/ row = "failed" /\ Ok("clean")
       \/ /\ Fail("idle")
          /\ importJournal' \in {importJournal, [importJournal EXCEPT !.bind =
                                        IF importJournal.bind = "no" THEN "attached" ELSE importJournal.bind]}
          /\ token' \in {token, [token EXCEPT !.job = (importJournal'.bind # "no")]}
    /\ UNCHANGED <<payload, kept, inst, files, runtime, count, fixed>>

\* Mutant: a stopped maintenance is enough.
UnsubmittedIfStopped == ~importJournal.maint

\* The gates of CleanupUnsubmittedImport.
Unsubmitted ==
    /\ ~importJournal.maint
    /\ importJournal.fifo => importJournal.confirmed \/ Proven
    /\ importJournal.mrec \in {"none", "restored"}
    /\ ~Proven => ~(importJournal.submitted \/ importJournal.confirmed \/ AtLeast("submitted"))

\* buildImportCleanupPlan: everything is still what the journal made it.
Planned ==
    /\ IF AtLeast("staged") THEN target = "staged" ELSE target = "none"
    /\ CASE importJournal.boot = "created"            -> boot /\ pointer = "boot"
         [] importJournal.boot \in {"none", "built"}  -> ~boot /\ pointer = importJournal.original
         [] OTHER                               -> FALSE

PlanCleanup ==
    \/ /\ game = "down" /\ inst # "running" /\ importJournal.clean = "none" /\ Unsubmitted /\ Planned
       /\ Record("clean", [importJournal EXCEPT !.clean = "boot"], "clean", "idle")
    \/ /\ pc = "clean" /\ importJournal.stage # "canceled"
       /\ ~(game = "down" /\ inst # "running" /\ Unsubmitted /\ (importJournal.clean = "none" => Planned))
       /\ Ok("idle")
       /\ UNCHANGED <<upload, importJournal, kept, inst, files, runtime, count, fixed>>

\* Each removal is repeated after a crash; it tolerates that it was done.
Remove ==
    /\ pc = "clean" /\ game = "down" /\ Unsubmitted
    /\ \/ /\ importJournal.clean = "boot" /\ boot' = FALSE
          /\ pointer' = IF importJournal.boot = "created" THEN "none" ELSE pointer
          /\ UNCHANGED <<target, payload>>
       \/ /\ importJournal.clean = "staged"
          /\ target' = IF AtLeast("staged") THEN "none" ELSE target
          /\ UNCHANGED <<boot, pointer, payload>>
       \/ /\ importJournal.clean = "source" /\ payload' = "gone"
          /\ UNCHANGED <<boot, pointer, target>>
    /\ \/ Ok("removed")
       \/ Fail("idle")
    /\ UNCHANGED <<token, importJournal, kept, inst, intent, runtime, count, fixed>>

Removed ==
    LET next == [boot |-> "staged", staged |-> "source", source |-> "done"] IN
    /\ pc = "removed"
    /\ importJournal.clean \in DOMAIN next
    /\ Put([importJournal EXCEPT !.clean = next[importJournal.clean],
                           !.stage = IF importJournal.clean = "source" THEN "canceled" ELSE importJournal.stage],
           "clean", "idle")
    /\ UNCHANGED <<upload, kept, inst, files, runtime, count, fixed>>

\* A receipt, then the journal goes, then the token; a receipt found later
\* finishes the same way.
Receipt ==
    \/ /\ pc = "clean" /\ importJournal.stage = "canceled"
       /\ \/ Ok("finalize") /\ token' = [token EXCEPT !.receipt = TRUE]
          \/ Fail("idle") /\ token' \in {token, [token EXCEPT !.receipt = TRUE]}
       /\ UNCHANGED <<payload, importJournal, kept, inst, files, runtime, count, fixed>>
    \/ /\ Serving /\ token.receipt /\ Ok("finalize")
       /\ UNCHANGED <<upload, importJournal, kept, inst, files, runtime, count, fixed>>

\* FinalizeCanceledImportCleanup
FinalizeCleanup ==
    /\ pc = "finalize"
    /\ \/ (Exists => importJournal.stage = "canceled") /\ Ok("untoken") /\ importJournal' = NoJournal
       \/ Fail("idle") /\ UNCHANGED importJournal
    /\ UNCHANGED <<upload, kept, inst, files, runtime, count, fixed>>

RemoveToken ==
    /\ pc = "untoken"
    /\ \/ /\ token' = NoToken /\ row' = "none"   \* the next operation has its own key
          /\ pc' = "idle" /\ UNCHANGED <<work, faults>>
       \/ Fail("idle") /\ UNCHANGED token
    /\ UNCHANGED <<payload, importJournal, kept, inst, files, runtime, count, fixed>>

Cleanup == \/ Reconcile \/ PlanCleanup \/ Remove \/ Removed \/ Receipt \/ FinalizeCleanup
           \/ RemoveToken

-----------------------------------------------------------------------------
(* Stops of the panel, and the boot                                        *)

Crash ==
    /\ panel /\ crashes < ImportCrashes /\ crashes' = crashes + 1
    /\ panel' = FALSE /\ pc' = "idle" /\ work' = "none" /\ kept' = "no"
    /\ UNCHANGED <<swap, first, upload, importJournal, row, inst, files, runtime, count, faults>>

\* RecoverImportTransactions
Recovery ==
    IF importJournal.stage \in Ended \cup {"absent"} THEN "none"
    ELSE IF importJournal.rollback # "none" \/ importJournal.unsent THEN "manual"
    ELSE IF Proven /\ (importJournal.maint \/ importJournal.mrec \in {"captured", "pending"}) THEN "restore"
    ELSE IF importJournal.manual THEN "manual"
    ELSE IF importJournal.stage \in {"finalize_confirmed", "persisting", "verified"} THEN "durable"
    ELSE IF importJournal.confirmed THEN "activate"
    ELSE IF Proven THEN "none"
    ELSE IF Submitted THEN "manual"
    ELSE IF importJournal.maint \/ importJournal.mrec \in {"captured", "pending"} THEN "restore"
    ELSE "none"

\* RecoverInterruptedJobs, then prepareLocked with the recovery it finds.
Boot ==
    /\ ~panel /\ panel' = TRUE
    /\ row' = IF row = "active" THEN "failed" ELSE row
    /\ LET r == Recovery IN
       /\ pc' = IF r = "manual" THEN "bootmanual"
                ELSE IF r = "restore" THEN "bootstop"
                ELSE IF r \in {"durable", "activate"} THEN r
                ELSE IF importJournal.stage = "completed" /\ inst = "maint" /\ game # "down" THEN "bootrunning"
                ELSE "idle"
       /\ work' = IF r \in {"durable", "activate"} THEN "recovery" ELSE "none"
       /\ kept' = IF r # "restore" THEN "no" ELSE IF importJournal.maint THEN "up" ELSE "down"
    /\ UNCHANGED <<swap, first, upload, importJournal, inst, files, runtime, count, faults, crashes>>

StopAtBoot == Stop("bootstop", "restore", "giveup")
StopManual == Stop("bootmanual", "bootpersist", "bootpersist")

PersistManual == Record("bootpersist", [importJournal EXCEPT !.mrec = "manual", !.manual = TRUE],
                        "failed", "failed")

\* Mutant: the boot publishes a start that nobody is doing.
BootStarting == Publish("bootrunning", "starting", "failed", "failed")

\* recoverCompletedImportMaintenance
BootRunning == Publish("bootrunning", "running", "failed", "failed")

AtBoot == Crash \/ Boot \/ StopAtBoot \/ StopManual \/ PersistManual \/ BootRunning

-----------------------------------------------------------------------------
(* Junimo                                                                  *)

Up == game \notin {"down", "loading"}
Alone == UNCHANGED <<upload, importJournal, control, kept, inst, count, fixed>>

\* The world the pointer names comes up.
Loads == /\ game = "loading"
         /\ game' = IF pointer = "none" THEN "orig" ELSE pointer
         /\ UNCHANGED <<files, cmd, save, faults>> /\ Alone

\* The import, in its order: convert the host and leave an intent (a swap),
\* move the pointer, reload.  It may give up anywhere.
Imports ==
    /\ cmd # "none" /\ Up /\ UNCHANGED <<boot, save, faults>> /\ Alone
    /\ \/ /\ cmd = "queued" /\ swap /\ cmd' = "converted" /\ target' = "converted"
          /\ UNCHANGED <<pointer, intent, game>>
       \/ /\ cmd = "converted" /\ cmd' = "pending" /\ intent' = TRUE
          /\ UNCHANGED <<pointer, target, game>>
       \/ /\ cmd = (IF swap THEN "pending" ELSE "queued") /\ cmd' = "moved" /\ pointer' = "target"
          /\ UNCHANGED <<target, intent, game>>
       \/ /\ cmd = "moved" /\ cmd' = "none" /\ game' = "loading"
          /\ UNCHANGED <<target, intent, pointer>>
       \/ /\ cmd' = "none" /\ UNCHANGED <<target, intent, pointer, game>>

\* The finalizer of a swap runs in the target world.
Finalizes == /\ game = "target" /\ intent /\ intent' = FALSE
             /\ UNCHANGED <<target, pointer, boot, runtime, faults>> /\ Alone

\* save-now: the world is saved and its result written, or it fails.
SavesNow == /\ save = "sent" /\ game = "target"
            /\ \/ save' = "done" /\ target' = "saved"
               \/ save' = "failed" /\ UNCHANGED target
            /\ UNCHANGED <<pointer, intent, boot, game, cmd, faults>> /\ Alone

Exits == /\ game # "down" /\ game' = "down" /\ cmd' = "none"
         /\ faults < ImportFaults /\ faults' = faults + 1
         /\ UNCHANGED <<files, save>> /\ Alone

Junimo == Loads \/ Imports \/ Finalizes \/ SavesNow \/ Exits

ImportNext == \/ Request \/ Staging \/ Maintenance \/ Restore \/ PhaseA \/ Activation
              \/ Saving \/ SwapRollback \/ Cleanup \/ AtBoot \/ Junimo

ImportSpec == ImportInit /\ [][ImportNext]_importVars

-----------------------------------------------------------------------------
(* Properties                                                              *)

\* Each command of an operation is published once at most, and only when the
\* journal already says that it may have been, whatever fails or stops.
CommandsOnce ==
    /\ submits <= 1 /\ saves <= 1
    /\ submits > 0 /\ Exists => importJournal.fifo
    /\ saves > 0 /\ Exists => importJournal.command

\* An import that has been canceled changed nothing, and no command is left
\* that could: the saves, the pointer and the instance are as before.
CanceledLeavesNothing ==
    importJournal.stage = "canceled" =>
        /\ target = "none" /\ ~boot /\ ~intent /\ pointer = first
        /\ inst = "orig" /\ game = "down" /\ cmd = "none"

\* A confirmed import that reports a rollback has put back the uploaded save
\* as it was staged, the pointer and the instance, with the game stopped.
RolledBackRestored ==
    importJournal.stage = "rolled_back" =>
        /\ swap /\ target = "staged" /\ pointer = first /\ ~boot
        /\ inst = "orig" /\ game = "down" /\ cmd = "none"

\* An import that ended without success left the instance as it was.
FailedChangesNothing == CanceledLeavesNothing /\ RolledBackRestored

\* Players are let in only when the import is durable: the target is active,
\* and after a swap finalized and saved by the command of this operation.
PublishedWhenDurable ==
    /\ inst = "running" => importJournal.stage = "completed"
    /\ importJournal.stage = "completed" =>
        /\ pointer = "target" /\ ~intent /\ ~boot
        /\ swap => target = "saved" /\ saves = 1

\* The private game and the instance in maintenance are always in the journal,
\* so that a boot finds and stops them.
PrivateAccounted ==
    /\ game # "down" => importJournal.maint \/ importJournal.restarted
    /\ inst = "maint" => Exists /\ importJournal.mrec \notin {"none", "restored"}

\* Nothing is served that the journal does not say: not to players before the import is
\* durable, and not in private without a record that a boot finds.
ServedAsRecorded == PublishedWhenDurable /\ PrivateAccounted

PCs == {"idle", "admit", "refused", "move", "own", "ownjournal", "start", "bind", "bindtoken",
        "bindready", "stage", "staged", "backup", "bootname", "bootbuild", "bootmake", "bootmade",
        "bootselect", "bootselected", "check", "publish", "startintent", "up", "upreturned",
        "ready", "republish", "mstop", "restore", "restorerow", "restored", "giveup", "prepare",
        "fifo", "submitted", "observe", "phasestop", "judge", "half", "phasefailed", "ambiguous",
        "ambstop", "activate", "restartintent", "restart", "restarted", "await", "durable",
        "reserve", "send", "unsent", "sent", "saving", "asis", "unboot", "complete", "running",
        "succeed", "rollback", "rstop", "rstopped", "rsave", "rsaved", "rpointer", "rpointed",
        "rrow", "rrowed", "rend", "rmanual", "clean", "removed", "finalize", "untoken",
        "bootstop", "bootmanual", "bootpersist", "bootrunning"}

Journals == [stage: {"absent", "canceled", "rolled_back"} \cup {ImportStages[i] : i \in 1..11},
             original: {"none", "orig", "boot"}, owned: BOOLEAN, bind: {"no", "attached", "ready"},
             boot: {"none", "named", "built", "created"}, maint: BOOLEAN,
             mrec: {"none", "captured", "intent", "up", "ready", "pending", "restored", "manual"},
             manual: BOOLEAN, fifo: BOOLEAN, submitted: BOOLEAN, confirmed: BOOLEAN,
             outcome: {"none", "no_effect", "confirmed", "recovery", "contradictory", "half"},
             restarted: BOOLEAN, command: BOOLEAN, unsent: BOOLEAN,
             rollback: {"none", "pending", "server_stopped", "save_restored", "pointer_restored",
                        "instance_restored", "completed", "manual"},
             clean: {"none", "boot", "staged", "source", "done"}]

ImportTypeOK ==
    /\ swap \in BOOLEAN /\ first \in {"orig", "none"} /\ panel \in BOOLEAN
    /\ token \in [status: {"none", "available", "reserved", "owned", "succeeded"},
                  job: BOOLEAN, receipt: BOOLEAN]
    /\ payload \in {"gone", "upload", "source", "saves"} /\ importJournal \in Journals
    /\ row \in {"none", "active", "failed", "succeeded"} /\ pc \in PCs
    /\ work \in {"none", "import", "recovery"} /\ kept \in {"no", "up", "down"}
    /\ inst \in {"orig", "maint", "running"}
    /\ target \in {"none", "staged", "converted", "saved"}
    /\ pointer \in {"none", "orig", "boot", "target"} /\ intent \in BOOLEAN /\ boot \in BOOLEAN
    /\ game \in {"down", "loading", "orig", "boot", "target"}
    /\ cmd \in {"none", "queued", "converted", "pending", "moved"}
    /\ save \in {"none", "sent", "done", "failed"}
    /\ submits \in 0..2 /\ saves \in 0..2
    /\ faults \in 0..ImportFaults /\ crashes \in 0..ImportCrashes
=============================================================================
