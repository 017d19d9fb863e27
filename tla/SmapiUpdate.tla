----------------------------- MODULE SmapiUpdate -----------------------------
(***************************************************************************)
(* The update of SMAPI in an instance's game                               *)
(* (stardew_junimo/smapi_update*.go, smapi_archive.go, smapi_mod.go and    *)
(* smapi_bundled_sync.go).                                                 *)
(*                                                                         *)
(* A job clones the game volume, installs SMAPI into the clone, stops the  *)
(* server, replaces the Control mod, lets .env name the clone, brings the  *)
(* mods bundled with SMAPI in line, starts the server and verifies it.  It *)
(* writes its phase to apply-status.json and what a rollback needs to a    *)
(* recovery directory of its own.  An error rolls back; when the panel was *)
(* stopped, the next boot does, without starting the server.               *)
(*                                                                         *)
(* Any step may fail, as may the writing of a phase.  Each update has an   *)
(* identifier, hence a clone and a recovery directory that no later one    *)
(* reads.  Control files that did not exist count as the old ones.         *)
(***************************************************************************)
EXTENDS Naturals

CONSTANTS
    SmapiFaults, \* bound on failing steps
    SmapiStops   \* bound on stops of the panel

ASSUME SmapiAssumption == SmapiFaults \in Nat /\ SmapiStops \in Nat

VARIABLES
    work,       \* the next step of the job; "idle" when there is none
    duty,       \* what the last job was for: "apply" or "boot"
    held,       \* what it remembers: [mutated, switched, keep]
    report,     \* the phase in apply-status.json
    late,       \* the phase the boot has read and is about to write again
    kit,        \* the recovery directory: [dir, switched]
    dry,        \* the dry run succeeded
    archive,    \* the installer in the cache
    volume,     \* the game volume .env names: the "old" one or the "clone"
    clone,      \* what is in the clone
    controlMod, \* the Control mod on disk
    bundled,    \* the mods bundled with SMAPI, beside the users'
    spare,      \* the copy of them a replacement has set aside
    game,       \* the containers: [up, uses]
    was,        \* the server was up when the update was asked for
    origin,     \* what was there then: [control, bundled]
    alive,      \* the panel is up
    unnoted,    \* a stop left a switch the recovery directory knows nothing of
    failures, stops

smapiVars == <<work, duty, held, report, late, kit, dry, archive, volume, clone, controlMod, bundled, spare,
               game, was, origin, alive, unnoted, failures, stops>>
\* what an ordinary step of the job leaves alone
fixed     == <<duty, late, was, origin, alive, unnoted, stops>>
notes    == <<held, kit, dry, archive>>
smapiMods     == <<controlMod, bundled, spare>>
places    == <<volume, clone, game>>

SmapiFinal == {"succeeded", "failed_rolled_back", "rollback_failed"}   \* smapiApplyTerminal
NoChangeYet == {"checking", "downloading", "validating"}                 \* phases before any change
Forward    == NoChangeYet \cup {"staging", "stopping", "switching", "starting", "verifying", "restoring"}

NoKit  == [dir |-> "none", switched |-> FALSE]
Blank  == [mutated |-> FALSE, switched |-> FALSE, keep |-> FALSE]

SmapiInit ==
    /\ work = "idle" /\ duty = "apply" /\ held = Blank
    /\ report = "none" /\ late = "no" /\ kit = NoKit /\ dry = FALSE
    /\ archive \in {"unfit", "good"}
    /\ volume = "old" /\ clone = "none" /\ controlMod = "old" /\ bundled = "old" /\ spare = "none"
    /\ game \in [up: BOOLEAN, uses: {"old"}]
    /\ was = FALSE /\ origin = [control |-> "old", bundled |-> "old"]
    /\ alive = TRUE /\ unnoted = FALSE /\ failures = 0 /\ stops = 0

-----------------------------------------------------------------------------
(* Steps that succeed and steps that fail                                  *)

Done(q)   == work' = q /\ UNCHANGED failures
Broken(q) == work' = q /\ failures < SmapiFaults /\ failures' = failures + 1

\* The step p of an apply: its effect, or an error after which it rolls back.
Attempt(p, q, effect, error) ==
    /\ work = p
    /\ \/ effect /\ Done(q)
       \/ error /\ Broken("undo")
    /\ UNCHANGED fixed

\* set: the phase is written, or the step fails before it has begun.
Phased(phase) == report' = phase
MaybePhased(phase) == report' \in {report, phase}

\* doStop stops the containers and keeps them; doStart creates them anew.
Stopped     == game' = [game EXCEPT !.up = FALSE]
MaybeStopped == game' \in {game, [game EXCEPT !.up = FALSE]}
Started     == game' = [up |-> TRUE, uses |-> volume]
MaybeStarted == game' \in {game, [up |-> FALSE, uses |-> volume], [up |-> TRUE, uses |-> volume]}

-----------------------------------------------------------------------------
(* The request                                                             *)

\* RunSMAPIUpdateDryRun: what it checks is true or not.
SmapiDryRun ==
    /\ alive /\ work = "idle" /\ late = "no" /\ ~dry
    /\ dry' = TRUE
    /\ UNCHANGED <<work, held, report, kit, archive, smapiMods, places, fixed, failures>>

\* InspectSMAPIUpdate: there is an older SMAPI in the volume .env names.
Outdated == volume = "old"

\* StartSMAPIUpdateApply: a new identifier, whose clone and recovery directory
\* do not exist.  When the phase cannot be written the job ends at once.
SmapiRequest ==
    /\ alive /\ work = "idle" /\ late = "no"
    /\ dry /\ report # "rollback_failed" /\ Outdated
    /\ \/ Done("check") /\ report' = "checking" /\ was' = game.up
          /\ origin' = [control |-> controlMod, bundled |-> bundled]
          /\ duty' = "apply" /\ held' = Blank /\ kit' = NoKit /\ clone' = "none"
       \/ Broken("idle") /\ UNCHANGED <<report, was, origin, duty, held, kit, clone>>
    /\ UNCHANGED <<late, alive, unnoted, stops, dry, archive, smapiMods, volume, game>>

-----------------------------------------------------------------------------
(* runSMAPIUpdateApply                                                     *)

\* The dry run again.
Recheck ==
    /\ Attempt("check", "fetch", Phased("checking"), MaybePhased("checking"))
    /\ UNCHANGED <<notes, smapiMods, places>>

\* ensureRecommendedSMAPIArchive: the cached installer when it is the reviewed
\* one; else it is replaced by a download that has passed the same checks.
EnsureArchive ==
    /\ Attempt("fetch", "save", Phased("downloading") /\ archive' = "good",
                                MaybePhased("downloading") /\ UNCHANGED archive)
    /\ UNCHANGED <<held, kit, dry, smapiMods, places>>

\* The installer is validated once more and the Control mod copied.
BackupControl ==
    /\ Attempt("save", "note", Phased("validating") /\ kit' = [kit EXCEPT !.dir = "copies"],
                               MaybePhased("validating") /\ kit' \in {kit, [kit EXCEPT !.dir = "copies"]})
    /\ UNCHANGED <<held, dry, archive, smapiMods, places>>

\* manifest.json says what to go back to.
WriteKit ==
    /\ Attempt("note", "create", kit' = [kit EXCEPT !.dir = "whole"], UNCHANGED kit)
    /\ UNCHANGED <<report, held, dry, archive, smapiMods, places>>

\* From the creation of the clone on, there is something to roll back.
CreateClone ==
    /\ Attempt("create", "clone", Phased("staging") /\ clone' = "made" /\ held' = [held EXCEPT !.mutated = TRUE],
                                  MaybePhased("staging") /\ clone' \in {"none", "made"} /\ UNCHANGED held)
    /\ UNCHANGED <<kit, dry, archive, smapiMods, volume, game>>

\* The game is cloned, SMAPI installed into the clone and its version read back.
CloneGame ==
    /\ Attempt("clone", "install", Phased("staging") /\ clone' = "copied", MaybePhased("staging") /\ UNCHANGED clone)
    /\ UNCHANGED <<notes, smapiMods, volume, game>>
InstallSmapi ==
    /\ Attempt("install", "verify", Phased("staging") /\ clone' = (IF archive = "good" THEN "ready" ELSE clone),
                                    MaybePhased("staging") /\ clone' \in {clone, "spoilt"})
    /\ UNCHANGED <<notes, smapiMods, volume, game>>
VerifyClone ==
    /\ Attempt("verify", "halt", Phased("staging") /\ clone = "ready", MaybePhased("staging"))
    /\ UNCHANGED <<notes, smapiMods, places>>

\* The server is stopped if it runs, whatever it did when the update was asked for.
HaltServer ==
    /\ Attempt("halt", "control",
               IF game.up THEN Phased("stopping") /\ Stopped ELSE UNCHANGED <<report, game>>,
               MaybePhased("stopping") /\ MaybeStopped)
    /\ UNCHANGED <<notes, smapiMods, volume, clone>>

\* installSMAPIMod: two files, one after the other.
ReplaceControl ==
    /\ Attempt("control", "switch", controlMod' = "new", controlMod' \in {controlMod, "mixed"})
    /\ UNCHANGED <<report, notes, bundled, spare, places>>

\* switchGameDataVolumeAtomic.
SwitchVolume ==
    /\ Attempt("switch", "switched", Phased("switching") /\ volume' = "clone", MaybePhased("switching") /\ UNCHANGED volume)
    /\ UNCHANGED <<notes, smapiMods, clone, game>>

\* The recovery directory learns of the switch after it; the job knows anyway.
NoteSwitch ==
    /\ Attempt("switched", "sync", kit' = [kit EXCEPT !.switched = TRUE], UNCHANGED kit)
    /\ held' = [held EXCEPT !.switched = TRUE]
    /\ UNCHANGED <<report, dry, archive, smapiMods, places>>

-----------------------------------------------------------------------------
(* EnsureManagedSMAPIBundledMods, by an apply and by a rollback            *)

Supplied == IF volume = "old" THEN "old" ELSE "new"

\* recoverManagedSMAPIBundledPublication: what was set aside returns when
\* nothing is in its place, and is removed otherwise.
InPlace == IF bundled = "none" THEN spare ELSE bundled

\* The mods of the volume are copied and compared; when they differ, those in
\* place are set aside.
SetAside(p, q, r, bad) ==
    /\ work = p
    /\ \/ IF InPlace = Supplied
             THEN Done(r) /\ bundled' = Supplied /\ spare' = "none"
             ELSE Done(q) /\ bundled' = "none" /\ spare' = InPlace
       \/ Broken(bad) /\ \/ UNCHANGED <<bundled, spare>>
                         \/ bundled' = InPlace /\ spare' = "none"
    /\ UNCHANGED <<fixed, notes, controlMod, places>>

\* The copy is moved into place; else what was set aside returns, or stays there.
Publish(p, q, bad) ==
    /\ work = p
    /\ \/ Done(q) /\ bundled' = Supplied /\ spare' = "none"
       \/ Broken(bad) /\ \/ bundled' = spare /\ spare' = "none"
                         \/ UNCHANGED <<bundled, spare>>
    /\ UNCHANGED <<fixed, notes, controlMod, places>>

SyncBundled    == SetAside("sync", "publish", "start", "undo") /\ UNCHANGED report
PublishBundled == Publish("publish", "start", "undo") /\ UNCHANGED report

-----------------------------------------------------------------------------
(* The stack is started, verified and left as it was found                 *)

StartStack ==
    /\ Attempt("start", "stack", Phased("starting") /\ Started, MaybePhased("starting") /\ MaybeStarted)
    /\ UNCHANGED <<notes, smapiMods, volume, clone>>

\* verifySMAPIStack, until it passes or its time is over.
VerifyStack ==
    /\ Attempt("stack", "restore", Phased("verifying") /\ game.up, MaybePhased("verifying"))
    /\ UNCHANGED <<notes, smapiMods, places>>

RestoreStopped ==
    /\ Attempt("restore", "finish",
               IF was THEN UNCHANGED <<report, game>> ELSE Phased("restoring") /\ Stopped,
               ~was /\ MaybePhased("restoring") /\ MaybeStopped)
    /\ UNCHANGED <<notes, smapiMods, volume, clone>>

SmapiSucceeds ==
    /\ Attempt("finish", "tidy", Phased("succeeded"), UNCHANGED report)
    /\ UNCHANGED <<notes, smapiMods, places>>

\* os.RemoveAll of the recovery directory, file by file.
Tidy ==
    /\ work = "tidy"
    /\ work' = "idle" /\ kit' = NoKit
    /\ UNCHANGED <<report, held, dry, archive, smapiMods, places, fixed, failures>>

-----------------------------------------------------------------------------
(* rollbackSMAPIUpdate                                                     *)

\* markSMAPIRollbackFailed: when even this cannot be written the phase stays.
GiveUp(bound) ==
    /\ work' = "idle"
    /\ \/ report' = "rollback_failed" /\ failures' = failures + bound
       \/ report' = report /\ failures' = failures + bound + 1
    /\ failures' <= SmapiFaults

\* The step p of a rollback: its effect, or an error that ends it.
UndoStep(p, q, effect, error) ==
    /\ work = p
    /\ \/ effect /\ Done(q) /\ UNCHANGED report
       \/ error /\ GiveUp(1)
    /\ UNCHANGED fixed

\* An error to write the phase is ignored.
BeginUndo ==
    /\ work = "undo"
    /\ LET next == IF ~held.mutated THEN "settle" ELSE IF held.switched THEN "unstop" ELSE "uncontrol"
       IN  \/ Done(next) /\ report' = "rolling_back"
           \/ Broken(next) /\ UNCHANGED report
    /\ UNCHANGED <<fixed, notes, smapiMods, places>>

UndoStop ==
    /\ UndoStep("unstop", IF held.switched THEN "unswitch" ELSE "uncontrol", Stopped, MaybeStopped)
    /\ UNCHANGED <<notes, smapiMods, volume, clone>>

UndoSwitch ==
    /\ UndoStep("unswitch", "unsync", volume' = "old", UNCHANGED volume)
    /\ UNCHANGED <<notes, smapiMods, clone, game>>

\* An error in the mods ends the rollback: the state "lost" only reports it.
UndoBundled ==
    \/ SetAside("unsync", "unpublish", "uncontrol", "lost") /\ UNCHANGED report
    \/ Publish("unpublish", "uncontrol", "lost") /\ UNCHANGED report
UndoLost ==
    /\ work = "lost" /\ GiveUp(0)
    /\ UNCHANGED <<fixed, notes, smapiMods, places>>

\* restoreControlMod, from copies that must be there.
UndoControl ==
    /\ work = "uncontrol"
    /\ \/ /\ kit.dir = "whole" /\ controlMod' = origin.control /\ UNCHANGED report
          /\ Done(IF held.keep THEN "drop" ELSE "restart")
       \/ kit.dir = "whole" /\ controlMod' \in {controlMod, "mixed"} /\ GiveUp(1)
       \/ kit.dir = "torn" /\ UNCHANGED controlMod /\ GiveUp(0)
    /\ UNCHANGED <<fixed, notes, bundled, spare, places>>

\* The old stack is started and verified even when the server was down.
OldStackUp ==
    /\ UndoStep("restart", "reverify", Started, MaybeStarted)
    /\ UNCHANGED <<notes, smapiMods, volume, clone>>
VerifyOldStack ==
    /\ UndoStep("reverify", IF was THEN "drop" ELSE "unhalt", game.up, TRUE)
    /\ UNCHANGED <<notes, smapiMods, places>>
StopOldStack ==
    /\ UndoStep("unhalt", "drop", Stopped, MaybeStopped)
    /\ UNCHANGED <<notes, smapiMods, volume, clone>>

\* docker volume rm, which refuses a volume that a container uses.  A boot that
\* found no switch removes its materials before it says so.
DropClone ==
    /\ work = "drop"
    /\ LET next == IF held.keep /\ ~held.switched THEN "forget" ELSE "settle"
       IN  \/ Done(next) /\ clone' = (IF game.uses = "clone" THEN clone ELSE "none")
           \/ Broken(next) /\ UNCHANGED clone
    /\ UNCHANGED <<fixed, report, notes, smapiMods, volume, game>>
ForgetKit ==
    /\ work = "forget"
    /\ \/ Done("settle") /\ kit' = NoKit
       \/ Done("forget") /\ kit.dir = "whole" /\ kit' = [kit EXCEPT !.dir = "torn"]
    /\ UNCHANGED <<fixed, report, held, dry, archive, smapiMods, places>>

SmapiRolledBack ==
    /\ work = "settle"
    /\ \/ Done(IF held.mutated THEN "tidy" ELSE "idle") /\ report' = "failed_rolled_back"
       \/ Broken("idle") /\ UNCHANGED report
    /\ UNCHANGED <<fixed, notes, smapiMods, places>>

-----------------------------------------------------------------------------
(* Stops of the panel, and RecoverSMAPIUpdateApply at the next boot        *)

Interrupted == report \notin SmapiFinal \cup {"none"}

SmapiCrash ==
    /\ alive /\ stops < SmapiStops
    /\ alive' = FALSE /\ stops' = stops + 1
    /\ work' = "idle" /\ held' = Blank /\ late' = "no"
    /\ unnoted' = (unnoted \/ (Interrupted /\ ~kit.switched /\ (volume = "clone" \/ held.switched)))
    /\ UNCHANGED <<duty, report, kit, dry, archive, smapiMods, places, was, origin, failures>>

BootStays   == UNCHANGED <<work, duty, held, late>>

\* Nothing to recover.
BootIdle == ~Interrupted /\ BootStays /\ UNCHANGED <<report, game, failures>>

\* Without a manifest: before any change the server is stopped and the update
\* is over; later it is for a person to see to.
BootUnmanaged ==
    /\ Interrupted /\ kit.dir \notin {"whole", "torn"}
    /\ work' = "idle" /\ duty' = "boot" /\ UNCHANGED <<held, late>>
    /\ IF report \in NoChangeYet
          THEN \/ Stopped /\ report' = "failed_rolled_back" /\ UNCHANGED failures
               \/ Stopped /\ report' = report /\ failures < SmapiFaults /\ failures' = failures + 1
               \/ MaybeStopped /\ GiveUp(1)
          ELSE UNCHANGED game /\ GiveUp(0)

\* With one, a job rolls back and keeps the server down, if it can be started.
\* (A variant: the server is put back into the state it had.)
BootResumes ==
    /\ Interrupted /\ kit.dir \in {"whole", "torn"}
    /\ Done(IF kit.switched THEN "undo" ELSE "unstop")
    /\ duty' = "boot" /\ late' = report
    /\ held' = [mutated |-> TRUE, switched |-> kit.switched, keep |-> FALSE]
    /\ UNCHANGED <<report, game>>
BootUndoes ==
    /\ Interrupted /\ kit.dir \in {"whole", "torn"}
    /\ \/ /\ Done(IF kit.switched THEN "undo" ELSE "unstop")
          /\ duty' = "boot" /\ late' = report
          /\ held' = [mutated |-> TRUE, switched |-> kit.switched, keep |-> TRUE]
       \/ Broken("idle") /\ UNCHANGED <<duty, held, late>>
    /\ UNCHANGED <<report, game>>

RecoverSmapi ==
    /\ ~alive /\ alive' = TRUE
    /\ BootIdle \/ BootUnmanaged \/ BootUndoes
    /\ UNCHANGED <<kit, dry, archive, smapiMods, volume, clone, was, origin, unnoted, stops>>

\* The boot writes the status with the identifier of the job it has started:
\* the phase it read, or one the job has written to the same record since.
BootNotesJob ==
    /\ late # "no"
    /\ report' \in {late, report}
    /\ late' = "no"
    /\ UNCHANGED <<work, duty, notes, smapiMods, places, was, origin, alive, unnoted, failures, stops>>

-----------------------------------------------------------------------------
SmapiApply ==
    \/ Recheck \/ EnsureArchive \/ BackupControl \/ WriteKit \/ CreateClone
    \/ CloneGame \/ InstallSmapi \/ VerifyClone \/ HaltServer \/ ReplaceControl
    \/ SwitchVolume \/ NoteSwitch \/ SyncBundled \/ PublishBundled
    \/ StartStack \/ VerifyStack \/ RestoreStopped \/ SmapiSucceeds \/ Tidy

SmapiUndo ==
    \/ BeginUndo \/ UndoStop \/ UndoSwitch \/ UndoBundled \/ UndoLost \/ UndoControl
    \/ OldStackUp \/ VerifyOldStack \/ StopOldStack \/ DropClone \/ ForgetKit \/ SmapiRolledBack

SmapiNext == SmapiDryRun \/ SmapiRequest \/ SmapiApply \/ SmapiUndo \/ SmapiCrash \/ RecoverSmapi \/ BootNotesJob

SmapiSpec == SmapiInit /\ [][SmapiNext]_smapiVars

-----------------------------------------------------------------------------
(* Properties                                                              *)

\* Every variable has its type.
SmapiTypeOK ==
    /\ work \in {"idle", "tidy", "check", "fetch", "save", "note", "create", "clone", "install", "verify", "halt",
                "control", "switch", "switched", "sync", "publish", "start", "stack", "restore", "finish", "undo",
                "unstop", "unswitch", "unsync", "unpublish", "lost", "uncontrol", "restart", "reverify", "unhalt",
                "drop", "forget", "settle"}
    /\ duty \in {"apply", "boot"}
    /\ held \in [mutated: BOOLEAN, switched: BOOLEAN, keep: BOOLEAN]
    /\ report \in Forward \cup SmapiFinal \cup {"none", "rolling_back"}
    /\ late \in Forward \cup {"no", "rolling_back"}
    /\ kit \in [dir: {"none", "copies", "whole", "torn"}, switched: BOOLEAN]
    /\ dry \in BOOLEAN /\ archive \in {"unfit", "good"}
    /\ volume \in {"old", "clone"} /\ clone \in {"none", "made", "copied", "ready", "spoilt"}
    /\ controlMod \in {"old", "mixed", "new"}
    /\ bundled \in {"old", "new", "none"} /\ spare \in {"old", "new", "none"}
    /\ game \in [up: BOOLEAN, uses: {"old", "clone"}] /\ was \in BOOLEAN
    /\ origin \in [control: {"old", "mixed", "new"}, bundled: {"old", "new", "none"}]
    /\ alive \in BOOLEAN /\ unnoted \in BOOLEAN
    /\ failures \in 0..SmapiFaults /\ stops \in 0..SmapiStops

\* What was there before the update is there again.
AsBefore == volume = "old" /\ controlMod = origin.control /\ bundled \in {"old", origin.bundled}

\* The three outcomes the panel reports are true: a success is the verified
\* clone with its mods and the server as it was found; a rollback has put back
\* volume and mods, with the server as it was found or, after a boot, down; and
\* a rollback that failed has kept its materials unless nothing is left to do.
\* The volume .env names is always there.
\* Nothing is said once a stop fell between the switch and its note.
SmapiOutcome ==
    unnoted \/
    /\ report = "succeeded" =>
          volume = "clone" /\ clone = "ready" /\ controlMod = "new" /\ bundled = "new" /\ game.up = was
    /\ report = "failed_rolled_back" =>
          AsBefore /\ game.up = (duty = "apply" /\ was) /\ (game.up => game.uses = "old")
    /\ report = "rollback_failed" => AsBefore \/ kit.dir = "whole"
    /\ volume = "clone" => clone = "ready"

\* "Before the volume switch it ... discards the controlled staging volume;
\* after the switch it restores the old volume" (smapi_update_workflow.go:269).
SwitchUndone == report = "failed_rolled_back" => volume = "old"
=============================================================================
