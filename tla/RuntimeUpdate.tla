---------------------------- MODULE RuntimeUpdate ----------------------------
(***************************************************************************)
(* The update of an instance's runtime: server and auth images, the Junimo *)
(* and Control mods and .env (stardew_junimo/runtime_update_*.go).         *)
(*                                                                         *)
(* A job writes into manifest.json what it is about to change, changes it, *)
(* verifies the result and publishes a terminal phase in apply-status.json;*)
(* or it rolls back from the materials beside the manifest.  The panel may *)
(* stop between any two steps.  The next boot resolves what it finds but   *)
(* must not start the game, and a user may ask for a bounded number of     *)
(* repairs of a rollback that failed.                                      *)
(*                                                                         *)
(* Every step may fail: disk, Docker, a verification that times out or the *)
(* cancellation of the job, after which each Docker call fails in turn.    *)
(* The phases between "stopping" and "restoring_state" are one, "applying":*)
(* nothing reads the difference.  A retry of the update begins as a new    *)
(* apply with a directory of its own; an older one is never read again.    *)
(***************************************************************************)
EXTENDS Naturals

CONSTANTS
    RepairLimit, \* runtimeUpdateRepairAttemptLimit
    MaxFaults,   \* bound on failing steps
    MaxCrashes   \* bound on stops of the panel

ASSUME RepairAssumption == RepairLimit \in Nat
ASSUME BoundsAssumption == MaxFaults \in Nat /\ MaxCrashes \in Nat

VARIABLES
    need,     \* what differs from the target: [uses, auth, server]
    pc,       \* where the job is; "idle" when there is none
    mode,     \* why it runs: "apply", "boot" or "repair"
    mem,      \* its copy of the manifest
    status,   \* apply-status.json
    man,      \* manifest.json and the recovery directory it is in
    env,      \* .env and the compose file
    control,  \* the Control mod
    mods,     \* the Junimo mod: where the game loads it from and set aside
    server, auth, \* the containers, by the configuration they started with
    session,  \* the volume with the Steam session: "used" by the new auth
    snapshot, \* the volume its copy is in
    images,   \* which of the images in use before are still there
    db,       \* the instance is running, as the database has it
    asked,    \* what a request to update read there
    checked,  \* the dry run of this update succeeded
    panel,    \* the panel is up
    unrecorded, \* something was done that no manifest says (history)
    faults, crashes

job     == <<pc, mode, mem>>
journal == <<status, man>>
files   == <<env, control, mods>>
volumes == <<session, snapshot>>
docker  == <<server, auth, volumes, images>>
old     == <<need, unrecorded>>
rest    == <<old, db, asked, checked, panel, crashes>>
vars    == <<job, journal, files, docker, rest, faults>>

Final    == {"succeeded", "rolled_back"}
Terminal == Final \cup {"rollback_failed"}
Early    == {"preparing", "resuming"}      \* runtimeUpdateApplyPreMutationPhase
Phases   == Terminal \cup Early \cup {"none", "applying", "rolling_back"}

\* The recovery directory exists, or the removal of it has begun.
Manifest == [dir: {"no", "whole", "torn"}, mutated: BOOLEAN, control: BOOLEAN,
             snap: BOOLEAN, cloned: BOOLEAN, mod: BOOLEAN, modWas: BOOLEAN,
             auth: BOOLEAN, authStart: BOOLEAN, authWas: BOOLEAN,
             saved: {"orig", "mixed", "target"}]

NoManifest == [dir |-> "no", mutated |-> FALSE, control |-> FALSE,
               snap |-> FALSE, cloned |-> FALSE, mod |-> FALSE, modWas |-> FALSE,
               auth |-> FALSE, authStart |-> FALSE, authWas |-> FALSE,
               saved |-> "orig"]

Init ==
    /\ need \in {n \in [uses: BOOLEAN, auth: BOOLEAN, server: BOOLEAN] : n.auth => n.uses}
    /\ pc = "idle" /\ mode = "none" /\ mem = NoManifest
    /\ status = [phase |-> "none", attempts |-> 0, was |-> FALSE]
    /\ man = NoManifest
    /\ env = "orig" /\ control = "orig"
    /\ mods \in {[active |-> a, backup |-> "none", aside |-> "none"] : a \in {"orig", "none"}}
    /\ server \in {"down", "orig"} /\ (mods.active = "none" => server = "down")
    /\ auth \in {"down", "orig"} /\ (~need.uses => auth = "down")
    /\ session = "orig" /\ snapshot = "none" /\ images = {"server", "auth"}
    /\ db = (server # "down")
    /\ asked = "no" /\ checked = FALSE /\ panel = TRUE /\ unrecorded = FALSE
    /\ faults = 0 /\ crashes = 0

-----------------------------------------------------------------------------
(* Steps that succeed and steps that fail                                  *)

Goto(p, m) == /\ pc' = p
              /\ mem' = IF p = "idle" THEN NoManifest ELSE m
              /\ mode' = IF p = "idle" THEN "none" ELSE mode
Ok(p)   == Goto(p, mem) /\ UNCHANGED faults
Fail(p) == Goto(p, mem) /\ faults < MaxFaults /\ faults' = faults + 1

Phase(p) == [status EXCEPT !.phase = p]

\* finish: the terminal phase is written and the job ends; when even that
\* write fails the job ends with the phase it had.
Finish(p) == /\ Fail("idle")
             /\ status' \in {Phase(p), status}

\* writeRuntimeUpdateRecoveryManifest of m: on an error the job rolls back
\* with what it has in memory, even if the disk knows of no change yet.
Record(m, p) ==
    \/ /\ Goto(p, m) /\ UNCHANGED faults
       /\ man' = m
    \/ /\ Goto("undo", m) /\ faults < MaxFaults /\ faults' = faults + 1
       /\ UNCHANGED man

\* setPhase: on an error the job just ends.
Announce(p, q) ==
    /\ pc = p
    /\ \/ Ok(q) /\ status' = Phase("applying")
       \/ Fail("idle") /\ UNCHANGED status
    /\ UNCHANGED <<man, files, docker, rest>>

\* An intent is durable before the step it names.
Intend(p, m, q) ==
    /\ pc = p
    /\ Record(m, q)
    /\ unrecorded' = (unrecorded \/ (pc' = "undo" /\ ~man.control))
    /\ UNCHANGED <<status, files, docker, need, db, asked, checked, panel, crashes>>

\* os.RemoveAll of the recovery directory, with what was set aside in it.
Forget == /\ man' = NoManifest
          /\ mods' = [mods EXCEPT !.backup = "none", !.aside = "none"]

\* The configuration a container starts with.
Image == IF env = "target" THEN "target" ELSE "orig"

\* Stopping services succeeds, or fails with some of them stopped.
Stop(srv, aut, good, bad) ==
    \/ /\ Ok(good)
       /\ server' = IF srv THEN "down" ELSE server
       /\ auth' = IF aut THEN "down" ELSE auth
    \/ /\ Fail(bad)
       /\ server' \in IF srv THEN {"down", server} ELSE {server}
       /\ auth' \in IF aut THEN {"down", auth} ELSE {auth}

-----------------------------------------------------------------------------
(* Requests, and the user's own starts and stops                           *)

\* A transaction that has no outcome yet.
InFlight == status.phase \notin Terminal \cup {"none"}

Free == panel /\ pc = "idle"

\* The dry run pulls and checks everything and changes nothing.
DryRun ==
    /\ Free /\ status.phase # "rollback_failed" /\ env = "orig" /\ ~checked
    /\ checked' = TRUE
    /\ UNCHANGED <<job, journal, files, docker, old, db, asked, panel, crashes, faults>>

\* The instance row is read before the mutex is taken and the jobs are listed.
Ask ==
    /\ Free /\ asked = "no"
    /\ asked' = IF db THEN "up" ELSE "down"
    /\ UNCHANGED <<job, journal, files, docker, old, db, checked, panel, crashes, faults>>

\* The job is created; its first write of the status decides whether it runs.
Launch(k, p, st, m) ==
    /\ asked' = "no"
    /\ \/ /\ pc' = p /\ mode' = k /\ mem' = m /\ status' = st
          /\ UNCHANGED faults
       \/ /\ faults < MaxFaults /\ faults' = faults + 1
          /\ UNCHANGED <<job, status>>

NewDirectory ==
    IF pc' = "idle" THEN UNCHANGED <<man, mods, snapshot>>
    ELSE Forget /\ snapshot' = "none"

\* StartRuntimeUpdateApply: no failed rollback, not up to date, the dry run
\* done and no other job.  One without an outcome does not stand in the way.  A
\* new apply has a directory and a volume of its own.
StartApply ==
    /\ Free /\ asked # "no" /\ checked
    /\ status.phase # "rollback_failed" /\ env = "orig"
    /\ Launch("apply", "prepare",
              [phase |-> "preparing", attempts |-> 0, was |-> asked = "up"], NoManifest)
    /\ NewDirectory
    /\ unrecorded' = (unrecorded \/ (pc' # "idle" /\ InFlight))
    /\ UNCHANGED <<env, control, server, auth, session, images, need, db, checked, panel, crashes>>

\* Mutant: the number of attempts is not looked at.
StartRepairUnbounded ==
    /\ Free /\ asked # "no"
    /\ status.phase = "rollback_failed" /\ man.dir = "whole"
    /\ Launch("repair", "ustop",
              [status EXCEPT !.phase = "rolling_back", !.attempts = @ + 1], man)
    /\ UNCHANGED <<man, files, docker, old, db, checked, panel, crashes>>

\* A failed rollback is repaired from its own validated materials.
StartRepair ==
    /\ Free /\ asked # "no"
    /\ status.phase = "rollback_failed" /\ status.attempts < RepairLimit
    /\ man.dir = "whole"
    /\ Launch("repair", "ustop",
              [status EXCEPT !.phase = "rolling_back", !.attempts = @ + 1], man)
    /\ UNCHANGED <<man, files, docker, old, db, checked, panel, crashes>>

\* startKnownRuntimeRepairPlan: an update that was rolled back is tried again.
StartRetry ==
    /\ Free /\ asked # "no"
    /\ status.phase = "rolled_back" /\ status.attempts < RepairLimit /\ env = "orig"
    /\ Launch("apply", "retry",
              [phase |-> "resuming", attempts |-> status.attempts + 1, was |-> asked = "up"],
              NoManifest)
    /\ NewDirectory
    /\ UNCHANGED <<env, control, server, auth, session, images, old, db, checked, panel, crashes>>

\* The lifecycle jobs exclude the update's; they do not read its status.
UserStart ==
    /\ Free /\ server = "down" /\ mods.active # "none"
    /\ server' = Image /\ db' = TRUE
    /\ auth' = IF need.uses THEN Image ELSE auth
    /\ session' \in IF need.auth /\ auth' = "target" THEN {session, "used"} ELSE {session}
    /\ unrecorded' = (unrecorded \/ status.phase \notin Final \cup {"none"})
    /\ UNCHANGED <<job, journal, files, snapshot, images, need, asked, checked, panel,
                   crashes, faults>>

UserStop ==
    /\ Free /\ server # "down"
    /\ server' = "down" /\ auth' = "down" /\ db' = FALSE
    /\ UNCHANGED <<job, journal, files, volumes, images, old, asked, checked, panel,
                   crashes, faults>>

-----------------------------------------------------------------------------
(* runRuntimeUpdateApply: before anything changes                          *)

\* Preflight and pull.
Prepare ==
    /\ pc = "prepare"
    /\ \/ Ok("backup") /\ UNCHANGED status
       \/ Finish("rolled_back")
    /\ UNCHANGED <<man, files, docker, rest>>

\* The materials, and a manifest that says nothing has changed yet.
Backup ==
    /\ pc = "backup"
    /\ LET m == [NoManifest EXCEPT !.dir = "whole", !.saved = control,
                                   !.authWas = (auth # "down")]
       IN  \/ Goto("reload", m) /\ UNCHANGED <<faults, status>> /\ man' = m
           \/ Finish("rolled_back") /\ man' \in {man, m}
    /\ UNCHANGED <<files, docker, rest>>

StopsServer == status.was
StopsAuth   == need.auth /\ mem.authWas

\* The instance is read again; if that fails the materials go.
Reload ==
    /\ pc = "reload"
    /\ \/ /\ Ok(IF StopsServer \/ StopsAuth THEN "stopphase" ELSE "controlintent")
          /\ UNCHANGED journal
          /\ UNCHANGED mods
       \/ /\ Finish("rolled_back")
          /\ IF status' = status THEN UNCHANGED <<man, mods>> ELSE Forget
    /\ UNCHANGED <<env, control, docker, rest>>

StopPhase == Announce("stopphase", "stopintent")

\* The first change is announced.  If that write fails the job gives up and
\* removes the materials, whether or not it could write its status.
StopIntent ==
    /\ pc = "stopintent"
    /\ LET m == [mem EXCEPT !.mutated = TRUE]
       IN  \/ Goto("stop", m) /\ UNCHANGED <<faults, status, mods>> /\ man' = m
           \/ Finish("rolled_back") /\ Forget
    /\ UNCHANGED <<env, control, docker, rest>>

-----------------------------------------------------------------------------
(* The changes, each after its intent                                      *)

StopOld ==
    /\ pc = "stop"
    /\ Stop(StopsServer, StopsAuth, "controlintent", "undo")
    /\ db' = IF StopsServer /\ pc' # "undo" THEN FALSE ELSE db
    /\ UNCHANGED <<journal, files, volumes, images, old, asked, checked, panel, crashes>>

ControlIntent ==
    Intend("controlintent", [mem EXCEPT !.mutated = TRUE, !.control = TRUE], "control")

\* installSMAPIMod writes the files of the mod one by one.
InstallControl ==
    /\ pc = "control"
    /\ \/ /\ Ok(IF need.auth THEN "snapintent" ELSE "configphase")
          /\ control' = "target"
       \/ /\ Fail("undo")
          /\ control' \in {control, "mixed", "target"}
    /\ UNCHANGED <<journal, env, mods, docker, rest>>

SnapshotIntent == Intend("snapintent", [mem EXCEPT !.snap = TRUE], "snapcreate")

\* A volume is created for the Steam session, and the session is copied.
CreateSnapshot ==
    /\ pc = "snapcreate"
    /\ \/ Ok("snapclone") /\ snapshot' = "empty"
       \/ Fail("undo") /\ snapshot' \in {snapshot, "empty"}
    /\ UNCHANGED <<journal, files, server, auth, session, images, rest>>

CloneSession ==
    /\ pc = "snapclone"
    /\ \/ Ok("snapdone") /\ snapshot' = "full"
       \/ Fail("undo") /\ UNCHANGED snapshot
    /\ UNCHANGED <<journal, files, server, auth, session, images, rest>>

SnapshotDone == Intend("snapdone", [mem EXCEPT !.cloned = TRUE], "configphase")

\* The Junimo mod comes with the server image, or is missing.
ConfigPhase ==
    Announce("configphase",
             IF need.server \/ mods.active = "none" THEN "modintent" ELSE "env")

ModIntent ==
    Intend("modintent", [mem EXCEPT !.mod = TRUE, !.modWas = (mods.active # "none")],
           "modout")

\* replaceJunimoServerMod: the mod in use is moved out, the new one moved in.
MoveModOut ==
    /\ pc = "modout"
    /\ \/ /\ Ok("modin")
          /\ mods' = [mods EXCEPT !.active = "none",
                                  !.backup = IF mem.modWas THEN mods.active ELSE @]
       \/ Fail("undo") /\ UNCHANGED mods
    /\ UNCHANGED <<journal, env, control, docker, rest>>

MoveModIn ==
    /\ pc = "modin"
    /\ \/ /\ Ok("env")
          /\ mods' = [mods EXCEPT !.active = "target"]
       \/ /\ Fail("undo")
          /\ mods' \in {[mods EXCEPT !.active = mods.backup, !.backup = "none"], mods,
                        [mods EXCEPT !.active = "target"]}
    /\ UNCHANGED <<journal, env, control, docker, rest>>

WriteConfig ==
    /\ pc = "env"
    /\ \/ Ok(IF need.uses THEN "authphase" ELSE "serverphase") /\ env' = "target"
       \/ Fail("undo") /\ env' \in {env, "target"}
    /\ UNCHANGED <<journal, control, mods, docker, rest>>

AuthPhase ==
    Announce("authphase",
             IF need.auth \/ ~mem.authWas THEN "authintent" ELSE "authup")

AuthIntent ==
    Intend("authintent", [mem EXCEPT !.auth = need.auth, !.authStart = ~need.auth], "authup")

\* A new auth container uses the session; one that does not change is kept.
\* Verifying it announces a phase of its own.
AuthUp ==
    /\ pc = "authup"
    /\ LET up == IF need.auth THEN "target" ELSE "orig"
       IN  \/ Ok("serverphase") /\ auth' = up
           \/ (Fail("undo") \/ Fail("idle")) /\ auth' \in {auth, up}
    /\ session' \in IF auth' = "target" THEN {session, "used"} ELSE {session}
    /\ UNCHANGED <<journal, files, server, snapshot, images, rest>>

ServerPhase == Announce("serverphase", "serverintent")

\* The flag that the server may have been recreated is not read by recovery.
ServerIntent == Intend("serverintent", mem, "serverup")

ServerUp ==
    /\ pc = "serverup"
    /\ \/ Ok("restore") /\ server' = "target"
       \/ (Fail("undo") \/ Fail("idle")) /\ server' \in {server, "target"}
    /\ UNCHANGED <<journal, files, auth, volumes, images, rest>>

\* A server that was not running goes down again, the auth with it.
RestoreState ==
    /\ pc = "restore"
    /\ IF status.was
       THEN Ok("clean") /\ db' = TRUE /\ UNCHANGED <<server, auth>>
       ELSE /\ Stop(TRUE, need.uses, "clean", "undo")
            /\ db' = IF pc' = "undo" THEN db ELSE FALSE
    /\ UNCHANGED <<journal, files, volumes, images, old, asked, checked, panel, crashes>>

\* The session's copy goes.  Failures here are warnings.
RemoveSnapshot ==
    /\ pc = "clean"
    /\ \/ Ok("images") /\ snapshot' = IF mem.snap THEN "none" ELSE snapshot
       \/ Fail("images") /\ UNCHANGED snapshot
    /\ UNCHANGED <<journal, files, server, auth, session, images, rest>>

\* cleanupOldRuntimeImages: so do the images that were replaced.
Replaced == {i \in {"server", "auth"} : need[i]}
RemoveImages ==
    /\ pc = "images"
    /\ \/ Ok("finish") /\ images' = images \ Replaced
       \/ Fail("finish") /\ \E kept \in SUBSET Replaced : images' = images \ (Replaced \ kept)
    /\ UNCHANGED <<journal, files, server, auth, volumes, rest>>

Succeed ==
    /\ pc = "finish"
    /\ \/ Ok("discard") /\ status' = Phase("succeeded")
       \/ Fail("idle") /\ UNCHANGED status
    /\ UNCHANGED <<man, files, docker, rest>>

\* An error of the removal is ignored.
Discard ==
    /\ pc = "discard"
    /\ \/ Ok("idle") /\ Forget
       \/ Fail("idle") /\ UNCHANGED <<man, mods>>
    /\ UNCHANGED <<status, env, control, docker, rest>>

-----------------------------------------------------------------------------
(* performRuntimeUpdateRollback                                            *)

\* The phase is announced; that the write may fail is ignored.
Undo ==
    /\ pc = "undo"
    /\ \/ Ok("ustop") /\ status' = Phase("rolling_back")
       \/ Fail("ustop") /\ UNCHANGED status
    /\ UNCHANGED <<man, files, docker, rest>>

StopNew ==
    /\ pc = "ustop"
    /\ LET aut == need.auth \/ mem.auth \/ mem.authStart
       IN  Stop(mem.mutated, mem.mutated /\ aut, "uenv", "ufail")
    /\ UNCHANGED <<journal, files, volumes, images, rest>>

\* With the files restored a boot leaves the containers down, while an apply
\* or a repair brings the old pair back.
FilesRestored == IF mode = "boot" THEN "usession" ELSE "ufix"
ModRestored   == IF mem.control THEN "ucontrol" ELSE FilesRestored

\* Mutant: the Junimo mod is not put back.
RestoreEnvOnly ==
    /\ pc = "uenv"
    /\ \/ Ok(ModRestored) /\ env' = "orig"
       \/ Fail("ufail") /\ UNCHANGED env
    /\ UNCHANGED <<journal, control, mods, docker, rest>>

RestoreEnv ==
    /\ pc = "uenv"
    /\ \/ Ok(IF mem.mod THEN "umod" ELSE ModRestored) /\ env' = "orig"
       \/ Fail("ufail") /\ UNCHANGED env
    /\ UNCHANGED <<journal, control, mods, docker, rest>>

\* restoreRuntimeJunimoServerMod.  Without an original the mod in use is set
\* aside.  An original that is gone was moved back before, which a mod set
\* aside proves; without that proof the rollback fails.
MoveModAside ==
    /\ pc = "umod"
    /\ IF mem.modWas /\ mods.backup = "none"
       THEN /\ Ok(IF mods.active # "none" /\ mods.aside # "none" THEN ModRestored ELSE "ufail")
            /\ UNCHANGED mods
       ELSE \/ /\ Ok(IF mem.modWas THEN "umodback" ELSE ModRestored)
               /\ mods' = [mods EXCEPT !.active = "none",
                                       !.aside = IF mods.active # "none" THEN mods.active
                                                 ELSE IF mem.modWas THEN "none" ELSE @]
            \/ Fail("ufail") /\ UNCHANGED mods
    /\ UNCHANGED <<journal, env, control, docker, rest>>

MoveModBack ==
    /\ pc = "umodback"
    /\ \/ /\ Ok(ModRestored)
          /\ mods' = [mods EXCEPT !.active = mods.backup, !.backup = "none"]
       \/ /\ Fail("ufail")
          /\ mods' \in {mods, [mods EXCEPT !.active = mods.aside, !.aside = "none"]}
    /\ UNCHANGED <<journal, env, control, docker, rest>>

RestoreControl ==
    /\ pc = "ucontrol"
    /\ \/ Ok(FilesRestored) /\ control' = mem.saved
       \/ Fail("ufail") /\ control' \in {control, "mixed"}
    /\ UNCHANGED <<journal, env, mods, docker, rest>>

\* An image that was replaced may have been removed.
OldImage(i) == ~need[i] \/ i \in images

\* A mod that is missing comes again from the old image.
EnsureMod ==
    /\ pc = "ufix"
    /\ IF mods.active # "none"
       THEN Ok("upin") /\ UNCHANGED mods
       ELSE \/ /\ OldImage("server") /\ Ok("upin")
               /\ mods' = [mods EXCEPT !.active = "orig"]
            \/ ~OldImage("server") /\ Ok("ufail") /\ UNCHANGED mods
            \/ Fail("ufail") /\ UNCHANGED mods
    /\ UNCHANGED <<journal, env, control, docker, rest>>

\* The containers start from the old images' IDs; .env is restored on return.
PinImages ==
    /\ pc = "upin"
    /\ \/ Ok("usession") /\ env' = "pinned"
       \/ Fail("ufail") /\ UNCHANGED env
    /\ UNCHANGED <<journal, control, mods, docker, rest>>

\* Mutant: a boot brings the old pair back up as an apply does.
SessionRestoredAlike == IF need.auth THEN "uauth" ELSE "userver"

SessionRestoredNext ==
    IF mode = "boot" THEN "ukeep" ELSE IF need.auth THEN "uauth" ELSE "userver"

\* A helper container of the old image empties the session's volume and copies
\* the snapshot's into it; Docker creates a snapshot volume that is gone.
RestoreSession ==
    /\ pc = "usession"
    /\ IF need.auth /\ mem.auth /\ mem.cloned
       THEN \/ /\ OldImage("server") /\ Ok(SessionRestoredNext)
               /\ session' = IF snapshot = "full" THEN "orig" ELSE "lost"
               /\ snapshot' = IF snapshot = "none" THEN "empty" ELSE snapshot
            \/ ~OldImage("server") /\ Ok("ufail") /\ UNCHANGED volumes
            \/ Fail("ufail") /\ session' \in {session, "lost"} /\ UNCHANGED snapshot
       ELSE Ok(SessionRestoredNext) /\ UNCHANGED volumes
    /\ UNCHANGED <<journal, files, server, auth, images, rest>>

\* A boot ends with everything down.
KeepStopped ==
    /\ pc = "ukeep"
    /\ Stop(TRUE, need.uses, "udone", "ufail")
    /\ db' = IF pc' = "ufail" THEN db ELSE FALSE
    /\ UNCHANGED <<journal, files, volumes, images, old, asked, checked, panel, crashes>>

\* The old auth and the old server come up and are verified.
OldAuthUp ==
    /\ pc = "uauth"
    /\ \/ OldImage("auth") /\ Ok("userver") /\ auth' = "orig"
       \/ ~OldImage("auth") /\ Ok("ufail") /\ UNCHANGED auth
       \/ Fail("ufail") /\ auth' \in {auth, "orig"}
    /\ UNCHANGED <<journal, files, server, volumes, images, rest>>

OldServerUp ==
    /\ pc = "userver"
    /\ \/ OldImage("server") /\ Ok("urun") /\ server' = "orig"
       \/ ~OldImage("server") /\ Ok("ufail") /\ UNCHANGED server
       \/ Fail("ufail") /\ server' \in {server, "orig"}
    /\ UNCHANGED <<journal, files, auth, volumes, images, rest>>

RestoreOldState ==
    /\ pc = "urun"
    /\ IF status.was
       THEN Ok("unpin") /\ db' = TRUE /\ UNCHANGED <<server, auth>>
       ELSE /\ Stop(TRUE, need.uses, "unpin", "ufail")
            /\ db' = IF pc' = "ufail" THEN db ELSE FALSE
    /\ UNCHANGED <<journal, files, volumes, images, old, asked, checked, panel, crashes>>

Unpin ==
    /\ pc = "unpin"
    /\ \/ Ok("udone") /\ env' = "orig"
       \/ Fail("ufail") /\ UNCHANGED env
    /\ UNCHANGED <<journal, control, mods, docker, rest>>

\* The failure is published, as far as that works, and the materials stay.
RollbackFailed ==
    /\ pc = "ufail"
    /\ LET plain == IF env = "pinned" THEN "orig" ELSE env
       IN  \/ Ok("idle") /\ status' = Phase("rollback_failed") /\ env' = plain
           \/ Fail("idle") /\ UNCHANGED status /\ env' = plain
           \/ Fail("idle") /\ status' = Phase("rollback_failed") /\ UNCHANGED env
    /\ UNCHANGED <<man, control, mods, docker, rest>>

\* What a rollback ends with; a repair goes on.
RolledBack ==
    /\ pc = "udone"
    /\ \/ IF mode = "repair"
          THEN Ok("rclean") /\ status' = Phase("resuming")
          ELSE Ok("uclean") /\ status' = Phase("rolled_back")
       \/ Fail("idle") /\ UNCHANGED status
    /\ UNCHANGED <<man, files, docker, rest>>

CleanRolledBack ==
    /\ pc = "uclean"
    /\ \/ Ok("discard") /\ snapshot' = IF mem.snap THEN "none" ELSE snapshot
       \/ Fail("discard") /\ UNCHANGED snapshot
    /\ UNCHANGED <<journal, files, server, auth, session, images, rest>>

-----------------------------------------------------------------------------
(* runRuntimeUpdateRepair and retryRuntimeUpdateAfterRepair                *)

CleanRepaired ==
    /\ pc = "rclean"
    /\ \/ /\ Ok("rdir") /\ UNCHANGED status
          /\ snapshot' = IF mem.snap THEN "none" ELSE snapshot
       \/ Finish("rollback_failed") /\ UNCHANGED snapshot
    /\ UNCHANGED <<man, files, server, auth, session, images, rest>>

\* The directory goes file by file.
DiscardRepaired ==
    /\ pc = "rdir"
    /\ \/ /\ man.dir = "whole" /\ Ok("rdir")
          /\ man' = [man EXCEPT !.dir = "torn"] /\ UNCHANGED <<status, mods>>
       \/ /\ man.dir = "torn" /\ Ok("retry")
          /\ Forget /\ UNCHANGED status
       \/ Finish("rollback_failed") /\ UNCHANGED <<man, mods>>
    /\ UNCHANGED <<env, control, docker, rest>>

\* The dry run again, a save and a backup, and then a new apply.
Retry ==
    /\ pc = "retry"
    /\ \/ /\ pc' = "prepare" /\ mode' = "apply" /\ mem' = NoManifest
          /\ UNCHANGED faults
          /\ status' = Phase("preparing")
       \/ Finish("rolled_back")
    /\ UNCHANGED <<man, files, docker, rest>>

-----------------------------------------------------------------------------
(* The panel stops and boots                                               *)

Crash ==
    /\ panel /\ crashes < MaxCrashes
    /\ crashes' = crashes + 1 /\ panel' = FALSE /\ asked' = "no"
    /\ Goto("idle", NoManifest)
    /\ UNCHANGED <<journal, files, docker, old, db, checked, faults>>

\* finishRuntimeUpdateRecoveryBeforeChange: everything is stopped.
BeforeChange ==
    \/ /\ server' = "down" /\ auth' = IF need.uses THEN "down" ELSE auth
       /\ \/ /\ status' = Phase("rolled_back") /\ Forget /\ db' = FALSE
             /\ UNCHANGED faults
          \/ /\ faults < MaxFaults /\ faults' = faults + 1
             /\ UNCHANGED <<journal, mods, db>>
    \/ /\ faults < MaxFaults /\ faults' = faults + 1
       /\ status' = Phase("rollback_failed")
       /\ UNCHANGED <<man, mods, server, auth, db>>

Uncertain == /\ status' = Phase("rollback_failed")
             /\ UNCHANGED <<man, mods, server, auth, db, faults>>

\* Mutant: materials that are missing are reported nowhere.
BootSettlesSilently ==
    /\ ~panel /\ InFlight
    /\ panel' = TRUE
    /\ \/ man.dir # "whole" /\ status.phase \in Early /\ BeforeChange
       \/ man.dir # "whole" /\ UNCHANGED <<journal, mods, server, auth, db, faults>>
       \/ man.dir = "whole" /\ ~man.mutated /\ BeforeChange
    /\ UNCHANGED <<job, env, control, volumes, images, old, asked, checked, crashes>>

\* A transaction that had changed nothing, or whose materials are gone.
BootSettles ==
    /\ ~panel /\ InFlight
    /\ panel' = TRUE
    /\ \/ man.dir # "whole" /\ status.phase \in Early /\ BeforeChange
       \/ man.dir # "whole" /\ (man.dir = "torn" \/ status.phase \notin Early) /\ Uncertain
       \/ man.dir = "whole" /\ ~man.mutated /\ BeforeChange
    /\ UNCHANGED <<job, env, control, volumes, images, old, asked, checked, crashes>>

\* One that had begun to change things is rolled back by a job.
BootRollsBack ==
    /\ ~panel /\ InFlight /\ man.dir = "whole" /\ man.mutated
    /\ panel' = TRUE
    /\ \/ /\ pc' = "undo" /\ mode' = "boot" /\ mem' = man
          /\ UNCHANGED faults
       \/ /\ faults < MaxFaults /\ faults' = faults + 1
          /\ UNCHANGED job
    /\ UNCHANGED <<journal, files, docker, old, db, asked, checked, crashes>>

\* What a finished transaction left behind goes.
BootCleans ==
    /\ ~panel /\ ~InFlight
    /\ panel' = TRUE
    /\ IF status.phase \in Final /\ man.dir = "whole"
       THEN /\ Forget
            /\ snapshot' \in IF man.snap THEN {"none", snapshot} ELSE {snapshot}
       ELSE UNCHANGED <<man, mods, snapshot>>
    /\ UNCHANGED <<job, status, env, control, server, auth, session, images, old, db, asked,
                   checked, crashes, faults>>

-----------------------------------------------------------------------------
Apply ==
    \/ Prepare \/ Backup \/ Reload \/ StopPhase \/ StopIntent \/ StopOld
    \/ ControlIntent \/ InstallControl
    \/ SnapshotIntent \/ CreateSnapshot \/ CloneSession \/ SnapshotDone
    \/ ConfigPhase \/ ModIntent \/ MoveModOut \/ MoveModIn \/ WriteConfig
    \/ AuthPhase \/ AuthIntent \/ AuthUp \/ ServerPhase \/ ServerIntent \/ ServerUp
    \/ RestoreState \/ RemoveSnapshot \/ RemoveImages \/ Succeed \/ Discard

Rollback ==
    \/ Undo \/ StopNew \/ RestoreEnv \/ MoveModAside \/ MoveModBack \/ RestoreControl
    \/ EnsureMod \/ PinImages \/ RestoreSession \/ KeepStopped
    \/ OldAuthUp \/ OldServerUp \/ RestoreOldState \/ Unpin
    \/ RollbackFailed \/ RolledBack \/ CleanRolledBack

Repair == CleanRepaired \/ DiscardRepaired \/ Retry
Runner == Apply \/ Rollback \/ Repair
Boot   == BootSettles \/ BootRollsBack \/ BootCleans
User   == DryRun \/ Ask \/ StartApply \/ StartRepair \/ StartRetry \/ UserStart \/ UserStop

Next == Runner \/ Boot \/ User \/ Crash

Fairness == WF_vars(Runner) /\ WF_vars(Boot)

Spec == Init /\ [][Next]_vars /\ Fairness

-----------------------------------------------------------------------------
(* Properties                                                              *)

PCs == {"idle", "prepare", "backup", "reload", "stopphase", "stopintent", "stop",
        "controlintent", "control", "snapintent", "snapcreate", "snapclone", "snapdone",
        "configphase", "modintent", "modout", "modin", "env", "authphase", "authintent",
        "authup", "serverphase", "serverintent", "serverup", "restore", "clean", "images",
        "finish", "discard", "undo", "ustop", "uenv", "umod", "umodback", "ucontrol",
        "ufix", "upin", "usession", "ukeep", "uauth", "userver", "urun", "unpin", "ufail",
        "udone", "uclean", "rclean", "rdir", "retry"}

Containers == {"down", "orig", "target"}

\* Every variable has a value of its type.
TypeOK ==
    /\ need \in [uses: BOOLEAN, auth: BOOLEAN, server: BOOLEAN]
    /\ pc \in PCs /\ mode \in {"none", "apply", "boot", "repair"} /\ mem \in Manifest
    /\ status \in [phase: Phases, attempts: 0..RepairLimit, was: BOOLEAN]
    /\ man \in Manifest
    /\ env \in {"orig", "target", "pinned"} /\ control \in {"orig", "mixed", "target"}
    /\ mods \in [active: {"none", "orig", "target"}, backup: {"none", "orig", "target"},
                 aside: {"none", "orig", "target"}]
    /\ server \in Containers /\ auth \in Containers
    /\ session \in {"orig", "used", "lost"} /\ snapshot \in {"none", "empty", "full"}
    /\ images \subseteq {"server", "auth"}
    /\ db \in BOOLEAN /\ asked \in {"no", "up", "down"}
    /\ checked \in BOOLEAN /\ panel \in BOOLEAN /\ unrecorded \in BOOLEAN
    /\ faults \in 0..MaxFaults /\ crashes \in 0..MaxCrashes

\* Two things happen that no manifest says, and the properties that depend on
\* it leave them out.  Where a job ends without a terminal phase, nothing keeps
\* the user from starting the server on what it left, or another update, which
\* takes that for the original and forgets the materials of the first.  And
\* where the first intent cannot be written the job rolls back all the same,
\* replacing files that a stop then leaves half replaced.

\* An update reported as rolled back left nothing of the target behind, in
\* files or in containers, whoever rolled it back and however often it was
\* interrupted on the way.  (.env may still name the old images by their IDs
\* where a rollback with an unchanged manifest was interrupted.)
RolledBackIsOriginal ==
    (pc = "idle" /\ status.phase = "rolled_back" /\ ~unrecorded) =>
        /\ env # "target" /\ control # "mixed"
        /\ mods.active # "target" /\ mods.backup = "none"
        /\ server # "target" /\ auth # "target"

\* An update reported as successful is the whole of the target.
SucceededIsTarget ==
    status.phase = "succeeded" =>
        /\ env = "target" /\ control = "target"
        /\ mods.active # "none" /\ (need.server => mods.active = "target")
        /\ server # "orig"
        /\ need.auth => auth # "orig"

\* A rollback that failed with something still changed has all its materials.
FailedKeepsMaterials ==
    (status.phase = "rollback_failed" /\ ~unrecorded
        /\ (\/ env = "target" \/ control = "mixed" \/ mods.active = "target"
            \/ mods.backup # "none" \/ session = "used"))
        => man.dir = "whole" /\ man.mutated

\* An update that ends says what it left.
OutcomeTrue == RolledBackIsOriginal /\ SucceededIsTarget /\ FailedKeepsMaterials

\* Resolving an interrupted update at boot never starts a container, the old
\* one or the new.
BootNeverStarts ==
    [][(mode = "boot" \/ ~panel) =>
        server' \in {server, "down"} /\ auth' \in {auth, "down"}]_vars

\* What a stop of the panel interrupts reaches a terminal phase after it boots,
\* unless a write fails again.
CrashSettles ==
    (~panel /\ faults = MaxFaults) ~> (status.phase \in Terminal \cup {"none"})

\* docs/09-image-build.md: a rollback restores the Steam session.
SessionRestored ==
    (pc = "idle" /\ status.phase = "rolled_back") => session = "orig"
=============================================================================
