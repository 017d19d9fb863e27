------------------------- MODULE NewGameTransaction -------------------------
(***************************************************************************)
(* One durable new-game transaction (stardew_junimo/new_game_*.go and the  *)
(* Start path of lifecycle.go).                                            *)
(*                                                                         *)
(* A lifecycle job writes the game's settings and a pending marker, starts *)
(* the containers, lets the game create a save, asks it for a durable save *)
(* and commits; or it puts every file back and moves what was created to   *)
(* quarantine.  What it knows is in transaction.json, written atomically:  *)
(* the panel may stop between any two steps, the containers keep running   *)
(* without it, and the next manual Start takes the record over.            *)
(*                                                                         *)
(* The game, its Control mod and Docker are the environment.  Fences by    *)
(* owner token cannot fail for the single runner of one panel process and  *)
(* are left out; the owner is held or released.                            *)
(***************************************************************************)
EXTENDS Naturals, FiniteSets, Sequences

CONSTANTS
    Saves,      \* names of save directories the game may create
    NoSave,     \* no such directory; of the pointer: where it was before
    MaxFaults,  \* bound on failing steps: I/O, Docker, timeouts, cancellation
    MaxCrashes  \* bound on stops of the panel

ASSUME NoSaveAssumption == NoSave \notin Saves
ASSUME BoundsAssumption == MaxFaults \in Nat /\ MaxCrashes \in Nat

VARIABLES
    pc,        \* where the runner of the lifecycle job is
    mem,       \* its copy of the transaction record
    composed,  \* composeStarted: its failure handler stops the containers
    disk,      \* transaction.json
    reserved,     \* the durable owner of the instance exists
    start,     \* a manual Start that has read the record, not yet created a job
    files,     \* each reversible file: "orig", "gone", or "tx" when written
    target,    \* the save the pending marker is bound to
    loader,    \* the save the game's pointer names
    dirs,      \* save directories that appeared since the snapshot
    quar,      \* those moved to quarantine
    game,      \* the game container, and what its status file says
    published, \* save-now commands handed to the game
    finished,  \* those that reached GameLoop.Saved
    posts,     \* how often POST /newgame was sent
    faults, crashes

runner  == <<pc, mem, composed>>
durable == <<disk, reserved>>
saves   == <<loader, dirs, quar>>
command == <<published, finished>>
disks   == <<files, target, saves>>
worldVars == <<disks, game, command, posts>>
others  == <<composed, reserved, start, crashes>>
newGameVars == <<runner, durable, start, worldVars, faults, crashes>>

Files   == {"settings", "init", "marker", "profiles", "catalog", "options", "mods"}

\* The order in which continueRollback undoes.
RollbackSteps == <<"quarantine", "settings", "init", "loader", "marker",
                   "profiles", "catalog", "options", "mods">>
StepNames == Files \cup {"quarantine", "loader"}

Terminal == {"success", "rolled_back"}
Undoing  == {"rolling_back", "rollback_failed"}
TransactionStages   == Terminal \cup Undoing \cup
    {"none", "preparing", "configured", "marker_written", "mods_prepared",
     "compose_started", "catalog_requested", "catalog_validated",
     "command_called", "observing", "finalizing", "profile_commit_pending",
     "unknown", "ambiguous"}

\* Where the runner works forward: any of these steps may return an error.
Forward == {"preflight", "resume", "config", "marker", "gates", "mods", "catalog",
            "compose", "started", "wait", "send", "decide", "baseline", "intent",
            "observing", "candidate", "bind", "target", "control", "command",
            "publish", "confirm", "disk", "finalize", "complete", "cleanup"}
PCs == Forward \cup {"idle", "reserve", "post", "ambiguous", "prefail", "failed",
                     "preserve", "undo", "recover", "stopping", "rollback",
                     "checkpoint", "release"}

Record == [stage: TransactionStages, writer: {"none", "startup", "http"},
           called: BOOLEAN, progress: BOOLEAN, ambig: BOOLEAN,
           found: Saves \cup {NoSave}, cand: Saves \cup {NoSave},
           loaded: BOOLEAN, cmd: Nat, saved: BOOLEAN, verified: BOOLEAN,
           rb: BOOLEAN, plan: SUBSET Saves, done: SUBSET StepNames]

Blank == [stage |-> "none", writer |-> "none",
          called |-> FALSE, progress |-> FALSE, ambig |-> FALSE,
          found |-> NoSave, cand |-> NoSave,
          loaded |-> FALSE, cmd |-> 0, saved |-> FALSE, verified |-> FALSE,
          rb |-> FALSE, plan |-> {}, done |-> {}]

SaveCommands == [id: Nat, save: Saves]

GameRecord == [up: BOOLEAN, told: BOOLEAN, creating: BOOLEAN,
         making: Saves \cup {NoSave}, loaded: Saves \cup {NoSave}]

\* The container is gone; its status file stays.
Halted == [game EXCEPT !.up = FALSE, !.told = FALSE,
                       !.making = NoSave, !.loaded = NoSave]

NewGameInit ==
    /\ pc = "idle" /\ mem = Blank /\ composed = FALSE
    /\ disk = Blank /\ reserved = FALSE /\ start = "none"
    /\ files = [f \in Files |-> "orig"] /\ target = NoSave
    /\ loader = NoSave /\ dirs = {} /\ quar = {}
    /\ game = [up |-> FALSE, told |-> FALSE, creating |-> FALSE,
               making |-> NoSave, loaded |-> NoSave]
    /\ published = {} /\ finished = {}
    /\ posts = 0 /\ faults = 0 /\ crashes = 0

-----------------------------------------------------------------------------
(* Steps that succeed, steps that fail, and the durable record             *)

\* The runner goes on at p; one that ended has no record in memory.
Goto(p, m) == pc' = p /\ mem' = (IF p = "idle" THEN Blank ELSE m)
Ok(p, m)   == Goto(p, m) /\ UNCHANGED faults
Fail(p, m) == faults < MaxFaults /\ faults' = faults + 1 /\ Goto(p, m)

\* tx.persist: the record m is replaced atomically, or the write fails.
Persist(m, good, bad) ==
    \/ Ok(good, m)  /\ disk' = m
    \/ Fail(bad, m) /\ UNCHANGED disk

Stage(s) == [mem EXCEPT !.stage = s]

\* What the record becomes when the runner looks at the status file, the
\* pointer and the save directories.  Progress and ambiguity are sticky.
Seen ==
    LET look  == game.creating \/ loader # NoSave \/ dirs # {}
        one   == IF Cardinality(dirs) = 1 THEN CHOOSE s \in dirs : TRUE ELSE NoSave
        ambig == \/ mem.ambig
                 \/ Cardinality(dirs) > 1
                 \/ one # NoSave /\ mem.found \notin {NoSave, one}
    IN  [mem EXCEPT !.progress = mem.progress \/ look,
                    !.ambig    = ambig,
                    !.found    = IF ambig THEN NoSave
                                 ELSE IF one # NoSave THEN one ELSE mem.found]

\* observeNewGameProgress: a change is persisted at once, with whatever else
\* memory holds; on an error memory is as before.
Observe(good, bad) ==
    \/ /\ disk' = IF Seen = mem THEN disk ELSE Seen
       /\ Ok(good, Seen)
    \/ Fail(bad, mem) /\ UNCHANGED disk

-----------------------------------------------------------------------------
(* Start: reserving the instance, or taking a transaction over             *)

\* A new request claims the owner while the server is down.
Claim ==
    /\ pc = "idle" /\ start = "none" /\ disk.stage = "none" /\ ~game.up
    /\ reserved' = TRUE
    /\ Ok("reserve", Blank)
    /\ UNCHANGED <<composed, disk, start, crashes, worldVars>>

\* Snapshot of everything a rollback restores.  A complete active save makes
\* the HTTP API the creator of the new one, otherwise the game's own startup.
Reserve ==
    /\ pc = "reserve"
    /\ \E w \in {"startup", "http"} :
         Persist([Blank EXCEPT !.stage = "preparing", !.writer = w], "preflight", "idle")
    /\ UNCHANGED <<others, worldVars>>

\* A manual Start reads the record of an unfinished transaction and decides
\* from its stage what the job will do.
StartRead ==
    /\ start = "none" /\ reserved /\ disk.stage \notin Terminal \cup {"none"}
    /\ start' = IF disk.stage \in Undoing THEN "rollback" ELSE "forward"
    /\ UNCHANGED <<runner, durable, faults, crashes, worldVars>>

\* The owner of a finished transaction is cleaned up by the next Start.
StartCleans ==
    /\ start = "none" /\ reserved /\ disk.stage \in Terminal
    /\ reserved' = FALSE
    /\ UNCHANGED <<runner, disk, start, faults, crashes, worldVars>>

\* An active job answers for the request.
StartJoins ==
    /\ start # "none" /\ pc # "idle"
    /\ start' = "none"
    /\ UNCHANGED <<runner, durable, faults, crashes, worldVars>>

\* The exclusive job is created and the transaction taken over, at the stage it
\* has by now.  A finished one is handed out too, without an owner.
StartJob ==
    /\ start # "none" /\ pc = "idle"
    /\ start' = "none" /\ composed' = FALSE
    /\ LET first == IF start = "rollback" THEN "recover" ELSE "preflight"
       IN  IF disk.stage \in Terminal
           THEN reserved' = FALSE /\ Ok(first, disk)
           ELSE UNCHANGED reserved /\ (Ok(first, disk) \/ Fail("idle", Blank))
    /\ UNCHANGED <<disk, crashes, worldVars>>

\* The panel stops; files and containers stay.
Crash ==
    /\ crashes < MaxCrashes /\ pc # "idle"
    /\ crashes' = crashes + 1
    /\ Goto("idle", Blank) /\ start' = "none" /\ composed' = FALSE
    /\ UNCHANGED <<durable, faults, worldVars>>

-----------------------------------------------------------------------------
(* Forward: doStart and sendNewGameCommand                                 *)

\* Any forward step may fail, be cancelled or time out before it did anything.
GiveUp ==
    /\ pc \in Forward
    /\ Fail(IF pc = "preflight" THEN "prefail" ELSE "failed", mem)
    /\ UNCHANGED <<disk, others, worldVars>>

Bookkeeping == UNCHANGED <<others, worldVars>>

\* Player-auth environment and game files are verified; the main failure
\* handler is armed.
Preflight ==
    /\ pc = "preflight"
    /\ Ok("resume", mem)
    /\ UNCHANGED disk /\ Bookkeeping

\* Mutant: a transaction without a marker is configured again, whatever its stage.
NeedsConfigReplayUnmarked == mem.stage \in {"preparing", "configured"} \/ files.marker # "tx"

NeedsConfigReplay == mem.stage \in {"preparing", "configured"}

\* A resumed transaction must still have its marker and, once it was asked
\* for, its catalog request; their expiry is renewed.
TakeOver ==
    /\ pc = "resume"
    /\ LET marker  == files.marker = "tx" /\ (target = NoSave \/ mem.cand \in {NoSave, target})
           catalog == mem.stage \in {"marker_written", "mods_prepared"} \/ files.catalog = "tx"
       IN  IF NeedsConfigReplay THEN Ok("config", mem)
           ELSE Ok(IF mem.verified \/ (marker /\ catalog) THEN "gates" ELSE "failed", mem)
    /\ UNCHANGED disk /\ Bookkeeping

\* prepareConfigAndMarker, first half: two files, then the record.
WriteConfig ==
    /\ pc = "config"
    /\ \/ /\ files' = [files EXCEPT !.settings = "tx", !.init = "tx"]
          /\ Persist(Stage("configured"), "marker", "failed")
       \/ /\ files' = [files EXCEPT !.settings = "tx"]
          /\ Fail("failed", mem) /\ UNCHANGED disk
    /\ UNCHANGED <<others, target, saves, game, command, posts>>

\* Second half: the pending marker the Control mod obeys.
WriteMarker ==
    /\ pc = "marker"
    /\ files' = [files EXCEPT !.marker = "tx"] /\ target' = mem.cand
    /\ Persist(Stage("marker_written"), "gates", "failed")
    /\ UNCHANGED <<others, saves, game, command, posts>>

\* Mods are synchronised; status and options of the last run are deleted, but a
\* game that still runs writes its status again.
Gates ==
    /\ pc = "gates"
    /\ files' = [files EXCEPT !.options = "gone"]
    /\ game' \in {[game EXCEPT !.creating = FALSE], [game EXCEPT !.creating = game.up /\ game.creating]}
    /\ Ok("mods", mem)
    /\ UNCHANGED <<disk, others, target, saves, command, posts>>

\* The Mod set of the new save is enabled.
PrepareMods ==
    /\ pc = "mods"
    /\ IF mem.stage \in {"preparing", "configured", "marker_written"}
       THEN /\ files' = [files EXCEPT !.mods = "tx"]
            /\ Persist(Stage("mods_prepared"), "catalog", "failed")
       ELSE UNCHANGED <<files, disk>> /\ Ok("catalog", mem)
    /\ UNCHANGED <<others, target, saves, game, command, posts>>

\* The game is asked to publish the farm types it has loaded.
RequestCatalog ==
    /\ pc = "catalog"
    /\ IF mem.stage = "mods_prepared"
       THEN /\ files' = [files EXCEPT !.options = "gone", !.catalog = "tx"]
            /\ Persist(Stage("catalog_requested"), "compose", "failed")
       ELSE UNCHANGED <<files, disk>> /\ Ok("compose", mem)
    /\ UNCHANGED <<others, target, saves, game, command, posts>>

\* The containers are recreated; a failure may leave them started.
ComposeUp ==
    /\ pc = "compose"
    /\ composed' = TRUE
    /\ \/ game' = [Halted EXCEPT !.up = TRUE] /\ Ok("started", mem)
       \/ \E up \in BOOLEAN : game' = [Halted EXCEPT !.up = up] /\ Fail("failed", mem)
    /\ UNCHANGED <<durable, start, crashes, disks, command, posts>>

MarkStarted ==
    /\ pc = "started"
    /\ Persist(Stage("compose_started"), "wait", "failed")
    /\ Bookkeeping

\* The server and the Control mod of this run report ready.
AwaitServer ==
    /\ pc = "wait" /\ game.up
    /\ Ok("send", mem)
    /\ UNCHANGED disk /\ Bookkeeping

\* They do not: the Control gate stops the containers itself.
ControlGateFails ==
    /\ pc = "wait"
    /\ game' = Halted /\ composed' = FALSE
    /\ Fail("failed", mem)
    /\ UNCHANGED <<durable, start, crashes, disks, command, posts>>

\* A transaction with disk evidence only commits.  Otherwise the catalog must
\* match; without one an official farm goes on after a timeout.
AwaitCatalog ==
    /\ pc = "send"
    /\ \/ mem.verified /\ mem.cand # NoSave /\ UNCHANGED disk /\ Ok("finalize", mem)
       \/ /\ ~(mem.verified /\ mem.cand # NoSave)
          /\ \/ /\ files.options = "tx"
                /\ Persist(Stage("catalog_validated"), "decide", "failed")
             \/ files.options # "tx" /\ UNCHANGED disk /\ Ok("decide", mem)
    /\ Bookkeeping

\* Where the creation of the save stands, before a command may be sent.
Decide ==
    /\ pc = "decide"
    /\ IF mem.called THEN UNCHANGED disk /\ Ok("observing", mem)
       ELSE Observe(CASE Seen.ambig                         -> "ambiguous"
                      [] Seen.progress /\ ~Seen.ambig       -> "observing"
                      [] ~Seen.progress /\ ~Seen.ambig      ->
                           IF mem.writer = "startup" THEN "observing" ELSE "baseline",
                    "failed")
    /\ Bookkeeping

\* The HTTP creator: the old save is loaded and the API answers, then progress
\* is looked for once more.
Baseline ==
    /\ pc = "baseline"
    /\ Observe(CASE Seen.ambig                    -> "ambiguous"
                 [] Seen.progress /\ ~Seen.ambig  -> "observing"
                 [] ~Seen.progress /\ ~Seen.ambig -> "intent",
               "failed")
    /\ Bookkeeping

\* Mutant: the intent is written with the next record.
MarkCommandCalledLater ==
    /\ pc = "intent"
    /\ Ok("post", [mem EXCEPT !.called = TRUE, !.stage = "command_called"])
    /\ UNCHANGED disk /\ Bookkeeping

\* markCommandCalled: the intent is durable before the request leaves.
MarkCommandCalled ==
    /\ pc = "intent"
    /\ Persist([mem EXCEPT !.called = TRUE, !.stage = "command_called"], "post", "failed")
    /\ Bookkeeping

\* POST /newgame; no answer and a refusal are not told apart from success.
PostNewGame ==
    /\ pc = "post"
    /\ posts' = posts + 1
    /\ game' \in {game, [game EXCEPT !.told = game.up]}
    /\ Ok("observing", mem)
    /\ UNCHANGED <<disk, others, disks, command>>

MarkAmbiguous ==
    /\ pc = "ambiguous"
    /\ Persist(Stage("ambiguous"), "failed", "failed")
    /\ Bookkeeping

MarkObserving ==
    /\ pc = "observing"
    /\ IF mem.cand = NoSave THEN Persist(Stage("observing"), "candidate", "failed")
       ELSE UNCHANGED disk /\ Ok("candidate", mem)
    /\ Bookkeeping

\* Polls until exactly one new directory is known.
AwaitCandidate ==
    /\ pc = "candidate"
    /\ IF mem.cand # NoSave THEN UNCHANGED disk /\ Ok("bind", mem)
       ELSE Observe(IF Seen.ambig THEN "ambiguous"
                    ELSE IF Seen.found = NoSave THEN "candidate" ELSE "bind", "failed")
    /\ Bookkeeping

\* The save waitForNewGameCandidate returned.
Candidate == IF mem.cand # NoSave THEN mem.cand ELSE mem.found

\* bindTargetSave looks once more and records the candidate.
BindCandidate ==
    /\ pc = "bind"
    /\ LET fits  == /\ ~Seen.ambig /\ Seen.found = Candidate
                    /\ files.marker = "tx" /\ target \in {NoSave, Candidate}
           m     == [Seen EXCEPT !.cand = Candidate]
       IN  \/ fits /\ Ok("target", m) /\ disk' = IF m = mem THEN disk ELSE m
           \/ ~fits /\ Ok("failed", Seen) /\ disk' = IF Seen = mem THEN disk ELSE Seen
           \/ Fail("failed", mem) /\ UNCHANGED disk
    /\ Bookkeeping

\* Then the marker names it.
BindMarker ==
    /\ pc = "target"
    /\ target' = mem.cand
    /\ Ok("control", mem)
    /\ UNCHANGED <<disk, others, files, saves, game, command, posts>>

\* The Control mod reports the candidate loaded and customised.
AwaitControl ==
    /\ pc = "control" /\ game.up /\ game.loaded = mem.cand
    /\ IF mem.loaded THEN UNCHANGED disk /\ Ok("command", mem)
       ELSE Persist([mem EXCEPT !.loaded = TRUE], "command", "failed")
    /\ Bookkeeping


\* The id of the one save-now command is durable before the command exists;
\* ids are random, and taken back when they could not be recorded.
ReserveCommand ==
    /\ pc = "command"
    /\ LET fresh == [mem EXCEPT !.cmd = Cardinality(published) + 1]
       IN  IF mem.cmd # 0 THEN UNCHANGED disk /\ Ok("publish", mem)
           ELSE \/ Ok("publish", fresh) /\ disk' = fresh
                \/ Fail("failed", mem) /\ UNCHANGED disk
    /\ Bookkeeping

\* Published unless the game has it already.
Publish ==
    /\ pc = "publish"
    /\ published' = published \cup {[id |-> mem.cmd, save |-> mem.cand]}
    /\ Ok("confirm", mem)
    /\ UNCHANGED <<disk, others, disks, game, finished, posts>>

\* The result of this very command is succeeded.
AwaitSaved ==
    /\ pc = "confirm" /\ [id |-> mem.cmd, save |-> mem.cand] \in finished
    /\ IF mem.saved THEN UNCHANGED disk /\ Ok("disk", mem)
       ELSE Persist([mem EXCEPT !.saved = TRUE], "disk", "failed")
    /\ Bookkeeping

\* Both XML files are stable and the pointer, the only new directory and the
\* candidate are the same save.
VerifyDisk ==
    /\ pc = "disk"
    /\ LET same == ~Seen.ambig /\ Seen.found = mem.cand /\ dirs = {mem.cand} /\ loader = mem.cand
           m    == [Seen EXCEPT !.verified = TRUE]
       IN  \/ same /\ Ok("finalize", m) /\ disk' = m
           \/ ~same /\ Ok("failed", Seen) /\ disk' = IF Seen = mem THEN disk ELSE Seen
           \/ Fail("failed", mem) /\ UNCHANGED disk
    /\ Bookkeeping

\* The Mod profile of the new save is committed; a failure is recorded.
CommitProfile ==
    /\ pc = "finalize"
    /\ \/ files' = [files EXCEPT !.profiles = "tx"] /\ Ok("complete", mem) /\ UNCHANGED disk
       \/ /\ Fail("failed", Stage("profile_commit_pending")) /\ UNCHANGED files
          /\ disk' \in {disk, Stage("profile_commit_pending")}
    /\ UNCHANGED <<others, target, saves, game, command, posts>>

\* complete: no success without the four pieces of evidence.
Complete ==
    /\ pc = "complete"
    /\ IF mem.cand # NoSave /\ mem.loaded /\ mem.cmd # 0 /\ mem.saved /\ mem.verified
       THEN Persist(Stage("finalizing"), "cleanup", "failed")
       ELSE UNCHANGED disk /\ Ok("failed", mem)
    /\ Bookkeeping

\* Init file and catalog request go back, the marker goes last.
CleanupOrder == <<"init", "catalog", "marker">>
ToClean == {i \in 1 .. 3 : files[CleanupOrder[i]] # "orig"}

Cleanup ==
    /\ pc = "cleanup" /\ ToClean # {}
    /\ LET f == CleanupOrder[CHOOSE i \in ToClean : \A k \in ToClean : i <= k]
       IN  /\ files' = [files EXCEPT ![f] = "orig"]
           /\ target' = IF f = "marker" THEN NoSave ELSE target
    /\ Ok("cleanup", mem)
    /\ UNCHANGED <<disk, others, saves, game, command, posts>>

Succeed ==
    /\ pc = "cleanup" /\ ToClean = {}
    /\ Persist(Stage("success"), "release", "failed")
    /\ Bookkeeping

\* releaseOwner, once the record on disk is terminal.
Release ==
    /\ pc = "release"
    /\ \/ reserved' = FALSE /\ Ok("idle", mem)
       \/ UNCHANGED reserved /\ Fail("idle", mem)
    /\ UNCHANGED <<composed, disk, start, crashes, worldVars>>


-----------------------------------------------------------------------------
(* Failure: keep what may be irreversible, or roll back                    *)

\* beginRollback: the plan covers every directory that appeared, once; the
\* stage is on disk before anything else is touched.
RollbackRecord(m) ==
    [m EXCEPT !.stage = "rolling_back", !.rb = TRUE,
              !.plan = IF m.rb THEN m.plan ELSE dirs \cup quar]

\* failRollback: the journal says so, if it can still be written.
FailRollback(m) ==
    /\ Fail("idle", m)
    /\ disk' \in {disk, [m EXCEPT !.stage = "rollback_failed"]}

\* The early failure handler of doStart: it looks at the game, but neither at
\* the recorded request nor at the containers.
Prefail ==
    /\ pc = "prefail"
    /\ LET kept == [Seen EXCEPT !.stage = "unknown"]
           undo == RollbackRecord(Seen)
       IN  \/ /\ Seen.progress \/ Seen.ambig
              /\ \/ disk' = kept /\ Ok("idle", mem)
                 \/ disk' = Seen /\ Fail("idle", mem)
           \/ /\ ~(Seen.progress \/ Seen.ambig)
              /\ \/ disk' = undo /\ Ok("rollback", undo)
                 \/ UNCHANGED disk /\ Fail("idle", mem)
           \/ Fail("idle", mem) /\ disk' \in {disk, Stage("unknown")}
    /\ Bookkeeping

\* Mutant: a request without visible progress is taken for one never sent.
IrreversibleIfSeen == mem.progress \/ mem.stage \in {"unknown", "ambiguous"}

\* The main one decides whether anything irreversible may have happened, and
\* looks at the game once more before it stops or restores anything.
Irreversible == mem.called \/ mem.progress \/ mem.stage \in {"unknown", "ambiguous"}

Recheck ==
    /\ pc = "failed"
    /\ IF Irreversible THEN UNCHANGED disk /\ Ok("preserve", mem)
       ELSE Observe(IF Seen.progress \/ Seen.ambig THEN "preserve" ELSE "undo", "preserve")
    /\ Bookkeeping

\* The world stays as it is until the next manual Start.
Preserve ==
    /\ pc = "preserve"
    /\ Persist(IF mem.stage \in {"ambiguous", "profile_commit_pending", "finalizing"}
               THEN mem ELSE Stage("unknown"), "idle", "idle")
    /\ Bookkeeping

\* beginRollback; containers that may have been started are stopped first.
Undo ==
    /\ pc = "undo"
    /\ Persist(RollbackRecord(mem), IF composed THEN "stopping" ELSE "rollback", "idle")
    /\ Bookkeeping

\* doResumeNewGameRollback: only an unfinished rollback is continued.
Recover ==
    /\ pc = "recover"
    /\ IF mem.stage \in Undoing THEN Persist(RollbackRecord(mem), "stopping", "idle")
       ELSE UNCHANGED disk /\ Ok("idle", mem)
    /\ Bookkeeping

\* Docker confirms that no container runs, or nothing is restored.
StopContainers ==
    /\ pc = "stopping"
    /\ \/ game' = Halted /\ composed' = FALSE /\ Ok("rollback", mem) /\ UNCHANGED disk
       \/ game' \in {game, Halted} /\ FailRollback(mem) /\ UNCHANGED composed
    /\ UNCHANGED <<reserved, start, crashes, disks, command, posts>>

\* continueRollback: the first step that is not done yet.
NextStep == LET left == {i \in DOMAIN RollbackSteps : RollbackSteps[i] \notin mem.done}
            IN  RollbackSteps[CHOOSE i \in left : \A k \in left : i <= k]
AllUndone == \A i \in DOMAIN RollbackSteps : RollbackSteps[i] \in mem.done

\* What a step does; moving the saves is the only one that can stop halfway.
Quarantined(moved) ==
    dirs' = dirs \ moved /\ quar' = quar \cup (moved \cap dirs) /\ UNCHANGED <<files, target, loader>>
Undone(step) ==
    CASE step = "quarantine" -> Quarantined(mem.plan)
      [] step = "loader"     -> loader' = NoSave /\ UNCHANGED <<files, target, dirs, quar>>
      [] OTHER               -> /\ files' = [files EXCEPT ![step] = "orig"]
                                /\ target' = IF step = "marker" THEN NoSave ELSE target
                                /\ UNCHANGED saves

\* Mutant: a step that failed is checkpointed like one that worked.
ApplyLeniently ==
    /\ pc = "rollback" /\ ~AllUndone
    /\ \/ Undone(NextStep) /\ Ok("checkpoint", mem) /\ UNCHANGED disk
       \/ UNCHANGED disks /\ Fail("checkpoint", mem) /\ UNCHANGED disk
    /\ UNCHANGED <<others, game, command, posts>>

Apply ==
    /\ pc = "rollback" /\ ~AllUndone
    /\ \/ Undone(NextStep) /\ Ok("checkpoint", mem) /\ UNCHANGED disk
       \/ /\ IF NextStep = "quarantine" THEN \E moved \in SUBSET mem.plan : Quarantined(moved)
             ELSE UNCHANGED disks
          /\ FailRollback(mem)
    /\ UNCHANGED <<others, game, command, posts>>

\* completeRollbackStep: a crash before it repeats the step.
Checkpoint ==
    /\ pc = "checkpoint"
    /\ Persist([mem EXCEPT !.done = mem.done \cup {NextStep}], "rollback", "idle")
    /\ Bookkeeping

FinishRollback ==
    /\ pc = "rollback" /\ AllUndone
    /\ Persist(Stage("rolled_back"), "release", "idle")
    /\ Bookkeeping

-----------------------------------------------------------------------------
(* The game and its Control mod                                            *)

Playing(g) == game' = g /\ UNCHANGED <<runner, durable, start, command, posts, faults, crashes>>

\* A save is created when the API was told to, or at a start whose pointer
\* names no save; the status file says so while the marker asks for one.
GameBegins ==
    /\ game.up /\ game.making = NoSave /\ game.loaded = NoSave
    /\ game.told \/ (disk.writer = "startup" /\ loader \notin dirs)
    /\ \E s \in Saves \ (dirs \cup quar) :
         Playing([game EXCEPT !.told = FALSE, !.making = s,
                              !.creating = game.creating \/ files.marker = "tx"])
    /\ UNCHANGED disks

\* The directory and the pointer appear in either order.
GameWrites ==
    /\ game.up /\ game.making # NoSave
    /\ \/ dirs' = dirs \cup {game.making} /\ dirs' # dirs /\ UNCHANGED loader
       \/ loader' = game.making /\ loader' # loader /\ UNCHANGED dirs
    /\ Playing(game)
    /\ UNCHANGED <<files, target, quar>>

GameLoads ==
    /\ game.up /\ game.loaded = NoSave /\ loader \in dirs
    /\ game.making \in {NoSave, loader}
    /\ Playing([game EXCEPT !.making = NoSave, !.loaded = loader])
    /\ UNCHANGED disks

\* A save-now command for the loaded save reaches GameLoop.Saved.
GameConfirms ==
    /\ game.up
    /\ \E c \in published \ finished :
         c.save = game.loaded /\ finished' = finished \cup {c}
    /\ UNCHANGED <<runner, durable, start, disks, game, published, posts, faults, crashes>>

\* The farm types in memory are published for the request that asked.
GameAnswers ==
    /\ game.up /\ files.catalog = "tx" /\ files.options # "tx"
    /\ files' = [files EXCEPT !.options = "tx"]
    /\ Playing(game)
    /\ UNCHANGED <<target, saves>>

\* The container exits by itself, or the panel stops it as an orphaned start.
GameExits ==
    /\ game.up /\ faults < MaxFaults /\ faults' = faults + 1
    /\ game' = Halted
    /\ UNCHANGED <<runner, durable, start, disks, command, posts, crashes>>
-----------------------------------------------------------------------------
Admission == Claim \/ Reserve \/ StartRead \/ StartCleans \/ StartJoins \/ StartJob
PrepareFiles   == Preflight \/ TakeOver \/ WriteConfig \/ WriteMarker \/ Gates
             \/ PrepareMods \/ RequestCatalog \/ ComposeUp \/ MarkStarted
Creation  == AwaitServer \/ ControlGateFails \/ AwaitCatalog \/ Decide \/ Baseline
             \/ MarkCommandCalled \/ PostNewGame \/ MarkAmbiguous \/ MarkObserving
             \/ AwaitCandidate \/ BindCandidate \/ BindMarker
Commit    == AwaitControl \/ ReserveCommand \/ Publish \/ AwaitSaved \/ VerifyDisk
             \/ CommitProfile \/ Complete \/ Cleanup \/ Succeed \/ Release
Failure   == GiveUp \/ Prefail \/ Recheck \/ Preserve \/ Undo
             \/ Recover \/ StopContainers \/ Apply \/ Checkpoint \/ FinishRollback
Environment == GameBegins \/ GameWrites \/ GameLoads \/ GameConfirms \/ GameAnswers
               \/ GameExits \/ Crash

NewGameNext == Admission \/ PrepareFiles \/ Creation \/ Commit \/ Failure \/ Environment

NewGameSpec == NewGameInit /\ [][NewGameNext]_newGameVars

-----------------------------------------------------------------------------
(* Correctness                                                             *)

NewGameTypeOK ==
    /\ pc \in PCs /\ mem \in Record /\ composed \in BOOLEAN
    /\ disk \in Record /\ reserved \in BOOLEAN
    /\ start \in {"none", "forward", "rollback"}
    /\ files \in [Files -> {"orig", "gone", "tx"}] /\ target \in Saves \cup {NoSave}
    /\ loader \in Saves \cup {NoSave} /\ dirs \in SUBSET Saves /\ quar \in SUBSET Saves
    /\ game \in GameRecord
    /\ published \in SUBSET SaveCommands /\ finished \in SUBSET SaveCommands
    /\ posts \in Nat /\ faults \in 0 .. MaxFaults /\ crashes \in 0 .. MaxCrashes

\* POST /newgame is sent at most once in the life of a transaction, whatever
\* fails and however often it is taken over (postNewGameOnce, CommandCalled).
PostedOnce == posts <= 1

\* At most one durable-save command ever exists for the transaction, and it
\* names the save the record is bound to (ensureDurableSaveCommandID).
OneSaveCommand ==
    /\ Cardinality(published) <= 1
    /\ \A c \in published : c = [id |-> disk.cmd, save |-> disk.cand]

\* Every file is back, and what the game created is in quarantine.
FullyUndone ==
    /\ files = [f \in Files |-> "orig"] /\ target = NoSave
    /\ disk.plan \subseteq quar

\* The new save is on disk under the pointer, its durable save reached
\* GameLoop.Saved, and nothing is left that asks for another new game.
FullyKept ==
    /\ disk.verified /\ disk.cand \in dirs /\ loader = disk.cand
    /\ [id |-> disk.cmd, save |-> disk.cand] \in finished
    /\ \A f \in {"init", "catalog", "marker"} : files[f] = "orig"

\* A transaction whose owner is gone has ended one way or the other, whatever
\* failed on the way: instance mutations are admitted again only then.
SettledBeforeFree == disk.stage # "none" /\ ~reserved => FullyUndone \/ FullyKept

\* A durable success needs the save itself: it was told by the game, not
\* assumed, and no other new directory competes with it.
SuccessIsDurable == disk.stage = "success" => FullyKept /\ dirs = {disk.cand}

\* A transaction that is over, by its owner or by its record, is really over.
Decided == SettledBeforeFree /\ SuccessIsDurable

\* The marker never names a save the record is not bound to, so a marker that
\* survives a crash cannot make Control customise a foreign save.
TargetBound == target # NoSave => target = disk.cand

\* What a transaction changed is put back only under a record that says so
\* already: a crash at any point leaves a journal to continue from.
WriteAhead ==
    [][ \/ \E f \in Files : files[f] # "orig" /\ files'[f] = "orig"
        \/ quar' # quar
        \/ loader # NoSave /\ loader' = NoSave
        => disk.stage \in {"rolling_back", "finalizing"} ]_newGameVars

\* A rollback is never begun once creation progress is on record, or once the
\* same runner has sent the request; only the early handler forgets the latter.
ProgressIsNeverUndone ==
    [][ ~disk.rb /\ disk'.rb =>
        /\ ~disk.progress
        /\ pc = "undo" => ~disk.called ]_newGameVars

\* The transaction as the rest of the panel sees it.  Without the owner, or
\* with a terminal record, it is decided.
Outcome == INSTANCE NewGameOutcome WITH
    world   <- IF FullyKept THEN "new" ELSE IF FullyUndone THEN "old" ELSE "between",
    outcome <- IF disk.stage = "none" THEN "none"
               ELSE IF reserved /\ disk.stage \notin Terminal THEN "open"
               ELSE IF FullyKept THEN "kept" ELSE "undone",
    held    <- reserved

\* It is free again only with the new world or the old one, whole, and that
\* does not change any more, although a Start that read the record before may
\* still run the finished transaction without holding the owner (newGameOwner).
ImplementsOutcome == Outcome!Spec

\* A failure "stops the server first, then restores" (docs/02-backend.md): no
\* step of a rollback runs under a live game container.
StoppedBeforeRestore == [][pc = "rollback" /\ pc' = "checkpoint" => ~game.up]_newGameVars
=============================================================================
