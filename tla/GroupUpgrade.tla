---------------------------- MODULE GroupUpgrade ----------------------------
(***************************************************************************)
(* The upgrade to Preview 140 of every world that shares one game volume:  *)
(* junimo140_group_*.go, started by startJunimo140GroupLocked, run by      *)
(* runJunimo140GroupApply, undone by rollbackJunimo140Group and taken up   *)
(* again at boot by recoverJunimo140GroupLocked.                           *)
(*                                                                         *)
(* A lease in every member's directory keeps other work away.  The owner's *)
(* manifest and transaction.json are written one after the other at every  *)
(* checkpoint; transaction.json carries the marks (intents and results)    *)
(* recovery decides by.  A fault is a step of the panel or of Docker that  *)
(* fails, wholly or half way; a stop is the panel dying between two steps  *)
(* or in the middle of a checkpoint.  steam-auth follows its server.       *)
(***************************************************************************)
EXTENDS Naturals, FiniteSets

CONSTANTS GroupSize,     \* worlds on the shared volume
          GroupFaults,   \* bound: steps that fail
          GroupStops     \* bound: times the panel dies

ASSUME GroupAssumption ==
    GroupSize \in Nat \ {0} /\ GroupFaults \in Nat /\ GroupStops \in Nat

Members == 1..GroupSize

VARIABLES kind,      \* live: serving; idle: stopped; cold: no world, no container
          image,     \* the build of a member's container, or none
          runs,      \* first: since before the upgrade; again; down; died by itself
          content,   \* a member's files and session: old, mixed, purged, new
          command,   \* the save-now of a member, as its game answered it
          lease,     \* junimo140-lease.json of a member
          manifest,  \* the phase in the owner's manifest.json
          txn,       \* transaction.json
          staging,   \* the staging volume exists
          rows,      \* the state of a member's row
          published, \* the public status
          hold,      \* the transaction in the panel's memory
          at,        \* the step the panel is in
          member,    \* the member it works on
          turn,      \* 0: the upgrade's job; m: recovery at boot, asked for m
          gfaults, gstops,
          refused    \* the panel refused its own evidence
owners == <<lease, manifest, txn, hold>>
worlds == <<image, runs, content, command, staging, rows>>
place == <<at, member, turn, gfaults, gstops>>
groupVars == <<kind, owners, worlds, place, published, refused>>

Final == {"committed", "rolled_back", "claim_failed"}
NoTxn == [phase |-> "none", marks |-> {}, worlds |-> [m \in Members |-> {}]]
Live(m) == kind[m] = "live"
Boxed(m) == kind[m] # "cold"
Serves(m) == runs[m] \in {"first", "again"}

GroupInit ==
    /\ kind \in [Members -> {"live", "idle", "cold"}]
    /\ image = [m \in Members |-> IF Boxed(m) THEN "old" ELSE "none"]
    /\ runs = [m \in Members |-> IF Live(m) THEN "first" ELSE "down"]
    /\ content = [m \in Members |-> "old"]
    /\ command = [m \in Members |-> "none"]
    /\ lease = [m \in Members |-> "none"]
    /\ manifest = "none" /\ txn = NoTxn /\ hold = NoTxn
    /\ staging = FALSE
    /\ rows = [m \in Members |-> IF Live(m) THEN "running" ELSE "stopped"]
    /\ published = "none"
    /\ at = "start" /\ member = 1 /\ turn = 0
    /\ gfaults = 0 /\ gstops = 0 /\ refused = FALSE

-----------------------------------------------------------------------------
(* Steps of the panel.  Fault uses up a fault; Trouble is where a step that *)
(* failed leads: the run's deferred rollback, or the rollback's own end.    *)

Fault == gfaults < GroupFaults /\ gfaults' = gfaults + 1
RunSteps == {"quiesce", "announce", "member", "send", "await", "saved", "stopIntent", "stop",
             "stopped", "quiet", "archive", "stage", "create", "created", "prepared", "change",
             "update", "remove", "replace", "fill", "target", "settle", "updated", "restoring",
             "restart", "rows", "commit", "succeed"}
Trouble == at' = (IF at \in RunSteps THEN "failed" ELSE "giveup") /\ UNCHANGED <<member, turn>>
To(step, m) == at' = step /\ member' = m /\ UNCHANGED turn
\* the next member in the plan's order, or the step after the last one
Following(step, after) ==
    IF member < GroupSize THEN To(step, member + 1) ELSE To(after, 1)
\* the caller returns; boot asks for the next instance
Return == IF turn \in 1..(GroupSize - 1) THEN at' = "boot" /\ turn' = turn + 1 /\ member' = 1
          ELSE at' = "rest" /\ turn' = 0 /\ member' = 1

Set(t, phase, marks) == [t EXCEPT !.phase = phase, !.marks = @ \cup marks]
Mark(t, m, marks) == [t EXCEPT !.worlds[m] = @ \cup marks]
MarkAll(t, marks) == [t EXCEPT !.worlds = [m \in Members |-> @[m] \cup marks]]
Undoing == {"rolling_back", "rollback_failed", "rolled_back"}
HasStopIntent(t) == \E m \in Members : "stopIntent" \in t.worlds[m]
Backed(t, m) == {"stopped", "archived"} \subseteq t.worlds[m]

Valid(t) ==
    /\ "keep" \in t.marks => HasStopIntent(t) /\ t.phase \in Undoing
    /\ t.phase = "claim_failed" => t.marks = {} /\ \A m \in Members : t.worlds[m] = {}
    /\ \A m \in Members : LET w == t.worlds[m] IN
          /\ "saveIntent" \in w => Live(m)
          /\ "saved" \in w => "saveIntent" \in w
          /\ "stopped" \in w => "stopIntent" \in w
          /\ "updated" \in w => "updateIntent" \in w
          /\ "restored" \in w => "restoreIntent" \in w
          /\ "stopIntent" \in w /\ Live(m) => "saved" \in w
          /\ w \cap {"updateIntent", "restoreIntent"} # {} => "changes" \in t.marks /\ Backed(t, m)
    /\ "stageCreated" \in t.marks => "stageIntent" \in t.marks
    /\ "stageReady" \in t.marks => "stageCreated" \in t.marks
    /\ t.marks \cap {"stageIntent", "changes"} # {} => \A m \in Members : Backed(t, m)
    /\ "changes" \in t.marks => "stageReady" \in t.marks
    /\ "stageRemoved" \in t.marks => "stageIntent" \in t.marks /\ t.phase \in Undoing
    /\ t.phase = "committed" => \A m \in Members : "updated" \in t.worlds[m]
    /\ t.phase = "rolled_back" /\ "changes" \in t.marks => \A m \in Members : "restored" \in t.worlds[m]

Progress(before, after) ==
    /\ before.phase \notin Final
    /\ before.marks \subseteq after.marks
    /\ \A m \in Members : before.worlds[m] \subseteq after.worlds[m]

Accepts(t) == /\ Valid(t) /\ manifest \notin Final
              /\ \A m \in Members : lease[m] = "held"
              /\ txn # NoTxn => Progress(txn, t)

\* transaction.json, then the manifest; a fault or the panel's death may come between
Checkpoint(t, step, m) ==
    /\ hold' = t
    /\ \/ Accepts(t) /\ txn' = t /\ manifest' = t.phase /\ To(step, m) /\ UNCHANGED <<gfaults, gstops, refused>>
       \/ /\ Accepts(t) /\ gstops < GroupStops /\ gstops' = gstops + 1
          /\ txn' = t /\ To("down", 1) /\ UNCHANGED <<manifest, gfaults, refused>>
       \/ /\ IF Accepts(t) THEN Fault /\ txn' \in {txn, t} /\ UNCHANGED refused
             ELSE refused' = (refused \/ txn.phase \notin Final) /\ UNCHANGED <<txn, gfaults>>
          /\ Trouble /\ UNCHANGED <<manifest, gstops>>
    /\ UNCHANGED <<kind, lease, worlds, published>>

\* the panel moves on without touching anything
Pass(step, m) == To(step, m) /\ UNCHANGED <<kind, owners, worlds, published, gfaults, gstops, refused>>
Fails == Trouble /\ UNCHANGED <<kind, owners, worlds, published, gfaults, gstops, refused>>
Aside == UNCHANGED <<kind, owners, published, gstops, refused>>

-----------------------------------------------------------------------------
(* startJunimo140GroupLocked: the leases, the job, the first transaction.   *)

\* the process dies; Docker, the files and the games go on
PanelDies == gstops < GroupStops /\ gstops' = gstops + 1 /\ To("down", 1)
Ahead == UNCHANGED <<kind, txn, hold, worlds, published, refused>>

Claim == /\ at = "start"
         /\ manifest' = "claiming" /\ To("claim", 1)
         /\ UNCHANGED <<lease, gfaults, gstops>> /\ Ahead

\* the lease is created exclusively, then written: both can be cut short
ClaimMember ==
    /\ at = "claim"
    /\ \/ lease' = [lease EXCEPT ![member] = "held"] /\ Following("claim", "claimed")
          /\ UNCHANGED <<gfaults, gstops>>
       \/ /\ lease' \in {lease, [lease EXCEPT ![member] = "torn"], [lease EXCEPT ![member] = "held"]}
          /\ \/ Fault /\ To("unclaim", 1) /\ UNCHANGED gstops
             \/ PanelDies /\ UNCHANGED gfaults
    /\ UNCHANGED manifest /\ Ahead

\* a manifest phase written outside a checkpoint, and where a failed write leads
WriteJournal(phase, step) ==
    /\ manifest' = phase /\ To(step, 1) /\ UNCHANGED <<lease, gfaults, gstops>> /\ Ahead
JournalFails(step) == Fault /\ To(step, 1) /\ UNCHANGED <<lease, manifest, gstops>> /\ Ahead

ClaimRecorded == at = "claimed" /\ (WriteJournal("claimed", "job") \/ JournalFails("unclaim"))

\* only leases that still read back as this claim's are removed
Unclaim ==
    /\ at = "unclaim"
    /\ \/ /\ lease' = [m \in Members |-> IF lease[m] = "held" THEN "none" ELSE lease[m]]
          /\ manifest' = "claim_failed" /\ UNCHANGED gfaults
       \/ /\ Fault
          /\ \E kept \in SUBSET {m \in Members : lease[m] = "held"} :
                lease' = [m \in Members |-> IF lease[m] = "held" /\ m \notin kept THEN "none" ELSE lease[m]]
          /\ manifest' \in {manifest, "claim_failed"}
    /\ To("rest", 1) /\ UNCHANGED gstops /\ Ahead

StartUpgradeJob == at = "job" /\ (Pass("first", 1) \/ JournalFails("nojob"))
NoJob == at = "nojob" /\ (WriteJournal("claim_failed", "release") \/ JournalFails("rest"))

FirstTransaction ==
    LET t == Set(NoTxn, "claimed", {}) IN
    /\ at = "first"
    /\ hold' = t
    /\ \/ txn' = t /\ published' = "checking" /\ To("quiesce", 1) /\ UNCHANGED <<gfaults, gstops>>
       \/ txn' \in {NoTxn, t} /\ Fault /\ To("abandon", 1) /\ UNCHANGED <<published, gstops>>
       \/ txn' = t /\ PanelDies /\ UNCHANGED <<published, gfaults>>
    /\ UNCHANGED <<kind, lease, manifest, worlds, refused>>

\* nothing ran while the gate was closed: a failed claim, recorded before the release
Abandon ==
    /\ at = "abandon"
    /\ \/ /\ txn' = (IF txn = NoTxn THEN txn ELSE Set(txn, "claim_failed", {}))
          /\ To("disown", 1) /\ UNCHANGED gfaults
       \/ Fault /\ To("rest", 1) /\ UNCHANGED txn
    /\ UNCHANGED <<kind, lease, manifest, hold, worlds, published, gstops, refused>>
Disown == at = "disown" /\ (WriteJournal("claim_failed", "excuse") \/ JournalFails("rest"))
Excuse ==
    /\ at = "excuse"
    /\ \/ published' = "failed_rolled_back" /\ To("release", 1) /\ UNCHANGED gfaults
       \/ Fault /\ To("rest", 1) /\ UNCHANGED published
    /\ UNCHANGED <<kind, owners, worlds, gstops, refused>>

\* every lease must read back before the first one is removed
ReleaseMember ==
    /\ at = "release"
    /\ manifest \in Final
    /\ \/ /\ member = 1 /\ \E m \in Members : lease[m] = "torn"
          /\ Return /\ UNCHANGED <<lease, gfaults>>
       \/ /\ ~(member = 1 /\ \E m \in Members : lease[m] = "torn")
          /\ lease' = [lease EXCEPT ![member] = "none"]
          /\ UNCHANGED gfaults
          /\ IF member < GroupSize THEN To("release", member + 1) ELSE Return
       \/ Fault /\ lease' \in {lease, [lease EXCEPT ![member] = "none"]} /\ Return
    /\ UNCHANGED <<manifest, gstops>> /\ Ahead

StartSteps == Claim \/ ClaimMember \/ ClaimRecorded \/ Unclaim \/ StartUpgradeJob \/ NoJob
              \/ FirstTransaction \/ Abandon \/ Disown \/ Excuse \/ ReleaseMember

-----------------------------------------------------------------------------
(* runJunimo140GroupApply.                                                  *)

Quiesce == at = "quiesce" /\ Checkpoint(Set(hold, "quiescing", {}), "announce", 1)
Announce ==
    /\ at = "announce"
    /\ \/ published' = "stopping" /\ To("member", 1) /\ UNCHANGED gfaults
       \/ Fault /\ Trouble /\ UNCHANGED published
    /\ UNCHANGED <<kind, owners, worlds, gstops, refused>>

SaveIntent == /\ at = "member" /\ Live(member)
              /\ Checkpoint(Mark(hold, member, {"saveIntent"}), "send", member)
NoSave == at = "member" /\ ~Live(member) /\ Pass("stopIntent", member)
SendSave140 ==
    /\ at = "send"
    /\ \/ command' = [command EXCEPT ![member] = "sent"] /\ To("await", member) /\ UNCHANGED gfaults
       \/ Fault /\ Trouble /\ command' \in {command, [command EXCEPT ![member] = "sent"]}
    /\ UNCHANGED <<image, runs, content, staging, rows>> /\ Aside
\* the receipt and the save files on disk; or the wait ends without them
AwaitSave140 == at = "await" /\ (Fails \/ (command[member] = "saved" /\ Pass("saved", member)))
Saved == at = "saved" /\ Checkpoint(Mark(hold, member, {"saved"}), "stopIntent", member)
StopIntent == at = "stopIntent" /\ Checkpoint(Mark(hold, member, {"stopIntent"}), "stop", member)

\* the containers in who are taken down, or, on a fault, some of them
TakeDown(who, step, m) ==
    LET Down(s) == [w \in Members |-> IF w \in s /\ Serves(w) THEN "down" ELSE runs[w]] IN
    /\ \/ runs' = Down(who) /\ To(step, m) /\ UNCHANGED gfaults
       \/ Fault /\ Trouble /\ \E s \in SUBSET who : runs' = Down(s)
    /\ UNCHANGED <<image, content, command, staging, rows>> /\ Aside
BringUp(who, step) ==
    LET Started(s) == [w \in Members |-> IF w \in s /\ ~Serves(w) THEN "again" ELSE runs[w]] IN
    /\ \/ runs' = Started(who) /\ To(step, 1) /\ UNCHANGED gfaults
       \/ Fault /\ Trouble /\ \E s \in SUBSET who : runs' = Started(s)
    /\ UNCHANGED <<image, content, command, staging, rows>> /\ Aside
SetRows(new, step) ==
    /\ \/ rows' = new /\ To(step, 1) /\ UNCHANGED gfaults
       \/ Fault /\ Trouble /\ \E m \in Members : rows' \in {rows, [rows EXCEPT ![m] = new[m]]}
    /\ UNCHANGED <<image, runs, content, command, staging>> /\ Aside

StopMember == at = "stop" /\ TakeDown({member}, "stopped", member)
Stopped == /\ at = "stopped"
           /\ LET t == Mark(hold, member, {"stopped"}) IN
              IF member < GroupSize THEN Checkpoint(t, "member", member + 1) ELSE Checkpoint(t, "quiet", 1)
Quiet == /\ at = "quiet"
         /\ IF \E m \in Members : Serves(m) THEN Fails
            ELSE Checkpoint(MarkAll(Set(hold, "backing_up", {}), {"stopped"}), "archive", 1)
Archive == /\ at = "archive"
           /\ LET t == Mark(hold, member, {"archived"}) IN
              IF member < GroupSize THEN Checkpoint(t, "archive", member + 1) ELSE Checkpoint(t, "stage", 1)

StageIntent == at = "stage" /\ Checkpoint(Set(hold, "preparing_game", {"stageIntent"}), "create", 1)
CreateStaging ==
    /\ at = "create"
    /\ \/ staging' = TRUE /\ To("created", 1) /\ UNCHANGED gfaults
       \/ Fault /\ Trouble /\ staging' \in BOOLEAN
    /\ UNCHANGED <<image, runs, content, command, rows>> /\ Aside
StageCreated == at = "created" /\ Checkpoint(Set(hold, "preparing_game", {"stageCreated"}), "prepared", 1)
StageReady == at = "prepared" /\ Checkpoint(Set(hold, "preparing_game", {"stageReady"}), "change", 1)
ChangesStarted == at = "change" /\ Checkpoint(Set(hold, "updating_worlds", {"changes"}), "update", 1)

UpdateIntent == at = "update" /\ Checkpoint(Mark(hold, member, {"updateIntent"}), "remove", member)
RemoveServices ==
    /\ at = "remove"
    /\ \/ image' = [image EXCEPT ![member] = "none"] /\ To("replace", member) /\ UNCHANGED gfaults
       \/ Fault /\ Trouble /\ image' \in {image, [image EXCEPT ![member] = "none"]}
    /\ UNCHANGED <<runs, content, command, staging, rows>> /\ Aside
\* the Mods, the .env, the volume binding and the Compose file, one after the other
Rewrite(from, to, step) ==
    /\ at = from
    /\ \/ content' = [content EXCEPT ![member] = to] /\ To(step, member) /\ UNCHANGED gfaults
       \/ Fault /\ Trouble /\ content' \in {content, [content EXCEPT ![member] = to]}
    /\ UNCHANGED <<image, runs, command, staging, rows>> /\ Aside
ReplaceFiles == Rewrite("replace", "mixed", "fill") \/ Rewrite("fill", "new", "target")
\* a world runs on the target until it is stably ready; a cold template never runs
VerifyTarget ==
    LET Target == [image EXCEPT ![member] = "new"]
        Ran    == [runs EXCEPT ![member] = "again"] IN
    /\ at = "target" /\ Boxed(member)
    /\ \/ image' = Target /\ runs' = Ran /\ To("settle", member) /\ UNCHANGED gfaults
       \/ Fault /\ Trouble /\ image' \in {image, Target} /\ runs' \in {runs, Ran} /\ (runs' = Ran => image' = Target)
    /\ UNCHANGED <<content, command, staging, rows>> /\ Aside
VerifyOffline == at = "target" /\ ~Boxed(member) /\ Pass("updated", member)
StopTarget == at = "settle" /\ TakeDown({member}, "updated", member)
Updated == /\ at = "updated"
           /\ LET t == Mark(hold, member, {"updated"}) IN
              IF member < GroupSize THEN Checkpoint(t, "update", member + 1) ELSE Checkpoint(t, "restoring", 1)

RestoringState == at = "restoring" /\ Checkpoint(Set(hold, "restoring_state", {}), "restart", 1)
RestartWorlds == at = "restart" /\ BringUp({m \in Members : Live(m)}, "rows")
Original == [m \in Members |-> IF Live(m) THEN "running" ELSE "stopped"]
PublishRows == at = "rows" /\ SetRows(Original, "commit")
CommitGroup == at = "commit" /\ Checkpoint(Set(hold, "committed", {}), "succeed", 1)

\* an error: what the transaction says on disk decides between the end and the rollback
RunFailed ==
    /\ at = "failed"
    /\ IF txn.phase = "committed" THEN Return /\ UNCHANGED hold
       ELSE To("rolling", 1) /\ hold' = txn
    /\ UNCHANGED <<kind, lease, manifest, txn, worlds, published, gfaults, gstops, refused>>

ApplySteps == Quiesce \/ Announce \/ SaveIntent \/ NoSave \/ SendSave140 \/ AwaitSave140 \/ Saved
              \/ StopIntent \/ StopMember \/ Stopped \/ Quiet \/ Archive \/ StageIntent
              \/ CreateStaging \/ StageCreated \/ StageReady \/ ChangesStarted \/ UpdateIntent
              \/ RemoveServices \/ ReplaceFiles \/ VerifyTarget \/ VerifyOffline \/ StopTarget
              \/ Updated \/ RestoringState \/ RestartWorlds \/ PublishRows \/ CommitGroup \/ RunFailed

-----------------------------------------------------------------------------
(* rollbackJunimo140Group and, before anything was backed up,               *)
(* abortJunimo140BeforeStop.                                                *)

Keeping == turn > 0 \/ "keep" \in hold.marks
\* Mutant: an abort takes the way of a full backup.
NeverUntouched(t) == FALSE
Untouched(t) == t.marks \cap {"stageIntent", "changes"} = {}

Rolling == at = "rolling" /\ Checkpoint(Set(hold, "rolling_back", {}),
                                        IF Untouched(hold) THEN "abort" ELSE "keep", 1)

\* without a stop intent a member must still run, or rest, as it was captured
Abort ==
    /\ at = "abort"
    /\ \/ /\ \A m \in Members : "stopIntent" \in hold.worlds[m] \/ (Serves(m) <=> Live(m))
          /\ Pass("unsaved", 1)
       \/ Fails
Unsaved == {m \in Members : /\ "saveIntent" \in hold.worlds[m] /\ "saved" \notin hold.worlds[m]
                            /\ command[m] # "busy"}
ResolveSave ==
    /\ at = "unsaved" /\ Unsaved # {}
    /\ LET m == CHOOSE m \in Unsaved : \A n \in Unsaved : m <= n IN
       \/ command[m] = "saved" /\ Checkpoint(Mark(Set(hold, "rolling_back", {}), m, {"saved"}), "unsaved", 1)
       \/ Fails
SavesResolved ==
    /\ at = "unsaved" /\ Unsaved = {}
    /\ IF ~HasStopIntent(hold) THEN Pass("rolled", 1)
       ELSE IF Keeping THEN Checkpoint(Set(hold, "rolling_back", {"keep"}), "abortRows", 1)
       ELSE Pass("restartOld", 1)
RestartOriginals == at = "restartOld" /\ BringUp({m \in Members : Live(m)}, "abortRows")
AbortRows ==
    /\ at = "abortRows"
    /\ IF ~Keeping /\ \E m \in Members : Live(m) /\ ~Serves(m) THEN Fails
       ELSE SetRows([m \in Members |-> IF Serves(m) THEN "running" ELSE "stopped"], "rolled")

KeepStopped == /\ at = "keep"
               /\ IF Keeping THEN Checkpoint(Set(hold, "rolling_back", {"keep"}), "halt", 1)
                  ELSE Pass("halt", 1)
\* helpers and every service; an image nobody recorded stops nothing
Halt == /\ at = "halt"
        /\ IF \E m \in Members : image[m] = "new" /\ "updateIntent" \notin hold.worlds[m] THEN Fails
           ELSE TakeDown(Members, IF "changes" \in hold.marks THEN "restoreIntent" ELSE "unstage", 1)
RestoreIntent == at = "restoreIntent" /\ Checkpoint(MarkAll(Set(hold, "rolling_back", {}), {"restoreIntent"}), "unbox", 1)
\* containers removed, or recreated from the original image
Replaced(from, new, step) ==
    /\ at = from
    /\ \/ image' = new /\ To(step, 1) /\ UNCHANGED gfaults
       \/ Fault /\ Trouble /\ \E s \in SUBSET Members :
             image' = [m \in Members |-> IF m \in s THEN new[m] ELSE image[m]]
    /\ UNCHANGED <<runs, content, command, staging, rows>> /\ Aside
RemoveAllServices == Replaced("unbox", [m \in Members |-> "none"], "restore")
NotRestored == at = "restore" /\ "restored" \in hold.worlds[member]
               /\ Following("restore", "recreate")
               /\ UNCHANGED <<kind, owners, worlds, published, gfaults, gstops, refused>>
\* the archive is verified, the root is emptied, then unpacked
RestoreMember == \/ "restored" \notin hold.worlds[member] /\ Rewrite("restore", "purged", "refill")
                \/ Rewrite("refill", "old", "restored")
Restored140 == /\ at = "restored"
               /\ LET t == Mark(hold, member, {"restored"}) IN
                  IF member < GroupSize THEN Checkpoint(t, "restore", member + 1) ELSE Checkpoint(t, "recreate", 1)
Recreate140 == Replaced("recreate", [m \in Members |-> IF Boxed(m) THEN "old" ELSE "none"], "unstage")
\* Mutant: a volume whose creation failed half way is not looked for.
StagedIfCreated == "stageCreated" \in hold.marks /\ "stageRemoved" \notin hold.marks
Staged == "stageIntent" \in hold.marks /\ "stageRemoved" \notin hold.marks
RemoveStaging ==
    /\ at = "unstage" /\ Staged
    /\ \/ staging' = FALSE /\ To("unstaged", 1) /\ UNCHANGED gfaults
       \/ Fault /\ Trouble /\ staging' \in {staging, FALSE}
    /\ UNCHANGED <<image, runs, content, command, rows>> /\ Aside
NoStaging == at = "unstage" /\ ~Staged /\ Pass("revive", 1)
StageRemoved == at = "unstaged" /\ Checkpoint(Set(hold, "rolling_back", {"stageRemoved"}), "revive", 1)
Revive ==
    /\ at = "revive"
    /\ IF \E m \in Members : image[m] # (IF Boxed(m) THEN "old" ELSE "none") \/ Serves(m) THEN Fails
       ELSE BringUp(IF Keeping THEN {} ELSE {m \in Members : Live(m)}, "reviveRows")
ReviveRows == at = "reviveRows" /\ SetRows(IF Keeping THEN [m \in Members |-> "stopped"] ELSE Original, "rolled")
RolledBackGroup == at = "rolled" /\ Checkpoint(Set(hold, "rolled_back", {}), "publish", 1)

\* the deferred end of a failed rollback: best effort, the leases stay
GiveUpGroup ==
    LET t == Set(hold, "rollback_failed", {}) IN
    /\ at = "giveup"
    /\ \/ Accepts(t) /\ txn' = t /\ manifest' = t.phase /\ published' = "rollback_failed" /\ UNCHANGED gfaults
       \/ ~Accepts(t) /\ published' = "rollback_failed" /\ UNCHANGED <<txn, manifest, gfaults>>
       \/ /\ Fault /\ published' \in {published, "rollback_failed"} /\ UNCHANGED manifest
          /\ txn' \in {txn, IF Accepts(t) THEN t ELSE txn}
    /\ Return
    /\ UNCHANGED <<kind, lease, hold, worlds, gstops, refused>>

\* the status of a terminal transaction, before the release
PublishGroup ==
    /\ at \in {"succeed", "publish", "republish"}
    /\ \/ /\ published' = (IF hold.phase = "committed" THEN "succeeded" ELSE "failed_rolled_back")
          /\ To("release", 1) /\ UNCHANGED gfaults
       \/ /\ Fault /\ UNCHANGED published
          /\ IF at = "republish" THEN Return ELSE Trouble
    /\ UNCHANGED <<kind, owners, worlds, gstops, refused>>

RollbackSteps == Rolling \/ Abort \/ ResolveSave \/ SavesResolved \/ RestartOriginals \/ AbortRows
                 \/ KeepStopped \/ Halt \/ RestoreIntent \/ RemoveAllServices \/ NotRestored
                 \/ RestoreMember \/ Restored140 \/ Recreate140 \/ RemoveStaging \/ NoStaging
                 \/ StageRemoved \/ Revive \/ ReviveRows \/ RolledBackGroup \/ GiveUpGroup \/ PublishGroup

-----------------------------------------------------------------------------
(* The panel dies and starts again; every instance is asked once at boot.   *)

GroupCrash == /\ at \notin {"start", "rest", "down"}
              /\ PanelDies
              /\ UNCHANGED <<kind, owners, worlds, published, gfaults, refused>>
GroupBoot == /\ at = "down"
             /\ at' = "boot" /\ turn' = 1 /\ member' = 1 /\ hold' = NoTxn
             /\ UNCHANGED <<kind, lease, manifest, txn, worlds, published, gfaults, gstops, refused>>

AllHeld == \A m \in Members : lease[m] = "held"
Decided == manifest \in Final /\ manifest = txn.phase
\* a member may lack its .env only inside a restore that was announced
Rebound == \A m \in Members : content[m] = "purged" =>
              txn.phase \in {"rolling_back", "rollback_failed"} /\ "restoreIntent" \in txn.worlds[m]
\* the owner, its transaction, every member's lease and .env agree
Recoverable ==
    /\ Rebound
    /\ manifest \in {"committed", "rolled_back"} => manifest = txn.phase
    /\ \A m \in Members : lease[m] = "held" \/ (Decided /\ lease[m] = "none")

CanRecover == IF txn = NoTxn THEN manifest \in {"claiming", "claimed", "claim_failed"} ELSE Recoverable
NothingToRecover ==
    /\ at = "boot" /\ ~(lease[turn] = "held" /\ CanRecover)
    /\ refused' = (refused \/ AllHeld)
    /\ Return
    /\ UNCHANGED <<kind, owners, worlds, published, gfaults, gstops>>
\* a terminal phase reaches the manifest before the status and the release
RecoverJournal(phase, step) ==
    \/ manifest' = phase /\ To(step, 1) /\ UNCHANGED gfaults
    \/ Fault /\ Return /\ UNCHANGED manifest
RecoverGroup ==
    /\ at = "boot" /\ lease[turn] = "held" /\ CanRecover
    /\ \/ txn = NoTxn /\ RecoverJournal("claim_failed", "release") /\ UNCHANGED hold
       \/ txn.phase \in Final /\ hold' = txn /\ RecoverJournal(txn.phase, "republish")
       \/ /\ txn # NoTxn /\ txn.phase \notin Final
          /\ hold' = txn /\ To("rolling", 1) /\ UNCHANGED <<manifest, gfaults>>
    /\ UNCHANGED <<kind, lease, txn, worlds, published, gstops, refused>>

\* the game runs the save, or its menu is busy, or the save fails
GameAnswers ==
    /\ \E m \in Members, a \in {"saved", "busy", "lost"} :
          command[m] = "sent" /\ Serves(m) /\ command' = [command EXCEPT ![m] = a]
    /\ UNCHANGED <<kind, owners, image, runs, content, staging, rows, place, published, refused>>
GameDies ==
    /\ Fault
    /\ \E m \in Members : runs[m] \in {"first", "again"} /\ runs' = [runs EXCEPT ![m] = "died"]
    /\ UNCHANGED <<kind, owners, image, content, command, staging, rows, at, member, turn, gstops, published, refused>>

GroupNext == StartSteps \/ ApplySteps \/ RollbackSteps \/ GroupCrash \/ GroupBoot
             \/ NothingToRecover \/ RecoverGroup \/ GameAnswers \/ GameDies

-----------------------------------------------------------------------------
\* Every variable has its type.
GroupTypeOK ==
    /\ kind \in [Members -> {"live", "idle", "cold"}]
    /\ image \in [Members -> {"none", "old", "new"}]
    /\ runs \in [Members -> {"first", "again", "down", "died"}]
    /\ content \in [Members -> {"old", "mixed", "purged", "new"}]
    /\ command \in [Members -> {"none", "sent", "saved", "busy", "lost"}]
    /\ lease \in [Members -> {"none", "torn", "held"}]
    /\ rows \in [Members -> {"running", "stopped"}]
    /\ staging \in BOOLEAN /\ refused \in BOOLEAN
    /\ member \in Members /\ turn \in 0..GroupSize
    /\ gfaults \in 0..GroupFaults /\ gstops \in 0..GroupStops

\* A lease goes only once the outcome is on disk, and the outcome is the whole group's:
\* committed, every world is the new one; rolled back or never begun, every file, container
\* and the staging volume are as before; the status and the rows say so.
GroupSettled ==
    /\ (\E m \in Members : lease[m] = "none") /\ txn # NoTxn => txn.phase \in Final
    /\ txn.phase = "committed" =>
          staging /\ \A m \in Members : content[m] = "new" /\ image[m] = (IF Boxed(m) THEN "new" ELSE "none")
    /\ txn.phase \in {"none", "rolled_back", "claim_failed"} =>
          ~staging /\ \A m \in Members : content[m] = "old" /\ image[m] = (IF Boxed(m) THEN "old" ELSE "none")
    /\ txn.phase \in Final => \A m \in Members :
          (Serves(m) => rows[m] = "running") /\ (rows[m] = "running" => runs[m] # "down")
    /\ published = "succeeded" => txn.phase = "committed"
    /\ published = "failed_rolled_back" => txn.phase \in {"none", "rolled_back", "claim_failed"}

\* The panel takes down a world that has served since before the upgrade only when the save it
\* asked for took effect: neither the run, nor an abort, nor a recovery kills the only writer.
WritersSaved ==
    [][\A m \in Members : runs[m] = "first" /\ runs'[m] = "down" => command[m] = "saved"]_groupVars

\* What the panel wrote never stands in its own way: its validators refuse no checkpoint before
\* a terminal transaction, and recovery accepts every record a stop can leave with its leases.
EvidenceAccepted == ~refused

\* Whatever fails and wherever the panel stops, the group ends whole and its records are
\* accepted on the way.
GroupAccounted == GroupSettled /\ EvidenceAccepted
=============================================================================
