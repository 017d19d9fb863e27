-------------------------- MODULE InstanceLifetime --------------------------
(***************************************************************************)
(* The creation and the deletion of worlds (stardew_junimo/                *)
(* instance_provision*.go, instance_delete.go, docker/instance_*.go, the   *)
(* tables instance_provisions and instance_deletions with their triggers). *)
(*                                                                         *)
(* A creation claims the new world and the template it copies from, makes  *)
(* a directory and a volume that carry its token, copies the game, and     *)
(* publishes the world.  If it fails, or at the next boot, everything that *)
(* carries the token goes.  A deletion writes down what belongs to the     *)
(* world and then removes exactly that, over as many attempts as needed.   *)
(* Both are serialized by instanceCreateMu; jobs are not.                  *)
(*                                                                         *)
(* World n is the one with ordinal n.  The checks on paths, labels and     *)
(* other worlds' volumes are not modelled, nor the files of a directory    *)
(* but for its owner.json.                                                 *)
(***************************************************************************)
EXTENDS Naturals

CONSTANTS
    Worlds,          \* how many worlds are ever created
    LifetimeFaults,  \* bound on failing steps and on what outsiders do
    LifetimeStops    \* bound on stops of the panel

ASSUME LifetimeAssumption == Worlds \in Nat \ {0} /\ LifetimeFaults \in Nat /\ LifetimeStops \in Nat

VARIABLES
    db,      \* per world: its row, the creation's claim, the deletion's record
    res,     \* per world: directories, volume, copier and container
    jobs,    \* the active jobs, <<target, kind>>
    next,    \* the next ordinal
    step,    \* what the holder of instanceCreateMu is doing,
    who,     \* for which world,
    cause,   \* and why: create, delete or boot
    todo,    \* the worlds the boot has still to look at
    alive,   \* the panel runs
    slips, stops

lifetimeVars == <<db, res, jobs, next, step, who, cause, todo, alive, slips, stops>>

Ids      == 1..Worlds
Template == 0            \* the default instance
Global   == Worlds + 1   \* a job on no instance
Targets  == 0..(Worlds + 1)

NoRow      == [row |-> "none", claim |-> FALSE, tomb |-> "none", box |-> FALSE, vol |-> FALSE, up |-> FALSE]
NoResource == [stage |-> "none", dir |-> "none", vol |-> "none", copied |-> FALSE,
               copier |-> FALSE, box |-> "none"]

LifetimeInit ==
    /\ db = [i \in Ids |-> NoRow] /\ res = [i \in Ids |-> NoResource]
    /\ jobs = {} /\ next = 1 /\ step = "idle" /\ who = 1 /\ cause = "create" /\ todo = {}
    /\ alive = TRUE /\ slips = 0 /\ stops = 0

-----------------------------------------------------------------------------
(* Steps                                                                   *)

others == <<jobs, next, who, cause, todo, alive, stops>>
D == db[who]
R == res[who]

Works(p) == step' = p /\ UNCHANGED slips
Slips(p) == slips < LifetimeFaults /\ slips' = slips + 1 /\ step' = p

\* A step on the resources, resp. the rows, of the world at hand.
With(r)  == res' = [res EXCEPT ![who] = r] /\ UNCHANGED <<db, others>>
Write(d) == db' = [db EXCEPT ![who] = d] /\ UNCHANGED <<res, others>>
Same     == UNCHANGED <<db, res, others>>

Done == IF cause = "boot" THEN "boot" ELSE "idle"

\* Jobs that a creation from the template, or a deletion, would disturb.
Busy(targets) == \E j \in jobs : j[1] \in targets \cup {Global}

\* The triggers on the jobs table, for a job on t.
Claimed(t) == \E i \in Ids : db[i].claim /\ t \in {i, Template, Global}
Buried(t)  == \/ t \in Ids /\ db[t].tomb # "none"
              \/ t = Global /\ \E i \in Ids : db[i].tomb = "plan"

-----------------------------------------------------------------------------
(* Creating a world (handleInstanceCreate, ProvisionInstance)              *)

\* An ordinal is never given twice; one whose directory exists is skipped.
Reserve ==
    /\ alive /\ step = "idle" /\ next <= Worlds
    /\ next' = next + 1
    /\ IF res[next].dir = "none"
       THEN /\ step' = "gate" /\ who' = next /\ cause' = "create"
            /\ db' = [db EXCEPT ![next].row = "provisioning"]
       ELSE UNCHANGED <<step, who, cause, db>>
    /\ UNCHANGED <<res, jobs, todo, alive, slips, stops>>

Gate == /\ step = "gate"
        /\ \/ Works(IF \E j \in jobs : j[1] = Template THEN "unwind" ELSE "begin")
           \/ Slips("unwind")
        /\ Same

\* Mutant: the claim trusts the earlier look at the jobs.
BeginUnchecked ==
    /\ step = "begin"
    /\ \/ Works("template") /\ Write([D EXCEPT !.claim = TRUE])
       \/ Slips("unwind") /\ Same

\* BeginInstanceProvision, one transaction with the look at jobs and claims.
Begin ==
    /\ step = "begin"
    /\ LET free == ~Busy({who, Template}) /\ ~Claimed(Template) IN
       \/ free /\ Works("template") /\ Write([D EXCEPT !.claim = TRUE])
       \/ ~free /\ Works("unwind") /\ Same
       \/ Slips("unwind") /\ Same

\* The template's installation is verified, ports are chosen.
VerifyTemplate == step = "template" /\ (Works("mkstage") \/ Slips("unwind")) /\ Same

MakeStage  == /\ step = "mkstage"
              /\ \/ Works("owner") /\ With([R EXCEPT !.stage = "empty"])
                 \/ Slips("unwind") /\ Same
WriteOwner == /\ step = "owner"
              /\ \/ Works("publish") /\ With([R EXCEPT !.stage = "owner"])
                 \/ Slips("unwind") /\ Same

\* renameNewGameOwnerNoReplace: a rename that replaces nothing or, where the
\* file system has none, an exclusive mkdir and a rename of owner.json.
PublishDirectory ==
    /\ step = "publish"
    /\ \/ R.dir = "none" /\ Works("prepare") /\ With([R EXCEPT !.stage = "none", !.dir = "owned"])
       \/ R.dir = "none" /\ Works("moveowner") /\ With([R EXCEPT !.dir = "empty"])
       \/ R.dir # "none" /\ Works("unwind") /\ Same
       \/ Slips("unwind") /\ Same
MoveOwner ==
    /\ step = "moveowner"
    /\ \/ Works("prepare") /\ With([R EXCEPT !.stage = "empty", !.dir = "owned"])
       \/ Slips("unwind") /\ \E d \in {"none", "empty"} : With([R EXCEPT !.dir = d])

PrepareWorld ==
    /\ step = "prepare"
    /\ \/ Works("volume") /\ With([R EXCEPT !.dir = "full"])
       \/ Slips("unwind") /\ \E d \in {"owned", "full"} : With([R EXCEPT !.dir = d])

\* ProvisionInstanceGameData: a volume of that name must not exist; since
\* volume create is idempotent, the label is looked at again.
CheckVolume == /\ step = "volume"
               /\ Works(IF R.vol = "none" THEN "mkvolume" ELSE "unwind") \/ Slips("unwind")
               /\ Same
MakeVolume ==
    /\ step = "mkvolume"
    /\ LET made == [R EXCEPT !.vol = IF @ = "none" THEN "own" ELSE @] IN
       \/ Works("verifyvolume") /\ With(made)
       \/ Slips("unwind") /\ (With(made) \/ Same)
VerifyVolume == /\ step = "verifyvolume"
                /\ Works(IF R.vol = "own" THEN "copy" ELSE "unwind") \/ Slips("unwind")
                /\ Same

StartCopier ==
    /\ step = "copy"
    /\ \/ Works("copying") /\ With([R EXCEPT !.copier = TRUE])
       \/ Slips("unwind") /\ (With([R EXCEPT !.copier = TRUE]) \/ Same)

\* The copier has ended; or the request has, before the copier.
CopierReturns == /\ step = "copying"
                 /\ \/ ~R.copier /\ Works("verifycopy")
                    \/ Slips("unwind")
                 /\ Same

\* Mutant: what the copier left is taken for a copy.
VerifyCopyNever == step = "verifycopy" /\ Works("unstage") /\ Same

VerifyCopy == /\ step = "verifycopy"
              /\ Works(IF R.copied THEN "unstage" ELSE "unwind") \/ Slips("unwind")
              /\ Same

DropStage == /\ step = "unstage"
             /\ \/ Works("finish") /\ With([R EXCEPT !.stage = "none"])
                \/ Slips("unwind") /\ Same

\* FinishInstanceProvision(publish); that it is done may not be heard.
Finish ==
    /\ step = "finish"
    /\ LET ready == [D EXCEPT !.row = "ready", !.claim = FALSE] IN
       \/ Works("idle") /\ Write(ready)
       \/ Slips("unwind") /\ (Write(ready) \/ Same)

Provision == \/ Reserve \/ Gate \/ Begin \/ VerifyTemplate \/ MakeStage \/ WriteOwner
             \/ PublishDirectory \/ MoveOwner \/ PrepareWorld \/ CheckVolume \/ MakeVolume
             \/ VerifyVolume \/ StartCopier \/ CopierReturns \/ VerifyCopy \/ DropStage \/ Finish

-----------------------------------------------------------------------------
(* Taking a creation back (cleanupProvisionLocked)                         *)

\* CleanupProvisionedInstance after a failure: without a claim nothing was made.
Unwind == /\ step = "unwind"
          /\ Works(IF D.claim THEN "uncopy" ELSE "release") \/ Slips("uncleaned")
          /\ Same

RemoveCopier == /\ step = "uncopy"
                /\ \/ Works("unvolume") /\ With([R EXCEPT !.copier = FALSE])
                   \/ Slips("uncleaned") /\ Same

\* Mutant: the volume is known by its name.
RemoveVolumeByName ==
    /\ step = "unvolume"
    /\ \/ Works("undir") /\ With([R EXCEPT !.vol = "none", !.copied = FALSE])
       \/ Slips("uncleaned") /\ Same

\* A volume without the token is another's and stays.
RemoveVolume ==
    /\ step = "unvolume"
    /\ \/ /\ Works("undir")
          /\ IF R.vol = "own" THEN With([R EXCEPT !.vol = "none", !.copied = FALSE]) ELSE Same
       \/ Slips("uncleaned") /\ Same

\* removeProvisionDirectory: the directory with the token goes, file by file,
\* in any order; one without owner.json only if it is empty.
RemoveOwned ==
    /\ step = "undir"
    /\ \/ R.dir \in {"none", "empty"} /\ Works("unstaging") /\ With([R EXCEPT !.dir = "none"])
       \/ R.dir \in {"torn", "foreign"} /\ Works("uncleaned") /\ Same
       \/ R.dir = "owned" /\ Works("undone") /\ Same
       \/ R.dir = "full" /\ Works("undone") /\ \E d \in {"full", "torn"} : With([R EXCEPT !.dir = d])
       \/ Slips("uncleaned") /\ Same
RemovedOwned == /\ step = "undone"
                /\ \/ Works("unstaging") /\ With([R EXCEPT !.dir = "none"])
                   \/ Slips("uncleaned") /\ Same

RemoveStage == /\ step = "unstaging"
               /\ \/ Works("forget") /\ With([R EXCEPT !.stage = "none"])
                  \/ Slips("uncleaned") /\ Same

\* FinishInstanceProvision(not publish)
Forget ==
    /\ step = "forget"
    /\ LET gone == [D EXCEPT !.row = "none", !.claim = FALSE] IN
       \/ Works(IF cause = "create" THEN "release" ELSE Done) /\ Write(gone)
       \/ Slips("uncleaned") /\ (Write(gone) \/ Same)

\* DeleteInstanceIfPhase
Release == /\ step = "release"
           /\ \/ Works("idle") /\ Write([D EXCEPT !.row = IF @ = "provisioning" THEN "none" ELSE @])
              \/ Slips("idle") /\ Same

\* The failure is shown, if the row is there and can be written; a deletion
\* only reports it.
Uncleaned ==
    /\ step = "uncleaned"
    /\ \/ /\ cause # "delete" /\ Works(Done)
          /\ Write([D EXCEPT !.row = IF @ = "none" THEN @ ELSE "failed"])
       \/ cause # "delete" /\ Slips(Done) /\ Same
       \/ cause = "delete" /\ Works("idle") /\ Same

TakeBack == \/ Unwind \/ RemoveCopier \/ RemoveVolume \/ RemoveOwned \/ RemovedOwned
            \/ RemoveStage \/ Forget \/ Release \/ Uncleaned

-----------------------------------------------------------------------------
(* Deleting a world (handleInstanceDelete, DeleteInstance)                 *)

Fresh(d, r) == \* the gates of a deletion that has no record yet
    /\ d.tomb = "none" /\ d.row \in {"ready", "failed"} /\ ~d.up
    /\ r.dir = "full" /\ r.box # "running" /\ r.vol # "foreign"

\* A world with a claim is cleaned up instead; a recorded plan is resumed.
Delete(i) ==
    /\ alive /\ step = "idle" /\ db[i].row # "none"
    /\ \/ db[i].claim /\ step' = "uncopy"
       \/ db[i].tomb = "plan" /\ step' = "apply"
       \/ ~db[i].claim /\ Fresh(db[i], res[i]) /\ ~Busy({i}) /\ step' = "record"
    /\ who' = i /\ cause' = "delete"
    /\ UNCHANGED <<db, res, jobs, next, todo, alive, slips, stops>>

\* BeginInstanceDeletion, one transaction with the look at jobs and state.
RecordDeletion ==
    /\ step = "record"
    /\ \/ /\ ~Busy({who}) /\ ~D.up /\ Works("apply")
          /\ Write([D EXCEPT !.row = "deleting", !.tomb = "plan",
                             !.box = (R.box # "none"), !.vol = (R.vol = "own")])
       \/ (Busy({who}) \/ D.up) /\ Works("idle") /\ Same
       \/ Slips("idle") /\ Same

\* ApplyInstanceDeletion: everything is still what the record says, or absent.
Apply == /\ step = "apply"
         /\ LET known == /\ R.box = "none" \/ (D.box /\ R.box = "stopped")
                         /\ D.vol => R.vol # "foreign"
            IN  Works(IF known THEN "rmbox" ELSE "idle") \/ Slips("idle")
         /\ Same
RemoveBox    == /\ step = "rmbox"
                /\ \/ Works("rmvol") /\ With([R EXCEPT !.box = "none"])
                   \/ Slips("idle") /\ Same
DeleteVolume == /\ step = "rmvol"
                /\ \/ /\ Works("remains")
                      /\ With([R EXCEPT !.vol    = IF D.vol /\ @ = "own" THEN "none" ELSE @,
                                        !.copied = IF D.vol THEN FALSE ELSE @])
                   \/ Slips("idle") /\ Same
\* Nothing with the world's labels may be left.
Remains == /\ step = "remains"
           /\ Works(IF R.box = "none" /\ R.vol # "own" THEN "rmdir" ELSE "idle") \/ Slips("idle")
           /\ Same

RemoveWorld ==
    /\ step = "rmdir"
    /\ \/ Works("complete") /\ With([R EXCEPT !.dir = "none"])
       \/ /\ Slips("idle")
          /\ \E d \in (IF R.dir = "none" THEN {"none"} ELSE {R.dir, "torn"}) : With([R EXCEPT !.dir = d])

\* CompleteInstanceDeletion: the tombstone stays.
CompleteDeletion ==
    /\ step = "complete"
    /\ \/ Works("idle") /\ Write([D EXCEPT !.row = "none", !.tomb = "done"])
       \/ Slips("idle") /\ Same

Deletion == \/ \E i \in Ids : Delete(i)
            \/ RecordDeletion \/ Apply \/ RemoveBox \/ DeleteVolume \/ Remains
            \/ RemoveWorld \/ CompleteDeletion

-----------------------------------------------------------------------------
(* Stops and boots of the panel                                            *)

\* A crash; the copier goes on.
PanelStops ==
    /\ alive /\ stops < LifetimeStops /\ stops' = stops + 1
    /\ alive' = FALSE /\ step' = "idle" /\ todo' = {}
    /\ UNCHANGED <<db, res, jobs, next, who, cause, slips>>

\* RecoverInterruptedJobs, then the creations.
PanelBoots ==
    /\ ~alive /\ alive' = TRUE
    /\ jobs' = {} /\ todo' = {i \in Ids : db[i].row # "none"} /\ step' = "boot" /\ cause' = "boot"
    /\ UNCHANGED <<db, res, next, who, slips, stops>>

\* RecoverInstanceProvision of each world in turn.  A reservation without a
\* claim made nothing; a directory in its place is left to a deletion.
RecoverCreation(i) ==
    /\ step = "boot" /\ i \in todo /\ todo' = todo \ {i} /\ who' = i
    /\ \/ db[i].claim /\ Works("uncopy") /\ UNCHANGED db
       \/ /\ ~db[i].claim /\ db[i].row = "provisioning"
          /\ \/ Works("boot") /\ db' = [db EXCEPT ![i].row = IF res[i].dir = "none" THEN "none" ELSE "failed"]
             \/ Slips("boot") /\ UNCHANGED db
       \/ ~db[i].claim /\ db[i].row # "provisioning" /\ Works("boot") /\ UNCHANGED db
    /\ UNCHANGED <<res, jobs, next, cause, alive, stops>>

BootEnds == /\ step = "boot" /\ todo = {} /\ Works("idle") /\ Same

Booting == PanelStops \/ PanelBoots \/ (\E i \in Ids : RecoverCreation(i)) \/ BootEnds

-----------------------------------------------------------------------------
(* Jobs, and the world outside                                             *)

\* The start, stop or update of a world holds runtimeUpdateMu while it is
\* admitted, as creation and deletion do; other jobs do not.
JobStarts(t, k) ==
    /\ alive /\ step # "boot" /\ ~\E j \in jobs : j[1] = t
    /\ ~Claimed(t) /\ ~Buried(t)
    /\ k = "lifecycle" => /\ step \in {"idle", "gate", "unwind", "release", "uncleaned"}
                          /\ t # Global /\ (t \in Ids => db[t].row = "ready")
    /\ t \in Ids => db[t].row # "none"
    /\ jobs' = jobs \cup {<<t, k>>}
    /\ UNCHANGED <<db, res, next, step, who, cause, todo, alive, slips, stops>>

JobEnds(j) == /\ alive /\ j \in jobs /\ jobs' = jobs \ {j}
              /\ UNCHANGED <<db, res, next, step, who, cause, todo, alive, slips, stops>>

\* A lifecycle job starts and stops the server and writes the state.
Server(i) ==
    /\ alive /\ <<i, "lifecycle">> \in jobs
    /\ \E on \in BOOLEAN :
          /\ db' = [db EXCEPT ![i].up = on]
          /\ res' = [res EXCEPT ![i].box = IF on THEN "running" ELSE IF @ = "none" THEN @ ELSE "stopped"]
    /\ UNCHANGED <<jobs, next, step, who, cause, todo, alive, slips, stops>>

\* The server exits; the reconciliation finds out.
WorldServerExits(i) == /\ res[i].box = "running" /\ res' = [res EXCEPT ![i].box = "stopped"]
                  /\ UNCHANGED <<db, jobs, next, step, who, cause, todo, alive, slips, stops>>
StateReconciled(i) ==
    /\ alive /\ step = "idle" /\ db[i].row = "ready" /\ db[i].tomb = "none" /\ ~db[i].claim
    /\ db' = [db EXCEPT ![i].up = (res[i].box = "running")]
    /\ UNCHANGED <<res, jobs, next, step, who, cause, todo, alive, slips, stops>>

\* The copier copies all of the game or fails, and removes itself.
CopierEnds(i) ==
    /\ res[i].copier
    /\ \E ok \in BOOLEAN : res' = [res EXCEPT ![i].copier = FALSE, ![i].copied = ok]
    /\ UNCHANGED <<db, jobs, next, step, who, cause, todo, alive, slips, stops>>

\* Someone else makes a volume or a directory of that name.
Outsider(i) ==
    /\ slips < LifetimeFaults /\ slips' = slips + 1
    /\ \/ res[i].vol = "none" /\ res' = [res EXCEPT ![i].vol = "foreign"]
       \/ res[i].dir = "none" /\ res' = [res EXCEPT ![i].dir = "foreign"]
    /\ UNCHANGED <<db, jobs, next, step, who, cause, todo, alive, stops>>

Surroundings ==
    \/ \E t \in Targets, k \in {"lifecycle", "other"} : JobStarts(t, k)
    \/ \E j \in jobs : JobEnds(j)
    \/ \E i \in Ids : Server(i) \/ WorldServerExits(i) \/ StateReconciled(i) \/ CopierEnds(i) \/ Outsider(i)

LifetimeNext == Provision \/ TakeBack \/ Deletion \/ Booting \/ Surroundings

LifetimeSpec == LifetimeInit /\ [][LifetimeNext]_lifetimeVars

-----------------------------------------------------------------------------
(* Properties                                                              *)

\* A world is in the list as ready only with everything it consists of and
\* nothing of the creation left; one that is gone from the list, by a creation
\* taken back, a boot or a deletion, has left nothing of its own.
WholeOrNothing ==
    \A i \in Ids :
        /\ db[i].row = "ready" =>
              res[i].dir = "full" /\ res[i].vol = "own" /\ res[i].copied
              /\ ~res[i].copier /\ res[i].stage = "none" /\ ~db[i].claim
        /\ db[i].row = "none" =>
              res[i].dir \in {"none", "foreign"} /\ res[i].vol \in {"none", "foreign"}
              /\ ~res[i].copier /\ res[i].stage = "none" /\ res[i].box = "none"

\* No job runs on either side of a copy, nor on a world that is being deleted,
\* nor on no instance in particular meanwhile, whenever the job was started.
ClaimsExcludeJobs ==
    \A j \in jobs : alive =>
        /\ ~Claimed(j[1])
        /\ \A i \in Ids : db[i].tomb = "plan" => j[1] \notin {i, Global}

\* Neither a creation nor a deletion removes what it did not make, except that
\* a recorded deletion removes the directory at the world's path as it is.
OthersKept ==
    [][\A i \in Ids :
          /\ res[i].vol = "foreign" => res'[i].vol = "foreign"
          /\ res[i].dir = "foreign" => res'[i].dir = "foreign" \/ db[i].tomb = "plan"]_lifetimeVars

Steps == {"idle", "gate", "begin", "template", "mkstage", "owner", "publish", "moveowner", "prepare",
          "volume", "mkvolume", "verifyvolume", "copy", "copying", "verifycopy", "unstage", "finish",
          "unwind", "uncopy", "unvolume", "undir", "undone", "unstaging", "forget", "release",
          "uncleaned", "record", "apply", "rmbox", "rmvol", "remains", "rmdir", "complete", "boot"}

LifetimeTypeOK ==
    /\ db \in [Ids -> [row: {"none", "provisioning", "ready", "failed", "deleting"}, claim: BOOLEAN,
                       tomb: {"none", "plan", "done"}, box: BOOLEAN, vol: BOOLEAN, up: BOOLEAN]]
    /\ res \in [Ids -> [stage: {"none", "empty", "owner"},
                        dir: {"none", "empty", "owned", "full", "torn", "foreign"},
                        vol: {"none", "own", "foreign"}, copied: BOOLEAN, copier: BOOLEAN,
                        box: {"none", "stopped", "running"}]]
    /\ jobs \subseteq Targets \X {"lifecycle", "other"}
    /\ next \in 1..(Worlds + 1) /\ step \in Steps /\ who \in Ids
    /\ cause \in {"create", "delete", "boot"} /\ todo \subseteq Ids /\ alive \in BOOLEAN
    /\ slips \in 0..LifetimeFaults /\ stops \in 0..LifetimeStops
=============================================================================
