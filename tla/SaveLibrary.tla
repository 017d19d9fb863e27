---------------------------- MODULE SaveLibrary ----------------------------
(***************************************************************************)
(* The saved worlds of one instance and their backups (saves.go, the save   *)
(* handlers of lifecycle_handlers.go, the backup of the restart schedule).  *)
(*                                                                         *)
(* Requests that change a save or a backup run under runtimeUpdateMu, one   *)
(* at a time, and not beside a lifecycle job.  The restore with a restart   *)
(* is such a job and holds no mutex; the maintenance, which turns the save  *)
(* events of the game into a backup per game day, holds it, and runs beside *)
(* the job; the schedule's backup holds nothing.  The game writes on        *)
(* whatever the panel does.                                                 *)
(*                                                                         *)
(* A save is the number of the game's write it holds and the game day of    *)
(* that write.  A backup file is named after its kind, its save and a       *)
(* second, or the game day.                                                 *)
(***************************************************************************)
EXTENDS Naturals, Sequences, FiniteSets

CONSTANTS GameSaves,        \* bound: writes of the game
          LibraryRequests,  \* bound: requests
          LibraryFaults,    \* bound: steps that fail
          LibraryStops      \* bound: deaths of the panel

ASSUME LibraryAssumption == {GameSaves, LibraryRequests, LibraryFaults, LibraryStops} \subseteq Nat

Farms == {"a", "b"}
Gone  == [take |-> 0, day |-> 0]
Part  == [take |-> 1, day |-> 0]   \* a folder removed in part
Whole(c) == c.take > 1

VARIABLES
    world,      \* by farm: what its folder under Saves/ holds
    pointer,    \* SaveNameToLoad: the save the next start loads
    zips,       \* the files in backups/saves
    saveEvents, \* the control mod's files in save-events, oldest first
    policy,     \* policy.json: whether to back up, and how many game days to keep
    loaded,     \* the save the running server has loaded, default (a new one), or none
    played,     \* the game day it is on; 0 for what it cannot play
    second,     \* the clock, as far as the names of backups show it
    asked,      \* the request that has made its checks and waits for the mutex
    act,        \* what holds the mutex, or the restore_restart job
    maint,      \* RunBackupMaintenance
    cron,       \* the schedule's backup before a shutdown
    taken,      \* how many writes the game has made
    requests, lfaults, lstops,
    removed,    \* writes the panel removed from Saves/
    waived      \* writes whose backup an administrator deleted or replaced within its second,
                \* and writes the game made to a save on its way out

diskVars == <<world, pointer, zips, saveEvents, policy>>
gameVars == <<loaded, played, taken>>
ghosts   == <<removed, waived>>
libraryVars == <<diskVars, gameVars, second, asked, act, maint, cron, requests, lfaults, lstops, ghosts>>

NoFile   == [kind |-> "none", of |-> "a", stamp |-> 0]   \* a backup by its name
NoAsk    == [kind |-> "none", of |-> "a", seen |-> FALSE]
NoAct    == [at |-> "idle", job |-> FALSE, of |-> "a", name |-> NoFile, stage |-> Gone, up |-> FALSE, over |-> FALSE]
NoMaint  == [at |-> "idle", todo |-> <<>>, read |-> Gone]
NoCron   == [at |-> "idle", of |-> "a", read |-> Gone]

LibraryInit ==
    /\ world = [f \in Farms |-> [take |-> IF f = "a" THEN 2 ELSE 3, day |-> 1]]
    /\ pointer = "a" /\ zips = {} /\ saveEvents = <<>>
    /\ policy = [on |-> TRUE, keep |-> 1]
    /\ loaded = "none" /\ played = 0 /\ taken = 3 /\ second = 0
    /\ asked = NoAsk /\ act = NoAct /\ maint = NoMaint /\ cron = NoCron
    /\ requests = 0 /\ lfaults = 0 /\ lstops = 0 /\ removed = {} /\ waived = {}

LFault == lfaults < LibraryFaults /\ lfaults' = lfaults + 1
Job == act.job
\* findActiveLifecycleJob and runtimeUpdateMu, for one that would enter
LibraryFree == (act.at = "idle" \/ Job) /\ maint.at = "idle"
Owned == LibraryFree /\ ~Job                \* WithMutationOwnership
LibraryOffline == Owned /\ loaded = "none"   \* WithOfflineMutation
ValidateSaveExists(f) == world[f] # Gone
Named(n) == {z \in zips : [kind |-> z.kind, of |-> z.of, stamp |-> z.stamp] = n}
File(n, c) == [kind |-> n.kind, of |-> n.of, stamp |-> n.stamp, take |-> c.take, day |-> c.day]
Content(z) == [take |-> z.take, day |-> z.day]
Takes(s) == {z.take : z \in s}

-----------------------------------------------------------------------------
(* Backups                                                                  *)

\* backupSaveAs: a temporary file, then the old one goes and the new one takes its name
BackupSaveAs(n, c, ok, bad) ==
    LET without == zips \ Named(n) IN
    \/ zips' = without \cup {File(n, c)} /\ ok /\ UNCHANGED lfaults
    \/ LFault /\ zips' \in {zips, without} /\ bad
\* a name of the present second, which may be the second of the backup before
BackupUnique(kind, f, c, ok, bad) ==
    /\ second' \in {second, second + 1}
    /\ BackupSaveAs([kind |-> kind, of |-> f, stamp |-> second'], c, ok, bad)
    /\ waived' = waived \cup Takes(zips \ zips')

\* what is left of the automatic backups of a save
Keeps(f) ==
    LET days == {z.day : z \in {y \in zips : y.kind = "auto" /\ y.of = f}} IN
    {z \in zips : (z.kind = "auto" /\ z.of = f) => Cardinality({d \in days : d > z.day}) < policy.keep}
PruneAuto(f, ok, bad) ==
    \/ zips' = Keeps(f) /\ ok /\ UNCHANGED lfaults
    \/ LFault /\ zips' = zips /\ bad

-----------------------------------------------------------------------------
(* Requests                                                                 *)

Request == requests < LibraryRequests /\ requests' = requests + 1
Here == UNCHANGED <<gameVars, cron, lstops>>
Disk == UNCHANGED <<world, pointer, saveEvents, policy>>

\* SetActiveSave; a write cut short leaves no readable pointer
SelectSave(f) ==
    /\ Request /\ LibraryOffline /\ ValidateSaveExists(f)
    /\ \/ pointer' = f /\ UNCHANGED lfaults
       \/ LFault /\ pointer' = "none"
    /\ Here /\ UNCHANGED <<world, zips, saveEvents, policy, second, asked, act, maint, ghosts>>
BackupCreate(f) ==
    /\ Request /\ Owned /\ ValidateSaveExists(f)
    \* the game may write while the folder is read
    /\ \E c \in {world[f]} \cup (IF loaded = f THEN {Part} ELSE {}) : BackupUnique("manual", f, c, TRUE, TRUE)
    /\ Here /\ Disk /\ UNCHANGED <<asked, act, maint, removed>>
WritePolicy ==
    /\ Request /\ Owned
    /\ \E on \in BOOLEAN, keep \in 1..2 : policy' = [on |-> on, keep |-> keep]
    /\ Here /\ UNCHANGED <<world, pointer, zips, saveEvents, second, asked, act, maint, lfaults, ghosts>>
DeleteBackup(z) ==
    /\ Request /\ Owned
    /\ zips' = zips \ {z} /\ waived' = waived \cup {z.take}
    /\ Here /\ Disk /\ UNCHANGED <<second, asked, act, maint, lfaults, removed>>

\* The checks of a handler before it asks for the mutex: the state of the instance, or the save.
AskDelete(f) ==
    /\ Request /\ asked = NoAsk
    /\ asked' = [kind |-> "delete", of |-> f, seen |-> loaded # "none"]
    /\ Here /\ Disk /\ UNCHANGED <<zips, second, act, maint, lfaults, ghosts>>
\* handleInstanceStart and the schedule's runStartup
AskStart ==
    /\ Request /\ asked = NoAsk
    /\ pointer # "none" /\ ValidateSaveExists(pointer)
    /\ asked' = [NoAsk EXCEPT !.kind = "start"]
    /\ Here /\ Disk /\ UNCHANGED <<zips, second, act, maint, lfaults, ghosts>>
\* handleInstanceRestart checks nothing of the sort
AskRestart ==
    /\ Request /\ asked = NoAsk
    /\ asked' = [NoAsk EXCEPT !.kind = "restart"]
    /\ Here /\ Disk /\ UNCHANGED <<zips, second, act, maint, lfaults, ghosts>>

-----------------------------------------------------------------------------
(* The server.  Its start and its stop are jobs; what else they do is in    *)
(* InstanceAdmission.                                                       *)

Loads(f) == IF f # "none" /\ ValidateSaveExists(f) THEN f ELSE "default"
Comes == loaded' = Loads(pointer) /\ played' = (IF Loads(pointer) = "default" THEN 0 ELSE world[pointer].day)
StartServer ==
    /\ asked.kind \in {"start", "restart"} /\ asked' = NoAsk
    /\ IF Owned /\ (asked.kind = "restart" \/ loaded = "none") THEN Comes ELSE UNCHANGED <<loaded, played>>
    /\ Disk /\ UNCHANGED <<taken, zips, second, act, maint, cron, requests, lfaults, lstops, ghosts>>
StopServer ==
    /\ Owned /\ loaded # "none" /\ loaded' = "none" /\ played' = 0
    /\ Disk /\ UNCHANGED <<taken, zips, second, asked, act, maint, cron, requests, lfaults, lstops, ghosts>>
\* the end of a game day: the save is written, then the control mod notes it; the handler of a
\* deletion looked at the server before it had the mutex, so the save may be on its way out
GameSaved ==
    /\ played > 0 /\ taken < GameSaves + 3 /\ taken' = taken + 1 /\ played' = played + 1
    /\ world' = [world EXCEPT ![loaded] = [take |-> taken', day |-> played']]
    /\ saveEvents' = Append(saveEvents, loaded)
    /\ waived' = IF act.of = loaded /\ act.at \in {"clear", "remove"} THEN waived \cup {taken'} ELSE waived
    /\ UNCHANGED <<pointer, zips, policy, loaded, second, asked, act, maint, cron, requests, lfaults, lstops, removed>>

-----------------------------------------------------------------------------
(* DeleteSaveWithBackup                                                     *)

Act(step) == act.at = step /\ UNCHANGED <<taken, saveEvents, policy, asked, maint, cron, requests, lstops>>
Then(step) == act' = [act EXCEPT !.at = step]
Leaves == act' = NoAct
Game == UNCHANGED <<loaded, played>>

DeleteEnter ==
    /\ asked.kind = "delete" /\ LibraryFree /\ asked' = NoAsk
    /\ IF Owned /\ ValidateSaveExists(asked.of) /\ ~(pointer = asked.of /\ asked.seen)
       THEN act' = [NoAct EXCEPT !.at = "predelete", !.of = asked.of] ELSE UNCHANGED act
    /\ Here /\ Disk /\ UNCHANGED <<zips, second, maint, requests, lfaults, ghosts>>
BackupPreDelete ==
    /\ Act("predelete")
    /\ BackupUnique("predelete", act.of, world[act.of], Then("clear"), Leaves)
    /\ Game /\ UNCHANGED <<world, pointer, removed>>
\* the pointer goes first, so that a failure there ends the deletion
ClearPointer ==
    /\ Act("clear")
    /\ IF pointer = act.of
       THEN \/ pointer' = "none" /\ act' = [act EXCEPT !.at = "remove", !.up = TRUE] /\ UNCHANGED lfaults
            \/ LFault /\ Leaves /\ UNCHANGED pointer
       ELSE Then("remove") /\ UNCHANGED <<pointer, lfaults>>
    /\ Game /\ UNCHANGED <<world, zips, second, ghosts>>

\* os.RemoveAll: all of it, or what it got to
RemoveAll(f, ok, bad) ==
    \/ world' = [world EXCEPT ![f] = Gone] /\ ok /\ UNCHANGED lfaults
    \/ LFault /\ world' \in {world, [world EXCEPT ![f] = Part]} /\ bad
Drops(f) == removed' = removed \cup {c \in {world[f].take} : Whole(world[f]) /\ world'[f] # world[f]}
DeleteSave ==
    /\ Act("remove")
    /\ RemoveAll(act.of, UNCHANGED pointer, pointer' = IF act.up THEN act.of ELSE pointer)
    /\ Drops(act.of) /\ Leaves
    /\ Game /\ UNCHANGED <<zips, second, waived>>

-----------------------------------------------------------------------------
(* RestoreBackup, and the job around it.                                    *)

\* a failure ends the request, or the job with the server down
RestoreFails == Leaves
\* of a backup that is opened and checked: its save is the folder it holds
RestoreOffline(z) ==
    /\ Request /\ LibraryOffline
    /\ \E over \in BOOLEAN :
          act' = [NoAct EXCEPT !.at = "open", !.of = z.of, !.over = over,
                               !.name = [kind |-> z.kind, of |-> z.of, stamp |-> z.stamp]]
    /\ Here /\ Disk /\ UNCHANGED <<zips, second, asked, maint, lfaults, ghosts>>
\* the handler saw a server running, the job looks for itself
RestoreBackupWithRestart(z) ==
    /\ Request /\ Owned
    /\ \E over \in BOOLEAN :
          act' = [at |-> IF loaded = "none" THEN "open" ELSE "stop", job |-> TRUE, of |-> z.of,
                  name |-> [kind |-> z.kind, of |-> z.of, stamp |-> z.stamp], stage |-> Gone,
                  up |-> loaded # "none", over |-> over]
    /\ Here /\ Disk /\ UNCHANGED <<zips, second, asked, maint, lfaults, ghosts>>
RestoreStops ==
    /\ Act("stop")
    /\ \/ Then("open") /\ loaded' = "none" /\ played' = 0 /\ UNCHANGED lfaults
       \/ LFault /\ RestoreFails /\ Game
    /\ UNCHANGED <<world, pointer, zips, second, ghosts>>
\* Mutant: the protection is left to the deletion.
OpenUnprotected ==
    /\ Act("open")
    /\ IF Named(act.name) = {} \/ (ValidateSaveExists(act.of) /\ ~act.over) THEN RestoreFails ELSE Then("extract")
    /\ Game /\ UNCHANGED <<world, pointer, zips, second, lfaults, ghosts>>

OpenBackup ==
    /\ Act("open")
    /\ IF Named(act.name) = {} \/ (ValidateSaveExists(act.of) /\ ~act.over) THEN RestoreFails
       ELSE Then(IF ValidateSaveExists(act.of) THEN "protect" ELSE "extract")
    /\ Game /\ UNCHANGED <<world, pointer, zips, second, lfaults, ghosts>>
BackupPreRestore ==
    /\ Act("protect")
    /\ BackupUnique("prerestore", act.of, world[act.of], Then("extract"), RestoreFails)
    /\ Game /\ UNCHANGED <<world, pointer, removed>>
\* the file is opened again by its name, and unpacked beside the saves
ExtractBackup ==
    /\ Act("extract")
    /\ \/ \E z \in Named(act.name) :
             act' = [act EXCEPT !.at = "replace", !.stage = Content(z)] /\ UNCHANGED lfaults
       \/ Named(act.name) = {} /\ RestoreFails /\ UNCHANGED lfaults
       \/ (\E z \in Named(act.name) : ~Whole(Content(z))) /\ RestoreFails /\ UNCHANGED lfaults
       \/ LFault /\ RestoreFails
    /\ Game /\ UNCHANGED <<world, pointer, zips, second, ghosts>>
RemoveReplaced ==
    /\ Act("replace")
    /\ RemoveAll(act.of, Then("rename"), RestoreFails) /\ Drops(act.of)
    /\ Game /\ UNCHANGED <<pointer, zips, second, waived>>
MoveRestored ==
    /\ Act("rename")
    /\ \/ world' = [world EXCEPT ![act.of] = act.stage] /\ UNCHANGED lfaults
          /\ IF Job /\ act.up THEN Then("start") ELSE Leaves
       \/ LFault /\ RestoreFails /\ UNCHANGED world
    /\ Game /\ UNCHANGED <<pointer, zips, second, ghosts>>
RestoreStarts ==
    /\ Act("start") /\ Leaves
    /\ \/ Comes /\ UNCHANGED lfaults
       \/ LFault /\ Game
    /\ UNCHANGED <<world, pointer, zips, second, ghosts>>

RestoreSteps == RestoreStops \/ OpenBackup \/ BackupPreRestore \/ ExtractBackup \/ RemoveReplaced \/ MoveRestored \/ RestoreStarts

-----------------------------------------------------------------------------
(* RunBackupMaintenance, of the scheduler and of the list of backups.       *)

Maint(step) == maint.at = step /\ UNCHANGED <<gameVars, world, pointer, policy, second, asked, act, cron, requests, lstops, removed>>
MaintThen(step) == maint' = [maint EXCEPT !.at = step]
GivesUp == maint' = NoMaint

MaintBegins ==
    /\ LibraryFree /\ maint.at = "idle" /\ saveEvents # <<>>
    /\ maint' = [NoMaint EXCEPT !.at = "event", !.todo = saveEvents]
    /\ UNCHANGED <<diskVars, gameVars, second, asked, act, cron, requests, lfaults, lstops, ghosts>>
\* a save that is gone, or whose day cannot be read, ends the run before the event is removed
ReadSaveEvent ==
    /\ Maint("event")
    /\ IF maint.todo = <<>> THEN GivesUp
       ELSE LET c == world[Head(maint.todo)] IN
            IF ~policy.on THEN MaintThen("consume")
            ELSE IF Whole(c) THEN maint' = [maint EXCEPT !.at = "zip", !.read = c]
            ELSE GivesUp
    /\ UNCHANGED <<zips, saveEvents, lfaults, waived>>
\* the folder may be on its way out while the zip is written
BackupAutoGameDay ==
    LET f == Head(maint.todo)
        name == [kind |-> "auto", of |-> f, stamp |-> maint.read.day] IN
    /\ Maint("zip")
    /\ \/ BackupSaveAs(name, IF world[f] = maint.read THEN maint.read ELSE Part, MaintThen("prune"), GivesUp)
       \/ world[f] # maint.read /\ GivesUp /\ UNCHANGED <<zips, lfaults>>
    /\ UNCHANGED <<saveEvents, waived>>
PruneAutoGameDayBackups ==
    /\ Maint("prune")
    /\ PruneAuto(Head(maint.todo), MaintThen("consume"), GivesUp)
    /\ UNCHANGED <<saveEvents, waived>>
ConsumeEvent ==
    /\ Maint("consume") /\ maint' = [maint EXCEPT !.at = "event", !.todo = Tail(@)]
    /\ \/ saveEvents' = Tail(saveEvents) /\ UNCHANGED lfaults
       \/ LFault /\ UNCHANGED saveEvents
    /\ UNCHANGED <<zips, waived>>

MaintSteps == MaintBegins \/ ReadSaveEvent \/ BackupAutoGameDay \/ PruneAutoGameDayBackups \/ ConsumeEvent

-----------------------------------------------------------------------------
(* runShutdown of the restart schedule: its guard, its backup, its stop.    *)

Cron(step) == cron.at = step /\ UNCHANGED <<diskVars, taken, asked, act, maint, requests, lstops, removed>>
ScheduleShutdown ==
    /\ cron.at = "idle" /\ Request /\ Owned /\ loaded # "none"
    /\ cron' = IF pointer # "none" /\ ValidateSaveExists(pointer)
               THEN [at |-> "zip", of |-> pointer, read |-> world[pointer]] ELSE cron
    /\ UNCHANGED <<diskVars, gameVars, second, asked, act, maint, lfaults, lstops, ghosts>>
BackupActiveSave ==
    LET now == world[cron.of] IN
    /\ cron.at = "zip"
    /\ BackupUnique("manual", cron.of, IF now = cron.read THEN now ELSE Part,
                    cron' = [cron EXCEPT !.at = "stop"], cron' = NoCron)
    /\ Disk /\ UNCHANGED <<gameVars, asked, act, maint, requests, lstops, removed>>
ScheduleStop ==
    /\ Cron("stop") /\ LibraryFree /\ cron' = NoCron
    /\ IF Job THEN Game ELSE loaded' = "none" /\ played' = 0
    /\ UNCHANGED <<second, lfaults, waived>>

PanelDies ==
    /\ lstops < LibraryStops /\ lstops' = lstops + 1
    /\ asked' = NoAsk /\ act' = NoAct /\ maint' = NoMaint /\ cron' = NoCron
    \* a removal that was under way has removed some of it
    /\ IF act.at \in {"remove", "replace"} /\ ValidateSaveExists(act.of)
       THEN world' \in {world, [world EXCEPT ![act.of] = Part]} ELSE UNCHANGED world
    /\ Drops(act.of)
    /\ UNCHANGED <<pointer, zips, saveEvents, policy, gameVars, second, requests, lfaults, waived>>

LibraryNext ==
    \/ \E f \in Farms : SelectSave(f) \/ BackupCreate(f) \/ AskDelete(f)
    \/ WritePolicy \/ AskStart \/ AskRestart \/ StartServer \/ StopServer \/ GameSaved
    \/ \E z \in zips : DeleteBackup(z) \/ RestoreOffline(z) \/ RestoreBackupWithRestart(z)
    \/ DeleteEnter \/ BackupPreDelete \/ ClearPointer \/ DeleteSave
    \/ RestoreSteps \/ MaintSteps
    \/ ScheduleShutdown \/ BackupActiveSave \/ ScheduleStop \/ PanelDies

LibrarySpec == LibraryInit /\ [][LibraryNext]_libraryVars

-----------------------------------------------------------------------------
\* Every variable has its type.
LibraryTypeOK ==
    /\ \A f \in Farms : world[f].take \in 0..(GameSaves + 3)
    /\ pointer \in Farms \cup {"none"} /\ loaded \in Farms \cup {"default", "none"}
    /\ \A z \in zips : z.kind \in {"manual", "predelete", "prerestore", "auto"} /\ z.of \in Farms
    /\ policy.on \in BOOLEAN /\ policy.keep \in 1..2
    /\ asked.kind \in {"none", "delete", "start", "restart"}
    /\ maint.at \in {"idle", "event", "zip", "prune", "consume"} /\ cron.at \in {"idle", "zip", "stop"}
    /\ requests \in 0..LibraryRequests /\ lfaults \in 0..LibraryFaults /\ lstops \in 0..LibraryStops

\* What the panel removes or replaces is never lost: every write of the game it took out of Saves/
\* is in a backup, unless an administrator deleted that backup or replaced it within its second,
\* or the game made the write while the deletion it had missed was under way.
WorldKept == removed \subseteq waived \cup Takes(zips)

\* The server is never brought up without the selected save.
ServerHasWorld == loaded # "default"
=============================================================================
