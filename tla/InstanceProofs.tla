--------------------------- MODULE InstanceProofs ---------------------------
(***************************************************************************)
(* What holds of one instance: of the admission of jobs to it, for every   *)
(* set of job rows (the gates and the mutex alone carry that: nothing is   *)
(* assumed of the order or the speed of the runners, the reconciler or the *)
(* container); of its saves and backups, for any number of writes of the   *)
(* game, requests, failing steps and deaths of the panel; of its Mods, for *)
(* the same; and of the commands to its game, for any commands, scans and  *)
(* deaths of the game.                                                     *)
(***************************************************************************)
EXTENDS MCInstance, NewGameProofs, TLAPS

-----------------------------------------------------------------------------
(* What the two shapes of step do to the rows                              *)

\* An inserted row changes that row only, and no instance being deleted.
LEMMA RowEffect ==
    ASSUME TypeOK, NEW j \in Jobs, NEW kind \in Kinds, NEW first \in Stages,
           Row(j, kind, first)
    PROVE  /\ job[j] = "none" /\ ~deleting
           /\ job'[j] = kind /\ stage'[j] = first
           /\ \A k \in Jobs \ {j} : job'[k] = job[k] /\ stage'[k] = stage[k]
           /\ job' \in [Jobs -> Kinds \cup {"none"}]
           /\ stage' \in [Jobs -> Stages]
  BY DEF Row, TypeOK

\* Ending a job changes its row only.
LEMMA EndEffect ==
    ASSUME TypeOK, NEW j \in Jobs, End(j)
    PROVE  /\ job'[j] = "none" /\ stage'[j] = "idle"
           /\ \A k \in Jobs \ {j} : job'[k] = job[k] /\ stage'[k] = stage[k]
           /\ job' \in [Jobs -> Kinds \cup {"none"}]
           /\ stage' \in [Jobs -> Stages]
  BY DEF End, TypeOK, Stages

\* Advancing a job changes its stage only.
LEMMA AdvanceEffect ==
    ASSUME TypeOK, NEW j \in Jobs, NEW next \in Stages, Advance(j, next)
    PROVE  /\ job' = job /\ stage'[j] = next
           /\ \A k \in Jobs \ {j} : stage'[k] = stage[k]
           /\ stage' \in [Jobs -> Stages]
  BY DEF Advance, TypeOK

\* A runner acts for an active row, keeps its kind or ends it, and leaves the
\* rows of the others alone.
LEMMA RunEffect ==
    ASSUME TypeOK, NEW j \in Jobs, Run(j)
    PROVE  /\ job[j] # "none"
           /\ job'[j] \in {job[j], "none"}
           /\ \A k \in Jobs \ {j} : job'[k] = job[k] /\ stage'[k] = stage[k]
           /\ UNCHANGED <<deleting, cleared, seen>>
<1> USE DEF Stages, markers
<1>1. job[j] = "none" => stage[j] = "idle"  BY DEF TypeOK
<1>2. CASE Prepare(j)  BY <1>1, <1>2, EndEffect, AdvanceEffect DEF Prepare
<1>3. CASE RestartBegins(j)  BY <1>1, <1>3, AdvanceEffect DEF RestartBegins
<1>4. CASE Recreate(j)  BY <1>1, <1>4, EndEffect, AdvanceEffect DEF Recreate
<1>5. CASE Ready(j) \/ NotReady(j)  BY <1>1, <1>5, EndEffect DEF Ready, NotReady
<1>6. CASE StopBegins(j)  BY <1>1, <1>6, AdvanceEffect DEF StopBegins
<1>7. CASE StopEnds(j)  BY <1>1, <1>7, EndEffect, AdvanceEffect DEF StopEnds
<1>8. CASE RestoreFiles(j)  BY <1>1, <1>8, EndEffect, AdvanceEffect DEF RestoreFiles
<1>9. CASE Rollback(j) \/ EndsAlone(j)  BY <1>1, <1>9, EndEffect DEF Rollback, EndsAlone
<1>10. CASE ApplyStops(j)  BY <1>1, <1>10, AdvanceEffect DEF ApplyStops
<1>11. CASE ApplyVerifies(j)  BY <1>1, <1>11 DEF ApplyVerifies
<1>12. CASE ApplyEnds(j)  BY <1>1, <1>12, EndEffect DEF ApplyEnds
<1>13. CASE InstallRuns(j)  BY <1>13, EndEffect DEF InstallRuns
<1>14. CASE ImportMaintains(j)  BY <1>1, <1>14, EndEffect, AdvanceEffect DEF ImportMaintains
<1>15. CASE ImportEnds(j)  BY <1>1, <1>15, EndEffect DEF ImportEnds
<1>16. CASE ModLocks(j)  BY <1>1, <1>16, AdvanceEffect DEF ModLocks
<1>17. CASE ModEnds(j)  BY <1>1, <1>17, EndEffect DEF ModEnds
<1> QED BY <1>2, <1>3, <1>4, <1>5, <1>6, <1>7, <1>8, <1>9, <1>10, <1>11, <1>12,
     <1>13, <1>14, <1>15, <1>16, <1>17 DEF Run

\* The steps of neither kind leave the rows alone.
Aside ==
    \/ \E request \in {"mod", "update", "auth", "farmhand"} : Clear(request)
    \/ DeleteInstance \/ ImportRecovers
    \/ ReconcileReads \/ ReconcileWrites \/ ReconcileGivesUp \/ OrphanStops
    \/ RecheckFiles \/ ServerExits

LEMMA AsideEffect == Aside => UNCHANGED <<job, stage, owner, lock>>
  BY DEF Aside, Clear, DeleteInstance, ImportRecovers, ReconcileReads,
     ReconcileWrites, ReconcileGivesUp, OrphanStops, RecheckFiles,
     ServerExits, markers

LEMMA NextCases ==
    ASSUME [Next]_vars
    PROVE  \/ \E j \in Jobs : Admit(j)
           \/ \E j \in Jobs : Run(j)
           \/ Aside \/ UNCHANGED vars
  BY DEF Next, Aside

-----------------------------------------------------------------------------
(* Type correctness                                                        *)

LEMMA TypeInit == Init => TypeOK
  BY NoneAssumption DEF Init, TypeOK, States, Stages, Kinds, Lifecycle, Updates, Downloads

LEMMA TypeAdmit ==
    ASSUME TypeOK, NEW j \in Jobs, Admit(j)
    PROVE  TypeOK'
<1> USE DEF Stages, Kinds, Lifecycle, Updates, Downloads, markers
<1>1. CASE Start(j)
  <2>1. Row(j, "start", "prepare")  BY <1>1 DEF Start
  <2> QED BY <1>1, <2>1, RowEffect DEF Start, TypeOK
<1>2. CASE StartNewGame(j)
  <2>1. Row(j, "new_game", "prepare") \/ Row(j, "new_game", "refused")  BY <1>2 DEF StartNewGame
  <2> QED BY <1>2, <2>1, RowEffect DEF StartNewGame, TypeOK
<1>3. CASE Resume(j)
  <2>1. Row(j, "new_game", "prepare") \/ Row(j, "rollback", "begun")  BY <1>3 DEF Resume
  <2> QED BY <1>3, <2>1, RowEffect DEF Resume, TypeOK
<1>4. CASE StopRestartRestore(j)
  <2>1. \/ Row(j, "stop", "stop") \/ Row(j, "restart", "restart")
        \/ Row(j, "restore", "stop") \/ Row(j, "restore", "files")
    BY <1>4 DEF StopRestartRestore
  <2> QED BY <1>4, <2>1, RowEffect DEF StopRestartRestore, TypeOK
<1>5. CASE StartUpdate(j)
  <2>1. Row(j, "dry_run", "begun") \/ Row(j, "apply", "begun")  BY <1>5 DEF StartUpdate
  <2> QED BY <1>5, <2>1, RowEffect DEF StartUpdate, TypeOK
<1>6. CASE Install(j)
  <2>1. Row(j, "install", "begun")  BY <1>6 DEF Install
  <2> QED BY <1>6, <2>1, RowEffect DEF Install, TypeOK
<1>7. CASE Authorize(j)
  <2>1. Row(j, "auth", "begun")  BY <1>7 DEF Authorize
  <2> QED BY <1>7, <2>1, RowEffect DEF Authorize, TypeOK
<1>8. CASE ImportSaveAndStart(j)
  <2>1. CASE Row(j, "import", "begun") /\ journal' = "bound"
    BY <1>8, <2>1, RowEffect DEF ImportSaveAndStart, TypeOK
  <2>2. CASE journal' = "unbound" /\ UNCHANGED <<job, stage>>
    BY <1>8, <2>2 DEF ImportSaveAndStart, TypeOK
  <2> QED BY <1>8, <2>1, <2>2 DEF ImportSaveAndStart
<1>9. CASE DeleteFarmhand(j)
  <2>1. Row(j, "farmhand", "begun")  BY <1>9 DEF DeleteFarmhand
  <2> QED BY <1>9, <2>1, RowEffect DEF DeleteFarmhand, TypeOK
<1>10. CASE InstallMod(j)
  <2>1. Row(j, "mod", "begun")  BY <1>10 DEF InstallMod
  <2> QED BY <1>10, <2>1, RowEffect DEF InstallMod, TypeOK
<1> QED BY <1>1, <1>2, <1>3, <1>4, <1>5, <1>6, <1>7, <1>8, <1>9, <1>10 DEF Admit

LEMMA TypeRun ==
    ASSUME TypeOK, NEW j \in Jobs, Run(j)
    PROVE  TypeOK'
<1> USE DEF Stages, States, markers
<1>1. CASE Prepare(j)  BY <1>1, EndEffect, AdvanceEffect DEF Prepare, NewGameFails, TypeOK
<1>2. CASE RestartBegins(j)  BY <1>2, AdvanceEffect DEF RestartBegins, TypeOK
<1>3. CASE Recreate(j)  BY <1>3, EndEffect, AdvanceEffect DEF Recreate, NewGameFails, TypeOK
<1>4. CASE Ready(j)  BY <1>4, EndEffect DEF Ready, TypeOK
<1>5. CASE NotReady(j)  BY <1>5, EndEffect DEF NotReady, NewGameFails, TypeOK
<1>6. CASE StopBegins(j)  BY <1>6, AdvanceEffect DEF StopBegins, TypeOK
<1>7. CASE StopEnds(j)  BY <1>7, EndEffect, AdvanceEffect DEF StopEnds, TypeOK
<1>8. CASE RestoreFiles(j)  BY <1>8, EndEffect, AdvanceEffect DEF RestoreFiles, TypeOK
<1>9. CASE Rollback(j)  BY <1>9, EndEffect DEF Rollback, TypeOK
<1>10. CASE EndsAlone(j)  BY <1>10, EndEffect DEF EndsAlone, TypeOK
<1>11. CASE ApplyStops(j)  BY <1>11, AdvanceEffect DEF ApplyStops, TypeOK
<1>12. CASE ApplyVerifies(j)  BY <1>12 DEF ApplyVerifies, TypeOK
<1>13. CASE ApplyEnds(j)  BY <1>13, EndEffect DEF ApplyEnds, TypeOK
<1>14. CASE InstallRuns(j)  BY <1>14, EndEffect DEF InstallRuns, TypeOK
<1>15. CASE ImportMaintains(j)  BY <1>15, EndEffect, AdvanceEffect DEF ImportMaintains, TypeOK
<1>16. CASE ImportEnds(j)  BY <1>16, EndEffect DEF ImportEnds, TypeOK
<1>17. CASE ModLocks(j)  BY <1>17, AdvanceEffect DEF ModLocks, TypeOK
<1>18. CASE ModEnds(j)  BY <1>18, EndEffect DEF ModEnds, TypeOK
<1> QED BY <1>1, <1>2, <1>3, <1>4, <1>5, <1>6, <1>7, <1>8, <1>9,
     <1>10, <1>11, <1>12, <1>13, <1>14, <1>15, <1>16, <1>17, <1>18 DEF Run

LEMMA TypeAside ==
    ASSUME TypeOK, Aside
    PROVE  TypeOK'
<1> USE DEF TypeOK, States, markers
<1>1. CASE \E request \in {"mod", "update", "auth", "farmhand"} : Clear(request)
  BY <1>1 DEF Clear
<1>2. CASE DeleteInstance \/ ImportRecovers  BY <1>2 DEF DeleteInstance, ImportRecovers
<1>3. CASE ReconcileReads \/ ReconcileGivesUp  BY <1>3 DEF ReconcileReads, ReconcileGivesUp
<1>4. CASE ReconcileWrites  BY <1>4 DEF ReconcileWrites, Reconciled
<1>5. CASE OrphanStops \/ RecheckFiles \/ ServerExits
  BY ZenonT(60), <1>5 DEF OrphanStops, RecheckFiles, ServerExits
<1> QED BY <1>1, <1>2, <1>3, <1>4, <1>5 DEF Aside

LEMMA TypeNext == TypeOK /\ [Next]_vars => TypeOK'
<1> SUFFICES ASSUME TypeOK, [Next]_vars PROVE TypeOK'
  OBVIOUS
<1>1. CASE UNCHANGED vars  BY <1>1 DEF vars, TypeOK
<1> QED BY <1>1, NextCases, TypeAdmit, TypeRun, TypeAside

\* Type correctness: a row is active exactly while its runner is somewhere.
THEOREM TypeCorrect == Spec => []TypeOK
  BY TypeInit, TypeNext, PTL DEF Spec

-----------------------------------------------------------------------------
(* Who shares the instance with whom                                       *)

\* Row j is new, and what the gate of its kind found in the table.
Gated(j) ==
    /\ job[j] = "none" /\ ~deleting
    /\ \A k \in Jobs \ {j} : job'[k] = job[k] /\ stage'[k] = stage[k]
    /\ stage'[j] # "writing"
    /\ job'[j] \in Lifecycle =>
         /\ NoActive(Lifecycle \cup Updates \cup Downloads)
         /\ NoActive({"farmhand", "import", "mod"})
         /\ MutexFree
    /\ job'[j] \in Updates => NoActive(Lifecycle \cup Updates \cup Downloads)
    /\ job'[j] \in Downloads => NoActive(Updates \cup Downloads)
    /\ job'[j] = "farmhand" => NoActive(Kinds)

LEMMA AdmitEffect ==
    ASSUME TypeOK, NEW j \in Jobs, Admit(j)
    PROVE  /\ UNCHANGED <<state, server, deleting, lock>>
           /\ Gated(j) \/ UNCHANGED <<job, stage, owner>>
<1> USE DEF Stages, Kinds, Lifecycle, Updates, Downloads, markers, Gated
<1>1. CASE Start(j)
  <2>1. Row(j, "start", "prepare")  BY <1>1 DEF Start
  <2> QED
    BY <1>1, <2>1, RowEffect
       DEF Start, LifecycleAdmitted, RuntimeUpdateFree, FarmhandFree, SaveImportFree, NoActive
<1>2. CASE StartNewGame(j)
  <2>1. Row(j, "new_game", "prepare") \/ Row(j, "new_game", "refused")  BY <1>2 DEF StartNewGame
  <2> QED
    BY <1>2, <2>1, RowEffect
       DEF StartNewGame, LifecycleAdmitted, RuntimeUpdateFree, FarmhandFree, SaveImportFree,
           NoActive
<1>3. CASE Resume(j)
  <2>1. Row(j, "new_game", "prepare") \/ Row(j, "rollback", "begun")  BY <1>3 DEF Resume
  <2> QED
    BY <1>3, <2>1, RowEffect
       DEF Resume, LifecycleAdmitted, RuntimeUpdateFree, FarmhandFree, SaveImportFree, NoActive
<1>4. CASE StopRestartRestore(j)
  <2>1. \/ Row(j, "stop", "stop") \/ Row(j, "restart", "restart")
        \/ Row(j, "restore", "stop") \/ Row(j, "restore", "files")
    BY <1>4 DEF StopRestartRestore
  <2> QED
    BY <1>4, <2>1, RowEffect
       DEF StopRestartRestore, LifecycleAdmitted, RuntimeUpdateFree, FarmhandFree,
           SaveImportFree, NoActive
<1>5. CASE StartUpdate(j)
  <2>1. Row(j, "dry_run", "begun") \/ Row(j, "apply", "begun")  BY <1>5 DEF StartUpdate
  <2> QED BY <1>5, <2>1, RowEffect DEF StartUpdate, NoActive
<1>6. CASE Install(j)
  <2>1. Row(j, "install", "begun")  BY <1>6 DEF Install
  <2> QED BY <1>6, <2>1, RowEffect DEF Install, RuntimeUpdateFree, NoActive
<1>7. CASE Authorize(j)
  <2>1. Row(j, "auth", "begun")  BY <1>7 DEF Authorize
  <2> QED BY <1>7, <2>1, RowEffect DEF Authorize, RuntimeUpdateFree, NoActive
<1>8. CASE ImportSaveAndStart(j)
  <2>1. CASE Row(j, "import", "begun") /\ journal' = "bound"
    BY <1>8, <2>1, RowEffect DEF ImportSaveAndStart
  <2>2. CASE journal' = "unbound" /\ UNCHANGED <<job, stage>>
    BY <1>8, <2>2 DEF ImportSaveAndStart
  <2> QED BY <1>8, <2>1, <2>2 DEF ImportSaveAndStart
<1>9. CASE DeleteFarmhand(j)
  <2>1. Row(j, "farmhand", "begun")  BY <1>9 DEF DeleteFarmhand
  <2> QED BY <1>9, <2>1, RowEffect DEF DeleteFarmhand, NoActive
<1>10. CASE InstallMod(j)
  <2>1. Row(j, "mod", "begun")  BY <1>10 DEF InstallMod
  <2> QED BY <1>10, <2>1, RowEffect DEF InstallMod
<1> QED BY <1>1, <1>2, <1>3, <1>4, <1>5, <1>6, <1>7, <1>8, <1>9, <1>10 DEF Admit

LEMMA UpdateAloneNext == TypeOK /\ UpdateAlone /\ [Next]_vars => UpdateAlone'
<1> SUFFICES ASSUME TypeOK, UpdateAlone, [Next]_vars PROVE UpdateAlone'
  OBVIOUS
<1> USE DEF UpdateAlone, Lifecycle, Updates, Downloads
<1>1. ASSUME NEW j \in Jobs, Admit(j) PROVE UpdateAlone'
  BY <1>1, AdmitEffect DEF Gated, NoActive
<1>2. ASSUME NEW j \in Jobs, Run(j) PROVE UpdateAlone'
  BY <1>2, RunEffect
<1>3. CASE Aside \/ UNCHANGED vars  BY <1>3, AsideEffect DEF vars
<1> QED BY <1>1, <1>2, <1>3, NextCases

\* A runtime update never shares the instance with a lifecycle job, a download
\* or another update, for any number of jobs requested in any order.
THEOREM UpdateAloneHolds == Spec => []UpdateAlone
<1>1. Init => UpdateAlone  BY DEF Init, UpdateAlone, Updates
<1> QED BY <1>1, TypeCorrect, UpdateAloneNext, PTL DEF Spec

LEMMA FarmhandNext ==
    TypeOK /\ FarmhandUndisturbed /\ [Next]_vars => FarmhandUndisturbed'
<1> SUFFICES ASSUME TypeOK, FarmhandUndisturbed, [Next]_vars
             PROVE  FarmhandUndisturbed'
  OBVIOUS
<1> USE DEF FarmhandUndisturbed, NoActive, Lifecycle
<1>1. ASSUME NEW j \in Jobs, Admit(j) PROVE FarmhandUndisturbed'
  BY <1>1, AdmitEffect DEF Gated, Kinds
<1>2. ASSUME NEW j \in Jobs, Run(j) PROVE FarmhandUndisturbed'
  BY <1>2, RunEffect
<1>3. CASE Aside \/ UNCHANGED vars  BY <1>3, AsideEffect DEF vars
<1> QED BY <1>1, <1>2, <1>3, NextCases

\* No lifecycle job is active while a farmhand is deleted inside the game.
THEOREM FarmhandUndisturbedHolds == Spec => []FarmhandUndisturbed
<1>1. Init => FarmhandUndisturbed  BY DEF Init, FarmhandUndisturbed, NoActive, Lifecycle
<1> QED BY <1>1, TypeCorrect, FarmhandNext, PTL DEF Spec

LEMMA DeletedNext == TypeOK /\ DeletedQuiet /\ [Next]_vars => DeletedQuiet'
<1> SUFFICES ASSUME TypeOK, DeletedQuiet, [Next]_vars, deleting' PROVE DeletedQuiet'
  BY DEF DeletedQuiet
<1> USE DEF DeletedQuiet, NoActive
<1>1. ASSUME NEW j \in Jobs, Admit(j) PROVE DeletedQuiet'
  BY <1>1, AdmitEffect DEF Gated
<1>2. ASSUME NEW j \in Jobs, Run(j) PROVE DeletedQuiet'
  BY <1>2, RunEffect DEF TypeOK
<1>3. CASE DeleteInstance  BY <1>3 DEF DeleteInstance
<1>4. CASE ReconcileWrites  BY <1>4 DEF ReconcileWrites, Reconciled, markers
<1>5. CASE Aside /\ ~DeleteInstance /\ ~ReconcileWrites
  BY <1>5 DEF Aside, Clear, ImportRecovers, ReconcileReads, ReconcileGivesUp,
     OrphanStops, RecheckFiles, ServerExits, markers
<1>6. CASE UNCHANGED vars  BY <1>6 DEF vars
<1> QED BY <1>1, <1>2, <1>3, <1>4, <1>5, <1>6, NextCases

\* An instance with a deletion record has no active job, and its server stays
\* down, whatever was requested or read before the record was written.
THEOREM DeletedQuietHolds == Spec => []DeletedQuiet
<1>1. Init => DeletedQuiet  BY DEF Init, DeletedQuiet
<1> QED BY <1>1, TypeCorrect, DeletedNext, PTL DEF Spec

-----------------------------------------------------------------------------
(* The durable owner and the Mod writer                                    *)

OneLifecycle ==
    \A j, k \in Jobs : job[j] \in Lifecycle /\ job[k] \in Lifecycle => j = k

\* A new-game job that reserved its game has an owner.
NewGameOwns ==
    \A j \in Jobs : job[j] = "new_game" /\ stage[j] # "refused" => owner # "none"

WriterIsMod == \A j \in Jobs : stage[j] = "writing" => job[j] = "mod"

\* The owner and the Mod writer exclude each other because each looks for the
\* other under the mutex; the last two conjuncts say what the owner and the
\* writer know about their own jobs.
IInv ==
    /\ TypeOK /\ OneLifecycle /\ NewGameOwns /\ WriterIsMod
    /\ OwnerExclusive /\ ModWritesAlone

\* An admission beside an owner can only resume it, fail, or wait to write;
\* an owner appears with a new-game job and nothing else.
LEMMA AdmitOwner ==
    ASSUME TypeOK, NEW j \in Jobs, Admit(j)
    PROVE  /\ owner # "none" =>
                /\ UNCHANGED <<owner, journal>>
                /\ \/ UNCHANGED <<job, stage>>
                   \/ job'[j] \in {"new_game", "rollback"}
                   \/ job'[j] = "mod" /\ stage'[j] = "begun"
           /\ owner # owner' =>
                job'[j] = "new_game" /\ journal = "none" /\ journal' = "none" /\ ~deleting
           /\ Gated(j) /\ job'[j] = "new_game" /\ stage'[j] # "refused" => owner' # "none"
<1> USE DEF Stages, Kinds, Lifecycle, Updates, Downloads, markers
<1>1. CASE Start(j)
  <2>1. Row(j, "start", "prepare")  BY <1>1 DEF Start
  <2> QED BY <1>1, <2>1, RowEffect DEF Start, OwnerFree
<1>2. CASE StartNewGame(j)
  <2>1. \/ Row(j, "new_game", "prepare") /\ OwnerFree /\ owner' = "unfinished"
        \/ Row(j, "new_game", "refused") /\ UNCHANGED owner
    BY <1>2 DEF StartNewGame
  <2> QED BY <1>2, <2>1, RowEffect DEF StartNewGame, OwnerFree, LifecycleAdmitted, SaveImportFree
<1>3. CASE Resume(j)
  <2>1. \/ Row(j, "new_game", "prepare") /\ owner = "unfinished"
        \/ Row(j, "rollback", "begun")
    BY <1>3 DEF Resume
  <2> QED BY <1>3, <2>1, RowEffect DEF Resume
<1>4. CASE StopRestartRestore(j)
  <2>1. \/ Row(j, "stop", "stop") \/ Row(j, "restart", "restart")
        \/ Row(j, "restore", "stop") \/ Row(j, "restore", "files")
    BY <1>4 DEF StopRestartRestore
  <2> QED BY <1>4, <2>1, RowEffect DEF StopRestartRestore, OwnerFree
<1>5. CASE StartUpdate(j)
  <2>1. Row(j, "dry_run", "begun") \/ Row(j, "apply", "begun")  BY <1>5 DEF StartUpdate
  <2> QED BY <1>5, <2>1, RowEffect DEF StartUpdate, OwnerFree
<1>6. CASE Install(j)
  <2>1. Row(j, "install", "begun")  BY <1>6 DEF Install
  <2> QED BY <1>6, <2>1, RowEffect DEF Install, OwnerFree
<1>7. CASE Authorize(j)
  <2>1. Row(j, "auth", "begun")  BY <1>7 DEF Authorize
  <2> QED BY <1>7, <2>1, RowEffect DEF Authorize, OwnerFree
<1>8. CASE ImportSaveAndStart(j)
  <2>1. CASE Row(j, "import", "begun")
    BY <1>8, <2>1, RowEffect DEF ImportSaveAndStart, OwnerFree
  <2>2. CASE UNCHANGED <<job, stage>>  BY <1>8, <2>2 DEF ImportSaveAndStart, OwnerFree, Gated
  <2> QED BY <1>8, <2>1, <2>2 DEF ImportSaveAndStart
<1>9. CASE DeleteFarmhand(j)
  <2>1. Row(j, "farmhand", "begun")  BY <1>9 DEF DeleteFarmhand
  <2> QED BY <1>9, <2>1, RowEffect DEF DeleteFarmhand, OwnerFree
<1>10. CASE InstallMod(j)
  <2>1. Row(j, "mod", "begun")  BY <1>10 DEF InstallMod
  <2> QED BY <1>10, <2>1, RowEffect DEF InstallMod
<1> QED BY <1>1, <1>2, <1>3, <1>4, <1>5, <1>6, <1>7, <1>8, <1>9, <1>10 DEF Admit

\* A runner touches the owner only as the last thing a new-game or rollback job
\* does, and beside an owner it neither opens an import nor lets a Mod job write.
RunnerOwner(j) ==
    /\ owner' # owner =>
         job[j] \in {"new_game", "rollback"} /\ stage[j] # "refused" /\ job'[j] = "none"
    /\ job[j] = "rollback" => owner' \in {owner, "none"}
    /\ stage[j] = "refused" /\ job[j] = "new_game" => job'[j] = "none"
    /\ owner # "none" =>
         /\ journal' \in {journal, "none"}
         /\ lock' \in {lock, None}
         /\ job[j] = "mod" /\ stage[j] = "begun"
              => job'[j] = "none" \/ stage'[j] = "begun"
    /\ stage'[j] = "writing" =>
         /\ job'[j] = "mod"
         /\ lock = None /\ lock' = j /\ owner = "none" /\ ~deleting
         /\ NoActive(Lifecycle)
    /\ lock' # lock => lock = None \/ stage[j] = "writing"

LEMMA RunOwner ==
    ASSUME TypeOK, WriterIsMod, NEW j \in Jobs, Run(j)
    PROVE  RunnerOwner(j)
<1> USE DEF RunnerOwner, WriterIsMod, Stages, Updates, markers
<1>1. CASE Prepare(j)  BY <1>1, EndEffect, AdvanceEffect DEF Prepare, NewGameFails
<1>2. CASE RestartBegins(j)  BY <1>2, AdvanceEffect DEF RestartBegins
<1>3. CASE Recreate(j)  BY <1>3, EndEffect, AdvanceEffect DEF Recreate, NewGameFails
<1>4. CASE Ready(j)  BY <1>4, EndEffect DEF Ready
<1>5. CASE NotReady(j)  BY <1>5, EndEffect DEF NotReady, NewGameFails
<1>6. CASE StopBegins(j)  BY <1>6, AdvanceEffect DEF StopBegins
<1>7. CASE StopEnds(j)  BY <1>7, EndEffect, AdvanceEffect DEF StopEnds
<1>8. CASE RestoreFiles(j)  BY <1>8, EndEffect, AdvanceEffect DEF RestoreFiles
<1>9. CASE Rollback(j)  BY <1>9, EndEffect DEF Rollback
<1>10. CASE EndsAlone(j)  BY <1>10, EndEffect DEF EndsAlone
<1>11. CASE ApplyStops(j)  BY <1>11, AdvanceEffect DEF ApplyStops
<1>12. CASE ApplyVerifies(j)  BY <1>12 DEF ApplyVerifies
<1>13. CASE ApplyEnds(j)  BY <1>13, EndEffect DEF ApplyEnds
<1>14. CASE InstallRuns(j)  BY <1>14, EndEffect DEF InstallRuns
<1>15. CASE ImportMaintains(j)  BY <1>15, EndEffect, AdvanceEffect DEF ImportMaintains
<1>16. CASE ImportEnds(j)  BY <1>16, EndEffect DEF ImportEnds
<1>17. CASE ModLocks(j)  BY <1>17, AdvanceEffect DEF ModLocks, MutexFree, OwnerFree
<1>18. CASE ModEnds(j)  BY <1>18, EndEffect DEF ModEnds
<1> QED BY <1>1, <1>2, <1>3, <1>4, <1>5, <1>6, <1>7, <1>8, <1>9,
     <1>10, <1>11, <1>12, <1>13, <1>14, <1>15, <1>16, <1>17, <1>18 DEF Run

LEMMA OneLifecycleNext == TypeOK /\ OneLifecycle /\ [Next]_vars => OneLifecycle'
<1> SUFFICES ASSUME TypeOK, OneLifecycle, [Next]_vars PROVE OneLifecycle'
  OBVIOUS
<1> USE DEF OneLifecycle, Lifecycle
<1>1. ASSUME NEW j \in Jobs, Admit(j) PROVE OneLifecycle'
  BY <1>1, AdmitEffect DEF Gated, NoActive
<1>2. ASSUME NEW j \in Jobs, Run(j) PROVE OneLifecycle'
  BY <1>2, RunEffect
<1>3. CASE Aside \/ UNCHANGED vars  BY <1>3, AsideEffect DEF vars
<1> QED BY <1>1, <1>2, <1>3, NextCases

\* Admissions keep the rest of the invariant.
LEMMA IInvAdmit ==
    ASSUME IInv, NEW j \in Jobs, Admit(j)
    PROVE  NewGameOwns' /\ WriterIsMod' /\ OwnerExclusive' /\ ModWritesAlone'
<1> USE DEF IInv
<1>1. /\ UNCHANGED <<state, server, deleting, lock>>
      /\ Gated(j) \/ UNCHANGED <<job, stage, owner>>
  BY AdmitEffect
<1>2. NewGameOwns'
  <2> SUFFICES ASSUME NEW k \in Jobs, job'[k] = "new_game", stage'[k] # "refused"
               PROVE  owner' # "none"
    BY DEF NewGameOwns
  <2>1. CASE owner # "none"  BY <2>1, AdmitOwner
  <2>2. CASE owner = "none"  BY <1>1, <2>2, AdmitOwner DEF NewGameOwns, Gated
  <2> QED BY <2>1, <2>2
<1>3. WriterIsMod'  BY <1>1 DEF WriterIsMod, Gated
<1>4. OwnerExclusive'
  <2>1. CASE owner # "none"  BY <1>1, <2>1, AdmitOwner DEF OwnerExclusive, Gated
  <2>2. CASE owner = "none" /\ owner' # "none"
    <3>1. job'[j] = "new_game" /\ journal' = "none" /\ ~deleting  BY <2>2, AdmitOwner
    <3>2. Gated(j)  BY <1>1, <2>2
    <3>3. \A k \in Jobs \ {j} : job'[k] = "none"
      BY <3>1, <3>2 DEF Gated, NoActive, Lifecycle, Updates, Downloads, Kinds, TypeOK
    <3>4. lock' = None  BY <1>1, <3>1, <3>2 DEF Gated, MutexFree, Lifecycle
    <3> QED BY <1>1, <3>1, <3>3, <3>4 DEF OwnerExclusive
  <2> QED BY <2>1, <2>2 DEF OwnerExclusive
<1>5. ModWritesAlone'
  <2> SUFFICES ASSUME NEW k \in Jobs, stage'[k] = "writing"
               PROVE  lock' = k /\ NoActive(Lifecycle)' /\ owner' = "none" /\ ~deleting'
    BY DEF ModWritesAlone
  <2>1. stage[k] = "writing"  BY <1>1 DEF Gated
  <2>2. lock = k /\ NoActive(Lifecycle) /\ owner = "none" /\ ~deleting
    BY <2>1 DEF ModWritesAlone
  <2>3. ~MutexFree  BY <2>2, NoneAssumption DEF MutexFree
  <2>4. NoActive(Lifecycle)'  BY <1>1, <2>2, <2>3 DEF Gated, NoActive
  <2>5. owner' = "none"  BY <2>2, <2>4, AdmitOwner DEF NoActive, Lifecycle
  <2> QED BY <1>1, <2>2, <2>4, <2>5
<1> QED BY <1>2, <1>3, <1>4, <1>5

\* So do runners.
LEMMA IInvRun ==
    ASSUME IInv, NEW j \in Jobs, Run(j)
    PROVE  NewGameOwns' /\ WriterIsMod' /\ OwnerExclusive' /\ ModWritesAlone'
<1> USE DEF IInv
<1>1. /\ job[j] # "none" /\ job'[j] \in {job[j], "none"}
      /\ \A k \in Jobs \ {j} : job'[k] = job[k] /\ stage'[k] = stage[k]
      /\ UNCHANGED deleting
  BY RunEffect
<1>2. RunnerOwner(j)  BY RunOwner
<1>3. NewGameOwns'
  <2> SUFFICES ASSUME NEW k \in Jobs, job'[k] = "new_game", stage'[k] # "refused"
               PROVE  owner' # "none"
    BY DEF NewGameOwns
  <2>1. job[k] = "new_game" /\ stage[k] # "refused"  BY <1>1, <1>2 DEF RunnerOwner
  <2>2. owner' = owner  BY <1>1, <1>2, <2>1 DEF RunnerOwner, OneLifecycle, Lifecycle
  <2> QED BY <2>1, <2>2 DEF NewGameOwns
<1>4. WriterIsMod'  BY <1>1, <1>2 DEF WriterIsMod, RunnerOwner
<1>5. OwnerExclusive'
  <2> SUFFICES ASSUME owner' # "none" PROVE OwnerExclusive'
    BY DEF OwnerExclusive
  <2>1. owner # "none"  BY <1>2 DEF RunnerOwner, NewGameOwns, OwnerExclusive
  <2> QED BY <1>1, <1>2, <2>1 DEF OwnerExclusive, RunnerOwner
<1>6. ModWritesAlone'
  <2> SUFFICES ASSUME NEW k \in Jobs, stage'[k] = "writing"
               PROVE  lock' = k /\ NoActive(Lifecycle)' /\ owner' = "none" /\ ~deleting'
    BY DEF ModWritesAlone
  <2>1. NoActive(Lifecycle) => NoActive(Lifecycle)' /\ owner' = owner
    BY <1>1, <1>2 DEF NoActive, Lifecycle, RunnerOwner
  <2>2. CASE k = j  BY <1>1, <1>2, <2>1, <2>2 DEF RunnerOwner
  <2>3. CASE k # j
    <3>1. /\ stage[k] = "writing" /\ lock = k
          /\ NoActive(Lifecycle) /\ owner = "none" /\ ~deleting
      BY <1>1, <2>3 DEF ModWritesAlone
    <3>2. lock' = lock  BY <1>2, <2>3, <3>1, NoneAssumption DEF RunnerOwner, ModWritesAlone
    <3> QED BY <1>1, <2>1, <3>1, <3>2
  <2> QED BY <2>2, <2>3
<1> QED BY <1>3, <1>4, <1>5, <1>6

LEMMA IInvNext == IInv /\ [Next]_vars => IInv'
<1> SUFFICES ASSUME IInv, [Next]_vars PROVE IInv'
  OBVIOUS
<1>1. TypeOK' /\ OneLifecycle'  BY TypeNext, OneLifecycleNext DEF IInv
<1>2. CASE Aside
  <2>1. UNCHANGED <<job, stage, owner, lock>>  BY <1>2, AsideEffect
  <2>2. owner # "none" \/ lock # None => UNCHANGED deleting
    BY <1>2 DEF Aside, Clear, DeleteInstance, ImportRecovers, ReconcileReads,
       ReconcileWrites, ReconcileGivesUp, OrphanStops, RecheckFiles, ServerExits,
       markers, OwnerFree, MutexFree
  <2>3. journal' \in {journal, "none"}
    BY <1>2 DEF Aside, Clear, DeleteInstance, ImportRecovers, ReconcileReads,
       ReconcileWrites, ReconcileGivesUp, OrphanStops, RecheckFiles, ServerExits,
       markers
  <2>4. OwnerExclusive'  BY <2>1, <2>2, <2>3 DEF IInv, OwnerExclusive
  <2>5. ModWritesAlone'  BY <2>1, <2>2, NoneAssumption DEF IInv, ModWritesAlone, NoActive
  <2> QED BY <1>1, <2>1, <2>4, <2>5 DEF IInv, NewGameOwns, WriterIsMod
<1>3. CASE UNCHANGED vars
  BY <1>1, <1>3 DEF IInv, vars, NewGameOwns, WriterIsMod, OwnerExclusive,
     ModWritesAlone, NoActive
<1>4. ASSUME NEW j \in Jobs, Admit(j) \/ Run(j) PROVE IInv'
  BY <1>1, <1>4, IInvAdmit, IInvRun DEF IInv
<1> QED BY <1>2, <1>3, <1>4, NextCases

LEMMA IInvInit == Init => IInv
  BY TypeInit DEF Init, IInv, OneLifecycle, NewGameOwns, WriterIsMod,
     OwnerExclusive, ModWritesAlone, Lifecycle

\* While a new-game transaction owns the instance, nothing that changes its
\* saves or its server runs beside it, and no import or deletion is under way.
THEOREM OwnerExclusiveHolds == Spec => []OwnerExclusive
<1>1. IInv => OwnerExclusive  BY DEF IInv
<1> QED BY <1>1, IInvInit, IInvNext, PTL DEF Spec

\* While a Mod install writes, it holds the mutex, no lifecycle job is active,
\* and the instance has neither a new-game owner nor a deletion record.
THEOREM ModWritesAloneHolds == Spec => []ModWritesAlone
<1>1. IInv => ModWritesAlone  BY DEF IInv
<1> QED BY <1>1, IInvInit, IInvNext, PTL DEF Spec

\* Jobs whose work would collide are kept apart, and none is beside a deletion
\* record, for any number of jobs and every order of the requests.
THEOREM JobsApartHolds == Spec => []JobsApart
<1>1. UpdateAlone /\ FarmhandUndisturbed /\ ModWritesAlone /\ DeletedQuiet => JobsApart
  BY DEF JobsApart
<1> QED
  BY <1>1, UpdateAloneHolds, FarmhandUndisturbedHolds, ModWritesAloneHolds,
     DeletedQuietHolds, PTL

(***************************************************************************)
(* The saves and their backups.                                            *)
(***************************************************************************)
Folders == [take : 0..(GameSaves + 3), day : Nat]
BackupKinds == {"manual", "predelete", "prerestore", "auto"}
Names   == [kind : BackupKinds \cup {"none"}, of : Farms, stamp : Nat]
BackupFiles   == [kind : BackupKinds, of : Farms, stamp : Nat, take : 0..(GameSaves + 3), day : Nat]
Deletes  == {"predelete", "clear", "remove"}
Restores == {"open", "protect", "extract", "replace", "rename"}
ActSteps == {"idle", "stop", "start"} \cup Deletes \cup Restores
Acts    == [at : ActSteps, job : BOOLEAN, of : Farms, name : Names, stage : Folders,
            up : BOOLEAN, over : BOOLEAN]
Maints  == [at : {"idle", "event", "zip", "prune", "consume"}, todo : Seq(Farms), read : Folders]
Crons   == [at : {"idle", "zip", "stop"}, of : Farms, read : Folders]
SavesTyped ==
    /\ world \in [Farms -> Folders] /\ pointer \in Farms \cup {"none"} /\ zips \subseteq BackupFiles
    /\ saveEvents \in Seq(Farms) /\ policy \in [on : BOOLEAN, keep : 1..2]
    /\ loaded \in Farms \cup {"default", "none"} /\ played \in Nat
    /\ taken \in 3..(GameSaves + 3) /\ second \in Nat
    /\ asked \in [kind : {"none", "delete", "start", "restart"}, of : Farms, seen : BOOLEAN]
    /\ act \in Acts /\ maint \in Maints /\ cron \in Crons
    /\ requests \in 0..LibraryRequests /\ lfaults \in 0..LibraryFaults /\ lstops \in 0..LibraryStops

\* A maintenance that works on an event has one, and has no more to do than there is.
OnEvent ==
    /\ maint.at \in {"zip", "prune", "consume"} => maint.todo # <<>>
    /\ Len(maint.todo) <= Len(saveEvents)
\* What is safe: backups that nothing removes by itself, and what an administrator gave up.
Safe == waived \cup Takes({z \in zips : z.kind # "auto"})
RemovedSafe == removed \subseteq Safe
\* A save about to be removed is safe,
Covered ==
    act.at \in {"clear", "remove", "extract", "replace"} /\ Whole(world[act.of]) => world[act.of].take \in Safe
\* and while one is restored nobody plays.
Calm == act.at \in Restores => loaded = "none"
PlaysOne == played > 0 => loaded \in Farms

SLInv == SavesTyped /\ OnEvent /\ RemovedSafe /\ Covered /\ Calm /\ PlaysOne

\* What the variables hold.
LEMMA Values ==
    ASSUME SavesTyped
    PROVE  /\ act.at \in ActSteps /\ act.job \in BOOLEAN /\ act.of \in Farms /\ act.name \in Names
           /\ act.stage \in Folders /\ act.up \in BOOLEAN /\ act.over \in BOOLEAN
           /\ maint.todo \in Seq(Farms) /\ maint.read \in Folders
           /\ cron.of \in Farms /\ cron.read \in Folders /\ asked.of \in Farms
           /\ \A f \in Farms : world[f] \in Folders
BY DEF SavesTyped, Acts, Maints, Crons

\* What a step makes of them.
LEMMA Writes ==
    ASSUME SavesTyped
    PROVE  /\ \A s \in ActSteps : [act EXCEPT !.at = s] \in Acts
           /\ \A s \in {"event", "zip", "prune", "consume"} : [maint EXCEPT !.at = s] \in Maints
           /\ [cron EXCEPT !.at = "stop"] \in Crons
           /\ NoAct \in Acts /\ NoMaint \in Maints /\ NoCron \in Crons
           /\ Gone \in Folders /\ Part \in Folders /\ NoFile \in Names
           /\ NoAsk \in [kind : {"none", "delete", "start", "restart"}, of : Farms, seen : BOOLEAN]
<1>1. Gone \in Folders /\ Part \in Folders  BY LibraryAssumption DEF Gone, Part, Folders
<1>2. NoFile \in Names  BY DEF NoFile, Names, BackupKinds, Farms
<1>3. NoAct \in Acts  BY <1>1, <1>2 DEF NoAct, Acts, ActSteps, Farms
<1>4. <<>> \in Seq(Farms)  OBVIOUS
<1>5. NoMaint \in Maints  BY <1>1, <1>4 DEF NoMaint, Maints
<1>6. NoCron \in Crons  BY <1>1 DEF NoCron, Crons, Farms
<1>7. NoAsk \in [kind : {"none", "delete", "start", "restart"}, of : Farms, seen : BOOLEAN]
  BY DEF NoAsk, Farms
<1>8. /\ \A s \in ActSteps : [act EXCEPT !.at = s] \in Acts
      /\ \A s \in {"event", "zip", "prune", "consume"} : [maint EXCEPT !.at = s] \in Maints
      /\ [cron EXCEPT !.at = "stop"] \in Crons
  BY DEF SavesTyped, Acts, Maints, Crons
<1> QED BY <1>1, <1>2, <1>3, <1>5, <1>6, <1>7, <1>8

\* A queue without its first entry.
LEMMA Shorter ==
    ASSUME NEW s \in Seq(Farms), s # <<>>
    PROVE  Tail(s) \in Seq(Farms) /\ Len(Tail(s)) = Len(s) - 1 /\ Head(s) \in Farms /\ Len(s) \in Nat \ {0}
OBVIOUS

\* A name of this second: what is there under it, and what may come to be.
Name(kind, f) == [kind |-> kind, of |-> f, stamp |-> second']
Filed(kind, f, c) ==
    /\ second' \in {second, second + 1}
    /\ zips' \in {zips, zips \ Named(Name(kind, f)), (zips \ Named(Name(kind, f))) \cup {File(Name(kind, f), c)}}
    /\ waived' = waived \cup Takes(zips \ zips')

\* Whatever a backup replaces is given up, and what is filed is safe.
LEMMA FiledSafe ==
    ASSUME SavesTyped, NEW kind \in BackupKinds \ {"auto"}, NEW f \in Farms, NEW c \in Folders, Filed(kind, f, c)
    PROVE  /\ zips' \subseteq BackupFiles /\ second' \in Nat /\ Safe \subseteq Safe'
           /\ zips' = (zips \ Named(Name(kind, f))) \cup {File(Name(kind, f), c)} => c.take \in Safe'
<1> DEFINE z == File(Name(kind, f), c)
<1>1. second' \in Nat  BY DEF Filed, SavesTyped
<1>2. z \in BackupFiles /\ z.kind = kind /\ z.take = c.take
  BY <1>1 DEF BackupFiles, File, Name, Folders, BackupKinds
<1>3. zips' \subseteq BackupFiles  BY <1>2 DEF Filed, SavesTyped
<1>4. Safe \subseteq Safe'  BY DEF Filed, Safe, Takes
<1>5. ASSUME z \in zips' PROVE c.take \in Safe'
  BY <1>2, <1>5 DEF Safe, Takes
<1> QED BY <1>1, <1>3, <1>4, <1>5

\* An automatic backup that comes or goes leaves what is safe as it is.
LEMMA AutoSafe ==
    ASSUME {z \in zips : z.kind # "auto"} \subseteq {z \in zips' : z.kind # "auto"}, waived \subseteq waived'
    PROVE  Safe \subseteq Safe'
BY DEF Safe, Takes

\* Nothing is safe no longer while the backups stay.
LEMMA SameSafe ==
    ASSUME zips \subseteq zips', waived \subseteq waived'
    PROVE  Safe \subseteq Safe'
BY DEF Safe, Takes

\* The parts of the invariant, after a step.
LEMMA Parts ==
    ASSUME SLInv, SavesTyped', OnEvent', Safe \subseteq Safe', removed' \subseteq removed \cup Safe',
           Covered', Calm', PlaysOne'
    PROVE  SLInv'
BY DEF SLInv, RemovedSafe

\* A save on its way out stays covered while it is what it was.
LEMMA StaysCovered ==
    ASSUME SLInv, Safe \subseteq Safe', act'.of = act.of, world'[act.of] = world[act.of],
           act.at \in {"clear", "remove", "extract", "replace"} \/ ~(act'.at \in {"clear", "remove", "extract", "replace"})
    PROVE  Covered'
BY DEF SLInv, Covered

\* A step that leaves the saves, the server and what is being done with them as they are.
LEMMA SavesAside ==
    ASSUME SLInv, UNCHANGED <<world, act, loaded, played, removed>>, Safe \subseteq Safe', SavesTyped', OnEvent'
    PROVE  SLInv'
<1>1. Covered'  BY StaysCovered
<1>2. Calm' /\ PlaysOne'  BY DEF SLInv, Calm, PlaysOne
<1> QED BY <1>1, <1>2, Parts

\* Requests that are asked for, the pointer and the policy.
LEMMA Asking ==
    ASSUME SLInv, \/ \E f \in Farms : SelectSave(f) \/ AskDelete(f)
                  \/ WritePolicy \/ AskStart \/ AskRestart \/ MaintBegins \/ ReadSaveEvent \/ ConsumeEvent
                  \/ ScheduleShutdown
    PROVE  SLInv'
<1> USE DEF SavesTyped, OnEvent, gameVars, ghosts
<1>1. SavesTyped /\ OnEvent  BY DEF SLInv
<1>2. LibraryRequests \in Nat /\ LibraryFaults \in Nat /\ LibraryStops \in Nat
  BY LibraryAssumption
<1>3. /\ act' = act /\ world' = world /\ zips' = zips /\ loaded' = loaded /\ played' = played /\ taken' = taken
      /\ second' = second /\ lstops' = lstops /\ removed' = removed /\ waived' = waived
  BY DEF SelectSave, AskDelete, WritePolicy, AskStart, AskRestart, MaintBegins, ReadSaveEvent, ConsumeEvent,
     ScheduleShutdown, Here, Disk, diskVars, Maint
<1>4. Safe \subseteq Safe'  BY <1>3, SameSafe
<1>5. ASSUME NEW f \in Farms, SelectSave(f) PROVE SavesTyped' /\ OnEvent'
  BY <1>1, <1>2, <1>3, <1>5 DEF SelectSave, Request, Here, LFault
<1>6. ASSUME NEW f \in Farms, AskDelete(f) PROVE SavesTyped' /\ OnEvent'
  BY <1>1, <1>2, <1>3, <1>6 DEF AskDelete, Request, Here, Disk
<1>7. ASSUME WritePolicy PROVE SavesTyped' /\ OnEvent'
  BY <1>1, <1>2, <1>3, <1>7 DEF WritePolicy, Request, Here
<1>8. ASSUME AskStart \/ AskRestart PROVE SavesTyped' /\ OnEvent'
  <2>1. asked' \in [kind : {"none", "delete", "start", "restart"}, of : Farms, seen : BOOLEAN]
    BY <1>1, <1>8, Writes DEF AskStart, AskRestart, NoAsk, Farms
  <2> QED BY <1>1, <1>2, <1>3, <1>8, <2>1 DEF AskStart, AskRestart, Request, Here, Disk
<1>9. ASSUME MaintBegins PROVE SavesTyped' /\ OnEvent'
  <2>1. maint' \in Maints /\ maint'.at = "event"
    BY <1>1, <1>9, Writes DEF MaintBegins, NoMaint, Maints
  <2> QED BY <1>1, <1>3, <1>9, <2>1 DEF MaintBegins, diskVars
<1>10. ASSUME ReadSaveEvent PROVE SavesTyped' /\ OnEvent'
  <2>1. maint.todo # <<>> => Head(maint.todo) \in Farms  BY <1>1, Values
  <2>2. \/ maint' = NoMaint
        \/ maint.todo # <<>> /\ maint' = [maint EXCEPT !.at = "consume"]
        \/ maint.todo # <<>> /\ maint' = [maint EXCEPT !.at = "zip", !.read = world[Head(maint.todo)]]
    BY <1>10 DEF ReadSaveEvent, GivesUp, MaintThen
  <2>3. maint' \in Maints /\ (maint' = NoMaint \/ (maint'.todo = maint.todo /\ maint.todo # <<>>))
    BY <1>1, <2>1, <2>2, Writes, Values DEF Maints
  <2>4. NoMaint.at = "idle" /\ Len(NoMaint.todo) <= Len(saveEvents)  BY <1>1 DEF NoMaint
  <2>5. saveEvents' = saveEvents  BY <1>10 DEF ReadSaveEvent
  <2>6. OnEvent'  BY <1>1, <2>3, <2>4, <2>5
  <2> QED BY <1>1, <1>3, <1>10, <2>3, <2>6 DEF ReadSaveEvent, Maint
<1>11. ASSUME ConsumeEvent PROVE SavesTyped' /\ OnEvent'
  <2>1. maint.todo # <<>>  BY <1>1, <1>11 DEF ConsumeEvent, Maint
  <2>2. /\ maint.todo \in Seq(Farms) /\ Len(maint.todo) <= Len(saveEvents) /\ saveEvents \in Seq(Farms)
        /\ maint' = [maint EXCEPT !.at = "event", !.todo = Tail(maint.todo)]
    BY <1>1, <1>11, Values DEF ConsumeEvent
  <2>3. maint' \in Maints /\ maint'.at = "event" /\ maint'.todo = Tail(maint.todo)
    BY <1>1, <2>1, <2>2, Shorter DEF Maints
  <2>4. Len(maint.todo) \in Nat \ {0} /\ Len(Tail(maint.todo)) = Len(maint.todo) - 1
    BY <2>1, <2>2, Shorter
  <2>5. Len(saveEvents) \in Nat /\ saveEvents # <<>>  BY <2>2, <2>4
  <2>6. Tail(saveEvents) \in Seq(Farms) /\ Len(Tail(saveEvents)) = Len(saveEvents) - 1
    BY <2>2, <2>5, Shorter
  <2>7. saveEvents' \in {saveEvents, Tail(saveEvents)} /\ lfaults' \in 0..LibraryFaults
    BY <1>1, <1>2, <1>11 DEF ConsumeEvent, LFault
  <2>8. OnEvent'  BY <2>2, <2>3, <2>4, <2>5, <2>6, <2>7
  <2> QED BY <1>1, <1>2, <1>3, <1>11, <2>2, <2>3, <2>6, <2>7, <2>8 DEF ConsumeEvent, Maint
<1>12. ASSUME ScheduleShutdown PROVE SavesTyped' /\ OnEvent'
  <2>1. cron' \in Crons  BY <1>1, <1>12, Values DEF ScheduleShutdown, Crons, ValidateSaveExists
  <2> QED BY <1>1, <1>2, <1>3, <1>12, <2>1 DEF ScheduleShutdown, Request, diskVars
<1> QED BY <1>3, <1>4, <1>5, <1>6, <1>7, <1>8, <1>9, <1>10, <1>11, <1>12, SavesAside

\* A backup as it is written: by its three outcomes.
LEMMA BackupFiled ==
    ASSUME NEW kind, NEW f, NEW c, NEW ACTION ok, NEW ACTION bad, BackupUnique(kind, f, c, ok, bad)
    PROVE  /\ Filed(kind, f, c) /\ (ok \/ bad) /\ (UNCHANGED lfaults \/ LFault)
           /\ ~bad => zips' = (zips \ Named(Name(kind, f))) \cup {File(Name(kind, f), c)}
BY DEF BackupUnique, BackupSaveAs, Filed, Name

\* Backups an administrator asks for, or the schedule, or the maintenance makes and removes.
LEMMA Backing ==
    ASSUME SLInv, \/ \E f \in Farms : BackupCreate(f)
                  \/ \E z \in zips : DeleteBackup(z)
                  \/ BackupAutoGameDay \/ PruneAutoGameDayBackups \/ BackupActiveSave
    PROVE  SLInv'
<1> USE DEF SavesTyped
<1>1. SavesTyped /\ OnEvent  BY DEF SLInv
<1>2. LibraryRequests \in Nat /\ LibraryFaults \in Nat /\ LibraryStops \in Nat
  BY LibraryAssumption
<1>3. LFault => lfaults' \in 0..LibraryFaults  BY <1>1, <1>2 DEF LFault
<1>4. ASSUME NEW f \in Farms, BackupCreate(f) PROVE SLInv'
  <2>1. PICK c \in {world[f]} \cup (IF loaded = f THEN {Part} ELSE {}) : BackupUnique("manual", f, c, TRUE, TRUE)
    BY <1>4 DEF BackupCreate
  <2>2. c \in Folders /\ "manual" \in BackupKinds \ {"auto"}
    BY <1>1, Values, Writes DEF BackupKinds
  <2>3. Filed("manual", f, c) /\ lfaults' \in 0..LibraryFaults  BY <1>1, <1>3, <2>1, BackupFiled
  <2>4. zips' \subseteq BackupFiles /\ second' \in Nat /\ Safe \subseteq Safe'
    BY <1>1, <2>2, <2>3, FiledSafe
  <2>5. UNCHANGED <<world, act, loaded, played, removed>>
    BY <1>4 DEF BackupCreate, Here, Disk, gameVars
  <2>6. SavesTyped' /\ OnEvent'
    BY <1>1, <1>2, <1>4, <2>3, <2>4 DEF BackupCreate, Request, Here, Disk, gameVars, OnEvent
  <2> QED BY <2>4, <2>5, <2>6, SavesAside
<1>5. ASSUME NEW z \in zips, DeleteBackup(z) PROVE SLInv'
  <2>1. zips' = zips \ {z} /\ waived' = waived \cup {z.take}  BY <1>5 DEF DeleteBackup
  <2>2. Safe \subseteq Safe'  BY <2>1 DEF Safe, Takes
  <2>3. UNCHANGED <<world, act, loaded, played, removed>>
    BY <1>5 DEF DeleteBackup, Here, Disk, gameVars
  <2>4. SavesTyped' /\ OnEvent'
    BY <1>1, <1>2, <1>5, <2>1 DEF DeleteBackup, Request, Here, Disk, gameVars, OnEvent
  <2> QED BY <2>2, <2>3, <2>4, SavesAside
<1>6. ASSUME BackupAutoGameDay PROVE SLInv'
  <2> DEFINE f == Head(maint.todo)
             n == [kind |-> "auto", of |-> f, stamp |-> maint.read.day]
  <2>1. f \in Farms /\ maint.todo # <<>> /\ maint.read \in Folders
    BY <1>1, <1>6, Values, Shorter DEF BackupAutoGameDay, Maint, OnEvent
  <2>2. PICK c \in {maint.read, Part} : zips' \in {zips, zips \ Named(n), (zips \ Named(n)) \cup {File(n, c)}}
    <3>1. \/ BackupSaveAs(n, IF world[f] = maint.read THEN maint.read ELSE Part, MaintThen("prune"), GivesUp)
          \/ zips' = zips
      BY <1>6 DEF BackupAutoGameDay
    <3> QED BY <3>1 DEF BackupSaveAs
  <2>3. c \in Folders  BY <1>1, <2>1, Writes
  <2>4. File(n, c) \in BackupFiles /\ File(n, c).kind = "auto"
    BY <2>1, <2>3 DEF File, BackupFiles, Folders, BackupKinds
  <2>5. \A z \in Named(n) : z.kind = "auto"  BY DEF Named
  <2>6. zips' \subseteq BackupFiles /\ {z \in zips : z.kind # "auto"} \subseteq {z \in zips' : z.kind # "auto"}
    BY <1>1, <2>2, <2>4, <2>5
  <2>7. maint' \in {NoMaint, [maint EXCEPT !.at = "prune"]} /\ lfaults' \in 0..LibraryFaults
    BY <1>1, <1>3, <1>6 DEF BackupAutoGameDay, BackupSaveAs, MaintThen, GivesUp
  <2>8. UNCHANGED <<world, act, loaded, played, removed, waived, saveEvents>>
    BY <1>6 DEF BackupAutoGameDay, Maint, gameVars
  <2>9. Safe \subseteq Safe'  BY <2>6, <2>8, AutoSafe
  <2>10. maint' \in Maints /\ (maint' = NoMaint \/ (maint'.todo = maint.todo))
    BY <1>1, <2>7, Writes DEF Maints
  <2>11. OnEvent'  BY <1>1, <2>1, <2>8, <2>10 DEF OnEvent, NoMaint
  <2>12. SavesTyped'
    BY <1>1, <1>6, <2>6, <2>7, <2>8, <2>10 DEF BackupAutoGameDay, Maint, gameVars
  <2> QED BY <2>8, <2>9, <2>11, <2>12, SavesAside
<1>7. ASSUME PruneAutoGameDayBackups PROVE SLInv'
  <2>1. maint.todo # <<>>  BY <1>1, <1>7 DEF PruneAutoGameDayBackups, Maint, OnEvent
  <2>2. zips' = zips \/ zips' = Keeps(Head(maint.todo))
    BY <1>7 DEF PruneAutoGameDayBackups, PruneAuto
  <2>3. zips' \subseteq zips /\ {z \in zips : z.kind # "auto"} \subseteq {z \in zips' : z.kind # "auto"}
    BY <2>2 DEF Keeps
  <2>4. maint' \in {NoMaint, [maint EXCEPT !.at = "consume"]} /\ lfaults' \in 0..LibraryFaults
    BY <1>1, <1>3, <1>7 DEF PruneAutoGameDayBackups, PruneAuto, MaintThen, GivesUp
  <2>5. UNCHANGED <<world, act, loaded, played, removed, waived, saveEvents>>
    BY <1>7 DEF PruneAutoGameDayBackups, Maint, gameVars
  <2>6. Safe \subseteq Safe'  BY <2>3, <2>5, AutoSafe
  <2>7. maint' \in Maints /\ (maint' = NoMaint \/ (maint'.todo = maint.todo))
    BY <1>1, <2>4, Writes DEF Maints
  <2>8. OnEvent'  BY <1>1, <2>1, <2>5, <2>7 DEF OnEvent, NoMaint
  <2>9. SavesTyped'
    BY <1>1, <1>7, <2>3, <2>4, <2>5, <2>7 DEF PruneAutoGameDayBackups, Maint, gameVars
  <2> QED BY <2>5, <2>6, <2>8, <2>9, SavesAside
<1>8. ASSUME BackupActiveSave PROVE SLInv'
  <2> DEFINE c == IF world[cron.of] = cron.read THEN world[cron.of] ELSE Part
  <2>1. BackupUnique("manual", cron.of, c, cron' = [cron EXCEPT !.at = "stop"], cron' = NoCron)
    BY <1>8 DEF BackupActiveSave
  <2>2. c \in Folders /\ cron.of \in Farms /\ "manual" \in BackupKinds \ {"auto"}
    BY <1>1, Values, Writes DEF BackupKinds
  <2> HIDE DEF c
  <2>3. Filed("manual", cron.of, c) /\ lfaults' \in 0..LibraryFaults /\ cron' \in {NoCron, [cron EXCEPT !.at = "stop"]}
    BY <1>1, <1>3, <2>1, BackupFiled
  <2>4. zips' \subseteq BackupFiles /\ second' \in Nat /\ Safe \subseteq Safe'
    BY <1>1, <2>2, <2>3, FiledSafe
  <2>5. UNCHANGED <<world, act, loaded, played, removed>> /\ cron' \in Crons
    BY <1>1, <1>8, <2>3, Writes DEF BackupActiveSave, Disk, gameVars
  <2>6. SavesTyped' /\ OnEvent'
    BY <1>1, <1>8, <2>3, <2>4, <2>5 DEF BackupActiveSave, Disk, gameVars, OnEvent
  <2> QED BY <2>4, <2>5, <2>6, SavesAside
<1> QED BY <1>4, <1>5, <1>6, <1>7, <1>8

\* A server that comes up or goes down; nothing is being restored then.
LEMMA Serving ==
    ASSUME SLInv, UNCHANGED <<world, removed>>, Safe \subseteq Safe', SavesTyped', OnEvent',
           act'.of = act.of, act'.at \in Deletes \/ act'.at = "idle" \/ loaded' = "none",
           act'.at \in {"clear", "remove", "extract", "replace"} => act'.at = act.at,
           played' > 0 => loaded' \in Farms
    PROVE  SLInv'
<1>1. Covered'  BY StaysCovered
<1>2. Calm' /\ PlaysOne'  BY DEF Calm, PlaysOne, Deletes, Restores
<1> QED BY <1>1, <1>2, Parts

\* The save a server comes up with, if there is one.
LEMMA ComesUp ==
    ASSUME SavesTyped, Comes
    PROVE  /\ loaded' \in Farms \cup {"default", "none"} /\ played' \in Nat
           /\ played' > 0 => loaded' \in Farms
<1>1. pointer \in Farms => world[pointer] \in Folders  BY Values
<1>2. pointer \in Farms \cup {"none"}  BY DEF SavesTyped
<1> QED BY <1>1, <1>2 DEF Comes, Loads, Folders

\* The start, the stop and the schedule's stop of the server.
LEMMA ServerTurns ==
    ASSUME SLInv, StartServer \/ StopServer \/ ScheduleStop
    PROVE  SLInv'
<1>1. SavesTyped /\ OnEvent  BY DEF SLInv
<1>2. Owned => act.at = "idle"  BY DEF Owned, LibraryFree
<1>3. act' = act /\ UNCHANGED <<world, removed, zips, waived, maint, saveEvents>>
  BY DEF StartServer, StopServer, ScheduleStop, Disk, ghosts, Cron, diskVars
<1>4. Safe \subseteq Safe'  BY <1>3, SameSafe
<1>5. OnEvent'  BY <1>1, <1>3 DEF OnEvent
<1>6. ASSUME StartServer PROVE SLInv'
  <2>1. UNCHANGED <<loaded, played>> \/ (act.at = "idle" /\ Comes)
    BY <1>2, <1>6 DEF StartServer
  <2>2. SavesTyped'
    BY <1>1, <1>3, <1>6, <2>1, ComesUp, Writes DEF StartServer, Disk, ghosts, SavesTyped
  <2>3. CASE UNCHANGED <<loaded, played>>  BY <1>3, <1>4, <1>5, <2>2, <2>3, SavesAside
  <2>4. CASE act.at = "idle" /\ Comes  BY <1>1, <1>3, <1>4, <1>5, <2>2, <2>4, ComesUp, Serving
  <2> QED BY <2>1, <2>3, <2>4
<1>7. ASSUME StopServer \/ ScheduleStop PROVE SLInv'
  <2>1. UNCHANGED <<loaded, played>> \/ (loaded' = "none" /\ played' = 0)
    BY <1>7 DEF StopServer, ScheduleStop, Game
  <2>2. SavesTyped'
    BY <1>1, <1>3, <1>7, <2>1, Writes DEF StopServer, ScheduleStop, Cron, Disk, ghosts, diskVars, SavesTyped
  <2>3. CASE UNCHANGED <<loaded, played>>  BY <1>3, <1>4, <1>5, <2>2, <2>3, SavesAside
  <2>4. CASE loaded' = "none" /\ played' = 0  BY <1>3, <1>4, <1>5, <2>2, <2>4, Serving
  <2> QED BY <2>1, <2>3, <2>4
<1> QED BY <1>6, <1>7

\* The game writes while a save is not being restored; a save on its way out is given up.
LEMMA Writing ==
    ASSUME SLInv, GameSaved
    PROVE  SLInv'
<1> DEFINE c == [take |-> taken', day |-> played']
<1>1. SavesTyped /\ OnEvent /\ Covered /\ Calm  BY DEF SLInv
<1>2. GameSaves \in Nat  BY LibraryAssumption
<1>3. loaded \in Farms /\ act.of \in Farms  BY <1>1, Values DEF SLInv, PlaysOne, GameSaved
<1>4. taken' \in 3..(GameSaves + 3) /\ played' \in Nat  BY <1>1, <1>2 DEF GameSaved, SavesTyped
<1>5. c \in Folders  BY <1>2, <1>4 DEF Folders
<1>6. world' = [world EXCEPT ![loaded] = c]  BY DEF GameSaved
<1>7. c.take = taken'  OBVIOUS
<1> HIDE DEF c
<1>8. /\ world' \in [Farms -> Folders] /\ world'[loaded] = c
      /\ \A f \in Farms : f # loaded => world'[f] = world[f]
  BY <1>1, <1>3, <1>5, <1>6 DEF SavesTyped
<1>9. saveEvents' \in Seq(Farms) /\ Len(saveEvents') = Len(saveEvents) + 1 /\ Len(saveEvents) \in Nat
  BY <1>1, <1>3 DEF GameSaved, SavesTyped
<1>10. SavesTyped'  BY <1>1, <1>4, <1>8, <1>9 DEF GameSaved, SavesTyped
<1>11. OnEvent'
  <2>1. maint.todo \in Seq(Farms)  BY <1>1, Values
  <2>2. Len(maint.todo) \in Nat  BY <2>1
  <2> QED BY <1>1, <1>9, <2>2 DEF GameSaved, OnEvent
<1>12. Safe \subseteq Safe'  BY SameSafe DEF GameSaved
<1>13. Covered'
  <2>1. act' = act  BY DEF GameSaved
  <2>2. CASE act.of = loaded
    <3>1. act.at \notin {"extract", "replace"}  BY <1>1, <1>3, <2>2 DEF Calm, Restores, Farms
    <3>2. act.at \in {"clear", "remove"} => taken' \in Safe'  BY <2>2 DEF GameSaved, Safe
    <3> QED BY <1>7, <1>8, <2>1, <2>2, <3>1, <3>2 DEF Covered
  <2>3. CASE act.of # loaded  BY <1>3, <1>8, <1>12, <2>1, <2>3, StaysCovered
  <2> QED BY <2>2, <2>3
<1>14. Calm' /\ PlaysOne'  BY <1>1, <1>3 DEF GameSaved, Calm, PlaysOne
<1> QED BY <1>10, <1>11, <1>12, <1>13, <1>14, Parts DEF GameSaved

\* A step of what is done with a save keeps the types when its own variables do.
LEMMA ActTyped ==
    ASSUME SLInv, NEW step, Act(step),
           world' \in [Farms -> Folders], pointer' \in Farms \cup {"none"}, zips' \subseteq BackupFiles,
           loaded' \in Farms \cup {"default", "none"}, played' \in Nat, second' \in Nat, act' \in Acts,
           UNCHANGED lfaults \/ LFault
    PROVE  SavesTyped' /\ OnEvent'
<1>1. SavesTyped /\ OnEvent  BY DEF SLInv
<1>2. lfaults' \in 0..LibraryFaults  BY <1>1, LibraryAssumption DEF LFault, SavesTyped
<1> QED BY <1>1, <1>2 DEF Act, SavesTyped, OnEvent

\* When nothing is done any more, nothing has to be covered.
LEMMA Ended ==
    ASSUME act' = NoAct
    PROVE  Covered' /\ Calm'
BY DEF NoAct, Covered, Calm, Restores

\* A removal in whole or in part.
LEMMA Removal ==
    ASSUME SLInv, NEW f \in Farms, NEW ACTION ok, NEW ACTION bad, RemoveAll(f, ok, bad)
    PROVE  world' \in [Farms -> Folders] /\ (UNCHANGED lfaults \/ LFault) /\ (ok \/ bad)
<1>1. world \in [Farms -> Folders] /\ Gone \in Folders /\ Part \in Folders
  BY Writes DEF SLInv, SavesTyped
<1>2. \/ world' = [world EXCEPT ![f] = Gone]
      \/ world' \in {world, [world EXCEPT ![f] = Part]}
  BY DEF RemoveAll
<1>3. world' \in [Farms -> Folders]  BY <1>1, <1>2
<1>4. UNCHANGED lfaults \/ LFault  BY DEF RemoveAll
<1>5. ok \/ bad  BY DEF RemoveAll
<1> QED BY <1>3, <1>4, <1>5

\* What is removed was safe.
LEMMA Dropped ==
    ASSUME SLInv, Safe \subseteq Safe', Drops(act.of), act.at \in {"remove", "replace"} \/ world' = world
    PROVE  removed' \subseteq removed \cup Safe'
BY DEF SLInv, Covered, Drops

\* The entries of a deletion and of a restore.
LEMMA Entering ==
    ASSUME SLInv, DeleteEnter \/ \E z \in zips : RestoreOffline(z) \/ RestoreBackupWithRestart(z)
    PROVE  SLInv'
<1>1. SavesTyped /\ OnEvent /\ PlaysOne  BY DEF SLInv
<1>2. LibraryRequests \in Nat  BY LibraryAssumption
<1>3. UNCHANGED <<world, zips, waived, removed, loaded, played, maint, saveEvents>>
  BY DEF DeleteEnter, RestoreOffline, RestoreBackupWithRestart, Here, Disk, gameVars, ghosts
<1>4. Safe \subseteq Safe' /\ OnEvent'  BY <1>1, <1>3, SameSafe DEF OnEvent
<1>5. ASSUME DeleteEnter PROVE SLInv'
  <2>1. act' = act \/ act' = [NoAct EXCEPT !.at = "predelete", !.of = asked.of]
    BY <1>5 DEF DeleteEnter
  <2>2. act' \in Acts  BY <1>1, <2>1, Writes, Values DEF SavesTyped, Acts, ActSteps, Deletes
  <2>3. act' = act \/ act'.at = "predelete"  BY <2>1 DEF NoAct
  <2>4. SavesTyped'
    BY <1>1, <1>3, <1>5, <2>2, Writes DEF DeleteEnter, Here, Disk, gameVars, SavesTyped
  <2>5. Covered' /\ Calm'  BY <1>3, <1>4, <2>3, StaysCovered DEF SLInv, Covered, Calm, Restores
  <2> QED BY <1>1, <1>3, <1>4, <2>4, <2>5, Parts DEF PlaysOne
<1>6. ASSUME NEW z \in zips, NEW over \in BOOLEAN, NEW asJob \in BOOLEAN,
             act' = [at |-> IF loaded = "none" THEN "open" ELSE "stop", job |-> asJob, of |-> z.of,
                     name |-> [kind |-> z.kind, of |-> z.of, stamp |-> z.stamp], stage |-> Gone,
                     up |-> loaded # "none", over |-> over],
             Request, UNCHANGED <<pointer, policy, second, asked, cron, taken, lfaults, lstops>>
      PROVE  SLInv'
  <2>1. z \in BackupFiles  BY <1>1 DEF SavesTyped
  <2>2. z.of \in Farms /\ [kind |-> z.kind, of |-> z.of, stamp |-> z.stamp] \in Names
    BY <2>1 DEF BackupFiles, Names
  <2>3. act' \in Acts
    <3>1. (IF loaded = "none" THEN "open" ELSE "stop") \in ActSteps /\ (loaded # "none") \in BOOLEAN
      BY DEF ActSteps, Restores
    <3>2. Gone \in Folders  BY <1>1, Writes
    <3> QED BY <1>6, <2>2, <3>1, <3>2 DEF Acts
  <2>4. act'.at = IF loaded = "none" THEN "open" ELSE "stop"  BY <1>6
  <2>5. SavesTyped'  BY <1>1, <1>2, <1>3, <1>6, <2>3 DEF Request, SavesTyped
  <2>6. Covered' /\ Calm'  BY <1>3, <2>4 DEF Covered, Calm, Restores
  <2> QED BY <1>1, <1>3, <1>4, <2>5, <2>6, Parts DEF PlaysOne
<1>7. ASSUME NEW z \in zips, RestoreOffline(z) PROVE SLInv'
  <2>1. PICK over \in BOOLEAN :
            act' = [NoAct EXCEPT !.at = "open", !.of = z.of, !.over = over,
                                 !.name = [kind |-> z.kind, of |-> z.of, stamp |-> z.stamp]]
    BY <1>7 DEF RestoreOffline
  <2>2. loaded = "none" /\ Request /\ UNCHANGED <<pointer, policy, second, asked, cron, taken, lfaults, lstops>>
    BY <1>7 DEF RestoreOffline, LibraryOffline, Here, Disk, gameVars
  <2>3. act' = [at |-> IF loaded = "none" THEN "open" ELSE "stop", job |-> FALSE, of |-> z.of,
                name |-> [kind |-> z.kind, of |-> z.of, stamp |-> z.stamp], stage |-> Gone,
                up |-> loaded # "none", over |-> over]
    BY <2>1, <2>2 DEF NoAct
  <2> QED BY <1>6, <2>2, <2>3
<1>8. ASSUME NEW z \in zips, RestoreBackupWithRestart(z) PROVE SLInv'
  <2>1. PICK over \in BOOLEAN :
            act' = [at |-> IF loaded = "none" THEN "open" ELSE "stop", job |-> TRUE, of |-> z.of,
                    name |-> [kind |-> z.kind, of |-> z.of, stamp |-> z.stamp], stage |-> Gone,
                    up |-> loaded # "none", over |-> over]
    BY <1>8 DEF RestoreBackupWithRestart
  <2>2. Request /\ UNCHANGED <<pointer, policy, second, asked, cron, taken, lfaults, lstops>>
    BY <1>8 DEF RestoreBackupWithRestart, Here, Disk, gameVars
  <2> QED BY <1>6, <2>1, <2>2
<1> QED BY <1>5, <1>7, <1>8

\* A backup before a save is removed covers it.
LEMMA Protecting ==
    ASSUME SLInv, BackupPreDelete \/ BackupPreRestore
    PROVE  SLInv'
<1>1. SavesTyped /\ OnEvent /\ PlaysOne /\ Calm /\ act.of \in Farms /\ world[act.of] \in Folders
  BY Values DEF SLInv
<1>2. PICK kind \in {"predelete", "prerestore"}, next \in {"clear", "extract"} :
          /\ BackupUnique(kind, act.of, world[act.of], Then(next), Leaves) /\ Act(act.at)
          /\ act.at = IF next = "clear" THEN "predelete" ELSE "protect"
          /\ UNCHANGED <<world, pointer, removed, loaded, played>>
  BY DEF BackupPreDelete, BackupPreRestore, RestoreFails, Act, Game
<1>3. kind \in BackupKinds \ {"auto"}  BY DEF BackupKinds
<1>4. Filed(kind, act.of, world[act.of]) /\ (UNCHANGED lfaults \/ LFault) /\ (Then(next) \/ Leaves)
      /\ (Leaves \/ zips' = (zips \ Named(Name(kind, act.of))) \cup {File(Name(kind, act.of), world[act.of])})
  BY <1>2, BackupFiled
<1>5. zips' \subseteq BackupFiles /\ second' \in Nat /\ Safe \subseteq Safe'
      /\ (Leaves \/ world[act.of].take \in Safe')
  BY <1>1, <1>3, <1>4, FiledSafe
<1>6. next \in ActSteps  BY DEF ActSteps, Deletes, Restores
<1>7. act' \in Acts  BY <1>1, <1>4, <1>6, Writes DEF Then, Leaves
<1>8. SavesTyped' /\ OnEvent'  BY <1>1, <1>2, <1>4, <1>5, <1>7, ActTyped DEF SavesTyped
<1>9. Covered' /\ Calm'
  <2>1. CASE Leaves  BY <2>1, Ended DEF Leaves
  <2>2. CASE ~Leaves
    <3>1. act' = [act EXCEPT !.at = next]  BY <1>4, <2>2 DEF Then
    <3>2. act'.of = act.of /\ act'.at = next  BY <1>1, <3>1 DEF SavesTyped, Acts
    <3> QED BY <1>1, <1>2, <1>5, <2>2, <3>2 DEF Covered, Calm, Restores
  <2> QED BY <2>1, <2>2
<1>10. PlaysOne'  BY <1>1, <1>2 DEF PlaysOne
<1> QED BY <1>2, <1>5, <1>8, <1>9, <1>10, Parts

\* The steps of a deletion or a restore that leave the saves and their backups alone.
LEMMA Onward ==
    ASSUME SLInv, NEW step, Act(step), UNCHANGED <<world, zips, waived, removed, second>>,
           pointer' \in Farms \cup {"none"}, UNCHANGED lfaults \/ LFault, act' \in Acts, act' = NoAct \/ act'.of = act.of,
           loaded' \in Farms \cup {"default", "none"}, played' \in Nat, played' > 0 => loaded' \in Farms,
           act'.at \in {"clear", "remove", "extract", "replace"} =>
               act.at \in {"clear", "remove", "extract", "replace"} \/ ~Whole(world[act.of]),
           act'.at \in Restores => loaded' = "none"
    PROVE  SLInv'
<1>1. Safe \subseteq Safe'  BY SameSafe
<1>2. SavesTyped' /\ OnEvent'  BY ActTyped DEF SLInv, SavesTyped
<1>3. Covered'
  <2>1. CASE act' = NoAct  BY <2>1, Ended
  <2>2. CASE act'.of = act.of  BY <1>1, <2>2 DEF SLInv, Covered
  <2> QED BY <2>1, <2>2
<1> QED BY <1>1, <1>2, <1>3, Parts DEF Calm, PlaysOne

\* The pointer is cleared, the server stopped and started, the backup opened and unpacked.
LEMMA Onwards ==
    ASSUME SLInv, ClearPointer \/ RestoreStops \/ OpenBackup \/ ExtractBackup \/ RestoreStarts
    PROVE  SLInv'
<1>1. SavesTyped /\ PlaysOne /\ Calm  BY DEF SLInv
<1>2. act.of \in Farms /\ world[act.of] \in Folders /\ pointer \in Farms \cup {"none"}
  BY <1>1, Values DEF SavesTyped
<1>3. /\ loaded \in Farms \cup {"default", "none"} /\ played \in Nat /\ (played > 0 => loaded \in Farms)
  BY <1>1 DEF SavesTyped, PlaysOne
<1>4. NoAct \in Acts /\ NoAct.at = "idle"  BY <1>1, Writes DEF NoAct
<1>5. \A s \in ActSteps : /\ [act EXCEPT !.at = s] \in Acts
                          /\ [act EXCEPT !.at = s].of = act.of /\ [act EXCEPT !.at = s].at = s
  BY <1>1, Writes DEF SavesTyped, Acts
<1>6. {"remove", "open", "extract", "protect", "replace"} \subseteq ActSteps
  BY DEF ActSteps, Deletes, Restores
<1>7. ASSUME ClearPointer PROVE SLInv'
  <2>1. /\ Act("clear") /\ UNCHANGED <<world, zips, waived, removed, second, loaded, played>>
        /\ pointer' \in {pointer, "none"} /\ (UNCHANGED lfaults \/ LFault) /\ act.at = "clear"
        /\ act' \in {NoAct, [act EXCEPT !.at = "remove", !.up = TRUE], [act EXCEPT !.at = "remove"]}
    BY <1>7 DEF ClearPointer, Game, ghosts, Then, Leaves, Act
  <2>2. /\ [act EXCEPT !.at = "remove", !.up = TRUE] \in Acts
        /\ [act EXCEPT !.at = "remove", !.up = TRUE].of = act.of
        /\ [act EXCEPT !.at = "remove", !.up = TRUE].at = "remove"
    BY <1>1, <1>6 DEF SavesTyped, Acts
  <2>3. act' \in Acts /\ (act' = NoAct \/ act'.of = act.of) /\ act'.at \in {"idle", "remove"}
    BY ZenonT(60), <1>4, <1>5, <1>6, <2>1, <2>2
  <2>4. act'.at \notin Restores  BY <2>3 DEF Restores
  <2> QED BY <1>2, <1>3, <2>1, <2>3, <2>4, Onward
<1>8. ASSUME RestoreStops PROVE SLInv'
  <2>1. /\ Act("stop") /\ UNCHANGED <<world, zips, waived, removed, second, pointer>>
        /\ UNCHANGED lfaults \/ LFault
        /\ \/ act' = NoAct /\ UNCHANGED <<loaded, played>>
           \/ act' = [act EXCEPT !.at = "open"] /\ loaded' = "none" /\ played' = 0
    BY <1>8 DEF RestoreStops, Game, ghosts, Then, RestoreFails, Leaves
  <2>2. act' \in Acts /\ (act' = NoAct \/ act'.of = act.of) /\ act'.at \in {"idle", "open"}
    <3>1. /\ [act EXCEPT !.at = "open"] \in Acts
          /\ [act EXCEPT !.at = "open"].of = act.of /\ [act EXCEPT !.at = "open"].at = "open"
      BY <1>5, <1>6
    <3>2. act' = NoAct \/ act' = [act EXCEPT !.at = "open"]  BY <2>1
    <3> QED BY <1>4, <3>1, <3>2
  <2>3. act'.at \in Restores => loaded' = "none"  BY <1>4, <2>1 DEF Restores
  <2> QED BY <1>2, <1>3, <2>1, <2>2, <2>3, Onward
<1>9. ASSUME OpenBackup PROVE SLInv'
  <2>1. /\ Act("open") /\ UNCHANGED <<world, zips, waived, removed, second, pointer, loaded, played>>
        /\ UNCHANGED lfaults /\ act.at = "open"
        /\ \/ act' = NoAct
           \/ act' = [act EXCEPT !.at = "protect"]
           \/ act' = [act EXCEPT !.at = "extract"] /\ world[act.of] = Gone
    BY <1>9 DEF OpenBackup, Game, ghosts, Then, RestoreFails, Leaves, Act, ValidateSaveExists
  <2>2. /\ act' \in Acts /\ (act' = NoAct \/ act'.of = act.of)
        /\ act'.at \in {"idle", "protect"} \/ world[act.of] = Gone
    <3>1. \A s \in {"protect", "extract"} : /\ [act EXCEPT !.at = s] \in Acts
                                           /\ [act EXCEPT !.at = s].of = act.of /\ [act EXCEPT !.at = s].at = s
      BY <1>5, <1>6
    <3>2. CASE act' = NoAct  BY <1>4, <3>2
    <3>3. CASE act' = [act EXCEPT !.at = "protect"]  BY <3>1, <3>3
    <3>4. CASE act' = [act EXCEPT !.at = "extract"] /\ world[act.of] = Gone  BY <3>1, <3>4
    <3> QED BY <2>1, <3>2, <3>3, <3>4
  <2>3. ~Whole(Gone) /\ loaded = "none"  BY <1>1, <2>1 DEF Whole, Gone, Calm, Restores
  <2>4. loaded' = "none"  BY <2>1, <2>3
  <2> QED BY <1>2, <1>3, <2>1, <2>2, <2>3, <2>4, Onward
<1>10. ASSUME ExtractBackup PROVE SLInv'
  <2>1. /\ Act("extract") /\ UNCHANGED <<world, zips, waived, removed, second, pointer, loaded, played>>
        /\ (UNCHANGED lfaults \/ LFault) /\ act.at = "extract"
        /\ \/ act' = NoAct
           \/ \E z \in zips : act' = [act EXCEPT !.at = "replace", !.stage = Content(z)]
    BY <1>10 DEF ExtractBackup, Game, ghosts, RestoreFails, Leaves, Act, Named
  <2>2. \A z \in zips : Content(z) \in Folders
    BY <1>1 DEF SavesTyped, BackupFiles, Folders, Content
  <2>3. \A c \in Folders : /\ [act EXCEPT !.at = "replace", !.stage = c] \in Acts
                           /\ [act EXCEPT !.at = "replace", !.stage = c].of = act.of
    BY <1>1, <1>6 DEF SavesTyped, Acts
  <2>4. act' \in Acts /\ (act' = NoAct \/ act'.of = act.of)  BY <1>4, <2>1, <2>2, <2>3
  <2>5. loaded' = "none"  BY <1>1, <2>1 DEF Calm, Restores
  <2> QED BY <1>2, <1>3, <2>1, <2>4, <2>5, Onward
<1>11. ASSUME RestoreStarts PROVE SLInv'
  <2>1. /\ Act("start") /\ UNCHANGED <<world, zips, waived, removed, second, pointer>>
        /\ (UNCHANGED lfaults \/ LFault) /\ act' = NoAct
        /\ Comes \/ UNCHANGED <<loaded, played>>
    BY <1>11 DEF RestoreStarts, Game, ghosts, Leaves
  <2>2. /\ loaded' \in Farms \cup {"default", "none"} /\ played' \in Nat
        /\ played' > 0 => loaded' \in Farms
    BY <1>1, <1>3, <2>1, ComesUp
  <2>3. act'.at \notin Restores /\ act'.at \notin {"clear", "remove", "extract", "replace"}
    BY <1>4, <2>1 DEF Restores
  <2> QED BY <1>2, <1>4, <2>1, <2>2, <2>3, Onward
<1> QED BY <1>7, <1>8, <1>9, <1>10, <1>11

\* A save is removed, replaced, or lost in part with the panel.
LEMMA Removing ==
    ASSUME SLInv, DeleteSave \/ RemoveReplaced \/ MoveRestored \/ PanelDies
    PROVE  SLInv'
<1>1. SavesTyped /\ PlaysOne /\ Calm /\ OnEvent  BY DEF SLInv
<1>2. /\ act.of \in Farms /\ pointer \in Farms \cup {"none"} /\ act.stage \in Folders
      /\ world \in [Farms -> Folders] /\ second \in Nat /\ zips \subseteq BackupFiles
      /\ loaded \in Farms \cup {"default", "none"} /\ played \in Nat
  BY <1>1, Values DEF SavesTyped
<1>3. UNCHANGED <<loaded, played, zips, waived, second>>
  BY DEF DeleteSave, RemoveReplaced, MoveRestored, PanelDies, Game, ghosts, gameVars
<1>4. Safe \subseteq Safe' /\ PlaysOne'  BY <1>1, <1>3, SameSafe DEF PlaysOne
<1>5. NoAct \in Acts /\ \A s \in ActSteps : [act EXCEPT !.at = s] \in Acts /\ [act EXCEPT !.at = s].at = s
  BY <1>1, Writes DEF SavesTyped, Acts
<1>6. {"rename", "start"} \subseteq ActSteps  BY DEF ActSteps, Restores
<1>7. ASSUME DeleteSave PROVE SLInv'
  <2>1. /\ Act("remove") /\ act.at = "remove" /\ Drops(act.of) /\ act' = NoAct
        /\ RemoveAll(act.of, UNCHANGED pointer, pointer' = IF act.up THEN act.of ELSE pointer)
    BY <1>7 DEF DeleteSave, Act, Leaves
  <2>2. /\ world' \in [Farms -> Folders] /\ (UNCHANGED lfaults \/ LFault)
        /\ UNCHANGED pointer \/ pointer' = IF act.up THEN act.of ELSE pointer
    BY <1>2, <2>1, Removal
  <2>3. pointer' \in Farms \cup {"none"}  BY <1>2, <2>2
  <2>4. SavesTyped' /\ OnEvent'  BY <1>2, <1>3, <1>5, <2>1, <2>2, <2>3, ActTyped
  <2>5. removed' \subseteq removed \cup Safe'  BY <1>4, <2>1, Dropped
  <2> QED BY <1>4, <2>1, <2>4, <2>5, Ended, Parts
<1>8. ASSUME RemoveReplaced PROVE SLInv'
  <2>1. /\ Act("replace") /\ act.at = "replace" /\ Drops(act.of) /\ pointer' = pointer
        /\ RemoveAll(act.of, Then("rename"), RestoreFails)
    BY <1>8 DEF RemoveReplaced, Act
  <2>2. /\ world' \in [Farms -> Folders] /\ (UNCHANGED lfaults \/ LFault) /\ (Then("rename") \/ RestoreFails)
    BY <1>2, <2>1, Removal
  <2>3. act' \in Acts /\ (act' = NoAct \/ act'.at = "rename")
    BY <1>5, <1>6, <2>2 DEF Then, RestoreFails, Leaves
  <2>4. SavesTyped' /\ OnEvent'  BY <1>2, <1>3, <2>1, <2>2, <2>3, ActTyped
  <2>5. removed' \subseteq removed \cup Safe'  BY <1>4, <2>1, Dropped
  <2>6. Covered' /\ Calm'
    <3>1. loaded' = "none"  BY <1>1, <1>3, <2>1 DEF Calm, Restores
    <3> QED BY <2>3, <3>1, Ended DEF Covered, Calm
  <2> QED BY <1>4, <2>4, <2>5, <2>6, Parts
<1>9. ASSUME MoveRestored PROVE SLInv'
  <2>1. /\ Act("rename") /\ act.at = "rename" /\ removed' = removed /\ pointer' = pointer
        /\ (UNCHANGED lfaults \/ LFault) /\ (act' = NoAct \/ act' = [act EXCEPT !.at = "start"])
        /\ world' \in {world, [world EXCEPT ![act.of] = act.stage]}
    BY <1>9 DEF MoveRestored, Act, RestoreFails, Leaves, Then, ghosts
  <2>2. world' \in [Farms -> Folders] /\ act' \in Acts /\ (act' = NoAct \/ act'.at = "start")
    BY <1>2, <1>5, <1>6, <2>1
  <2>3. SavesTyped' /\ OnEvent'  BY <1>2, <1>3, <2>1, <2>2, ActTyped
  <2>4. Covered' /\ Calm'  BY <2>2, Ended DEF Covered, Calm, Restores
  <2> QED BY <1>4, <2>1, <2>3, <2>4, Parts
<1>10. ASSUME PanelDies PROVE SLInv'
  <2>1. /\ asked' = NoAsk /\ act' = NoAct /\ maint' = NoMaint /\ cron' = NoCron /\ Drops(act.of)
        /\ lstops' = lstops + 1 /\ lstops < LibraryStops
        /\ UNCHANGED <<pointer, saveEvents, policy, taken, requests, lfaults>>
    BY <1>10 DEF PanelDies, gameVars
  <2>2. \/ act.at \in {"remove", "replace"} /\ world' \in {world, [world EXCEPT ![act.of] = Part]}
        \/ world' = world
    BY <1>10 DEF PanelDies
  <2>3. world' \in [Farms -> Folders]  BY <1>1, <1>2, <2>2, Writes
  <2>4. lstops' \in 0..LibraryStops  BY <1>1, <2>1, LibraryAssumption DEF SavesTyped
  <2>5. SavesTyped'  BY <1>1, <1>3, <2>1, <2>3, <2>4, Writes DEF SavesTyped
  <2>6. OnEvent'
    <3>1. Len(saveEvents) \in Nat  BY <1>1 DEF SavesTyped
    <3> QED BY <2>1, <3>1 DEF OnEvent, NoMaint
  <2>7. removed' \subseteq removed \cup Safe'  BY <1>4, <2>1, <2>2, Dropped
  <2> QED BY <1>4, <2>1, <2>5, <2>6, <2>7, Ended, Parts
<1> QED BY <1>7, <1>8, <1>9, <1>10

\* The invariant of the saves: what the panel removes was filed first, and stays filed.
THEOREM SaveInvariant == LibrarySpec => []SLInv
<1>1. LibraryInit => SLInv
  <2> SUFFICES ASSUME LibraryInit PROVE SLInv
    OBVIOUS
  <2>1. world \in [Farms -> Folders]  BY LibraryAssumption DEF LibraryInit, Folders
  <2>2. act = NoAct /\ maint = NoMaint /\ cron = NoCron /\ asked = NoAsk  BY DEF LibraryInit
  <2>3. /\ NoAct \in Acts /\ NoMaint \in Maints /\ NoCron \in Crons
        /\ NoAsk \in [kind : {"none", "delete", "start", "restart"}, of : Farms, seen : BOOLEAN]
    <3>1. Gone \in Folders  BY LibraryAssumption DEF Gone, Folders
    <3>2. NoFile \in Names  BY DEF NoFile, Names, BackupKinds, Farms
    <3>3. NoAct \in Acts  BY <3>1, <3>2 DEF NoAct, Acts, ActSteps, Farms
    <3>4. NoMaint \in Maints  BY <3>1 DEF NoMaint, Maints
    <3>5. NoCron \in Crons  BY <3>1 DEF NoCron, Crons, Farms
    <3> QED BY <3>3, <3>4, <3>5 DEF NoAsk, Farms
  <2>4. SavesTyped  BY <2>1, <2>2, <2>3, LibraryAssumption DEF LibraryInit, SavesTyped, Farms
  <2>5. OnEvent /\ Covered /\ Calm
    BY <2>2 DEF LibraryInit, OnEvent, Covered, Calm, NoAct, NoMaint, Restores
  <2>6. RemovedSafe /\ PlaysOne  BY DEF LibraryInit, RemovedSafe, PlaysOne
  <2> QED BY <2>4, <2>5, <2>6 DEF SLInv
<1>2. SLInv /\ [LibraryNext]_libraryVars => SLInv'
  <2> SUFFICES ASSUME SLInv, [LibraryNext]_libraryVars PROVE SLInv'
    OBVIOUS
  <2>1. CASE LibraryNext
    BY <2>1, Asking, Backing, ServerTurns, Writing, Entering, Protecting, Onwards, Removing
       DEF LibraryNext, RestoreSteps, MaintSteps
  <2>2. CASE UNCHANGED libraryVars
    <3>1. UNCHANGED <<world, pointer, zips, saveEvents, policy, loaded, played, taken, second, asked, act, maint, cron,
                      requests, lfaults, lstops, removed, waived>>
      BY <2>2 DEF libraryVars, diskVars, gameVars, ghosts
    <3>2. SavesTyped' /\ OnEvent'  BY <3>1 DEF SLInv, SavesTyped, OnEvent
    <3> QED BY <3>1, <3>2, SameSafe, SavesAside
  <2> QED BY <2>1, <2>2
<1> QED BY <1>1, <1>2, PTL DEF LibrarySpec

\* Every variable of the saves keeps its type.
THEOREM SaveTypes == LibrarySpec => []LibraryTypeOK
<1>1. SLInv => LibraryTypeOK
  BY DEF SLInv, SavesTyped, LibraryTypeOK, BackupFiles, BackupKinds, Folders, Maints, Crons
<1> QED BY <1>1, SaveInvariant, PTL

\* Every write of the game the panel removed from Saves/, by a deletion, a restore or a
\* death in between, is in a backup, or given up by an administrator.
THEOREM WorldKeptHolds == LibrarySpec => []WorldKept
<1>1. SLInv => WorldKept  BY DEF SLInv, RemovedSafe, Safe, Takes, WorldKept
<1> QED BY <1>1, SaveInvariant, PTL


(***************************************************************************)
(* The Mods and their profiles.                                            *)
(***************************************************************************)

Profiles == [has : BOOLEAN, default : BOOLEAN, mods : [Mods -> {"unset", "on", "off"}]]
ModsTyped ==
    /\ place \in [Mods -> {"none", "on", "off"}] /\ aside \subseteq Mods /\ duplicates \subseteq Bundled
    /\ profile \in [Slots -> Profiles] /\ selected \in Slots /\ creating \in BOOLEAN
    /\ run \in [up : BOOLEAN, save : Slots, mods : SUBSET Mods, by : {"start", "restart"}]
    /\ owed \subseteq Mods /\ spilled \subseteq Mods /\ unlucky \subseteq Mods

\* A new game runs what is on, and its save has no profile yet.
NewGameRuns ==
    creating => /\ run.up /\ run.save = "b" /\ run.mods = Active
                /\ ~profile["b"].has

MInv == ModsTyped /\ ModsKept /\ StartsAsProfiled /\ NewGameRuns

\* From an installed Mod, the walk along the relationships reaches the least set of installed
\* Mods that holds it and is closed under them.
LEMMA WalkReaches ==
    ASSUME NEW m \in Installed, NEW edges \in SUBSET (Installed \X Installed)
    PROVE  /\ Walk(m, edges) \subseteq Installed /\ m \in Walk(m, edges)
           /\ \A e \in edges : e[1] \in Walk(m, edges) => e[2] \in Walk(m, edges)
<1> DEFINE Closed(S) == m \in S /\ \A e \in edges : e[1] \in S => e[2] \in S
           least == {x \in Installed : \A S \in SUBSET Installed : Closed(S) => x \in S}
           Least(S) == Closed(S) /\ \A T \in SUBSET Installed : Closed(T) => S \subseteq T
<1>1. Closed(least)
  <2>1. m \in least  OBVIOUS
  <2>2. ASSUME NEW e \in edges, e[1] \in least PROVE e[2] \in least
    <3>1. e[2] \in Installed  OBVIOUS
    <3>2. ASSUME NEW S \in SUBSET Installed, Closed(S) PROVE e[2] \in S
      BY <2>2, <3>2
    <3> QED BY <3>1, <3>2
  <2> QED BY <2>1, <2>2
<1>2. least \in SUBSET Installed /\ Least(least)  BY <1>1
<1>3. Walk(m, edges) = CHOOSE S \in SUBSET Installed : Least(S)  BY DEF Walk
<1> HIDE DEF least, Least
<1>4. Walk(m, edges) \in SUBSET Installed /\ Least(Walk(m, edges))  BY <1>2, <1>3
<1> QED BY <1>4 DEF Least

\* Folders that are moved stay: what was installed is installed.
Places    == [Mods -> {"none", "on", "off"}]
Stays(at) == at \in Places /\ \A m \in Mods : place[m] # "none" => at[m] # "none"

\* Moving folders to where they stay, some of them or all,
LEMMA MovedStays ==
    ASSUME ModsTyped, NEW to, Stays(to), NEW done
    PROVE  Stays(Moved(to, done))
BY DEF ModsTyped, Moved, Stays, Places

\* to where a profile wants them,
LEMMA WantedStays ==
    ASSUME ModsTyped, NEW p \in Profiles
    PROVE  Stays(Wanted(p))
BY DEF ModsTyped, Wanted, Stays, Places

\* or part of the way leaves every folder somewhere.
LEMMA PartwayStays ==
    ASSUME ModsTyped, NEW to, Stays(to), NEW at \in Partway(to)
    PROVE  Stays(at)
BY MovedStays DEF Partway

\* A profile applied, whole or in part, moves folders and nothing else.
LEMMA ApplyStays ==
    ASSUME ModsTyped, NEW p \in Profiles, ApplyProfile(p)
    PROVE  Stays(place')
BY WantedStays, MovedStays, PartwayStays DEF ApplyProfile

\* A profile in which Mods are marked is a profile.
LEMMA MarkedTyped ==
    ASSUME NEW p \in Profiles, NEW mods, NEW on \in BOOLEAN
    PROVE  Marked(p, mods, on) \in Profiles /\ Marked(p, mods, on).has
BY DEF Marked, Profiles

\* Mods that arrive are installed, and nothing that was installed goes.
LEMMA AdoptStays ==
    ASSUME ModsTyped, NEW new \in SUBSET Mods
    PROVE  /\ Stays(Adopt(new)) /\ \A m \in new : Adopt(new)[m] # "none"
           /\ Adopted(new) \in Profiles
<1>1. profile[selected] \in Profiles  BY DEF ModsTyped
<1>2. Adopted(new) \in Profiles  BY <1>1, MarkedTyped DEF Adopted
<1> QED BY <1>2 DEF ModsTyped, Adopt, With, Stays, Places

\* What is there when the arrival of Mods stops in between.
LEMMA HalfwayStays ==
    ASSUME ModsTyped, NEW new \in SUBSET Mods, Halfway(new)
    PROVE  Stays(place') /\ profile' \in [Slots -> Profiles]
<1>1. profile' \in [Slots -> Profiles]  BY AdoptStays DEF Halfway, ModsTyped
<1>2. PICK done \in SUBSET new, moved \in SUBSET Installed :
         place' = [m \in Mods |-> IF m \in moved /\ profile' # profile THEN Adopt(new)[m] ELSE With(done)[m]]
  BY DEF Halfway
<1>3. Stays(With(done))  BY DEF ModsTyped, With, Stays, Places
<1> QED BY <1>1, <1>2, <1>3, AdoptStays DEF Stays, Places

\* What stays is kept.
LEMMA StayKept ==
    ASSUME ModsTyped, ModsKept, Stays(place'),
           aside \subseteq aside', spilled \subseteq spilled', unlucky \subseteq unlucky',
           \A m \in owed' \ owed : place'[m] # "none", owed' \subseteq Mods
    PROVE  ModsKept'
BY DEF ModsTyped, ModsKept, Installed, Stays

\* With the server down and no new game being made, nothing is said of what runs.
LEMMA Offline ==
    ASSUME MInv, ModsOffline, ModsTyped', ModsKept', UNCHANGED <<run, creating>>
    PROVE  MInv'
BY DEF MInv, ModsOffline, StartsAsProfiled, NewGameRuns

\* The operations on profiles and folders.
LEMMA ProfileSteps ==
    ASSUME MInv,
           \/ \E s \in Slots, on \in BOOLEAN : SetAllModsEnabled(s, on) \/ \E m \in Mods : SetModEnabled(s, m, on)
           \/ \E s \in Slots : SelectSlot(s)
           \/ PrepareNewGameMods
    PROVE  MInv'
<1> USE DEF ModsTyped, Idle
<1>1. ModsTyped /\ ModsKept  BY DEF MInv
<1>2. ASSUME NEW s \in Slots, NEW p \in Profiles, ModsOffline, WriteProfile(s, p), Idle, UNCHANGED selected
      PROVE  MInv'
  <2>1. profile[s] \in Profiles /\ profile' \in [Slots -> Profiles]
    BY <1>1, <1>2 DEF WriteProfile
  <2>2. Stays(place')
    <3>1. CASE ApplyProfile(p)  BY <1>1, <3>1, ApplyStays
    <3>2. CASE UNCHANGED place  BY <1>1, <3>2 DEF Stays, Places
    <3> QED BY <1>2, <3>1, <3>2 DEF WriteProfile
  <2>3. ModsTyped'  BY <1>1, <1>2, <2>1, <2>2 DEF Stays, Places
  <2>4. ModsKept'  BY <1>1, <1>2, <2>2, StayKept
  <2> QED BY <1>2, <2>3, <2>4, Offline
<1>3. ASSUME NEW s \in Slots, NEW on \in BOOLEAN, SetAllModsEnabled(s, on)
      PROVE  MInv'
  <2>1. Marked(profile[s], Installed, on) \in Profiles  BY <1>1, MarkedTyped
  <2> QED BY <1>2, <1>3, <2>1 DEF SetAllModsEnabled
<1>4. ASSUME NEW s \in Slots, NEW on \in BOOLEAN, NEW m \in Mods, SetModEnabled(s, m, on)
      PROVE  MInv'
  <2>1. Marked(profile[s], IF on THEN EnableClosure(m) ELSE DisableClosure(m), on) \in Profiles
    BY <1>1, MarkedTyped
  <2> QED BY <1>2, <1>4, <2>1 DEF SetModEnabled
<1>5. ASSUME NEW s \in Slots, SelectSlot(s)
      PROVE  MInv'
  <2>1. profile[s] \in Profiles /\ Stays(place')  BY <1>1, <1>5, ApplyStays DEF SelectSlot
  <2>2. ModsTyped'  BY <1>1, <1>5, <2>1 DEF Stays, Places, SelectSlot
  <2>3. ModsKept'  BY <1>1, <1>5, <2>1, StayKept DEF SelectSlot
  <2> QED BY <1>5, <2>2, <2>3, Offline DEF SelectSlot
<1>6. ASSUME PrepareNewGameMods
      PROVE  MInv'
  <2> DEFINE to == [m \in Mods |-> IF m \in EnableClosure("pack") THEN "on" ELSE place[m]]
  <2>1. Stays(to)  BY <1>1 DEF Stays, Places
  <2>2. Stays(place')
    <3>1. place' = to \/ UNCHANGED place \/ place' \in Partway(to)
      BY <1>6 DEF PrepareNewGameMods
    <3>2. Stays(place)  BY <1>1 DEF Stays, Places
    <3> HIDE DEF to
    <3> QED BY <1>1, <2>1, <3>1, <3>2, PartwayStays
  <2>3. ModsOffline /\ Idle /\ UNCHANGED <<profile, selected>>  BY <1>6 DEF PrepareNewGameMods
  <2> HIDE DEF to
  <2>4. ModsTyped'  BY <1>1, <2>2, <2>3 DEF Stays, Places
  <2>5. ModsKept'  BY <1>1, <2>2, <2>3, StayKept
  <2> QED BY <2>3, <2>4, <2>5, Offline
<1> QED BY <1>3, <1>4, <1>5, <1>6

\* An update, a deletion, an installation.
LEMMA ModSteps ==
    ASSUME MInv,
           \/ \E m \in Mods : DeleteMod(m) \/ UpdateMod(m)
           \/ \E new \in SUBSET Mods : InstallFetched(new) \/ \E refused \in BOOLEAN : UploadMods(new, refused)
    PROVE  MInv'
<1> USE DEF ModsTyped
<1>1. ModsTyped /\ ModsKept /\ Stays(place)  BY DEF MInv, Stays, Places
<1>2. ASSUME NEW m \in Mods, DeleteMod(m)
      PROVE  MInv'
  <2>1. PICK gone \in SUBSET Bundle(m) : place' = Without(gone)  BY <1>2 DEF DeleteMod
  <2>2. /\ UNCHANGED <<aside, duplicates, profile, run, creating, selected, spilled, unlucky>>
        /\ owed' = owed \ Bundle(m) /\ ModsOffline
    BY <1>2 DEF DeleteMod
  <2>3. ModsTyped'  BY <1>1, <2>1, <2>2 DEF Without
  <2>4. ModsKept'  BY <1>1, <2>1, <2>2 DEF ModsKept, Without, Installed
  <2> QED BY <2>2, <2>3, <2>4, Offline
<1>3. ASSUME NEW m \in Mods, UpdateMod(m)
      PROVE  MInv'
  <2>1. /\ UNCHANGED <<duplicates, profile, run, creating, selected, owed, spilled>> /\ ModsOffline
        /\ place' \in {place, Without({m})}
        /\ aside' \in {aside, aside \cup {m}} /\ unlucky' \in {unlucky, unlucky \cup {m}}
        /\ place' # place => m \in aside' \cup unlucky'
    BY <1>3 DEF UpdateMod
  <2>2. ModsTyped'  BY <1>1, <2>1 DEF Without
  <2>3. ModsKept'  BY <1>1, <2>1 DEF ModsKept, Without, Installed
  <2> QED BY <2>1, <2>2, <2>3, Offline
<1>4. ASSUME NEW new \in SUBSET Mods, InstallFetched(new)
      PROVE  MInv'
  <2> DEFINE fresh == new \ Installed
  <2>1. /\ UNCHANGED <<aside, duplicates, run, creating, selected, spilled, unlucky>> /\ ModsOffline
        /\ \/ Arrives(fresh)
           \/ UNCHANGED <<place, profile, owed>>
           \/ Halfway(fresh) /\ (\A m \in fresh : place'[m] # "none") /\ owed' = owed \cup fresh
           \/ Halfway(fresh) /\ UNCHANGED owed
    BY <1>4 DEF InstallFetched
  <2>2. fresh \in SUBSET Mods  OBVIOUS
  <2> HIDE DEF fresh
  <2>3. /\ Stays(place') /\ profile' \in [Slots -> Profiles] /\ owed' \subseteq Mods
        /\ \A m \in owed' \ owed : place'[m] # "none"
    <3>1. CASE Arrives(fresh)  BY <1>1, <2>2, <3>1, AdoptStays DEF Arrives
    <3>2. CASE UNCHANGED <<place, profile, owed>>  BY <1>1, <3>2 DEF Stays
    <3>3. CASE Halfway(fresh) /\ (\A m \in fresh : place'[m] # "none") /\ owed' = owed \cup fresh
      BY <1>1, <2>2, <3>3, HalfwayStays
    <3>4. CASE Halfway(fresh) /\ UNCHANGED owed  BY <1>1, <2>2, <3>4, HalfwayStays
    <3> QED BY <2>1, <3>1, <3>2, <3>3, <3>4
  <2>4. ModsTyped'  BY <1>1, <2>1, <2>3 DEF Stays, Places
  <2>5. ModsKept'  BY <1>1, <2>1, <2>3, StayKept
  <2> QED BY <2>1, <2>4, <2>5, Offline
<1>5. ASSUME NEW new \in SUBSET Mods, NEW refused \in BOOLEAN, UploadMods(new, refused)
      PROVE  MInv'
  <2>1. UNCHANGED <<aside, duplicates, run, creating, selected, unlucky>> /\ ModsOffline
    BY <1>5 DEF UploadMods
  <2>2. ASSUME NEW done, NEW at, Stays(at), RollbackImported(done, at), profile' \in [Slots -> Profiles], UNCHANGED owed
        PROVE  MInv'
    <3> DEFINE gone == {m \in Mods : \E d \in done : Page(d) = Page(m)}
    <3>1. /\ place' = [m \in Mods |-> IF m \in gone THEN "none" ELSE at[m]]
          /\ spilled' = spilled \cup (owed \cap gone)
      BY <2>2 DEF RollbackImported
    <3> HIDE DEF gone
    <3>2. ModsTyped'  BY <1>1, <2>1, <2>2, <3>1 DEF Stays, Places
    <3>3. ModsKept'  BY <1>1, <2>1, <2>2, <3>1 DEF Stays, Places, ModsKept, Installed
    <3> QED BY <2>1, <3>2, <3>3, Offline
  <2>3. CASE Arrives(new) /\ UNCHANGED spilled
    <3>1. /\ Stays(place') /\ profile' \in [Slots -> Profiles] /\ owed' \subseteq Mods
          /\ \A m \in owed' \ owed : place'[m] # "none"
      BY <1>1, <2>3, AdoptStays DEF Arrives
    <3>2. ModsTyped'  BY <1>1, <2>1, <2>3, <3>1 DEF Stays, Places
    <3>3. ModsKept'  BY <1>1, <2>1, <2>3, <3>1, StayKept
    <3> QED BY <2>1, <3>2, <3>3, Offline
  <2>4. CASE Halfway(new) /\ UNCHANGED <<owed, spilled, unlucky>>
    <3>1. Stays(place') /\ profile' \in [Slots -> Profiles]  BY <1>1, <2>4, HalfwayStays
    <3>2. ModsTyped'  BY <1>1, <2>1, <2>4, <3>1 DEF Stays, Places
    <3>3. ModsKept'  BY <1>1, <2>1, <2>4, <3>1, StayKept
    <3> QED BY <2>1, <3>2, <3>3, Offline
  <2>5. CASE RollbackImported(new, place) /\ UNCHANGED <<profile, owed>>  BY <1>1, <2>2, <2>5
  <2>6. CASE (\E done \in SUBSET new : RollbackImported(done, place)) /\ UNCHANGED <<profile, owed>>
    BY <1>1, <2>2, <2>6
  <2>7. CASE /\ profile' = [profile EXCEPT ![selected] = Adopted(new)] /\ UNCHANGED owed
             /\ \E half \in Partway(Adopt(new)) : RollbackImported(new, half)
    <3>1. profile' \in [Slots -> Profiles]  BY <1>1, <2>7, AdoptStays
    <3>2. PICK half \in Partway(Adopt(new)) : RollbackImported(new, half)  BY <2>7
    <3>3. Stays(half)  BY <1>1, <3>2, AdoptStays, PartwayStays
    <3> QED BY <2>2, <2>7, <3>1, <3>2, <3>3
  <2> QED BY <1>5, <2>3, <2>4, <2>5, <2>6, <2>7 DEF UploadMods
<1> QED BY <1>2, <1>3, <1>4, <1>5

\* The server: what a start brings up is what the profile wants, and a new game runs what
\* its profile will say.
LEMMA ServerSteps ==
    ASSUME MInv, StartWithProfile \/ RestartAsIs \/ StopRun
    PROVE  MInv'
<1>1. ModsTyped /\ ModsKept /\ StartsAsProfiled /\ NewGameRuns /\ Stays(place)
  BY DEF MInv, Stays, Places, ModsTyped
<1>2. ASSUME StartWithProfile PROVE MInv'
  <2>0. profile[selected] \in Profiles  BY <1>1 DEF ModsTyped
  <2>1. /\ UNCHANGED <<aside, profile, creating, selected, owed, spilled, unlucky>>
        /\ ModsOffline /\ duplicates' \subseteq Bundled
    BY <1>1, <1>2 DEF StartWithProfile, Quarantine, ModsTyped
  <2>2. Stays(place')
    BY <1>1, <1>2, <2>0, WantedStays, MovedStays, PartwayStays DEF StartWithProfile
  <2>3. ModsKept'  BY <1>1, <2>1, <2>2, StayKept DEF ModsTyped
  <2>4. CASE UNCHANGED run
    <3>1. ModsTyped'  BY <1>1, <2>1, <2>2, <2>4 DEF ModsTyped, Stays, Places
    <3> QED BY <2>1, <2>3, <2>4, <3>1, Offline
  <2>5. CASE run' # run
    <3>1. /\ place' = Moved(Wanted(profile[selected]), Mods)
          /\ Up(selected, {m \in Mods : place'[m] = "on"}, "start")
      BY <1>2, <2>5 DEF StartWithProfile, Quarantine
    <3>2. run' = [up |-> TRUE, save |-> selected, mods |-> {m \in Mods : place'[m] = "on"}, by |-> "start"]
      BY <3>1 DEF Up
    <3>3. ModsTyped'  BY <1>1, <2>1, <2>2, <3>2 DEF ModsTyped, Stays, Places
    <3>4. StartsAsProfiled'
      <4> SUFFICES ASSUME profile[selected].has
                   PROVE  {m \in Mods : place'[m] = "on"} = {m \in Installed' : Desired(profile[selected], m)}
        BY <2>1, <3>2 DEF StartsAsProfiled, Desired
      <4>1. Wanted(profile[selected]) = [m \in Mods |-> IF Desired(profile[selected], m) THEN "on" ELSE "off"]
        BY DEF Wanted
      <4>2. \A m \in Mods : place'[m] = IF place[m] # "none"
                                        THEN IF Desired(profile[selected], m) THEN "on" ELSE "off"
                                        ELSE place[m]
        BY <3>1, <4>1 DEF Moved
      <4>3. Installed' = {m \in Mods : place'[m] # "none"}  BY DEF Installed
      <4> QED BY <4>2, <4>3
    <3>5. ~creating'  BY <2>1 DEF ModsOffline
    <3> QED BY <2>3, <3>3, <3>4, <3>5 DEF MInv, NewGameRuns
  <2> QED BY <2>4, <2>5
<1>3. ASSUME RestartAsIs PROVE MInv'
  <2>1. /\ UNCHANGED <<place, aside, profile, creating, selected, owed, spilled, unlucky>>
        /\ duplicates' \subseteq Bundled /\ ~creating
        /\ UNCHANGED run \/ run' = [up |-> TRUE, save |-> selected, mods |-> Active, by |-> "restart"]
    BY <1>1, <1>3 DEF RestartAsIs, Quarantine, ModsTyped, Up
  <2>2. ModsTyped'
    <3>1. Active \subseteq Mods /\ selected \in Slots  BY <1>1 DEF ModsTyped, Active
    <3>2. run' \in [up : BOOLEAN, save : Slots, mods : SUBSET Mods, by : {"start", "restart"}]
      <4>1. CASE UNCHANGED run  BY <1>1, <4>1 DEF ModsTyped
      <4>2. CASE run' = [up |-> TRUE, save |-> selected, mods |-> Active, by |-> "restart"]
        BY <3>1, <4>2
      <4> QED BY <2>1, <4>1, <4>2
    <3> QED BY <1>1, <2>1, <3>2 DEF ModsTyped
  <2>3. ModsKept'  BY <1>1, <2>1 DEF ModsKept, Installed
  <2>4. StartsAsProfiled'  BY <1>1, <2>1 DEF StartsAsProfiled, Installed, Desired
  <2> QED BY <2>1, <2>2, <2>3, <2>4 DEF MInv, NewGameRuns
<1>4. ASSUME StopRun PROVE MInv'
  <2>1. /\ UNCHANGED <<place, aside, duplicates, profile, creating, selected, owed, spilled, unlucky>>
        /\ run' = Down /\ ~creating
    BY <1>4 DEF StopRun
  <2>2. ModsTyped'  BY <1>1, <2>1 DEF ModsTyped, Down, Slots
  <2>3. ModsKept'  BY <1>1, <2>1 DEF ModsKept, Installed
  <2> QED BY <2>1, <2>2, <2>3 DEF MInv, NewGameRuns, StartsAsProfiled, Down
<1> QED BY <1>2, <1>3, <1>4

\* A new game runs the Mods its profile will be made of.
LEMMA NewGameSteps ==
    ASSUME MInv, EnsureNewSaveModProfile \/ \E farm \in BOOLEAN : NewGameMods(farm)
    PROVE  MInv'
<1>1. ModsTyped /\ ModsKept /\ StartsAsProfiled /\ NewGameRuns /\ Stays(place)
  BY DEF MInv, Stays, Places, ModsTyped
<1>2. ASSUME EnsureNewSaveModProfile PROVE MInv'
  <2> DEFINE p == [has |-> TRUE, default |-> FALSE,
                   mods |-> [m \in Mods |-> IF place[m] = "none" THEN "unset" ELSE place[m]]]
  <2>1. /\ creating /\ creating' = FALSE /\ profile' = [profile EXCEPT !["b"] = p]
        /\ UNCHANGED <<place, aside, duplicates, selected, run, owed, spilled, unlucky>>
    BY <1>2 DEF EnsureNewSaveModProfile
  <2>2. p \in Profiles /\ \A m \in Installed : Desired(p, m) <=> place[m] = "on"
    BY <1>1 DEF ModsTyped, Profiles, Installed, Desired
  <2> HIDE DEF p
  <2>3. ModsTyped'  BY <1>1, <2>1, <2>2 DEF ModsTyped
  <2>4. ModsKept'  BY <1>1, <2>1 DEF ModsKept, Installed
  <2>5. StartsAsProfiled'
    <3>1. run.save = "b" /\ run.mods = Active /\ profile'["b"] = p
      BY <1>1, <2>1 DEF NewGameRuns, ModsTyped, Slots
    <3>2. Active = {m \in Installed : Desired(p, m)}  BY <2>2 DEF Active, Installed
    <3> QED BY <2>1, <3>1, <3>2 DEF StartsAsProfiled, Installed, Desired
  <2> QED BY <2>1, <2>3, <2>4, <2>5 DEF MInv, NewGameRuns
<1>3. ASSUME NEW farm \in BOOLEAN, NewGameMods(farm) PROVE MInv'
  <2> DEFINE own == IF farm THEN EnableClosure("pack") ELSE {}
  <2>1. /\ place' = [m \in Mods |-> IF place[m] = "none" THEN "none" ELSE IF m \in own THEN "on" ELSE "off"]
        /\ run' = [up |-> TRUE, save |-> "b", mods |-> {m \in own : place[m] # "none"}, by |-> "start"]
        /\ selected' = "b" /\ creating' = TRUE /\ ~profile["b"].has
        /\ UNCHANGED <<aside, duplicates, profile, owed, spilled, unlucky>>
    BY <1>3 DEF NewGameMods, Up
  <2>2. own \subseteq Mods
    <3>1. farm => "pack" \in Installed  BY <1>3 DEF NewGameMods
    <3>2. farm => EnableClosure("pack") \subseteq Installed
      BY <3>1, WalkReaches DEF EnableClosure, Edges
    <3> QED BY <3>2 DEF Installed
  <2> HIDE DEF own
  <2>3. Stays(place')  BY <1>1, <2>1 DEF ModsTyped, Stays, Places
  <2>4. ModsTyped'  BY <1>1, <2>1, <2>2, <2>3 DEF ModsTyped, Stays, Places, Slots
  <2>5. ModsKept'  BY <1>1, <2>1, <2>3, StayKept DEF ModsTyped
  <2>6. run'.mods = Active'  BY <2>1, <2>2 DEF Active
  <2> QED BY <2>1, <2>4, <2>5, <2>6 DEF MInv, NewGameRuns, StartsAsProfiled
<1> QED BY <1>2, <1>3

\* The invariant of the Mods: what is kept is somewhere, and what runs is what a profile
\* wants or, for a new game, what its profile will say.
THEOREM ModInvariant == ModSpec => []MInv
<1>1. ModInit => MInv
  <2> SUFFICES ASSUME ModInit PROVE MInv
    OBVIOUS
  <2>1. ModsTyped
    <3>1. NoProfile \in Profiles /\ Down \in [up : BOOLEAN, save : Slots, mods : SUBSET Mods, by : {"start", "restart"}]
      BY DEF NoProfile, Profiles, Down, Slots
    <3> QED BY <3>1 DEF ModInit, ModsTyped, Slots
  <2>2. ModsKept  BY DEF ModInit, ModsKept, Installed
  <2> QED BY <2>1, <2>2 DEF ModInit, MInv, StartsAsProfiled, NewGameRuns, Down
<1>2. MInv /\ [ModNext]_modVars => MInv'
  <2> SUFFICES ASSUME MInv, [ModNext]_modVars PROVE MInv'
    OBVIOUS
  <2>1. CASE ModNext  BY <2>1, ProfileSteps, ModSteps, ServerSteps, NewGameSteps DEF ModNext
  <2>2. CASE UNCHANGED modVars
    BY <2>2 DEF modVars, MInv, ModsTyped, ModsKept, StartsAsProfiled, NewGameRuns, Installed, Active, Desired
  <2> QED BY <2>1, <2>2
<1> QED BY <1>1, <1>2, PTL DEF ModSpec

\* Every variable of the Mods keeps its type.
THEOREM ModTypes == ModSpec => []ModTypeOK
<1>1. MInv => ModTypeOK  BY DEF MInv, ModsTyped, ModTypeOK, Profiles
<1> QED BY <1>1, ModInvariant, PTL

\* A Mod that was installed and that nobody asked to delete is still there, with the two
\* exceptions the model names.
THEOREM ModsKeptHolds == ModSpec => []ModsKept
<1>1. MInv => ModsKept  BY DEF MInv
<1> QED BY <1>1, ModInvariant, PTL

\* A server brought up by a start runs exactly the Mods the profile of its save wants.
THEOREM StartsAsProfiledHolds == ModSpec => []StartsAsProfiled
<1>1. MInv => StartsAsProfiled  BY DEF MInv
<1> QED BY <1>1, ModInvariant, PTL

(***************************************************************************)
(* The commands and their ledger.                                          *)
(***************************************************************************)
\* Saves alone have a journal, and are waited for.
Saving == \A c \in pending \cup saveJournal : ways[c] # "plain"
\* Nothing exists of a command that has not been given.
Begun ==
    \A c \in Commands : given[c] = "no" =>
        /\ result[c] = "none" /\ c \notin queue \cup pending \cup saveJournal
        /\ c \notin answered \cup waiting \cup hand.command
        /\ \A r \in Readers : c \notin scans[r].command
\* A plain command the mod is on has its running result as long as it has no outcome ...
OnHand ==
    \A c \in Commands : c \in hand.command =>
        /\ hand.command = {c}
        /\ ways[c] = "plain" =>
              /\ hand.step \in {"started", "acted", "answered"}
              /\ c \notin answered => hand.step # "answered" /\ c \in queue /\ result[c] = "running"
\* ... and before the outcome there is no other result, in its file or in a scan.
Unheard ==
    \A c \in Commands : ways[c] = "plain" /\ c \notin answered =>
        /\ result[c] \in {"none", "running"}
        /\ \A r \in Readers : c \in scans[r].command => scans[r].status = "running"
\* What the game died over is off its hands, and shows that it ran while it could be read again.
CutStays ==
    \A c \in cut : /\ ways[c] = "plain" /\ c \notin answered /\ c \notin hand.command /\ given[c] # "no"
                   /\ c \in queue => result[c] = "running"
\* The outcome a transaction waits for is there, and no scan has moved it.
Awaited ==
    \A c \in waiting : /\ c \in answered => result[c] # "none"
                       /\ \A r \in Readers : c \in scans[r].command => ~scans[r].moved
\* A known command that is over is in the audit log.
AuditedOnce == \A c \in Commands : ledger[c].typed /\ Completed(ledger[c].status) => ledger[c].audited

CommandInv == Saving /\ Begun /\ OnHand /\ Unheard /\ CutStays /\ Awaited /\ AuditedOnce

-----------------------------------------------------------------------------
(* Types                                                                    *)

AuditRow == [status : Statuses, at : Nat, typed : BOOLEAN, audited : BOOLEAN]

\* An entry is written when a known row is over, and nothing else changes.
LEMMA AuditedRow ==
    ASSUME NEW row \in AuditRow
    PROVE  /\ Audited(row) \in AuditRow
           /\ Audited(row).status = row.status /\ Audited(row).typed = row.typed
           /\ row.typed /\ Completed(row.status) => Audited(row).audited
           /\ row.audited => Audited(row).audited
<1> DEFINE now == row.audited \/ (row.typed /\ Completed(row.status))
<1>1. now \in BOOLEAN  OBVIOUS
<1>2. Audited(row) = [row EXCEPT !.audited = now]  BY DEF Audited
<1>3. (row.typed /\ Completed(row.status) => now) /\ (row.audited => now)  OBVIOUS
<1> HIDE DEF now
<1> QED BY <1>1, <1>2, <1>3 DEF AuditRow

\* A submission and an import make rows.
LEMMA NewRows ==
    ASSUME NEW row \in AuditRow
    PROVE  /\ \A status \in {"queued", "dispatched"}, now \in Nat :
                 Submitted(row, status, now) \in AuditRow
                 /\ (Submitted(row, status, now).typed /\ Completed(Submitted(row, status, now).status)
                        => Submitted(row, status, now).audited)
           /\ \A scan : scan.status \in Statuses /\ scan.at \in Nat => Imported(row, scan) \in AuditRow
<1>1. ASSUME NEW status \in {"queued", "dispatched"}, NEW now \in Nat
      PROVE  /\ Submitted(row, status, now) \in AuditRow
             /\ Submitted(row, status, now).typed /\ Completed(Submitted(row, status, now).status)
                   => Submitted(row, status, now).audited
  <2> DEFINE made == IF row.status = "none" THEN [status |-> status, at |-> now, typed |-> TRUE, audited |-> FALSE]
                     ELSE [row EXCEPT !.typed = TRUE]
  <2>1. made \in AuditRow  BY DEF AuditRow, Statuses, Final
  <2>2. Submitted(row, status, now) = Audited(made)  BY DEF Submitted
  <2> HIDE DEF made
  <2> QED BY <2>1, <2>2, AuditedRow
<1>2. ASSUME NEW scan, scan.status \in Statuses, scan.at \in Nat PROVE Imported(row, scan) \in AuditRow
  BY <1>2 DEF Imported, AuditRow
<1> QED BY <1>1, <1>2

\* A result is written over whatever was there.
LEMMA PutsTyped ==
    ASSUME CommandTypeOK, NEW c \in Commands, NEW status \in Statuses, Puts(c, status)
    PROVE  result' \in [Commands -> Statuses] /\ writes' \in [Commands -> Nat]
BY DEF CommandTypeOK, Puts

\* Every step keeps the types.
LEMMA TypedStep ==
    ASSUME CommandTypeOK, [CommandNext]_commandVars
    PROVE  CommandTypeOK'
<1> USE CommandAssumption DEF CommandTypeOK, Statuses, Final
<1>1. CASE UNCHANGED commandVars  BY <1>1 DEF commandVars
<1>2. ASSUME NEW c \in Commands, GivePlain(c) PROVE CommandTypeOK'
  BY <1>2 DEF GivePlain, Published, modSide
<1>3. ASSUME NEW c \in Commands, GiveSave(c) PROVE CommandTypeOK'
  BY <1>3 DEF GiveSave, Published, modSide
<1>4. ASSUME NEW c \in Commands, GiveOwned(c) PROVE CommandTypeOK'
  BY <1>4 DEF GiveOwned, Published, modSide
<1>5. ASSUME NEW c \in Commands, RecordSubmission(c) PROVE CommandTypeOK'
  <2>1. ledger' \in [Commands -> AuditRow]
    <3>1. \A now \in {Written(c), Written(c) + 1} : now \in Nat  BY DEF Written
    <3>2. ledger[c] \in AuditRow  BY DEF AuditRow
    <3>3. PICK status \in {"queued", "dispatched"}, now \in Nat :
             ledger' = [ledger EXCEPT ![c] = Submitted(ledger[c], status, now)]
      BY <1>5, <3>1 DEF RecordSubmission
    <3>4. Submitted(ledger[c], status, now) \in AuditRow  BY <3>2, NewRows
    <3> QED BY <3>3, <3>4 DEF AuditRow
  <2> QED BY <1>5, <2>1 DEF RecordSubmission, modSide, AuditRow
<1>6. ASSUME NEW c \in Commands, TakeOutcome(c) PROVE CommandTypeOK'
  BY <1>6 DEF TakeOutcome, modSide
<1>7. ASSUME NEW c \in Commands, CleanupRow(c) PROVE CommandTypeOK'
  BY <1>7 DEF CleanupRow, NoCommandRow, modSide
<1>8. ASSUME NEW c \in Commands, ConsumeAnswered(c) PROVE CommandTypeOK'
  BY SMTT(60), <1>8 DEF ConsumeAnswered, Ticks, Answer, Puts, Free, panelSide
<1>9. ASSUME NEW c \in Commands, ConsumeCommand(c) PROVE CommandTypeOK'
  BY <1>9 DEF ConsumeCommand, Ticks, Puts, Free, panelSide
<1>10. ASSUME NEW c \in Commands, ActOnCommand(c) PROVE CommandTypeOK'
  BY <1>10 DEF ActOnCommand, Holding, panelSide
<1>11. ASSUME NEW c \in Commands, AnswerCommand(c) PROVE CommandTypeOK'
  <2>1. result' \in [Commands -> Statuses] /\ writes' \in [Commands -> Nat]
    BY <1>11, PutsTyped DEF AnswerCommand, Answer
  <2>2. answered' \subseteq Commands  BY <1>11 DEF AnswerCommand, Answer
  <2> QED BY <1>11, <2>1, <2>2 DEF AnswerCommand, panelSide
<1>12. ASSUME NEW c \in Commands, DropCommand(c) PROVE CommandTypeOK'
  BY <1>12 DEF DropCommand, Holding, Free, panelSide
<1>13. ASSUME NEW c \in Commands, SaveEnds(c) PROVE CommandTypeOK'
  <2>1. result' \in [Commands -> Statuses] /\ writes' \in [Commands -> Nat] /\ answered' \subseteq Commands
    BY <1>13, PutsTyped DEF SaveEnds, Answer
  <2>2. deaths' \in 0..GameDeaths /\ gameUp' \in BOOLEAN
    <3>1. Dies \/ UNCHANGED <<gameUp, deaths>>  BY <1>13 DEF SaveEnds
    <3>2. ASSUME Dies PROVE deaths' \in 0..GameDeaths
      <4>1. deaths \in Nat /\ deaths' = deaths + 1 /\ deaths < GameDeaths  BY <3>2 DEF Dies
      <4> QED BY <4>1
    <3>3. Dies => gameUp' = FALSE  BY DEF Dies
    <3> QED BY <3>1, <3>2, <3>3
  <2> QED BY <1>13, <2>1, <2>2 DEF SaveEnds, panelSide
<1>14. ASSUME NEW c \in Commands, ResumeSave(c) PROVE CommandTypeOK'
  <2>1. result' \in [Commands -> Statuses] /\ writes' \in [Commands -> Nat]
    BY <1>14, PutsTyped DEF ResumeSave, Answer
  <2>2. answered' \subseteq Commands  BY <1>14 DEF ResumeSave, Answer
  <2> QED BY <1>14, <2>1, <2>2 DEF ResumeSave, Free, panelSide
<1>15. ASSUME NEW r \in Readers, NEW c \in Commands, ReadResult(r, c) PROVE CommandTypeOK'
  BY <1>15 DEF ReadResult, NoScan, Written, modSide
<1>16. ASSUME NEW r \in Readers, NEW c \in Commands, SkipProtected(r, c) PROVE CommandTypeOK'
  BY <1>16 DEF SkipProtected, NoScan, modSide
<1>17. ASSUME NEW r \in Readers, NEW c \in Commands, ImportResult(r, c) PROVE CommandTypeOK'
  <2>1. scans[r].status \in Statuses /\ scans[r].at \in Nat /\ ledger[c] \in AuditRow
    BY DEF AuditRow
  <2>2. Audited(Imported(ledger[c], scans[r])) \in AuditRow  BY <2>1, NewRows, AuditedRow
  <2>3. ledger' = [ledger EXCEPT ![c] = Audited(Imported(ledger[c], scans[r]))]
    BY <1>17 DEF ImportResult
  <2>4. ledger' \in [Commands -> AuditRow]  BY <2>2, <2>3 DEF AuditRow
  <2>5. scans' \in [Readers -> [command : SUBSET Commands, status : Statuses, at : Nat, moved : BOOLEAN]]
    <3> DEFINE scan == scans[r]
    <3> HIDE DEF Statuses
    <3>0. scan \in [command : SUBSET Commands, status : Statuses, at : Nat, moved : BOOLEAN]
      OBVIOUS
    <3> HIDE DEF scan
    <3>1. [scan EXCEPT !.moved = TRUE] \in [command : SUBSET Commands, status : Statuses, at : Nat, moved : BOOLEAN]
      BY <3>0
    <3> QED BY <1>17, <3>1 DEF ImportResult, scan
  <2>6. UNCHANGED <<ways, given, queue, result, waiting, modSide>>  BY <1>17 DEF ImportResult
  <2> HIDE DEF Statuses
  <2> QED BY <2>4, <2>5, <2>6 DEF modSide, AuditRow
<1>18. ASSUME NEW r \in Readers, NEW c \in Commands, DeleteImported(r, c) PROVE CommandTypeOK'
  BY <1>18 DEF DeleteImported, Kept, NoScan, modSide
<1>19. ASSUME MarkStale PROVE CommandTypeOK'
  <2>1. \A c \in Commands : [ledger[c] EXCEPT !.status = "unknown", !.at = Written(c) + 1, !.audited = TRUE] \in AuditRow
    <3> SUFFICES ASSUME NEW c \in Commands
                 PROVE  [ledger[c] EXCEPT !.status = "unknown", !.at = Written(c) + 1, !.audited = TRUE] \in AuditRow
      OBVIOUS
    <3>1. Written(c) + 1 \in Nat  BY DEF Written
    <3>2. ledger[c] \in AuditRow  BY DEF AuditRow
    <3> QED BY <3>1, <3>2 DEF AuditRow
  <2>2. ledger' \in [Commands -> AuditRow]  BY <1>19, <2>1 DEF MarkStale, AuditRow
  <2> QED BY <1>19, <2>2 DEF MarkStale, modSide, AuditRow
<1>20. ASSUME CommandPanelDies PROVE CommandTypeOK'
  BY <1>20 DEF CommandPanelDies, NoScan, modSide
<1>21. ASSUME CommandGameDies PROVE CommandTypeOK'
  <2>1. deaths' \in 0..GameDeaths /\ gameUp' \in BOOLEAN
    <3>1. Dies \/ UNCHANGED <<gameUp, deaths>>  BY <1>21 DEF CommandGameDies
    <3>2. ASSUME Dies PROVE deaths' \in 0..GameDeaths
      <4>1. deaths \in Nat /\ deaths' = deaths + 1 /\ deaths < GameDeaths  BY <3>2 DEF Dies
      <4> QED BY <4>1
    <3>3. Dies => gameUp' = FALSE  BY DEF Dies
    <3> QED BY <3>1, <3>2, <3>3
  <2>2. cut' \subseteq Commands  BY <1>21 DEF CommandGameDies
  <2> QED BY <1>21, <2>1, <2>2 DEF CommandGameDies, Free, panelSide
<1>22. ASSUME GameBoots PROVE CommandTypeOK'
  BY <1>22 DEF GameBoots, panelSide
<1> QED
  BY <1>1, <1>2, <1>3, <1>4, <1>5, <1>6, <1>7, <1>8, <1>9, <1>10, <1>11, <1>12, <1>13, <1>14, <1>15,
     <1>16, <1>17, <1>18, <1>19, <1>20, <1>21, <1>22 DEF CommandNext, Give, Mod, Scan

-----------------------------------------------------------------------------
(* The invariant                                                            *)

\* Every step keeps the invariant.
LEMMA InvariantStep ==
    ASSUME CommandTypeOK, CommandInv, [CommandNext]_commandVars
    PROVE  CommandInv'
<1> USE DEF AuditedOnce, modSide, panelSide
<1> USE DEF CommandTypeOK, CommandInv, Saving, Begun, OnHand, Unheard, CutStays, Awaited
<1>1. CASE UNCHANGED commandVars  BY <1>1 DEF commandVars
<1>2. ASSUME NEW c \in Commands, GivePlain(c) PROVE CommandInv'
  BY <1>2 DEF GivePlain, Published
<1>3. ASSUME NEW c \in Commands, GiveSave(c) PROVE CommandInv'
  BY <1>3 DEF GiveSave, Published
<1>4. ASSUME NEW c \in Commands, GiveOwned(c) PROVE CommandInv'
  BY <1>4 DEF GiveOwned, Published
<1>5. ASSUME NEW c \in Commands, RecordSubmission(c) PROVE CommandInv'
  <2>1. Saving' /\ Begun' /\ OnHand' /\ Unheard' /\ CutStays' /\ Awaited'
    BY <1>5 DEF RecordSubmission
  <2>2. PICK status \in {"queued", "dispatched"}, now \in Nat :
           ledger' = [ledger EXCEPT ![c] = Submitted(ledger[c], status, now)]
    <3>1. \A now \in {Written(c), Written(c) + 1} : now \in Nat  BY DEF Written
    <3> QED BY <1>5, <3>1 DEF RecordSubmission
  <2>3. Submitted(ledger[c], status, now).typed /\ Completed(Submitted(ledger[c], status, now).status)
           => Submitted(ledger[c], status, now).audited
    BY NewRows DEF AuditRow
  <2>4. AuditedOnce'  BY <2>2, <2>3
  <2> QED BY <2>1, <2>4
<1>6. ASSUME NEW c \in Commands, TakeOutcome(c) PROVE CommandInv'
  BY <1>6 DEF TakeOutcome
<1>7. ASSUME NEW c \in Commands, CleanupRow(c) PROVE CommandInv'
  BY <1>7 DEF CleanupRow, NoCommandRow
<1>8. ASSUME NEW c \in Commands, ConsumeAnswered(c) PROVE CommandInv'
  BY <1>8 DEF ConsumeAnswered, Ticks, Answer, Puts, Free
<1>9. ASSUME NEW c \in Commands, ConsumeCommand(c) PROVE CommandInv'
  BY <1>9 DEF ConsumeCommand, Ticks, Puts, Free
<1>10. ASSUME NEW c \in Commands, ActOnCommand(c) PROVE CommandInv'
  BY <1>10 DEF ActOnCommand, Holding
<1>11. ASSUME NEW c \in Commands, AnswerCommand(c) PROVE CommandInv'
  BY <1>11 DEF AnswerCommand, Holding, Answer, Puts, Final
<1>12. ASSUME NEW c \in Commands, DropCommand(c) PROVE CommandInv'
  BY <1>12 DEF DropCommand, Holding, Free
<1>13. ASSUME NEW c \in Commands, SaveEnds(c) PROVE CommandInv'
  <2>1. saveJournal' \subseteq saveJournal /\ UNCHANGED <<ways, panelSide, queue, hand, cut>>
    BY <1>13 DEF SaveEnds
  <2>2. PICK status \in {"succeeded", "failed"} : c \in pending /\ pending' = {} /\ Answer(c, status)
    BY <1>13 DEF SaveEnds
  <2> QED BY <2>1, <2>2 DEF Answer, Puts
<1>14. ASSUME NEW c \in Commands, ResumeSave(c) PROVE CommandInv'
  BY <1>14 DEF ResumeSave, Holding, Answer, Puts, Free
<1>15. ASSUME NEW r \in Readers, NEW c \in Commands, ReadResult(r, c) PROVE CommandInv'
  BY <1>15 DEF ReadResult, NoScan, Written
<1>16. ASSUME NEW r \in Readers, NEW c \in Commands, SkipProtected(r, c) PROVE CommandInv'
  BY <1>16 DEF SkipProtected, NoScan
<1>17. ASSUME NEW r \in Readers, NEW c \in Commands, ImportResult(r, c) PROVE CommandInv'
  BY <1>17 DEF ImportResult, Imported, Audited, Protected
<1>18. ASSUME NEW r \in Readers, NEW c \in Commands, DeleteImported(r, c) PROVE CommandInv'
  BY <1>18 DEF DeleteImported, Kept, NoScan
<1>19. ASSUME MarkStale PROVE CommandInv'
  <2>1. Saving' /\ Begun' /\ OnHand' /\ Unheard' /\ CutStays' /\ Awaited'
    BY <1>19 DEF MarkStale
  <2>2. \A c \in Commands : [ledger[c] EXCEPT !.status = "unknown", !.at = Written(c) + 1, !.audited = TRUE].audited
    OBVIOUS
  <2>3. AuditedOnce'  BY <1>19, <2>2 DEF MarkStale
  <2> QED BY <2>1, <2>3
<1>20. ASSUME CommandPanelDies PROVE CommandInv'
  BY <1>20 DEF CommandPanelDies, NoScan
<1>21. ASSUME CommandGameDies PROVE CommandInv'
  BY <1>21 DEF CommandGameDies, Dies, Free
<1>22. ASSUME GameBoots PROVE CommandInv'
  BY <1>22 DEF GameBoots
<1> QED
  BY <1>1, <1>2, <1>3, <1>4, <1>5, <1>6, <1>7, <1>8, <1>9, <1>10, <1>11, <1>12, <1>13, <1>14, <1>15,
     <1>16, <1>17, <1>18, <1>19, <1>20, <1>21, <1>22 DEF CommandNext, Give, Mod, Scan

-----------------------------------------------------------------------------
(* Theorems                                                                 *)

\* The types and the invariant of the commands hold.
THEOREM CommandInvariant == CommandSpec => [](CommandTypeOK /\ CommandInv)
<1>1. CommandInit => CommandTypeOK /\ CommandInv
  BY CommandAssumption
  DEF CommandInit, CommandTypeOK, CommandInv, Saving, Begun, OnHand, Unheard, CutStays, Awaited, AuditedOnce,
      NoCommandRow, NoScan, Free, Statuses, Final, Completed
<1>2. CommandTypeOK /\ CommandInv /\ [CommandNext]_commandVars => (CommandTypeOK /\ CommandInv)'
  BY TypedStep, InvariantStep
<1> QED BY <1>1, <1>2, PTL DEF CommandSpec

\* A command the game died over is never acted on again, whatever scans move meanwhile.
THEOREM CutNeverRetriedHolds == CommandSpec => []CutNeverRetried
<1>1. CommandInv => CutNeverRetried  BY DEF CommandInv, CutStays, CutNeverRetried
<1> QED BY <1>1, CommandInvariant, PTL

\* The outcome a transaction waits for stays until it has it, and a command
\* that is over is in the audit log, for any number of readers.
THEOREM OutcomesReachReadersHolds == CommandSpec => []OutcomesReachReaders
<1>1. CommandInv => OutcomesReachReaders
  BY DEF CommandInv, Awaited, AuditedOnce, OutcomesReachReaders
<1> QED BY <1>1, CommandInvariant, PTL

-----------------------------------------------------------------------------
(* What happens on one instance, in one run (MCInstance)                    *)

\* The run lets one of them move and the others rest, so that each behaves as its module says, and
\* every theorem about one of them is one about the run.
THEOREM InstanceComposes == InstanceSpec => Spec /\ NewGameSpec /\ LibrarySpec /\ ModSpec /\ CommandSpec
<1> DEFINE all == <<focus, vars, newGameVars, libraryVars, modVars, commandVars>>
<1>1. InstanceInit => Init /\ NewGameInit /\ LibraryInit /\ ModInit /\ CommandInit
  BY DEF InstanceInit
<1>2. [InstanceNext]_all => [Next]_vars  BY DEF InstanceNext
<1>3. [InstanceNext]_all => [NewGameNext]_newGameVars  BY DEF InstanceNext
<1>4. [InstanceNext]_all => [LibraryNext]_libraryVars  BY DEF InstanceNext
<1>5. [InstanceNext]_all => [ModNext]_modVars  BY DEF InstanceNext
<1>6. [InstanceNext]_all => [CommandNext]_commandVars  BY DEF InstanceNext
<1> QED BY <1>1, <1>2, <1>3, <1>4, <1>5, <1>6, PTL
        DEF InstanceSpec, Spec, NewGameSpec, LibrarySpec, ModSpec, CommandSpec

\* Every variable has its type in the run of one instance, those of what moves and those of what rests.
THEOREM InstanceTypes == InstanceSpec => []InstanceTypesOK
<1>1. TypeOK /\ NewGameTypeOK /\ LibraryTypeOK /\ ModTypeOK /\ CommandTypeOK => InstanceTypesOK
  BY DEF InstanceTypesOK
<1> QED BY <1>1, InstanceComposes, TypeCorrect, NewGameTypes, SaveTypes, ModTypes, CommandInvariant, PTL
=============================================================================
