---------------------------- MODULE NewGameProofs ----------------------------
(***************************************************************************)
(* Proofs about the new-game transaction, for any number of failing steps  *)
(* and of panel stops, and for any saves the game may create.              *)
(***************************************************************************)
EXTENDS NewGameTransaction, FiniteSetTheorems, TLAPS

-----------------------------------------------------------------------------
(* Records                                                                 *)

\* What a look at the game changes in the record.
LEMMA SeenFacts ==
    ASSUME mem \in Record, dirs \subseteq Saves
    PROVE  /\ Seen \in Record
           /\ Seen.stage = mem.stage /\ Seen.called = mem.called
           /\ Seen.cand = mem.cand /\ Seen.cmd = mem.cmd /\ Seen.rb = mem.rb
           /\ mem.progress => Seen.progress
<1> DEFINE one == IF Cardinality(dirs) = 1 THEN CHOOSE s \in dirs : TRUE ELSE NoSave
           ambig == \/ mem.ambig
                    \/ Cardinality(dirs) > 1
                    \/ one # NoSave /\ mem.found \notin {NoSave, one}
           found == IF ambig THEN NoSave ELSE IF one # NoSave THEN one ELSE mem.found
           progress == mem.progress \/ (game.creating \/ loader # NoSave \/ dirs # {})
<1>1. one \in Saves \cup {NoSave}
  <2>1. Cardinality(dirs) = 1 => dirs # {}  BY FS_EmptySet
  <2> QED BY <2>1
<1>2. mem.found \in Saves \cup {NoSave} /\ mem.progress \in BOOLEAN /\ mem.ambig \in BOOLEAN
  BY DEF Record
<1>3. found \in Saves \cup {NoSave} /\ ambig \in BOOLEAN /\ progress \in BOOLEAN  BY <1>1, <1>2
<1>4. Seen = [mem EXCEPT !.progress = progress, !.ambig = ambig, !.found = found]  BY DEF Seen
<1> HIDE DEF one, ambig, found, progress
<1>5. /\ Seen \in Record
      /\ Seen.stage = mem.stage /\ Seen.called = mem.called
      /\ Seen.cand = mem.cand /\ Seen.cmd = mem.cmd /\ Seen.rb = mem.rb
      /\ Seen.progress = progress
  BY <1>3, <1>4 DEF Record
<1> QED BY <1>5 DEF progress

\* A change of stage changes nothing else.
LEMMA StageFacts ==
    ASSUME mem \in Record, NEW s \in TransactionStages
    PROVE  /\ Stage(s) \in Record
           /\ Stage(s).stage = s /\ Stage(s).called = mem.called
           /\ Stage(s).cand = mem.cand /\ Stage(s).cmd = mem.cmd /\ Stage(s).rb = mem.rb
           /\ Stage(s).progress = mem.progress
BY DEF Stage, Record

\* The record a rollback begins with.
LEMMA RollbackFacts ==
    ASSUME NEW m \in Record, dirs \subseteq Saves, quar \subseteq Saves
    PROVE  /\ RollbackRecord(m) \in Record
           /\ RollbackRecord(m).stage = "rolling_back" /\ RollbackRecord(m).rb
           /\ RollbackRecord(m).called = m.called /\ RollbackRecord(m).cand = m.cand
           /\ RollbackRecord(m).progress = m.progress /\ RollbackRecord(m).cmd = m.cmd
<1>1. (IF m.rb THEN m.plan ELSE dirs \cup quar) \in SUBSET Saves  BY DEF Record
<1>2. "rolling_back" \in TransactionStages  BY DEF TransactionStages, Undoing
<1> QED BY <1>1, <1>2 DEF RollbackRecord, Record

\* The record of no transaction.
LEMMA BlankFacts == Blank \in Record /\ Blank.stage = "none" /\ ~Blank.called
                    /\ Blank.cand = NoSave /\ Blank.cmd = 0 /\ ~Blank.rb /\ ~Blank.progress
BY DEF Blank, Record, TransactionStages

-----------------------------------------------------------------------------
(* Type correctness                                                        *)


\* Everything is typed in the initial state.
LEMMA NewGameTypeInit == NewGameInit => NewGameTypeOK
<1> SUFFICES ASSUME NewGameInit PROVE NewGameTypeOK
  OBVIOUS
<1>1. pc \in PCs /\ mem \in Record /\ composed \in BOOLEAN  BY BlankFacts DEF NewGameInit, PCs
<1>2. disk \in Record /\ reserved \in BOOLEAN /\ start \in {"none", "forward", "rollback"}
  BY BlankFacts DEF NewGameInit
<1>3. files \in [Files -> {"orig", "gone", "tx"}] /\ target \in Saves \cup {NoSave}
  BY DEF NewGameInit
<1>4. loader \in Saves \cup {NoSave} /\ dirs \in SUBSET Saves /\ quar \in SUBSET Saves
  BY DEF NewGameInit
<1>5. game \in GameRecord  BY DEF NewGameInit, GameRecord
<1>6. /\ published \in SUBSET SaveCommands /\ finished \in SUBSET SaveCommands
      /\ posts \in Nat /\ faults \in 0 .. MaxFaults /\ crashes \in 0 .. MaxCrashes
  BY BoundsAssumption DEF NewGameInit
<1> QED BY <1>1, <1>2, <1>3, <1>4, <1>5, <1>6 DEF NewGameTypeOK

\* Only finitely many commands exist, a fresh number is one more.
Finite == IsFiniteSet(published)

\* The runner has a save, or a step of the rollback, where it works on one.
HasName ==
    /\ pc = "bind" => Candidate # NoSave
    /\ pc \in {"target", "control", "command", "publish"} => mem.cand # NoSave
    /\ pc = "publish" => mem.cmd # 0
    /\ pc = "checkpoint" => ~AllUndone

\* As long as a step is left, the next one is a step that is not done.
LEMMA NextStepFacts == ~AllUndone => NextStep \in StepNames \ mem.done
<1> DEFINE left == {i \in DOMAIN RollbackSteps : RollbackSteps[i] \notin mem.done}
<1> SUFFICES ASSUME ~AllUndone PROVE NextStep \in StepNames \ mem.done
  OBVIOUS
<1>1. DOMAIN RollbackSteps = 1 .. 9 /\ \A i \in 1 .. 9 : RollbackSteps[i] \in StepNames
  BY DEF RollbackSteps, StepNames, Files
<1>2. left # {} /\ left \subseteq 1 .. 9  BY <1>1 DEF AllUndone
<1>3. \E i \in left : \A k \in left : i <= k  BY <1>2, SMT
<1>4. (CHOOSE i \in left : \A k \in left : i <= k) \in left  BY <1>3
<1> QED BY <1>1, <1>4 DEF NextStep

\* Every action keeps the types and the finiteness of the commands.
LEMMA NewGameTypeNext == NewGameTypeOK /\ Finite /\ HasName /\ [NewGameNext]_newGameVars => NewGameTypeOK' /\ Finite'
<1> SUFFICES ASSUME NewGameTypeOK, Finite, HasName, [NewGameNext]_newGameVars PROVE NewGameTypeOK' /\ Finite'
  OBVIOUS
<1> USE DEF NewGameTypeOK, Finite, Ok, Fail, Goto, Persist, Bookkeeping,
            runner, durable, saves, command, disks, worldVars, others
<1>a. Seen \in Record  BY SeenFacts
<1>b. \A s \in TransactionStages : Stage(s) \in Record  BY StageFacts
<1>c. \A m \in Record : RollbackRecord(m) \in Record  BY RollbackFacts
<1>d. Halted \in GameRecord  BY DEF Halted, GameRecord
<1>e. \A f \in Files, v \in {"orig", "gone", "tx"} :
         [files EXCEPT ![f] = v] \in [Files -> {"orig", "gone", "tx"}]
  OBVIOUS
<1>f. faults < MaxFaults => faults + 1 \in 0 .. MaxFaults  BY BoundsAssumption
<1>g. crashes < MaxCrashes => crashes + 1 \in 0 .. MaxCrashes  BY BoundsAssumption
<1>h. \A s \in {"configured", "marker_written", "mods_prepared", "catalog_requested",
                "compose_started", "catalog_validated", "ambiguous", "observing",
                "profile_commit_pending", "finalizing", "success", "unknown",
                "rolled_back", "rollback_failed"} : Stage(s) \in Record
  BY <1>b DEF TransactionStages, Terminal, Undoing
<1>i. Blank \in Record  BY BlankFacts
<1>j. [mem EXCEPT !.stage = "rollback_failed"] \in Record  BY <1>h DEF Stage
<1>1. CASE Admission
  <2> USE DEF PCs, Forward
  <2>1. CASE Claim  BY <2>1, <1>i DEF Claim
  <2>2. CASE Reserve
    <3>1. \A w \in {"startup", "http"} :
            [Blank EXCEPT !.stage = "preparing", !.writer = w] \in Record
      BY ZenonT(60), BlankFacts DEF Record, TransactionStages
    <3> QED BY <2>2, <1>f, <1>i, <3>1 DEF Reserve
  <2>3. CASE StartRead  BY <2>3 DEF StartRead
  <2>4. CASE StartCleans  BY <2>4 DEF StartCleans
  <2>5. CASE StartJoins  BY <2>5 DEF StartJoins
  <2>6. CASE StartJob  BY <2>6, <1>f, <1>i DEF StartJob
  <2> QED BY <1>1, <2>1, <2>2, <2>3, <2>4, <2>5, <2>6 DEF Admission
<1>2. CASE PrepareFiles
  <2> USE DEF PCs, Forward
  <2>1. CASE Preflight  BY <2>1, <1>i DEF Preflight
  <2>2. CASE TakeOver  BY <2>2, <1>i DEF TakeOver
  <2>3. CASE WriteConfig
    <3>1. /\ [files EXCEPT !.settings = "tx", !.init = "tx"] \in [Files -> {"orig", "gone", "tx"}]
          /\ [files EXCEPT !.settings = "tx"] \in [Files -> {"orig", "gone", "tx"}]
      BY DEF Files
    <3> QED BY ZenonT(60), <2>3, <1>f, <1>h, <1>i, <3>1 DEF WriteConfig
  <2>4. CASE WriteMarker
    <3>1. mem.cand \in Saves \cup {NoSave}  BY DEF Record
    <3> QED BY <2>4, <1>e, <1>f, <1>h, <1>i, <3>1 DEF WriteMarker, Files
  <2>5. CASE Gates
    <3>1. \A b \in BOOLEAN : [game EXCEPT !.creating = b] \in GameRecord  BY DEF GameRecord
    <3>2. (game.up /\ game.creating) \in BOOLEAN  BY DEF GameRecord
    <3>3. game' \in GameRecord  BY <2>5, <3>1, <3>2 DEF Gates
    <3> QED BY <2>5, <1>e, <1>i, <3>3 DEF Gates, Files
  <2>6. CASE PrepareMods  BY <2>6, <1>e, <1>f, <1>h, <1>i DEF PrepareMods, Files
  <2>7. CASE RequestCatalog
    <3>1. [files EXCEPT !.options = "gone", !.catalog = "tx"] \in [Files -> {"orig", "gone", "tx"}]
      BY DEF Files
    <3> QED BY <2>7, <1>f, <1>h, <1>i, <3>1 DEF RequestCatalog
  <2>8. CASE ComposeUp
    <3>1. \A b \in BOOLEAN : [Halted EXCEPT !.up = b] \in GameRecord  BY <1>d DEF GameRecord
    <3> QED BY <2>8, <1>f, <1>i, <3>1 DEF ComposeUp
  <2>9. CASE MarkStarted  BY <2>9, <1>f, <1>h, <1>i DEF MarkStarted
  <2> QED BY <1>2, <2>1, <2>2, <2>3, <2>4, <2>5, <2>6, <2>7, <2>8, <2>9 DEF PrepareFiles
<1>3. CASE Creation
  <2> USE DEF PCs, Forward, Observe
  <2>1. CASE AwaitServer  BY <2>1, <1>i DEF AwaitServer
  <2>2. CASE ControlGateFails  BY <2>2, <1>d, <1>f, <1>i DEF ControlGateFails
  <2>3. CASE AwaitCatalog  BY <2>3, <1>f, <1>h, <1>i DEF AwaitCatalog
  <2>4. CASE Decide  BY <2>4, <1>a, <1>f, <1>i DEF Decide
  <2>5. CASE Baseline  BY <2>5, <1>a, <1>f, <1>i DEF Baseline
  <2>6. CASE MarkCommandCalled
    <3>1. [mem EXCEPT !.called = TRUE, !.stage = "command_called"] \in Record
      BY DEF Record, TransactionStages
    <3> QED BY <2>6, <1>f, <1>i, <3>1 DEF MarkCommandCalled
  <2>7. CASE PostNewGame
    <3>1. [game EXCEPT !.told = game.up] \in GameRecord  BY DEF GameRecord
    <3> QED BY <2>7, <1>i, <3>1 DEF PostNewGame
  <2>8. CASE MarkAmbiguous  BY <2>8, <1>f, <1>h, <1>i DEF MarkAmbiguous
  <2>9. CASE MarkObserving  BY <2>9, <1>f, <1>h, <1>i DEF MarkObserving
  <2>10. CASE AwaitCandidate  BY <2>10, <1>a, <1>f, <1>i DEF AwaitCandidate
  <2>11. CASE BindCandidate
    <3>1. [Seen EXCEPT !.cand = Candidate] \in Record  BY <1>a DEF Record, Candidate
    <3> QED BY <2>11, <1>a, <1>f, <1>i, <3>1 DEF BindCandidate
  <2>12. CASE BindMarker
    <3>1. mem.cand \in Saves \cup {NoSave}  BY DEF Record
    <3> QED BY <2>12, <1>i, <3>1 DEF BindMarker
  <2> QED
    BY <1>3, <2>1, <2>2, <2>3, <2>4, <2>5, <2>6, <2>7, <2>8, <2>9, <2>10, <2>11, <2>12
    DEF Creation
<1>4. CASE Commit
  <2> USE DEF PCs, Forward
  <2>1. CASE AwaitControl
    <3>1. [mem EXCEPT !.loaded = TRUE] \in Record  BY DEF Record
    <3> QED BY <2>1, <1>f, <1>i, <3>1 DEF AwaitControl
  <2>2. CASE ReserveCommand
    <3>1. Cardinality(published) + 1 \in Nat  BY FS_CardinalityType
    <3>2. [mem EXCEPT !.cmd = Cardinality(published) + 1] \in Record  BY <3>1 DEF Record
    <3> QED BY <2>2, <1>f, <1>i, <3>2 DEF ReserveCommand
  <2>3. CASE Publish
    <3>1. [id |-> mem.cmd, save |-> mem.cand] \in SaveCommands
      BY <2>3 DEF Publish, HasName, Record, SaveCommands
    <3>2. IsFiniteSet(published \cup {[id |-> mem.cmd, save |-> mem.cand]})  BY FS_AddElement
    <3> QED BY <2>3, <1>i, <3>1, <3>2 DEF Publish
  <2>4. CASE AwaitSaved
    <3>1. [mem EXCEPT !.saved = TRUE] \in Record  BY DEF Record
    <3> QED BY <2>4, <1>f, <1>i, <3>1 DEF AwaitSaved
  <2>5. CASE VerifyDisk
    <3>1. [Seen EXCEPT !.verified = TRUE] \in Record  BY <1>a DEF Record
    <3> QED BY <2>5, <1>a, <1>f, <1>i, <3>1 DEF VerifyDisk
  <2>6. CASE CommitProfile  BY <2>6, <1>e, <1>f, <1>h, <1>i DEF CommitProfile, Files
  <2>7. CASE Complete  BY <2>7, <1>f, <1>h, <1>i DEF Complete
  <2>8. CASE Cleanup
    <3>1. \A i \in 1 .. 3 : CleanupOrder[i] \in Files  BY DEF CleanupOrder, Files
    <3>2. PICK i \in ToClean : \A k \in ToClean : i <= k  BY <2>8, SMT DEF Cleanup, ToClean
    <3> QED BY <2>8, <1>e, <1>i, <3>1, <3>2 DEF Cleanup
  <2>9. CASE Succeed  BY <2>9, <1>f, <1>h, <1>i DEF Succeed
  <2>10. CASE Release  BY <2>10, <1>f, <1>i DEF Release
  <2> QED BY <1>4, <2>1, <2>2, <2>3, <2>4, <2>5, <2>6, <2>7, <2>8, <2>9, <2>10 DEF Commit
<1>5. CASE Failure
  <2> USE DEF PCs, Forward, FailRollback
  <2>1. CASE GiveUp  BY <2>1, <1>f, <1>i DEF GiveUp
  <2>2. CASE Prefail
    <3>1. [Seen EXCEPT !.stage = "unknown"] \in Record  BY <1>a DEF Record, TransactionStages
    <3> QED BY <2>2, <1>a, <1>c, <1>f, <1>h, <1>i, <3>1 DEF Prefail
  <2>3. CASE Recheck  BY <2>3, <1>a, <1>f, <1>i DEF Recheck, Observe
  <2>4. CASE Preserve  BY <2>4, <1>f, <1>h, <1>i DEF Preserve
  <2>5. CASE Undo  BY <2>5, <1>c, <1>f, <1>i DEF Undo
  <2>6. CASE Recover  BY <2>6, <1>c, <1>f, <1>i DEF Recover
  <2>7. CASE StopContainers  BY <2>7, <1>d, <1>f, <1>i, <1>j DEF StopContainers
  <2>8. CASE Apply
    <3>1. \A x : [files EXCEPT ![x] = "orig"] \in [Files -> {"orig", "gone", "tx"}]  OBVIOUS
    <3>2. \A moved : /\ dirs \ moved \in SUBSET Saves
                     /\ quar \cup (moved \cap dirs) \in SUBSET Saves
      OBVIOUS
    <3>3. /\ files' \in [Files -> {"orig", "gone", "tx"}] /\ target' \in Saves \cup {NoSave}
          /\ loader' \in Saves \cup {NoSave} /\ dirs' \in SUBSET Saves /\ quar' \in SUBSET Saves
      <4>1. CASE Undone(NextStep)  BY <4>1, <3>1, <3>2 DEF Undone, Quarantined
      <4>2. CASE \E moved \in SUBSET mem.plan : Quarantined(moved)
        BY <4>2, <3>2 DEF Quarantined
      <4>3. CASE UNCHANGED disks  BY <4>3
      <4> QED BY <2>8, <4>1, <4>2, <4>3 DEF Apply
    <3> QED BY <2>8, <1>f, <1>i, <1>j, <3>3 DEF Apply
  <2>9. CASE Checkpoint
    <3>1. [mem EXCEPT !.done = mem.done \cup {NextStep}] \in Record
      BY <2>9, NextStepFacts DEF Checkpoint, HasName, Record
    <3> QED BY <2>9, <1>f, <1>i, <3>1 DEF Checkpoint
  <2>10. CASE FinishRollback  BY <2>10, <1>f, <1>h, <1>i DEF FinishRollback
  <2> QED BY <1>5, <2>1, <2>2, <2>3, <2>4, <2>5, <2>6, <2>7, <2>8, <2>9, <2>10 DEF Failure
<1>6. CASE Environment
  <2> USE DEF Playing
  <2>1. CASE GameBegins
    <3> DEFINE creating == game.creating \/ files.marker = "tx"
    <3>1. creating \in BOOLEAN  BY DEF GameRecord
    <3>2. PICK s \in Saves :
            game' = [game EXCEPT !.told = FALSE, !.making = s, !.creating = creating]
      BY <2>1 DEF GameBegins
    <3> HIDE DEF creating
    <3>3. game' \in GameRecord  BY <3>1, <3>2 DEF GameRecord
    <3> QED BY <2>1, <3>3 DEF GameBegins
  <2>2. CASE GameWrites
    <3>1. game.making \in Saves \cup {NoSave}  BY DEF GameRecord
    <3> QED BY <2>2, <3>1 DEF GameWrites
  <2>3. CASE GameLoads
    <3>1. [game EXCEPT !.making = NoSave, !.loaded = loader] \in GameRecord  BY DEF GameRecord
    <3> QED BY <2>3, <3>1 DEF GameLoads
  <2>4. CASE GameConfirms  BY <2>4 DEF GameConfirms
  <2>5. CASE GameAnswers  BY <2>5, <1>e DEF GameAnswers, Files
  <2>6. CASE GameExits  BY <2>6, <1>d, <1>f DEF GameExits
  <2>7. CASE Crash  BY <2>7, <1>g, <1>i DEF Crash, PCs
  <2> QED BY <1>6, <2>1, <2>2, <2>3, <2>4, <2>5, <2>6, <2>7 DEF Environment
<1>7. CASE UNCHANGED newGameVars  BY <1>7 DEF newGameVars
<1> QED BY <1>1, <1>2, <1>3, <1>4, <1>5, <1>6, <1>7 DEF NewGameNext

-----------------------------------------------------------------------------
(* The inductive invariant                                                 *)

AtWork == pc \notin {"idle", "reserve"}

\* There is no transaction yet.
Fresh ==
    /\ disk.stage = "none" => disk = Blank /\ posts = 0
    /\ pc = "reserve" => disk.stage = "none"
    /\ start # "none" => disk.stage # "none"

\* The runner knows what is on disk: its memory may be ahead with what could
\* not be written, never behind, and never with a save, a command or a rollback.
Follows ==
    /\ disk.stage \in Undoing => disk.rb
    /\ AtWork =>
         /\ disk.stage # "none" /\ mem.stage # "none"
         /\ disk.called => mem.called
         /\ disk.progress => mem.progress
         /\ mem.cand = disk.cand /\ mem.cmd = disk.cmd
         /\ mem.rb => disk.rb
         /\ mem.stage \in Undoing => mem.rb

\* The request was sent once and the record says so.
Once == posts <= 1 /\ (posts >= 1 => disk.called)

\* Every command is the one on record.
Sole == \A c \in published : c = [id |-> disk.cmd, save |-> disk.cand] /\ c.id # 0

Core == Fresh /\ Follows /\ Once /\ TargetBound /\ Sole

\* What the runner may rely on where it is.
Positions ==
    /\ pc \in {"baseline", "intent"} => ~mem.called
    /\ pc = "post" => disk.called /\ posts = 0
    /\ pc = "undo" => ~mem.called /\ ~mem.progress
    /\ pc \in {"stopping", "rollback", "checkpoint"} =>
         /\ disk.stage = "rolling_back"
         /\ mem.stage = "rolling_back" /\ mem.rb
    /\ pc = "cleanup" => disk.stage = "finalizing"

NewGameInv == NewGameTypeOK /\ Finite /\ HasName /\ Core /\ Positions

\* The inductive invariant holds initially.
LEMMA NewGameInvInit == NewGameInit => NewGameInv
<1> SUFFICES ASSUME NewGameInit PROVE NewGameInv
  OBVIOUS
<1>1. Finite  BY FS_EmptySet DEF NewGameInit, Finite
<1>2. HasName /\ Positions  BY DEF NewGameInit, HasName, Positions
<1>3. Core
  BY BlankFacts DEF NewGameInit, Core, Fresh, Follows, Once, TargetBound, Sole, AtWork, Undoing
<1> QED BY <1>1, <1>2, <1>3, NewGameTypeInit DEF NewGameInv

\* A runner that leaves its memory at m, on disk or not, keeps the core.
LEMMA Advances ==
    ASSUME Core, AtWork, NEW m \in Record,
           pc' # "reserve", UNCHANGED start,
           mem' = (IF pc' = "idle" THEN Blank ELSE m),
           m.stage # "none", m.stage \in Undoing => m.rb,
           mem.called => m.called, mem.progress => m.progress,
           \/ disk' = m
           \/ disk' = disk /\ m.cand = disk.cand /\ m.cmd = disk.cmd /\ (m.rb => disk.rb),
           target' # NoSave => target' = m.cand,
           posts' <= 1, posts' >= 1 => disk'.called,
           Sole'
    PROVE  Core'
<1>1. Fresh'  BY DEF Core, Fresh, Follows
<1>2. Follows'  BY DEF Core, Follows, AtWork
<1>3. Once' /\ TargetBound'  BY DEF Core, Follows, Once, TargetBound, Sole
<1> QED BY <1>1, <1>2, <1>3 DEF Core

\* A record that says no less than the one in memory, of the same save and on
\* the same side of a rollback.
SaysNoLess(m) ==
    /\ m \in Record /\ m.stage # "none" /\ (m.stage \in Undoing => m.rb)
    /\ (mem.called => m.called) /\ (mem.progress => m.progress)
    /\ m.cand = mem.cand /\ m.cmd = mem.cmd /\ m.rb = mem.rb

\* No command comes into being but the reserved one.
Issues ==
    \A c \in published' :
      c \in published \/ (c = [id |-> mem.cmd, save |-> mem.cand] /\ mem.cmd # 0)

\* The usual step leaves such a record, and nothing is sent.
LEMMA Proceeds ==
    ASSUME Core, AtWork, NEW m, SaysNoLess(m),
           pc' # "reserve", UNCHANGED <<start, posts>>, posts \in Nat,
           mem' = (IF pc' = "idle" THEN Blank ELSE m),
           disk' = m \/ disk' = disk,
           target' \in {target, NoSave, mem.cand},
           Issues
    PROVE  Core'
<1> USE DEF SaysNoLess
<1>1. /\ mem.cand = disk.cand /\ mem.cmd = disk.cmd
      /\ mem.rb => disk.rb
      /\ disk.called => mem.called
  BY DEF Core, Follows
<1>2. target' # NoSave => target' = m.cand  BY <1>1 DEF Core, TargetBound
<1>3. posts' <= 1 /\ (posts' >= 1 => disk'.called)  BY <1>1 DEF Core, Once
<1>4. Sole'  BY <1>1 DEF Core, Sole, Issues
<1> QED BY <1>1, <1>2, <1>3, <1>4, Advances

\* The record of a rollback says no less either.
Begins(m) ==
    /\ m.stage = "rolling_back" /\ m.rb
    /\ m.called = mem.called /\ m.cand = mem.cand /\ m.cmd = mem.cmd
    /\ mem.progress => m.progress

\* Writing the record of a rollback keeps the core.
LEMMA RollbackBegun ==
    ASSUME Core, AtWork, NEW m \in Record, Begins(m),
           pc' \notin {"reserve", "idle"}, posts \in Nat,
           UNCHANGED <<start, posts, target, published>>,
           mem' = m, disk' = m
    PROVE  Core'
<1>1. mem.cand = disk.cand /\ mem.cmd = disk.cmd /\ (disk.called => mem.called)
  BY DEF Core, Follows
<1>2. target' # NoSave => target' = m.cand  BY <1>1 DEF Core, TargetBound, Begins
<1>3. posts' <= 1 /\ (posts' >= 1 => disk'.called)  BY <1>1 DEF Core, Once, Begins
<1>4. Sole'  BY <1>1 DEF Core, Sole, Begins
<1> QED BY <1>2, <1>3, <1>4, Advances DEF Begins, Undoing

\* A step of somebody else leaves the runner and the journal alone.
LEMMA Elsewhere ==
    ASSUME Core, UNCHANGED <<pc, mem, disk, posts, target, published>>,
           start' = start \/ start' = "none" \/ disk.stage # "none"
    PROVE  Core'
BY DEF Core, Fresh, Follows, Once, TargetBound, Sole, AtWork

\* Nor does it move what the runner relies on.
LEMMA Rests ==
    ASSUME HasName, Positions, UNCHANGED <<pc, mem, disk, posts>>
    PROVE  HasName' /\ Positions'
BY DEF HasName, Positions, Candidate, AllUndone

\* Every action keeps the rest of it.
LEMMA NewGameInvNext == NewGameInv /\ [NewGameNext]_newGameVars => Core' /\ HasName' /\ Positions'
<1> USE DEF Positions, HasName
<1> SUFFICES ASSUME NewGameInv, [NewGameNext]_newGameVars PROVE Core' /\ HasName' /\ Positions'
  OBVIOUS
<1> USE DEF NewGameInv, Ok, Fail, Goto, Persist, Bookkeeping,
            runner, durable, saves, command, disks, worldVars, others
<1>a. mem \in Record /\ disk \in Record /\ posts \in Nat  BY DEF NewGameTypeOK
<1>b. /\ Seen \in Record
      /\ Seen.stage = mem.stage /\ Seen.called = mem.called
      /\ Seen.cand = mem.cand /\ Seen.cmd = mem.cmd /\ Seen.rb = mem.rb
      /\ mem.progress => Seen.progress
  BY SeenFacts DEF NewGameTypeOK
<1>c. (AtWork => SaysNoLess(mem) /\ SaysNoLess(Seen)) /\ (UNCHANGED published => Issues)
  <2>1. AtWork => SaysNoLess(mem) /\ SaysNoLess(Seen)
    BY <1>a, <1>b DEF SaysNoLess, Core, Follows
  <2>2. UNCHANGED published => Issues  BY DEF Issues
  <2> QED BY <2>1, <2>2
<1>d. \A s \in {"configured", "marker_written", "mods_prepared", "catalog_requested",
                "compose_started", "catalog_validated", "ambiguous", "observing",
                "profile_commit_pending", "finalizing", "success", "unknown",
                "rolled_back"} :
        /\ SaysNoLess(Stage(s)) /\ Stage(s).stage = s
        /\ Stage(s).called = mem.called /\ Stage(s).cand = mem.cand
  BY <1>a, StageFacts DEF SaysNoLess, TransactionStages, Terminal, Undoing
<1>1. CASE Admission
  <2>1. CASE Claim
    <3>1. Core'  BY <2>1 DEF Claim, Core, Fresh, Follows, Once, TargetBound, Sole, AtWork
    <3> QED BY <2>1, <3>1 DEF Claim
  <2>2. CASE Reserve
    <3>1. disk = Blank /\ posts = 0 /\ target = NoSave /\ start = "none"
      BY <2>2, BlankFacts DEF Reserve, Core, Fresh, TargetBound
    <3>2. PICK w \in {"startup", "http"} :
            Persist([Blank EXCEPT !.stage = "preparing", !.writer = w], "preflight", "idle")
      BY <2>2 DEF Reserve
    <3> DEFINE m == [Blank EXCEPT !.stage = "preparing", !.writer = w]
    <3>3. /\ m.stage = "preparing" /\ ~m.called /\ ~m.progress
          /\ m.cand = NoSave /\ ~m.rb
      BY DEF Blank
    <3>4. /\ UNCHANGED <<posts, target, start, published>>
          /\ \/ pc' = "preflight" /\ mem' = m /\ disk' = m
             \/ pc' = "idle" /\ disk' = disk
      BY <2>2, <3>2 DEF Reserve
    <3> HIDE DEF m
    <3>5. Core'
      BY <3>1, <3>3, <3>4, BlankFacts
      DEF Core, Fresh, Follows, Once, TargetBound, Sole, AtWork, Undoing
    <3> QED BY <3>4, <3>5
  <2>3. CASE StartRead  BY <2>3, Elsewhere, Rests DEF StartRead
  <2>4. CASE StartCleans  BY <2>4, Elsewhere, Rests DEF StartCleans
  <2>5. CASE StartJoins  BY <2>5, Elsewhere, Rests DEF StartJoins
  <2>6. CASE StartJob
    <3>1. UNCHANGED <<disk, posts, target, published>> /\ start' = "none" /\ disk.stage # "none"
      BY <2>6 DEF StartJob, Core, Fresh
    <3>2. \/ pc' \in {"recover", "preflight"} /\ mem' = disk
          \/ pc' = "idle"
      BY <2>6 DEF StartJob
    <3>3. Core'  BY <3>1, <3>2 DEF Core, Fresh, Follows, Once, TargetBound, Sole, AtWork
    <3> QED BY <3>2, <3>3
  <2> QED
    BY <1>1, <2>1, <2>2, <2>3, <2>4, <2>5, <2>6
    DEF Admission
<1>2. CASE PrepareFiles
  <2> USE DEF AtWork
  <2>1. CASE Preflight
    <3>1. Core'  BY <2>1, <1>a, <1>c, Proceeds DEF Preflight
    <3> QED BY <2>1, <3>1 DEF Preflight
  <2>2. CASE TakeOver
    <3>1. Core'  BY <2>2, <1>a, <1>c, Proceeds DEF TakeOver
    <3> QED BY <2>2, <3>1 DEF TakeOver
  <2>3. CASE WriteConfig
    <3>1. Core'  BY <2>3, <1>a, <1>c, <1>d, Proceeds DEF WriteConfig
    <3> QED BY <2>3, <3>1 DEF WriteConfig
  <2>4. CASE WriteMarker
    <3>1. Core'  BY <2>4, <1>a, <1>c, <1>d, Proceeds DEF WriteMarker
    <3> QED BY <2>4, <3>1 DEF WriteMarker
  <2>5. CASE Gates
    <3>1. Core'  BY <2>5, <1>a, <1>c, Proceeds DEF Gates
    <3> QED BY <2>5, <3>1 DEF Gates
  <2>6. CASE PrepareMods
    <3>1. Core'  BY <2>6, <1>a, <1>c, <1>d, Proceeds DEF PrepareMods
    <3> QED BY <2>6, <3>1 DEF PrepareMods
  <2>7. CASE RequestCatalog
    <3>1. Core'  BY <2>7, <1>a, <1>c, <1>d, Proceeds DEF RequestCatalog
    <3> QED BY <2>7, <3>1 DEF RequestCatalog
  <2>8. CASE ComposeUp
    <3>1. Core'  BY <2>8, <1>a, <1>c, Proceeds DEF ComposeUp
    <3> QED BY <2>8, <3>1 DEF ComposeUp
  <2>9. CASE MarkStarted
    <3>1. Core'  BY <2>9, <1>a, <1>c, <1>d, Proceeds DEF MarkStarted
    <3> QED BY <2>9, <3>1 DEF MarkStarted
  <2> QED
    BY <1>2, <2>1, <2>2, <2>3, <2>4, <2>5, <2>6, <2>7, <2>8, <2>9
    DEF PrepareFiles
<1>3. CASE Creation
  <2> USE DEF AtWork, Observe
  <2>1. CASE AwaitServer
    <3>1. Core'  BY <2>1, <1>a, <1>c, Proceeds DEF AwaitServer
    <3> QED BY <2>1, <3>1 DEF AwaitServer
  <2>2. CASE ControlGateFails
    <3>1. Core'  BY <2>2, <1>a, <1>c, Proceeds DEF ControlGateFails
    <3> QED BY <2>2, <3>1 DEF ControlGateFails
  <2>3. CASE AwaitCatalog
    <3>1. Core'  BY <2>3, <1>a, <1>c, <1>d, Proceeds DEF AwaitCatalog
    <3> QED BY <2>3, <3>1 DEF AwaitCatalog
  <2>4. CASE Decide
    <3>1. Core'  BY <2>4, <1>a, <1>c, Proceeds DEF Decide
    <3> QED BY <2>4, <3>1, <1>b DEF Decide
  <2>5. CASE Baseline
    <3>1. Core'  BY <2>5, <1>a, <1>c, Proceeds DEF Baseline
    <3> QED BY <2>5, <3>1, <1>b DEF Baseline
  <2>6. CASE MarkCommandCalled
    <3> DEFINE m == [mem EXCEPT !.called = TRUE, !.stage = "command_called"]
    <3>1. SaysNoLess(m) /\ m.called
      BY ZenonT(60), <2>6, <1>a DEF MarkCommandCalled, SaysNoLess, Record, TransactionStages, Undoing
    <3>2. posts = 0  BY <2>6, <1>a DEF MarkCommandCalled, Core, Once, Follows
    <3>3. /\ UNCHANGED <<start, posts, target, published>>
          /\ \/ pc' = "post" /\ mem' = m /\ disk' = m
             \/ pc' = "failed" /\ mem' = m /\ disk' = disk
      BY <2>6 DEF MarkCommandCalled
    <3> HIDE DEF m
    <3>4. Core'  BY <2>6, <1>a, <1>c, <3>1, <3>3, Proceeds DEF MarkCommandCalled
    <3> QED BY <3>1, <3>2, <3>3, <3>4
  <2>7. CASE PostNewGame
    <3>1. posts = 0 /\ disk.called  BY <2>7 DEF PostNewGame
    <3>2. Core'
      BY <2>7, <1>a, <3>1
      DEF PostNewGame, Core, Fresh, Follows, Once, TargetBound, Sole
    <3> QED BY <2>7, <3>2 DEF PostNewGame
  <2>8. CASE MarkAmbiguous
    <3>1. Core'  BY <2>8, <1>a, <1>c, <1>d, Proceeds DEF MarkAmbiguous
    <3> QED BY <2>8, <3>1 DEF MarkAmbiguous
  <2>9. CASE MarkObserving
    <3>1. Core'  BY <2>9, <1>a, <1>c, <1>d, Proceeds DEF MarkObserving
    <3> QED BY <2>9, <3>1 DEF MarkObserving
  <2>10. CASE AwaitCandidate
    <3>1. Core'  BY <2>10, <1>a, <1>c, Proceeds DEF AwaitCandidate
    <3> QED BY <2>10, <3>1, <1>b DEF AwaitCandidate, Candidate
  <2>11. CASE BindCandidate
    <3> DEFINE m == [Seen EXCEPT !.cand = Candidate]
    <3>1. Candidate # NoSave /\ (mem.cand # NoSave => Candidate = mem.cand)
      BY <2>11 DEF BindCandidate, Candidate
    <3>2. /\ m \in Record /\ m.cand = Candidate /\ m.rb = mem.rb
          /\ m.stage = mem.stage /\ m.called = mem.called
          /\ mem.progress => m.progress
      <4>1. Candidate \in Saves \cup {NoSave}  BY <1>a DEF Candidate, Record
      <4> QED BY <1>b, <4>1 DEF Record
    <3>3. /\ UNCHANGED <<start, posts, target, published>>
          /\ \/ /\ pc' = "target" /\ mem' = m /\ target \in {NoSave, Candidate}
                /\ disk' = IF m = mem THEN disk ELSE m
             \/ /\ pc' = "failed" /\ mem' = Seen
                /\ disk' = IF Seen = mem THEN disk ELSE Seen
             \/ pc' = "failed" /\ mem' = mem /\ disk' = disk
      BY <2>11 DEF BindCandidate
    <3> HIDE DEF m
    <3>4. CASE pc' = "failed"
      <4>1. Core'  BY <2>11, <1>a, <1>c, <3>3, <3>4, Proceeds DEF BindCandidate
      <4> QED BY <3>4, <4>1
    <3>5. CASE pc' = "target"
      <4>1. mem.cand = disk.cand /\ mem.cmd = disk.cmd
            /\ (mem.rb => disk.rb) /\ (disk.called => mem.called)
            /\ mem.stage # "none" /\ (mem.stage \in Undoing => mem.rb)
        BY <2>11 DEF BindCandidate, Core, Follows
      <4>2. posts' <= 1 /\ (posts' >= 1 => disk'.called)
        BY <3>2, <3>3, <3>5, <4>1 DEF Core, Once
      <4>3. m.cmd = mem.cmd  BY <1>b DEF m, Record
      <4>4. Sole'
        <5>1. mem.cand = NoSave => published = {}
          BY <4>1, NoSaveAssumption DEF Core, Sole, NewGameTypeOK, SaveCommands
        <5> QED BY <3>1, <3>2, <3>3, <3>5, <4>1, <4>3, <5>1 DEF Core, Sole
      <4>5. Core'
        BY <2>11, <3>2, <3>3, <3>5, <4>1, <4>2, <4>3, <4>4, Advances DEF BindCandidate
      <4> QED BY <3>1, <3>2, <3>3, <3>5, <4>5
    <3> QED BY <3>3, <3>4, <3>5
  <2>12. CASE BindMarker
    <3>1. Core'  BY <2>12, <1>a, <1>c, Proceeds DEF BindMarker
    <3> QED BY <2>12, <3>1 DEF BindMarker
  <2> QED
    BY <1>3, <2>1, <2>2, <2>3, <2>4, <2>5, <2>6, <2>7, <2>8, <2>9, <2>10, <2>11, <2>12
    DEF Creation
<1>4. CASE Commit
  <2> USE DEF AtWork
  <2>1. CASE AwaitControl
    <3>1. SaysNoLess([mem EXCEPT !.loaded = TRUE]) /\ [mem EXCEPT !.loaded = TRUE].cand = mem.cand
      BY <2>1, <1>a, <1>b, <1>c DEF AwaitControl, SaysNoLess, Record
    <3>2. Core'  BY <2>1, <1>a, <1>c, <3>1, Proceeds DEF AwaitControl
    <3> QED BY <2>1, <3>2, <3>1 DEF AwaitControl
  <2>2. CASE ReserveCommand
    <3> DEFINE m == [mem EXCEPT !.cmd = Cardinality(published) + 1]
    <3>1. Cardinality(published) \in Nat  BY FS_CardinalityType DEF Finite
    <3>2. /\ m \in Record /\ m.cmd # 0 /\ m.cand = mem.cand /\ m.rb = mem.rb
          /\ m.stage = mem.stage /\ m.called = mem.called /\ m.progress = mem.progress
      BY <1>a, <3>1 DEF Record
    <3>3. /\ AtWork /\ UNCHANGED <<start, posts, target, published>>
          /\ \/ pc' = "publish" /\ mem' = m /\ disk' = m /\ mem.cmd = 0
             \/ pc' = "publish" /\ mem' = mem /\ disk' = disk /\ mem.cmd # 0
             \/ pc' = "failed" /\ mem' = mem /\ disk' = disk
      BY <2>2 DEF ReserveCommand
    <3>4. /\ mem.cand = disk.cand /\ mem.cmd = disk.cmd /\ (mem.rb => disk.rb)
          /\ mem.stage # "none" /\ (mem.stage \in Undoing => mem.rb)
          /\ disk.called => mem.called
      BY <3>3 DEF Core, Follows
    <3> HIDE DEF m
    <3>5. ASSUME mem' = mem, disk' = disk PROVE Core'
      BY <1>a, <1>c, <3>3, <3>5, Proceeds
    <3>6. ASSUME pc' = "publish", mem' = m, disk' = m, mem.cmd = 0 PROVE Core'
      <4>1. published = {}  BY <3>4, <3>6 DEF Core, Sole
      <4>2. Sole'  BY <3>3, <4>1 DEF Sole
      <4>3. /\ posts' <= 1 /\ (posts' >= 1 => disk'.called)
            /\ target' # NoSave => target' = m.cand
        BY <3>2, <3>3, <3>4, <3>6 DEF Core, Once, TargetBound
      <4> QED BY <3>2, <3>3, <3>4, <3>6, <4>2, <4>3, Advances
    <3>7. Core'  BY <3>3, <3>5, <3>6
    <3> QED BY <2>2, <3>2, <3>3, <3>7 DEF ReserveCommand
  <2>3. CASE Publish
    <3>1. Issues  BY <2>3 DEF Publish, Issues
    <3>2. Core'  BY <2>3, <1>a, <1>c, <3>1, Proceeds DEF Publish
    <3> QED BY <2>3, <3>2 DEF Publish
  <2>4. CASE AwaitSaved
    <3>1. SaysNoLess([mem EXCEPT !.saved = TRUE]) /\ [mem EXCEPT !.saved = TRUE].cand = mem.cand
      BY <2>4, <1>a, <1>b, <1>c DEF AwaitSaved, SaysNoLess, Record
    <3>2. Core'  BY <2>4, <1>a, <1>c, <3>1, Proceeds DEF AwaitSaved
    <3> QED BY <2>4, <3>2, <3>1 DEF AwaitSaved
  <2>5. CASE VerifyDisk
    <3>1. SaysNoLess([Seen EXCEPT !.verified = TRUE]) /\ [Seen EXCEPT !.verified = TRUE].cand = mem.cand
      BY <2>5, <1>a, <1>b, <1>c DEF VerifyDisk, SaysNoLess, Record
    <3>2. Core'  BY <2>5, <1>a, <1>c, <3>1, Proceeds DEF VerifyDisk
    <3> QED BY <2>5, <3>2, <3>1 DEF VerifyDisk
  <2>6. CASE CommitProfile
    <3>1. Core'  BY <2>6, <1>a, <1>c, <1>d, Proceeds DEF CommitProfile
    <3> QED BY <2>6, <3>1 DEF CommitProfile
  <2>7. CASE Complete
    <3>1. Core'  BY <2>7, <1>a, <1>c, <1>d, Proceeds DEF Complete
    <3> QED BY <2>7, <3>1, <1>d DEF Complete
  <2>8. CASE Cleanup
    <3>1. Core'  BY <2>8, <1>a, <1>c, Proceeds DEF Cleanup
    <3> QED BY <2>8, <3>1 DEF Cleanup
  <2>9. CASE Succeed
    <3>1. Core'  BY <2>9, <1>a, <1>c, <1>d, Proceeds DEF Succeed
    <3> QED BY <2>9, <3>1 DEF Succeed
  <2>10. CASE Release
    <3>1. Core'  BY <2>10, <1>a, <1>c, Proceeds DEF Release
    <3> QED BY <2>10, <3>1 DEF Release
  <2> QED
    BY <1>4, <2>1, <2>2, <2>3, <2>4, <2>5, <2>6, <2>7, <2>8, <2>9, <2>10
    DEF Commit
<1>5. CASE Failure
  <2> USE DEF AtWork
  <2>1. CASE GiveUp
    <3>1. Core'  BY <2>1, <1>a, <1>c, Proceeds DEF GiveUp, Forward
    <3> QED BY <2>1, <3>1 DEF GiveUp, Forward
  <2>2. CASE Prefail
    <3>1. AtWork /\ UNCHANGED <<start, posts, target, published>> /\ pc' \in {"idle", "rollback"}
      BY <2>2 DEF Prefail
    <3>2. SaysNoLess([Seen EXCEPT !.stage = "unknown"])
      BY <1>b DEF SaysNoLess, Record, TransactionStages, Undoing
    <3>3. RollbackRecord(Seen) \in Record /\ Begins(RollbackRecord(Seen))
      BY <1>b, RollbackFacts DEF NewGameTypeOK, Begins
    <3>4. \/ pc' = "idle" /\ mem' = Blank
             /\ disk' \in {disk, Seen, [Seen EXCEPT !.stage = "unknown"], Stage("unknown")}
          \/ /\ pc' = "rollback" /\ mem' = RollbackRecord(Seen)
             /\ disk' = RollbackRecord(Seen)
      BY <2>2 DEF Prefail
    <3>5. CASE pc' = "idle"
      <4>1. Core'  BY <1>a, <1>c, <1>d, <3>1, <3>2, <3>4, <3>5, Proceeds
      <4> QED BY <3>5, <4>1
    <3>6. CASE pc' = "rollback"
      <4>1. Core'  BY <1>a, <3>1, <3>3, <3>4, <3>6, RollbackBegun
      <4> QED BY <3>3, <3>4, <3>6, <4>1 DEF Begins
    <3> QED BY <3>1, <3>5, <3>6
  <2>3. CASE Recheck
    <3>1. Core'  BY <2>3, <1>a, <1>c, Proceeds DEF Recheck, Observe
    <3> QED BY <2>3, <3>1, <1>b DEF Recheck, Observe, Irreversible
  <2>4. CASE Preserve
    <3>1. Core'  BY <2>4, <1>a, <1>c, <1>d, Proceeds DEF Preserve
    <3> QED BY <2>4, <3>1 DEF Preserve
  <2>5. CASE Undo
    <3>1. RollbackRecord(mem) \in Record /\ Begins(RollbackRecord(mem))
      BY <1>a, RollbackFacts DEF NewGameTypeOK, Begins
    <3>2. /\ AtWork /\ UNCHANGED <<start, posts, target, published>>
          /\ \/ pc' = "idle" /\ mem' = Blank /\ disk' = disk
             \/ /\ pc' \in {"stopping", "rollback"} /\ mem' = RollbackRecord(mem)
                /\ disk' = RollbackRecord(mem)
      BY <2>5 DEF Undo
    <3>3. CASE pc' = "idle"
      <4>1. Core'  BY <1>a, <1>c, <3>2, <3>3, Proceeds
      <4> QED BY <3>3, <4>1
    <3>4. CASE pc' \in {"stopping", "rollback"}
      <4>1. Core'  BY <1>a, <3>1, <3>2, <3>4, RollbackBegun
      <4> QED BY <3>1, <3>2, <3>4, <4>1 DEF Begins
    <3> QED BY <3>2, <3>3, <3>4
  <2>6. CASE Recover
    <3>1. RollbackRecord(mem) \in Record /\ Begins(RollbackRecord(mem))
      BY <1>a, RollbackFacts DEF NewGameTypeOK, Begins
    <3>2. /\ AtWork /\ UNCHANGED <<start, posts, target, published>>
          /\ \/ pc' = "idle" /\ mem' = Blank /\ disk' = disk
             \/ /\ pc' \in {"stopping", "rollback"} /\ mem' = RollbackRecord(mem)
                /\ disk' = RollbackRecord(mem)
      BY <2>6 DEF Recover
    <3>3. CASE pc' = "idle"
      <4>1. Core'  BY <1>a, <1>c, <3>2, <3>3, Proceeds
      <4> QED BY <3>3, <4>1
    <3>4. CASE pc' \in {"stopping", "rollback"}
      <4>1. Core'  BY <1>a, <3>1, <3>2, <3>4, RollbackBegun
      <4> QED BY <3>1, <3>2, <3>4, <4>1 DEF Begins
    <3> QED BY <3>2, <3>3, <3>4
  <2>7. CASE StopContainers
    <3>1. SaysNoLess([mem EXCEPT !.stage = "rollback_failed"])
      BY <2>7, <1>a, <1>c DEF StopContainers, SaysNoLess, Record, TransactionStages, Undoing
    <3>2. Core'  BY <2>7, <1>a, <1>c, <3>1, Proceeds DEF StopContainers, FailRollback
    <3> QED BY <2>7, <3>2, <3>1 DEF StopContainers, FailRollback
  <2>8. CASE Apply
    <3>1. SaysNoLess([mem EXCEPT !.stage = "rollback_failed"])
      BY <2>8, <1>a, <1>c DEF Apply, SaysNoLess, Record, TransactionStages, Undoing
    <3>2. target' \in {target, NoSave, mem.cand}  BY <2>8 DEF Apply, Undone, Quarantined
    <3>3. /\ AtWork /\ UNCHANGED <<start, posts, published>>
          /\ \/ pc' = "checkpoint" /\ mem' = mem /\ disk' = disk
             \/ /\ pc' = "idle" /\ mem' = Blank
                /\ disk' \in {disk, [mem EXCEPT !.stage = "rollback_failed"]}
      BY <2>8 DEF Apply, FailRollback
    <3>4. Core'  BY <1>a, <1>c, <3>1, <3>2, <3>3, Proceeds
    <3> QED BY <2>8, <3>3, <3>4 DEF Apply, AllUndone
  <2>9. CASE Checkpoint
    <3> DEFINE m == [mem EXCEPT !.done = mem.done \cup {NextStep}]
    <3>1. SaysNoLess(m) /\ m.stage = mem.stage
      BY <2>9, <1>a, <1>c, NextStepFacts DEF Checkpoint, SaysNoLess, Record
    <3>2. /\ UNCHANGED <<start, posts, target, published>>
          /\ \/ pc' = "rollback" /\ mem' = m /\ disk' = m
             \/ pc' = "idle" /\ mem' = Blank /\ disk' = disk
      BY <2>9 DEF Checkpoint
    <3> HIDE DEF m
    <3>3. Core'  BY <2>9, <1>a, <1>c, <3>1, <3>2, Proceeds DEF Checkpoint
    <3> QED BY <2>9, <3>1, <3>2, <3>3 DEF Checkpoint, SaysNoLess
  <2>10. CASE FinishRollback
    <3>1. Core'  BY <2>10, <1>a, <1>c, <1>d, Proceeds DEF FinishRollback
    <3> QED BY <2>10, <3>1 DEF FinishRollback
  <2> QED
    BY <1>5, <2>1, <2>2, <2>3, <2>4, <2>5, <2>6, <2>7, <2>8, <2>9, <2>10
    DEF Failure
<1>6. CASE Environment
  <2> USE DEF Playing
  <2>1. CASE GameBegins  BY <2>1, Elsewhere, Rests DEF GameBegins
  <2>2. CASE GameWrites  BY <2>2, Elsewhere, Rests DEF GameWrites
  <2>3. CASE GameLoads  BY <2>3, Elsewhere, Rests DEF GameLoads
  <2>4. CASE GameConfirms  BY <2>4, Elsewhere, Rests DEF GameConfirms
  <2>5. CASE GameAnswers  BY <2>5, Elsewhere, Rests DEF GameAnswers
  <2>6. CASE GameExits  BY <2>6, Elsewhere, Rests DEF GameExits
  <2>7. CASE Crash
    <3>1. Core'  BY <2>7 DEF Crash, Core, Fresh, Follows, Once, TargetBound, Sole, AtWork
    <3> QED BY <2>7, <3>1 DEF Crash
  <2> QED
    BY <1>6, <2>1, <2>2, <2>3, <2>4, <2>5, <2>6, <2>7
    DEF Environment
<1>7. CASE UNCHANGED newGameVars  BY <1>7, Elsewhere, Rests DEF newGameVars
<1> QED BY <1>1, <1>2, <1>3, <1>4, <1>5, <1>6, <1>7 DEF NewGameNext

-----------------------------------------------------------------------------
(* The theorems                                                            *)

\* The inductive invariant holds in every reachable state.
THEOREM Inductive == NewGameSpec => []NewGameInv
<1>1. NewGameInv /\ [NewGameNext]_newGameVars => NewGameInv'
  BY NewGameTypeNext, NewGameInvNext DEF NewGameInv
<1> QED BY <1>1, NewGameInvInit, PTL DEF NewGameSpec

\* Every variable keeps its type, in memory and on disk.
THEOREM NewGameTypes == NewGameSpec => []NewGameTypeOK
<1>1. NewGameInv => NewGameTypeOK  BY DEF NewGameInv
<1> QED BY <1>1, Inductive, PTL

\* POST /newgame is sent at most once, for any number of failures, panel stops
\* and resumptions (postNewGameOnce, CommandCalled).
THEOREM PostedOnceHolds == NewGameSpec => []PostedOnce
<1>1. NewGameInv => PostedOnce  BY DEF NewGameInv, Core, Once, PostedOnce
<1> QED BY <1>1, Inductive, PTL

\* The marker is never bound to a save the record is not bound to
\* (bindTargetSave, prepareConfigAndMarker).
THEOREM TargetBoundHolds == NewGameSpec => []TargetBound
<1>1. NewGameInv => TargetBound  BY DEF NewGameInv, Core
<1> QED BY <1>1, Inductive, PTL

\* At most one durable-save command ever exists, for the save on record
\* (ensureDurableSaveCommandID, publishDurableSaveCommand).
THEOREM OneSaveCommandHolds == NewGameSpec => []OneSaveCommand
<1>1. ASSUME NewGameInv PROVE OneSaveCommand
  <2> DEFINE sole == [id |-> disk.cmd, save |-> disk.cand]
  <2>1. published \subseteq {sole}  BY <1>1 DEF NewGameInv, Core, Sole
  <2>2. IsFiniteSet({sole}) /\ Cardinality({sole}) = 1  BY FS_Singleton
  <2>3. Cardinality(published) <= 1  BY <2>1, <2>2, FS_Subset
  <2> QED BY <2>1, <2>3 DEF OneSaveCommand
<1> QED BY <1>1, Inductive, PTL

\* What WriteAhead says of one step.
PutsBackLogged ==
    \/ \E f \in Files : files[f] # "orig" /\ files'[f] = "orig"
    \/ quar' # quar
    \/ loader # NoSave /\ loader' = NoSave
    => disk.stage \in {"rolling_back", "finalizing"}

\* Steps that leave the journalled files, the quarantine and the pointer.
LEMMA Untouched == UNCHANGED <<files, quar, loader>> => PutsBackLogged
BY DEF PutsBackLogged

\* Steps that write transaction files put none back.
LEMMA FilesWritten ==
    ASSUME files \in [Files -> {"orig", "gone", "tx"}], UNCHANGED <<quar, loader>>,
           \A f \in Files : files'[f] \in {files[f], "gone", "tx"}
    PROVE  PutsBackLogged
BY DEF PutsBackLogged

\* No action puts anything back before the journal says so.
LEMMA WriteAheadStep == NewGameInv /\ [NewGameNext]_newGameVars => PutsBackLogged
<1> SUFFICES ASSUME NewGameInv, [NewGameNext]_newGameVars PROVE PutsBackLogged
  OBVIOUS
<1> USE DEF NewGameInv, Bookkeeping, saves, command, disks, worldVars, others
<1>a. files \in [Files -> {"orig", "gone", "tx"}]  BY DEF NewGameTypeOK
<1>1. CASE Admission
  BY <1>1, Untouched DEF Admission, Claim, Reserve, StartRead, StartCleans, StartJoins, StartJob
<1>2. CASE PrepareFiles
  <2>1. CASE Preflight \/ TakeOver \/ ComposeUp \/ MarkStarted
    BY <2>1, Untouched DEF Preflight, TakeOver, ComposeUp, MarkStarted
  <2>2. CASE WriteConfig  BY <2>2, <1>a, FilesWritten DEF WriteConfig
  <2>3. CASE WriteMarker  BY <2>3, <1>a, FilesWritten DEF WriteMarker
  <2>4. CASE Gates  BY <2>4, <1>a, FilesWritten DEF Gates
  <2>5. CASE PrepareMods  BY <2>5, <1>a, FilesWritten DEF PrepareMods
  <2>6. CASE RequestCatalog  BY <2>6, <1>a, FilesWritten DEF RequestCatalog
  <2> QED BY <1>2, <2>1, <2>2, <2>3, <2>4, <2>5, <2>6 DEF PrepareFiles
<1>3. CASE Creation
  BY <1>3, Untouched
  DEF Creation, AwaitServer, ControlGateFails, AwaitCatalog, Decide, Baseline,
      MarkCommandCalled, PostNewGame, MarkAmbiguous, MarkObserving, AwaitCandidate,
      BindCandidate, BindMarker
<1>4. CASE Commit
  <2>1. CASE CommitProfile  BY <2>1, <1>a, FilesWritten DEF CommitProfile
  <2>2. CASE Cleanup  BY <2>2 DEF Cleanup, Positions, PutsBackLogged
  <2>3. CASE AwaitControl \/ ReserveCommand \/ Publish \/ AwaitSaved \/ VerifyDisk
             \/ Complete \/ Succeed \/ Release
    BY <2>3, Untouched
    DEF AwaitControl, ReserveCommand, Publish, AwaitSaved, VerifyDisk, Complete,
        Succeed, Release
  <2> QED BY <1>4, <2>1, <2>2, <2>3 DEF Commit
<1>5. CASE Failure
  <2>1. CASE Apply  BY <2>1 DEF Apply, Positions, PutsBackLogged
  <2>2. CASE GiveUp \/ Prefail \/ Recheck \/ Preserve \/ Undo \/ Recover \/ StopContainers
             \/ Checkpoint \/ FinishRollback
    BY <2>2, Untouched
    DEF GiveUp, Prefail, Recheck, Preserve, Undo, Recover, StopContainers, Checkpoint, FinishRollback
  <2> QED BY <1>5, <2>1, <2>2 DEF Failure
<1>6. CASE Environment
  <2> USE DEF Playing
  <2>1. CASE GameWrites
    <3>1. loader' # NoSave \/ loader' = loader  BY <2>1 DEF GameWrites
    <3> QED BY <2>1, <3>1 DEF GameWrites, PutsBackLogged
  <2>2. CASE GameAnswers  BY <2>2, <1>a, FilesWritten DEF GameAnswers
  <2>3. CASE GameBegins \/ GameLoads \/ GameConfirms \/ GameExits \/ Crash
    BY <2>3, Untouched DEF GameBegins, GameLoads, GameConfirms, GameExits, Crash
  <2> QED BY <1>6, <2>1, <2>2, <2>3 DEF Environment
<1>7. CASE UNCHANGED newGameVars  BY <1>7, Untouched DEF newGameVars
<1> QED BY <1>1, <1>2, <1>3, <1>4, <1>5, <1>6, <1>7 DEF NewGameNext

\* Nothing is put back before the journal says that a rollback, or the final
\* cleanup, has begun (beginRollback, complete).
THEOREM WriteAheadHolds == NewGameSpec => WriteAhead
<1>1. NewGameInv /\ [NewGameNext]_newGameVars => [PutsBackLogged]_newGameVars  BY WriteAheadStep
<1> QED BY <1>1, Inductive, PTL DEF NewGameSpec, WriteAhead, PutsBackLogged

\* What ProgressIsNeverUndone says of one step.
BeginsClean ==
    ~disk.rb /\ disk'.rb =>
        /\ ~disk.progress
        /\ pc = "undo" => ~disk.called

\* Records on the same side of a rollback begin none.
LEMMA BeginsNone ==
    ASSUME Core, AtWork, disk' = disk \/ disk'.rb = mem.rb
    PROVE  BeginsClean
BY DEF Core, Follows, BeginsClean

\* No action begins a rollback over recorded progress.
LEMMA ProgressStep == NewGameInv /\ [NewGameNext]_newGameVars => BeginsClean
<1> SUFFICES ASSUME NewGameInv, [NewGameNext]_newGameVars PROVE BeginsClean
  OBVIOUS
<1> USE DEF NewGameInv, Ok, Fail, Goto, Persist, Observe, Bookkeeping, AtWork,
            runner, durable, saves, command, disks, worldVars, others
<1>a. mem \in Record /\ disk \in Record  BY DEF NewGameTypeOK
<1>b. /\ Seen \in Record /\ Seen.rb = mem.rb /\ Seen.called = mem.called
      /\ mem.progress => Seen.progress
  BY SeenFacts DEF NewGameTypeOK
<1>c. \A s \in {"configured", "marker_written", "mods_prepared", "catalog_requested",
                "compose_started", "catalog_validated", "ambiguous", "observing",
                "profile_commit_pending", "finalizing", "success", "unknown",
                "rolled_back", "rollback_failed"} :
        Stage(s).rb = mem.rb
  BY <1>a, StageFacts DEF TransactionStages, Terminal, Undoing
<1>0. UNCHANGED disk => BeginsClean  BY DEF BeginsClean
<1>1. CASE Admission
  <2>1. CASE Reserve
    <3>1. ~disk'.rb  BY <2>1, BlankFacts DEF Reserve, Blank, Core, Fresh
    <3> QED BY <3>1 DEF BeginsClean
  <2> QED BY <1>0, <1>1, <2>1 DEF Admission, Claim, StartRead, StartCleans, StartJoins, StartJob
<1>2. CASE PrepareFiles
  <2>1. CASE Preflight \/ TakeOver \/ Gates \/ ComposeUp
    BY <1>0, <2>1 DEF Preflight, TakeOver, Gates, ComposeUp
  <2>2. CASE WriteConfig  BY <1>c, <2>2, BeginsNone DEF WriteConfig
  <2>3. CASE WriteMarker  BY <1>c, <2>3, BeginsNone DEF WriteMarker
  <2>4. CASE PrepareMods  BY <1>c, <2>4, BeginsNone DEF PrepareMods
  <2>5. CASE RequestCatalog  BY <1>c, <2>5, BeginsNone DEF RequestCatalog
  <2>6. CASE MarkStarted  BY <1>c, <2>6, BeginsNone DEF MarkStarted
  <2> QED BY <1>2, <2>1, <2>2, <2>3, <2>4, <2>5, <2>6 DEF PrepareFiles
<1>3. CASE Creation
  <2>1. CASE AwaitServer \/ ControlGateFails \/ PostNewGame \/ BindMarker
    BY <1>0, <2>1 DEF AwaitServer, ControlGateFails, PostNewGame, BindMarker
  <2>2. CASE AwaitCatalog  BY <1>c, <2>2, BeginsNone DEF AwaitCatalog
  <2>3. CASE Decide  BY <1>b, <2>3, BeginsNone DEF Decide
  <2>4. CASE Baseline  BY <1>b, <2>4, BeginsNone DEF Baseline
  <2>5. CASE MarkCommandCalled
    <3>1. [mem EXCEPT !.called = TRUE, !.stage = "command_called"].rb = mem.rb
      BY <1>a DEF Record
    <3> QED BY <2>5, <3>1, BeginsNone DEF MarkCommandCalled
  <2>6. CASE MarkAmbiguous  BY <1>c, <2>6, BeginsNone DEF MarkAmbiguous
  <2>7. CASE MarkObserving  BY <1>c, <2>7, BeginsNone DEF MarkObserving
  <2>8. CASE AwaitCandidate  BY <1>b, <2>8, BeginsNone DEF AwaitCandidate
  <2>9. CASE BindCandidate
    <3>1. [Seen EXCEPT !.cand = Candidate].rb = mem.rb  BY <1>b DEF Record
    <3> QED BY <1>b, <2>9, <3>1, BeginsNone DEF BindCandidate
  <2> QED BY <1>3, <2>1, <2>2, <2>3, <2>4, <2>5, <2>6, <2>7, <2>8, <2>9 DEF Creation
<1>4. CASE Commit
  <2>1. CASE Publish \/ Cleanup \/ Release  BY <1>0, <2>1 DEF Publish, Cleanup, Release
  <2>2. CASE AwaitControl
    <3>1. [mem EXCEPT !.loaded = TRUE].rb = mem.rb  BY <1>a DEF Record
    <3> QED BY <2>2, <3>1, BeginsNone DEF AwaitControl
  <2>3. CASE ReserveCommand
    <3>1. [mem EXCEPT !.cmd = Cardinality(published) + 1].rb = mem.rb  BY <1>a DEF Record
    <3> QED BY <2>3, <3>1, BeginsNone DEF ReserveCommand
  <2>4. CASE AwaitSaved
    <3>1. [mem EXCEPT !.saved = TRUE].rb = mem.rb  BY <1>a DEF Record
    <3> QED BY <2>4, <3>1, BeginsNone DEF AwaitSaved
  <2>5. CASE VerifyDisk
    <3>1. [Seen EXCEPT !.verified = TRUE].rb = mem.rb  BY <1>b DEF Record
    <3> QED BY <1>b, <2>5, <3>1, BeginsNone DEF VerifyDisk
  <2>6. CASE CommitProfile  BY <1>c, <2>6, BeginsNone DEF CommitProfile
  <2>7. CASE Complete  BY <1>c, <2>7, BeginsNone DEF Complete
  <2>8. CASE Succeed  BY <1>c, <2>8, BeginsNone DEF Succeed
  <2> QED BY <1>4, <2>1, <2>2, <2>3, <2>4, <2>5, <2>6, <2>7, <2>8 DEF Commit
<1>5. CASE Failure
  <2>1. CASE GiveUp  BY <1>0, <2>1 DEF GiveUp
  <2>2. CASE Prefail
    <3>1. [Seen EXCEPT !.stage = "unknown"].rb = mem.rb  BY <1>b DEF Record
    <3>2. \/ disk' = disk \/ disk'.rb = mem.rb
          \/ ~Seen.progress
      BY <1>b, <1>c, <2>2, <3>1 DEF Prefail
    <3>3. disk.progress => mem.progress  BY <2>2 DEF Prefail, Core, Follows
    <3> QED BY <1>b, <2>2, <3>2, <3>3, BeginsNone DEF Prefail, BeginsClean
  <2>3. CASE Recheck  BY <1>b, <2>3, BeginsNone DEF Recheck
  <2>4. CASE Preserve  BY <1>c, <2>4, BeginsNone DEF Preserve
  <2>5. CASE Undo  BY <2>5 DEF Undo, Positions, Core, Follows, BeginsClean
  <2>6. CASE Recover
    <3>1. mem.stage \in Undoing => disk.rb  BY <2>6 DEF Recover, Core, Follows
    <3> QED BY <1>0, <2>6, <3>1 DEF Recover, BeginsClean
  <2>7. CASE StopContainers  BY <1>c, <2>7, BeginsNone DEF StopContainers, FailRollback, Stage
  <2>8. CASE Apply  BY <1>c, <2>8, BeginsNone DEF Apply, FailRollback, Stage
  <2>9. CASE Checkpoint
    <3>1. [mem EXCEPT !.done = mem.done \cup {NextStep}].rb = mem.rb  BY <1>a DEF Record
    <3> QED BY <2>9, <3>1, BeginsNone DEF Checkpoint
  <2>10. CASE FinishRollback  BY <1>c, <2>10, BeginsNone DEF FinishRollback
  <2> QED BY <1>5, <2>1, <2>2, <2>3, <2>4, <2>5, <2>6, <2>7, <2>8, <2>9, <2>10 DEF Failure
<1>6. CASE Environment
  BY <1>0, <1>6
  DEF Environment, Playing, GameBegins, GameWrites, GameLoads, GameConfirms, GameAnswers,
      GameExits, Crash
<1>7. CASE UNCHANGED newGameVars  BY <1>0, <1>7 DEF newGameVars
<1> QED BY <1>1, <1>2, <1>3, <1>4, <1>5, <1>6, <1>7 DEF NewGameNext

\* A rollback is never begun over creation progress that is on record, nor, by
\* the main failure handler, over a request (doStart, CommandCalled).
THEOREM ProgressIsNeverUndoneHolds == NewGameSpec => ProgressIsNeverUndone
<1>1. NewGameInv /\ [NewGameNext]_newGameVars => [BeginsClean]_newGameVars  BY ProgressStep
<1> QED BY <1>1, Inductive, PTL DEF NewGameSpec, ProgressIsNeverUndone, BeginsClean

-----------------------------------------------------------------------------
(* What a transaction knows of the world                                   *)
(*                                                                         *)
(* Decided and the refinement need more than the core: that evidence on    *)
(* record stands for what is on disk, that the journal of a rollback says  *)
(* what has been put back, and that a transaction which is over stays so,  *)
(* also while a Start that read its record before still runs it.           *)

\* Stages of a transaction nothing was asked for yet.
Early == {"none", "preparing", "configured", "marker_written", "mods_prepared"}

\* What a record says of itself.
Sound(r) ==
    /\ r.cand # NoSave \/ r.found # NoSave => r.progress
    /\ r.loaded => /\ r.cand # NoSave /\ "marker" \notin r.done
                   /\ r.stage \notin Early \cup Undoing \cup {"rolled_back"}
    /\ r.saved => r.loaded /\ r.cmd # 0
    /\ r.verified => r.saved
    /\ r.stage = "success" => r.verified
    /\ r.done # {} => r.rb
    /\ r.rb => r.stage \notin Early
    /\ r.done \cap {"profiles", "catalog", "options", "mods"} # {} => "marker" \in r.done
    /\ "options" \in r.done => "catalog" \in r.done
    /\ r.writer = "none" <=> r.stage = "none"

\* The runner's record and the file agree on the rollback; the file has no evidence of its own.
Agrees ==
    /\ mem.rb = disk.rb /\ mem.done = disk.done /\ mem.plan = disk.plan /\ mem.writer = disk.writer
    /\ (disk.loaded => mem.loaded) /\ (disk.saved => mem.saved) /\ (disk.verified => mem.verified)

Records == Sound(disk) /\ (AtWork => Sound(mem) /\ Agrees)

\* Where the runner works with a game that was started; where with a record it took over.
Past == {"wait", "send", "decide", "baseline", "intent", "post", "ambiguous", "observing", "candidate", "bind",
         "target", "control", "command", "publish", "confirm", "disk", "finalize", "complete", "cleanup"}
Resumed == Past \cup {"config", "marker", "gates", "mods", "catalog", "compose", "started"}

\* What the runner may rely on, of its record.
Stands ==
    /\ pc \in Resumed => "marker" \notin mem.done
    /\ pc \in Past => mem.stage \notin Early \cup Undoing \cup {"rolled_back"}
    /\ pc \in {"config", "marker"} => mem.stage \in {"preparing", "configured"}
    /\ pc \in {"baseline", "intent", "post"} => mem.writer = "http"
    /\ pc \in {"command", "publish", "confirm", "disk"} => mem.loaded
    /\ pc \in {"confirm", "disk"} => mem.cmd # 0
    /\ pc = "disk" => mem.saved
    /\ pc = "cleanup" => mem.verified /\ disk = mem
    /\ pc = "release" => disk.stage \in Terminal /\ mem = disk

\* What evidence on record stands for.
Witnessed(r) ==
    /\ r.loaded => loader = r.cand /\ r.cand \in dirs /\ game.making = NoSave /\ ~game.told
    /\ r.saved => [id |-> r.cmd, save |-> r.cand] \in finished
    /\ r.verified => dirs = {r.cand}

\* The game has created nothing; what else is known of it.
Quiet == dirs = {} /\ quar = {} /\ loader = NoSave /\ game.making = NoSave /\ game.loaded = NoSave

Play ==
    /\ game.told => disk.writer = "http" /\ Quiet
    /\ disk.writer # "startup" /\ posts = 0 => Quiet /\ ~game.told
    /\ pc \in Past \cup {"started"} /\ game.loaded # NoSave =>
          loader = game.loaded /\ loader \in dirs /\ game.making = NoSave

\* Evidence is never ahead of the world.
Evidence == Witnessed(disk) /\ (AtWork => Witnessed(mem))

\* What the steps of a rollback that are done have left.
Restored(step) ==
    /\ step \in Files => files[step] = "orig"
    /\ step = "marker" => target = NoSave
    /\ step = "quarantine" => disk.plan \subseteq quar

\* The journal is true, the next step included once it is waiting for its checkpoint.
Journal ==
    /\ \A step \in disk.done : Restored(step)
    /\ pc = "checkpoint" => Restored(NextStep)
    /\ disk.plan \subseteq dirs \cup quar
    /\ ~disk.rb => disk.plan = {}
    /\ disk.stage = "none" => \A f \in Files : files[f] = "orig"

\* Nothing asks for another new game; the save is kept; every step of the rollback is done.
Cleaned == \A f \in {"init", "catalog", "marker"} : files[f] = "orig"
Keeping == disk.verified /\ Cleaned
AllBack == StepNames \subseteq disk.done

\* Where a runner of an undone transaction may be.
Ending == {"idle", "preflight", "resume", "failed", "prefail", "preserve", "undo", "stopping", "rollback", "release", "recover"}

KeptOrBack == Keeping \/ (AllBack /\ pc \in Ending /\ ~disk.loaded /\ (AtWork => ~mem.loaded))

\* A terminal record, or a released owner, is the end.
Over ==
    /\ disk.stage = "success" => Keeping
    /\ disk.stage = "rolled_back" => AllBack
    /\ pc = "reserve" => reserved
    /\ reserved /\ disk.stage \in Terminal => pc \in {"idle", "release"}
    /\ reserved /\ AtWork /\ mem.stage = "success" => pc \in {"failed", "preserve", "release"}
    /\ reserved /\ AtWork /\ mem.stage = "rolled_back" => pc = "release"
    /\ ~reserved /\ disk.stage # "none" =>
          /\ start = "none" \/ (pc = "idle" /\ disk.stage \in Terminal)
          /\ KeptOrBack

\* The second inductive invariant, relative to NewGameInv.
World == Records /\ Stands /\ Play /\ Evidence /\ Journal /\ Over

-----------------------------------------------------------------------------
(* What records say                                                        *)

\* A record that says what the runner's says, of the same rollback, and no other evidence.
Like(m) ==
    /\ m \in Record /\ Sound(m) /\ m.stage # "none"
    /\ m.writer = mem.writer /\ m.rb = mem.rb /\ m.done = mem.done /\ m.plan = mem.plan
    /\ m.loaded = mem.loaded /\ m.saved = mem.saved /\ m.verified = mem.verified
    /\ mem.loaded => m.cand = mem.cand
    /\ mem.saved => m.cmd = mem.cmd

\* A record that says more, and has seen it.
Above(m) ==
    /\ m \in Record /\ Sound(m) /\ m.stage # "none"
    /\ m.writer = mem.writer /\ m.rb = mem.rb /\ m.done = mem.done /\ m.plan = mem.plan
    /\ (mem.loaded => m.loaded) /\ (mem.saved => m.saved) /\ (mem.verified => m.verified)
    /\ Witnessed(m) /\ (m.loaded => mem.loaded \/ pc = "control")

\* It has seen as much as the runner's.
LEMMA LikeAbove == ASSUME NEW m, Like(m), Sound(mem), Witnessed(mem) PROVE Above(m)
BY DEF Like, Above, Witnessed, Sound

\* The runner's own is one.
LEMMA MemLike == ASSUME mem \in Record, Sound(mem), mem.stage # "none" PROVE Like(mem)
BY DEF Like

\* A look at the game keeps what a record says; a save it sees is progress.
LEMMA SeenLike ==
    ASSUME mem \in Record, Sound(mem), mem.stage # "none", dirs \subseteq Saves
    PROVE  /\ Like(Seen) /\ Seen.stage = mem.stage
           /\ mem.progress \/ loader # NoSave \/ dirs # {} => Seen.progress
           /\ Like([Seen EXCEPT !.stage = "unknown"])
<1> DEFINE one == IF Cardinality(dirs) = 1 THEN CHOOSE s \in dirs : TRUE ELSE NoSave
           ambig == \/ mem.ambig
                    \/ Cardinality(dirs) > 1
                    \/ one # NoSave /\ mem.found \notin {NoSave, one}
           found == IF ambig THEN NoSave ELSE IF one # NoSave THEN one ELSE mem.found
           progress == mem.progress \/ (game.creating \/ loader # NoSave \/ dirs # {})
<1>1. one \in Saves \cup {NoSave} /\ (one # NoSave => dirs # {})
  <2>1. Cardinality(dirs) = 1 => dirs # {}  BY FS_EmptySet
  <2> QED BY <2>1
<1>2. /\ found \in Saves \cup {NoSave} /\ ambig \in BOOLEAN /\ progress \in BOOLEAN
      /\ found # NoSave => dirs # {} \/ mem.found # NoSave
      /\ mem.progress \/ loader # NoSave \/ dirs # {} => progress
  BY <1>1 DEF Record
<1>3. Seen = [mem EXCEPT !.progress = progress, !.ambig = ambig, !.found = found]  BY DEF Seen
<1> HIDE DEF one, ambig, found, progress
<1>4. /\ Seen \in Record
      /\ Seen.stage = mem.stage /\ Seen.writer = mem.writer /\ Seen.rb = mem.rb /\ Seen.done = mem.done /\ Seen.plan = mem.plan
      /\ Seen.loaded = mem.loaded /\ Seen.saved = mem.saved /\ Seen.verified = mem.verified
      /\ Seen.cand = mem.cand /\ Seen.cmd = mem.cmd /\ Seen.found = found /\ Seen.progress = progress
  BY <1>2, <1>3 DEF Record
<1>5. Sound(Seen)  BY <1>2, <1>4 DEF Sound
<1> DEFINE u == [Seen EXCEPT !.stage = "unknown"]
<1>6. /\ u \in Record /\ u.stage = "unknown"
      /\ u.writer = mem.writer /\ u.rb = mem.rb /\ u.done = mem.done /\ u.plan = mem.plan
      /\ u.loaded = mem.loaded /\ u.saved = mem.saved /\ u.verified = mem.verified
      /\ u.cand = mem.cand /\ u.cmd = mem.cmd /\ u.found = found /\ u.progress = progress
  BY <1>4 DEF Record, TransactionStages
<1> HIDE DEF u
<1>7. Sound(u)  BY <1>2, <1>6 DEF Sound, Early, Undoing
<1>8. Like(Seen) /\ Like(u)  BY <1>4, <1>5, <1>6, <1>7 DEF Like
<1> QED BY <1>2, <1>4, <1>8 DEF u

\* So does a change of stage, to one that fits what the record says.
LEMMA StageLike ==
    ASSUME mem \in Record, Sound(mem), mem.stage # "none", NEW s \in TransactionStages \ {"none"},
           s \in Early => mem.stage \in Early, s \in Undoing \cup {"rolled_back"} => mem.stage \in Undoing,
           s = "success" => mem.verified
    PROVE  Like(Stage(s)) /\ Stage(s).stage = s /\ Stage(s).progress = mem.progress
<1> DEFINE u == Stage(s)
<1>1. /\ u \in Record /\ u.stage = s
      /\ u.writer = mem.writer /\ u.rb = mem.rb /\ u.done = mem.done /\ u.plan = mem.plan
      /\ u.loaded = mem.loaded /\ u.saved = mem.saved /\ u.verified = mem.verified
      /\ u.cand = mem.cand /\ u.cmd = mem.cmd /\ u.found = mem.found /\ u.progress = mem.progress
  BY DEF Record, Stage
<1> HIDE DEF u
<1>2. Sound(u)  BY <1>1 DEF Sound
<1>3. Like(u)  BY <1>1, <1>2 DEF Like
<1> QED BY <1>1, <1>3 DEF u

\* The record of a rollback has no evidence; it plans what there is, once.
LEMMA RollbackSound ==
    ASSUME NEW m \in Record, Sound(m), ~m.progress \/ m.stage \in Undoing,
           m.stage # "none", dirs \subseteq Saves, quar \subseteq Saves
    PROVE  LET u == RollbackRecord(m)
           IN  /\ u \in Record /\ Sound(u) /\ ~u.loaded /\ u.rb /\ u.done = m.done /\ u.stage = "rolling_back"
               /\ u.writer = m.writer /\ u.progress = m.progress
               /\ u.plan = IF m.rb THEN m.plan ELSE dirs \cup quar
<1> DEFINE u == RollbackRecord(m)
           plan == IF m.rb THEN m.plan ELSE dirs \cup quar
<1>0. plan \in SUBSET Saves  BY DEF Record
<1>1. u = [m EXCEPT !.stage = "rolling_back", !.rb = TRUE, !.plan = plan]  BY DEF RollbackRecord
<1> HIDE DEF plan, u
<1>2. /\ u \in Record /\ u.stage = "rolling_back" /\ u.rb /\ u.plan = plan
      /\ u.writer = m.writer /\ u.done = m.done
      /\ u.loaded = m.loaded /\ u.saved = m.saved /\ u.verified = m.verified
      /\ u.cand = m.cand /\ u.cmd = m.cmd /\ u.found = m.found /\ u.progress = m.progress
  BY <1>0, <1>1 DEF Record, TransactionStages, Undoing
<1>3. ~m.loaded  BY DEF Sound
<1>4. Sound(u)  BY <1>2, <1>3 DEF Sound, Early
<1> QED BY <1>2, <1>3, <1>4 DEF u, plan

\* The next step of a rollback comes after the marker, if it comes late, and options after the catalog.
LEMMA NextStepOrder ==
    ASSUME ~AllUndone
    PROVE  /\ NextStep \in StepNames \ mem.done
           /\ NextStep \in {"profiles", "catalog", "options", "mods"} => "marker" \in mem.done
           /\ NextStep = "options" => "catalog" \in mem.done
<1> DEFINE left == {i \in DOMAIN RollbackSteps : RollbackSteps[i] \notin mem.done}
           first == CHOOSE i \in left : \A k \in left : i <= k
<1>1. DOMAIN RollbackSteps = 1 .. 9  BY DEF RollbackSteps
<1>2. left # {} /\ left \subseteq 1 .. 9  BY <1>1 DEF AllUndone
<1>3. \E i \in left : \A k \in left : i <= k  BY <1>2, SMT
<1>4. first \in left /\ \A k \in left : first <= k  BY <1>3
<1>5. NextStep = RollbackSteps[first] /\ first \in 1 .. 9  BY <1>2, <1>4 DEF NextStep
<1> HIDE DEF first
<1>6. (first > 5 => 5 \notin left) /\ (first > 7 => 7 \notin left)
  <2> HIDE DEF left
  <2> QED BY <1>4, <1>5
<1>7. (first > 5 => "marker" \in mem.done) /\ (first > 7 => "catalog" \in mem.done)
  BY <1>1, <1>6 DEF RollbackSteps
<1>8. /\ NextStep \in {"profiles", "catalog", "options", "mods"} => first > 5
      /\ NextStep = "options" => first > 7
  BY <1>5 DEF RollbackSteps
<1> QED BY <1>7, <1>8, NextStepFacts

-----------------------------------------------------------------------------
(* What a step does to the records                                         *)

\* The runner goes on with a record that says more, written or not; ...
GoesOn(m) == mem' = (IF pc' = "idle" THEN Blank ELSE m) /\ disk' \in {disk, m} /\ pc' # "reserve"
Usual == AtWork /\ \E m : Above(m) /\ GoesOn(m)
\* ... a record without evidence, of a transaction that begins or of a rollback, is written first; ...
Rolls(m) ==
    \/ pc = "reserve" /\ ~m.rb /\ m.done = {} /\ m.plan = {}
    \/ AtWork /\ m.rb /\ m.done = disk.done /\ m.plan = (IF disk.rb THEN disk.plan ELSE dirs \cup quar)
    \/ pc = "checkpoint" /\ disk.rb /\ m.rb /\ m.done = disk.done \cup {NextStep} /\ m.plan = disk.plan
Rewrites == \E m \in Record : /\ Sound(m) /\ ~m.loaded /\ ~disk.loaded /\ m.stage # "none"
                              /\ (m.writer = disk.writer \/ pc = "reserve") /\ Rolls(m)
                              /\ pc' \in {"preflight", "stopping", "rollback"} /\ mem' = m /\ disk' = m
                              /\ UNCHANGED disks
\* ... or the file stays as it is.
FileStays == disk' = disk /\ (pc' \in {"idle", "reserve"} \/ mem' = disk \/ UNCHANGED <<pc, mem>>)

\* There is no other kind of step.
LEMMA NewGameKinds ==
    ASSUME NewGameInv, Records, Stands, Evidence, Play, [NewGameNext]_newGameVars
    PROVE  Usual \/ Rewrites \/ FileStays
<1> USE DEF Ok, Fail, Goto, Persist, Bookkeeping
<1>a. mem \in Record /\ disk \in Record /\ dirs \subseteq Saves /\ quar \subseteq Saves
  BY DEF NewGameInv, NewGameTypeOK
<1>b. ASSUME AtWork
      PROVE  /\ Sound(mem) /\ Witnessed(mem) /\ mem.stage # "none" /\ disk.stage # "none"
             /\ Above(mem) /\ Above(Seen) /\ Above([Seen EXCEPT !.stage = "unknown"])
  BY <1>a, <1>b, MemLike, SeenLike, LikeAbove DEF NewGameInv, Core, Follows, Records, Evidence
<1>c. ASSUME AtWork, NEW s \in {"catalog_requested", "compose_started", "catalog_validated", "ambiguous", "observing",
                                 "profile_commit_pending", "finalizing", "unknown"}
      PROVE  Above(Stage(s))
  BY <1>a, <1>b, <1>c, StageLike, LikeAbove DEF TransactionStages, Terminal, Undoing, Early
<1>d. ASSUME AtWork, mem.stage \in Early, NEW s \in {"configured", "marker_written", "mods_prepared"}
      PROVE  Above(Stage(s))
  BY <1>a, <1>b, <1>d, StageLike, LikeAbove DEF TransactionStages, Terminal, Undoing, Early
<1>e. ASSUME AtWork, mem.stage \in Undoing, NEW s \in {"rolled_back", "rollback_failed"}
      PROVE  Above(Stage(s))
  BY <1>a, <1>b, <1>e, StageLike, LikeAbove DEF TransactionStages, Terminal, Undoing, Early
<1>f. ASSUME AtWork, NEW m, Above(m), GoesOn(m) PROVE Usual
  BY <1>f DEF Usual
<1>1. CASE Claim \/ StartRead \/ StartCleans \/ StartJoins \/ StartJob
  BY <1>1 DEF Claim, StartRead, StartCleans, StartJoins, StartJob, FileStays, runner, durable
<1>2. CASE Reserve
  <2>1. PICK w \in {"startup", "http"} :
            Persist([Blank EXCEPT !.stage = "preparing", !.writer = w], "preflight", "idle")
    BY <1>2 DEF Reserve
  <2> DEFINE m == [Blank EXCEPT !.stage = "preparing", !.writer = w]
  <2>2. m \in Record /\ Sound(m) /\ ~m.loaded /\ m.stage # "none" /\ ~m.rb /\ m.done = {} /\ m.plan = {}
    <3>1. /\ m \in Record /\ m.stage = "preparing" /\ m.writer = w /\ m.cand = NoSave /\ m.found = NoSave
          /\ ~m.loaded /\ ~m.saved /\ ~m.verified /\ m.done = {} /\ ~m.rb /\ m.plan = {}
      BY BlankFacts DEF Blank, Record, TransactionStages
    <3> HIDE DEF m
    <3> QED BY <3>1 DEF Sound, Early, Undoing
  <2>3. pc = "reserve" /\ ~disk.loaded /\ ((pc' = "preflight" /\ mem' = m /\ disk' = m /\ UNCHANGED disks) \/ (pc' = "idle" /\ disk' = disk))
    BY <1>2, <2>1 DEF Reserve, worldVars, NewGameInv, Core, Fresh, Blank
  <2> HIDE DEF m
  <2> QED BY <2>2, <2>3 DEF Rewrites, FileStays, Rolls
<1>3. CASE Preflight \/ TakeOver \/ Gates \/ AwaitServer \/ PostNewGame \/ BindMarker \/ Publish \/ Cleanup \/ Release
  BY <1>3, <1>b, <1>f DEF Preflight, TakeOver, Gates, AwaitServer, PostNewGame, BindMarker, Publish, Cleanup, Release, AtWork, GoesOn
<1>4. CASE ComposeUp \/ ControlGateFails
  BY <1>4, <1>b, <1>f DEF ComposeUp, ControlGateFails, AtWork, GoesOn, durable
<1>5. CASE GiveUp  BY <1>5, <1>b, <1>f DEF GiveUp, AtWork, GoesOn, Forward
<1>6. CASE WriteConfig
  <2>1. mem.stage \in Early  BY <1>6 DEF WriteConfig, Stands, Early
  <2> QED BY <1>6, <1>b, <1>d, <1>f, <2>1 DEF WriteConfig, AtWork, GoesOn
<1>7. CASE WriteMarker
  <2>1. mem.stage \in Early  BY <1>7 DEF WriteMarker, Stands, Early
  <2> QED BY <1>7, <1>b, <1>d, <1>f, <2>1 DEF WriteMarker, AtWork, GoesOn
<1>8. CASE PrepareMods
  <2>1. CASE mem.stage \in {"preparing", "configured", "marker_written"}
    <3>1. mem.stage \in Early  BY <2>1 DEF Early
    <3> QED BY <1>8, <1>d, <1>f, <2>1, <3>1 DEF PrepareMods, AtWork, GoesOn
  <2>2. CASE mem.stage \notin {"preparing", "configured", "marker_written"}
    BY <1>8, <1>b, <1>f, <2>2 DEF PrepareMods, AtWork, GoesOn
  <2> QED BY <2>1, <2>2
<1>9. CASE RequestCatalog \/ MarkStarted \/ AwaitCatalog \/ MarkAmbiguous
  BY <1>9, <1>b, <1>c, <1>f DEF RequestCatalog, MarkStarted, AwaitCatalog, MarkAmbiguous, AtWork, GoesOn
<1>10. CASE MarkObserving \/ CommitProfile \/ Complete \/ Preserve
  BY <1>10, <1>b, <1>c, <1>f DEF MarkObserving, CommitProfile, Complete, Preserve, AtWork, GoesOn
<1>11. CASE Succeed
  <2>1. AtWork /\ Above(Stage("success"))
    BY <1>11, <1>a, <1>b, StageLike, LikeAbove DEF Succeed, AtWork, Stands, TransactionStages, Terminal, Undoing, Early
  <2> QED BY <1>11, <1>f, <2>1 DEF Succeed, GoesOn
<1>12. CASE Decide \/ Baseline \/ AwaitCandidate \/ Recheck
  BY <1>12, <1>b, <1>f DEF Decide, Baseline, AwaitCandidate, Recheck, AtWork, GoesOn, Observe
<1>13. CASE MarkCommandCalled
  <2> DEFINE m == [mem EXCEPT !.called = TRUE, !.stage = "command_called"]
  <2>1. /\ m \in Record /\ m.stage = "command_called" /\ m.writer = mem.writer /\ m.rb = mem.rb /\ m.done = mem.done /\ m.plan = mem.plan
        /\ m.loaded = mem.loaded /\ m.saved = mem.saved /\ m.verified = mem.verified
        /\ m.cand = mem.cand /\ m.cmd = mem.cmd /\ m.found = mem.found /\ m.progress = mem.progress
    BY <1>a DEF Record, TransactionStages
  <2>2. pc = "intent" /\ GoesOn(m)  BY <1>13 DEF MarkCommandCalled, GoesOn
  <2> HIDE DEF m
  <2>3. AtWork /\ Like(m)  BY <1>b, <2>1, <2>2 DEF AtWork, Like, Sound, Early, Undoing
  <2> QED BY <1>b, <1>f, <2>2, <2>3, LikeAbove
<1>14. CASE BindCandidate
  <2> DEFINE m == [Seen EXCEPT !.cand = Candidate]
  <2>1. pc = "bind" /\ AtWork /\ Candidate # NoSave /\ Candidate \in Saves \cup {NoSave}
    BY <1>14, <1>a DEF BindCandidate, AtWork, NewGameInv, HasName, Candidate, Record
  <2>2. Above(Seen) /\ Seen.stage = mem.stage /\ mem.progress /\ Seen.progress /\ Like(Seen)
    BY <1>a, <1>b, <2>1, SeenLike DEF Sound, Candidate
  <2>3. /\ m \in Record /\ m.stage = mem.stage /\ m.writer = mem.writer /\ m.rb = mem.rb /\ m.done = mem.done /\ m.plan = mem.plan
        /\ m.loaded = mem.loaded /\ m.saved = mem.saved /\ m.verified = mem.verified
        /\ m.cand = Candidate /\ m.cmd = Seen.cmd /\ m.found = Seen.found /\ m.progress = Seen.progress
    BY <2>1, <2>2 DEF Record, Like
  <2>4. GoesOn(m) \/ GoesOn(Seen) \/ GoesOn(mem)  BY <1>14 DEF BindCandidate, GoesOn
  <2>5. mem.loaded => Candidate = mem.cand  BY <1>b, <2>1 DEF Sound, Candidate
  <2> HIDE DEF m
  <2>6. Like(m)  BY <1>b, <2>1, <2>2, <2>3, <2>5 DEF Like, Sound
  <2> QED BY <1>b, <1>f, <2>1, <2>4, <2>6, LikeAbove
<1>15. CASE AwaitControl
  <2> DEFINE m == [mem EXCEPT !.loaded = TRUE]
  <2>1. pc = "control" /\ AtWork /\ (GoesOn(mem) \/ GoesOn(m))
    BY <1>15 DEF AwaitControl, GoesOn, AtWork
  <2>2. /\ m \in Record /\ m.stage = mem.stage /\ m.writer = mem.writer /\ m.rb = mem.rb /\ m.done = mem.done /\ m.plan = mem.plan
        /\ m.loaded = TRUE /\ m.saved = mem.saved /\ m.verified = mem.verified
        /\ m.cand = mem.cand /\ m.cmd = mem.cmd /\ m.found = mem.found /\ m.progress = mem.progress
    BY <1>a DEF Record
  <2>3. mem.cand # NoSave /\ "marker" \notin mem.done /\ mem.stage \notin Early \cup Undoing \cup {"rolled_back"}
    BY <2>1 DEF NewGameInv, HasName, Stands, Resumed, Past
  <2>4. loader = mem.cand /\ loader \in dirs /\ game.making = NoSave /\ ~game.told
    BY <1>15, <2>3 DEF AwaitControl, Play, Past, Quiet
  <2> HIDE DEF m
  <2>5. Above(m)  BY <1>b, <2>1, <2>2, <2>3, <2>4 DEF Above, Sound, Witnessed
  <2> QED BY <1>b, <1>f, <2>1, <2>5
<1>16. CASE ReserveCommand
  <2> DEFINE m == [mem EXCEPT !.cmd = Cardinality(published) + 1]
  <2>1. pc = "command" /\ AtWork /\ (GoesOn(mem) \/ (mem.cmd = 0 /\ GoesOn(m)))
    BY <1>16 DEF ReserveCommand, GoesOn, AtWork
  <2>2. Cardinality(published) \in Nat  BY FS_CardinalityType DEF NewGameInv, Finite
  <2>3. /\ m \in Record /\ m.stage = mem.stage /\ m.writer = mem.writer /\ m.rb = mem.rb /\ m.done = mem.done /\ m.plan = mem.plan
        /\ m.loaded = mem.loaded /\ m.saved = mem.saved /\ m.verified = mem.verified
        /\ m.cand = mem.cand /\ m.cmd = Cardinality(published) + 1 /\ m.found = mem.found /\ m.progress = mem.progress
    BY <1>a, <2>2 DEF Record
  <2> HIDE DEF m
  <2>4. mem.cmd = 0 => Like(m)  BY <1>b, <2>1, <2>3 DEF Like, Sound
  <2> QED BY <1>b, <1>f, <2>1, <2>4, LikeAbove
<1>17. CASE AwaitSaved
  <2> DEFINE m == [mem EXCEPT !.saved = TRUE]
  <2>1. pc = "confirm" /\ AtWork /\ (GoesOn(mem) \/ GoesOn(m)) /\ [id |-> mem.cmd, save |-> mem.cand] \in finished
    BY <1>17 DEF AwaitSaved, GoesOn, AtWork
  <2>2. /\ m \in Record /\ m.stage = mem.stage /\ m.writer = mem.writer /\ m.rb = mem.rb /\ m.done = mem.done /\ m.plan = mem.plan
        /\ m.loaded = mem.loaded /\ m.saved = TRUE /\ m.verified = mem.verified
        /\ m.cand = mem.cand /\ m.cmd = mem.cmd /\ m.found = mem.found /\ m.progress = mem.progress
    BY <1>a DEF Record
  <2>3. mem.loaded /\ mem.cmd # 0  BY <2>1 DEF Stands
  <2> HIDE DEF m
  <2>4. Above(m)  BY <1>b, <2>1, <2>2, <2>3 DEF Above, Sound, Witnessed
  <2> QED BY <1>b, <1>f, <2>1, <2>4
<1>18. CASE VerifyDisk
  <2> DEFINE m == [Seen EXCEPT !.verified = TRUE]
  <2>1. pc = "disk" /\ AtWork /\ (GoesOn(mem) \/ GoesOn(Seen) \/ (GoesOn(m) /\ dirs = {mem.cand}))
    BY <1>18 DEF VerifyDisk, GoesOn, AtWork
  <2>2. Above(Seen) /\ Like(Seen)  BY <1>a, <1>b, <2>1, SeenLike
  <2>3. /\ m \in Record /\ m.stage = Seen.stage /\ m.writer = mem.writer /\ m.rb = mem.rb /\ m.done = mem.done /\ m.plan = mem.plan
        /\ m.loaded = Seen.loaded /\ m.saved = Seen.saved /\ m.verified = TRUE
        /\ m.cand = Seen.cand /\ m.cmd = Seen.cmd /\ m.found = Seen.found /\ m.progress = Seen.progress
    BY <2>2 DEF Record, Like
  <2>4. mem.saved /\ mem.loaded  BY <1>b, <2>1 DEF Stands
  <2> HIDE DEF m
  <2>5. dirs = {mem.cand} => Above(m)  BY <2>2, <2>3, <2>4 DEF Above, Like, Sound, Witnessed
  <2> QED BY <1>b, <1>f, <2>1, <2>2, <2>5
<1>19. CASE Prefail
  <2>1. AtWork /\ Above(Stage("unknown"))  BY <1>19, <1>c DEF Prefail, AtWork
  <2>2. /\ Seen \in Record /\ Sound(Seen) /\ Seen.stage # "none" /\ Seen.writer = disk.writer
        /\ (disk.loaded => Seen.loaded) /\ Seen.rb = disk.rb /\ Seen.done = disk.done /\ Seen.plan = disk.plan
    BY <1>a, <1>b, <2>1, SeenLike DEF Like, Records, Agrees
  <2> DEFINE u == RollbackRecord(Seen)
  <2>3. ~Seen.progress => u \in Record /\ Sound(u) /\ ~u.loaded /\ ~disk.loaded /\ u.stage # "none" /\ u.writer = disk.writer /\ Rolls(u)
    BY <1>a, <2>1, <2>2, RollbackSound DEF Rolls, Sound
  <2>4. \/ \E m \in {[Seen EXCEPT !.stage = "unknown"], Seen, mem, Stage("unknown")} : GoesOn(m)
        \/ ~Seen.progress /\ pc' = "rollback" /\ mem' = u /\ disk' = u /\ UNCHANGED disks
        \/ disk' = disk /\ pc' = "idle"
    BY <1>19 DEF Prefail, GoesOn, worldVars
  <2> HIDE DEF u
  <2>5. CASE \E m \in {[Seen EXCEPT !.stage = "unknown"], Seen, mem, Stage("unknown")} : GoesOn(m)
    BY <1>b, <1>f, <2>1, <2>5
  <2>6. CASE ~Seen.progress /\ pc' = "rollback" /\ mem' = u /\ disk' = u /\ UNCHANGED disks
    BY <2>3, <2>6 DEF Rewrites
  <2>7. CASE disk' = disk /\ pc' = "idle"  BY <2>7 DEF FileStays
  <2> QED BY <2>4, <2>5, <2>6, <2>7
<1>20. CASE Undo
  <2> DEFINE u == RollbackRecord(mem)
  <2>1. AtWork /\ (~mem.progress \/ mem.stage \in Undoing => u \in Record /\ Sound(u) /\ ~u.loaded /\ ~disk.loaded /\ u.stage # "none"
                   /\ u.writer = disk.writer /\ Rolls(u))
    BY <1>20, <1>a, <1>b, RollbackSound DEF Rolls, Sound, Records, Agrees, Undo, AtWork
  <2>2. \/ (~mem.progress \/ mem.stage \in Undoing) /\ pc' \in {"stopping", "rollback"} /\ mem' = u /\ disk' = u /\ UNCHANGED disks
        \/ disk' = disk /\ pc' = "idle"
    BY <1>20 DEF worldVars, Undo, NewGameInv, Positions
  <2> HIDE DEF u
  <2> QED BY <2>1, <2>2 DEF Rewrites, FileStays
<1>21. CASE Recover
  <2> DEFINE u == RollbackRecord(mem)
  <2>1. AtWork /\ (~mem.progress \/ mem.stage \in Undoing => u \in Record /\ Sound(u) /\ ~u.loaded /\ ~disk.loaded /\ u.stage # "none"
                   /\ u.writer = disk.writer /\ Rolls(u))
    BY <1>21, <1>a, <1>b, RollbackSound DEF Rolls, Sound, Records, Agrees, Recover, AtWork
  <2>2. \/ (~mem.progress \/ mem.stage \in Undoing) /\ pc' \in {"stopping", "rollback"} /\ mem' = u /\ disk' = u /\ UNCHANGED disks
        \/ disk' = disk /\ pc' = "idle"
    BY <1>21 DEF worldVars, Recover, NewGameInv, Positions
  <2> HIDE DEF u
  <2> QED BY <2>1, <2>2 DEF Rewrites, FileStays
<1>22. CASE StopContainers
  <2>1. AtWork /\ mem.stage \in Undoing /\ Above(Stage("rollback_failed"))
    BY <1>22, <1>e DEF StopContainers, AtWork, NewGameInv, Positions, Undoing
  <2>2. GoesOn(mem) \/ GoesOn(Stage("rollback_failed"))
    BY <1>22 DEF StopContainers, FailRollback, GoesOn, Stage
  <2> QED BY <1>b, <1>f, <2>1, <2>2
<1>23. CASE Apply
  <2>1. AtWork /\ mem.stage \in Undoing /\ Above(Stage("rollback_failed"))
    BY <1>23, <1>e DEF Apply, AtWork, NewGameInv, Positions, Undoing
  <2>2. GoesOn(mem) \/ GoesOn(Stage("rollback_failed"))
    BY <1>23 DEF Apply, FailRollback, GoesOn, Stage
  <2> QED BY <1>b, <1>f, <2>1, <2>2
<1>24. CASE FinishRollback
  <2>1. AtWork /\ Above(Stage("rolled_back"))
    BY <1>24, <1>e DEF FinishRollback, AtWork, NewGameInv, Positions, Undoing
  <2> QED BY <1>24, <1>f, <2>1 DEF FinishRollback, GoesOn
<1>25. CASE Checkpoint
  <2> DEFINE done == mem.done \cup {NextStep}
           m == [mem EXCEPT !.done = done]
  <2>1. pc = "checkpoint" /\ ((pc' = "rollback" /\ mem' = m /\ disk' = m /\ UNCHANGED disks) \/ (pc' = "idle" /\ disk' = disk))
    BY <1>25 DEF Checkpoint, worldVars
  <2>2. AtWork /\ mem.stage = "rolling_back" /\ mem.rb /\ ~AllUndone
    BY <1>25 DEF Checkpoint, AtWork, NewGameInv, Positions, HasName
  <2>3. /\ NextStep \in StepNames
        /\ NextStep \in {"profiles", "catalog", "options", "mods"} => "marker" \in mem.done
        /\ NextStep = "options" => "catalog" \in mem.done
    BY <2>2, NextStepOrder
  <2>4. ~mem.loaded /\ ~mem.saved /\ ~mem.verified  BY <1>b, <2>2 DEF Sound, Undoing
  <2>5. done \in SUBSET StepNames  BY <1>a, <2>3 DEF Record
  <2> HIDE DEF done
  <2>6. /\ m \in Record /\ m.stage = "rolling_back" /\ m.writer = mem.writer /\ m.rb /\ m.done = done /\ m.plan = mem.plan
        /\ ~m.loaded /\ ~m.saved /\ ~m.verified
        /\ m.cand = mem.cand /\ m.found = mem.found /\ m.progress = mem.progress
    BY <1>a, <2>2, <2>4, <2>5 DEF Record
  <2> HIDE DEF m
  <2>7. /\ done \cap {"profiles", "catalog", "options", "mods"} # {} => "marker" \in done
        /\ "options" \in done => "catalog" \in done
    BY <1>b, <2>2, <2>3 DEF Sound, done
  <2>8. Sound(m)  BY <1>b, <2>2, <2>6, <2>7 DEF Sound, Early
  <2>9. m.writer = disk.writer /\ ~disk.loaded /\ Rolls(m)
    BY <2>1, <2>2, <2>4, <2>6 DEF Records, Agrees, Rolls, done
  <2> QED BY <2>1, <2>6, <2>8, <2>9 DEF Rewrites, FileStays
<1>26. CASE GameBegins \/ GameWrites \/ GameLoads \/ GameConfirms \/ GameAnswers \/ GameExits \/ Crash
  BY <1>26 DEF GameBegins, GameWrites, GameLoads, GameConfirms, GameAnswers, GameExits, Crash, Playing, runner, durable, FileStays
<1>27. CASE UNCHANGED newGameVars  BY <1>27 DEF newGameVars, runner, durable, FileStays
<1> QED
  BY <1>1, <1>2, <1>3, <1>4, <1>5, <1>6, <1>7, <1>8, <1>9, <1>10, <1>11, <1>12, <1>13, <1>14, <1>15, <1>16, <1>17, <1>18, <1>19, <1>20, <1>21, <1>22, <1>23, <1>24, <1>25, <1>26, <1>27
  DEF NewGameNext, Admission, PrepareFiles, Creation, Commit, Failure, Environment

\* Every step keeps the records sound and in agreement.
LEMMA RecordsStep ==
    ASSUME NewGameInv, Records, Stands, Evidence, Play, [NewGameNext]_newGameVars
    PROVE  Records'
<1>1. CASE Usual
  <2>1. PICK m : Above(m) /\ GoesOn(m)  BY <1>1 DEF Usual
  <2> QED BY <1>1, <2>1 DEF Usual, Above, GoesOn, Records, Agrees, AtWork
<1>2. CASE Rewrites
  <2>1. PICK m \in Record : /\ Sound(m) /\ ~m.loaded /\ ~disk.loaded /\ m.stage # "none"
                            /\ (m.writer = disk.writer \/ pc = "reserve") /\ Rolls(m)
                            /\ pc' \in {"preflight", "stopping", "rollback"} /\ mem' = m /\ disk' = m
                            /\ UNCHANGED disks
    BY <1>2 DEF Rewrites
  <2> QED BY <2>1 DEF Records, Agrees, AtWork
<1>3. CASE FileStays  BY <1>3 DEF FileStays, Records, Agrees, AtWork
<1> QED BY <1>1, <1>2, <1>3, NewGameKinds

-----------------------------------------------------------------------------
(* Evidence                                                                *)

\* What the game has loaded, or the runner finds loaded, stays where it is.
LEMMA SealStays ==
    ASSUME NewGameInv, Records, Stands, Play, [NewGameNext]_newGameVars,
           NEW s, s # NoSave, loader = s, s \in dirs, game.making = NoSave, ~game.told,
           AtWork => mem.loaded \/ pc = "control"
    PROVE  loader' = s /\ dirs' = dirs /\ game'.making = NoSave /\ ~game'.told
<1> DEFINE Goal == loader' = s /\ dirs' = dirs /\ game'.making = NoSave /\ ~game'.told
<1> USE DEF Bookkeeping, worldVars, others, disks, saves, command
<1>a. game \in GameRecord  BY DEF NewGameInv, NewGameTypeOK
<1>b. Halted.making = NoSave /\ ~Halted.told /\ Halted \in GameRecord
  BY <1>a DEF Halted, GameRecord
<1>c. pc # "post"  BY DEF Stands, Positions, NewGameInv, Records, Agrees, AtWork, Play, Quiet
<1>d. pc # "rollback"  BY DEF Positions, NewGameInv, Records, Sound, AtWork, Undoing
<1>1. CASE Claim \/ Reserve \/ StartRead \/ StartCleans \/ StartJoins \/ StartJob
  BY <1>1 DEF Claim, Reserve, StartRead, StartCleans, StartJoins, StartJob
<1>2. CASE Preflight \/ TakeOver \/ WriteConfig \/ WriteMarker \/ PrepareMods \/ RequestCatalog \/ MarkStarted
  BY <1>2 DEF Preflight, TakeOver, WriteConfig, WriteMarker, PrepareMods, RequestCatalog, MarkStarted
<1>3. CASE AwaitServer \/ AwaitCatalog \/ Decide \/ Baseline \/ MarkCommandCalled \/ MarkAmbiguous \/ MarkObserving \/ AwaitCandidate \/ BindCandidate \/ BindMarker
  BY <1>3 DEF AwaitServer, AwaitCatalog, Decide, Baseline, MarkCommandCalled, MarkAmbiguous, MarkObserving, AwaitCandidate, BindCandidate, BindMarker
<1>4. CASE AwaitControl \/ ReserveCommand \/ Publish \/ AwaitSaved \/ VerifyDisk \/ CommitProfile \/ Complete \/ Cleanup \/ Succeed \/ Release
  BY <1>4 DEF AwaitControl, ReserveCommand, Publish, AwaitSaved, VerifyDisk, CommitProfile, Complete, Cleanup, Succeed, Release
<1>5. CASE GiveUp \/ Prefail \/ Recheck \/ Preserve \/ Undo \/ Recover \/ Checkpoint \/ FinishRollback
  BY <1>5 DEF GiveUp, Prefail, Recheck, Preserve, Undo, Recover, Checkpoint, FinishRollback
<1>6. CASE Crash  BY <1>6 DEF Crash
<1>7. CASE Gates  BY <1>7, <1>a DEF Gates, GameRecord
<1>8. CASE ComposeUp  BY <1>8, <1>b DEF ComposeUp, GameRecord
<1>9. CASE ControlGateFails  BY <1>9, <1>b DEF ControlGateFails
<1>10. CASE StopContainers  BY <1>10, <1>b DEF StopContainers
<1>11. CASE GameExits  BY <1>11, <1>b DEF GameExits
<1>12. CASE PostNewGame  BY <1>12, <1>c DEF PostNewGame
<1>13. CASE Apply  BY <1>13, <1>d DEF Apply
<1>14. CASE GameBegins  BY <1>14 DEF GameBegins
<1>15. CASE GameWrites  BY <1>15 DEF GameWrites
<1>16. CASE GameLoads  BY <1>16, <1>a DEF GameLoads, Playing, GameRecord
<1>17. CASE GameAnswers  BY <1>17 DEF GameAnswers, Playing
<1>18. CASE GameConfirms  BY <1>18 DEF GameConfirms
<1>19. CASE UNCHANGED newGameVars  BY <1>19 DEF newGameVars
<1> HIDE DEF Goal
<1> QED
  BY <1>1, <1>2, <1>3, <1>4, <1>5, <1>6, <1>7, <1>8, <1>9, <1>10, <1>11, <1>12, <1>13, <1>14, <1>15, <1>16, <1>17, <1>18, <1>19
  DEF NewGameNext, Admission, PrepareFiles, Creation, Commit, Failure, Environment, Goal

\* A save that was confirmed stays confirmed.
LEMMA ConfirmedStays == ASSUME [NewGameNext]_newGameVars PROVE finished \subseteq finished'
<1> USE DEF Bookkeeping, worldVars, others, disks, command
<1>1. CASE Admission
  BY <1>1 DEF Admission, Claim, Reserve, StartRead, StartCleans, StartJoins, StartJob
<1>2. CASE PrepareFiles
  BY <1>2 DEF PrepareFiles, Preflight, TakeOver, WriteConfig, WriteMarker, Gates, PrepareMods, RequestCatalog, ComposeUp, MarkStarted
<1>3. CASE Creation
  BY <1>3 DEF Creation, AwaitServer, ControlGateFails, AwaitCatalog, Decide, Baseline, MarkCommandCalled, PostNewGame, MarkAmbiguous, MarkObserving, AwaitCandidate, BindCandidate, BindMarker
<1>4. CASE Commit
  BY <1>4 DEF Commit, AwaitControl, ReserveCommand, Publish, AwaitSaved, VerifyDisk, CommitProfile, Complete, Cleanup, Succeed, Release
<1>5. CASE Failure
  BY <1>5 DEF Failure, GiveUp, Prefail, Recheck, Preserve, Undo, Recover, StopContainers, Apply, Checkpoint, FinishRollback
<1>6. CASE Environment
  BY <1>6 DEF Environment, GameBegins, GameWrites, GameLoads, GameConfirms, GameAnswers, GameExits, Crash, Playing
<1>7. CASE UNCHANGED newGameVars  BY <1>7 DEF newGameVars
<1> QED BY <1>1, <1>2, <1>3, <1>4, <1>5, <1>6, <1>7 DEF NewGameNext

\* Every step keeps what evidence stands for.
LEMMA EvidenceStep ==
    ASSUME NewGameInv, Records, Stands, Evidence, Play, [NewGameNext]_newGameVars
    PROVE  Evidence'
<1>1. ASSUME NEW r, Sound(r), Witnessed(r), r.loaded => (AtWork => mem.loaded \/ pc = "control")
      PROVE  /\ r.loaded => loader' = r.cand /\ r.cand \in dirs' /\ game'.making = NoSave /\ ~game'.told
             /\ r.saved => [id |-> r.cmd, save |-> r.cand] \in finished'
             /\ r.verified => dirs' = {r.cand}
  BY <1>1, SealStays, ConfirmedStays DEF Sound, Witnessed
<1>2. /\ Sound(disk) /\ Witnessed(disk) /\ (disk.loaded => (AtWork => mem.loaded))
      /\ AtWork => Sound(mem) /\ Witnessed(mem)
  BY DEF Records, Agrees, Evidence
<1>3. CASE Usual
  <2>1. PICK m : Above(m) /\ GoesOn(m)  BY <1>3 DEF Usual
  <2> QED BY <1>1, <1>2, <2>1 DEF Above, GoesOn, Evidence, Witnessed, AtWork
<1>4. CASE Rewrites  BY <1>4 DEF Rewrites, Evidence, Witnessed, Sound
<1>5. CASE FileStays  BY <1>1, <1>2, <1>5 DEF FileStays, Evidence, Witnessed, AtWork
<1> QED BY <1>3, <1>4, <1>5, NewGameKinds


\* Who writes the save is settled when the transaction begins.
LEMMA WriterStays ==
    ASSUME NewGameInv, Records, Stands, Evidence, Play, [NewGameNext]_newGameVars
    PROVE  disk'.writer = disk.writer \/ pc = "reserve"
<1>1. CASE Usual  BY <1>1 DEF Usual, Above, GoesOn, Records, Agrees
<1>2. CASE Rewrites  BY <1>2 DEF Rewrites
<1>3. CASE FileStays  BY <1>3 DEF FileStays
<1> QED BY <1>1, <1>2, <1>3, NewGameKinds

\* Every step keeps what is known of the game.
LEMMA PlayStep ==
    ASSUME NewGameInv, Records, Stands, Evidence, Play, [NewGameNext]_newGameVars
    PROVE  Play'
<1> USE DEF runner, GameRecord
<1> DEFINE Here == pc' \in Past \cup {"started"} => pc \in Past \cup {"started"}
           Same == UNCHANGED <<loader, dirs, quar, game, posts>>
<1> USE DEF Bookkeeping, worldVars, others, disks, saves, command, Ok, Fail, Goto, Persist
<1>a. game \in GameRecord  BY DEF NewGameInv, NewGameTypeOK
<1>b. Halted \in GameRecord /\ ~Halted.told /\ Halted.making = NoSave /\ Halted.loaded = NoSave
  BY <1>a DEF Halted
<1>c. disk'.writer = disk.writer \/ (disk.writer = "none" /\ posts = 0)
  BY WriterStays DEF NewGameInv, Core, Fresh, Records, Sound
<1>d. ASSUME Here, Same PROVE Play'
  BY <1>c, <1>d DEF Play, Quiet
<1>e. ASSUME Here, UNCHANGED <<loader, dirs, quar, posts>>,
             game'.told => game.told, game'.making = game.making \/ game'.making = NoSave,
             game'.loaded = game.loaded \/ game'.loaded = NoSave
      PROVE  Play'
  BY <1>c, <1>e DEF Play, Quiet
<1> HIDE DEF Same
<1>1. CASE Claim \/ Reserve \/ StartRead \/ StartCleans \/ StartJoins \/ StartJob
  <2>1. Here /\ Same
    BY <1>1 DEF Claim, Reserve, StartRead, StartCleans, StartJoins, StartJob, Past, Same, Observe, Forward, durable
  <2> QED BY <1>d, <2>1
<1>2. CASE Preflight \/ TakeOver \/ WriteConfig \/ WriteMarker \/ PrepareMods \/ RequestCatalog \/ MarkStarted
  <2>1. Here /\ Same
    BY <1>2 DEF Preflight, TakeOver, WriteConfig, WriteMarker, PrepareMods, RequestCatalog, MarkStarted, Past, Same,
       Observe, Forward, durable
  <2> QED BY <1>d, <2>1
<1>3. CASE AwaitServer \/ AwaitCatalog \/ Decide \/ Baseline \/ MarkCommandCalled \/ MarkAmbiguous \/ MarkObserving \/ AwaitCandidate \/ BindCandidate \/ BindMarker
  <2>1. Here /\ Same
    BY <1>3 DEF AwaitServer, AwaitCatalog, Decide, Baseline, MarkCommandCalled, MarkAmbiguous, MarkObserving,
       AwaitCandidate, BindCandidate, BindMarker, Past, Same, Observe, Forward, durable
  <2> QED BY <1>d, <2>1
<1>4. CASE AwaitControl \/ ReserveCommand \/ Publish \/ AwaitSaved \/ VerifyDisk \/ CommitProfile \/ Complete \/ Cleanup \/ Succeed \/ Release
  <2>1. Here /\ Same
    BY <1>4 DEF AwaitControl, ReserveCommand, Publish, AwaitSaved, VerifyDisk, CommitProfile, Complete, Cleanup,
       Succeed, Release, Past, Same, Observe, Forward, durable
  <2> QED BY <1>d, <2>1
<1>5. CASE GiveUp \/ Prefail \/ Recheck \/ Preserve \/ Undo \/ Recover \/ Checkpoint \/ FinishRollback
  <2>1. Here /\ Same
    BY <1>5 DEF GiveUp, Prefail, Recheck, Preserve, Undo, Recover, Checkpoint, FinishRollback, Past, Same, Observe,
       Forward, durable
  <2> QED BY <1>d, <2>1
<1>6. CASE Crash
  <2>1. Here /\ Same  BY <1>6 DEF Crash, Past, Same, Observe, Forward, durable
  <2> QED BY <1>d, <2>1
<1>7. CASE Gates
  <2>1. /\ game' = Halted \/ game' = game \/ \E b \in BOOLEAN : game' = [game EXCEPT !.creating = b]
        /\ Here /\ UNCHANGED <<loader, dirs, quar, posts>>
    BY <1>7, <1>a DEF Gates, Past, FailRollback
  <2> QED BY <1>a, <1>b, <1>e, <2>1
<1>8. CASE ControlGateFails
  <2>1. /\ game' = Halted \/ game' = game \/ \E b \in BOOLEAN : game' = [game EXCEPT !.creating = b]
        /\ Here /\ UNCHANGED <<loader, dirs, quar, posts>>
    BY <1>8, <1>a DEF ControlGateFails, Past, FailRollback
  <2> QED BY <1>a, <1>b, <1>e, <2>1
<1>9. CASE StopContainers
  <2>1. /\ game' = Halted \/ game' = game \/ \E b \in BOOLEAN : game' = [game EXCEPT !.creating = b]
        /\ Here /\ UNCHANGED <<loader, dirs, quar, posts>>
    BY <1>9, <1>a DEF StopContainers, Past, FailRollback
  <2> QED BY <1>a, <1>b, <1>e, <2>1
<1>10. CASE GameExits
  <2>1. /\ game' = Halted \/ game' = game \/ \E b \in BOOLEAN : game' = [game EXCEPT !.creating = b]
        /\ Here /\ UNCHANGED <<loader, dirs, quar, posts>>
    BY <1>10, <1>a DEF GameExits, Past, FailRollback
  <2> QED BY <1>a, <1>b, <1>e, <2>1
<1>11. CASE ComposeUp
  <2>1. \E b \in BOOLEAN : game' = [Halted EXCEPT !.up = b]  BY <1>11 DEF ComposeUp
  <2>2. ~game'.told /\ game'.making = NoSave /\ game'.loaded = NoSave  BY <1>b, <2>1
  <2> QED BY <1>11, <1>c, <2>2 DEF ComposeUp, Play, Quiet, durable
<1>12. CASE PostNewGame
  <2>1. posts = 0 /\ disk.writer = "http" /\ disk' = disk
    BY <1>12 DEF PostNewGame, NewGameInv, Positions, Stands, Records, Agrees, AtWork
  <2>2. Quiet /\ posts' = 1  BY <1>12, <2>1 DEF Play, PostNewGame
  <2>3. game'.making = NoSave /\ game'.loaded = NoSave
    BY <1>12, <1>a, <2>2 DEF PostNewGame, Quiet
  <2> QED BY <1>12, <2>1, <2>2, <2>3 DEF PostNewGame, Play, Quiet
<1>13. CASE Apply
  <2>1. pc' \notin Past \cup {"started"} /\ UNCHANGED <<game, posts>>
    BY <1>13 DEF Apply, FailRollback, Past
  <2>2. Quiet => Quiet'  BY <1>13, <2>1 DEF Apply, Undone, Quarantined, Quiet
  <2> QED BY <1>c, <2>1, <2>2 DEF Play
<1>14. CASE GameBegins
  <2>1. game.loaded = NoSave /\ game'.loaded = NoSave /\ ~game'.told
    BY <1>14, <1>a DEF GameBegins, Playing
  <2>2. UNCHANGED <<disk, posts, pc>>  BY <1>14 DEF GameBegins, Playing, durable
  <2>3. game.told \/ disk.writer = "startup"  BY <1>14 DEF GameBegins
  <2> QED BY <2>1, <2>2, <2>3 DEF Play
<1>15. CASE GameWrites
  <2>1. game.making # NoSave /\ game' = game /\ UNCHANGED <<disk, posts, pc>>
    BY <1>15 DEF GameWrites, Playing, durable
  <2> QED BY <2>1 DEF Play, Quiet
<1>16. CASE GameLoads
  <2>1. loader \in dirs /\ UNCHANGED <<disk, posts, pc, loader, dirs, quar>>
    BY <1>16 DEF GameLoads, Playing, durable
  <2>2. game'.making = NoSave /\ game'.loaded = loader /\ game'.told = game.told
    BY <1>16, <1>a DEF GameLoads, Playing
  <2> QED BY <2>1, <2>2 DEF Play, Quiet
<1>17. CASE GameAnswers
  <2>1. Here /\ Same  BY <1>17 DEF GameAnswers, Playing, Same
  <2> QED BY <1>d, <2>1
<1>18. CASE GameConfirms
  <2>1. Here /\ Same  BY <1>18 DEF GameConfirms, Playing, Same
  <2> QED BY <1>d, <2>1
<1>19. CASE UNCHANGED newGameVars
  <2>1. Here /\ Same  BY <1>19 DEF newGameVars, Same
  <2> QED BY <1>d, <2>1
<1> QED
  BY <1>1, <1>2, <1>3, <1>4, <1>5, <1>6, <1>7, <1>8, <1>9, <1>10, <1>11, <1>12, <1>13, <1>14, <1>15, <1>16, <1>17, <1>18, <1>19
  DEF NewGameNext, Admission, PrepareFiles, Creation, Commit, Failure, Environment

\* Every step keeps what the runner relies on.
LEMMA StandsStep ==
    ASSUME NewGameInv, Records, Stands, Journal, [NewGameNext]_newGameVars
    PROVE  Stands'
<1> USE DEF Past, Resumed, Stands, Early, AtWork, Undoing, Observe, NewGameInv, durable
<1> USE DEF Bookkeeping, Ok, Fail, Goto, Persist
<1>a. mem \in Record /\ disk \in Record /\ dirs \subseteq Saves  BY DEF NewGameTypeOK
<1>b. ASSUME AtWork
      PROVE  /\ Sound(mem) /\ mem.stage # "none"
             /\ Seen.stage = mem.stage /\ Seen.done = mem.done /\ Seen.writer = mem.writer
             /\ Seen.loaded = mem.loaded /\ Seen.cmd = mem.cmd /\ Seen.saved = mem.saved /\ Seen.verified = mem.verified
  BY <1>a, <1>b, SeenLike, SeenFacts DEF Core, Follows, Records, Like
<1>c. ASSUME NEW s
      PROVE  /\ Stage(s).stage = s /\ Stage(s).done = mem.done /\ Stage(s).writer = mem.writer
             /\ Stage(s).loaded = mem.loaded /\ Stage(s).cmd = mem.cmd /\ Stage(s).saved = mem.saved
             /\ Stage(s).verified = mem.verified
  BY <1>a DEF Record, Stage
<1>d. ASSUME pc' \notin Resumed, pc' # "release" PROVE Stands'
  BY <1>d
<1>e. ASSUME UNCHANGED <<pc, mem, disk>> PROVE Stands'
  BY <1>e
<1>1. CASE Claim \/ Reserve \/ StartJob \/ Preflight \/ Release \/ Crash
  <2>1. pc' \notin Resumed /\ pc' # "release"
    BY <1>1 DEF Claim, Reserve, StartJob, Preflight, Release, Crash, FailRollback, Forward
  <2> QED BY <1>d, <2>1
<1>2. CASE GiveUp \/ Prefail \/ Recheck \/ Preserve \/ Undo \/ Recover \/ StopContainers \/ Apply \/ Checkpoint
  <2>1. pc' \notin Resumed /\ pc' # "release"
    BY <1>2 DEF GiveUp, Prefail, Recheck, Preserve, Undo, Recover, StopContainers, Apply, Checkpoint, FailRollback,
       Forward
  <2> QED BY <1>d, <2>1
<1>3. CASE StartRead \/ StartCleans \/ StartJoins \/ GameBegins \/ GameWrites \/ GameLoads \/ GameConfirms \/ GameAnswers \/ GameExits
  BY <1>3, <1>e DEF StartRead, StartCleans, StartJoins, GameBegins, GameWrites, GameLoads, GameConfirms,
     GameAnswers, GameExits, Playing, runner
<1>4. CASE UNCHANGED newGameVars  BY <1>4, <1>e DEF newGameVars, runner
<1>5. CASE FinishRollback
  <2>1. pc' = "idle" \/ (pc' = "release" /\ disk' = Stage("rolled_back") /\ mem' = disk')
    BY <1>5 DEF FinishRollback
  <2> QED BY <1>c, <2>1 DEF Terminal
<1>6. CASE TakeOver
  <2>1. pc = "resume" /\ mem' = mem /\ disk' = disk /\ AtWork  BY <1>6 DEF TakeOver
  <2>2. \/ pc' = "config" /\ mem.stage \in {"preparing", "configured"}
        \/ pc' = "gates" /\ (mem.verified \/ files.marker = "tx")
        \/ pc' = "failed"
    BY <1>6 DEF TakeOver, NeedsConfigReplay
  <2>3. pc' \in {"config", "gates"} => "marker" \notin mem.done
    <3>1. mem.stage \in Early => mem.done = {}  BY <1>b, <2>1 DEF Sound
    <3>2. mem.verified => "marker" \notin mem.done  BY <1>b, <2>1 DEF Sound
    <3>3. files.marker = "tx" => "marker" \notin mem.done
      BY <2>1 DEF Journal, Restored, Files, Records, Agrees
    <3> QED BY <2>2, <3>1, <3>2, <3>3
  <2> QED BY <2>1, <2>2, <2>3
<1>7. CASE WriteConfig  BY <1>7, <1>b, <1>c DEF WriteConfig, Terminal, HasName
<1>8. CASE WriteMarker  BY <1>8, <1>b, <1>c DEF WriteMarker, Terminal, HasName
<1>9. CASE Gates  BY <1>9, <1>b, <1>c DEF Gates, Terminal, HasName
<1>10. CASE PrepareMods  BY <1>10, <1>b, <1>c DEF PrepareMods, Terminal, HasName
<1>11. CASE RequestCatalog  BY <1>11, <1>b, <1>c DEF RequestCatalog, Terminal, HasName
<1>12. CASE ComposeUp  BY <1>12, <1>b, <1>c DEF ComposeUp, Terminal, HasName
<1>13. CASE MarkStarted  BY <1>13, <1>b, <1>c DEF MarkStarted, Terminal, HasName
<1>14. CASE AwaitServer  BY <1>14, <1>b, <1>c DEF AwaitServer, Terminal, HasName
<1>15. CASE ControlGateFails  BY <1>15, <1>b, <1>c DEF ControlGateFails, Terminal, HasName
<1>16. CASE AwaitCatalog  BY <1>16, <1>b, <1>c DEF AwaitCatalog, Terminal, HasName
<1>17. CASE Baseline  BY <1>17, <1>b, <1>c DEF Baseline, Terminal, HasName
<1>18. CASE PostNewGame  BY <1>18, <1>b, <1>c DEF PostNewGame, Terminal, HasName
<1>19. CASE MarkAmbiguous  BY <1>19, <1>b, <1>c DEF MarkAmbiguous, Terminal, HasName
<1>20. CASE MarkObserving  BY <1>20, <1>b, <1>c DEF MarkObserving, Terminal, HasName
<1>21. CASE AwaitCandidate  BY <1>21, <1>b, <1>c DEF AwaitCandidate, Terminal, HasName
<1>22. CASE BindMarker  BY <1>22, <1>b, <1>c DEF BindMarker, Terminal, HasName
<1>23. CASE Publish  BY <1>23, <1>b, <1>c DEF Publish, Terminal, HasName
<1>24. CASE CommitProfile  BY <1>24, <1>b, <1>c DEF CommitProfile, Terminal, HasName
<1>25. CASE Complete  BY <1>25, <1>b, <1>c DEF Complete, Terminal, HasName
<1>26. CASE Cleanup  BY <1>26, <1>b, <1>c DEF Cleanup, Terminal, HasName
<1>27. CASE Succeed  BY <1>27, <1>b, <1>c DEF Succeed, Terminal, HasName
<1>28. CASE Decide
  <2>1. AtWork /\ pc = "decide" /\ (mem' = mem \/ mem' = Seen)  BY <1>28 DEF Decide
  <2>2. pc' \in {"observing", "ambiguous", "failed", "baseline"} /\ (pc' = "baseline" => mem.writer # "startup")
    BY <1>28 DEF Decide
  <2>3. mem.writer \in {"startup", "http"}  BY <1>a, <1>b, <2>1 DEF Sound, Record
  <2> QED BY <1>b, <2>1, <2>2, <2>3
<1>29. CASE MarkCommandCalled
  <2> DEFINE m == [mem EXCEPT !.called = TRUE, !.stage = "command_called"]
  <2>0. AtWork /\ Seen \in Record  BY <1>29, <1>a, SeenFacts DEF MarkCommandCalled
  <2>1. /\ m.stage = "command_called" /\ m.writer = mem.writer /\ m.done = mem.done
        /\ m.loaded = mem.loaded /\ m.saved = mem.saved /\ m.cmd = mem.cmd
    BY <1>a, <1>b, <2>0 DEF Record
  <2>2. mem' \in {mem, Seen, m} /\ (pc' = "failed" \/ (pc' \in Past /\ pc' # "cleanup"))
    BY <1>29 DEF MarkCommandCalled
  <2>3. pc' = "failed" \/ mem' = mem \/ mem' = m  BY <1>29 DEF MarkCommandCalled
  <2> HIDE DEF m
  <2> QED BY <1>29, <1>b, <2>0, <2>1, <2>2, <2>3 DEF MarkCommandCalled
<1>30. CASE BindCandidate
  <2> DEFINE m == [Seen EXCEPT !.cand = Candidate]
  <2>0. AtWork /\ Seen \in Record  BY <1>30, <1>a, SeenFacts DEF BindCandidate
  <2>1. /\ m.stage = mem.stage /\ m.writer = mem.writer /\ m.done = mem.done
        /\ m.loaded = mem.loaded /\ m.saved = mem.saved /\ m.cmd = mem.cmd
    BY <1>a, <1>b, <2>0 DEF Record
  <2>2. mem' \in {mem, Seen, m} /\ (pc' = "failed" \/ (pc' \in Past /\ pc' # "cleanup"))
    BY <1>30 DEF BindCandidate
  <2>3. pc' = "failed" \/ mem' = mem \/ mem' = m  BY <1>30 DEF BindCandidate
  <2> HIDE DEF m
  <2> QED BY <1>30, <1>b, <2>0, <2>1, <2>2, <2>3 DEF BindCandidate
<1>31. CASE AwaitControl
  <2> DEFINE m == [mem EXCEPT !.loaded = TRUE]
  <2>0. AtWork /\ Seen \in Record  BY <1>31, <1>a, SeenFacts DEF AwaitControl
  <2>1. /\ m.stage = mem.stage /\ m.writer = mem.writer /\ m.done = mem.done
        /\ m.loaded = TRUE /\ m.saved = mem.saved /\ m.cmd = mem.cmd
    BY <1>a, <1>b, <2>0 DEF Record
  <2>2. mem' \in {mem, Seen, m} /\ (pc' = "failed" \/ (pc' \in Past /\ pc' # "cleanup"))
    BY <1>31 DEF AwaitControl
  <2>3. pc' = "failed" \/ mem' = mem \/ mem' = m  BY <1>31 DEF AwaitControl
  <2>4. pc = "control" /\ (pc' = "failed" \/ (pc' = "command" /\ (mem' = m \/ (mem' = mem /\ mem.loaded))))
    BY <1>31 DEF AwaitControl
  <2> HIDE DEF m
  <2> QED BY <2>1, <2>4
<1>32. CASE ReserveCommand
  <2> DEFINE m == [mem EXCEPT !.cmd = Cardinality(published) + 1]
  <2>0. AtWork /\ Seen \in Record  BY <1>32, <1>a, SeenFacts DEF ReserveCommand
  <2>1. /\ m.stage = mem.stage /\ m.writer = mem.writer /\ m.done = mem.done
        /\ m.loaded = mem.loaded /\ m.saved = mem.saved /\ m.cmd = Cardinality(published) + 1
    BY <1>a, <1>b, <2>0 DEF Record
  <2>2. mem' \in {mem, Seen, m} /\ (pc' = "failed" \/ (pc' \in Past /\ pc' # "cleanup"))
    BY <1>32 DEF ReserveCommand
  <2>3. pc' = "failed" \/ mem' = mem \/ mem' = m  BY <1>32 DEF ReserveCommand
  <2> HIDE DEF m
  <2> QED BY <1>32, <1>b, <2>0, <2>1, <2>2, <2>3 DEF ReserveCommand
<1>33. CASE AwaitSaved
  <2> DEFINE m == [mem EXCEPT !.saved = TRUE]
  <2>0. AtWork /\ Seen \in Record  BY <1>33, <1>a, SeenFacts DEF AwaitSaved
  <2>1. /\ m.stage = mem.stage /\ m.writer = mem.writer /\ m.done = mem.done
        /\ m.loaded = mem.loaded /\ m.saved = TRUE /\ m.cmd = mem.cmd
    BY <1>a, <1>b, <2>0 DEF Record
  <2>2. mem' \in {mem, Seen, m} /\ (pc' = "failed" \/ (pc' \in Past /\ pc' # "cleanup"))
    BY <1>33 DEF AwaitSaved
  <2>3. pc' = "failed" \/ mem' = mem \/ mem' = m  BY <1>33 DEF AwaitSaved
  <2>4. pc = "confirm" /\ (pc' = "failed" \/ (pc' = "disk" /\ (mem' = m \/ (mem' = mem /\ mem.saved))))
    BY <1>33 DEF AwaitSaved
  <2> HIDE DEF m
  <2> QED BY <2>1, <2>4
<1>34. CASE VerifyDisk
  <2> DEFINE m == [Seen EXCEPT !.verified = TRUE]
  <2>0. AtWork /\ Seen \in Record  BY <1>34, <1>a, SeenFacts DEF VerifyDisk
  <2>1. /\ m.stage = mem.stage /\ m.writer = mem.writer /\ m.done = mem.done
        /\ m.loaded = mem.loaded /\ m.saved = mem.saved /\ m.cmd = mem.cmd
    BY <1>a, <1>b, <2>0 DEF Record
  <2>2. mem' \in {mem, Seen, m} /\ (pc' = "failed" \/ (pc' \in Past /\ pc' # "cleanup"))
    BY <1>34 DEF VerifyDisk
  <2>3. pc' = "failed" \/ mem' = mem \/ mem' = m  BY <1>34 DEF VerifyDisk
  <2> HIDE DEF m
  <2> QED BY <1>34, <1>b, <2>0, <2>1, <2>2, <2>3 DEF VerifyDisk
<1> QED
  BY <1>1, <1>2, <1>3, <1>4, <1>5, <1>6, <1>7, <1>8, <1>9, <1>10, <1>11, <1>12, <1>13, <1>14, <1>15, <1>16, <1>17, <1>18, <1>19, <1>20, <1>21, <1>22, <1>23, <1>24, <1>25, <1>26, <1>27, <1>28, <1>29, <1>30, <1>31, <1>32, <1>33, <1>34
  DEF NewGameNext, Admission, PrepareFiles, Creation, Commit, Failure, Environment

-----------------------------------------------------------------------------
(* The journal of a rollback                                               *)

\* The steps that are done, the one waiting for its checkpoint included.
Back == disk.done \cup (IF pc = "checkpoint" THEN {NextStep} ELSE {})

\* Late steps are done after the marker's, the options' after the catalog's.
LEMMA BackOrder ==
    ASSUME NewGameInv, Records
    PROVE  /\ Back \cap {"profiles", "catalog", "options", "mods"} # {} => "marker" \in Back
           /\ "options" \in Back => "catalog" \in Back
           /\ Back \subseteq StepNames
<1>1. disk.done \subseteq StepNames  BY DEF NewGameInv, NewGameTypeOK, Record
<1>2. CASE pc = "checkpoint"
  <2>1. ~AllUndone /\ mem.done = disk.done
    BY <1>2 DEF NewGameInv, HasName, Records, Agrees, AtWork
  <2> QED BY <1>1, <1>2, <2>1, NextStepOrder DEF Back, Records, Sound
<1>3. CASE pc # "checkpoint"  BY <1>1, <1>3 DEF Back, Records, Sound
<1> QED BY <1>2, <1>3

\* What has been put back stays, and directories do not disappear but into quarantine.
Lasting ==
    /\ \A f \in Files \cap Back : files'[f] = "orig"
    /\ "marker" \in Back => target' = NoSave
    /\ quar \subseteq quar' /\ dirs \cup quar \subseteq dirs' \cup quar'
    /\ disk.stage = "none" => files' = files

\* No step of the runner, of the game or of the panel is an exception.
LEMMA LastingStep ==
    ASSUME NewGameInv, Records, Stands, Journal, [NewGameNext]_newGameVars
    PROVE  Lasting
<1> USE DEF Bookkeeping, worldVars, others, disks, saves, command
<1>a. files \in [Files -> {"orig", "gone", "tx"}]  BY DEF NewGameInv, NewGameTypeOK
<1>b. /\ \A f \in Files \cap Back : files[f] = "orig"
      /\ "marker" \in Back => target = NoSave
  BY DEF Back, Journal, Restored
<1>c. AtWork => disk.stage # "none"  BY DEF NewGameInv, Core, Follows
<1>d. pc # "checkpoint" /\ AtWork => Back = mem.done  BY DEF Back, Records, Agrees
<1>e. ASSUME UNCHANGED <<files, target, quar, dirs>> PROVE Lasting
  BY <1>b, <1>e DEF Lasting
<1>f. ASSUME AtWork, pc # "checkpoint", "marker" \notin mem.done
      PROVE  Back \cap {"marker", "profiles", "catalog", "options", "mods"} = {}
  BY <1>d, <1>f, BackOrder
<1>g. ASSUME AtWork, pc # "checkpoint", mem.stage \in Early PROVE Back = {}
  BY <1>d, <1>g DEF Records, Sound
<1>h. ASSUME NEW F, AtWork, Back \cap F = {}, UNCHANGED <<quar, dirs>>, \A f \in Files \ F : files'[f] = files[f],
             "marker" \in Back => target' = target
      PROVE  Lasting
  BY <1>b, <1>c, <1>h DEF Lasting
<1> HIDE DEF Lasting
<1>1. CASE Claim \/ Reserve \/ StartRead \/ StartCleans \/ StartJoins \/ StartJob
  BY <1>1, <1>e DEF Claim, Reserve, StartRead, StartCleans, StartJoins, StartJob, Playing
<1>2. CASE Preflight \/ TakeOver \/ ComposeUp \/ MarkStarted
  BY <1>2, <1>e DEF Preflight, TakeOver, ComposeUp, MarkStarted, Playing
<1>3. CASE AwaitServer \/ ControlGateFails \/ AwaitCatalog \/ Decide \/ Baseline \/ MarkCommandCalled \/ PostNewGame \/ MarkAmbiguous \/ MarkObserving \/ AwaitCandidate \/ BindCandidate
  BY <1>3, <1>e DEF AwaitServer, ControlGateFails, AwaitCatalog, Decide, Baseline, MarkCommandCalled, PostNewGame, MarkAmbiguous, MarkObserving, AwaitCandidate, BindCandidate, Playing
<1>4. CASE AwaitControl \/ ReserveCommand \/ Publish \/ AwaitSaved \/ VerifyDisk \/ Complete \/ Succeed \/ Release
  BY <1>4, <1>e DEF AwaitControl, ReserveCommand, Publish, AwaitSaved, VerifyDisk, Complete, Succeed, Release, Playing
<1>5. CASE GiveUp \/ Prefail \/ Recheck \/ Preserve \/ Undo \/ Recover \/ StopContainers \/ Checkpoint \/ FinishRollback
  BY <1>5, <1>e DEF GiveUp, Prefail, Recheck, Preserve, Undo, Recover, StopContainers, Checkpoint, FinishRollback, Playing
<1>6. CASE GameBegins \/ GameLoads \/ GameConfirms \/ GameExits \/ Crash
  BY <1>6, <1>e DEF GameBegins, GameLoads, GameConfirms, GameExits, Crash, Playing
<1>7. CASE WriteConfig
  <2>1. AtWork /\ pc # "checkpoint" /\ mem.stage \in Early
    BY <1>7 DEF WriteConfig, AtWork, Stands, Early
  <2>2. UNCHANGED <<quar, dirs>>  BY <1>7 DEF WriteConfig
  <2> QED BY <1>g, <1>h, <2>1, <2>2
<1>8. CASE WriteMarker
  <2>1. AtWork /\ pc # "checkpoint" /\ mem.stage \in Early
    BY <1>8 DEF WriteMarker, AtWork, Stands, Early
  <2>2. UNCHANGED <<quar, dirs>>  BY <1>8 DEF WriteMarker
  <2> QED BY <1>g, <1>h, <2>1, <2>2
<1>9. CASE Gates
  <2>1. AtWork /\ pc # "checkpoint" /\ "marker" \notin mem.done
    BY <1>9 DEF Gates, AtWork, Stands, Resumed, Past
  <2>2. UNCHANGED <<quar, dirs>> /\ \A f \in Files \ {"options"} : files'[f] = files[f]
    BY <1>9, <1>a DEF Gates
  <2>3. Back \cap {"options"} = {} /\ "marker" \notin Back  BY <1>f, <2>1
  <2> QED BY <1>h, <2>1, <2>2, <2>3
<1>10. CASE PrepareMods
  <2>1. AtWork /\ pc # "checkpoint" /\ "marker" \notin mem.done
    BY <1>10 DEF PrepareMods, AtWork, Stands, Resumed, Past
  <2>2. UNCHANGED <<quar, dirs>> /\ \A f \in Files \ {"mods"} : files'[f] = files[f]
    BY <1>10, <1>a DEF PrepareMods
  <2>3. Back \cap {"mods"} = {} /\ "marker" \notin Back  BY <1>f, <2>1
  <2> QED BY <1>h, <2>1, <2>2, <2>3
<1>11. CASE RequestCatalog
  <2>1. AtWork /\ pc # "checkpoint" /\ "marker" \notin mem.done
    BY <1>11 DEF RequestCatalog, AtWork, Stands, Resumed, Past
  <2>2. UNCHANGED <<quar, dirs>> /\ \A f \in Files \ {"options", "catalog"} : files'[f] = files[f]
    BY <1>11, <1>a DEF RequestCatalog
  <2>3. Back \cap {"options", "catalog"} = {} /\ "marker" \notin Back  BY <1>f, <2>1
  <2> QED BY <1>h, <2>1, <2>2, <2>3
<1>12. CASE BindMarker
  <2>1. AtWork /\ pc # "checkpoint" /\ "marker" \notin mem.done
    BY <1>12 DEF BindMarker, AtWork, Stands, Resumed, Past
  <2>2. UNCHANGED <<quar, dirs>> /\ \A f \in Files \ {} : files'[f] = files[f]
    BY <1>12, <1>a DEF BindMarker
  <2>3. Back \cap {} = {} /\ "marker" \notin Back  BY <1>f, <2>1
  <2> QED BY <1>h, <2>1, <2>2, <2>3
<1>13. CASE CommitProfile
  <2>1. AtWork /\ pc # "checkpoint" /\ "marker" \notin mem.done
    BY <1>13 DEF CommitProfile, AtWork, Stands, Resumed, Past
  <2>2. UNCHANGED <<quar, dirs>> /\ \A f \in Files \ {"profiles"} : files'[f] = files[f]
    BY <1>13, <1>a DEF CommitProfile
  <2>3. Back \cap {"profiles"} = {} /\ "marker" \notin Back  BY <1>f, <2>1
  <2> QED BY <1>h, <2>1, <2>2, <2>3
<1>14. CASE Cleanup
  <2>1. AtWork /\ UNCHANGED <<quar, dirs>> /\ target' \in {target, NoSave}
    BY <1>14 DEF Cleanup, AtWork
  <2>2. \A f \in Files : files'[f] \in {files[f], "orig"}  BY <1>14, <1>a DEF Cleanup
  <2> QED BY <1>b, <1>c, <2>1, <2>2 DEF Lasting
<1>15. CASE Apply
  <2>1. AtWork /\ quar \subseteq quar' /\ dirs \cup quar \subseteq dirs' \cup quar' /\ target' \in {target, NoSave}
    BY <1>15 DEF Apply, AtWork, Undone, Quarantined
  <2>2. \A f \in Files : files'[f] \in {files[f], "orig"}
    BY <1>15, <1>a DEF Apply, Undone, Quarantined
  <2> QED BY <1>b, <1>c, <2>1, <2>2 DEF Lasting
<1>16. CASE GameWrites
  <2>1. UNCHANGED <<quar, files, target>> /\ dirs \subseteq dirs'  BY <1>16 DEF GameWrites
  <2> QED BY <1>b, <2>1 DEF Lasting
<1>17. CASE GameAnswers
  <2>1. UNCHANGED <<quar, dirs, target>> /\ files.catalog = "tx" /\ \A f \in Files \ {"options"} : files'[f] = files[f]
    BY <1>17, <1>a DEF GameAnswers
  <2>2. "options" \notin Back  BY <1>b, <2>1, BackOrder DEF Files
  <2>3. disk.stage # "none"  BY <2>1 DEF Journal, Files
  <2> QED BY <1>b, <2>1, <2>2, <2>3 DEF Lasting
<1>18. CASE UNCHANGED newGameVars  BY <1>18, <1>e DEF newGameVars
<1> QED
  BY <1>1, <1>2, <1>3, <1>4, <1>5, <1>6, <1>7, <1>8, <1>9, <1>10, <1>11, <1>12, <1>13, <1>14, <1>15, <1>16, <1>17, <1>18
  DEF NewGameNext, Admission, PrepareFiles, Creation, Commit, Failure, Environment

\* Where the runner comes to a checkpoint, the step is done.
LEMMA CheckpointStep ==
    ASSUME NewGameInv, Records, Journal, [NewGameNext]_newGameVars, pc' = "checkpoint"
    PROVE  \/ pc = "checkpoint" /\ UNCHANGED <<mem, disk>>
           \/ AtWork /\ UNCHANGED <<mem, disk>> /\ Restored(NextStep)'
<1> USE DEF Bookkeeping, worldVars, others, Ok, Fail, Goto, Persist
<1>1. CASE Admission
  BY <1>1 DEF Admission, Claim, Reserve, StartRead, StartCleans, StartJoins, StartJob, runner, durable
<1>2. CASE PrepareFiles
  BY <1>2 DEF PrepareFiles, Preflight, TakeOver, WriteConfig, WriteMarker, Gates, PrepareMods, RequestCatalog, ComposeUp, MarkStarted
<1>3. CASE Creation
  BY <1>3 DEF Creation, AwaitServer, ControlGateFails, AwaitCatalog, Decide, Baseline, MarkCommandCalled, PostNewGame, MarkAmbiguous, MarkObserving, AwaitCandidate, BindCandidate, BindMarker, Observe
<1>4. CASE Commit
  BY <1>4 DEF Commit, AwaitControl, ReserveCommand, Publish, AwaitSaved, VerifyDisk, CommitProfile, Complete, Cleanup, Succeed, Release
<1>5. CASE Apply
  <2>1. Undone(NextStep) /\ mem' = mem /\ disk' = disk /\ AtWork /\ ~AllUndone
    BY <1>5 DEF Apply, FailRollback, AtWork
  <2>2. NextStep' = NextStep /\ NextStep \in StepNames  BY <2>1, NextStepFacts DEF NextStep
  <2>3. files \in [Files -> {"orig", "gone", "tx"}]  BY DEF NewGameInv, NewGameTypeOK
  <2>4. mem.plan = disk.plan  BY <2>1 DEF Records, Agrees
  <2>5. CASE NextStep = "quarantine"
    BY <2>1, <2>2, <2>4, <2>5 DEF Undone, Quarantined, Restored, Journal, Files
  <2>6. CASE NextStep = "loader"  BY <2>1, <2>2, <2>6 DEF Restored, Files
  <2>7. CASE NextStep \in Files  BY <2>1, <2>2, <2>3, <2>7 DEF Undone, Restored, Files
  <2> QED BY <2>2, <2>5, <2>6, <2>7 DEF StepNames
<1>6. CASE GiveUp \/ Prefail \/ Recheck \/ Preserve \/ Undo \/ Recover \/ StopContainers \/ Checkpoint \/ FinishRollback
  BY <1>6 DEF GiveUp, Prefail, Recheck, Preserve, Undo, Recover, StopContainers, Checkpoint, FinishRollback, FailRollback, Observe, Forward
<1>7. CASE Environment
  BY <1>7 DEF Environment, GameBegins, GameWrites, GameLoads, GameConfirms, GameAnswers, GameExits, Crash, Playing, runner, durable
<1>8. CASE UNCHANGED newGameVars  BY <1>8 DEF newGameVars, runner, durable
<1> QED BY <1>1, <1>2, <1>3, <1>4, <1>5, <1>6, <1>7, <1>8 DEF NewGameNext, Failure

\* Every step keeps the journal true.
LEMMA JournalStep ==
    ASSUME NewGameInv, Records, Stands, Evidence, Play, Journal, [NewGameNext]_newGameVars
    PROVE  Journal'
<1>a. Lasting  BY LastingStep
<1>b. \A s \in Back : Restored(s)  BY DEF Back, Journal
<1>c. ASSUME NEW s \in Back, disk'.plan = disk.plan \/ ~disk.rb PROVE Restored(s)'
  <2>1. ~disk.rb => Back = {}
    BY DEF Back, Records, Sound, NewGameInv, Positions, Agrees, AtWork
  <2> QED BY <1>a, <1>b, <1>c, <2>1 DEF Lasting, Restored
<1>d. disk'.stage = "none" => disk' = disk
  <2>1. CASE Usual  BY <2>1 DEF Usual, Above, GoesOn
  <2>2. CASE Rewrites  BY <2>2 DEF Rewrites
  <2>3. CASE FileStays  BY <2>3 DEF FileStays
  <2> QED BY <2>1, <2>2, <2>3, NewGameKinds
<1>e. disk'.stage = "none" => \A f \in Files : files'[f] = "orig"
  BY <1>a, <1>d DEF Lasting, Journal
<1>f. (pc = "checkpoint" => disk.rb) /\ (~disk.rb => disk.done = {})
  BY DEF Records, Sound, Agrees, AtWork, NewGameInv, Positions
<1>1. CASE (Usual \/ FileStays) /\ ~Rewrites
  <2>1. disk'.done = disk.done /\ disk'.plan = disk.plan /\ disk'.rb = disk.rb
    BY <1>1 DEF Usual, Above, GoesOn, FileStays, Records, Agrees
  <2>2. \A s \in disk'.done : Restored(s)'  BY <1>c, <2>1 DEF Back
  <2>3. pc' = "checkpoint" => Restored(NextStep)'
    <3>1. ASSUME pc = "checkpoint", UNCHANGED <<mem, disk>> PROVE Restored(NextStep)'
      <4>1. NextStep' = NextStep /\ NextStep \in Back  BY <3>1 DEF NextStep, Back
      <4>2. Restored(NextStep)' <=> (NextStep \in Files => files'[NextStep] = "orig") /\ (NextStep = "marker" => target' = NoSave)
                                    /\ (NextStep = "quarantine" => disk'.plan \subseteq quar')
        BY <4>1 DEF Restored
      <4> QED BY <1>a, <1>b, <2>1, <4>1, <4>2 DEF Lasting, Restored
    <3> QED BY <3>1, CheckpointStep
  <2>4. disk'.plan \subseteq dirs' \cup quar' /\ (~disk'.rb => disk'.plan = {})
    BY <1>a, <2>1 DEF Lasting, Journal
  <2> QED BY <1>e, <2>2, <2>3, <2>4 DEF Journal
<1>2. CASE Rewrites
  <2>1. PICK m \in Record : /\ Sound(m) /\ ~m.loaded /\ m.stage # "none"
                            /\ (m.writer = disk.writer \/ pc = "reserve") /\ Rolls(m)
                            /\ pc' \in {"preflight", "stopping", "rollback"} /\ mem' = m /\ disk' = m
                            /\ UNCHANGED disks
    BY <1>2 DEF Rewrites
  <2>2. \A s \in disk'.done : s \in Back /\ (disk'.plan = disk.plan \/ ~disk.rb)
    BY <1>f, <2>1 DEF Rolls, Back
  <2>3. \A s \in disk'.done : Restored(s)'  BY <1>c, <2>2
  <2>4. disk'.plan \subseteq dirs' \cup quar' /\ (~disk'.rb => disk'.plan = {})
    BY <2>1 DEF Rolls, Journal, disks, saves
  <2> QED BY <1>e, <2>1, <2>3, <2>4 DEF Journal
<1> QED BY <1>1, <1>2, NewGameKinds

-----------------------------------------------------------------------------
(* The end of a transaction                                                *)

\* The transaction ends: it succeeds, or its rollback is complete.
Ends ==
    \/ /\ pc = "cleanup" /\ ToClean = {} /\ disk'.stage = "success" /\ disk'.verified
       /\ pc' = "release" /\ mem' = disk' /\ UNCHANGED files
    \/ /\ pc = "rollback" /\ AllUndone /\ disk'.stage = "rolled_back" /\ disk'.done = mem.done
       /\ pc' = "release" /\ mem' = disk'

\* How else a terminal stage gets into the file, or into the runner's record.
WritesEnd == disk' = disk \/ disk'.stage \notin Terminal \/ (AtWork /\ disk'.stage = mem.stage /\ pc \notin {"preserve", "release"})
Carries ==
    \/ pc' \in {"idle", "reserve"} \/ mem'.stage \notin Terminal \/ UNCHANGED <<pc, mem, disk>>
    \/ AtWork /\ mem'.stage = mem.stage /\ pc \notin {"preserve", "release"}
    \/ pc = "idle" /\ mem' = disk /\ (disk.stage \in Terminal => ~reserved')
    \/ pc = "cleanup" /\ pc' = "failed" /\ mem'.stage = "success"
Fallen == pc = "failed" /\ mem.progress => disk' = disk /\ (UNCHANGED pc \/ pc' \in {"preserve", "idle"})

\* No step gives a record a terminal stage in any other way.
LEMMA Marks ==
    ASSUME NewGameInv, Records, Stands, Evidence, Play, [NewGameNext]_newGameVars
    PROVE  Ends \/ (WritesEnd /\ Carries /\ Fallen)
<1> USE DEF Terminal, AtWork, TransactionStages, Undoing, Record, runner, durable
<1> USE DEF Ok, Fail, Goto, Persist, Bookkeeping, WritesEnd, Carries, Fallen
<1>a. mem \in Record /\ disk \in Record /\ dirs \subseteq Saves /\ quar \subseteq Saves
  BY DEF NewGameInv, NewGameTypeOK
<1>b. ASSUME AtWork
      PROVE  /\ Seen.stage = mem.stage /\ Seen \in Record
             /\ [Seen EXCEPT !.stage = "unknown"].stage = "unknown"
  BY <1>a, SeenFacts
<1>c. \A s \in TransactionStages : Stage(s).stage = s  BY <1>a DEF Stage
<1>d. \A m \in Record : RollbackRecord(m).stage = "rolling_back"  BY <1>a, RollbackFacts
<1>e. Blank.stage = "none" /\ [mem EXCEPT !.stage = "rollback_failed"].stage = "rollback_failed"
  BY <1>a, BlankFacts
<1>1. CASE Claim \/ StartRead \/ StartCleans \/ StartJoins \/ StartJob
  BY <1>1, <1>b, <1>c, <1>d, <1>e DEF Claim, StartRead, StartCleans, StartJoins, StartJob, Observe, FailRollback,
     Playing, Forward, Irreversible, NewGameInv, Positions
<1>2. CASE Preflight \/ TakeOver \/ WriteConfig \/ WriteMarker \/ Gates \/ PrepareMods
  BY <1>2, <1>b, <1>c, <1>d, <1>e DEF Preflight, TakeOver, WriteConfig, WriteMarker, Gates, PrepareMods, Observe,
     FailRollback, Playing, Forward, Irreversible, NewGameInv, Positions
<1>3. CASE RequestCatalog \/ ComposeUp \/ MarkStarted
  BY <1>3, <1>b, <1>c, <1>d, <1>e DEF RequestCatalog, ComposeUp, MarkStarted, Observe, FailRollback, Playing,
     Forward, Irreversible, NewGameInv, Positions
<1>4. CASE AwaitServer \/ ControlGateFails \/ AwaitCatalog \/ Decide \/ Baseline \/ PostNewGame
  BY <1>4, <1>b, <1>c, <1>d, <1>e DEF AwaitServer, ControlGateFails, AwaitCatalog, Decide, Baseline, PostNewGame,
     Observe, FailRollback, Playing, Forward, Irreversible, NewGameInv, Positions
<1>5. CASE MarkAmbiguous \/ MarkObserving \/ AwaitCandidate \/ BindMarker
  BY <1>5, <1>b, <1>c, <1>d, <1>e DEF MarkAmbiguous, MarkObserving, AwaitCandidate, BindMarker, Observe,
     FailRollback, Playing, Forward, Irreversible, NewGameInv, Positions
<1>6. CASE Publish \/ CommitProfile \/ Complete \/ Cleanup \/ Release
  BY <1>6, <1>b, <1>c, <1>d, <1>e DEF Publish, CommitProfile, Complete, Cleanup, Release, Observe, FailRollback,
     Playing, Forward, Irreversible, NewGameInv, Positions
<1>7. CASE GiveUp \/ Prefail \/ Recheck \/ Preserve \/ StopContainers \/ Apply
  BY <1>7, <1>b, <1>c, <1>d, <1>e DEF GiveUp, Prefail, Recheck, Preserve, StopContainers, Apply, Observe,
     FailRollback, Playing, Forward, Irreversible, NewGameInv, Positions
<1>8. CASE GameBegins \/ GameWrites \/ GameLoads \/ GameConfirms \/ GameAnswers \/ GameExits
  BY <1>8, <1>b, <1>c, <1>d, <1>e DEF GameBegins, GameWrites, GameLoads, GameConfirms, GameAnswers, GameExits,
     Observe, FailRollback, Playing, Forward, Irreversible, NewGameInv, Positions
<1>9. CASE Crash
  BY <1>9, <1>b, <1>c, <1>d, <1>e DEF Crash, Observe, FailRollback, Playing, Forward, Irreversible, NewGameInv,
     Positions
<1>10. CASE MarkCommandCalled
  <2>1. [mem EXCEPT !.called = TRUE, !.stage = "command_called"].stage = "command_called"
    BY <1>a
  <2> QED BY <1>10, <1>b, <2>1 DEF MarkCommandCalled
<1>11. CASE AwaitControl
  <2>1. [mem EXCEPT !.loaded = TRUE].stage = mem.stage  BY <1>a
  <2> QED BY <1>11, <1>b, <2>1 DEF AwaitControl
<1>12. CASE ReserveCommand
  <2>1. [mem EXCEPT !.cmd = Cardinality(published) + 1].stage = mem.stage  BY <1>a
  <2> QED BY <1>12, <1>b, <2>1 DEF ReserveCommand
<1>13. CASE AwaitSaved
  <2>1. [mem EXCEPT !.saved = TRUE].stage = mem.stage  BY <1>a
  <2> QED BY <1>13, <1>b, <2>1 DEF AwaitSaved
<1>14. CASE Checkpoint
  <2>1. [mem EXCEPT !.done = mem.done \cup {NextStep}].stage = mem.stage  BY <1>a
  <2> QED BY <1>14, <1>b, <2>1 DEF Checkpoint
<1>15. CASE Undo
  <2>1. RollbackRecord(mem).stage = "rolling_back"  BY <1>a, <1>d
  <2> QED BY <1>15, <1>e, <2>1 DEF Undo
<1>16. CASE Recover
  <2>1. RollbackRecord(mem).stage = "rolling_back"  BY <1>a, <1>d
  <2> QED BY <1>16, <1>e, <2>1 DEF Recover
<1>17. CASE BindCandidate
  <2>1. AtWork /\ [Seen EXCEPT !.cand = Candidate].stage = mem.stage
    BY <1>17, <1>b DEF BindCandidate
  <2> QED BY <1>17, <1>b, <2>1 DEF BindCandidate
<1>18. CASE VerifyDisk
  <2>1. AtWork /\ [Seen EXCEPT !.verified = TRUE].stage = mem.stage
    BY <1>18, <1>b DEF VerifyDisk
  <2> QED BY <1>18, <1>b, <2>1 DEF VerifyDisk
<1>19. CASE Reserve
  <2>1. \A w \in {"startup", "http"} : [Blank EXCEPT !.stage = "preparing", !.writer = w].stage = "preparing"
    BY DEF Blank
  <2> QED BY <1>19, <2>1 DEF Reserve
<1>20. CASE Succeed
  <2>1. Stage("success").verified  BY <1>20, <1>a DEF Succeed, Stands, Stage
  <2> QED BY <1>20, <1>c, <2>1 DEF Succeed, Ends, worldVars, disks
<1>21. CASE FinishRollback
  <2>1. Stage("rolled_back").done = mem.done  BY <1>a DEF Stage
  <2> QED BY <1>21, <1>c, <2>1 DEF FinishRollback, Ends
<1>22. CASE UNCHANGED newGameVars  BY <1>22 DEF newGameVars
<1> QED
  BY <1>1, <1>2, <1>3, <1>4, <1>5, <1>6, <1>7, <1>8, <1>9, <1>10, <1>11, <1>12, <1>13, <1>14, <1>15, <1>16, <1>17, <1>18, <1>19, <1>20, <1>21, <1>22
  DEF NewGameNext, Admission, PrepareFiles, Creation, Commit, Failure, Environment

\* How the owner and a Start that waits change.
Moves ==
    \/ Claim \/ StartRead \/ StartCleans \/ StartJob \/ Release
    \/ /\ UNCHANGED reserved /\ start' \in {start, "none"}
       /\ (pc = "idle" => UNCHANGED <<pc, disk>>) /\ (pc' = "reserve" => pc = "reserve") /\ (pc = "release" => pc' \in {"release", "idle"} /\ UNCHANGED disk)

\* There is no other way.
LEMMA MovesStep == ASSUME [NewGameNext]_newGameVars PROVE Moves
<1> USE DEF Observe, FailRollback, Playing, Forward
<1> USE DEF Ok, Fail, Goto, Persist, Bookkeeping, others, runner, durable, Moves
<1>1. CASE Admission  BY <1>1 DEF Admission, Reserve, StartJoins
<1>2. CASE PrepareFiles
  BY <1>2 DEF PrepareFiles, Preflight, TakeOver, WriteConfig, WriteMarker, Gates, PrepareMods, RequestCatalog,
     ComposeUp, MarkStarted
<1>3. CASE Creation
  BY <1>3 DEF Creation, AwaitServer, ControlGateFails, AwaitCatalog, Decide, Baseline, MarkCommandCalled,
     PostNewGame, MarkAmbiguous, MarkObserving, AwaitCandidate, BindCandidate, BindMarker
<1>4. CASE Commit
  BY <1>4 DEF Commit, AwaitControl, ReserveCommand, Publish, AwaitSaved, VerifyDisk, CommitProfile, Complete,
     Cleanup, Succeed, Release
<1>5. CASE Failure
  BY <1>5 DEF Failure, GiveUp, Prefail, Recheck, Preserve, Undo, Recover, StopContainers, Apply, Checkpoint,
     FinishRollback
<1>6. CASE Environment
  BY <1>6 DEF Environment, GameBegins, GameWrites, GameLoads, GameConfirms, GameAnswers, GameExits, Crash
<1>7. CASE UNCHANGED newGameVars  BY <1>7 DEF newGameVars
<1> QED BY <1>1, <1>2, <1>3, <1>4, <1>5, <1>6, <1>7 DEF NewGameNext

\* A record that was verified stays it, with nothing left that asks for another game.
LEMMA KeepingStays ==
    ASSUME NewGameInv, Records, Stands, Evidence, Play, Keeping, [NewGameNext]_newGameVars
    PROVE  Keeping'
<1> USE DEF Bookkeeping, worldVars, others, disks
<1>a. files \in [Files -> {"orig", "gone", "tx"}]  BY DEF NewGameInv, NewGameTypeOK
<1>b. disk.loaded /\ (AtWork => mem.stage \notin Early)  BY DEF Keeping, Records, Agrees, Sound
<1>1. disk'.verified
  <2>1. CASE Usual  BY <2>1 DEF Usual, Above, GoesOn, Records, Agrees, Keeping
  <2>2. CASE Rewrites  BY <1>b, <2>2 DEF Rewrites
  <2>3. CASE FileStays  BY <2>3 DEF FileStays, Keeping
  <2> QED BY <2>1, <2>2, <2>3, NewGameKinds
<1>2. ~WriteConfig /\ ~WriteMarker /\ (RequestCatalog => UNCHANGED files)
  BY <1>b DEF WriteConfig, WriteMarker, RequestCatalog, Stands, AtWork, Early
<1>3. \A f \in {"init", "catalog", "marker"} : files'[f] \in {files[f], "orig"}
  <2>1. CASE Admission
    BY <2>1 DEF Admission, Claim, Reserve, StartRead, StartCleans, StartJoins, StartJob
  <2>2. CASE PrepareFiles
    BY <1>a, <1>2, <2>2 DEF PrepareFiles, Preflight, TakeOver, Gates, PrepareMods, ComposeUp, MarkStarted, Files
  <2>3. CASE Creation
    BY <2>3 DEF Creation, AwaitServer, ControlGateFails, AwaitCatalog, Decide, Baseline, MarkCommandCalled, PostNewGame, MarkAmbiguous, MarkObserving, AwaitCandidate, BindCandidate, BindMarker
  <2>4. CASE Commit
    BY <1>a, <2>4 DEF Commit, AwaitControl, ReserveCommand, Publish, AwaitSaved, VerifyDisk, CommitProfile, Complete, Cleanup, Succeed, Release, Files
  <2>5. CASE Apply  BY <1>a, <2>5 DEF Apply, Undone, Quarantined, Files
  <2>6. CASE GiveUp \/ Prefail \/ Recheck \/ Preserve \/ Undo \/ Recover \/ StopContainers \/ Checkpoint \/ FinishRollback
    BY <2>6 DEF GiveUp, Prefail, Recheck, Preserve, Undo, Recover, StopContainers, Checkpoint, FinishRollback
  <2>7. CASE Environment
    BY <1>a, <2>7 DEF Environment, GameBegins, GameWrites, GameLoads, GameConfirms, GameAnswers, GameExits, Crash, Playing, Files
  <2>8. CASE UNCHANGED newGameVars  BY <2>8 DEF newGameVars
  <2> QED BY <2>1, <2>2, <2>3, <2>4, <2>5, <2>6, <2>7, <2>8 DEF NewGameNext, Failure
<1> QED BY <1>1, <1>3 DEF Keeping, Cleaned

\* A rollback that is complete stays it.
LEMMA AllBackStays ==
    ASSUME NewGameInv, Records, Stands, Evidence, Play, AllBack, [NewGameNext]_newGameVars
    PROVE  AllBack'
<1>1. CASE Usual  BY <1>1 DEF Usual, Above, GoesOn, Records, Agrees, AllBack
<1>2. CASE Rewrites
  <2>1. pc # "reserve"  BY DEF AllBack, NewGameInv, Core, Fresh, Blank, StepNames, Files
  <2> QED BY <1>2, <2>1 DEF Rewrites, Rolls, AllBack
<1>3. CASE FileStays  BY <1>3 DEF FileStays, AllBack
<1> QED BY <1>1, <1>2, <1>3, NewGameKinds

\* Nor does a runner of such a transaction get anywhere but to its end.
LEMMA EndingStays ==
    ASSUME NewGameInv, Records, Stands, Evidence, Play, Journal, AllBack, pc \in Ending, ~disk.loaded, AtWork => ~mem.loaded,
           [NewGameNext]_newGameVars
    PROVE  pc' \in Ending /\ ~disk'.loaded /\ (AtWork' => ~mem'.loaded)
<1> USE DEF Ok, Fail, Goto, Persist, Bookkeeping, Observe, FailRollback, Playing, runner, durable, Ending
<1>1. ~disk'.loaded /\ (AtWork' => ~mem'.loaded)
  <2>1. CASE Usual  BY <2>1 DEF Usual, Above, GoesOn, AtWork
  <2>2. CASE Rewrites  BY <2>2 DEF Rewrites
  <2>3. CASE FileStays  BY <2>3 DEF FileStays, AtWork
  <2> QED BY <2>1, <2>2, <2>3, NewGameKinds
<1> SUFFICES pc' \in Ending  BY <1>1
<1>2. files.marker = "orig" /\ disk.done # {}
  BY DEF AllBack, Journal, Restored, StepNames, Files
<1>3. AtWork => mem.stage \notin Early /\ ~mem.verified /\ mem.done = disk.done
  BY <1>2 DEF Records, Agrees, Sound
<1>4. pc = "rollback" => AllUndone
  <2>1. \A i \in DOMAIN RollbackSteps : RollbackSteps[i] \in StepNames
    BY DEF RollbackSteps, StepNames, Files
  <2> QED BY <1>3, <2>1 DEF AllBack, AllUndone, AtWork
<1>5. disk.stage # "none"  BY <1>2 DEF NewGameInv, Core, Fresh, Blank
<1>6. CASE Admission
  BY <1>5, <1>6 DEF Admission, Claim, Reserve, StartRead, StartCleans, StartJoins, StartJob
<1>7. CASE TakeOver  BY <1>2, <1>3, <1>7 DEF TakeOver, NeedsConfigReplay, AtWork, Early
<1>8. CASE Preflight \/ WriteConfig \/ WriteMarker \/ Gates \/ PrepareMods \/ RequestCatalog \/ ComposeUp \/ MarkStarted
  BY <1>8 DEF Preflight, WriteConfig, WriteMarker, Gates, PrepareMods, RequestCatalog, ComposeUp, MarkStarted
<1>9. CASE Creation
  BY <1>9 DEF Creation, AwaitServer, ControlGateFails, AwaitCatalog, Decide, Baseline, MarkCommandCalled, PostNewGame, MarkAmbiguous, MarkObserving, AwaitCandidate, BindCandidate, BindMarker
<1>10. CASE Commit
  BY <1>10 DEF Commit, AwaitControl, ReserveCommand, Publish, AwaitSaved, VerifyDisk, CommitProfile, Complete, Cleanup, Succeed, Release
<1>11. CASE Failure
  BY <1>4, <1>11 DEF Failure, GiveUp, Prefail, Recheck, Preserve, Undo, Recover, StopContainers, Apply, Checkpoint, FinishRollback
<1>12. CASE Environment
  BY <1>12 DEF Environment, GameBegins, GameWrites, GameLoads, GameConfirms, GameAnswers, GameExits, Crash
<1>13. CASE UNCHANGED newGameVars  BY <1>13 DEF newGameVars
<1> QED BY <1>1, <1>6, <1>7, <1>8, <1>9, <1>10, <1>11, <1>12, <1>13 DEF NewGameNext, PrepareFiles

\* Every step keeps what is known of a transaction that is over.
LEMMA OverStep ==
    ASSUME NewGameInv, Records, Stands, Evidence, Play, Journal, Over, [NewGameNext]_newGameVars
    PROVE  Over'
<1>a. Ends => (disk'.stage = "success" /\ Keeping') \/ (disk'.stage = "rolled_back" /\ AllBack' /\ ~disk'.loaded /\ ~mem'.loaded)
  <2>1. ToClean = {} => Cleaned  BY DEF ToClean, CleanupOrder, Cleaned
  <2>2. AllUndone => StepNames \subseteq mem.done
    BY DEF AllUndone, RollbackSteps, StepNames, Files
  <2>3. disk'.stage = "rolled_back" => ~disk'.loaded  BY RecordsStep DEF Records, Sound
  <2> QED BY <2>1, <2>2, <2>3 DEF Ends, Cleaned, AllBack, Keeping
<1>b. KeptOrBack => KeptOrBack'  BY KeepingStays, AllBackStays, EndingStays DEF KeptOrBack
<1>c. disk.stage \in Terminal /\ pc \in {"idle", "release"} => KeptOrBack
  BY DEF Over, Terminal, KeptOrBack, Records, Sound, Stands, AtWork, Ending
<1>d. Moves /\ (Ends \/ (WritesEnd /\ Carries /\ Fallen))  BY MovesStep, Marks
<1>e. disk'.stage # "none" => disk.stage # "none" \/ reserved
  BY NewGameKinds DEF Usual, Rewrites, FileStays, Rolls, Records, Sound, NewGameInv, Core, Follows, Over
<1>f. /\ AtWork => disk.stage # "none" /\ mem.stage # "none" /\ Sound(mem) /\ Agrees
      /\ pc = "reserve" => disk.stage = "none"
  BY DEF NewGameInv, Core, Follows, Fresh, Records
<1>g. /\ reserved /\ AtWork /\ mem.stage = "success" => pc \in {"failed", "preserve", "release"}
      /\ reserved /\ AtWork /\ mem.stage = "rolled_back" => pc = "release"
      /\ AtWork /\ mem.stage = "success" => mem.progress /\ mem.verified /\ mem.loaded
      /\ AtWork /\ mem.stage = "rolled_back" => ~mem.loaded
      /\ AtWork /\ Keeping => mem.loaded
  BY <1>f DEF Over, Sound, Agrees, Keeping
<1>h. reserved' => reserved \/ (pc = "idle" /\ pc' = "reserve" /\ disk' = disk /\ disk.stage = "none")
  BY <1>d DEF Moves, Claim, StartRead, StartCleans, StartJob, Release, durable, Ok, Goto
<1>1. CASE Ends
  <2>1. reserved' = reserved /\ start' \in {start, "none"} /\ disk.stage # "none" /\ pc # "idle" /\ pc' = "release"
    BY <1>1, <1>d, <1>f DEF Ends, Moves, Claim, StartRead, StartCleans, StartJob, Release, runner, AtWork
  <2>2. KeptOrBack'  BY <1>1, <1>a, <2>1 DEF KeptOrBack, Ending
  <2>3. ~reserved => start = "none"  BY <2>1 DEF Over
  <2> QED BY <1>1, <1>a, <2>1, <2>2, <2>3 DEF Over, AtWork
<1>2. CASE ~Ends
  <2>a. WritesEnd /\ Carries /\ Fallen  BY <1>2, <1>d
  <2>1. disk'.stage = "success" => Keeping'
    <3>1. disk'.stage = "success" => Keeping
      BY <2>a, <1>f, <1>g DEF WritesEnd, Fallen, Over, KeptOrBack, Terminal
    <3> QED BY <3>1, KeepingStays
  <2>2. disk'.stage = "rolled_back" => AllBack'
    <3>1. disk'.stage = "rolled_back" => AllBack
      BY <2>a, <1>f, <1>g DEF WritesEnd, Over, KeptOrBack, Terminal
    <3> QED BY <3>1, AllBackStays
  <2>3. pc' = "reserve" => reserved'
    BY <1>d DEF Moves, Over, Claim, StartRead, StartCleans, StartJob, Release, runner, durable, Ok, Fail, Goto
  <2>4. reserved' /\ disk'.stage \in Terminal => pc' \in {"idle", "release"}
    <3> SUFFICES ASSUME reserved', disk'.stage \in Terminal PROVE pc' \in {"idle", "release"}
      OBVIOUS
    <3>1. reserved  BY <1>h DEF Terminal
    <3>2. disk' = disk  BY <2>a, <3>1, <1>g DEF WritesEnd, Fallen, Terminal
    <3>3. pc \in {"idle", "release"}  BY <3>1, <3>2 DEF Over
    <3> QED BY <1>d, <3>1, <3>2, <3>3 DEF Moves, Claim, StartRead, StartCleans, StartJob, Release, runner, durable, Ok, Fail, Goto, Terminal
  <2>5. /\ reserved' /\ AtWork' /\ mem'.stage = "success" => pc' \in {"failed", "preserve", "release"}
        /\ reserved' /\ AtWork' /\ mem'.stage = "rolled_back" => pc' = "release"
    BY <2>a, <1>g, <1>h DEF Carries, Fallen, AtWork, Terminal
  <2>6. ASSUME ~reserved', disk'.stage # "none" PROVE (start' = "none" \/ (pc' = "idle" /\ disk'.stage \in Terminal)) /\ KeptOrBack
    <3>1. CASE StartCleans
      <4>1. pc \in {"idle", "release"}  BY <3>1 DEF StartCleans, Over
      <4> QED BY <1>c, <3>1, <4>1 DEF StartCleans
    <3>2. CASE StartJob  BY <1>c, <2>6, <3>2 DEF StartJob, Over
    <3>3. CASE Release
      <4>1. pc = "release" /\ pc' = "idle" /\ disk' = disk  BY <3>3 DEF Release, Ok, Fail, Goto
      <4> QED BY <1>c, <4>1 DEF Stands
    <3>4. CASE ~StartCleans /\ ~StartJob /\ ~Release
      <4>1. /\ ~reserved /\ start' \in {start, "none"}
            /\ (pc = "idle" => UNCHANGED <<pc, disk>>)
        BY <1>d, <2>6, <3>4 DEF Moves, Claim, StartRead, durable
      <4> QED BY <1>e, <2>6, <4>1 DEF Over
    <3> QED BY <3>1, <3>2, <3>3, <3>4
  <2> QED BY <1>b, <2>1, <2>2, <2>3, <2>4, <2>5, <2>6 DEF Over
<1> QED BY <1>1, <1>2


-----------------------------------------------------------------------------
(* Transactions end one way or the other                                   *)

\* What is known of the world holds initially, ...
LEMMA WorldInit == NewGameInit => World
<1> SUFFICES ASSUME NewGameInit PROVE World
  OBVIOUS
<1> USE DEF NewGameInit
<1>1. Records /\ Evidence  BY DEF Records, Sound, Evidence, Witnessed, AtWork, Blank, Early
<1>2. Stands /\ Play  BY DEF Stands, Play, Resumed, Past, Quiet
<1>3. Journal /\ Over  BY DEF Journal, Over, Blank, Terminal, AtWork
<1> QED BY <1>1, <1>2, <1>3 DEF World

\* ... and every step keeps it.
LEMMA WorldNext == NewGameInv /\ World /\ [NewGameNext]_newGameVars => World'
BY RecordsStep, StandsStep, PlayStep, EvidenceStep, JournalStep, OverStep DEF World

\* So it always holds.
LEMMA WorldHolds == NewGameSpec => [](NewGameInv /\ World)
<1>1. NewGameInv /\ World /\ [NewGameNext]_newGameVars => NewGameInv' /\ World'
  BY WorldNext, NewGameInvNext, NewGameTypeNext DEF NewGameInv
<1> QED BY <1>1, NewGameInvInit, WorldInit, PTL DEF NewGameSpec

\* A record that was verified and cleaned up after is that of a save kept for good; ...
LEMMA KeptForGood == NewGameInv /\ World /\ Keeping => FullyKept /\ dirs = {disk.cand}
BY DEF World, Records, Sound, Evidence, Witnessed, Keeping, Cleaned, FullyKept

\* ... one whose rollback is complete has nothing of it left.
LEMMA UndoneForGood == NewGameInv /\ World /\ AllBack => FullyUndone
<1> SUFFICES ASSUME NewGameInv, World, AllBack PROVE FullyUndone
  OBVIOUS
<1>1. \A f \in Files : files[f] = "orig"  BY DEF World, Journal, AllBack, Restored, StepNames
<1>2. files = [f \in Files |-> "orig"]  BY <1>1 DEF NewGameInv, NewGameTypeOK
<1>3. target = NoSave /\ disk.plan \subseteq quar
  BY DEF World, Journal, AllBack, Restored, StepNames, Files
<1> QED BY <1>2, <1>3 DEF FullyUndone

\* A new-game transaction whose owner is gone has put everything back or has kept a save
\* that the game confirmed durable, and a success on record is such a save, the only new one:
\* whatever failed, wherever the panel stopped (Decided).
THEOREM DecidedHolds == NewGameSpec => []Decided
<1>1. NewGameInv /\ World => Decided
  <2> SUFFICES ASSUME NewGameInv, World PROVE Decided
    OBVIOUS
  <2>1. SettledBeforeFree
    BY KeptForGood, UndoneForGood DEF World, Over, KeptOrBack, SettledBeforeFree
  <2>2. SuccessIsDurable  BY KeptForGood DEF World, Over, SuccessIsDurable
  <2> QED BY <2>1, <2>2 DEF Decided
<1> QED BY <1>1, WorldHolds, PTL

-----------------------------------------------------------------------------
(* What the rest of the panel sees of it                                   *)

\* A transaction that is decided, by its record or by its owner, is kept or undone.
LEMMA DecidedIsKept ==
    ASSUME NewGameInv, World, disk.stage # "none", ~reserved \/ disk.stage \in Terminal
    PROVE  KeptOrBack /\ (reserved => pc \in {"idle", "release"})
<1>1. CASE ~reserved  BY <1>1 DEF World, Over
<1>2. CASE reserved
  <2>1. pc \in {"idle", "release"} /\ (Keeping \/ (AllBack /\ disk.stage = "rolled_back"))
    BY <1>2 DEF World, Over, Terminal
  <2>2. disk.stage = "rolled_back" => ~disk.loaded  BY DEF World, Records, Sound
  <2>3. pc = "release" => mem = disk  BY DEF World, Stands
  <2> QED BY <2>1, <2>2, <2>3 DEF KeptOrBack, AtWork, Ending
<1> QED BY <1>1, <1>2

\* What a kept save, and an undone transaction, look like from outside.
Shown ==
    /\ Keeping => FullyKept
    /\ AllBack /\ ~disk.loaded => FullyUndone /\ ~FullyKept
    /\ disk.stage = "none" => FullyUndone /\ ~FullyKept

\* They do.
LEMMA EndShown == NewGameInv /\ World => Shown
<1> SUFFICES ASSUME NewGameInv, World PROVE Shown
  OBVIOUS
<1>1. ~disk.loaded => ~FullyKept  BY DEF World, Records, Sound, FullyKept
<1>2. disk.stage = "none" => disk = Blank /\ target = NoSave /\ \A f \in Files : files[f] = "orig"
  BY BlankFacts DEF World, Journal, NewGameInv, Core, Fresh, TargetBound
<1>3. disk.stage = "none" => FullyUndone /\ ~FullyKept
  <2> SUFFICES ASSUME disk.stage = "none" PROVE FullyUndone /\ ~FullyKept
    OBVIOUS
  <2>1. files = [f \in Files |-> "orig"]  BY <1>2 DEF NewGameInv, NewGameTypeOK
  <2> QED BY <1>1, <1>2, <2>1 DEF FullyUndone, Blank
<1> QED BY <1>1, <1>3, KeptForGood, UndoneForGood DEF Shown

\* So they do after a step.
LEMMA EndedAfter == (NewGameInv /\ World)' => Shown'
BY EndShown, PTL

\* Every step is one of the outcome's, or none.
LEMMA OutcomeStep == NewGameInv /\ World /\ [NewGameNext]_newGameVars => [Outcome!Next]_Outcome!vars
<1> SUFFICES ASSUME NewGameInv, World, [NewGameNext]_newGameVars PROVE [Outcome!Next]_Outcome!vars
  OBVIOUS
<1> USE DEF Outcome!Next, Outcome!vars, Outcome!Claim, Outcome!Begin, Outcome!Work, Outcome!Keep, Outcome!Restore, Outcome!Free
<1>a. NewGameInv' /\ World'  BY NewGameInvNext, NewGameTypeNext, WorldNext DEF NewGameInv
<1>b. /\ Keeping => FullyKept
      /\ AllBack /\ ~disk.loaded => FullyUndone /\ ~FullyKept
      /\ disk.stage = "none" => FullyUndone /\ ~FullyKept
  BY EndShown DEF Shown
<1>c. /\ Keeping' => FullyKept'
      /\ AllBack' /\ ~disk'.loaded => FullyUndone' /\ ~FullyKept'
      /\ disk'.stage = "none" => FullyUndone' /\ ~FullyKept'
  BY <1>a, EndedAfter DEF Shown
<1>d. Moves /\ (Ends \/ (WritesEnd /\ Carries /\ Fallen)) /\ (Usual \/ Rewrites \/ FileStays)
  BY MovesStep, Marks, NewGameKinds DEF World
<1>e. reserved \in BOOLEAN /\ reserved' \in BOOLEAN  BY <1>a DEF NewGameInv, NewGameTypeOK
<1>f. /\ reserved' => reserved \/ (disk' = disk /\ disk.stage = "none")
      /\ reserved /\ ~reserved' => disk' = disk /\ disk.stage \in Terminal
  BY <1>d DEF Moves, Claim, StartRead, StartCleans, StartJob, Release, durable, Ok, Fail, Goto, World, Stands
<1>g. disk'.stage = "none" => disk' = disk
  BY <1>d DEF Usual, Above, GoesOn, Rewrites, FileStays
<1>1. CASE disk'.stage = "none"  BY <1>1, <1>b, <1>c, <1>e, <1>f, <1>g DEF Terminal
<1>2. CASE disk.stage = "none" /\ disk'.stage # "none"
  <2>1. pc = "reserve" /\ ~AtWork
    <3>1. ~AtWork  BY <1>2 DEF NewGameInv, Core, Follows
    <3>2. disk.writer = "none" /\ disk'.writer # "none"  BY <1>2, <1>a DEF World, Records, Sound
    <3>3. Rewrites  BY <1>2, <1>d, <3>1 DEF Usual, FileStays
    <3> QED BY <3>1, <3>2, <3>3 DEF Rewrites
  <2>2. reserved /\ reserved'  BY <1>2, <1>f, <2>1 DEF World, Over, Terminal
  <2>3. disk'.stage \notin Terminal  BY <1>2, <1>d, <2>1 DEF Ends, WritesEnd
  <2>4. UNCHANGED disks /\ disk'.plan = {} /\ ~disk'.loaded
    BY <1>2, <1>d, <2>1 DEF Usual, FileStays, Rewrites, Rolls
  <2>5. FullyUndone' /\ ~FullyKept'
    BY <1>2, <1>b, <2>4, <1>a DEF FullyUndone, FullyKept, World, Records, Sound, disks
  <2> QED BY <1>2, <1>b, <2>2, <2>3, <2>5
<1>3. CASE disk.stage # "none" /\ disk'.stage # "none" /\ reserved /\ disk.stage \notin Terminal
  <2>1. reserved'  BY <1>3, <1>f
  <2>2. CASE disk'.stage \notin Terminal  BY <1>3, <1>e, <2>1, <2>2
  <2>3. CASE disk'.stage \in Terminal
    <3>1. Ends
      <4>1. AtWork /\ mem.stage = "success" => mem.progress  BY DEF World, Records, Sound
      <4>2. reserved /\ AtWork /\ mem.stage \in Terminal => pc \in {"preserve", "release"} \/ (pc = "failed" /\ mem.progress)
        BY <4>1 DEF World, Over, Terminal
      <4> QED BY <1>3, <1>d, <2>3, <4>2 DEF WritesEnd, Fallen
    <3>2. CASE disk'.stage = "success"
      <4>1. pc = "cleanup" /\ ToClean = {}  BY <3>1, <3>2 DEF Ends
      <4>2. Keeping  BY <4>1 DEF World, Stands, Keeping, Cleaned, ToClean, CleanupOrder
      <4>3. Keeping'  BY <1>a, <3>2 DEF World, Over
      <4> QED BY <1>3, <1>b, <1>c, <2>1, <2>3, <4>2, <4>3
    <3>3. CASE disk'.stage = "rolled_back"
      <4>1. pc = "rollback" /\ AllUndone  BY <3>1, <3>3 DEF Ends
      <4>2. AllBack /\ ~disk.loaded
        BY <4>1 DEF World, Records, Agrees, Sound, AtWork, NewGameInv, Positions, Undoing, AllBack, AllUndone, RollbackSteps, StepNames, Files
      <4>3. AllBack' /\ ~disk'.loaded  BY <1>a, <3>3 DEF World, Over, Records, Sound
      <4> QED BY <1>3, <1>b, <1>c, <2>1, <2>3, <4>2, <4>3
    <3> QED BY <2>3, <3>2, <3>3 DEF Terminal
  <2> QED BY <2>2, <2>3
<1>4. CASE disk.stage # "none" /\ disk'.stage # "none" /\ (~reserved \/ disk.stage \in Terminal)
  <2>1. KeptOrBack /\ (reserved => pc \in {"idle", "release"})  BY <1>4, DecidedIsKept
  <2>2. ~reserved' \/ disk'.stage \in Terminal
    <3>1. pc \in {"idle", "release"} => disk' = disk
      BY <1>4, <1>d DEF Moves, Claim, StartRead, StartCleans, StartJob, Release, durable
    <3> QED BY <1>4, <1>f, <2>1, <3>1
  <2>3. reserved' => reserved  BY <1>4, <1>f
  <2>4. CASE Keeping
    <3>1. Keeping'  BY <2>4, KeepingStays DEF World
    <3> QED BY <1>4, <1>b, <1>c, <1>e, <2>2, <2>3, <2>4, <3>1
  <2>5. CASE ~Keeping
    <3>1. AllBack /\ ~disk.loaded /\ AllBack' /\ ~disk'.loaded
      BY <2>1, <2>5, AllBackStays, EndingStays DEF World, KeptOrBack
    <3> QED BY <1>4, <1>b, <1>c, <1>e, <2>2, <2>3, <3>1
  <2> QED BY <2>4, <2>5
<1> QED BY <1>1, <1>2, <1>3, <1>4

\* The transaction implements NewGameOutcome: the instance is free again only with the old
\* world or the new one, whole, and that does not change any more, even while a Start that
\* read the record before still runs it (newGameOwner, releaseOwner).
THEOREM ImplementsOutcomeHolds == NewGameSpec => ImplementsOutcome
<1>1. NewGameInit => Outcome!Init
  <2> SUFFICES ASSUME NewGameInit PROVE Outcome!Init
    OBVIOUS
  <2>1. FullyUndone /\ ~FullyKept /\ disk.stage = "none" /\ reserved = FALSE
    BY NewGameInvInit, WorldInit, EndShown, BlankFacts DEF NewGameInit, Shown
  <2> QED BY <2>1 DEF Outcome!Init
<1> QED BY <1>1, OutcomeStep, WorldHolds, PTL DEF NewGameSpec, ImplementsOutcome, Outcome!Spec
=============================================================================
