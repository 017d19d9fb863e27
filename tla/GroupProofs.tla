----------------------------- MODULE GroupProofs -----------------------------
(***************************************************************************)
(* The upgrade of the worlds on one game volume keeps its account, for any *)
(* number of worlds, live, idle or cold, any number of steps that fail,    *)
(* wholly or half way, and any number of deaths of the panel.              *)
(*                                                                         *)
(* The panel decides by what it wrote, so the invariant says what each     *)
(* mark of transaction.json vouches for (Describes, Phased), what          *)
(* manifest, leases and status add (OnRecord), and what holds where the    *)
(* panel is (RunPlace, UndoPlace): there it holds the transaction that is  *)
(* on disk (HoldsTxn).  A checkpoint that is valid, goes on from the last  *)
(* one and says what is the case keeps all of it, whether it is written    *)
(* wholly, cut short or refused (CheckpointKeeps); so does a step on the   *)
(* worlds that leaves what the transaction says true even when it is half  *)
(* done (WorldKeeps).  The rest is one lemma for each step or group of     *)
(* steps.                                                                  *)
(*                                                                         *)
(* At the end, the run's specification implies that of each operation it   *)
(* composes, so every theorem of this module, PanelProofs and ImportProofs *)
(* holds of the composition.                                               *)
(***************************************************************************)
EXTENDS MCPanelOperations, ImportProofs, PanelProofs, WellFoundedInduction

-----------------------------------------------------------------------------
(* The invariant                                                           *)

\* GroupUpgrade as a specification of its own; the runs compose it with other operations.
GroupSpec == GroupInit /\ [][GroupNext]_groupVars

\* The marks transaction.json carries for the group and for a world, its phases, and the places
\* of the panel's program.
GroupMarks == {"stageIntent", "stageCreated", "stageReady", "changes", "stageRemoved", "keep"}
WorldMarks == {"saveIntent", "saved", "stopIntent", "stopped", "archived", "updateIntent", "updated",
               "restoreIntent", "restored"}
RunPhases == {"claimed", "quiescing", "backing_up", "preparing_game", "updating_worlds", "restoring_state"}
Phases == RunPhases \cup Undoing \cup {"none", "committed", "claim_failed"}
Txns == [phase : Phases, marks : SUBSET GroupMarks, worlds : [Members -> SUBSET WorldMarks]]
StartPlaces == {"start", "claim", "claimed", "unclaim", "job", "nojob", "first", "abandon", "disown", "excuse"}
AbortPlaces == {"abort", "unsaved", "restartOld", "abortRows"}
RestorePlaces == {"unbox", "restore", "refill", "restored", "recreate"}
EndPlaces == {"unstage", "unstaged", "revive", "reviveRows"}
UndoPlaces == AbortPlaces \cup RestorePlaces \cup EndPlaces \cup {"keep", "halt", "restoreIntent", "rolled"}
GroupPlaces == StartPlaces \cup RunSteps \cup UndoPlaces
          \cup {"failed", "rolling", "giveup", "publish", "republish", "release", "boot", "down", "rest"}

\* The type invariant, with the types of the records and of the place.
GTypes ==
    /\ GroupTypeOK
    /\ txn \in Txns /\ hold \in Txns /\ manifest \in Phases \cup {"claiming"}
    /\ published \in {"none", "checking", "stopping", "succeeded", "failed_rolled_back", "rollback_failed"}
    /\ at \in GroupPlaces

\* The container of a world as it was captured, and as the upgrade leaves it.
OldImage(m) == IF Boxed(m) THEN "old" ELSE "none"
NewImage(m) == IF Boxed(m) THEN "new" ELSE "none"
AsBefore == \A m \in Members : content[m] = "old" /\ image[m] = OldImage(m)
RowsAgree == \A m \in Members : (Serves(m) => rows[m] = "running") /\ (rows[m] = "running" => runs[m] # "down")
Resting == \A m \in Members : ~Live(m) => ~Serves(m)

\* What a transaction says of a world: by its marks recovery tells the old world from the new.
Member140(t, m) ==
    LET w == t.worlds[m] IN
    /\ "saved" \in w => command[m] = "saved"
    /\ "updateIntent" \notin w /\ "restoreIntent" \notin w => content[m] = "old" /\ image[m] = OldImage(m)
    /\ "updated" \in w /\ "restoreIntent" \notin w => content[m] = "new" /\ image[m] = NewImage(m)
    /\ "restored" \in w => content[m] = "old"
    /\ content[m] = "purged" => "restoreIntent" \in w
\* What it says of all of them and of the staging volume; before the first stop intent every
\* server and every row is as it was found.
Describes(t) ==
    /\ \A m \in Members : Member140(t, m)
    /\ "stageIntent" \notin t.marks \/ "stageRemoved" \in t.marks => ~staging
    /\ ~HasStopIntent(t) => \A m \in Members : /\ rows[m] = Original[m]
                                               /\ runs[m] \in IF Live(m) THEN {"first", "died"} ELSE {"down"}
\* What its phase says.
Phased(t) ==
    /\ "stageCreated" \in t.marks /\ t.phase \notin Undoing => staging
    /\ t.phase \notin Undoing => \A m \in Members : "restoreIntent" \notin t.worlds[m]
    /\ t.phase = "rolled_back" => ~staging /\ AsBefore
    /\ t.phase \in Final => RowsAgree
Described == \E t \in {txn} : Valid(t) /\ Describes(t) /\ Phased(t)

\* What the manifest, the leases and the public status say beside it.
OnRecord ==
    /\ txn = NoTxn => manifest \in {"none", "claiming", "claimed", "claim_failed"}
    /\ txn # NoTxn => txn.phase # "none"
    /\ manifest \in Final /\ txn # NoTxn => txn.phase = manifest
    /\ txn # NoTxn /\ txn.phase \notin Final => AllHeld
    /\ manifest = "none" => \A m \in Members : lease[m] = "none"
    /\ \A m \in Members : runs[m] = "first" => Live(m)
    /\ published = "succeeded" => txn.phase = "committed"
    /\ published = "failed_rolled_back" => txn.phase \in {"none", "rolled_back", "claim_failed"}

\* The start: no transaction is written before every lease is in place.
FreshGroup == txn = NoTxn
Starting ==
    /\ at \in {"start", "claim", "claimed", "unclaim", "job", "nojob", "first"} => FreshGroup /\ published = "none"
    /\ at = "start" => manifest = "none"
    /\ at \in {"claim", "claimed", "unclaim"} => manifest \in {"claiming", "claimed"}
    /\ at = "claim" => \A m \in 1..(member - 1) : lease[m] = "held"
    /\ at \in {"claimed", "job", "nojob", "first", "abandon"} => AllHeld
    /\ at \in {"job", "nojob", "first", "abandon"} => manifest = "claimed"
    /\ at = "abandon" => published = "none" /\ txn \in {NoTxn, Set(NoTxn, "claimed", {})}
    /\ at \in {"disown", "excuse"} => txn = NoTxn \/ txn.phase = "claim_failed"

\* Where the run is: place a, the world k it works on, the transaction t it holds.  First the
\* worlds are stopped one after the other, later they are updated in the same order.
Stopping(a, k, t) ==
    /\ t.marks = {}
    /\ \A m \in Members : m < k => "stopIntent" \in t.worlds[m]
    /\ \A m \in Members : m > k => t.worlds[m] = {}
    /\ a = "member" => t.worlds[k] = {}
    /\ a \in {"send", "await", "saved"} => t.worlds[k] = {"saveIntent"}
    /\ a = "saved" => command[k] = "saved"
    /\ a = "stopIntent" /\ Live(k) => "saved" \in t.worlds[k]
    /\ a \in {"stop", "stopped"} => "stopIntent" \in t.worlds[k]
Updating(a, k, t) ==
    /\ "changes" \in t.marks
    /\ \A m \in Members : m < k => "updated" \in t.worlds[m]
    /\ \A m \in Members : m > k => "updateIntent" \notin t.worlds[m]
    /\ a = "update" => "updateIntent" \notin t.worlds[k]
    /\ a # "update" => "updateIntent" \in t.worlds[k] /\ "updated" \notin t.worlds[k]
    /\ a \in {"replace", "fill", "target"} => image[k] = "none"
    /\ a \in {"target", "settle", "updated"} => content[k] = "new"
    /\ a \in {"settle", "updated"} => image[k] = NewImage(k)

StopPlaces == {"member", "send", "await", "saved", "stopIntent", "stop", "stopped"}
UpdatePlaces == {"update", "remove", "replace", "fill", "target", "settle", "updated"}
\* Every place of the run.
RunPlace(a, k, t) ==
    /\ t.phase \in RunPhases
    /\ \A m \in Members : ~Live(m) /\ Serves(m) => a = "settle" /\ m = k
    /\ a \in {"quiesce", "announce"} => t.marks = {} /\ \A m \in Members : t.worlds[m] = {}
    /\ a \in StopPlaces => Stopping(a, k, t)
    /\ a \in {"quiet", "archive", "stage"} => t.marks = {}
    /\ a = "quiet" => \A m \in Members : "stopIntent" \in t.worlds[m]
    /\ a = "archive" => \A m \in Members : "stopped" \in t.worlds[m] /\ (m < k => "archived" \in t.worlds[m])
    /\ a = "stage" => \A m \in Members : Backed(t, m)
    /\ a \in {"create", "created"} => t.marks = {"stageIntent"}
    /\ a = "created" => staging
    /\ a = "prepared" => t.marks = {"stageIntent", "stageCreated"}
    /\ a = "change" => t.marks = {"stageIntent", "stageCreated", "stageReady"}
    /\ a \in UpdatePlaces => Updating(a, k, t)
    /\ a \in {"restoring", "restart", "rows", "commit"} => \A m \in Members : "updated" \in t.worlds[m]
    /\ a \in {"rows", "commit"} => \A m \in Members : Live(m) => runs[m] # "down"
    /\ a = "commit" => rows = Original

\* Every place of a rollback and of an abort before anything was backed up.
KeepMarked(t) == turn > 0 \/ "keep" \in t.marks
UndoPlace(a, k, t) ==
    /\ t.phase = "rolling_back"
    /\ a \in AbortPlaces => Untouched(t)
    /\ a \in {"restartOld", "abortRows"} => HasStopIntent(t)
    /\ a \notin AbortPlaces \cup {"rolled"} => ~Untouched(t)
    /\ a = "restoreIntent" => "changes" \in t.marks
    /\ a \in RestorePlaces => \A m \in Members : "restoreIntent" \in t.worlds[m]
    /\ a \in {"restore", "refill", "restored"} => \A m \in Members : m < k => "restored" \in t.worlds[m]
    /\ a = "restored" => content[k] = "old"
    /\ a \in {"recreate"} \cup EndPlaces \cup {"rolled"} =>
          ("changes" \in t.marks => \A m \in Members : "restored" \in t.worlds[m])
    /\ a \in EndPlaces \cup {"rolled"} => AsBefore
    /\ a \in {"unstaged", "revive", "reviveRows", "rolled"} => ~staging
    /\ a = "reviveRows" => Resting /\ \A m \in Members : IF KeepMarked(t) THEN ~Serves(m) ELSE Live(m) => runs[m] # "down"
    /\ a = "rolled" => RowsAgree

\* Where the panel is going on with a transaction, it is the one on disk that it holds.
CheckPlaces == (RunSteps \ {"succeed"}) \cup UndoPlaces \cup {"rolling"}
HoldsTxn == at \in (RunSteps \cup UndoPlaces \cup {"rolling", "publish", "republish"}) => hold = txn
Where(a, k, t) ==
    /\ a \in RunSteps \ {"succeed"} => RunPlace(a, k, t)
    /\ a \in UndoPlaces => UndoPlace(a, k, t)
    /\ a = "succeed" => t.phase = "committed"
    /\ a = "rolling" => t.phase \in (RunPhases \cup Undoing) \ Final
    /\ a = "publish" => t.phase = "rolled_back"
    /\ a = "republish" => t.phase \in Final
    /\ a = "giveup" => Describes(t)
Located == \E a \in {at}, k \in {member}, t \in {hold} : Where(a, k, t)
Failing == /\ at = "failed" => txn.phase \in RunPhases \cup {"committed"}
           /\ at = "giveup" => txn # NoTxn
GroupBooting == at = "boot" => turn \in Members

\* The inductive invariant.
GroupInv == /\ GTypes /\ Described /\ OnRecord /\ Starting /\ HoldsTxn /\ Located
            /\ Failing /\ GroupBooting /\ ~refused

-----------------------------------------------------------------------------
\* What the constants say of the members and of their order.
LEMMA GroupConstants ==
    /\ GroupSize \in Nat \ {0} /\ GroupFaults \in Nat /\ GroupStops \in Nat
    /\ 1 \in Members /\ GroupSize \in Members
    /\ \A m \in Members : m \in Nat /\ (m < GroupSize => m + 1 \in Members) /\ (m >= GroupSize => m = GroupSize)
BY GroupAssumption DEF Members

Smaller == {pair \in Nat \X Nat : pair[1] < pair[2]}

\* Every set of numbers that is not empty has a least one: the save an abort resolves first.
LEMMA LeastMember ==
    ASSUME NEW s \in SUBSET Nat, s # {}
    PROVE  \E m \in s : \A x \in s : m <= x
<1>1. IsWellFoundedOn(Smaller, Nat)  BY NatLessThanWellFounded DEF OpToRel, Smaller
<1>2. PICK m \in s : \A x \in s : ~(<<x, m>> \in Smaller)  BY <1>1, WFMin
<1>3. \A x \in s : ~(x < m)  BY <1>2 DEF Smaller
<1> QED BY <1>3

\* The fields of a transaction after a change of its phase and marks.
LEMMA SetFields ==
    ASSUME NEW t \in Txns, NEW p \in Phases, NEW x \in SUBSET GroupMarks
    PROVE  /\ Set(t, p, x) \in Txns /\ Set(t, p, x).phase = p
           /\ Set(t, p, x).marks = t.marks \cup x /\ Set(t, p, x).worlds = t.worlds
BY DEF Txns, Set

\* The same for a change of the phase alone.
LEMMA PhaseFields ==
    ASSUME NEW t \in Txns, NEW p \in Phases
    PROVE  /\ Set(t, p, {}) \in Txns /\ Set(t, p, {}).phase = p
           /\ Set(t, p, {}).marks = t.marks /\ Set(t, p, {}).worlds = t.worlds
BY DEF Txns, Set

\* u is t with one more mark of a member
MarkedAs(t, u, k, x) ==
    /\ u \in Txns /\ u.phase = t.phase /\ u.marks = t.marks
    /\ u.worlds[k] = t.worlds[k] \cup {x}
    /\ \A m \in Members : m # k => u.worlds[m] = t.worlds[m]

\* What Mark does to the fields of a transaction.
LEMMA MarkFields ==
    ASSUME NEW t \in Txns, NEW k \in Members, NEW x \in WorldMarks
    PROVE  MarkedAs(t, Mark(t, k, {x}), k, x)
BY DEF Txns, Mark, MarkedAs

\* A mark given to every world.
LEMMA MarkAllFields ==
    ASSUME NEW t \in Txns, NEW x \in SUBSET WorldMarks
    PROVE  /\ MarkAll(t, x) \in Txns /\ MarkAll(t, x).phase = t.phase /\ MarkAll(t, x).marks = t.marks
           /\ \A m \in Members : MarkAll(t, x).worlds[m] = t.worlds[m] \cup x
BY DEF Txns, MarkAll

\* The transaction there is before the first one.
LEMMA NoTxnFields ==
    /\ NoTxn \in Txns /\ NoTxn.phase = "none" /\ NoTxn.marks = {} /\ \A m \in Members : NoTxn.worlds[m] = {}
BY DEF NoTxn, Txns, Phases

\* a step that leaves the worlds alone leaves what is said of them
LEMMA SaidStays ==
    ASSUME UNCHANGED <<kind, worlds>>, NEW t
    PROVE  Describes(t)' = Describes(t) /\ Phased(t)' = Phased(t) /\ Valid(t)' = Valid(t)
<1>1. \A m \in Members : Member140(t, m)' = Member140(t, m)
  BY DEF Member140, worlds, OldImage, NewImage, Boxed
<1>2. Describes(t)' = Describes(t)  BY <1>1 DEF Describes, worlds, HasStopIntent, Original, Live
<1>3. Phased(t)' = Phased(t)
  BY DEF Phased, worlds, AsBefore, OldImage, Boxed, RowsAgree, Serves
<1>4. Valid(t)' = Valid(t)  BY DEF Valid, Live, Backed, HasStopIntent
<1> QED BY <1>2, <1>3, <1>4

\* Nor does it change what is said of the place.
LEMMA PlaceStays ==
    ASSUME UNCHANGED <<kind, worlds, turn>>, NEW a, NEW k, NEW t
    PROVE  Where(a, k, t)' = Where(a, k, t)
<1>1. RunPlace(a, k, t)' = RunPlace(a, k, t)
  <2>1. Stopping(a, k, t)' = Stopping(a, k, t)  BY DEF Stopping, worlds, Live
  <2>2. Updating(a, k, t)' = Updating(a, k, t)  BY DEF Updating, worlds, NewImage, Boxed
  <2> QED BY <2>1, <2>2 DEF RunPlace, worlds, Live, Serves, Original, Backed
<1>2. UndoPlace(a, k, t)' = UndoPlace(a, k, t)
  BY DEF UndoPlace, worlds, Untouched, HasStopIntent, AsBefore, OldImage, Boxed, Resting, Live, Serves, KeepMarked, RowsAgree
<1> QED BY <1>1, <1>2, SaidStays DEF Where

\* The invariant holds at first.
LEMMA GroupInitInv == GroupInit => GroupInv
<1> SUFFICES ASSUME GroupInit PROVE GroupInv
  OBVIOUS
<1>0. at = "start" /\ txn = NoTxn /\ hold = NoTxn /\ manifest = "none" /\ published = "none" /\ member = 1 /\ turn = 0 /\ ~refused
  BY DEF GroupInit
<1>1. GTypes
  <2>1. GroupTypeOK
    <3>1. image \in [Members -> {"none", "old", "new"}]  BY DEF GroupInit
    <3>2. runs \in [Members -> {"first", "again", "down", "died"}] /\ rows \in [Members -> {"running", "stopped"}]
      BY DEF GroupInit
    <3>3. /\ content \in [Members -> {"old", "mixed", "purged", "new"}] /\ lease \in [Members -> {"none", "torn", "held"}]
          /\ command \in [Members -> {"none", "sent", "saved", "busy", "lost"}]
      BY DEF GroupInit
    <3>4. turn \in 0..GroupSize /\ gfaults \in 0..GroupFaults /\ gstops \in 0..GroupStops
      BY GroupConstants DEF GroupInit
    <3> QED BY <1>0, <3>1, <3>2, <3>3, <3>4, GroupConstants DEF GroupTypeOK, GroupInit
  <2> QED BY <1>0, <2>1, NoTxnFields DEF GTypes, GroupPlaces, StartPlaces, Phases
<1>2. Valid(NoTxn)  BY NoTxnFields DEF Valid, HasStopIntent
<1>3. Describes(NoTxn)
  BY NoTxnFields DEF Describes, Member140, HasStopIntent, GroupInit, Original, Live, OldImage, Boxed
<1>4. Phased(NoTxn)  BY NoTxnFields DEF Phased, Final, Undoing
<1>5. OnRecord  BY <1>0, NoTxnFields DEF OnRecord, Final, GroupInit, Live
<1>6. Starting  BY <1>0 DEF Starting, FreshGroup
<1>7. HoldsTxn /\ Located /\ Failing /\ GroupBooting
  BY <1>0 DEF HoldsTxn, Located, Where, Failing, GroupBooting, RunSteps, UndoPlaces, AbortPlaces, RestorePlaces, EndPlaces
<1> QED BY <1>0, <1>1, <1>2, <1>3, <1>4, <1>5, <1>6, <1>7 DEF GroupInv, Described

\* at a checkpoint or a step on the worlds the panel holds what is on disk, and every lease
HeldFacts ==
    /\ hold = txn /\ hold \in Txns /\ txn.phase \in (RunPhases \cup Undoing) \ Final /\ txn # NoTxn
    /\ AllHeld /\ manifest \notin Final
    /\ published \notin {"succeeded", "failed_rolled_back"}
    /\ Valid(hold) /\ Describes(hold) /\ Phased(hold) /\ Where(at, member, hold)

\* What the invariant gives wherever the panel goes on with a transaction.
LEMMA HoldsDisk == GroupInv /\ at \in CheckPlaces => HeldFacts
<1> SUFFICES ASSUME GroupInv, at \in CheckPlaces PROVE HeldFacts
  OBVIOUS
<1>1. hold = txn /\ hold \in Txns  BY DEF GroupInv, HoldsTxn, CheckPlaces, GTypes
<1>2. Valid(hold) /\ Describes(hold) /\ Phased(hold) /\ Where(at, member, hold)
  BY <1>1, Zenon DEF GroupInv, Described, Located
<1>3. hold.phase \in (RunPhases \cup Undoing) \ Final
  <2>1. CASE at \in RunSteps \ {"succeed"}
    <3>1. RunPlace(at, member, hold)  BY <1>2, <2>1 DEF Where
    <3> QED BY <3>1 DEF RunPlace, RunPhases, Final
  <2>2. CASE at \in UndoPlaces
    <3>1. UndoPlace(at, member, hold)  BY <1>2, <2>2 DEF Where
    <3> QED BY <3>1 DEF UndoPlace, Undoing, Final
  <2>3. CASE at = "rolling"  BY <1>2, <2>3 DEF Where
  <2> QED BY <2>1, <2>2, <2>3 DEF CheckPlaces
<1>4. txn # NoTxn  BY <1>1, <1>3, NoTxnFields DEF RunPhases, Undoing
<1>5. AllHeld /\ manifest \notin Final  BY <1>1, <1>3, <1>4 DEF GroupInv, OnRecord
<1>6. published \notin {"succeeded", "failed_rolled_back"}
  BY <1>1, <1>3 DEF GroupInv, OnRecord, RunPhases, Undoing, Final
<1> QED BY <1>1, <1>2, <1>3, <1>4, <1>5, <1>6 DEF HeldFacts

\* Where a step that failed leads.
LEMMA TroubleLeads ==
    ASSUME Trouble PROVE at' = (IF at \in RunSteps THEN "failed" ELSE "giveup") /\ member' = member /\ turn' = turn
BY DEF Trouble

\* A checkpoint whose transaction is valid, goes on from the one on disk and says what is the case.
LEMMA CheckpointKeeps ==
    ASSUME GroupInv, at \in CheckPlaces, NEW u \in Txns, NEW k \in Members,
           NEW aim \in RunSteps \cup UndoPlaces \cup {"publish"}, Checkpoint(u, aim, k),
           hold.marks \subseteq u.marks, \A m \in Members : hold.worlds[m] \subseteq u.worlds[m],
           Valid(u), Describes(u), Phased(u), Where(aim, k, u), u.phase \notin {"none", "claim_failed"},
           at \in RunSteps => u.phase \in RunPhases \cup {"committed"}
    PROVE  GroupInv'
<1>0. HeldFacts  BY HoldsDisk
<1>1. Accepts(u)  BY <1>0 DEF Accepts, HeldFacts, AllHeld, Progress
<1>2. /\ hold' = u /\ refused' = refused
      /\ UNCHANGED <<kind, lease, worlds, published>>
      /\ txn' \in {txn, u} /\ manifest' \in {manifest, u.phase}
      /\ gfaults' \in 0..GroupFaults /\ gstops' \in 0..GroupStops
      /\ member' \in Members /\ turn' = turn
      /\ at' \in {aim, "down", IF at \in RunSteps THEN "failed" ELSE "giveup"}
  <2>1. member \in Members /\ gfaults \in 0..GroupFaults /\ gstops \in 0..GroupStops
    BY DEF GroupInv, GTypes, GroupTypeOK
  <2> QED BY <1>1, <2>1, GroupConstants DEF Checkpoint, To, Fault, Trouble
<1>3. at' = aim => txn' = u /\ member' = k /\ manifest' = u.phase
  BY <1>1 DEF Checkpoint, To, Trouble, RunSteps, UndoPlaces, AbortPlaces, RestorePlaces, EndPlaces
<1>4. manifest' # manifest => txn' = u /\ manifest' = u.phase  BY <1>1 DEF Checkpoint
<1>5. aim \in GroupPlaces /\ at' \in GroupPlaces  BY <1>2 DEF GroupPlaces
<1>6. GTypes'
  <2>1. GroupTypeOK'  BY <1>0, <1>2 DEF GroupInv, GTypes, GroupTypeOK, worlds
  <2>2. u.phase \in Phases  BY DEF Txns
  <2> QED BY <1>2, <1>5, <2>1, <2>2 DEF GroupInv, GTypes
<1>7. Described'
  <2>1. PICK t \in Txns : t = txn  BY DEF GroupInv, GTypes
  <2>2. Valid(t)' /\ Describes(t)' /\ Phased(t)' /\ Valid(u)' /\ Describes(u)' /\ Phased(u)'
    BY <1>0, <1>2, <2>1, SaidStays DEF HeldFacts
  <2> QED BY <1>2, <2>1, <2>2 DEF Described
<1>8. OnRecord'
  <2>0. u # NoTxn  BY NoTxnFields
  <2>1. txn' # NoTxn /\ txn'.phase \notin {"none", "claim_failed"}
    BY <1>0, <1>2, <2>0 DEF HeldFacts, RunPhases, Undoing, Final
  <2>2. manifest' \in Final => txn'.phase = manifest'  BY <1>0, <1>2, <1>4 DEF HeldFacts
  <2>3. AllHeld'  BY <1>0, <1>2 DEF AllHeld, HeldFacts
  <2>4. manifest' # "none"
    BY <1>0, <1>2, GroupConstants DEF HeldFacts, AllHeld, GroupInv, OnRecord
  <2>5. \A m \in Members : runs'[m] = "first" => Live(m)'
    BY <1>2 DEF GroupInv, OnRecord, worlds, Live
  <2>6. published' \notin {"succeeded", "failed_rolled_back"}  BY <1>0, <1>2 DEF HeldFacts
  <2> QED BY <2>1, <2>2, <2>3, <2>4, <2>5, <2>6 DEF OnRecord
<1>9. Located'
  <2>1. PICK a : a = at'  OBVIOUS
  <2>2. Where(a, k, u)' = Where(a, k, u)  BY <1>2, PlaceStays
  <2>3. CASE a = aim  BY <1>2, <1>3, <2>1, <2>2, <2>3 DEF Located
  <2>4. CASE a # aim
    <3>1. PICK n : n = member'  OBVIOUS
    <3>2. Where(a, n, u)
      BY <1>2, <2>1, <2>4 DEF Where, RunSteps, UndoPlaces, AbortPlaces, RestorePlaces, EndPlaces
    <3>3. Where(a, n, u)'  BY <1>2, <3>2, PlaceStays
    <3> QED BY <1>2, <2>1, <3>1, <3>3 DEF Located
  <2> QED BY <2>3, <2>4
<1>10. HoldsTxn'
  BY <1>2, <1>3 DEF HoldsTxn, RunSteps, UndoPlaces, AbortPlaces, RestorePlaces, EndPlaces
<1>11. Starting'
  BY <1>2 DEF Starting, RunSteps, UndoPlaces, AbortPlaces, RestorePlaces, EndPlaces
<1>12. Failing' /\ GroupBooting'
  <2>1. at' = "failed" => at \in RunSteps
    BY <1>2 DEF RunSteps, UndoPlaces, AbortPlaces, RestorePlaces, EndPlaces
  <2>2. at \in RunSteps => txn.phase \in RunPhases
    <3>1. ASSUME at \in RunSteps PROVE RunPlace(at, member, hold)
      BY <1>0, <3>1 DEF HeldFacts, Where, CheckPlaces, UndoPlaces, AbortPlaces, RestorePlaces, EndPlaces, RunSteps
    <3> QED BY <1>0, <3>1 DEF RunPlace, HeldFacts
  <2>3. txn' # NoTxn  BY <1>0, <1>2, NoTxnFields DEF HeldFacts
  <2>4. Failing'  BY <1>2, <2>1, <2>2, <2>3 DEF Failing
  <2> QED BY <1>2, <2>4 DEF GroupBooting, RunSteps, UndoPlaces, AbortPlaces, RestorePlaces, EndPlaces
<1> QED BY <1>2, <1>6, <1>7, <1>8, <1>9, <1>10, <1>11, <1>12 DEF GroupInv

\* A step on the worlds, whole or half done: what the transaction says stays the case, and the
\* step leads to the next one or to the end of the run or of the rollback.
WorldTypes ==
    /\ image \in [Members -> {"none", "old", "new"}]
    /\ runs \in [Members -> {"first", "again", "down", "died"}]
    /\ content \in [Members -> {"old", "mixed", "purged", "new"}]
    /\ command \in [Members -> {"none", "sent", "saved", "busy", "lost"}]
    /\ rows \in [Members -> {"running", "stopped"}]
    /\ staging \in BOOLEAN
FirstAreLive == \A m \in Members : runs[m] = "first" => Live(m)

\* A step on the worlds keeps the invariant when what the transaction says stays true.
LEMMA WorldKeeps ==
    ASSUME GroupInv, at \in CheckPlaces, UNCHANGED <<kind, owners, published, gstops, refused>>,
           WorldTypes', FirstAreLive', gfaults' \in 0..GroupFaults,
           NEW t \in Txns, t = hold, Describes(t)', Phased(t)',
           NEW k \in Members, NEW aim \in (RunSteps \ {"succeed"}) \cup UndoPlaces,
           Trouble \/ (To(aim, k) /\ Where(aim, k, t)')
    PROVE  GroupInv'
<1>0. HeldFacts  BY HoldsDisk
<1>1. hold' = t /\ txn' = t /\ txn = t /\ manifest' = manifest /\ lease' = lease /\ kind' = kind
      /\ published' = published /\ refused' = refused
  BY <1>0 DEF owners, HeldFacts
<1>2. turn' = turn /\ at' \in {aim, IF at \in RunSteps THEN "failed" ELSE "giveup"} /\ member' \in Members
  BY DEF Trouble, To, GroupInv, GTypes, GroupTypeOK
<1>3. GTypes'
  <2>1. GroupTypeOK'  BY <1>1, <1>2 DEF GroupTypeOK, WorldTypes, GroupInv, GTypes
  <2>2. at' \in GroupPlaces  BY <1>2 DEF GroupPlaces
  <2> QED BY <1>1, <2>1, <2>2 DEF GTypes, GroupInv
<1>4. Described'
  <2>1. Valid(t)'  BY <1>0, <1>1 DEF HeldFacts, Valid, Live, HasStopIntent, Backed
  <2> QED BY <1>1, <2>1 DEF Described
<1>5. OnRecord'  BY <1>0, <1>1 DEF GroupInv, OnRecord, HeldFacts, AllHeld, FirstAreLive
<1>6. HoldsTxn'  BY <1>1 DEF HoldsTxn
<1>7. Starting'
  BY <1>2 DEF Starting, RunSteps, UndoPlaces, AbortPlaces, RestorePlaces, EndPlaces
<1>8. Failing' /\ GroupBooting'
  <2>1. at' = "failed" => at \in RunSteps
    BY <1>2 DEF RunSteps, UndoPlaces, AbortPlaces, RestorePlaces, EndPlaces
  <2>2. at \in RunSteps => txn.phase \in RunPhases
    <3>1. ASSUME at \in RunSteps PROVE RunPlace(at, member, hold)
      BY <1>0, <3>1 DEF HeldFacts, Where, CheckPlaces, UndoPlaces, AbortPlaces, RestorePlaces, EndPlaces, RunSteps
    <3> QED BY <1>0, <3>1 DEF RunPlace, HeldFacts
  <2>3. txn' # NoTxn  BY <1>0, <1>1, NoTxnFields DEF HeldFacts
  <2>4. Failing'  BY <1>1, <1>2, <2>1, <2>2, <2>3 DEF Failing
  <2> QED BY <1>2, <2>4 DEF GroupBooting, RunSteps, UndoPlaces, AbortPlaces, RestorePlaces, EndPlaces
<1>9. Located'
  <2>1. PICK a, n : a = at' /\ n = member'  OBVIOUS
  <2>2. Where(a, n, t)'
    <3>1. CASE To(aim, k) /\ Where(aim, k, t)'  BY <2>1, <3>1 DEF To
    <3>2. CASE Trouble
      BY <2>1, <3>2 DEF Trouble, Where, RunSteps, UndoPlaces, AbortPlaces, RestorePlaces, EndPlaces
    <3> QED BY <3>1, <3>2
  <2> QED BY <1>1, <2>1, <2>2 DEF Located
<1> QED BY <1>1, <1>3, <1>4, <1>5, <1>6, <1>7, <1>8, <1>9 DEF GroupInv

\* A step that only moves the panel on.
LEMMA PassKeeps ==
    ASSUME GroupInv, at \in CheckPlaces, NEW k \in Members, NEW aim \in (RunSteps \ {"succeed"}) \cup UndoPlaces,
           UNCHANGED <<kind, owners, worlds, published, gfaults, gstops, refused>>,
           Trouble \/ (To(aim, k) /\ Where(aim, k, hold))
    PROVE  GroupInv'
<1>1. HeldFacts  BY HoldsDisk
<1>2. PICK t \in Txns : t = hold  BY <1>1 DEF HeldFacts
<1>3. Describes(t)' /\ Phased(t)'  BY <1>1, <1>2, SaidStays DEF HeldFacts
<1>4. WorldTypes' /\ FirstAreLive' /\ gfaults' \in 0..GroupFaults
  BY DEF GroupInv, GTypes, GroupTypeOK, WorldTypes, FirstAreLive, OnRecord, worlds, Live
<1>5. turn' = turn  BY DEF Trouble, To
<1>6. Trouble \/ (To(aim, k) /\ Where(aim, k, t)')  BY <1>2, <1>5, PlaceStays
<1> QED BY <1>2, <1>3, <1>4, <1>6, WorldKeeps

\* what a transaction says when it says more
LEMMA SaysMore ==
    ASSUME NEW t \in Txns, NEW u \in Txns, Describes(t), t.marks \subseteq u.marks,
           \A m \in Members : t.worlds[m] \subseteq u.worlds[m],
           "stageRemoved" \in u.marks => "stageRemoved" \in t.marks \/ ~staging,
           \A m \in Members :
              /\ "saved" \in u.worlds[m] => "saved" \in t.worlds[m] \/ command[m] = "saved"
              /\ "restored" \in u.worlds[m] => "restored" \in t.worlds[m] \/ content[m] = "old"
              /\ "updated" \in u.worlds[m] => \/ "updated" \in t.worlds[m] \/ "restoreIntent" \in u.worlds[m]
                                              \/ content[m] = "new" /\ image[m] = NewImage(m)
    PROVE  Describes(u)
<1>1. \A m \in Members : Member140(u, m)  BY DEF Describes, Member140
<1>2. "stageIntent" \notin u.marks \/ "stageRemoved" \in u.marks => ~staging  BY DEF Describes
<1>3. HasStopIntent(t) => HasStopIntent(u)  BY DEF HasStopIntent
<1> QED BY <1>1, <1>2, <1>3 DEF Describes

RunFacts ==
    /\ HeldFacts /\ RunPlace(at, member, hold) /\ member \in Members
    /\ \A m \in Members : "restoreIntent" \notin hold.worlds[m] /\ "restored" \notin hold.worlds[m]
    /\ "stageRemoved" \notin hold.marks /\ "keep" \notin hold.marks
    /\ "stageCreated" \in hold.marks => staging
    /\ hold.phase \in RunPhases

\* The same on the way forward, where nothing is undone yet.
LEMMA RunHolds == GroupInv /\ at \in RunSteps \ {"succeed"} => RunFacts
<1> SUFFICES ASSUME GroupInv, at \in RunSteps \ {"succeed"} PROVE RunFacts
  OBVIOUS
<1>1. HeldFacts  BY HoldsDisk DEF CheckPlaces
<1>2. RunPlace(at, member, hold)  BY <1>1 DEF HeldFacts, Where
<1>3. hold.phase \in RunPhases /\ hold.phase \notin Undoing
  BY <1>2 DEF RunPlace, RunPhases, Undoing
<1>4. member \in Members  BY DEF GroupInv, GTypes, GroupTypeOK
<1>5. \A m \in Members : "restoreIntent" \notin hold.worlds[m] /\ "restored" \notin hold.worlds[m]
  BY <1>1, <1>3 DEF HeldFacts, Phased, Valid
<1>6. "stageRemoved" \notin hold.marks /\ "keep" \notin hold.marks
  BY <1>1, <1>3 DEF HeldFacts, Valid
<1>7. "stageCreated" \in hold.marks => staging  BY <1>1, <1>3 DEF HeldFacts, Phased
<1> QED BY <1>1, <1>2, <1>3, <1>4, <1>5, <1>6, <1>7 DEF RunFacts

\* A checkpoint of the run.
LEMMA RunCheck ==
    ASSUME GroupInv, at \in RunSteps \ {"succeed"}, NEW u \in Txns, NEW k \in Members, NEW aim \in RunSteps \ {"succeed"},
           Checkpoint(u, aim, k), u.phase \in RunPhases,
           hold.marks \subseteq u.marks, \A m \in Members : hold.worlds[m] \subseteq u.worlds[m],
           Valid(u), RunPlace(aim, k, u), "stageCreated" \in u.marks => staging,
           \A m \in Members :
              /\ u.worlds[m] \cap {"restoreIntent", "restored"} = {}
              /\ "saved" \in u.worlds[m] => "saved" \in hold.worlds[m] \/ command[m] = "saved"
              /\ "updated" \in u.worlds[m] => \/ "updated" \in hold.worlds[m]
                                              \/ content[m] = "new" /\ image[m] = NewImage(m)
    PROVE  GroupInv'
<1>1. RunFacts  BY RunHolds
<1>2. u.phase \notin Undoing /\ u.phase \notin Final /\ u.phase \notin {"none", "claim_failed", "rolled_back"}
  BY DEF RunPhases, Undoing, Final
<1>3. Describes(u)
  <2>1. PICK t \in Txns : t = hold  BY <1>1 DEF RunFacts, HeldFacts
  <2>2. "stageRemoved" \notin u.marks  BY <1>2 DEF Valid
  <2>3. Describes(t)  BY <1>1, <2>1 DEF RunFacts, HeldFacts
  <2> QED BY <2>1, <2>2, <2>3, SaysMore
<1>4. Phased(u)  BY <1>2 DEF Phased
<1>5. Where(aim, k, u)
  BY DEF Where, RunSteps, UndoPlaces, AbortPlaces, RestorePlaces, EndPlaces
<1> QED BY <1>2, <1>3, <1>4, <1>5, CheckpointKeeps DEF CheckPlaces

\* what lets a mark be set
MayMark(t, k, x) ==
    /\ x = "saveIntent" => Live(k)
    /\ x = "saved" => "saveIntent" \in t.worlds[k]
    /\ x = "stopIntent" /\ Live(k) => "saved" \in t.worlds[k]
    /\ x = "stopped" => "stopIntent" \in t.worlds[k]
    /\ x \in {"updateIntent", "restoreIntent"} => "changes" \in t.marks /\ Backed(t, k)
    /\ x = "updated" => "updateIntent" \in t.worlds[k]
    /\ x = "restored" => "restoreIntent" \in t.worlds[k]

\* One more mark of a world leaves the transaction valid when its order is kept.
LEMMA MarkValid ==
    ASSUME NEW t \in Txns, NEW u, NEW k \in Members, NEW x \in WorldMarks, MarkedAs(t, u, k, x),
           Valid(t), MayMark(t, k, x), t.phase \notin Final
    PROVE  Valid(u) /\ \A m \in Members : t.worlds[m] \subseteq u.worlds[m]
<1>1. \A m \in Members : t.worlds[m] \subseteq u.worlds[m] /\ (Backed(t, m) => Backed(u, m))
  BY DEF MarkedAs, Backed
<1>2. u.phase = t.phase /\ u.marks = t.marks /\ (HasStopIntent(t) => HasStopIntent(u))
  BY <1>1 DEF MarkedAs, HasStopIntent
<1>3. ASSUME NEW m \in Members, m # k PROVE u.worlds[m] = t.worlds[m]
  BY <1>3 DEF MarkedAs
<1> DEFINE Whole(s, m) ==
          /\ "saveIntent" \in s.worlds[m] => Live(m)
          /\ "saved" \in s.worlds[m] => "saveIntent" \in s.worlds[m]
          /\ "stopped" \in s.worlds[m] => "stopIntent" \in s.worlds[m]
          /\ "updated" \in s.worlds[m] => "updateIntent" \in s.worlds[m]
          /\ "restored" \in s.worlds[m] => "restoreIntent" \in s.worlds[m]
          /\ "stopIntent" \in s.worlds[m] /\ Live(m) => "saved" \in s.worlds[m]
          /\ s.worlds[m] \cap {"updateIntent", "restoreIntent"} # {} => "changes" \in s.marks /\ Backed(s, m)
<1>4. \A m \in Members : Whole(t, m)  BY DEF Valid
<1>5. Whole(u, k)
  <2>1. Whole(t, k) /\ u.worlds[k] = t.worlds[k] \cup {x}  BY <1>4 DEF MarkedAs
  <2>2. Backed(t, k) => Backed(u, k)  BY <1>1
  <2> QED BY <1>2, <2>1, <2>2 DEF MayMark
<1>6. \A m \in Members : Whole(u, m)
  <2>1. ASSUME NEW m \in Members, m # k PROVE Whole(u, m)
    BY <1>1, <1>2, <1>3, <1>4, <2>1
  <2> QED BY <1>5, <2>1
<1>7. Valid(u)  BY <1>1, <1>2, <1>6 DEF Valid, Final
<1> QED BY <1>1, <1>7

\* A checkpoint of the run that gives one world one mark.
LEMMA MarkCheck ==
    ASSUME GroupInv, at \in RunSteps \ {"succeed"}, NEW x \in WorldMarks \ {"restoreIntent", "restored"},
           NEW u, MarkedAs(hold, u, member, x), MayMark(hold, member, x),
           x = "saved" => command[member] = "saved",
           x = "updated" => content[member] = "new" /\ image[member] = NewImage(member),
           NEW k \in Members, NEW aim \in RunSteps \ {"succeed"}, Checkpoint(u, aim, k), RunPlace(aim, k, u)
    PROVE  GroupInv'
<1>1. RunFacts /\ hold \in Txns /\ member \in Members /\ Valid(hold) /\ hold.phase \in RunPhases
  BY RunHolds DEF RunFacts, HeldFacts
<1>2. PICK t \in Txns, n \in Members : t = hold /\ n = member  BY <1>1
<1>3. Valid(u) /\ \A m \in Members : t.worlds[m] \subseteq u.worlds[m]
  BY <1>1, <1>2, MarkValid DEF RunPhases, Final
<1>4. u \in Txns /\ u.phase \in RunPhases /\ u.marks = hold.marks  BY <1>1 DEF MarkedAs
<1>5. ASSUME NEW m \in Members
      PROVE  /\ u.worlds[m] \cap {"restoreIntent", "restored"} = {}
             /\ "saved" \in u.worlds[m] => "saved" \in hold.worlds[m] \/ command[m] = "saved"
             /\ "updated" \in u.worlds[m] => \/ "updated" \in hold.worlds[m]
                                             \/ content[m] = "new" /\ image[m] = NewImage(m)
  <2>1. "restoreIntent" \notin hold.worlds[m] /\ "restored" \notin hold.worlds[m]
    BY <1>1 DEF RunFacts
  <2>2. CASE m = member  BY <2>1, <2>2 DEF MarkedAs
  <2>3. CASE m # member  BY <2>1, <2>3 DEF MarkedAs
  <2> QED BY <2>2, <2>3
<1>6. "stageCreated" \in hold.marks => staging  BY <1>1 DEF RunFacts
<1> QED BY <1>2, <1>3, <1>4, <1>5, <1>6, RunCheck

RunMarks == \/ Quiesce \/ SaveIntent \/ Saved \/ StopIntent \/ Stopped \/ (Quiet /\ \A m \in Members : ~Serves(m)) \/ Archive
            \/ StageIntent \/ StageCreated \/ StageReady \/ ChangesStarted \/ UpdateIntent \/ Updated \/ RestoringState

\* The checkpoints of the run but the last one, each from its own place.
LEMMA RunMarksKeep == GroupInv /\ RunMarks => GroupInv'
<1> SUFFICES ASSUME GroupInv, RunMarks PROVE GroupInv'
  OBVIOUS
<1>0. at \in RunSteps \ {"succeed"}
  BY DEF RunMarks, Quiesce, SaveIntent, Saved, StopIntent, Stopped, Quiet, Archive, StageIntent, StageCreated, StageReady,
     ChangesStarted, UpdateIntent, Updated, RestoringState, RunSteps
<1>1. RunFacts /\ hold \in Txns  BY <1>0, RunHolds DEF RunFacts, HeldFacts
<1>2. /\ member \in Members /\ hold.marks \subseteq GroupMarks /\ hold.phase \in RunPhases /\ hold.phase \in Phases
      /\ \A m \in Members : hold.worlds[m] \subseteq WorldMarks
  BY <1>1 DEF RunFacts, Txns
<1>3. Valid(hold) /\ RunPlace(at, member, hold)  BY <1>1 DEF RunFacts, HeldFacts
<1>4. \A m \in Members : hold.worlds[m] \cap {"restoreIntent", "restored"} = {}
  BY <1>1 DEF RunFacts
<1>5. "stageCreated" \in hold.marks => staging  BY <1>1 DEF RunFacts
<1>6. hold.phase \notin Undoing \cup Final  BY <1>2 DEF RunPhases, Undoing, Final
<1>q. CASE Quiesce
  <2>1. PICK u : u = Set(hold, "quiescing", {})  OBVIOUS
  <2>2. u \in Txns /\ u.phase = "quiescing" /\ u.marks = hold.marks /\ u.worlds = hold.worlds
    BY <1>1, <2>1, PhaseFields DEF Phases, RunPhases
  <2>3. Valid(u)  BY <1>3, <1>6, <2>2 DEF Valid, HasStopIntent, Backed, Undoing, Final
  <2>4. at = "quiesce" /\ Checkpoint(u, "announce", 1)  BY <1>q, <2>1 DEF Quiesce
  <2>5. RunPlace("announce", 1, u)
    BY <1>3, <2>2, <2>4 DEF RunPlace, RunPhases, StopPlaces, UpdatePlaces
  <2> QED BY <1>0, <1>4, <1>5, <2>2, <2>3, <2>4, <2>5, RunCheck, GroupConstants DEF RunSteps, RunPhases
<1>i. CASE SaveIntent
  <2>1. PICK u : u = Mark(hold, member, {"saveIntent"})  OBVIOUS
  <2>2. MarkedAs(hold, u, member, "saveIntent")  BY <1>1, <1>2, <2>1, MarkFields DEF WorldMarks
  <2>f. /\ u.phase = hold.phase /\ u.marks = hold.marks /\ u.worlds[member] = hold.worlds[member] \cup {"saveIntent"}
        /\ \A m \in Members : m # member => u.worlds[m] = hold.worlds[m]
    BY <2>2 DEF MarkedAs
  <2>4. at = "member" /\ Live(member) /\ Checkpoint(u, "send", member)
    BY <1>i, <2>1 DEF SaveIntent
  <2>5. Stopping("member", member, hold)  BY <1>3, <2>4 DEF RunPlace, StopPlaces
  <2>6. Stopping("send", member, u)  BY <1>2, <2>f, <2>5, GroupConstants DEF Stopping
  <2>3. MayMark(hold, member, "saveIntent")
    BY <1>2, <1>3, <2>4, <2>5 DEF MayMark, Valid, Stopping, Updating, Backed
  <2>7. RunPlace("send", member, u)
    BY <1>2, <1>3, <2>f, <2>4, <2>6 DEF RunPlace, RunPhases, StopPlaces, UpdatePlaces
  <2>8. "send" \in RunSteps \ {"succeed"}  BY DEF RunSteps
  <2> QED BY <1>0, <1>2, <2>2, <2>3, <2>4, <2>7, <2>8, MarkCheck DEF WorldMarks
<1>s. CASE Saved
  <2>1. PICK u : u = Mark(hold, member, {"saved"})  OBVIOUS
  <2>2. MarkedAs(hold, u, member, "saved")  BY <1>1, <1>2, <2>1, MarkFields DEF WorldMarks
  <2>f. /\ u.phase = hold.phase /\ u.marks = hold.marks /\ u.worlds[member] = hold.worlds[member] \cup {"saved"}
        /\ \A m \in Members : m # member => u.worlds[m] = hold.worlds[m]
    BY <2>2 DEF MarkedAs
  <2>4. at = "saved" /\ Checkpoint(u, "stopIntent", member)  BY <1>s, <2>1 DEF Saved
  <2>5. Stopping("saved", member, hold)  BY <1>3, <2>4 DEF RunPlace, StopPlaces
  <2>6. Stopping("stopIntent", member, u) /\ command[member] = "saved"
    BY <1>2, <2>f, <2>5, GroupConstants DEF Stopping
  <2>3. MayMark(hold, member, "saved")
    BY <1>2, <1>3, <2>4, <2>5 DEF MayMark, Valid, Stopping, Updating, Backed
  <2>7. RunPlace("stopIntent", member, u)
    BY <1>2, <1>3, <2>f, <2>4, <2>6 DEF RunPlace, RunPhases, StopPlaces, UpdatePlaces
  <2>8. "stopIntent" \in RunSteps \ {"succeed"}  BY DEF RunSteps
  <2> QED BY <1>0, <1>2, <2>2, <2>3, <2>4, <2>6, <2>7, <2>8, MarkCheck DEF WorldMarks
<1>p. CASE StopIntent
  <2>1. PICK u : u = Mark(hold, member, {"stopIntent"})  OBVIOUS
  <2>2. MarkedAs(hold, u, member, "stopIntent")  BY <1>1, <1>2, <2>1, MarkFields DEF WorldMarks
  <2>f. /\ u.phase = hold.phase /\ u.marks = hold.marks /\ u.worlds[member] = hold.worlds[member] \cup {"stopIntent"}
        /\ \A m \in Members : m # member => u.worlds[m] = hold.worlds[m]
    BY <2>2 DEF MarkedAs
  <2>4. at = "stopIntent" /\ Checkpoint(u, "stop", member)  BY <1>p, <2>1 DEF StopIntent
  <2>5. Stopping("stopIntent", member, hold)  BY <1>3, <2>4 DEF RunPlace, StopPlaces
  <2>6. Stopping("stop", member, u)  BY <1>2, <2>f, <2>5, GroupConstants DEF Stopping
  <2>3. MayMark(hold, member, "stopIntent")
    BY <1>2, <1>3, <2>4, <2>5 DEF MayMark, Valid, Stopping, Updating, Backed
  <2>7. RunPlace("stop", member, u)
    BY <1>2, <1>3, <2>f, <2>4, <2>6 DEF RunPlace, RunPhases, StopPlaces, UpdatePlaces
  <2>8. "stop" \in RunSteps \ {"succeed"}  BY DEF RunSteps
  <2> QED BY <1>0, <1>2, <2>2, <2>3, <2>4, <2>7, <2>8, MarkCheck DEF WorldMarks
<1>t. CASE Stopped
  <2>1. PICK u : u = Mark(hold, member, {"stopped"})  OBVIOUS
  <2>2. MarkedAs(hold, u, member, "stopped")  BY <1>1, <1>2, <2>1, MarkFields DEF WorldMarks
  <2>f. /\ u.phase = hold.phase /\ u.marks = hold.marks /\ u.worlds[member] = hold.worlds[member] \cup {"stopped"}
        /\ \A m \in Members : m # member => u.worlds[m] = hold.worlds[m]
    BY <2>2 DEF MarkedAs
  <2>4. at = "stopped" /\ IF member < GroupSize THEN Checkpoint(u, "member", member + 1) ELSE Checkpoint(u, "quiet", 1)
    BY <1>t, <2>1 DEF Stopped
  <2>5. Stopping("stopped", member, hold)  BY <1>3, <2>4 DEF RunPlace, StopPlaces
  <2>3. MayMark(hold, member, "stopped")
    BY <1>2, <1>3, <2>4, <2>5 DEF MayMark, Valid, Stopping, Updating, Backed
  <2>6. CASE member < GroupSize
    <3>0. PICK k \in Members : k = member + 1  BY <1>2, <2>6, GroupConstants
    <3>a. /\ \A m \in Members : (m < k <=> m < member \/ m = member) /\ (m > k => m > member /\ m # member)
          /\ k > member /\ k # member
      BY <1>2, <3>0, GroupConstants
    <3>1. Stopping("member", k, u)  BY <1>2, <2>f, <2>5, <3>a DEF Stopping
    <3>2. RunPlace("member", k, u)
      BY <1>2, <1>3, <2>f, <2>4, <3>1 DEF RunPlace, RunPhases, StopPlaces, UpdatePlaces
    <3>3. "member" \in RunSteps \ {"succeed"} /\ Checkpoint(u, "member", k)
      BY <2>4, <2>6, <3>0 DEF RunSteps
    <3> QED BY <1>0, <2>2, <2>3, <3>2, <3>3, MarkCheck DEF WorldMarks
  <2>7. CASE ~(member < GroupSize)
    <3>a. \A m \in Members : m < member \/ m = member  BY <1>2, <2>7, GroupConstants DEF Members
    <3>1. \A m \in Members : "stopIntent" \in u.worlds[m]
      BY <1>2, <2>f, <2>5, <3>a DEF Stopping
    <3>2. RunPlace("quiet", 1, u)
      BY <1>2, <1>3, <2>f, <2>4, <2>5, <3>1 DEF RunPlace, RunPhases, StopPlaces, UpdatePlaces, Stopping
    <3>3. "quiet" \in RunSteps \ {"succeed"} /\ 1 \in Members /\ Checkpoint(u, "quiet", 1)
      BY <2>4, <2>7, GroupConstants DEF RunSteps
    <3> QED BY <1>0, <2>2, <2>3, <3>2, <3>3, MarkCheck DEF WorldMarks
  <2> QED BY <2>6, <2>7
<1>u. CASE Quiet /\ \A m \in Members : ~Serves(m)
  <2>1. PICK v, u : v = Set(hold, "backing_up", {}) /\ u = MarkAll(v, {"stopped"})  OBVIOUS
  <2>2. v \in Txns /\ v.phase = "backing_up" /\ v.marks = hold.marks /\ v.worlds = hold.worlds
    BY <1>1, <2>1, PhaseFields DEF Phases, RunPhases
  <2>3. /\ u \in Txns /\ u.phase = "backing_up" /\ u.marks = hold.marks
        /\ \A m \in Members : u.worlds[m] = hold.worlds[m] \cup {"stopped"}
    BY <2>1, <2>2, MarkAllFields DEF WorldMarks
  <2>4. at = "quiet" /\ Checkpoint(u, "archive", 1)  BY <1>u, <2>1 DEF Quiet
  <2>5. hold.marks = {} /\ \A m \in Members : "stopIntent" \in hold.worlds[m]
    BY <1>3, <2>4 DEF RunPlace
  <2>6. Valid(u)  BY <1>3, <2>3, <2>5 DEF Valid, HasStopIntent, Backed
  <2>7. RunPlace("archive", 1, u)
    BY <1>3, <2>3, <2>4, <2>5, GroupConstants DEF RunPlace, RunPhases, StopPlaces, UpdatePlaces, Members
  <2>8. "archive" \in RunSteps \ {"succeed"} /\ "backing_up" \in RunPhases
    BY DEF RunSteps, RunPhases
  <2> QED BY <1>0, <1>4, <1>5, <2>3, <2>4, <2>6, <2>7, <2>8, RunCheck, GroupConstants
<1>a. CASE Archive
  <2>1. PICK u : u = Mark(hold, member, {"archived"})  OBVIOUS
  <2>2. MarkedAs(hold, u, member, "archived")  BY <1>1, <1>2, <2>1, MarkFields DEF WorldMarks
  <2>f. /\ u.phase = hold.phase /\ u.marks = hold.marks /\ u.worlds[member] = hold.worlds[member] \cup {"archived"}
        /\ \A m \in Members : m # member => u.worlds[m] = hold.worlds[m]
    BY <2>2 DEF MarkedAs
  <2>4. at = "archive" /\ IF member < GroupSize THEN Checkpoint(u, "archive", member + 1) ELSE Checkpoint(u, "stage", 1)
    BY <1>a, <2>1 DEF Archive
  <2>5. hold.marks = {} /\ \A m \in Members : "stopped" \in hold.worlds[m] /\ (m < member => "archived" \in hold.worlds[m])
    BY <1>3, <2>4 DEF RunPlace
  <2>3. MayMark(hold, member, "archived")
    BY <1>2, <1>3, <2>4, <2>5 DEF MayMark, Valid, Stopping, Updating, Backed
  <2>6. CASE member < GroupSize
    <3>0. PICK k \in Members : k = member + 1  BY <1>2, <2>6, GroupConstants
    <3>a. /\ \A m \in Members : (m < k <=> m < member \/ m = member) /\ (m > k => m > member /\ m # member)
          /\ k > member /\ k # member
      BY <1>2, <3>0, GroupConstants
    <3>1. \A m \in Members : "stopped" \in u.worlds[m] /\ (m < k => "archived" \in u.worlds[m])
      BY <1>2, <2>f, <2>5, <3>a
    <3>2. RunPlace("archive", k, u)
      BY <1>2, <1>3, <2>f, <2>4, <2>5, <3>1 DEF RunPlace, RunPhases, StopPlaces, UpdatePlaces
    <3>3. "archive" \in RunSteps \ {"succeed"} /\ Checkpoint(u, "archive", k)
      BY <2>4, <2>6, <3>0 DEF RunSteps
    <3> QED BY <1>0, <2>2, <2>3, <3>2, <3>3, MarkCheck DEF WorldMarks
  <2>7. CASE ~(member < GroupSize)
    <3>a. \A m \in Members : m < member \/ m = member  BY <1>2, <2>7, GroupConstants DEF Members
    <3>1. \A m \in Members : Backed(u, m)  BY <1>2, <2>f, <2>5, <3>a DEF Backed
    <3>2. RunPlace("stage", 1, u)
      BY <1>2, <1>3, <2>f, <2>4, <2>5, <3>1 DEF RunPlace, RunPhases, StopPlaces, UpdatePlaces
    <3>3. "stage" \in RunSteps \ {"succeed"} /\ 1 \in Members /\ Checkpoint(u, "stage", 1)
      BY <2>4, <2>7, GroupConstants DEF RunSteps
    <3> QED BY <1>0, <2>2, <2>3, <3>2, <3>3, MarkCheck DEF WorldMarks
  <2> QED BY <2>6, <2>7
<1>g. CASE StageIntent
  <2>1. PICK u : u = Set(hold, "preparing_game", {"stageIntent"})  OBVIOUS
  <2>2. u \in Txns /\ u.phase = "preparing_game" /\ u.marks = hold.marks \cup {"stageIntent"} /\ u.worlds = hold.worlds
    BY <1>1, <2>1, SetFields DEF Phases, RunPhases, GroupMarks
  <2>4. at = "stage" /\ Checkpoint(u, "create", 1)  BY <1>g, <2>1 DEF StageIntent
  <2>5. hold.marks = {} /\ \A m \in Members : Backed(hold, m)  BY <1>3, <2>4 DEF RunPlace
  <2>3. Valid(u)  BY <1>3, <2>2, <2>5 DEF Valid, HasStopIntent, Backed
  <2>6. RunPlace("create", 1, u)
    BY <1>3, <2>2, <2>4, <2>5 DEF RunPlace, RunPhases, StopPlaces, UpdatePlaces
  <2>7. "create" \in RunSteps \ {"succeed"} /\ "preparing_game" \in RunPhases
    BY DEF RunSteps, RunPhases
  <2> QED BY <1>0, <1>4, <1>5, <2>2, <2>3, <2>4, <2>6, <2>7, RunCheck, GroupConstants
<1>c. CASE StageCreated
  <2>1. PICK u : u = Set(hold, "preparing_game", {"stageCreated"})  OBVIOUS
  <2>0. "preparing_game" \in Phases /\ {"stageCreated"} \in SUBSET GroupMarks
    BY DEF Phases, RunPhases, GroupMarks
  <2>2. u \in Txns /\ u.phase = "preparing_game" /\ u.marks = hold.marks \cup {"stageCreated"} /\ u.worlds = hold.worlds
    BY <1>1, <2>0, <2>1, SetFields
  <2>4. at = "created" /\ Checkpoint(u, "prepared", 1)  BY <1>c, <2>1 DEF StageCreated
  <2>5. hold.marks = {"stageIntent"} /\ staging  BY <1>3, <2>4 DEF RunPlace
  <2>3. Valid(u)  BY <1>3, <2>2, <2>5 DEF Valid, HasStopIntent, Backed
  <2>6. RunPlace("prepared", 1, u)
    BY <1>3, <2>2, <2>4, <2>5 DEF RunPlace, RunPhases, StopPlaces, UpdatePlaces
  <2>7. "prepared" \in RunSteps \ {"succeed"} /\ "preparing_game" \in RunPhases
    BY DEF RunSteps, RunPhases
  <2> QED BY <1>0, <1>4, <2>2, <2>3, <2>4, <2>5, <2>6, <2>7, RunCheck, GroupConstants
<1>r. CASE StageReady
  <2>1. PICK u : u = Set(hold, "preparing_game", {"stageReady"})  OBVIOUS
  <2>2. u \in Txns /\ u.phase = "preparing_game" /\ u.marks = hold.marks \cup {"stageReady"} /\ u.worlds = hold.worlds
    BY <1>1, <2>1, SetFields DEF Phases, RunPhases, GroupMarks
  <2>4. at = "prepared" /\ Checkpoint(u, "change", 1)  BY <1>r, <2>1 DEF StageReady
  <2>5. hold.marks = {"stageIntent", "stageCreated"}  BY <1>3, <2>4 DEF RunPlace
  <2>3. Valid(u)  BY <1>3, <2>2, <2>5 DEF Valid, HasStopIntent, Backed
  <2>6. RunPlace("change", 1, u)
    BY <1>3, <2>2, <2>4, <2>5 DEF RunPlace, RunPhases, StopPlaces, UpdatePlaces
  <2>7. "change" \in RunSteps \ {"succeed"} /\ "preparing_game" \in RunPhases
    BY DEF RunSteps, RunPhases
  <2> QED BY <1>0, <1>4, <1>5, <2>2, <2>3, <2>4, <2>5, <2>6, <2>7, RunCheck, GroupConstants
<1>h. CASE ChangesStarted
  <2>1. PICK u : u = Set(hold, "updating_worlds", {"changes"})  OBVIOUS
  <2>2. u \in Txns /\ u.phase = "updating_worlds" /\ u.marks = hold.marks \cup {"changes"} /\ u.worlds = hold.worlds
    BY <1>1, <2>1, SetFields DEF Phases, RunPhases, GroupMarks
  <2>4. at = "change" /\ Checkpoint(u, "update", 1)  BY <1>h, <2>1 DEF ChangesStarted
  <2>5. hold.marks = {"stageIntent", "stageCreated", "stageReady"}  BY <1>3, <2>4 DEF RunPlace
  <2>8. \A m \in Members : "updateIntent" \notin hold.worlds[m]  BY <1>3, <2>5 DEF Valid
  <2>3. Valid(u)  BY <1>3, <2>2, <2>5 DEF Valid, HasStopIntent, Backed
  <2>9. Updating("update", 1, u)  BY <2>2, <2>8, GroupConstants DEF Updating, Members
  <2>6. RunPlace("update", 1, u)
    BY <1>3, <2>2, <2>4, <2>5, <2>9 DEF RunPlace, RunPhases, StopPlaces, UpdatePlaces
  <2>7. "update" \in RunSteps \ {"succeed"} /\ "updating_worlds" \in RunPhases
    BY DEF RunSteps, RunPhases
  <2> QED BY <1>0, <1>4, <1>5, <2>2, <2>3, <2>4, <2>5, <2>6, <2>7, RunCheck, GroupConstants
<1>d. CASE UpdateIntent
  <2>1. PICK u : u = Mark(hold, member, {"updateIntent"})  OBVIOUS
  <2>2. MarkedAs(hold, u, member, "updateIntent")
    BY <1>1, <1>2, <2>1, MarkFields DEF WorldMarks
  <2>f. /\ u.phase = hold.phase /\ u.marks = hold.marks /\ u.worlds[member] = hold.worlds[member] \cup {"updateIntent"}
        /\ \A m \in Members : m # member => u.worlds[m] = hold.worlds[m]
    BY <2>2 DEF MarkedAs
  <2>4. at = "update" /\ Checkpoint(u, "remove", member)  BY <1>d, <2>1 DEF UpdateIntent
  <2>5. Updating("update", member, hold)  BY <1>3, <2>4 DEF RunPlace, UpdatePlaces
  <2>9. "updated" \notin hold.worlds[member]  BY <1>2, <1>3, <2>5 DEF Updating, Valid
  <2>6. Updating("remove", member, u)  BY <1>2, <2>f, <2>5, <2>9, GroupConstants DEF Updating
  <2>a. \A m \in Members : Backed(hold, m)  BY <1>3, <2>5 DEF Valid, Updating
  <2>3. MayMark(hold, member, "updateIntent")
    BY <1>2, <1>3, <2>4, <2>5, <2>a DEF MayMark, Valid, Stopping, Updating, Backed
  <2>7. RunPlace("remove", member, u)
    BY <1>2, <1>3, <2>f, <2>4, <2>6 DEF RunPlace, RunPhases, StopPlaces, UpdatePlaces
  <2>8. "remove" \in RunSteps \ {"succeed"}  BY DEF RunSteps
  <2> QED BY <1>0, <1>2, <2>2, <2>3, <2>4, <2>7, <2>8, MarkCheck DEF WorldMarks
<1>e. CASE Updated
  <2>1. PICK u : u = Mark(hold, member, {"updated"})  OBVIOUS
  <2>2. MarkedAs(hold, u, member, "updated")  BY <1>1, <1>2, <2>1, MarkFields DEF WorldMarks
  <2>f. /\ u.phase = hold.phase /\ u.marks = hold.marks /\ u.worlds[member] = hold.worlds[member] \cup {"updated"}
        /\ \A m \in Members : m # member => u.worlds[m] = hold.worlds[m]
    BY <2>2 DEF MarkedAs
  <2>4. at = "updated" /\ IF member < GroupSize THEN Checkpoint(u, "update", member + 1) ELSE Checkpoint(u, "restoring", 1)
    BY <1>e, <2>1 DEF Updated
  <2>5. Updating("updated", member, hold)  BY <1>3, <2>4 DEF RunPlace, UpdatePlaces
  <2>3. MayMark(hold, member, "updated")
    BY <1>2, <1>3, <2>4, <2>5 DEF MayMark, Valid, Stopping, Updating, Backed
  <2>8. content[member] = "new" /\ image[member] = NewImage(member)  BY <2>5 DEF Updating
  <2>6. CASE member < GroupSize
    <3>0. PICK k \in Members : k = member + 1  BY <1>2, <2>6, GroupConstants
    <3>a. /\ \A m \in Members : (m < k <=> m < member \/ m = member) /\ (m > k => m > member /\ m # member)
          /\ k > member /\ k # member
      BY <1>2, <3>0, GroupConstants
    <3>1. Updating("update", k, u)  BY <1>2, <2>f, <2>5, <3>a DEF Updating
    <3>2. RunPlace("update", k, u)
      BY <1>2, <1>3, <2>f, <2>4, <3>1 DEF RunPlace, RunPhases, StopPlaces, UpdatePlaces
    <3>3. "update" \in RunSteps \ {"succeed"} /\ Checkpoint(u, "update", k)
      BY <2>4, <2>6, <3>0 DEF RunSteps
    <3> QED BY <1>0, <2>2, <2>3, <2>8, <3>2, <3>3, MarkCheck DEF WorldMarks
  <2>7. CASE ~(member < GroupSize)
    <3>a. \A m \in Members : m < member \/ m = member  BY <1>2, <2>7, GroupConstants DEF Members
    <3>1. \A m \in Members : "updated" \in u.worlds[m]  BY <1>2, <2>f, <2>5, <3>a DEF Updating
    <3>2. RunPlace("restoring", 1, u)
      BY <1>2, <1>3, <2>f, <2>4, <3>1 DEF RunPlace, RunPhases, StopPlaces, UpdatePlaces
    <3>3. "restoring" \in RunSteps \ {"succeed"} /\ 1 \in Members /\ Checkpoint(u, "restoring", 1)
      BY <2>4, <2>7, GroupConstants DEF RunSteps
    <3> QED BY <1>0, <2>2, <2>3, <2>8, <3>2, <3>3, MarkCheck DEF WorldMarks
  <2> QED BY <2>6, <2>7
<1>f. CASE RestoringState
  <2>1. PICK u : u = Set(hold, "restoring_state", {})  OBVIOUS
  <2>2. u \in Txns /\ u.phase = "restoring_state" /\ u.marks = hold.marks /\ u.worlds = hold.worlds
    BY <1>1, <2>1, PhaseFields DEF Phases, RunPhases
  <2>3. Valid(u)  BY <1>3, <1>6, <2>2 DEF Valid, HasStopIntent, Backed, Final
  <2>4. at = "restoring" /\ Checkpoint(u, "restart", 1)  BY <1>f, <2>1 DEF RestoringState
  <2>5. RunPlace("restart", 1, u)
    BY <1>3, <2>2, <2>4 DEF RunPlace, RunPhases, StopPlaces, UpdatePlaces
  <2>6. "restart" \in RunSteps \ {"succeed"} /\ "restoring_state" \in RunPhases
    BY DEF RunSteps, RunPhases
  <2> QED BY <1>0, <1>4, <1>5, <2>2, <2>3, <2>4, <2>5, <2>6, RunCheck, GroupConstants
<1> QED BY <1>q, <1>i, <1>s, <1>p, <1>t, <1>u, <1>a, <1>g, <1>c, <1>r, <1>h, <1>d, <1>e, <1>f DEF RunMarks

-----------------------------------------------------------------------------
(* The run's steps on the worlds. *)

\* Once a stop was announced, servers and rows may change without making the transaction false.
LEMMA RunsSay ==
    ASSUME NEW t, Describes(t), HasStopIntent(t), UNCHANGED <<kind, image, content, command, staging>>
    PROVE  Describes(t)'
<1>1. \A m \in Members : Member140(t, m)'
  BY DEF Describes, Member140, OldImage, NewImage, Boxed
<1>2. HasStopIntent(t)'  BY DEF HasStopIntent
<1>3. ("stageIntent" \notin t.marks \/ "stageRemoved" \in t.marks => ~staging)'
  BY DEF Describes
<1> QED BY <1>1, <1>2, <1>3 DEF Describes

\* So may the files and the container of a world that has an update or a restore announced.
LEMMA MemberSays ==
    ASSUME NEW t, NEW n \in Members, Describes(t), HasStopIntent(t), UNCHANGED <<kind, command, staging>>,
           {"updateIntent", "restoreIntent"} \cap t.worlds[n] # {}, "updated" \in t.worlds[n] => "restoreIntent" \in t.worlds[n],
           "restored" \notin t.worlds[n] \/ content'[n] = "old", content'[n] = "purged" => "restoreIntent" \in t.worlds[n],
           \A m \in Members : m # n => content'[m] = content[m] /\ image'[m] = image[m]
    PROVE  Describes(t)'
<1>1. ASSUME NEW m \in Members PROVE Member140(t, m)'
  <2>1. CASE m = n  BY <2>1 DEF Describes, Member140
  <2>2. CASE m # n  BY <2>2 DEF Describes, Member140, OldImage, NewImage, Boxed
  <2> QED BY <2>1, <2>2
<1>2. HasStopIntent(t)'  BY DEF HasStopIntent
<1>3. ("stageIntent" \notin t.marks \/ "stageRemoved" \in t.marks => ~staging)'
  BY DEF Describes
<1> QED BY <1>1, <1>2, <1>3 DEF Describes

\* what is known at the steps of the run, of constants that name its transaction and its member
RunAt(a, t, n) ==
    /\ at = a /\ at \in RunSteps \ {"succeed"} /\ t \in Txns /\ t = hold /\ n \in Members /\ n = member
    /\ RunPlace(a, n, t) /\ Describes(t) /\ Valid(t) /\ Phased(t) /\ t.phase \in RunPhases
    /\ WorldTypes /\ FirstAreLive
    /\ \A m \in Members : "restoreIntent" \notin t.worlds[m] /\ "restored" \notin t.worlds[m]
    /\ "stageRemoved" \notin t.marks

\* The place of the run, its transaction and its world, named for a step to come.
LEMMA RunPicks ==
    ASSUME GroupInv, NEW a \in RunSteps \ {"succeed"}, at = a
    PROVE  \E t \in Txns, n \in Members : RunAt(a, t, n)
<1>1. RunFacts /\ HeldFacts  BY RunHolds DEF RunFacts
<1>2. PICK t \in Txns, n \in Members : t = hold /\ n = member  BY <1>1 DEF RunFacts, HeldFacts
<1>3. RunPlace(a, n, t)  BY <1>1, <1>2 DEF RunFacts
<1>4. WorldTypes /\ FirstAreLive
  BY DEF GroupInv, GTypes, GroupTypeOK, WorldTypes, FirstAreLive, OnRecord
<1>5. Describes(t) /\ Valid(t) /\ Phased(t)  BY <1>1, <1>2 DEF HeldFacts
<1>6. RunAt(a, t, n)  BY <1>1, <1>2, <1>3, <1>4, <1>5 DEF RunAt, RunFacts
<1> QED BY <1>6

\* A step of the run on the worlds.
LEMMA RunWorld ==
    ASSUME GroupInv, NEW a, NEW t \in Txns, NEW n \in Members, RunAt(a, t, n),
           UNCHANGED <<kind, owners, published, gstops, refused>>,
           WorldTypes', FirstAreLive', Fault \/ UNCHANGED gfaults, Describes(t)', "stageCreated" \in t.marks => staging',
           NEW k \in Members, NEW aim \in RunSteps \ {"succeed"},
           Trouble \/ (To(aim, k) /\ RunPlace(aim, k, t)')
    PROVE  GroupInv'
<1>1. gfaults' \in 0..GroupFaults  BY GroupConstants DEF GroupInv, GTypes, GroupTypeOK, Fault
<1>2. Phased(t)'
  <2>1. t.phase \notin Undoing /\ t.phase \notin Final /\ t.phase # "rolled_back"
    BY DEF RunAt, RunPhases, Undoing, Final
  <2> QED BY <2>1 DEF RunAt, Phased
<1>3. Trouble \/ (To(aim, k) /\ Where(aim, k, t)')
  BY DEF Where, RunSteps, UndoPlaces, AbortPlaces, RestorePlaces, EndPlaces
<1>4. at \in CheckPlaces /\ t = hold  BY DEF RunAt, CheckPlaces
<1> QED BY <1>1, <1>2, <1>3, <1>4, WorldKeeps

LEMMA SendKeeps == GroupInv /\ SendSave140 => GroupInv'
<1> SUFFICES ASSUME GroupInv, SendSave140 PROVE GroupInv'
  OBVIOUS
<1>1. at = "send" /\ "send" \in RunSteps \ {"succeed"} /\ "await" \in RunSteps \ {"succeed"}
  BY DEF SendSave140, RunSteps
<1>2. PICK t \in Txns, n \in Members : RunAt("send", t, n)  BY <1>1, RunPicks
<1>3. Stopping("send", n, t) /\ n = member  BY <1>2 DEF RunAt, RunPlace, StopPlaces
<1>4. /\ UNCHANGED <<image, runs, content, staging, rows, kind, owners, published, gstops, refused>>
      /\ command' \in {command, [command EXCEPT ![n] = "sent"]}
      /\ Fault \/ UNCHANGED gfaults
      /\ Trouble \/ To("await", n)
  BY <1>3 DEF SendSave140, Aside
<1>5. WorldTypes' /\ FirstAreLive'  BY <1>2, <1>4 DEF RunAt, WorldTypes, FirstAreLive, Live
<1>6. Describes(t)'
  <2>1. ASSUME NEW m \in Members PROVE Member140(t, m)'
    <3>1. Member140(t, m) /\ ("saved" \in t.worlds[m] => command'[m] = command[m])
      BY <1>2, <1>3, <1>4 DEF RunAt, Describes, Stopping, WorldTypes
    <3> QED BY <1>4, <3>1 DEF Member140, OldImage, NewImage, Boxed
  <2>2. HasStopIntent(t)' = HasStopIntent(t)  BY DEF HasStopIntent
  <2> QED BY <1>2, <1>4, <2>1, <2>2 DEF RunAt, Describes, Original, Live
<1>7. RunPlace("await", n, t)'
  <2>1. Stopping("await", n, t)'  BY <1>3 DEF Stopping
  <2> QED BY <1>2, <1>4, <2>1 DEF RunAt, RunPlace, StopPlaces, UpdatePlaces, Live, Serves
<1>8. "stageCreated" \in t.marks => staging'  BY <1>3 DEF Stopping
<1> QED BY <1>1, <1>2, <1>4, <1>5, <1>6, <1>7, <1>8, RunWorld

LEMMA StopMemberKeeps == GroupInv /\ StopMember => GroupInv'
<1> SUFFICES ASSUME GroupInv, StopMember PROVE GroupInv'
  OBVIOUS
<1>1. at = "stop" /\ "stop" \in RunSteps \ {"succeed"} /\ "stopped" \in RunSteps \ {"succeed"}
  BY DEF StopMember, RunSteps
<1>2. PICK t \in Txns, n \in Members : RunAt("stop", t, n)  BY <1>1, RunPicks
<1>3. Stopping("stop", n, t) /\ n = member  BY <1>2 DEF RunAt, RunPlace, StopPlaces
<1>4. /\ UNCHANGED <<image, content, command, staging, rows, kind, owners, published, gstops, refused>>
      /\ \A m \in Members : runs'[m] = runs[m] \/ runs'[m] = "down"
      /\ runs' \in [Members -> {"first", "again", "down", "died"}]
      /\ Fault \/ UNCHANGED gfaults
      /\ Trouble \/ To("stopped", n)
  BY <1>2, <1>3 DEF StopMember, TakeDown, Aside, RunAt, WorldTypes
<1>5. WorldTypes' /\ FirstAreLive'  BY <1>2, <1>4 DEF RunAt, WorldTypes, FirstAreLive, Live
<1>6. Describes(t)'  BY <1>2, <1>3, <1>4, RunsSay DEF RunAt, Stopping, HasStopIntent
<1>7. RunPlace("stopped", n, t)'
  <2>1. Stopping("stopped", n, t)'  BY <1>3 DEF Stopping
  <2>2. \A m \in Members : Serves(m)' => Serves(m)  BY <1>4 DEF Serves
  <2> QED BY <1>2, <1>4, <2>1, <2>2 DEF RunAt, RunPlace, StopPlaces, UpdatePlaces, Live
<1>8. "stageCreated" \in t.marks => staging'  BY <1>3 DEF Stopping
<1> QED BY <1>1, <1>2, <1>4, <1>5, <1>6, <1>7, <1>8, RunWorld

LEMMA CreateKeeps == GroupInv /\ CreateStaging => GroupInv'
<1> SUFFICES ASSUME GroupInv, CreateStaging PROVE GroupInv'
  OBVIOUS
<1>1. at = "create" /\ "create" \in RunSteps \ {"succeed"} /\ "created" \in RunSteps \ {"succeed"}
  BY DEF CreateStaging, RunSteps
<1>2. PICK t \in Txns, n \in Members : RunAt("create", t, n)  BY <1>1, RunPicks
<1>3. t.marks = {"stageIntent"} /\ n = member  BY <1>2 DEF RunAt, RunPlace
<1>4. /\ UNCHANGED <<image, runs, content, command, rows, kind, owners, published, gstops, refused>>
      /\ staging' \in BOOLEAN
      /\ Fault \/ UNCHANGED gfaults
      /\ Trouble \/ (To("created", 1) /\ staging')
  BY DEF CreateStaging, Aside
<1>5. WorldTypes' /\ FirstAreLive'  BY <1>2, <1>4 DEF RunAt, WorldTypes, FirstAreLive, Live
<1>6. Describes(t)'
  <2>1. \A m \in Members : Member140(t, m)'
    BY <1>2, <1>4 DEF RunAt, Describes, Member140, OldImage, NewImage, Boxed
  <2>2. HasStopIntent(t)' = HasStopIntent(t)  BY DEF HasStopIntent
  <2> QED BY <1>2, <1>3, <1>4, <2>1, <2>2 DEF RunAt, Describes, Original, Live
<1>7. staging' => RunPlace("created", 1, t)'
  BY <1>2, <1>3, <1>4 DEF RunAt, RunPlace, StopPlaces, UpdatePlaces, Live, Serves
<1> QED BY <1>1, <1>2, <1>3, <1>4, <1>5, <1>6, <1>7, RunWorld, GroupConstants

\* what the update of a member knows
LEMMA UpdateHolds ==
    ASSUME NEW a \in UpdatePlaces \ {"update"}, NEW t \in Txns, NEW n \in Members, RunAt(a, t, n)
    PROVE  /\ Updating(a, n, t) /\ n = member /\ HasStopIntent(t) /\ t.phase \in RunPhases
           /\ "updateIntent" \in t.worlds[n] /\ "updated" \notin t.worlds[n] /\ "restored" \notin t.worlds[n]
           /\ staging /\ \A m \in Members : Backed(t, m)
           /\ \A m \in Members : ~Live(m) /\ Serves(m) => a = "settle" /\ m = n
<1>1. Updating(a, n, t) /\ n = member /\ t.phase \in RunPhases
      /\ \A m \in Members : ~Live(m) /\ Serves(m) => a = "settle" /\ m = n
  BY DEF RunAt, RunPlace
<1>2. "updateIntent" \in t.worlds[n] /\ "updated" \notin t.worlds[n] /\ "changes" \in t.marks
  BY <1>1 DEF Updating
<1>3. "restored" \notin t.worlds[n]  BY DEF RunAt
<1>4. \A m \in Members : Backed(t, m)  BY <1>2 DEF RunAt, Valid
<1>5. HasStopIntent(t)  BY <1>4 DEF RunAt, Valid, Backed, HasStopIntent
<1>6. "stageCreated" \in t.marks  BY <1>2 DEF RunAt, Valid
<1>7. staging  BY <1>1, <1>6 DEF RunAt, Phased, RunPhases, Undoing
<1> QED BY <1>1, <1>2, <1>3, <1>4, <1>5, <1>7

\* one step of a member's update
LEMMA UpdateWorld ==
    ASSUME GroupInv, NEW a \in UpdatePlaces \ {"update"}, NEW t \in Txns, NEW n \in Members, RunAt(a, t, n),
           UNCHANGED <<kind, command, rows, staging, owners, published, gstops, refused>>,
           NEW i, NEW c, NEW r,
           image' \in {image, [image EXCEPT ![n] = i]}, i \in {"none", "old", "new"},
           content' \in {content, [content EXCEPT ![n] = c]}, c \in {"old", "mixed", "new"},
           runs' \in {runs, [runs EXCEPT ![n] = r]}, r \in {"again", "down"},
           content'[n] # "purged",
           Fault \/ UNCHANGED gfaults,
           NEW aim \in UpdatePlaces \ {"update"},
           Trouble \/ (To(aim, n) /\ Updating(aim, n, t)' /\ (Serves(n)' => Live(n) \/ aim = "settle")
                       /\ \A m \in Members : Serves(m) /\ m # n => Live(m))
    PROVE  GroupInv'
<1>1. /\ Updating(a, n, t) /\ n = member /\ HasStopIntent(t) /\ t.phase \in RunPhases /\ staging
      /\ "updateIntent" \in t.worlds[n] /\ "updated" \notin t.worlds[n] /\ "restored" \notin t.worlds[n]
  BY UpdateHolds
<1>2. WorldTypes  BY DEF RunAt
<1>3. WorldTypes'  BY <1>2 DEF WorldTypes
<1>4. FirstAreLive'  BY <1>2 DEF RunAt, FirstAreLive, Live, WorldTypes
<1>5. Describes(t)'
  <2>1. \A m \in Members : m # n => content'[m] = content[m] /\ image'[m] = image[m]
    BY <1>2 DEF WorldTypes
  <2>2. Describes(t)  BY DEF RunAt
  <2> QED BY <1>1, <2>1, <2>2, MemberSays
<1>6. Updating(aim, n, t)' /\ (Serves(n)' => Live(n) \/ aim = "settle") /\ (\A m \in Members : Serves(m) /\ m # n => Live(m))
      => RunPlace(aim, n, t)'
  <2>1. \A m \in Members : m # n => (Serves(m)' = Serves(m))  BY <1>2 DEF WorldTypes, Serves
  <2> QED BY <1>1, <2>1 DEF RunPlace, UpdatePlaces, StopPlaces, Live
<1>7. aim \in RunSteps \ {"succeed"}  BY DEF UpdatePlaces, RunSteps
<1> QED BY <1>1, <1>3, <1>4, <1>5, <1>6, <1>7, RunWorld

LEMMA UpdateStepsKeep == GroupInv /\ (RemoveServices \/ ReplaceFiles \/ VerifyTarget \/ StopTarget) => GroupInv'
<1> SUFFICES ASSUME GroupInv, RemoveServices \/ ReplaceFiles \/ VerifyTarget \/ StopTarget PROVE GroupInv'
  OBVIOUS
<1>0. UpdatePlaces \ {"update"} \subseteq RunSteps \ {"succeed"}  BY DEF UpdatePlaces, RunSteps
<1>1. PICK a \in UpdatePlaces \ {"update"} : at = a
  BY DEF RemoveServices, ReplaceFiles, Rewrite, VerifyTarget, StopTarget, UpdatePlaces
<1>2. PICK t \in Txns, n \in Members : RunAt(a, t, n)  BY <1>0, <1>1, RunPicks
<1>3. /\ Updating(a, n, t) /\ n = member
      /\ \A m \in Members : ~Live(m) /\ Serves(m) => a = "settle" /\ m = n
  BY <1>2, UpdateHolds
<1>4. WorldTypes /\ content[n] # "purged"
  <2>1. "restoreIntent" \notin t.worlds[n] /\ Member140(t, n) /\ WorldTypes
    BY <1>2 DEF RunAt, Describes
  <2> QED BY <2>1 DEF Member140
<1>5. \A m \in Members : runs[m] \in {"first", "again", "down", "died"}  BY <1>4 DEF WorldTypes
<1>r. CASE RemoveServices
  <2>1. a = "remove"  BY <1>1, <1>r DEF RemoveServices
  <2>2. /\ UNCHANGED <<kind, runs, content, command, rows, staging, owners, published, gstops, refused>>
        /\ Fault \/ UNCHANGED gfaults
        /\ image' \in {image, [image EXCEPT ![n] = "none"]}
        /\ Trouble \/ (To("replace", n) /\ image' = [image EXCEPT ![n] = "none"])
    BY <1>3, <1>r DEF RemoveServices, Aside
  <2>3. image' = [image EXCEPT ![n] = "none"] => Updating("replace", n, t)'
    BY <1>3, <1>4, <2>1, <2>2 DEF Updating, WorldTypes
  <2>4. (Serves(n)' => Live(n)) /\ \A m \in Members : Serves(m) /\ m # n => Live(m)
    BY <1>3, <2>1, <2>2 DEF Serves
  <2>5. content' \in {content, [content EXCEPT ![n] = "old"]} /\ runs' \in {runs, [runs EXCEPT ![n] = "down"]}
        /\ content'[n] # "purged" /\ "replace" \in UpdatePlaces \ {"update"}
    BY <1>4, <2>2 DEF UpdatePlaces
  <2> QED BY <1>2, <2>2, <2>3, <2>4, <2>5, UpdateWorld
<1>f. CASE ReplaceFiles
  <2>1. PICK from, to, aim : /\ Rewrite(from, to, aim) /\ from = a
                             /\ <<from, to, aim>> \in {<<"replace", "mixed", "fill">>, <<"fill", "new", "target">>}
    BY <1>1, <1>f DEF ReplaceFiles, Rewrite
  <2>2. /\ UNCHANGED <<kind, image, runs, command, rows, staging, owners, published, gstops, refused>>
        /\ Fault \/ UNCHANGED gfaults
        /\ content' \in {content, [content EXCEPT ![n] = to]}
        /\ Trouble \/ (To(aim, n) /\ content' = [content EXCEPT ![n] = to])
    BY <1>3, <2>1 DEF Rewrite, Aside
  <2>3. content' = [content EXCEPT ![n] = to] => Updating(aim, n, t)'
    BY <1>3, <1>4, <2>1, <2>2 DEF Updating, WorldTypes
  <2>4. (Serves(n)' => Live(n)) /\ \A m \in Members : Serves(m) /\ m # n => Live(m)
    BY <1>3, <2>1, <2>2 DEF Serves
  <2>5. to \in {"old", "mixed", "new"} /\ aim \in UpdatePlaces \ {"update"}
    BY <2>1 DEF UpdatePlaces
  <2>6. content'[n] # "purged"  BY <1>4, <2>2, <2>5 DEF WorldTypes
  <2>7. image' \in {image, [image EXCEPT ![n] = "none"]} /\ runs' \in {runs, [runs EXCEPT ![n] = "down"]}
    BY <2>2
  <2> QED BY <1>2, <2>2, <2>3, <2>4, <2>5, <2>6, <2>7, UpdateWorld
<1>v. CASE VerifyTarget
  <2>1. a = "target" /\ Boxed(n)  BY <1>1, <1>3, <1>v DEF VerifyTarget
  <2>2. /\ UNCHANGED <<kind, content, command, rows, staging, owners, published, gstops, refused>>
        /\ Fault \/ UNCHANGED gfaults
        /\ image' \in {image, [image EXCEPT ![n] = "new"]}
        /\ runs' \in {runs, [runs EXCEPT ![n] = "again"]}
        /\ Trouble \/ (To("settle", n) /\ image' = [image EXCEPT ![n] = "new"])
    BY <1>3, <1>v DEF VerifyTarget, Aside
  <2>3. image' = [image EXCEPT ![n] = "new"] => Updating("settle", n, t)'
    BY <1>3, <1>4, <2>1, <2>2 DEF Updating, WorldTypes, NewImage, Boxed
  <2>4. \A m \in Members : Serves(m) /\ m # n => Live(m)  BY <1>3
  <2>5. content' \in {content, [content EXCEPT ![n] = "old"]} /\ content'[n] # "purged" /\ "settle" \in UpdatePlaces \ {"update"}
    BY <1>4, <2>2 DEF UpdatePlaces
  <2> QED BY <1>2, <2>2, <2>3, <2>4, <2>5, UpdateWorld
<1>s. CASE StopTarget
  <2>1. a = "settle"  BY <1>1, <1>s DEF StopTarget
  <2>2. /\ UNCHANGED <<kind, image, content, command, rows, staging, owners, published, gstops, refused>>
        /\ Fault \/ UNCHANGED gfaults
        /\ Trouble \/ To("updated", n)
    BY <1>3, <1>s DEF StopTarget, TakeDown, Aside
  <2>3. runs' \in {runs, [runs EXCEPT ![n] = "down"]} /\ (~Trouble => ~Serves(n)')
    <3>1. PICK s \in SUBSET {n} : /\ runs' = [w \in Members |-> IF w \in s /\ Serves(w) THEN "down" ELSE runs[w]]
                                  /\ Trouble \/ s = {n}
      BY <1>3, <1>s DEF StopTarget, TakeDown
    <3>2. CASE n \in s /\ Serves(n)
      <4>1. s = {n}  BY <3>1, <3>2
      <4>2. runs' = [runs EXCEPT ![n] = "down"]  BY <1>4, <3>1, <3>2, <4>1 DEF WorldTypes
      <4> QED BY <1>4, <4>2 DEF WorldTypes, Serves
    <3>3. CASE ~(n \in s /\ Serves(n))
      <4>1. runs' = runs  BY <1>4, <3>1, <3>3 DEF WorldTypes
      <4> QED BY <3>1, <3>3, <4>1 DEF Serves
    <3> QED BY <3>2, <3>3
  <2>4. Updating("updated", n, t)'  BY <1>3, <2>1, <2>2 DEF Updating, NewImage, Boxed
  <2>5. \A m \in Members : Serves(m) /\ m # n => Live(m)  BY <1>3
  <2>6. image' \in {image, [image EXCEPT ![n] = "none"]} /\ content' \in {content, [content EXCEPT ![n] = "old"]}
        /\ content'[n] # "purged" /\ "updated" \in UpdatePlaces \ {"update"}
    BY <1>4, <2>2 DEF UpdatePlaces
  <2> QED BY <1>2, <2>2, <2>3, <2>4, <2>5, <2>6, UpdateWorld
<1> QED BY <1>r, <1>f, <1>v, <1>s

\* when every member is updated, each was stopped and none of the marks of a rollback is set
LEMMA AllUpdated ==
    ASSUME NEW a \in {"restoring", "restart", "rows", "commit"}, NEW t \in Txns, NEW n \in Members, RunAt(a, t, n)
    PROVE  /\ \A m \in Members : "updated" \in t.worlds[m] /\ "restoreIntent" \notin t.worlds[m]
           /\ \A m \in Members : Backed(t, m) /\ content[m] = "new" /\ image[m] = NewImage(m)
           /\ HasStopIntent(t) /\ "changes" \in t.marks /\ "stageCreated" \in t.marks /\ staging
           /\ \A m \in Members : ~Live(m) => ~Serves(m)
           /\ t.phase \in RunPhases /\ n = member
<1>1. \A m \in Members : "updated" \in t.worlds[m] /\ (~Live(m) => ~Serves(m))
  BY DEF RunAt, RunPlace
<1>2. \A m \in Members : "restoreIntent" \notin t.worlds[m] /\ Member140(t, m)
  BY DEF RunAt, Describes
<1>3. \A m \in Members : "updateIntent" \in t.worlds[m] /\ Backed(t, m) /\ "changes" \in t.marks
  BY <1>1 DEF RunAt, Valid
<1>4. \A m \in Members : content[m] = "new" /\ image[m] = NewImage(m)
  BY <1>1, <1>2 DEF Member140
<1>5. HasStopIntent(t)  BY <1>3, GroupConstants DEF RunAt, Valid, Backed, HasStopIntent
<1>6. "changes" \in t.marks  BY <1>3, GroupConstants
<1>7. "stageCreated" \in t.marks  BY <1>6 DEF RunAt, Valid
<1>8. staging /\ t.phase \in RunPhases /\ n = member
  BY <1>7 DEF RunAt, Phased, RunPhases, Undoing
<1> QED BY <1>1, <1>2, <1>3, <1>4, <1>5, <1>6, <1>7, <1>8

LEMMA RestartKeeps == GroupInv /\ RestartWorlds => GroupInv'
<1> SUFFICES ASSUME GroupInv, RestartWorlds PROVE GroupInv'
  OBVIOUS
<1>1. at = "restart" /\ "restart" \in RunSteps \ {"succeed"} /\ "rows" \in RunSteps \ {"succeed"}
  BY DEF RestartWorlds, RunSteps
<1>2. PICK t \in Txns, n \in Members : RunAt("restart", t, n)  BY <1>1, RunPicks
<1>3. /\ \A m \in Members : ~Live(m) => ~Serves(m)
      /\ HasStopIntent(t) /\ staging
  BY <1>2, AllUpdated
<1>4. PICK s \in SUBSET {m \in Members : Live(m)} :
          /\ runs' = [w \in Members |-> IF w \in s /\ ~Serves(w) THEN "again" ELSE runs[w]]
          /\ UNCHANGED <<image, content, command, staging, rows, kind, owners, published, gstops, refused>>
          /\ Fault \/ UNCHANGED gfaults
          /\ Trouble \/ (To("rows", 1) /\ s = {m \in Members : Live(m)})
  BY DEF RestartWorlds, BringUp, Aside
<1>5. \A m \in Members : runs[m] \in {"first", "again", "down", "died"}
  BY <1>2 DEF RunAt, WorldTypes
<1>6. WorldTypes' /\ FirstAreLive'
  BY <1>2, <1>4, <1>5 DEF RunAt, WorldTypes, FirstAreLive, Live
<1>7. Describes(t)'  BY <1>2, <1>3, <1>4, RunsSay DEF RunAt
<1>8. s = {m \in Members : Live(m)} => RunPlace("rows", 1, t)'
  <2>1. \A m \in Members : ~Live(m) => ~Serves(m)'  BY <1>3, <1>4 DEF Serves
  <2>2. s = {m \in Members : Live(m)} => \A m \in Members : Live(m) => runs'[m] # "down"
    BY <1>4 DEF Serves
  <2>3. RunPlace("restart", n, t)  BY <1>2 DEF RunAt
  <2> QED BY <1>4, <2>1, <2>2, <2>3 DEF RunPlace, StopPlaces, UpdatePlaces, Live
<1> QED BY <1>1, <1>2, <1>3, <1>4, <1>6, <1>7, <1>8, RunWorld, GroupConstants

LEMMA RowsKeep == GroupInv /\ PublishRows => GroupInv'
<1> SUFFICES ASSUME GroupInv, PublishRows PROVE GroupInv'
  OBVIOUS
<1>1. at = "rows" /\ "rows" \in RunSteps \ {"succeed"} /\ "commit" \in RunSteps \ {"succeed"}
  BY DEF PublishRows, RunSteps
<1>2. PICK t \in Txns, n \in Members : RunAt("rows", t, n)  BY <1>1, RunPicks
<1>3. HasStopIntent(t) /\ staging /\ RunPlace("rows", n, t)  BY <1>2, AllUpdated DEF RunAt
<1>4. /\ UNCHANGED <<image, content, command, staging, runs, kind, owners, published, gstops, refused>>
      /\ Fault \/ UNCHANGED gfaults
      /\ Trouble \/ (To("commit", 1) /\ rows' = Original)
      /\ rows' = Original \/ \E m \in Members : rows' \in {rows, [rows EXCEPT ![m] = Original[m]]}
  BY DEF PublishRows, SetRows, Aside
<1>5. WorldTypes' /\ FirstAreLive'
  <2>1. Original \in [Members -> {"running", "stopped"}]  BY DEF Original
  <2>2. rows' \in [Members -> {"running", "stopped"}]  BY <1>2, <1>4, <2>1 DEF RunAt, WorldTypes
  <2> QED BY <1>2, <1>4, <2>2 DEF RunAt, WorldTypes, FirstAreLive, Live
<1>6. Describes(t)'  BY <1>2, <1>3, <1>4, RunsSay DEF RunAt
<1>7. rows' = Original => RunPlace("commit", 1, t)'
  BY <1>3, <1>4 DEF RunPlace, StopPlaces, UpdatePlaces, Live, Serves, Original
<1> QED BY <1>1, <1>2, <1>3, <1>4, <1>5, <1>6, <1>7, RunWorld, GroupConstants

\* The panel only moves on, or gives the run up.
LEMMA RunPassesKeep ==
    GroupInv /\ (NoSave \/ AwaitSave140 \/ VerifyOffline \/ (Quiet /\ \E m \in Members : Serves(m))) => GroupInv'
<1> SUFFICES ASSUME GroupInv, NoSave \/ AwaitSave140 \/ VerifyOffline \/ (Quiet /\ \E m \in Members : Serves(m))
             PROVE  GroupInv'
  OBVIOUS
<1>1. at \in RunSteps \ {"succeed"} /\ at \in CheckPlaces
  BY DEF NoSave, AwaitSave140, VerifyOffline, Quiet, RunSteps, CheckPlaces
<1>2. RunFacts /\ member \in Members /\ RunPlace(at, member, hold)
  BY <1>1, RunHolds DEF RunFacts
<1>3. UNCHANGED <<kind, owners, worlds, published, gfaults, gstops, refused>>
  BY DEF NoSave, AwaitSave140, VerifyOffline, Quiet, Pass, Fails
<1>4. ASSUME NEW aim \in RunSteps \ {"succeed"}, RunPlace(aim, member, hold) PROVE Where(aim, member, hold)
  BY <1>4 DEF Where, RunSteps, UndoPlaces, AbortPlaces, RestorePlaces, EndPlaces
<1>5. {"stopIntent", "saved", "updated"} \subseteq RunSteps \ {"succeed"}  BY DEF RunSteps
<1>n. CASE NoSave
  <2>1. Stopping("member", member, hold) /\ ~Live(member) /\ at = "member" /\ To("stopIntent", member)
    BY <1>2, <1>n DEF NoSave, RunPlace, StopPlaces, Pass
  <2>2. Stopping("stopIntent", member, hold)  BY <2>1 DEF Stopping
  <2>3. RunPlace("stopIntent", member, hold)
    BY <1>2, <2>1, <2>2 DEF RunPlace, StopPlaces, UpdatePlaces
  <2> QED BY <1>1, <1>2, <1>3, <1>4, <1>5, <2>1, <2>3, PassKeeps
<1>a. CASE AwaitSave140
  <2>1. Stopping("await", member, hold) /\ at = "await"
        /\ (Trouble \/ (command[member] = "saved" /\ To("saved", member)))
    BY <1>2, <1>a DEF AwaitSave140, RunPlace, StopPlaces, Pass, Fails
  <2>2. command[member] = "saved" => Stopping("saved", member, hold)  BY <2>1 DEF Stopping
  <2>3. command[member] = "saved" => RunPlace("saved", member, hold)
    BY <1>2, <2>1, <2>2 DEF RunPlace, StopPlaces, UpdatePlaces
  <2> QED BY <1>1, <1>2, <1>3, <1>4, <1>5, <2>1, <2>3, PassKeeps
<1>v. CASE VerifyOffline
  <2>1. Updating("target", member, hold) /\ ~Boxed(member) /\ at = "target" /\ To("updated", member)
    BY <1>2, <1>v DEF VerifyOffline, RunPlace, UpdatePlaces, Pass
  <2>2. Updating("updated", member, hold)  BY <2>1 DEF Updating, NewImage
  <2>3. RunPlace("updated", member, hold)
    BY <1>2, <2>1, <2>2 DEF RunPlace, StopPlaces, UpdatePlaces
  <2> QED BY <1>1, <1>2, <1>3, <1>4, <1>5, <2>1, <2>3, PassKeeps
<1>q. CASE Quiet /\ \E m \in Members : Serves(m)
  <2>1. Trouble  BY <1>q DEF Quiet, Fails
  <2> QED BY <1>1, <1>2, <1>3, <1>5, <2>1, PassKeeps
<1> QED BY <1>n, <1>a, <1>v, <1>q

LEMMA CommitKeeps == GroupInv /\ CommitGroup => GroupInv'
<1> SUFFICES ASSUME GroupInv, CommitGroup PROVE GroupInv'
  OBVIOUS
<1>1. at = "commit" /\ "commit" \in RunSteps \ {"succeed"} /\ at \in CheckPlaces /\ "succeed" \in RunSteps
  BY DEF CommitGroup, RunSteps, CheckPlaces
<1>2. PICK t \in Txns, n \in Members : RunAt("commit", t, n)  BY <1>1, RunPicks
<1>3. PICK u : u = Set(hold, "committed", {})  OBVIOUS
<1>4. u \in Txns /\ u.phase = "committed" /\ u.marks = t.marks /\ u.worlds = t.worlds /\ t = hold
  BY <1>2, <1>3, PhaseFields DEF Phases, RunAt
<1>5. /\ \A m \in Members : "updated" \in t.worlds[m] /\ "restoreIntent" \notin t.worlds[m]
      /\ staging /\ t.phase \in RunPhases
      /\ \A m \in Members : ~Live(m) => ~Serves(m)
  BY <1>2, AllUpdated
<1>6. RunPlace("commit", n, t)  BY <1>2 DEF RunAt
<1>7. RowsAgree  BY <1>5, <1>6 DEF RunPlace, RowsAgree, Original
<1>8. Valid(u)
  <2>1. Valid(t) /\ t.phase \notin Undoing  BY <1>2, <1>5 DEF RunAt, RunPhases, Undoing
  <2>2. "keep" \notin t.marks /\ "stageRemoved" \notin t.marks  BY <2>1 DEF Valid
  <2> QED BY <1>4, <1>5, <2>1, <2>2 DEF Valid, HasStopIntent, Backed
<1>9. Describes(u)  BY <1>2, <1>4, SaysMore DEF RunAt
<1>10. Phased(u)  BY <1>4, <1>5, <1>7 DEF Phased
<1>11. Where("succeed", 1, u)
  BY <1>4 DEF Where, RunSteps, UndoPlaces, AbortPlaces, RestorePlaces, EndPlaces
<1>12. Checkpoint(u, "succeed", 1)  BY <1>3 DEF CommitGroup
<1> QED BY <1>1, <1>4, <1>8, <1>9, <1>10, <1>11, <1>12, CheckpointKeeps, GroupConstants

-----------------------------------------------------------------------------
(* The rollback. *)

UndoAt(a, t, n) ==
    /\ at = a /\ at \in UndoPlaces /\ t \in Txns /\ t = hold /\ n \in Members /\ n = member
    /\ UndoPlace(a, n, t) /\ Describes(t) /\ Valid(t) /\ Phased(t) /\ t.phase = "rolling_back"
    /\ WorldTypes /\ FirstAreLive

\* The same for a rollback or an abort.
LEMMA UndoPicks ==
    ASSUME GroupInv, NEW a \in UndoPlaces, at = a
    PROVE  HeldFacts /\ \E t \in Txns, n \in Members : UndoAt(a, t, n)
<1>1. HeldFacts  BY HoldsDisk DEF CheckPlaces
<1>2. PICK t \in Txns, n \in Members : t = hold /\ n = member
  BY <1>1 DEF HeldFacts, GroupInv, GTypes, GroupTypeOK
<1>3. UndoPlace(a, n, t)  BY <1>1, <1>2 DEF HeldFacts, Where
<1>4. WorldTypes /\ FirstAreLive
  BY DEF GroupInv, GTypes, GroupTypeOK, WorldTypes, FirstAreLive, OnRecord
<1>5. Describes(t) /\ Valid(t) /\ Phased(t)  BY <1>1, <1>2 DEF HeldFacts
<1>6. UndoAt(a, t, n)  BY <1>2, <1>3, <1>4, <1>5 DEF UndoAt, UndoPlace
<1> QED BY <1>1, <1>6

\* A step of a rollback on the worlds.
LEMMA UndoWorld ==
    ASSUME GroupInv, NEW a, NEW t \in Txns, NEW n \in Members, UndoAt(a, t, n),
           UNCHANGED <<kind, owners, published, gstops, refused>>,
           WorldTypes', FirstAreLive', Fault \/ UNCHANGED gfaults, Describes(t)',
           NEW k \in Members, NEW aim \in UndoPlaces,
           Trouble \/ (To(aim, k) /\ UndoPlace(aim, k, t)')
    PROVE  GroupInv'
<1>1. gfaults' \in 0..GroupFaults  BY GroupConstants DEF GroupInv, GTypes, GroupTypeOK, Fault
<1>2. Phased(t)'  BY DEF UndoAt, Phased, Undoing, Final
<1>3. Trouble \/ (To(aim, k) /\ Where(aim, k, t)')
  BY DEF Where, RunSteps, UndoPlaces, AbortPlaces, RestorePlaces, EndPlaces
<1>4. at \in CheckPlaces /\ t = hold  BY DEF UndoAt, CheckPlaces
<1> QED BY <1>1, <1>2, <1>3, <1>4, WorldKeeps

\* A step of a rollback that only moves on.
LEMMA UndoPass ==
    ASSUME GroupInv, NEW a, NEW t \in Txns, NEW n \in Members, UndoAt(a, t, n),
           UNCHANGED <<kind, owners, worlds, published, gfaults, gstops, refused>>,
           NEW k \in Members, NEW aim \in UndoPlaces,
           Trouble \/ (To(aim, k) /\ UndoPlace(aim, k, t))
    PROVE  GroupInv'
<1>1. UndoPlace(aim, k, t) => Where(aim, k, hold)
  BY DEF UndoAt, Where, RunSteps, UndoPlaces, AbortPlaces, RestorePlaces, EndPlaces
<1>2. at \in CheckPlaces  BY DEF UndoAt, CheckPlaces
<1> QED BY <1>1, <1>2, PassKeeps

\* A checkpoint of the rollback.
LEMMA UndoCheck ==
    ASSUME GroupInv, at \in UndoPlaces, NEW u \in Txns, NEW k \in Members, NEW aim \in UndoPlaces,
           Checkpoint(u, aim, k), u.phase = "rolling_back",
           hold.marks \subseteq u.marks, \A m \in Members : hold.worlds[m] \subseteq u.worlds[m],
           Valid(u), UndoPlace(aim, k, u), "stageRemoved" \in u.marks => "stageRemoved" \in hold.marks \/ ~staging,
           \A m \in Members :
              /\ "saved" \in u.worlds[m] => "saved" \in hold.worlds[m] \/ command[m] = "saved"
              /\ "restored" \in u.worlds[m] => "restored" \in hold.worlds[m] \/ content[m] = "old"
              /\ "updated" \in u.worlds[m] => "updated" \in hold.worlds[m]
    PROVE  GroupInv'
<1>1. HeldFacts  BY HoldsDisk DEF CheckPlaces
<1>2. PICK t \in Txns : t = hold  BY <1>1 DEF HeldFacts
<1>3. Describes(u)  BY <1>1, <1>2, SaysMore DEF HeldFacts
<1>4. Phased(u)  BY DEF Phased, Undoing, Final
<1>5. Where(aim, k, u)
  BY DEF Where, RunSteps, UndoPlaces, AbortPlaces, RestorePlaces, EndPlaces
<1>6. at \in CheckPlaces /\ at \notin RunSteps
  BY DEF CheckPlaces, RunSteps, UndoPlaces, AbortPlaces, RestorePlaces, EndPlaces
<1> QED BY <1>3, <1>4, <1>5, <1>6, CheckpointKeeps

\* The first checkpoint of every rollback.
LEMMA RollingKeeps == GroupInv /\ Rolling => GroupInv'
<1> SUFFICES ASSUME GroupInv, Rolling PROVE GroupInv'
  OBVIOUS
<1>1. at = "rolling" /\ at \in CheckPlaces /\ at \notin RunSteps
  BY DEF Rolling, CheckPlaces, RunSteps
<1>2. HeldFacts  BY <1>1, HoldsDisk
<1>3. PICK t \in Txns : t = hold  BY <1>2 DEF HeldFacts
<1>4. PICK u : u = Set(t, "rolling_back", {})  OBVIOUS
<1>5. u \in Txns /\ u.phase = "rolling_back" /\ u.marks = t.marks /\ u.worlds = t.worlds
  BY <1>4, PhaseFields DEF Phases, Undoing
<1>6. Valid(t) /\ Describes(t) /\ t.phase \in RunPhases \cup Undoing
  BY <1>2, <1>3 DEF HeldFacts
<1>7. Valid(u)  BY <1>5, <1>6 DEF Valid, HasStopIntent, Backed, Undoing
<1>8. Describes(u)  BY <1>5, <1>6, SaysMore
<1>9. Phased(u)  BY <1>5 DEF Phased, Undoing, Final
<1>10. PICK aim : aim = IF Untouched(hold) THEN "abort" ELSE "keep"  OBVIOUS
<1>11. UndoPlace(aim, 1, u)
  BY <1>3, <1>5, <1>10 DEF UndoPlace, Untouched, AbortPlaces, RestorePlaces, EndPlaces
<1>12. aim \in UndoPlaces  BY <1>10 DEF UndoPlaces, AbortPlaces
<1>13. Where(aim, 1, u)
  BY <1>10, <1>11 DEF Where, RunSteps, UndoPlaces, AbortPlaces, RestorePlaces, EndPlaces
<1>14. Checkpoint(u, aim, 1)  BY <1>3, <1>4, <1>10 DEF Rolling
<1> QED BY <1>1, <1>3, <1>5, <1>7, <1>8, <1>9, <1>12, <1>13, <1>14, CheckpointKeeps, GroupConstants

\* Before anything is backed up the files and containers are as they were.
LEMMA AbortsKeep == GroupInv /\ (Abort \/ ResolveSave \/ SavesResolved) => GroupInv'
<1> SUFFICES ASSUME GroupInv, Abort \/ ResolveSave \/ SavesResolved PROVE GroupInv'
  OBVIOUS
<1>1. PICK a \in {"abort", "unsaved"} : at = a  BY DEF Abort, ResolveSave, SavesResolved
<1>2. a \in UndoPlaces /\ {"unsaved", "rolled", "abortRows", "restartOld"} \subseteq UndoPlaces
  BY DEF UndoPlaces, AbortPlaces
<1>3. PICK t \in Txns, n \in Members : UndoAt(a, t, n)  BY <1>1, <1>2, UndoPicks
<1>4. /\ t = hold /\ Untouched(t) /\ Valid(t) /\ Describes(t) /\ t.phase = "rolling_back"
      /\ t.worlds \in [Members -> SUBSET WorldMarks] /\ t.marks \subseteq GroupMarks
  BY <1>1, <1>3 DEF UndoAt, UndoPlace, AbortPlaces, Txns
<1>5. AsBefore /\ ~staging
  <2>1. \A m \in Members : "updateIntent" \notin t.worlds[m] /\ "restoreIntent" \notin t.worlds[m] /\ Member140(t, m)
    BY <1>4 DEF Valid, Untouched, Describes
  <2> QED BY <1>4, <2>1 DEF Member140, AsBefore, Describes, Untouched
<1>a. CASE Abort
  <2>1. UNCHANGED <<kind, owners, worlds, published, gfaults, gstops, refused>> /\ (Trouble \/ To("unsaved", 1))
    BY <1>a DEF Abort, Pass, Fails
  <2>2. UndoPlace("unsaved", 1, t)  BY <1>4 DEF UndoPlace, AbortPlaces, RestorePlaces, EndPlaces
  <2> QED BY <1>2, <1>3, <2>1, <2>2, UndoPass, GroupConstants
<1>r. CASE ResolveSave
  <2>1. CASE Fails
    <3>1. UNCHANGED <<kind, owners, worlds, published, gfaults, gstops, refused>> /\ Trouble
      BY <2>1 DEF Fails
    <3> QED BY <1>2, <1>3, <3>1, UndoPass, GroupConstants
  <2>2. CASE ~Fails
    <3> DEFINE w == CHOOSE m \in Unsaved : \A x \in Unsaved : m <= x
    <3>1. Unsaved # {} /\ Unsaved \subseteq Members /\ command[w] = "saved"
          /\ Checkpoint(Mark(Set(hold, "rolling_back", {}), w, {"saved"}), "unsaved", 1)
      BY <1>r, <2>2, Zenon DEF ResolveSave, Unsaved
    <3>2. w \in Unsaved
      <4>1. Unsaved \in SUBSET Nat /\ Unsaved # {}  BY <3>1, GroupConstants
      <4>2. \E m \in Unsaved : \A x \in Unsaved : m <= x  BY <4>1, LeastMember
      <4> QED BY <4>2
    <3>3. PICK m \in Members : m = w /\ "saveIntent" \in t.worlds[m] /\ command[m] = "saved"
      BY <1>4, <3>1, <3>2 DEF Unsaved
    <3>4. PICK v, u : v = Set(t, "rolling_back", {}) /\ u = Mark(v, m, {"saved"})  OBVIOUS
    <3>5. v \in Txns /\ v.phase = "rolling_back" /\ v.marks = t.marks /\ v.worlds = t.worlds
      BY <3>4, PhaseFields DEF Phases, Undoing
    <3>6. MarkedAs(v, u, m, "saved")  BY <3>4, <3>5, MarkFields DEF WorldMarks
    <3>7. Valid(v)  BY <1>4, <3>5 DEF Valid, HasStopIntent, Backed
    <3>8. MayMark(v, m, "saved")  BY <3>3, <3>5 DEF MayMark
    <3>9. Valid(u) /\ \A x \in Members : v.worlds[x] \subseteq u.worlds[x]
      BY <3>5, <3>6, <3>7, <3>8, MarkValid DEF WorldMarks, Final
    <3>10. u \in Txns /\ u.phase = "rolling_back" /\ u.marks = t.marks
      BY <3>5, <3>6 DEF MarkedAs
    <3>11. UndoPlace("unsaved", 1, u)
      BY <1>4, <3>10 DEF UndoPlace, AbortPlaces, RestorePlaces, EndPlaces, Untouched
    <3>12. ASSUME NEW x \in Members
           PROVE  /\ "saved" \in u.worlds[x] => "saved" \in t.worlds[x] \/ command[x] = "saved"
                  /\ "restored" \in u.worlds[x] => "restored" \in t.worlds[x]
                  /\ "updated" \in u.worlds[x] => "updated" \in t.worlds[x]
      <4>1. CASE x = m  BY <3>3, <3>5, <3>6, <4>1 DEF MarkedAs
      <4>2. CASE x # m  BY <3>5, <3>6, <4>2 DEF MarkedAs
      <4> QED BY <4>1, <4>2
    <3>13. Checkpoint(u, "unsaved", 1)  BY <1>4, <3>1, <3>3, <3>4
    <3>14. at \in UndoPlaces  BY <1>1, <1>2
    <3> QED BY <1>2, <1>4, <3>5, <3>9, <3>10, <3>11, <3>12, <3>13, <3>14, UndoCheck, GroupConstants
  <2> QED BY <2>1, <2>2
<1>s. CASE SavesResolved
  <2>1. CASE ~HasStopIntent(hold)
    <3>1. UNCHANGED <<kind, owners, worlds, published, gfaults, gstops, refused>> /\ To("rolled", 1)
      BY <1>s, <2>1 DEF SavesResolved, Pass
    <3>2. RowsAgree  BY <1>4, <2>1 DEF Describes, RowsAgree, Original, Serves
    <3>3. UndoPlace("rolled", 1, t)
      BY <1>4, <1>5, <3>2 DEF UndoPlace, AbortPlaces, RestorePlaces, EndPlaces, Untouched
    <3> QED BY <1>2, <1>3, <3>1, <3>3, UndoPass, GroupConstants
  <2>2. CASE HasStopIntent(hold) /\ Keeping
    <3>1. PICK u : u = Set(hold, "rolling_back", {"keep"})  OBVIOUS
    <3>2. u \in Txns /\ u.phase = "rolling_back" /\ u.marks = t.marks \cup {"keep"} /\ u.worlds = t.worlds
      BY <1>4, <3>1, SetFields DEF Phases, Undoing, GroupMarks
    <3>3. Valid(u) /\ HasStopIntent(u)
      BY <1>4, <2>2, <3>2 DEF Valid, HasStopIntent, Backed, Undoing
    <3>4. UndoPlace("abortRows", 1, u)
      BY <1>4, <3>2, <3>3 DEF UndoPlace, AbortPlaces, RestorePlaces, EndPlaces, Untouched
    <3>5. Checkpoint(u, "abortRows", 1)  BY <1>s, <2>2, <3>1 DEF SavesResolved
    <3>6. at \in UndoPlaces  BY <1>1, <1>2
    <3> QED BY <1>2, <1>4, <3>2, <3>3, <3>4, <3>5, <3>6, UndoCheck, GroupConstants
  <2>3. CASE HasStopIntent(hold) /\ ~Keeping
    <3>1. UNCHANGED <<kind, owners, worlds, published, gfaults, gstops, refused>> /\ To("restartOld", 1)
      BY <1>s, <2>3 DEF SavesResolved, Pass
    <3>2. UndoPlace("restartOld", 1, t)
      BY <1>4, <2>3 DEF UndoPlace, AbortPlaces, RestorePlaces, EndPlaces
    <3> QED BY <1>2, <1>3, <3>1, <3>2, UndoPass, GroupConstants
  <2> QED BY <2>1, <2>2, <2>3
<1> QED BY <1>a, <1>r, <1>s

\* An abort finds the worlds as they were captured.
LEMMA UntouchedAsBefore ==
    ASSUME NEW t, Valid(t), Describes(t), Untouched(t) PROVE AsBefore /\ ~staging
<1>1. \A m \in Members : "updateIntent" \notin t.worlds[m] /\ "restoreIntent" \notin t.worlds[m] /\ Member140(t, m)
  BY DEF Valid, Untouched, Describes
<1> QED BY <1>1 DEF Member140, AsBefore, Describes, Untouched

\* A full rollback has a backup of every world.
LEMMA BackedUp ==
    ASSUME NEW a \in UndoPlaces \ (AbortPlaces \cup {"rolled"}), NEW t \in Txns, NEW n \in Members, UndoAt(a, t, n)
    PROVE  /\ ~Untouched(t) /\ "stageIntent" \in t.marks /\ HasStopIntent(t)
           /\ \A m \in Members : Backed(t, m)
<1>1. ~Untouched(t)  BY DEF UndoAt, UndoPlace
<1>2. "stageIntent" \in t.marks /\ \A m \in Members : Backed(t, m)
  BY <1>1 DEF UndoAt, Valid, Untouched
<1>3. HasStopIntent(t)  BY <1>2, GroupConstants DEF UndoAt, Valid, Backed, HasStopIntent
<1> QED BY <1>1, <1>2, <1>3

LEMMA RestartOldKeeps == GroupInv /\ RestartOriginals => GroupInv'
<1> SUFFICES ASSUME GroupInv, RestartOriginals PROVE GroupInv'
  OBVIOUS
<1>1. at = "restartOld" /\ {"restartOld", "abortRows"} \subseteq UndoPlaces
  BY DEF RestartOriginals, UndoPlaces, AbortPlaces
<1>2. PICK t \in Txns, n \in Members : UndoAt("restartOld", t, n)  BY <1>1, UndoPicks
<1>3. HasStopIntent(t) /\ Untouched(t) /\ t.phase = "rolling_back"
  BY <1>2 DEF UndoAt, UndoPlace, AbortPlaces
<1>4. PICK s \in SUBSET Members :
          /\ runs' = [w \in Members |-> IF w \in s /\ ~Serves(w) THEN "again" ELSE runs[w]]
          /\ UNCHANGED <<image, content, command, staging, rows, kind, owners, published, gstops, refused>>
          /\ Fault \/ UNCHANGED gfaults
          /\ Trouble \/ To("abortRows", 1)
  BY DEF RestartOriginals, BringUp, Aside
<1>5. WorldTypes' /\ FirstAreLive'  BY <1>2, <1>4 DEF UndoAt, WorldTypes, FirstAreLive, Live
<1>6. Describes(t)'  BY <1>2, <1>3, <1>4, RunsSay DEF UndoAt
<1>7. UndoPlace("abortRows", 1, t)'
  BY <1>3 DEF UndoPlace, AbortPlaces, RestorePlaces, EndPlaces, HasStopIntent, Untouched
<1> QED BY <1>1, <1>2, <1>4, <1>5, <1>6, <1>7, UndoWorld, GroupConstants

LEMMA AbortRowsKeep == GroupInv /\ AbortRows => GroupInv'
<1> SUFFICES ASSUME GroupInv, AbortRows PROVE GroupInv'
  OBVIOUS
<1>1. at = "abortRows" /\ {"abortRows", "rolled"} \subseteq UndoPlaces
  BY DEF AbortRows, UndoPlaces, AbortPlaces
<1>2. PICK t \in Txns, n \in Members : UndoAt("abortRows", t, n)  BY <1>1, UndoPicks
<1>3. HasStopIntent(t) /\ Untouched(t) /\ t.phase = "rolling_back" /\ AsBefore /\ ~staging
  BY <1>2, UntouchedAsBefore DEF UndoAt, UndoPlace, AbortPlaces
<1>4. CASE Fails
  <2>1. UNCHANGED <<kind, owners, worlds, published, gfaults, gstops, refused>> /\ Trouble
    BY <1>4 DEF Fails
  <2> QED BY <1>1, <1>2, <2>1, UndoPass
<1>5. CASE ~Fails
  <2>1. PICK new : new = [m \in Members |-> IF Serves(m) THEN "running" ELSE "stopped"]  OBVIOUS
  <2>2. SetRows(new, "rolled")  BY <1>5, <2>1 DEF AbortRows
  <2>3. /\ UNCHANGED <<image, content, command, staging, runs, kind, owners, published, gstops, refused>>
        /\ Fault \/ UNCHANGED gfaults
        /\ Trouble \/ (To("rolled", 1) /\ rows' = new)
        /\ rows' = new \/ \E m \in Members : rows' \in {rows, [rows EXCEPT ![m] = new[m]]}
    BY <2>2 DEF SetRows, Aside
  <2>4. new \in [Members -> {"running", "stopped"}]  BY <2>1
  <2>5. WorldTypes' /\ FirstAreLive'
    <3>1. rows' \in [Members -> {"running", "stopped"}]
      BY <1>2, <2>3, <2>4 DEF UndoAt, WorldTypes
    <3> QED BY <1>2, <2>3, <3>1 DEF UndoAt, WorldTypes, FirstAreLive, Live
  <2>6. Describes(t)'  BY <1>2, <1>3, <2>3, RunsSay DEF UndoAt
  <2>7. rows' = new => RowsAgree'  BY <2>1, <2>3 DEF RowsAgree, Serves
  <2>8. AsBefore' /\ ~staging'  BY <1>3, <2>3 DEF AsBefore, OldImage, Boxed
  <2>9. rows' = new => UndoPlace("rolled", 1, t)'
    BY <1>3, <2>7, <2>8 DEF UndoPlace, AbortPlaces, RestorePlaces, EndPlaces, Untouched
  <2> QED BY <1>1, <1>2, <2>3, <2>5, <2>6, <2>9, UndoWorld, GroupConstants
<1> QED BY <1>4, <1>5

LEMMA KeepStoppedKeeps == GroupInv /\ KeepStopped => GroupInv'
<1> SUFFICES ASSUME GroupInv, KeepStopped PROVE GroupInv'
  OBVIOUS
<1>1. at = "keep" /\ {"keep", "halt"} \subseteq UndoPlaces /\ "keep" \in UndoPlaces \ (AbortPlaces \cup {"rolled"})
  BY DEF KeepStopped, UndoPlaces, AbortPlaces
<1>2. PICK t \in Txns, n \in Members : UndoAt("keep", t, n)  BY <1>1, UndoPicks
<1>3. ~Untouched(t) /\ HasStopIntent(t)  BY <1>1, <1>2, BackedUp
<1>4. t = hold /\ t.phase = "rolling_back" /\ Valid(t)  BY <1>2 DEF UndoAt
<1>5. CASE Keeping
  <2>1. PICK u : u = Set(hold, "rolling_back", {"keep"})  OBVIOUS
  <2>2. u \in Txns /\ u.phase = "rolling_back" /\ u.marks = t.marks \cup {"keep"} /\ u.worlds = t.worlds
    BY <1>4, <2>1, SetFields DEF Phases, Undoing, GroupMarks
  <2>3. Valid(u)  BY <1>3, <1>4, <2>2 DEF Valid, HasStopIntent, Backed, Undoing
  <2>4. UndoPlace("halt", 1, u)
    BY <1>3, <2>2 DEF UndoPlace, AbortPlaces, RestorePlaces, EndPlaces, Untouched
  <2>5. Checkpoint(u, "halt", 1)  BY <1>5, <2>1 DEF KeepStopped
  <2> QED BY <1>1, <1>4, <2>2, <2>3, <2>4, <2>5, UndoCheck, GroupConstants
<1>6. CASE ~Keeping
  <2>1. UNCHANGED <<kind, owners, worlds, published, gfaults, gstops, refused>> /\ To("halt", 1)
    BY <1>6 DEF KeepStopped, Pass
  <2>2. UndoPlace("halt", 1, t)
    BY <1>3, <1>4 DEF UndoPlace, AbortPlaces, RestorePlaces, EndPlaces
  <2> QED BY <1>1, <1>2, <2>1, <2>2, UndoPass, GroupConstants
<1> QED BY <1>5, <1>6

\* Before a restore everything is stopped.
LEMMA HaltKeeps == GroupInv /\ Halt => GroupInv'
<1> SUFFICES ASSUME GroupInv, Halt PROVE GroupInv'
  OBVIOUS
<1>1. at = "halt" /\ {"halt", "restoreIntent", "unstage"} \subseteq UndoPlaces
      /\ "halt" \in UndoPlaces \ (AbortPlaces \cup {"rolled"})
  BY DEF Halt, UndoPlaces, AbortPlaces, EndPlaces
<1>2. PICK t \in Txns, n \in Members : UndoAt("halt", t, n)  BY <1>1, UndoPicks
<1>3. ~Untouched(t) /\ HasStopIntent(t)  BY <1>1, <1>2, BackedUp
<1>4. t = hold /\ t.phase = "rolling_back" /\ Valid(t) /\ Describes(t)  BY <1>2 DEF UndoAt
<1>5. CASE Fails
  <2>1. UNCHANGED <<kind, owners, worlds, published, gfaults, gstops, refused>> /\ Trouble
    BY <1>5 DEF Fails
  <2> QED BY <1>1, <1>2, <2>1, UndoPass
<1>6. CASE ~Fails
  <2>1. PICK aim \in {"restoreIntent", "unstage"} : aim = IF "changes" \in hold.marks THEN "restoreIntent" ELSE "unstage"
    OBVIOUS
  <2>2. TakeDown(Members, aim, 1)  BY <1>6, <2>1 DEF Halt
  <2>3. /\ UNCHANGED <<image, content, command, staging, rows, kind, owners, published, gstops, refused>>
        /\ \A m \in Members : runs'[m] = runs[m] \/ runs'[m] = "down"
        /\ runs' \in [Members -> {"first", "again", "down", "died"}]
        /\ Fault \/ UNCHANGED gfaults
        /\ Trouble \/ To(aim, 1)
    BY <1>2, <2>2 DEF TakeDown, Aside, UndoAt, WorldTypes
  <2>4. WorldTypes' /\ FirstAreLive'  BY <1>2, <2>3 DEF UndoAt, WorldTypes, FirstAreLive, Live
  <2>5. Describes(t)'  BY <1>2, <1>3, <2>3, RunsSay DEF UndoAt
  <2>6. "changes" \notin t.marks => AsBefore
    <3>1. ASSUME "changes" \notin t.marks
          PROVE \A m \in Members : "updateIntent" \notin t.worlds[m] /\ "restoreIntent" \notin t.worlds[m] /\ Member140(t, m)
      BY <1>4, <3>1 DEF Valid, Describes
    <3> QED BY <3>1 DEF Member140, AsBefore
  <2>7. "changes" \notin t.marks => AsBefore'  BY <2>3, <2>6 DEF AsBefore, OldImage, Boxed
  <2>8. UndoPlace(aim, 1, t)'
    BY <1>3, <1>4, <2>1, <2>7 DEF UndoPlace, AbortPlaces, RestorePlaces, EndPlaces, Untouched
  <2> QED BY <1>1, <1>2, <2>1, <2>3, <2>4, <2>5, <2>8, UndoWorld, GroupConstants
<1> QED BY <1>5, <1>6

LEMMA RestoreIntentKeeps == GroupInv /\ RestoreIntent => GroupInv'
<1> SUFFICES ASSUME GroupInv, RestoreIntent PROVE GroupInv'
  OBVIOUS
<1>1. at = "restoreIntent" /\ {"restoreIntent", "unbox"} \subseteq UndoPlaces
      /\ "restoreIntent" \in UndoPlaces \ (AbortPlaces \cup {"rolled"})
  BY DEF RestoreIntent, UndoPlaces, AbortPlaces, RestorePlaces, EndPlaces
<1>2. PICK t \in Txns, n \in Members : UndoAt("restoreIntent", t, n)  BY <1>1, UndoPicks
<1>3. ~Untouched(t) /\ \A m \in Members : Backed(t, m)  BY <1>1, <1>2, BackedUp
<1>4. t = hold /\ t.phase = "rolling_back" /\ Valid(t) /\ "changes" \in t.marks
  BY <1>2 DEF UndoAt, UndoPlace
<1>5. PICK v, u : v = Set(hold, "rolling_back", {}) /\ u = MarkAll(v, {"restoreIntent"})
  OBVIOUS
<1>6. v \in Txns /\ v.phase = "rolling_back" /\ v.marks = t.marks /\ v.worlds = t.worlds
  BY <1>4, <1>5, PhaseFields DEF Phases, Undoing
<1>7. /\ u \in Txns /\ u.phase = "rolling_back" /\ u.marks = t.marks
      /\ \A m \in Members : u.worlds[m] = t.worlds[m] \cup {"restoreIntent"}
  BY <1>5, <1>6, MarkAllFields DEF WorldMarks
<1>8. Valid(u)  BY <1>3, <1>4, <1>7 DEF Valid, HasStopIntent, Backed, Undoing
<1>9. UndoPlace("unbox", 1, u)
  BY <1>3, <1>4, <1>7 DEF UndoPlace, AbortPlaces, RestorePlaces, EndPlaces, Untouched
<1>10. Checkpoint(u, "unbox", 1)  BY <1>5 DEF RestoreIntent
<1>11. ASSUME NEW m \in Members
       PROVE  /\ t.worlds[m] \subseteq u.worlds[m]
              /\ "saved" \in u.worlds[m] => "saved" \in t.worlds[m]
              /\ "restored" \in u.worlds[m] => "restored" \in t.worlds[m]
              /\ "updated" \in u.worlds[m] => "updated" \in t.worlds[m]
  BY <1>7
<1> QED BY <1>1, <1>4, <1>7, <1>8, <1>9, <1>10, <1>11, UndoCheck, GroupConstants

\* every member is to be restored: its container says nothing
LEMMA ImagesSay ==
    ASSUME NEW t, Describes(t), HasStopIntent(t), UNCHANGED <<kind, content, command, staging>>,
           \A m \in Members : "restoreIntent" \in t.worlds[m]
    PROVE  Describes(t)'
<1>1. \A m \in Members : Member140(t, m)'  BY DEF Describes, Member140
<1>2. HasStopIntent(t)'  BY DEF HasStopIntent
<1>3. ("stageIntent" \notin t.marks \/ "stageRemoved" \in t.marks => ~staging)'
  BY DEF Describes
<1> QED BY <1>1, <1>2, <1>3 DEF Describes

\* In the middle of a restore: every world has it announced, those before are done.
LEMMA RestoringFacts ==
    ASSUME NEW a \in RestorePlaces, NEW t \in Txns, NEW n \in Members, UndoAt(a, t, n)
    PROVE  /\ ~Untouched(t) /\ HasStopIntent(t) /\ t = hold /\ n = member /\ t.phase = "rolling_back"
           /\ \A m \in Members : "restoreIntent" \in t.worlds[m]
           /\ a \in {"restore", "refill", "restored"} => \A m \in Members : m < n => "restored" \in t.worlds[m]
           /\ a = "restored" => content[n] = "old"
           /\ a = "recreate" => \A m \in Members : content[m] = "old" /\ "restored" \in t.worlds[m]
           /\ Valid(t) /\ Describes(t) /\ "changes" \in t.marks
<1>1. a \in UndoPlaces \ (AbortPlaces \cup {"rolled"})
  BY DEF UndoPlaces, AbortPlaces, RestorePlaces, EndPlaces
<1>2. ~Untouched(t) /\ HasStopIntent(t)  BY <1>1, BackedUp
<1>3. /\ UndoPlace(a, n, t) /\ t = hold /\ n = member /\ t.phase = "rolling_back" /\ Valid(t) /\ Describes(t)
  BY DEF UndoAt
<1>4. \A m \in Members : "restoreIntent" \in t.worlds[m]  BY <1>3 DEF UndoPlace
<1>5. "changes" \in t.marks  BY <1>3, <1>4, GroupConstants DEF Valid
<1>6. a = "recreate" => \A m \in Members : "restored" \in t.worlds[m] /\ Member140(t, m)
  BY <1>3, <1>5 DEF UndoPlace, Describes
<1> QED BY <1>2, <1>3, <1>4, <1>5, <1>6 DEF UndoPlace, Member140

LEMMA RemoveAllKeeps == GroupInv /\ RemoveAllServices => GroupInv'
<1> SUFFICES ASSUME GroupInv, RemoveAllServices PROVE GroupInv'
  OBVIOUS
<1>1. at = "unbox" /\ {"unbox", "restore"} \subseteq UndoPlaces /\ "unbox" \in RestorePlaces
  BY DEF RemoveAllServices, Replaced, UndoPlaces, RestorePlaces
<1>2. PICK t \in Txns, n \in Members : UndoAt("unbox", t, n)  BY <1>1, UndoPicks
<1>3. /\ ~Untouched(t) /\ HasStopIntent(t) /\ t.phase = "rolling_back" /\ Describes(t)
      /\ \A m \in Members : "restoreIntent" \in t.worlds[m]
  BY <1>1, <1>2, RestoringFacts
<1>4. /\ UNCHANGED <<runs, content, command, staging, rows, kind, owners, published, gstops, refused>>
      /\ Fault \/ UNCHANGED gfaults
      /\ Trouble \/ To("restore", 1)
      /\ \/ image' = [m \in Members |-> "none"]
         \/ \E s \in SUBSET Members : image' = [m \in Members |-> IF m \in s THEN [k \in Members |-> "none"][m] ELSE image[m]]
  BY DEF RemoveAllServices, Replaced, Aside
<1>5. WorldTypes' /\ FirstAreLive'
  <2>1. image' \in [Members -> {"none", "old", "new"}]  BY <1>2, <1>4 DEF UndoAt, WorldTypes
  <2> QED BY <1>2, <1>4, <2>1 DEF UndoAt, WorldTypes, FirstAreLive, Live
<1>6. Describes(t)'  BY <1>3, <1>4, ImagesSay
<1>7. UndoPlace("restore", 1, t)'
  BY <1>3, GroupConstants DEF UndoPlace, AbortPlaces, RestorePlaces, EndPlaces, Untouched, Members
<1> QED BY <1>1, <1>2, <1>4, <1>5, <1>6, <1>7, UndoWorld, GroupConstants

\* The last world is followed by none.
LEMMA NextMember ==
    ASSUME NEW n \in Members
    PROVE  /\ n < GroupSize => n + 1 \in Members /\ \A m \in Members : m < n + 1 => m < n \/ m = n
           /\ ~(n < GroupSize) => \A m \in Members : m < n \/ m = n
BY GroupConstants DEF Members

LEMMA NotRestoredKeeps == GroupInv /\ NotRestored => GroupInv'
<1> SUFFICES ASSUME GroupInv, NotRestored PROVE GroupInv'
  OBVIOUS
<1>1. at = "restore" /\ {"restore", "recreate"} \subseteq UndoPlaces /\ "restore" \in RestorePlaces
  BY DEF NotRestored, UndoPlaces, RestorePlaces
<1>2. PICK t \in Txns, n \in Members : UndoAt("restore", t, n)  BY <1>1, UndoPicks
<1>3. /\ ~Untouched(t) /\ t.phase = "rolling_back" /\ t = hold /\ n = member
      /\ \A m \in Members : "restoreIntent" \in t.worlds[m] /\ (m < n => "restored" \in t.worlds[m])
  BY <1>1, <1>2, RestoringFacts
<1>4. /\ UNCHANGED <<kind, owners, worlds, published, gfaults, gstops, refused>>
      /\ "restored" \in t.worlds[n] /\ Following("restore", "recreate")
  BY <1>3 DEF NotRestored
<1>5. CASE n < GroupSize
  <2>1. PICK k \in Members : k = n + 1 /\ \A m \in Members : m < k => m < n \/ m = n
    BY <1>5, NextMember
  <2>2. To("restore", k)  BY <1>3, <1>4, <1>5, <2>1 DEF Following
  <2>3. UndoPlace("restore", k, t)
    BY <1>3, <1>4, <2>1 DEF UndoPlace, AbortPlaces, RestorePlaces, EndPlaces
  <2> QED BY <1>1, <1>2, <1>4, <2>2, <2>3, UndoPass
<1>6. CASE ~(n < GroupSize)
  <2>1. \A m \in Members : "restored" \in t.worlds[m]  BY <1>3, <1>4, <1>6, NextMember
  <2>2. To("recreate", 1)  BY <1>3, <1>4, <1>6 DEF Following
  <2>3. UndoPlace("recreate", 1, t)
    BY <1>3, <2>1 DEF UndoPlace, AbortPlaces, RestorePlaces, EndPlaces
  <2> QED BY <1>1, <1>2, <1>4, <2>2, <2>3, UndoPass, GroupConstants
<1> QED BY <1>5, <1>6

\* A member's files are emptied and unpacked again.
LEMMA RestoreMemberKeeps == GroupInv /\ RestoreMember => GroupInv'
<1> SUFFICES ASSUME GroupInv, RestoreMember PROVE GroupInv'
  OBVIOUS
<1>1. PICK from, to, aim : /\ Rewrite(from, to, aim)
                           /\ <<from, to, aim>> \in {<<"restore", "purged", "refill">>, <<"refill", "old", "restored">>}
                           /\ from = "restore" => "restored" \notin hold.worlds[member]
  BY DEF RestoreMember
<1>2. at = from /\ {from, aim} \subseteq UndoPlaces /\ from \in RestorePlaces
  BY <1>1 DEF Rewrite, UndoPlaces, RestorePlaces
<1>3. PICK t \in Txns, n \in Members : UndoAt(from, t, n)  BY <1>2, UndoPicks
<1>4. /\ ~Untouched(t) /\ t.phase = "rolling_back" /\ t = hold /\ n = member /\ HasStopIntent(t) /\ Describes(t)
      /\ \A m \in Members : "restoreIntent" \in t.worlds[m] /\ (m < n => "restored" \in t.worlds[m])
  BY <1>1, <1>2, <1>3, RestoringFacts
<1>5. /\ UNCHANGED <<image, runs, command, staging, rows, kind, owners, published, gstops, refused>>
      /\ Fault \/ UNCHANGED gfaults
      /\ content' \in {content, [content EXCEPT ![n] = to]}
      /\ Trouble \/ (To(aim, n) /\ content' = [content EXCEPT ![n] = to])
  BY <1>1, <1>4 DEF Rewrite, Aside
<1>6. WorldTypes' /\ FirstAreLive'
  <2>1. content' \in [Members -> {"old", "mixed", "purged", "new"}]
    BY <1>1, <1>3, <1>5 DEF UndoAt, WorldTypes
  <2> QED BY <1>3, <1>5, <2>1 DEF UndoAt, WorldTypes, FirstAreLive, Live
<1>7. Describes(t)'
  <2>1. \A m \in Members : m # n => content'[m] = content[m] /\ image'[m] = image[m]
    BY <1>3, <1>5 DEF UndoAt, WorldTypes
  <2>2. "restored" \notin t.worlds[n] \/ content'[n] = "old"
    <3>1. "restored" \in t.worlds[n] => content[n] = "old" /\ from = "refill"
      BY <1>1, <1>4 DEF Describes, Member140
    <3> QED BY <1>1, <1>3, <1>5, <3>1 DEF UndoAt, WorldTypes
  <2> QED BY <1>4, <1>5, <2>1, <2>2, MemberSays
<1>8. content' = [content EXCEPT ![n] = to] => UndoPlace(aim, n, t)'
  <2>1. content' = [content EXCEPT ![n] = to] => content'[n] = to
    BY <1>3 DEF UndoAt, WorldTypes
  <2> QED BY <1>1, <1>4, <2>1 DEF UndoPlace, AbortPlaces, RestorePlaces, EndPlaces, Untouched
<1> QED BY <1>2, <1>3, <1>5, <1>6, <1>7, <1>8, UndoWorld

LEMMA RestoredKeeps == GroupInv /\ Restored140 => GroupInv'
<1> SUFFICES ASSUME GroupInv, Restored140 PROVE GroupInv'
  OBVIOUS
<1>1. at = "restored" /\ {"restored", "restore", "recreate"} \subseteq UndoPlaces /\ "restored" \in RestorePlaces
  BY DEF Restored140, UndoPlaces, RestorePlaces
<1>2. PICK t \in Txns, n \in Members : UndoAt("restored", t, n)  BY <1>1, UndoPicks
<1>3. /\ ~Untouched(t) /\ t.phase = "rolling_back" /\ t = hold /\ n = member /\ content[n] = "old" /\ Valid(t)
      /\ \A m \in Members : "restoreIntent" \in t.worlds[m] /\ (m < n => "restored" \in t.worlds[m])
  BY <1>1, <1>2, RestoringFacts
<1>4. PICK u : u = Mark(t, n, {"restored"})  OBVIOUS
<1>5. MarkedAs(t, u, n, "restored")  BY <1>4, MarkFields DEF WorldMarks
<1>6. Valid(u) /\ \A m \in Members : t.worlds[m] \subseteq u.worlds[m]
  BY <1>3, <1>5, MarkValid DEF MayMark, WorldMarks, Final
<1>7. u \in Txns /\ u.phase = "rolling_back" /\ u.marks = t.marks /\ "restored" \in u.worlds[n]
  BY <1>3, <1>5 DEF MarkedAs
<1>8. ASSUME NEW m \in Members
      PROVE  /\ "saved" \in u.worlds[m] => "saved" \in t.worlds[m]
             /\ "restored" \in u.worlds[m] => "restored" \in t.worlds[m] \/ content[m] = "old"
             /\ "updated" \in u.worlds[m] => "updated" \in t.worlds[m]
  <2>1. CASE m = n  BY <1>3, <1>5, <2>1 DEF MarkedAs
  <2>2. CASE m # n  BY <1>5, <2>2 DEF MarkedAs
  <2> QED BY <2>1, <2>2
<1>9. \A m \in Members : "restoreIntent" \in u.worlds[m] /\ (m < n \/ m = n => "restored" \in u.worlds[m])
  BY <1>3, <1>6, <1>7
<1>10. CASE n < GroupSize
  <2>1. PICK k \in Members : k = n + 1 /\ \A m \in Members : m < k => m < n \/ m = n
    BY <1>10, NextMember
  <2>2. Checkpoint(u, "restore", k)  BY <1>3, <1>4, <1>10, <2>1 DEF Restored140
  <2>3. UndoPlace("restore", k, u)
    BY <1>3, <1>7, <1>9, <2>1 DEF UndoPlace, AbortPlaces, RestorePlaces, EndPlaces, Untouched
  <2> QED BY <1>1, <1>3, <1>6, <1>7, <1>8, <2>2, <2>3, UndoCheck
<1>11. CASE ~(n < GroupSize)
  <2>1. \A m \in Members : "restored" \in u.worlds[m]  BY <1>9, <1>11, NextMember
  <2>2. Checkpoint(u, "recreate", 1)  BY <1>3, <1>4, <1>11 DEF Restored140
  <2>3. UndoPlace("recreate", 1, u)
    BY <1>3, <1>7, <1>9, <2>1 DEF UndoPlace, AbortPlaces, RestorePlaces, EndPlaces, Untouched
  <2> QED BY <1>1, <1>3, <1>6, <1>7, <1>8, <2>2, <2>3, UndoCheck, GroupConstants
<1> QED BY <1>10, <1>11

LEMMA RecreateKeeps == GroupInv /\ Recreate140 => GroupInv'
<1> SUFFICES ASSUME GroupInv, Recreate140 PROVE GroupInv'
  OBVIOUS
<1>1. at = "recreate" /\ {"recreate", "unstage"} \subseteq UndoPlaces /\ "recreate" \in RestorePlaces
  BY DEF Recreate140, Replaced, UndoPlaces, RestorePlaces, EndPlaces
<1>2. PICK t \in Txns, n \in Members : UndoAt("recreate", t, n)  BY <1>1, UndoPicks
<1>3. /\ ~Untouched(t) /\ HasStopIntent(t) /\ t.phase = "rolling_back" /\ Describes(t)
      /\ \A m \in Members : "restoreIntent" \in t.worlds[m] /\ content[m] = "old" /\ "restored" \in t.worlds[m]
  BY <1>1, <1>2, RestoringFacts
<1>4. PICK new : new = [m \in Members |-> IF Boxed(m) THEN "old" ELSE "none"]  OBVIOUS
<1>5. /\ UNCHANGED <<runs, content, command, staging, rows, kind, owners, published, gstops, refused>>
      /\ Fault \/ UNCHANGED gfaults
      /\ Trouble \/ (To("unstage", 1) /\ image' = new)
      /\ image' = new \/ \E s \in SUBSET Members : image' = [m \in Members |-> IF m \in s THEN new[m] ELSE image[m]]
  BY <1>4 DEF Recreate140, Replaced, Aside
<1>6. WorldTypes' /\ FirstAreLive'
  <2>1. image' \in [Members -> {"none", "old", "new"}]
    BY <1>2, <1>4, <1>5 DEF UndoAt, WorldTypes
  <2> QED BY <1>2, <1>5, <2>1 DEF UndoAt, WorldTypes, FirstAreLive, Live
<1>7. Describes(t)'  BY <1>3, <1>5, ImagesSay
<1>8. image' = new => AsBefore'  BY <1>3, <1>4, <1>5 DEF AsBefore, OldImage, Boxed
<1>9. image' = new => UndoPlace("unstage", 1, t)'
  BY <1>3, <1>8 DEF UndoPlace, AbortPlaces, RestorePlaces, EndPlaces, Untouched
<1> QED BY <1>1, <1>2, <1>5, <1>6, <1>7, <1>9, UndoWorld, GroupConstants

\* the end of a rollback: everything is as before, but the staging volume and who serves
LEMMA EndFacts ==
    ASSUME NEW a \in EndPlaces, NEW t \in Txns, NEW n \in Members, UndoAt(a, t, n)
    PROVE  /\ ~Untouched(t) /\ HasStopIntent(t) /\ t = hold /\ t.phase = "rolling_back" /\ AsBefore
           /\ "changes" \in t.marks => \A m \in Members : "restored" \in t.worlds[m]
           /\ a # "unstage" => ~staging
           /\ "stageIntent" \in t.marks /\ Valid(t) /\ Describes(t) /\ WorldTypes /\ FirstAreLive
<1>1. a \in UndoPlaces \ (AbortPlaces \cup {"rolled"})
  BY DEF UndoPlaces, AbortPlaces, RestorePlaces, EndPlaces
<1>2. ~Untouched(t) /\ HasStopIntent(t) /\ "stageIntent" \in t.marks  BY <1>1, BackedUp
<1> QED BY <1>2 DEF UndoAt, UndoPlace, EndPlaces

LEMMA UnstageKeeps == GroupInv /\ (RemoveStaging \/ NoStaging) => GroupInv'
<1> SUFFICES ASSUME GroupInv, RemoveStaging \/ NoStaging PROVE GroupInv'
  OBVIOUS
<1>1. at = "unstage" /\ {"unstage", "unstaged", "revive"} \subseteq UndoPlaces /\ "unstage" \in EndPlaces
  BY DEF RemoveStaging, NoStaging, UndoPlaces, EndPlaces
<1>2. PICK t \in Txns, n \in Members : UndoAt("unstage", t, n)  BY <1>1, UndoPicks
<1>3. /\ ~Untouched(t) /\ HasStopIntent(t) /\ t = hold /\ t.phase = "rolling_back" /\ AsBefore
      /\ "changes" \in t.marks => \A m \in Members : "restored" \in t.worlds[m]
      /\ Valid(t) /\ Describes(t) /\ WorldTypes /\ FirstAreLive
  BY <1>1, <1>2, EndFacts
<1>r. CASE RemoveStaging
  <2>1. /\ UNCHANGED <<image, runs, content, command, rows, kind, owners, published, gstops, refused>>
        /\ Fault \/ UNCHANGED gfaults
        /\ staging' \in {staging, FALSE}
        /\ Trouble \/ (To("unstaged", 1) /\ ~staging')
    BY <1>r DEF RemoveStaging, Aside
  <2>2. WorldTypes' /\ FirstAreLive'
    <3>1. staging' \in BOOLEAN  BY <1>3, <2>1, Zenon DEF WorldTypes
    <3> QED BY <1>3, <2>1, <3>1 DEF WorldTypes, FirstAreLive, Live
  <2>3. Describes(t)'
    <3>1. \A m \in Members : Member140(t, m)'
      BY <1>3, <2>1 DEF Describes, Member140, OldImage, NewImage, Boxed
    <3>2. HasStopIntent(t)'  BY <1>3 DEF HasStopIntent
    <3>3. ("stageIntent" \notin t.marks \/ "stageRemoved" \in t.marks => ~staging)'
      BY <1>3, <2>1, Zenon DEF Describes
    <3> QED BY <3>1, <3>2, <3>3 DEF Describes
  <2>4. AsBefore'  BY <1>3, <2>1 DEF AsBefore, OldImage, Boxed
  <2>5. ~staging' => UndoPlace("unstaged", 1, t)'
    BY <1>3, <2>4 DEF UndoPlace, AbortPlaces, RestorePlaces, EndPlaces, Untouched
  <2> QED BY <1>1, <1>2, <2>1, <2>2, <2>3, <2>5, UndoWorld, GroupConstants
<1>n. CASE NoStaging
  <2>1. UNCHANGED <<kind, owners, worlds, published, gfaults, gstops, refused>> /\ To("revive", 1) /\ ~Staged
    BY <1>n DEF NoStaging, Pass
  <2>2. ~staging  BY <1>3, <2>1 DEF Staged, Describes
  <2>3. UndoPlace("revive", 1, t)
    BY <1>3, <2>2 DEF UndoPlace, AbortPlaces, RestorePlaces, EndPlaces
  <2> QED BY <1>1, <1>2, <2>1, <2>3, UndoPass, GroupConstants
<1> QED BY <1>r, <1>n

LEMMA StageRemovedKeeps == GroupInv /\ StageRemoved => GroupInv'
<1> SUFFICES ASSUME GroupInv, StageRemoved PROVE GroupInv'
  OBVIOUS
<1>1. at = "unstaged" /\ {"unstaged", "revive"} \subseteq UndoPlaces /\ "unstaged" \in EndPlaces
  BY DEF StageRemoved, UndoPlaces, EndPlaces
<1>2. PICK t \in Txns, n \in Members : UndoAt("unstaged", t, n)  BY <1>1, UndoPicks
<1>3. /\ ~Untouched(t) /\ t = hold /\ t.phase = "rolling_back" /\ AsBefore /\ ~staging /\ "stageIntent" \in t.marks
      /\ "changes" \in t.marks => \A m \in Members : "restored" \in t.worlds[m]
      /\ Valid(t)
  BY <1>1, <1>2, EndFacts
<1>4. PICK u : u = Set(hold, "rolling_back", {"stageRemoved"})  OBVIOUS
<1>5. u \in Txns /\ u.phase = "rolling_back" /\ u.marks = t.marks \cup {"stageRemoved"} /\ u.worlds = t.worlds
  BY <1>3, <1>4, SetFields DEF Phases, Undoing, GroupMarks
<1>6. Valid(u)  BY <1>3, <1>5 DEF Valid, HasStopIntent, Backed, Undoing
<1>7. UndoPlace("revive", 1, u)
  BY <1>3, <1>5 DEF UndoPlace, AbortPlaces, RestorePlaces, EndPlaces, Untouched
<1>8. Checkpoint(u, "revive", 1)  BY <1>4 DEF StageRemoved
<1> QED BY <1>1, <1>3, <1>5, <1>6, <1>7, <1>8, UndoCheck, GroupConstants

\* After it the servers that ran are brought back, unless the group stays stopped.
LEMMA ReviveKeeps == GroupInv /\ Revive => GroupInv'
<1> SUFFICES ASSUME GroupInv, Revive PROVE GroupInv'
  OBVIOUS
<1>1. at = "revive" /\ {"revive", "reviveRows"} \subseteq UndoPlaces /\ "revive" \in EndPlaces
  BY DEF Revive, UndoPlaces, EndPlaces
<1>2. PICK t \in Txns, n \in Members : UndoAt("revive", t, n)  BY <1>1, UndoPicks
<1>3. /\ ~Untouched(t) /\ HasStopIntent(t) /\ t = hold /\ t.phase = "rolling_back" /\ AsBefore /\ ~staging
      /\ "changes" \in t.marks => \A m \in Members : "restored" \in t.worlds[m]
      /\ Valid(t) /\ Describes(t) /\ WorldTypes /\ FirstAreLive
  BY <1>1, <1>2, EndFacts
<1>4. CASE Fails
  <2>1. UNCHANGED <<kind, owners, worlds, published, gfaults, gstops, refused>> /\ Trouble
    BY <1>4 DEF Fails
  <2> QED BY <1>1, <1>2, <2>1, UndoPass
<1>5. CASE ~Fails
  <2>1. PICK subject : subject = IF Keeping THEN {} ELSE {m \in Members : Live(m)}  OBVIOUS
  <2>2. BringUp(subject, "reviveRows") /\ \A m \in Members : ~Serves(m)
    BY <1>5, <2>1 DEF Revive
  <2>3. PICK s \in SUBSET subject :
           /\ runs' = [w \in Members |-> IF w \in s /\ ~Serves(w) THEN "again" ELSE runs[w]]
           /\ UNCHANGED <<image, content, command, staging, rows, kind, owners, published, gstops, refused>>
           /\ Fault \/ UNCHANGED gfaults
           /\ Trouble \/ (To("reviveRows", 1) /\ s = subject)
    BY <2>2 DEF BringUp, Aside
  <2>4. WorldTypes' /\ FirstAreLive'  BY <1>3, <2>3 DEF WorldTypes, FirstAreLive, Live
  <2>5. Describes(t)'  BY <1>3, <2>3, RunsSay
  <2>6. AsBefore'  BY <1>3, <2>3 DEF AsBefore, OldImage, Boxed
  <2>7. \A m \in Members : m \notin subject => ~Serves(m)'  BY <2>2, <2>3 DEF Serves
  <2>8. s = subject => \A m \in subject : m \in Members => runs'[m] # "down"  BY <2>2, <2>3
  <2>9. Keeping <=> KeepMarked(t)  BY <1>3 DEF Keeping, KeepMarked
  <2>10. To("reviveRows", 1) /\ s = subject => UndoPlace("reviveRows", 1, t)'
    <3>1. Resting'  BY <2>1, <2>3, <2>7 DEF Resting, Live
    <3>2. To("reviveRows", 1) => KeepMarked(t)' = KeepMarked(t)  BY DEF To, KeepMarked
    <3>3. CASE Keeping
      <4>1. \A m \in Members : ~Serves(m)'  BY <2>1, <2>7, <3>3
      <4> QED BY <1>3, <2>3, <2>6, <2>9, <3>1, <3>2, <3>3, <4>1 DEF UndoPlace, AbortPlaces, RestorePlaces, EndPlaces, Untouched
    <3>4. CASE ~Keeping
      <4>1. s = subject => \A m \in Members : Live(m)' => runs'[m] # "down"
        BY <2>1, <2>3, <2>8, <3>4 DEF Live
      <4> QED BY <1>3, <2>3, <2>6, <2>9, <3>1, <3>2, <3>4, <4>1 DEF UndoPlace, AbortPlaces, RestorePlaces, EndPlaces, Untouched
    <3> QED BY <3>3, <3>4
  <2> QED BY <1>1, <1>2, <2>3, <2>4, <2>5, <2>10, UndoWorld, GroupConstants
<1> QED BY <1>4, <1>5

LEMMA ReviveRowsKeep == GroupInv /\ ReviveRows => GroupInv'
<1> SUFFICES ASSUME GroupInv, ReviveRows PROVE GroupInv'
  OBVIOUS
<1>1. at = "reviveRows" /\ {"reviveRows", "rolled"} \subseteq UndoPlaces /\ "reviveRows" \in EndPlaces
  BY DEF ReviveRows, UndoPlaces, EndPlaces
<1>2. PICK t \in Txns, n \in Members : UndoAt("reviveRows", t, n)  BY <1>1, UndoPicks
<1>3. /\ ~Untouched(t) /\ HasStopIntent(t) /\ t = hold /\ t.phase = "rolling_back" /\ AsBefore /\ ~staging
      /\ "changes" \in t.marks => \A m \in Members : "restored" \in t.worlds[m]
      /\ Valid(t) /\ Describes(t) /\ WorldTypes /\ FirstAreLive
  BY <1>1, <1>2, EndFacts
<1>4. Resting /\ \A m \in Members : IF KeepMarked(t) THEN ~Serves(m) ELSE Live(m) => runs[m] # "down"
  BY <1>2 DEF UndoAt, UndoPlace
<1>5. PICK new : new = IF Keeping THEN [m \in Members |-> "stopped"] ELSE Original  OBVIOUS
<1>6. /\ UNCHANGED <<image, content, command, staging, runs, kind, owners, published, gstops, refused>>
      /\ Fault \/ UNCHANGED gfaults
      /\ Trouble \/ (To("rolled", 1) /\ rows' = new)
      /\ rows' = new \/ \E m \in Members : rows' \in {rows, [rows EXCEPT ![m] = new[m]]}
  BY <1>5 DEF ReviveRows, SetRows, Aside
<1>7. new \in [Members -> {"running", "stopped"}]
  <2>1. Original \in [Members -> {"running", "stopped"}]  BY DEF Original
  <2> QED BY <1>5, <2>1
<1>8. WorldTypes' /\ FirstAreLive'
  <2>1. rows' \in [Members -> {"running", "stopped"}]  BY <1>3, <1>6, <1>7 DEF WorldTypes
  <2> QED BY <1>3, <1>6, <2>1 DEF WorldTypes, FirstAreLive, Live
<1>9. Describes(t)'  BY <1>3, <1>6, RunsSay
<1>10. Keeping <=> KeepMarked(t)  BY <1>3 DEF Keeping, KeepMarked
<1>11. rows' = new => RowsAgree'
  <2>1. \A m \in Members : Serves(m)' = Serves(m) /\ Live(m)' = Live(m) /\ runs'[m] = runs[m]
    BY <1>6 DEF Serves, Live
  <2>2. CASE Keeping  BY <1>4, <1>5, <1>10, <2>1, <2>2 DEF RowsAgree
  <2>3. CASE ~Keeping  BY <1>4, <1>5, <1>10, <2>1, <2>3 DEF RowsAgree, Original, Resting
  <2> QED BY <2>2, <2>3
<1>12. AsBefore'  BY <1>3, <1>6 DEF AsBefore, OldImage, Boxed
<1>13. rows' = new => UndoPlace("rolled", 1, t)'
  BY <1>3, <1>6, <1>11, <1>12 DEF UndoPlace, AbortPlaces, RestorePlaces, EndPlaces, Untouched
<1> QED BY <1>1, <1>2, <1>6, <1>8, <1>9, <1>13, UndoWorld, GroupConstants

LEMMA RolledBackKeeps == GroupInv /\ RolledBackGroup => GroupInv'
<1> SUFFICES ASSUME GroupInv, RolledBackGroup PROVE GroupInv'
  OBVIOUS
<1>1. at = "rolled" /\ "rolled" \in UndoPlaces /\ at \in CheckPlaces /\ at \notin RunSteps
  BY DEF RolledBackGroup, UndoPlaces, CheckPlaces, RunSteps
<1>2. PICK t \in Txns, n \in Members : UndoAt("rolled", t, n)  BY <1>1, UndoPicks
<1>3. /\ t = hold /\ t.phase = "rolling_back" /\ AsBefore /\ ~staging /\ RowsAgree
      /\ "changes" \in t.marks => \A m \in Members : "restored" \in t.worlds[m]
      /\ Valid(t) /\ Describes(t)
  BY <1>2 DEF UndoAt, UndoPlace
<1>4. PICK u : u = Set(hold, "rolled_back", {})  OBVIOUS
<1>5. u \in Txns /\ u.phase = "rolled_back" /\ u.marks = t.marks /\ u.worlds = t.worlds
  BY <1>3, <1>4, PhaseFields DEF Phases, Undoing
<1>6. Valid(u)  BY <1>3, <1>5 DEF Valid, HasStopIntent, Backed, Undoing
<1>7. Describes(u)  BY <1>3, <1>5, SaysMore
<1>8. Phased(u)  BY <1>3, <1>5 DEF Phased, Undoing
<1>9. Where("publish", 1, u)
  BY <1>5 DEF Where, RunSteps, UndoPlaces, AbortPlaces, RestorePlaces, EndPlaces
<1>10. Checkpoint(u, "publish", 1)  BY <1>4 DEF RolledBackGroup
<1> QED BY <1>1, <1>3, <1>5, <1>6, <1>7, <1>8, <1>9, <1>10, CheckpointKeeps, GroupConstants

-----------------------------------------------------------------------------
(* The start, the ends and the recovery: steps that leave the worlds alone. *)

Quiescent == StartPlaces \cup {"release", "down", "rest", "boot", "failed"}

\* A step that leaves the worlds and the transaction alone.
LEMMA StepKeeps ==
    ASSUME GroupInv, UNCHANGED <<kind, worlds, txn, refused>>,
           at' \in GroupPlaces, member' \in Members, turn' \in 0..GroupSize, hold' \in Txns,
           lease' \in [Members -> {"none", "torn", "held"}], manifest' \in Phases \cup {"claiming"},
           published' \in {"none", "checking", "stopping", "succeeded", "failed_rolled_back", "rollback_failed"},
           gfaults' \in 0..GroupFaults, gstops' \in 0..GroupStops,
           txn = NoTxn => manifest' \in {"none", "claiming", "claimed", "claim_failed"},
           manifest' \in Final /\ txn # NoTxn => txn.phase = manifest',
           txn # NoTxn /\ txn.phase \notin Final => \A m \in Members : lease'[m] = "held",
           manifest' = "none" => \A m \in Members : lease'[m] = "none",
           published' = "succeeded" => txn.phase = "committed",
           published' = "failed_rolled_back" => txn.phase \in {"none", "rolled_back", "claim_failed"},
           Starting', Failing', GroupBooting', HoldsTxn', Located'
    PROVE  GroupInv'
<1>1. GTypes'
  <2>1. GroupTypeOK'  BY DEF GroupInv, GTypes, GroupTypeOK, worlds
  <2> QED BY <2>1 DEF GTypes, GroupInv
<1>2. Described'
  <2>1. PICK t : t = txn /\ Valid(t) /\ Describes(t) /\ Phased(t)
    BY Zenon DEF GroupInv, Described
  <2> QED BY <2>1, SaidStays DEF Described
<1>3. OnRecord'
  <2>1. \A m \in Members : runs'[m] = "first" => Live(m)'
    BY DEF GroupInv, OnRecord, worlds, Live
  <2>2. txn # NoTxn => txn.phase # "none"  BY DEF GroupInv, OnRecord
  <2> QED BY <2>1, <2>2 DEF OnRecord, AllHeld
<1> QED BY <1>1, <1>2, <1>3 DEF GroupInv

\* The same where the panel holds no transaction that it goes on with.
LEMMA Leads ==
    ASSUME GroupInv, UNCHANGED <<kind, worlds, txn, refused>>,
           at' \in Quiescent, member' \in Members, turn' \in 0..GroupSize, hold' \in Txns,
           lease' \in [Members -> {"none", "torn", "held"}], manifest' \in Phases \cup {"claiming"},
           published' \in {"none", "checking", "stopping", "succeeded", "failed_rolled_back", "rollback_failed"},
           gfaults' \in 0..GroupFaults, gstops' \in 0..GroupStops,
           txn = NoTxn => manifest' \in {"none", "claiming", "claimed", "claim_failed"},
           manifest' \in Final /\ txn # NoTxn => txn.phase = manifest',
           txn # NoTxn /\ txn.phase \notin Final => \A m \in Members : lease'[m] = "held",
           manifest' = "none" => \A m \in Members : lease'[m] = "none",
           published' = "succeeded" => txn.phase = "committed",
           published' = "failed_rolled_back" => txn.phase \in {"none", "rolled_back", "claim_failed"},
           Starting', Failing', GroupBooting'
    PROVE  GroupInv'
<1>1. at' \in GroupPlaces  BY DEF Quiescent, GroupPlaces
<1>2. PICK a, k, t : a = at' /\ k = member' /\ t = hold' /\ a \in Quiescent  OBVIOUS
<1>3. Where(a, k, t)'
  BY <1>2 DEF Quiescent, Where, StartPlaces, RunSteps, UndoPlaces, AbortPlaces, RestorePlaces, EndPlaces
<1>4. Located'  BY <1>2, <1>3 DEF Located
<1>5. HoldsTxn'
  BY DEF Quiescent, HoldsTxn, StartPlaces, RunSteps, UndoPlaces, AbortPlaces, RestorePlaces, EndPlaces
<1> QED BY <1>1, <1>4, <1>5, StepKeeps

\* The caller returns: to rest, or to the next instance at boot.
LEMMA ReturnLeads ==
    ASSUME Return, turn \in 0..GroupSize
    PROVE  /\ at' \in {"boot", "rest"} /\ at' \in Quiescent /\ turn' \in 0..GroupSize /\ member' \in Members
           /\ Starting' /\ Failing' /\ GroupBooting'
<1>1. at' \in {"boot", "rest"} /\ turn' \in 0..GroupSize /\ member' = 1 /\ (at' = "boot" => turn' \in Members)
  BY GroupConstants DEF Return, Members
<1>2. Starting' /\ Failing' /\ GroupBooting'  BY <1>1 DEF Starting, Failing, GroupBooting
<1> QED BY <1>1, <1>2, GroupConstants DEF Quiescent

KnownGroup ==
    /\ member \in Members /\ turn \in 0..GroupSize /\ hold \in Txns /\ txn \in Txns
    /\ lease \in [Members -> {"none", "torn", "held"}] /\ manifest \in Phases \cup {"claiming"}
    /\ published \in {"none", "checking", "stopping", "succeeded", "failed_rolled_back", "rollback_failed"}
    /\ gfaults \in 0..GroupFaults /\ gstops \in 0..GroupStops /\ at \in GroupPlaces
    /\ gfaults < GroupFaults => gfaults + 1 \in 0..GroupFaults
    /\ gstops < GroupStops => gstops + 1 \in 0..GroupStops
    /\ OnRecord /\ Starting

\* What the steps of the start, the ends and the recovery need of the invariant.
LEMMA InvKnown == GroupInv => KnownGroup
<1> SUFFICES ASSUME GroupInv PROVE KnownGroup
  OBVIOUS
<1>1. /\ member \in Members /\ turn \in 0..GroupSize /\ hold \in Txns /\ txn \in Txns
      /\ lease \in [Members -> {"none", "torn", "held"}] /\ manifest \in Phases \cup {"claiming"}
      /\ published \in {"none", "checking", "stopping", "succeeded", "failed_rolled_back", "rollback_failed"}
      /\ gfaults \in 0..GroupFaults /\ gstops \in 0..GroupStops /\ at \in GroupPlaces
  BY DEF GroupInv, GTypes, GroupTypeOK
<1>2. /\ gfaults < GroupFaults => gfaults + 1 \in 0..GroupFaults
      /\ gstops < GroupStops => gstops + 1 \in 0..GroupStops
  BY <1>1, GroupConstants
<1> QED BY <1>1, <1>2 DEF KnownGroup, GroupInv

\* The claim: the leases, the manifest and the job, before there is a transaction.
LEMMA ClaimsKeep == GroupInv /\ (Claim \/ ClaimMember \/ ClaimRecorded \/ Unclaim) => GroupInv'
<1> SUFFICES ASSUME GroupInv, Claim \/ ClaimMember \/ ClaimRecorded \/ Unclaim PROVE GroupInv'
  OBVIOUS
<1>1. KnownGroup  BY InvKnown
<1>2. txn = NoTxn /\ published = "none" /\ UNCHANGED <<kind, worlds, txn, refused, hold, published>>
      /\ txn.phase = "none"
  BY <1>1, NoTxnFields DEF KnownGroup, Starting, FreshGroup, Claim, ClaimMember, ClaimRecorded, Unclaim, WriteJournal, JournalFails, Ahead
<1>3. {"claiming", "claimed", "claim_failed"} \subseteq Phases \cup {"claiming"}
  BY DEF Phases, RunPhases
<1>4. turn' = turn
  BY DEF Claim, ClaimMember, ClaimRecorded, Unclaim, WriteJournal, JournalFails, To, Following, PanelDies
<1>5. \A m \in Members : m \in Nat  BY GroupConstants
<1>c. CASE Claim
  <2>1. at = "start" /\ manifest' = "claiming" /\ at' = "claim" /\ member' = 1 /\ UNCHANGED <<lease, gfaults, gstops>>
    BY <1>c DEF Claim, To
  <2>2. Starting'  BY <1>2, <2>1, GroupConstants DEF Starting, FreshGroup
  <2>3. Failing' /\ GroupBooting'  BY <2>1 DEF Failing, GroupBooting
  <2> QED BY <1>1, <1>2, <1>3, <1>4, <2>1, <2>2, <2>3, Leads, GroupConstants DEF KnownGroup, Quiescent, StartPlaces, Final
<1>m. CASE ClaimMember
  <2>0. manifest \in {"claiming", "claimed"} /\ manifest' = manifest
        /\ \A m \in 1..(member - 1) : lease[m] = "held"
    BY <1>1, <1>m DEF KnownGroup, Starting, ClaimMember
  <2>1. /\ lease' \in [Members -> {"none", "torn", "held"}]
        /\ gfaults' \in 0..GroupFaults /\ gstops' \in 0..GroupStops
        /\ at' \in {"claim", "claimed", "unclaim", "down"} /\ member' \in Members
    BY <1>1, <1>m, GroupConstants DEF KnownGroup, ClaimMember, Following, To, Fault, PanelDies
  <2>2. Starting'
    <3>1. CASE lease' = [lease EXCEPT ![member] = "held"] /\ Following("claim", "claimed")
      <4>1. \A m \in Members : m < member \/ m = member => lease'[m] = "held"
        BY <1>1, <1>5, <2>0, <3>1 DEF KnownGroup, Members
      <4>2. CASE member < GroupSize
        <5>1. at' = "claim" /\ member' = member + 1  BY <3>1, <4>2 DEF Following, To
        <5>2. ASSUME NEW m \in 1..(member' - 1) PROVE lease'[m] = "held"
          <6>1. member \in 1..GroupSize /\ m \in 1..member
            BY <1>1, <5>1, GroupConstants DEF KnownGroup, Members
          <6>2. m \in Members /\ (m < member \/ m = member)  BY <6>1, GroupConstants DEF Members
          <6> QED BY <4>1, <6>2
        <5> QED BY <1>2, <2>0, <5>1, <5>2 DEF Starting, FreshGroup
      <4>3. CASE ~(member < GroupSize)
        <5>1. at' = "claimed"  BY <3>1, <4>3 DEF Following, To
        <5>2. AllHeld'  BY <1>1, <4>1, <4>3, NextMember DEF KnownGroup, AllHeld
        <5> QED BY <1>2, <2>0, <5>1, <5>2 DEF Starting, FreshGroup
      <4> QED BY <4>2, <4>3
    <3>2. CASE at' \in {"unclaim", "down"}  BY <1>2, <2>0, <3>2 DEF Starting, FreshGroup
    <3> QED BY <1>m, <3>1, <3>2 DEF ClaimMember, To, PanelDies
  <2>3. Failing' /\ GroupBooting'  BY <2>1 DEF Failing, GroupBooting
  <2> QED BY <1>1, <1>2, <1>3, <1>4, <2>0, <2>1, <2>2, <2>3, Leads DEF KnownGroup, Quiescent, StartPlaces, Final
<1>r. CASE ClaimRecorded
  <2>0. AllHeld /\ manifest \in {"claiming", "claimed"}
    BY <1>1, <1>r DEF KnownGroup, Starting, ClaimRecorded
  <2>1. /\ UNCHANGED <<lease, gstops>> /\ member' = 1 /\ gfaults' \in 0..GroupFaults
        /\ \/ manifest' = "claimed" /\ at' = "job"
           \/ manifest' = manifest /\ at' = "unclaim"
    BY <1>1, <1>r DEF KnownGroup, ClaimRecorded, WriteJournal, JournalFails, To, Fault
  <2>2. Starting'  BY <1>2, <2>0, <2>1 DEF Starting, FreshGroup, AllHeld
  <2>3. Failing' /\ GroupBooting'  BY <2>1 DEF Failing, GroupBooting
  <2> QED BY <1>1, <1>2, <1>3, <1>4, <2>0, <2>1, <2>2, <2>3, Leads, GroupConstants DEF KnownGroup, Quiescent, StartPlaces, Final
<1>u. CASE Unclaim
  <2>0. manifest \in {"claiming", "claimed"}  BY <1>1, <1>u DEF KnownGroup, Starting, Unclaim
  <2>1. /\ UNCHANGED gstops /\ member' = 1 /\ gfaults' \in 0..GroupFaults /\ at' = "rest"
        /\ manifest' \in {manifest, "claim_failed"}
    BY <1>1, <1>u DEF KnownGroup, Unclaim, To, Fault
  <2>2. lease' \in [Members -> {"none", "torn", "held"}]  BY <1>1, <1>u DEF KnownGroup, Unclaim
  <2>3. Starting' /\ Failing' /\ GroupBooting'  BY <2>1 DEF Starting, Failing, GroupBooting
  <2> QED BY <1>1, <1>2, <1>3, <1>4, <2>0, <2>1, <2>2, <2>3, Leads, GroupConstants DEF KnownGroup, Quiescent, StartPlaces, Final
<1> QED BY <1>c, <1>m, <1>r, <1>u

\* The job, and the ways out of it before a transaction ran.
LEMMA JobsKeep == GroupInv /\ (StartUpgradeJob \/ NoJob \/ Disown \/ Excuse) => GroupInv'
<1> SUFFICES ASSUME GroupInv, StartUpgradeJob \/ NoJob \/ Disown \/ Excuse PROVE GroupInv'
  OBVIOUS
<1>1. KnownGroup  BY InvKnown
<1>2. UNCHANGED <<kind, worlds, txn, refused, hold, lease, gstops, turn>> /\ member' = 1 /\ gfaults' \in 0..GroupFaults
  BY <1>1 DEF KnownGroup, StartUpgradeJob, NoJob, Disown, Excuse, Pass, WriteJournal, JournalFails, Ahead, To, Fault, owners, worlds
<1>3. "claim_failed" \in Phases  BY DEF Phases
<1>s. CASE StartUpgradeJob
  <2>1. /\ UNCHANGED <<manifest, published>> /\ at = "job" /\ at' \in {"first", "nojob"}
    BY <1>s DEF StartUpgradeJob, Pass, JournalFails, Ahead, To, owners
  <2>2. Starting'  BY <1>1, <1>2, <2>1 DEF KnownGroup, Starting, FreshGroup, AllHeld
  <2>3. Failing' /\ GroupBooting'  BY <2>1 DEF Failing, GroupBooting
  <2> QED BY <1>1, <1>2, <2>1, <2>2, <2>3, Leads, GroupConstants DEF KnownGroup, OnRecord, AllHeld, Quiescent, StartPlaces
<1>n. CASE NoJob
  <2>0. txn = NoTxn /\ AllHeld  BY <1>1, <1>n DEF NoJob, KnownGroup, Starting, FreshGroup
  <2>1. /\ UNCHANGED <<published>> /\ at' \in {"release", "rest"} /\ manifest' \in {manifest, "claim_failed"}
    BY <1>n DEF NoJob, WriteJournal, JournalFails, Ahead, To
  <2>2. Starting' /\ Failing' /\ GroupBooting'  BY <2>1 DEF Starting, Failing, GroupBooting
  <2> QED BY <1>1, <1>2, <1>3, <2>0, <2>1, <2>2, Leads, GroupConstants DEF KnownGroup, OnRecord, AllHeld, Quiescent, StartPlaces
<1>d. CASE Disown
  <2>0. txn = NoTxn \/ txn.phase = "claim_failed"
    BY <1>1, <1>d DEF Disown, KnownGroup, Starting
  <2>1. /\ UNCHANGED <<published>> /\ manifest' \in {manifest, "claim_failed"} /\ at' \in {"excuse", "rest"}
    BY <1>d DEF Disown, WriteJournal, JournalFails, Ahead, To
  <2>2. Starting'  BY <1>2, <2>0, <2>1 DEF Starting
  <2>3. Failing' /\ GroupBooting'  BY <2>1 DEF Failing, GroupBooting
  <2> QED BY <1>1, <1>2, <1>3, <2>0, <2>1, <2>2, <2>3, Leads, GroupConstants
          DEF KnownGroup, OnRecord, AllHeld, Quiescent, StartPlaces, Final
<1>e. CASE Excuse
  <2>0. txn = NoTxn \/ txn.phase = "claim_failed"
    BY <1>1, <1>e DEF Excuse, KnownGroup, Starting
  <2>1. /\ UNCHANGED <<manifest>> /\ at' \in {"release", "rest"} /\ published' \in {published, "failed_rolled_back"}
    BY <1>e DEF Excuse, To, owners
  <2>2. Starting' /\ Failing' /\ GroupBooting'  BY <2>1 DEF Starting, Failing, GroupBooting
  <2>3. txn.phase \in {"none", "claim_failed"}  BY <2>0, NoTxnFields
  <2> QED BY <1>1, <1>2, <1>3, <2>0, <2>1, <2>2, <2>3, Leads, GroupConstants
          DEF KnownGroup, OnRecord, AllHeld, Quiescent, StartPlaces, Final
<1> QED BY <1>s, <1>n, <1>d, <1>e

\* A release removes leases only behind a manifest that is final.
LEMMA ReleaseKeeps == GroupInv /\ ReleaseMember => GroupInv'
<1> SUFFICES ASSUME GroupInv, ReleaseMember PROVE GroupInv'
  OBVIOUS
<1>1. KnownGroup  BY InvKnown
<1>2. UNCHANGED <<kind, worlds, txn, refused, hold, published, manifest, gstops>> /\ gfaults' \in 0..GroupFaults
      /\ manifest \in Final
  BY <1>1 DEF KnownGroup, ReleaseMember, Ahead, Fault
<1>3. lease' \in [Members -> {"none", "torn", "held"}]  BY <1>1 DEF KnownGroup, ReleaseMember
<1>4. Return \/ \E k \in Members : To("release", k)
  BY <1>1, NextMember DEF KnownGroup, ReleaseMember
<1>5. /\ at' \in Quiescent /\ turn' \in 0..GroupSize /\ member' \in Members
      /\ Starting' /\ Failing' /\ GroupBooting'
  <2>1. CASE Return  BY <1>1, <2>1, ReturnLeads DEF KnownGroup
  <2>2. CASE \E k \in Members : To("release", k)
    BY <1>1, <2>2 DEF KnownGroup, To, Quiescent, Starting, Failing, GroupBooting
  <2> QED BY <1>4, <2>1, <2>2
<1>6. manifest # "none"  BY <1>2 DEF Final
<1>7. txn # NoTxn => txn.phase \in Final  BY <1>1, <1>2 DEF KnownGroup, OnRecord
<1> QED BY <1>1, <1>2, <1>3, <1>5, <1>6, <1>7, Leads DEF KnownGroup, OnRecord

\* The first transaction, and the record of a claim nothing ran under.
LEMMA FreshSays ==
    ASSUME GroupInv, txn = NoTxn \/ txn = Set(NoTxn, "claimed", {}), NEW p \in {"claimed", "claim_failed"}
    PROVE  LET u == Set(NoTxn, p, {}) IN
           /\ u \in Txns /\ u.phase = p /\ u.marks = {} /\ u # NoTxn
           /\ \A m \in Members : u.worlds[m] = {}
           /\ Valid(u) /\ Describes(u) /\ Phased(u)
           /\ \A m \in Members : ~Live(m) => ~Serves(m)
<1> DEFINE u == Set(NoTxn, p, {})
<1>0. p \in Phases  BY DEF Phases, RunPhases
<1>1. u \in Txns /\ u.phase = p /\ u.marks = {} /\ (\A m \in Members : u.worlds[m] = {}) /\ u # NoTxn
  BY <1>0, NoTxnFields, PhaseFields
<1>2. PICK t : t = txn /\ t \in Txns /\ Describes(t)  BY Zenon DEF GroupInv, Described, GTypes
<1>3. t.marks = {} /\ \A m \in Members : t.worlds[m] = {}
  <2>1. "claimed" \in Phases  BY DEF Phases, RunPhases
  <2> QED BY <1>2, <2>1, NoTxnFields, PhaseFields
<1>4. Describes(u)
  <2> HIDE DEF u
  <2> QED BY <1>1, <1>2, <1>3, SaysMore
<1>5. ~HasStopIntent(u)
  <2> HIDE DEF u
  <2> QED BY <1>1 DEF HasStopIntent
<1>6. \A m \in Members : rows[m] = Original[m] /\ runs[m] \in IF Live(m) THEN {"first", "died"} ELSE {"down"}
  <2> HIDE DEF u
  <2> QED BY <1>4, <1>5 DEF Describes
<1>7. RowsAgree /\ \A m \in Members : ~Live(m) => ~Serves(m)
  BY <1>6 DEF RowsAgree, Original, Serves
<1>8. Valid(u) /\ Phased(u)
  <2> HIDE DEF u
  <2>1. u.phase \notin Undoing /\ u.phase \notin {"committed", "rolled_back"}
    BY <1>1 DEF Undoing
  <2>2. Valid(u)  BY <1>1, <2>1 DEF Valid, HasStopIntent
  <2>3. Phased(u)  BY <1>1, <1>7, <2>1 DEF Phased
  <2> QED BY <2>2, <2>3
<1> QED BY <1>1, <1>4, <1>7, <1>8

\* The first transaction: written, written in part, or written as the panel dies.
LEMMA FirstKeeps == GroupInv /\ FirstTransaction => GroupInv'
<1> SUFFICES ASSUME GroupInv, FirstTransaction PROVE GroupInv'
  OBVIOUS
<1>1. KnownGroup  BY InvKnown
<1>2. txn = NoTxn /\ AllHeld /\ manifest = "claimed" /\ published = "none"
  BY <1>1 DEF FirstTransaction, KnownGroup, Starting, FreshGroup
<1>3. PICK u : u = Set(NoTxn, "claimed", {})  OBVIOUS
<1>4. /\ u \in Txns /\ u.phase = "claimed" /\ u.marks = {} /\ u # NoTxn
      /\ \A m \in Members : u.worlds[m] = {}
      /\ Valid(u) /\ Describes(u) /\ Phased(u)
      /\ \A m \in Members : ~Live(m) => ~Serves(m)
  BY <1>2, <1>3, FreshSays
<1>5. /\ hold' = u /\ txn' \in {NoTxn, u} /\ UNCHANGED <<kind, lease, manifest, worlds, refused>>
      /\ member' = 1 /\ turn' = turn /\ gfaults' \in 0..GroupFaults /\ gstops' \in 0..GroupStops
      /\ \/ at' = "quiesce" /\ txn' = u /\ published' = "checking"
         \/ at' \in {"abandon", "down"} /\ published' = "none"
  BY <1>1, <1>2, <1>3 DEF FirstTransaction, KnownGroup, To, Fault, PanelDies
<1>6. GTypes'
  <2>1. GroupTypeOK'  BY <1>5, GroupConstants DEF GroupInv, GTypes, GroupTypeOK, worlds
  <2> QED BY <1>4, <1>5, <2>1, NoTxnFields DEF GTypes, GroupInv, GroupPlaces, StartPlaces, RunSteps
<1>7. Described'
  <2>1. PICK t : t = txn /\ Valid(t) /\ Describes(t) /\ Phased(t)
    BY Zenon DEF GroupInv, Described
  <2>2. /\ Valid(t)' /\ Describes(t)' /\ Phased(t)'
        /\ Valid(u)' /\ Describes(u)' /\ Phased(u)'
    BY <1>4, <1>5, <2>1, SaidStays
  <2> QED BY <1>2, <1>5, <2>1, <2>2 DEF Described
<1>8. OnRecord'
  <2>1. \A m \in Members : runs'[m] = "first" => Live(m)'
    BY <1>5 DEF GroupInv, OnRecord, worlds, Live
  <2> QED BY <1>2, <1>4, <1>5, <2>1 DEF OnRecord, AllHeld, Final
<1>9. HoldsTxn'
  BY <1>5 DEF HoldsTxn, RunSteps, UndoPlaces, AbortPlaces, RestorePlaces, EndPlaces
<1>10. Starting'  BY <1>2, <1>3, <1>5 DEF Starting, AllHeld
<1>11. Failing' /\ GroupBooting'  BY <1>5 DEF Failing, GroupBooting
<1>12. Located'
  <2>1. PICK a : a = at'  OBVIOUS
  <2>2. CASE a = "quiesce"
    <3>1. RunPlace("quiesce", 1, u)  BY <1>4 DEF RunPlace, RunPhases, StopPlaces, UpdatePlaces
    <3>2. Where("quiesce", 1, u)
      BY <3>1 DEF Where, RunSteps, UndoPlaces, AbortPlaces, RestorePlaces, EndPlaces
    <3>3. Where("quiesce", 1, u)'  BY <1>5, <3>2, PlaceStays
    <3> QED BY <1>5, <2>1, <2>2, <3>3 DEF Located
  <2>3. CASE a \in {"abandon", "down"}
    <3>1. Where(a, 1, u)'
      BY <2>3 DEF Where, RunSteps, UndoPlaces, AbortPlaces, RestorePlaces, EndPlaces
    <3> QED BY <1>5, <2>1, <3>1 DEF Located
  <2> QED BY <1>5, <2>1, <2>2, <2>3
<1> QED BY <1>5, <1>6, <1>7, <1>8, <1>9, <1>10, <1>11, <1>12 DEF GroupInv

\* When it could not be written, the claim is recorded as failed.
LEMMA AbandonKeeps == GroupInv /\ Abandon => GroupInv'
<1> SUFFICES ASSUME GroupInv, Abandon PROVE GroupInv'
  OBVIOUS
<1>1. KnownGroup  BY InvKnown
<1>2. txn \in {NoTxn, Set(NoTxn, "claimed", {})} /\ AllHeld /\ manifest = "claimed" /\ published = "none"
  BY <1>1 DEF Abandon, KnownGroup, Starting
<1>3. PICK u : u = Set(NoTxn, "claim_failed", {})  OBVIOUS
<1>4. /\ u \in Txns /\ u.phase = "claim_failed" /\ u # NoTxn
      /\ Valid(u) /\ Describes(u) /\ Phased(u)
  BY <1>2, <1>3, FreshSays
<1>5. txn # NoTxn => Set(txn, "claim_failed", {}) = u  BY <1>2, <1>3 DEF Set, NoTxn
<1>6. /\ UNCHANGED <<kind, lease, manifest, worlds, published, refused, hold, gstops>>
      /\ member' = 1 /\ turn' = turn /\ gfaults' \in 0..GroupFaults
      /\ \/ at' \in {"disown", "rest"} /\ txn' = txn /\ (at' = "disown" => txn = NoTxn)
         \/ at' = "disown" /\ txn' = u
  BY <1>1, <1>5 DEF Abandon, KnownGroup, To, Fault
<1>7. CASE txn' = txn /\ (at' = "disown" => txn = NoTxn)
  <2>1. Starting' /\ Failing' /\ GroupBooting'
    BY <1>6, <1>7 DEF Starting, Failing, GroupBooting
  <2> QED BY <1>1, <1>2, <1>6, <1>7, <2>1, Leads, GroupConstants
          DEF KnownGroup, OnRecord, AllHeld, Quiescent, StartPlaces, Final
<1>8. CASE at' = "disown" /\ txn' = u
  <2>1. GTypes'
    <3>1. GroupTypeOK'  BY <1>6, GroupConstants DEF GroupInv, GTypes, GroupTypeOK, worlds
    <3> QED BY <1>4, <1>6, <1>8, <3>1 DEF GTypes, GroupInv, GroupPlaces, StartPlaces
  <2>2. Described'
    <3>1. Valid(u)' /\ Describes(u)' /\ Phased(u)'  BY <1>4, <1>6, SaidStays
    <3> QED BY <1>8, <3>1 DEF Described
  <2>3. OnRecord'
    <3>1. \A m \in Members : runs'[m] = "first" => Live(m)'
      BY <1>6 DEF GroupInv, OnRecord, worlds, Live
    <3> QED BY <1>2, <1>4, <1>6, <1>8, <3>1 DEF OnRecord, AllHeld, Final
  <2>4. HoldsTxn' /\ Failing' /\ GroupBooting'
    BY <1>8 DEF HoldsTxn, RunSteps, UndoPlaces, AbortPlaces, RestorePlaces, EndPlaces, Failing, GroupBooting
  <2>5. Starting'  BY <1>4, <1>8 DEF Starting
  <2>6. Located'
    <3>1. PICK k, t : k = member' /\ t = hold'  OBVIOUS
    <3>2. Where("disown", k, t)'
      BY DEF Where, RunSteps, UndoPlaces, AbortPlaces, RestorePlaces, EndPlaces
    <3> QED BY <1>8, <3>1, <3>2 DEF Located
  <2> QED BY <1>6, <2>1, <2>2, <2>3, <2>4, <2>5, <2>6 DEF GroupInv
<1> QED BY <1>6, <1>7, <1>8

\* The notice before the first world is stopped.
LEMMA AnnounceKeeps == GroupInv /\ Announce => GroupInv'
<1> SUFFICES ASSUME GroupInv, Announce PROVE GroupInv'
  OBVIOUS
<1>1. KnownGroup  BY InvKnown
<1>2. at = "announce" /\ "announce" \in RunSteps \ {"succeed"}  BY DEF Announce, RunSteps
<1>3. PICK t \in Txns, n \in Members : RunAt("announce", t, n)  BY <1>2, RunPicks
<1>4. /\ t = hold /\ t = txn /\ t.phase \in RunPhases /\ t.marks = {} /\ \A m \in Members : t.worlds[m] = {}
      /\ \A m \in Members : ~Live(m) => ~Serves(m)
  <2>1. HeldFacts  BY <1>2, HoldsDisk DEF CheckPlaces
  <2>2. RunPlace("announce", n, t) /\ t = hold  BY <1>3 DEF RunAt
  <2> QED BY <2>1, <2>2 DEF RunPlace, HeldFacts
<1>5. /\ UNCHANGED <<kind, owners, worlds, gstops, refused>> /\ gfaults' \in 0..GroupFaults /\ turn' = turn
      /\ \/ published' = "stopping" /\ at' = "member" /\ member' = 1
         \/ published' = published /\ at' = "failed" /\ member' = member
  BY <1>1, <1>2 DEF Announce, To, Trouble, Fault, KnownGroup
<1>6. UNCHANGED <<lease, manifest, txn, hold>>  BY <1>5 DEF owners
<1>7. Starting' /\ GroupBooting'  BY <1>5 DEF Starting, GroupBooting
<1>8. Failing'  BY <1>4, <1>5, <1>6 DEF Failing
<1>9. HoldsTxn'  BY <1>4, <1>6 DEF HoldsTxn
<1>10. Located'
  <2>1. CASE at' = "member" /\ member' = 1
    <3>1. Stopping("member", 1, t)  BY <1>4, GroupConstants DEF Stopping, Members
    <3>2. Where("member", 1, t)
      BY <1>4, <3>1 DEF Where, RunPlace, RunSteps, UndoPlaces, AbortPlaces, RestorePlaces, EndPlaces, StopPlaces, UpdatePlaces
    <3>3. Where("member", 1, t)'  BY <1>5, <3>2, PlaceStays
    <3> QED BY <1>4, <1>6, <2>1, <3>3 DEF Located
  <2>2. CASE at' = "failed"
    <3>1. PICK k : k = member'  OBVIOUS
    <3>2. Where("failed", k, t)'
      BY DEF Where, RunSteps, UndoPlaces, AbortPlaces, RestorePlaces, EndPlaces
    <3> QED BY <1>4, <1>6, <2>2, <3>1, <3>2 DEF Located
  <2> QED BY <1>5, <2>1, <2>2
<1>11. at' \in GroupPlaces /\ member' \in Members
  BY <1>1, <1>5, GroupConstants DEF KnownGroup, GroupPlaces, RunSteps
<1> QED BY <1>1, <1>5, <1>6, <1>7, <1>8, <1>9, <1>10, <1>11, StepKeeps DEF KnownGroup, OnRecord, AllHeld

\* The end of a run that failed: nothing more to do, or the rollback of what is on disk.
LEMMA FailedKeeps == GroupInv /\ RunFailed => GroupInv'
<1> SUFFICES ASSUME GroupInv, RunFailed PROVE GroupInv'
  OBVIOUS
<1>1. KnownGroup  BY InvKnown
<1>2. at = "failed" /\ UNCHANGED <<kind, lease, manifest, txn, worlds, published, gfaults, gstops, refused>>
  BY DEF RunFailed
<1>3. CASE txn.phase = "committed"
  <2>1. Return /\ UNCHANGED hold  BY <1>3 DEF RunFailed
  <2>2. /\ at' \in Quiescent /\ turn' \in 0..GroupSize /\ member' \in Members
        /\ Starting' /\ Failing' /\ GroupBooting'
    BY <1>1, <2>1, ReturnLeads DEF KnownGroup
  <2> QED BY <1>1, <1>2, <2>1, <2>2, Leads DEF KnownGroup, OnRecord, AllHeld
<1>4. CASE txn.phase # "committed"
  <2>1. at' = "rolling" /\ member' = 1 /\ turn' = turn /\ hold' = txn  BY <1>4 DEF RunFailed, To
  <2>2. PICK t \in Txns : t = txn /\ t.phase \in RunPhases /\ t.phase \notin Final
    BY <1>1, <1>2, <1>4 DEF GroupInv, Failing, KnownGroup, RunPhases, Final
  <2>3. Where("rolling", 1, t)'
    BY <2>2 DEF Where, RunSteps, UndoPlaces, AbortPlaces, RestorePlaces, EndPlaces
  <2>4. Located' /\ HoldsTxn'  BY <1>2, <2>1, <2>2, <2>3 DEF Located, HoldsTxn
  <2>5. Starting' /\ Failing' /\ GroupBooting' /\ at' \in GroupPlaces
    BY <2>1 DEF Starting, Failing, GroupBooting, GroupPlaces
  <2> QED BY <1>1, <1>2, <2>1, <2>4, <2>5, StepKeeps, GroupConstants DEF KnownGroup, OnRecord, AllHeld
<1> QED BY <1>3, <1>4

\* The last word of a rollback that failed.
LEMMA GiveUpKeeps == GroupInv /\ GiveUpGroup => GroupInv'
<1> SUFFICES ASSUME GroupInv, GiveUpGroup PROVE GroupInv'
  OBVIOUS
<1>1. KnownGroup  BY InvKnown
<1>2. PICK u : u = Set(hold, "rollback_failed", {})  OBVIOUS
<1>3. /\ at = "giveup" /\ txn # NoTxn /\ UNCHANGED <<kind, lease, hold, worlds, gstops, refused>> /\ Return
      /\ gfaults' \in 0..GroupFaults
  BY <1>1 DEF GiveUpGroup, GroupInv, Failing, KnownGroup, Fault
<1>4. /\ published' \in {published, "rollback_failed"}
      /\ \/ txn' = txn /\ manifest' = manifest
         \/ Accepts(u) /\ txn' = u /\ manifest' \in {manifest, u.phase}
  BY <1>2 DEF GiveUpGroup
<1>5. /\ at' \in Quiescent /\ turn' \in 0..GroupSize /\ member' \in Members
      /\ Starting' /\ Failing' /\ GroupBooting' /\ at' \in {"boot", "rest"}
  BY <1>1, <1>3, ReturnLeads DEF KnownGroup
<1>6. CASE txn' = txn /\ manifest' = manifest
  BY <1>1, <1>3, <1>4, <1>5, <1>6, Leads DEF KnownGroup, OnRecord, AllHeld
<1>7. CASE Accepts(u) /\ txn' = u /\ manifest' \in {manifest, u.phase}
  <2>1. PICK t \in Txns : t = hold /\ Describes(t)
    <3>1. PICK a, k, t : a = at /\ k = member /\ t = hold /\ Where(a, k, t)
      BY Zenon DEF GroupInv, Located
    <3> QED BY <1>1, <1>3, <3>1 DEF KnownGroup, Where
  <2>2. "rollback_failed" \in Phases  BY DEF Phases, Undoing
  <2>3. u \in Txns /\ u.phase = "rollback_failed" /\ u.marks = t.marks /\ u.worlds = t.worlds /\ u # NoTxn
    BY <1>2, <2>1, <2>2, PhaseFields, NoTxnFields
  <2>4. Valid(u) /\ manifest \notin Final /\ txn.phase \notin Final /\ AllHeld
    BY <1>3, <1>7 DEF Accepts, Progress, AllHeld
  <2>5. Describes(u)  BY <2>1, <2>3, SaysMore
  <2>6. Phased(u)  BY <2>3 DEF Phased, Undoing, Final
  <2>7. Valid(u)' /\ Describes(u)' /\ Phased(u)'  BY <1>3, <2>4, <2>5, <2>6, SaidStays
  <2>8. Described'  BY <1>7, <2>7 DEF Described
  <2>9. GTypes'
    <3>1. GroupTypeOK'  BY <1>3, <1>5 DEF GroupInv, GTypes, GroupTypeOK, worlds
    <3>2. manifest' \in Phases \cup {"claiming"} /\ at' \in GroupPlaces
      BY <1>1, <1>5, <1>7, <2>2, <2>3 DEF KnownGroup, GroupPlaces
    <3> QED BY <1>1, <1>3, <1>4, <1>7, <2>3, <3>1, <3>2 DEF GTypes, KnownGroup
  <2>10. OnRecord'
    <3>1. \A m \in Members : runs'[m] = "first" => Live(m)'
      BY <1>3 DEF GroupInv, OnRecord, worlds, Live
    <3>2. manifest # "none"  BY <1>1, <2>4, GroupConstants DEF KnownGroup, OnRecord, AllHeld
    <3>3. published' \notin {"succeeded", "failed_rolled_back"}
      <4>1. published = "succeeded" => FALSE  BY <1>1, <2>4 DEF KnownGroup, OnRecord, Final
      <4>2. published = "failed_rolled_back" => FALSE
        BY <1>1, <1>3, <2>4 DEF KnownGroup, OnRecord, Final
      <4> QED BY <1>4, <4>1, <4>2
    <3>4. manifest' \notin Final /\ manifest' # "none"  BY <1>7, <2>3, <2>4, <3>2 DEF Final
    <3> QED BY <1>3, <1>7, <2>3, <2>4, <3>1, <3>3, <3>4 DEF OnRecord, AllHeld
  <2>11. HoldsTxn' /\ Located'
    <3>1. PICK a, k, s : a = at' /\ k = member' /\ s = hold' /\ a \in {"boot", "rest"}  BY <1>5
    <3>2. Where(a, k, s)'
      BY <3>1 DEF Where, RunSteps, UndoPlaces, AbortPlaces, RestorePlaces, EndPlaces
    <3>3. Located'  BY <3>1, <3>2 DEF Located
    <3>4. HoldsTxn'
      BY <1>5 DEF HoldsTxn, RunSteps, UndoPlaces, AbortPlaces, RestorePlaces, EndPlaces
    <3> QED BY <3>3, <3>4
  <2> QED BY <1>3, <1>5, <2>8, <2>9, <2>10, <2>11 DEF GroupInv
<1> QED BY <1>4, <1>6, <1>7

\* The status of an outcome, told before the leases go.
LEMMA PublishKeeps == GroupInv /\ PublishGroup => GroupInv'
<1> SUFFICES ASSUME GroupInv, PublishGroup PROVE GroupInv'
  OBVIOUS
<1>1. KnownGroup  BY InvKnown
<1>2. PICK t \in Txns, k \in Members, a \in {"succeed", "publish", "republish"} :
         t = txn /\ t = hold /\ k = member /\ a = at /\ Where(a, k, t) /\ Describes(t)
  <2>1. PICK a, k, t : a = at /\ k = member /\ t = hold /\ Where(a, k, t)
    BY Zenon DEF GroupInv, Located
  <2>2. PICK s : s = txn /\ Describes(s)  BY Zenon DEF GroupInv, Described
  <2>3. at \in {"succeed", "publish", "republish"}  BY DEF PublishGroup
  <2>4. hold = txn  BY <2>3 DEF GroupInv, HoldsTxn, RunSteps
  <2> QED BY <1>1, <2>1, <2>2, <2>3, <2>4 DEF KnownGroup
<1>3. t.phase \in Final /\ (a = "succeed" => t.phase = "committed") /\ t # NoTxn
  <2>1. t.phase \in Final /\ (a = "succeed" => t.phase = "committed")  BY <1>2 DEF Where, Final
  <2> QED BY <2>1, NoTxnFields DEF Final
<1>4. /\ UNCHANGED <<kind, owners, worlds, gstops, refused>> /\ gfaults' \in 0..GroupFaults
      /\ UNCHANGED <<lease, manifest, txn, hold>>
  BY <1>1 DEF PublishGroup, owners, KnownGroup, Fault
<1>5. /\ published' \in {published, IF t.phase = "committed" THEN "succeeded" ELSE "failed_rolled_back"}
      /\ \/ To("release", 1)
         \/ published' = published /\ a = "republish" /\ Return
         \/ published' = published /\ a # "republish" /\ Trouble
  BY <1>2 DEF PublishGroup
<1>6. /\ published' = "succeeded" => t.phase = "committed"
      /\ published' = "failed_rolled_back" => t.phase \in {"none", "rolled_back", "claim_failed"}
  BY <1>1, <1>2, <1>3, <1>5 DEF KnownGroup, OnRecord, Final
<1>7. published' \in {"none", "checking", "stopping", "succeeded", "failed_rolled_back", "rollback_failed"}
  BY <1>1, <1>5 DEF KnownGroup
<1>8. CASE To("release", 1) \/ Return \/ (Trouble /\ a = "succeed")
  <2>1. /\ at' \in Quiescent /\ turn' \in 0..GroupSize /\ member' \in Members
        /\ Starting' /\ Failing' /\ GroupBooting'
    <3>1. CASE To("release", 1)
      BY <1>1, <3>1, GroupConstants DEF KnownGroup, To, Quiescent, Starting, Failing, GroupBooting
    <3>2. CASE Return  BY <1>1, <3>2, ReturnLeads DEF KnownGroup
    <3>3. CASE Trouble /\ a = "succeed"
      <4>1. at' = "failed" /\ member' = member /\ turn' = turn
        BY <1>2, <3>3 DEF Trouble, RunSteps
      <4>2. Failing'  BY <1>2, <1>3, <1>4, <3>3, <4>1 DEF Failing
      <4> QED BY <1>1, <4>1, <4>2 DEF KnownGroup, Quiescent, Starting, GroupBooting
    <3> QED BY <1>8, <3>1, <3>2, <3>3
  <2> QED BY <1>1, <1>2, <1>3, <1>4, <1>6, <1>7, <2>1, Leads DEF KnownGroup, OnRecord, AllHeld
<1>9. CASE Trouble /\ a = "publish"
  <2>1. at' = "giveup" /\ member' = k /\ turn' = turn  BY <1>2, <1>9 DEF Trouble, RunSteps
  <2>2. Where("giveup", k, t)'
    <3>1. Describes(t)'  BY <1>2, <1>4, SaidStays
    <3> QED BY <3>1 DEF Where, RunSteps, UndoPlaces, AbortPlaces, RestorePlaces, EndPlaces
  <2>3. Located' /\ HoldsTxn'  BY <1>2, <1>4, <2>1, <2>2 DEF Located, HoldsTxn
  <2>4. Failing'
    <3>1. txn' # NoTxn  BY <1>2, <1>3, <1>4, NoTxnFields
    <3> QED BY <2>1, <3>1 DEF Failing
  <2>5. Starting' /\ GroupBooting' /\ at' \in GroupPlaces
    BY <2>1 DEF Starting, GroupBooting, GroupPlaces
  <2> QED BY <1>1, <1>2, <1>3, <1>4, <1>6, <1>7, <2>1, <2>3, <2>4, <2>5, StepKeeps DEF KnownGroup, OnRecord, AllHeld
<1> QED BY <1>2, <1>5, <1>8, <1>9

\* The panel dies and starts again.
LEMMA CrashKeeps == GroupInv /\ (GroupCrash \/ GroupBoot) => GroupInv'
<1> SUFFICES ASSUME GroupInv, GroupCrash \/ GroupBoot PROVE GroupInv'
  OBVIOUS
<1>1. KnownGroup  BY InvKnown
<1>2. UNCHANGED <<kind, lease, manifest, txn, worlds, published, refused, gfaults>> /\ member' = 1
  BY DEF GroupCrash, GroupBoot, PanelDies, To, owners
<1>3. CASE GroupCrash
  <2>1. at' = "down" /\ UNCHANGED <<hold, turn>> /\ gstops' \in 0..GroupStops
    BY <1>1, <1>3 DEF GroupCrash, PanelDies, To, owners, KnownGroup
  <2>2. Starting' /\ Failing' /\ GroupBooting'  BY <2>1 DEF Starting, Failing, GroupBooting
  <2> QED BY <1>1, <1>2, <2>1, <2>2, Leads, GroupConstants DEF KnownGroup, OnRecord, AllHeld, Quiescent
<1>4. CASE GroupBoot
  <2>1. at' = "boot" /\ hold' = NoTxn /\ turn' = 1 /\ gstops' = gstops  BY <1>4 DEF GroupBoot
  <2>2. Starting' /\ Failing' /\ GroupBooting'
    BY <2>1, GroupConstants DEF Starting, Failing, GroupBooting
  <2>3. turn' \in 0..GroupSize  BY <2>1, GroupConstants
  <2> QED BY <1>1, <1>2, <2>1, <2>2, <2>3, Leads, NoTxnFields, GroupConstants DEF KnownGroup, OnRecord, AllHeld, Quiescent
<1> QED BY <1>3, <1>4

\* The records of a group whose leases are all in place are never refused.
LEMMA HeldRecovers == GroupInv /\ at = "boot" /\ AllHeld => lease[turn] = "held" /\ CanRecover
<1> SUFFICES ASSUME GroupInv, at = "boot", AllHeld PROVE lease[turn] = "held" /\ CanRecover
  OBVIOUS
<1>1. lease[turn] = "held"  BY DEF GroupInv, GroupBooting, AllHeld
<1>2. PICK t \in Txns : t = txn /\ Describes(t) /\ Phased(t)
  BY Zenon DEF GroupInv, GTypes, Described
<1>3. txn = NoTxn => CanRecover
  <2>1. manifest # "none"  BY GroupConstants DEF GroupInv, OnRecord, AllHeld
  <2> QED BY <2>1 DEF GroupInv, OnRecord, CanRecover
<1>4. txn # NoTxn => CanRecover
  <2>1. ASSUME NEW m \in Members, content[m] = "purged"
        PROVE  t.phase \in {"rolling_back", "rollback_failed"} /\ "restoreIntent" \in t.worlds[m]
    <3>1. "restoreIntent" \in t.worlds[m]  BY <1>2, <2>1 DEF Describes, Member140
    <3>2. t.phase \in Undoing  BY <1>2, <3>1 DEF Phased
    <3>3. t.phase # "rolled_back"  BY <1>2, <2>1 DEF Phased, AsBefore
    <3> QED BY <3>1, <3>2, <3>3 DEF Undoing
  <2>2. Rebound  BY <1>2, <2>1 DEF Rebound
  <2>3. txn # NoTxn /\ manifest \in {"committed", "rolled_back"} => manifest = txn.phase
    BY DEF GroupInv, OnRecord, Final
  <2> QED BY <2>2, <2>3 DEF CanRecover, Recoverable, AllHeld
<1> QED BY <1>1, <1>3, <1>4

\* So recovery at boot turns away only a group whose claim or release was under way.
LEMMA NothingKeeps == GroupInv /\ NothingToRecover => GroupInv'
<1> SUFFICES ASSUME GroupInv, NothingToRecover PROVE GroupInv'
  OBVIOUS
<1>1. KnownGroup  BY InvKnown
<1>2. UNCHANGED <<kind, owners, worlds, published, gfaults, gstops>> /\ Return
  BY DEF NothingToRecover
<1>3. ~AllHeld  BY HeldRecovers DEF NothingToRecover
<1>4. refused' = refused
  <2>1. refused = FALSE  BY DEF GroupInv, GTypes, GroupTypeOK
  <2>2. (refused \/ AllHeld) = FALSE  BY <1>3, <2>1
  <2>3. refused' = (refused \/ AllHeld)  BY DEF NothingToRecover
  <2> QED BY <2>1, <2>2, <2>3
<1>5. /\ at' \in Quiescent /\ turn' \in 0..GroupSize /\ member' \in Members
      /\ Starting' /\ Failing' /\ GroupBooting'
  BY <1>1, <1>2, ReturnLeads DEF KnownGroup
<1> QED BY <1>1, <1>2, <1>4, <1>5, Leads DEF KnownGroup, OnRecord, AllHeld, owners

\* Recovery takes up what is on disk.
LEMMA RecoverKeeps == GroupInv /\ RecoverGroup => GroupInv'
<1> SUFFICES ASSUME GroupInv, RecoverGroup PROVE GroupInv'
  OBVIOUS
<1>1. KnownGroup  BY InvKnown
<1>2. UNCHANGED <<kind, lease, txn, worlds, published, gstops, refused>> /\ gfaults' \in 0..GroupFaults
  BY <1>1 DEF RecoverGroup, RecoverJournal, KnownGroup, Fault
<1>3. PICK t \in Txns : t = txn  BY <1>1 DEF KnownGroup
<1>4. "claim_failed" \in Phases /\ {"claim_failed", "committed", "rolled_back"} = Final
  BY DEF Phases, Final
<1>n. CASE txn = NoTxn /\ RecoverJournal("claim_failed", "release") /\ UNCHANGED hold
  <2>1. /\ manifest' \in {manifest, "claim_failed"}
        /\ To("release", 1) \/ Return
    BY <1>n DEF RecoverJournal
  <2>2. /\ at' \in Quiescent /\ turn' \in 0..GroupSize /\ member' \in Members
        /\ Starting' /\ Failing' /\ GroupBooting'
    <3>1. CASE To("release", 1)
      BY <1>1, <3>1, GroupConstants DEF KnownGroup, To, Quiescent, Starting, Failing, GroupBooting
    <3>2. CASE Return  BY <1>1, <3>2, ReturnLeads DEF KnownGroup
    <3> QED BY <2>1, <3>1, <3>2
  <2> QED BY <1>1, <1>2, <1>4, <1>n, <2>1, <2>2, Leads DEF KnownGroup, OnRecord, AllHeld
<1>f. CASE txn.phase \in Final /\ hold' = txn /\ RecoverJournal(txn.phase, "republish")
  <2>1. /\ manifest' \in {manifest, t.phase} /\ t.phase \in Final /\ hold' = t /\ t # NoTxn
        /\ To("republish", 1) \/ Return
    BY <1>3, <1>f, NoTxnFields DEF RecoverJournal, Final
  <2>2. t.phase \in Phases /\ t.phase # "none"  BY <2>1 DEF Txns, Final
  <2>3. CASE Return
    <3>1. /\ at' \in Quiescent /\ turn' \in 0..GroupSize /\ member' \in Members
          /\ Starting' /\ Failing' /\ GroupBooting'
      BY <1>1, <2>3, ReturnLeads DEF KnownGroup
    <3> QED BY <1>1, <1>2, <1>3, <2>1, <2>2, <3>1, Leads DEF KnownGroup, OnRecord, AllHeld
  <2>4. CASE To("republish", 1)
    <3>1. at' = "republish" /\ member' = 1 /\ turn' = turn  BY <2>4 DEF To
    <3>2. Where("republish", 1, t)'
      BY <2>1 DEF Where, RunSteps, UndoPlaces, AbortPlaces, RestorePlaces, EndPlaces
    <3>3. Located' /\ HoldsTxn'  BY <1>2, <1>3, <2>1, <3>1, <3>2 DEF Located, HoldsTxn
    <3>4. Starting' /\ Failing' /\ GroupBooting' /\ at' \in GroupPlaces
      BY <3>1 DEF Starting, Failing, GroupBooting, GroupPlaces
    <3> QED BY <1>1, <1>2, <1>3, <2>1, <2>2, <3>1, <3>3, <3>4, StepKeeps, GroupConstants DEF KnownGroup, OnRecord, AllHeld
  <2> QED BY <2>1, <2>3, <2>4
<1>r. CASE txn # NoTxn /\ txn.phase \notin Final /\ hold' = txn /\ To("rolling", 1) /\ UNCHANGED <<manifest, gfaults>>
  <2>1. at' = "rolling" /\ member' = 1 /\ turn' = turn  BY <1>r DEF To
  <2>2. t.phase \in (RunPhases \cup Undoing) \ Final
    BY <1>1, <1>3, <1>r DEF KnownGroup, OnRecord, Txns, Phases, Final
  <2>3. Where("rolling", 1, t)'
    BY <2>2 DEF Where, RunSteps, UndoPlaces, AbortPlaces, RestorePlaces, EndPlaces
  <2>4. Located' /\ HoldsTxn'  BY <1>2, <1>3, <1>r, <2>1, <2>3 DEF Located, HoldsTxn
  <2>5. Starting' /\ Failing' /\ GroupBooting' /\ at' \in GroupPlaces
    BY <2>1 DEF Starting, Failing, GroupBooting, GroupPlaces
  <2> QED BY <1>1, <1>2, <1>r, <2>1, <2>4, <2>5, StepKeeps, GroupConstants DEF KnownGroup, OnRecord, AllHeld
<1> QED BY <1>n, <1>f, <1>r DEF RecoverGroup

\* What a game does by itself: it answers a save it was sent, or it dies.
Games ==
    /\ UNCHANGED <<kind, owners, image, content, rows, staging, at, member, turn, gstops, published, refused>>
    /\ gfaults' \in 0..GroupFaults
    /\ runs' \in [Members -> {"first", "again", "down", "died"}]
    /\ command' \in [Members -> {"none", "sent", "saved", "busy", "lost"}]
    /\ \A m \in Members : runs'[m] = runs[m] \/ (Serves(m) /\ runs'[m] = "died")
    /\ \A m \in Members : command'[m] = command[m] \/ command[m] = "sent"

\* What a game does by itself makes no transaction false,
LEMMA GamesSay ==
    ASSUME Games, FirstAreLive, NEW t
    PROVE  /\ Describes(t) => Describes(t)'
           /\ Phased(t) => Phased(t)'
           /\ Valid(t)' = Valid(t)
<1>1. \A m \in Members : Serves(m)' => Serves(m) /\ runs'[m] = runs[m]  BY DEF Games, Serves
<1>2. Describes(t) => Describes(t)'
  <2> SUFFICES ASSUME Describes(t) PROVE Describes(t)'
    OBVIOUS
  <2>1. \A m \in Members : Member140(t, m)'
    BY DEF Games, Describes, Member140, OldImage, NewImage, Boxed
  <2>2. HasStopIntent(t)' = HasStopIntent(t) /\ Original' = Original /\ \A m \in Members : Live(m)' = Live(m)
    BY DEF HasStopIntent, Games, Original, Live
  <2>3. ASSUME ~HasStopIntent(t), NEW m \in Members
        PROVE  rows'[m] = Original[m] /\ runs'[m] \in IF Live(m) THEN {"first", "died"} ELSE {"down"}
    BY <2>3 DEF Describes, Games, Serves
  <2> QED BY <2>1, <2>2, <2>3 DEF Describes, Games
<1>3. Phased(t) => Phased(t)'
  <2> SUFFICES ASSUME Phased(t) PROVE Phased(t)'
    OBVIOUS
  <2>1. AsBefore' = AsBefore  BY DEF AsBefore, Games, OldImage, Boxed
  <2>2. RowsAgree => RowsAgree'  BY <1>1 DEF RowsAgree, Games
  <2> QED BY <2>1, <2>2 DEF Phased, Games
<1>4. Valid(t)' = Valid(t)  BY DEF Valid, Live, Backed, HasStopIntent, Games
<1> QED BY <1>2, <1>3, <1>4

\* and no statement about the place.
LEMMA GamesPlace ==
    ASSUME Games, FirstAreLive, NEW a, NEW k \in Members, NEW t, Where(a, k, t)
    PROVE  Where(a, k, t)'
<1>1. \A m \in Members : (Serves(m)' => Serves(m)) /\ Live(m)' = Live(m) /\ (runs[m] # "down" => runs'[m] # "down")
  BY DEF Games, Serves, Live
<1>2. RunPlace(a, k, t) => RunPlace(a, k, t)'
  <2>1. Stopping(a, k, t) => Stopping(a, k, t)'  BY DEF Stopping, Games, Live
  <2>2. Updating(a, k, t) => Updating(a, k, t)'  BY DEF Updating, Games, NewImage, Boxed
  <2>3. Original' = Original  BY DEF Original, Games, Live
  <2> QED BY <1>1, <2>1, <2>2, <2>3 DEF RunPlace, Games, Backed
<1>3. UndoPlace(a, k, t) => UndoPlace(a, k, t)'
  <2>1. AsBefore' = AsBefore  BY DEF AsBefore, Games, OldImage, Boxed
  <2>2. RowsAgree => RowsAgree'  BY <1>1 DEF RowsAgree, Games
  <2>3. Resting => Resting'  BY <1>1 DEF Resting
  <2>4. KeepMarked(t)' = KeepMarked(t) /\ Untouched(t)' = Untouched(t) /\ HasStopIntent(t)' = HasStopIntent(t)
    BY DEF KeepMarked, Untouched, HasStopIntent, Games
  <2> QED BY <1>1, <2>1, <2>2, <2>3, <2>4 DEF UndoPlace, Games
<1>4. Describes(t) => Describes(t)'  BY GamesSay
<1> QED BY <1>2, <1>3, <1>4 DEF Where

LEMMA GamesKeep == GroupInv /\ Games => GroupInv'
<1> SUFFICES ASSUME GroupInv, Games PROVE GroupInv'
  OBVIOUS
<1>0. UNCHANGED <<kind, lease, manifest, txn, hold, image, content, rows, staging, at, member, turn, gstops, published, refused>>
  BY DEF Games, owners
<1>1. FirstAreLive /\ member \in Members
  BY DEF GroupInv, OnRecord, FirstAreLive, GTypes, GroupTypeOK
<1>2. GTypes'
  <2>1. GroupTypeOK'  BY <1>0 DEF GroupInv, GTypes, GroupTypeOK, Games
  <2> QED BY <1>0, <2>1 DEF GTypes, GroupInv
<1>3. Described'
  <2>1. PICK t : t = txn /\ Valid(t) /\ Describes(t) /\ Phased(t)
    BY Zenon DEF GroupInv, Described
  <2>2. Valid(t)' /\ Describes(t)' /\ Phased(t)'  BY <1>1, <2>1, GamesSay
  <2> QED BY <1>0, <2>1, <2>2 DEF Described
<1>4. OnRecord'
  <2>1. \A m \in Members : runs'[m] = "first" => Live(m)'
    BY <1>0 DEF GroupInv, OnRecord, Games, Live
  <2> QED BY <1>0, <2>1 DEF GroupInv, OnRecord, AllHeld
<1>5. Starting' /\ HoldsTxn' /\ Failing' /\ GroupBooting'
  BY <1>0 DEF GroupInv, Starting, HoldsTxn, Failing, GroupBooting, FreshGroup, AllHeld
<1>6. Located'
  <2>1. PICK a, k, t : a = at /\ k = member /\ t = hold /\ Where(a, k, t)
    BY Zenon DEF GroupInv, Located
  <2>2. Where(a, k, t)'  BY <1>1, <2>1, GamesPlace
  <2> QED BY <1>0, <2>1, <2>2 DEF Located
<1> QED BY <1>0, <1>2, <1>3, <1>4, <1>5, <1>6 DEF GroupInv

\* The games, and no step at all.
LEMMA GamesStep ==
    ASSUME GroupInv, GameAnswers \/ GameDies \/ UNCHANGED groupVars
    PROVE  GroupInv'
<1>1. runs \in [Members -> {"first", "again", "down", "died"}]
      /\ command \in [Members -> {"none", "sent", "saved", "busy", "lost"}]
      /\ gfaults \in 0..GroupFaults /\ (gfaults < GroupFaults => gfaults + 1 \in 0..GroupFaults)
  BY InvKnown DEF GroupInv, GTypes, GroupTypeOK, KnownGroup
<1>2. CASE GameAnswers  BY <1>1, <1>2, GamesKeep DEF GameAnswers, Games, place
<1>3. CASE GameDies  BY <1>1, <1>3, GamesKeep DEF GameDies, Games, Fault, Serves
<1>4. CASE UNCHANGED groupVars  BY <1>1, <1>4, GamesKeep DEF groupVars, worlds, place, Games
<1> QED BY <1>2, <1>3, <1>4

\* Every step of the panel and of the games keeps the invariant.
LEMMA GroupNextInv == GroupInv /\ [GroupNext]_groupVars => GroupInv'
<1> SUFFICES ASSUME GroupInv, GroupNext \/ UNCHANGED groupVars PROVE GroupInv'
  OBVIOUS
<1>1. CASE StartSteps
  BY <1>1, ClaimsKeep, JobsKeep, FirstKeeps, AbandonKeeps, ReleaseKeeps DEF StartSteps
<1>2. CASE ApplySteps
  <2>1. Quiet => RunMarks \/ (Quiet /\ \E m \in Members : Serves(m))  BY DEF RunMarks
  <2> QED BY <1>2, <2>1, RunMarksKeep, SendKeeps, StopMemberKeeps, CreateKeeps, UpdateStepsKeep, RestartKeeps, RowsKeep,
          RunPassesKeep, CommitKeeps, AnnounceKeeps, FailedKeeps DEF ApplySteps, RunMarks
<1>3. CASE RollbackSteps
  BY <1>3, RollingKeeps, AbortsKeep, RestartOldKeeps, AbortRowsKeep, KeepStoppedKeeps, HaltKeeps, RestoreIntentKeeps,
     RemoveAllKeeps, NotRestoredKeeps, RestoreMemberKeeps, RestoredKeeps, RecreateKeeps, UnstageKeeps, StageRemovedKeeps,
     ReviveKeeps, ReviveRowsKeep, RolledBackKeeps, GiveUpKeeps, PublishKeeps DEF RollbackSteps
<1>4. CASE GroupCrash \/ GroupBoot  BY <1>4, CrashKeeps
<1>5. CASE NothingToRecover \/ RecoverGroup  BY <1>5, NothingKeeps, RecoverKeeps
<1>6. CASE GameAnswers \/ GameDies \/ UNCHANGED groupVars  BY <1>6, GamesStep
<1> QED BY <1>1, <1>2, <1>3, <1>4, <1>5, <1>6 DEF GroupNext

\* The invariant of the group upgrade, for any number of worlds of any kind, any failing steps
\* and deaths of the panel: at every step of the run, of its rollback and of a recovery the
\* records say what is the case of files, containers, rows and the staging volume.
THEOREM GroupInvariant == GroupSpec => []GroupInv
<1> QED BY GroupInitInv, GroupNextInv, PTL DEF GroupSpec

\* What the panel accounts for follows from what its records say.
LEMMA InvAccounts == GroupInv => GroupAccounted
<1> SUFFICES ASSUME GroupInv PROVE GroupAccounted
  OBVIOUS
<1>1. PICK t \in Txns : t = txn /\ Valid(t) /\ Describes(t) /\ Phased(t)
  BY Zenon DEF GroupInv, GTypes, Described
<1>2. (\E m \in Members : lease[m] = "none") /\ txn # NoTxn => txn.phase \in Final
  BY DEF GroupInv, OnRecord, AllHeld
<1>3. t.phase = "committed" =>
          staging /\ \A m \in Members : content[m] = "new" /\ image[m] = (IF Boxed(m) THEN "new" ELSE "none")
  <2> SUFFICES ASSUME t.phase = "committed"
               PROVE  staging /\ \A m \in Members : content[m] = "new" /\ image[m] = (IF Boxed(m) THEN "new" ELSE "none")
    OBVIOUS
  <2>1. \A m \in Members : "updated" \in t.worlds[m] /\ "updateIntent" \in t.worlds[m]
    BY <1>1 DEF Valid
  <2>2. "stageCreated" \in t.marks  BY <1>1, <2>1, GroupConstants DEF Valid
  <2>3. staging /\ \A m \in Members : "restoreIntent" \notin t.worlds[m]
    BY <1>1, <2>2 DEF Phased, Undoing
  <2>4. \A m \in Members : Member140(t, m)  BY <1>1 DEF Describes
  <2> QED BY <2>1, <2>3, <2>4 DEF Member140, NewImage
<1>4. t.phase \in {"none", "rolled_back", "claim_failed"} =>
          ~staging /\ \A m \in Members : content[m] = "old" /\ image[m] = (IF Boxed(m) THEN "old" ELSE "none")
  <2>1. CASE t.phase = "rolled_back"  BY <1>1, <2>1 DEF Phased, AsBefore, OldImage
  <2>2. CASE t.phase \in {"none", "claim_failed"}
    <3>1. t.marks = {} /\ \A m \in Members : t.worlds[m] = {}
      <4>1. CASE t.phase = "none"  BY <1>1, <4>1, NoTxnFields DEF GroupInv, OnRecord
      <4>2. CASE t.phase = "claim_failed"  BY <1>1, <4>2 DEF Valid
      <4> QED BY <2>2, <4>1, <4>2
    <3>2. \A m \in Members : Member140(t, m)  BY <1>1 DEF Describes
    <3>3. ~staging  BY <1>1, <3>1 DEF Describes
    <3> QED BY <3>1, <3>2, <3>3 DEF Member140, OldImage
  <2> QED BY <2>1, <2>2
<1>5. t.phase \in Final => RowsAgree  BY <1>1 DEF Phased
<1>6. /\ published = "succeeded" => txn.phase = "committed"
      /\ published = "failed_rolled_back" => txn.phase \in {"none", "rolled_back", "claim_failed"}
  BY DEF GroupInv, OnRecord
<1>7. GroupSettled  BY <1>1, <1>2, <1>3, <1>4, <1>5, <1>6 DEF GroupSettled, RowsAgree
<1> QED BY <1>7 DEF GroupAccounted, EvidenceAccepted, GroupInv

\* Every variable of the group has its type.
THEOREM GroupTypes == GroupSpec => []GroupTypeOK
<1>1. GroupInv => GroupTypeOK  BY DEF GroupInv, GTypes
<1> QED BY <1>1, GroupInvariant, PTL

\* The group ends whole: no lease goes before a terminal transaction is on disk, a committed one
\* has every world on the target and one rolled back or never begun has none, the status and
\* the rows agree with it, and neither a checkpoint nor recovery refuses what the panel wrote.
THEOREM GroupAccountedHolds == GroupSpec => []GroupAccounted
<1> QED BY GroupInvariant, InvAccounts, PTL

\* The steps that take a world down, and what the transaction says of it before them.
SavesFirst == \A m \in Members : runs[m] = "first" /\ runs'[m] = "down" => command[m] = "saved"

\* A world that has run since before the upgrade and has a stop announced was saved.
LEMMA StopIntentSaved ==
    ASSUME NEW t, NEW m \in Members, Valid(t), Describes(t), "stopIntent" \in t.worlds[m], FirstAreLive, runs[m] = "first"
    PROVE  command[m] = "saved"
<1>1. Live(m)  BY DEF FirstAreLive
<1>2. "saved" \in t.worlds[m]  BY <1>1 DEF Valid
<1> QED BY <1>2 DEF Describes, Member140

\* Only the worlds that are meant go down.
LEMMA TakenDown ==
    ASSUME GroupInv, NEW subject \in SUBSET Members, NEW aim, NEW k, TakeDown(subject, aim, k)
    PROVE  \A m \in Members : runs'[m] # runs[m] => m \in subject
BY DEF TakeDown

\* The three steps that take worlds down.
LEMMA TakeDownsSave == GroupInv /\ (StopMember \/ StopTarget \/ Halt) => SavesFirst
<1> SUFFICES ASSUME GroupInv, StopMember \/ StopTarget \/ Halt PROVE SavesFirst
  OBVIOUS
<1>0. FirstAreLive /\ member \in Members
  BY DEF GroupInv, OnRecord, FirstAreLive, GTypes, GroupTypeOK
<1>1. CASE StopMember
  <2>1. at = "stop" /\ "stop" \in RunSteps \ {"succeed"} /\ TakeDown({member}, "stopped", member)
    BY <1>1 DEF StopMember, RunSteps
  <2>2. PICK t \in Txns, n \in Members : RunAt("stop", t, n)  BY <2>1, RunPicks
  <2>3. n = member /\ "stopIntent" \in t.worlds[n] /\ Valid(t) /\ Describes(t)
    BY <2>2 DEF RunAt, RunPlace, StopPlaces, Stopping
  <2>4. \A m \in Members : runs'[m] # runs[m] => m = n  BY <1>0, <2>1, <2>3, TakenDown
  <2> QED BY <1>0, <2>3, <2>4, StopIntentSaved DEF SavesFirst
<1>2. CASE StopTarget
  <2>1. at = "settle" /\ "settle" \in RunSteps \ {"succeed"} /\ TakeDown({member}, "updated", member)
        /\ "settle" \in UpdatePlaces \ {"update"}
    BY <1>2 DEF StopTarget, RunSteps, UpdatePlaces
  <2>2. PICK t \in Txns, n \in Members : RunAt("settle", t, n)  BY <2>1, RunPicks
  <2>3. n = member /\ Backed(t, n) /\ Valid(t) /\ Describes(t)
    BY <2>1, <2>2, UpdateHolds DEF RunAt
  <2>4. "stopIntent" \in t.worlds[n]  BY <2>3 DEF Valid, Backed
  <2>5. \A m \in Members : runs'[m] # runs[m] => m = n  BY <1>0, <2>1, <2>3, TakenDown
  <2> QED BY <1>0, <2>3, <2>4, <2>5, StopIntentSaved DEF SavesFirst
<1>3. CASE Halt
  <2>1. at = "halt" /\ "halt" \in UndoPlaces /\ "halt" \in UndoPlaces \ (AbortPlaces \cup {"rolled"})
    BY <1>3 DEF Halt, UndoPlaces, AbortPlaces
  <2>2. PICK t \in Txns, n \in Members : UndoAt("halt", t, n)  BY <2>1, UndoPicks
  <2>3. Valid(t) /\ Describes(t) /\ \A m \in Members : Backed(t, m)
    BY <2>1, <2>2, BackedUp DEF UndoAt
  <2>4. \A m \in Members : "stopIntent" \in t.worlds[m]  BY <2>3 DEF Valid, Backed
  <2>5. \A m \in Members : runs[m] = "first" => command[m] = "saved"
    BY <1>0, <2>3, <2>4, StopIntentSaved
  <2> QED BY <2>5 DEF SavesFirst
<1> QED BY <1>1, <1>2, <1>3

\* The others do not.
LEMMA NoneTakenDown ==
    ASSUME GroupInv, UNCHANGED runs \/ \A m \in Members : runs'[m] \in {runs[m], "again", "died"} PROVE SavesFirst
BY DEF SavesFirst

LEMMA BroughtUp == ASSUME NEW subject, NEW aim, BringUp(subject, aim) PROVE \A m \in Members : runs'[m] \in {runs[m], "again"}
BY DEF BringUp

LEMMA RunsStay == ASSUME NEW u, NEW aim, NEW k, Checkpoint(u, aim, k) \/ Pass(aim, k) \/ Fails PROVE UNCHANGED runs
BY DEF Checkpoint, Pass, Fails, worlds

LEMMA StartRuns == StartSteps => UNCHANGED runs
BY DEF StartSteps, Claim, ClaimMember, ClaimRecorded, Unclaim, StartUpgradeJob, NoJob, FirstTransaction, Abandon, Disown, Excuse,
   ReleaseMember, WriteJournal, JournalFails, Ahead, Pass, worlds

LEMMA ApplyRuns ==
    GroupInv /\ ApplySteps => \/ UNCHANGED runs \/ StopMember \/ StopTarget
                              \/ \A m \in Members : runs'[m] \in {runs[m], "again"}
<1> SUFFICES ASSUME GroupInv, ApplySteps, ~StopMember, ~StopTarget
             PROVE  UNCHANGED runs \/ \A m \in Members : runs'[m] \in {runs[m], "again"}
  OBVIOUS
<1>1. CASE Quiesce \/ SaveIntent \/ NoSave \/ AwaitSave140 \/ Saved \/ StopIntent \/ Stopped \/ Quiet
  BY <1>1, RunsStay DEF Quiesce, SaveIntent, NoSave, AwaitSave140, Saved, StopIntent, Stopped, Quiet
<1>2. CASE Archive \/ StageIntent \/ StageCreated \/ StageReady \/ ChangesStarted \/ UpdateIntent \/ VerifyOffline
           \/ Updated \/ RestoringState \/ CommitGroup
  BY <1>2, RunsStay DEF Archive, StageIntent, StageCreated, StageReady, ChangesStarted, UpdateIntent, VerifyOffline,
     Updated, RestoringState, CommitGroup
<1>3. CASE Announce \/ SendSave140 \/ CreateStaging \/ RemoveServices \/ ReplaceFiles \/ PublishRows \/ RunFailed
  BY <1>3 DEF Announce, SendSave140, CreateStaging, RemoveServices, ReplaceFiles, Rewrite, PublishRows, SetRows, RunFailed, worlds
<1>4. CASE VerifyTarget  BY <1>4 DEF VerifyTarget, GroupInv, GTypes, GroupTypeOK
<1>5. CASE RestartWorlds  BY <1>5, BroughtUp DEF RestartWorlds
<1> QED BY <1>1, <1>2, <1>3, <1>4, <1>5 DEF ApplySteps

LEMMA RollbackRuns == RollbackSteps => UNCHANGED runs \/ Halt \/ \A m \in Members : runs'[m] \in {runs[m], "again"}
<1> SUFFICES ASSUME RollbackSteps, ~Halt PROVE UNCHANGED runs \/ \A m \in Members : runs'[m] \in {runs[m], "again"}
  OBVIOUS
<1>1. CASE Rolling \/ Abort \/ ResolveSave \/ SavesResolved \/ KeepStopped \/ RestoreIntent
  BY <1>1, RunsStay DEF Rolling, Abort, ResolveSave, SavesResolved, KeepStopped, RestoreIntent
<1>2. CASE Restored140 \/ NoStaging \/ StageRemoved \/ RolledBackGroup
  BY <1>2, RunsStay DEF Restored140, NoStaging, StageRemoved, RolledBackGroup
<1>3. CASE NotRestored \/ GiveUpGroup \/ PublishGroup \/ RemoveAllServices \/ RestoreMember \/ Recreate140
           \/ RemoveStaging \/ ReviveRows
  BY <1>3 DEF NotRestored, GiveUpGroup, PublishGroup, RemoveAllServices, Replaced, RestoreMember, Rewrite, Recreate140,
     RemoveStaging, ReviveRows, SetRows, worlds
<1>4. CASE RestartOriginals  BY <1>4, BroughtUp DEF RestartOriginals
<1>5. CASE Revive  BY <1>5, BroughtUp, RunsStay DEF Revive
<1>6. CASE AbortRows  BY <1>6, RunsStay DEF AbortRows, SetRows
<1> QED BY <1>1, <1>2, <1>3, <1>4, <1>5, <1>6 DEF RollbackSteps

\* No step takes down a first server without its save.
LEMMA StepSaves == GroupInv /\ [GroupNext]_groupVars => SavesFirst
<1> SUFFICES ASSUME GroupInv, GroupNext \/ UNCHANGED groupVars PROVE SavesFirst
  OBVIOUS
<1>1. CASE StartSteps  BY <1>1, StartRuns, NoneTakenDown
<1>2. CASE ApplySteps  BY <1>2, ApplyRuns, TakeDownsSave, NoneTakenDown
<1>3. CASE RollbackSteps  BY <1>3, RollbackRuns, TakeDownsSave, NoneTakenDown
<1>4. CASE GroupCrash \/ GroupBoot \/ NothingToRecover \/ RecoverGroup \/ GameAnswers \/ UNCHANGED groupVars
  <2>1. UNCHANGED runs
    BY <1>4 DEF GroupCrash, GroupBoot, NothingToRecover, RecoverGroup, GameAnswers, groupVars, worlds
  <2> QED BY <2>1, NoneTakenDown
<1>5. CASE GameDies
  <2>1. \A m \in Members : runs'[m] \in {runs[m], "died"}
    BY <1>5 DEF GameDies, GroupInv, GTypes, GroupTypeOK
  <2> QED BY <2>1, NoneTakenDown
<1> QED BY <1>1, <1>2, <1>3, <1>4, <1>5 DEF GroupNext

\* Neither the run nor a rollback nor a recovery takes down a server that has run since before
\* the upgrade, unless the save it was asked for took effect.
THEOREM WritersSavedHolds == GroupSpec => WritersSaved
<1>1. GroupInv /\ [GroupNext]_groupVars
      => [\A m \in Members : runs[m] = "first" /\ runs'[m] = "down" => command[m] = "saved"]_groupVars
  BY StepSaves DEF SavesFirst
<1> QED BY <1>1, GroupInvariant, PTL DEF GroupSpec, WritersSaved

-----------------------------------------------------------------------------
(* The seven operations in one run (MCPanelOperations)                      *)

\* The run lets one operation move and the others rest, so that each behaves as its module says, and
\* every theorem about one of them is one about the run.
THEOREM OperationsCompose ==
    Spec => /\ ImportSpec /\ LifetimeSpec /\ GroupSpec /\ UpgradeSpec
            /\ AccountSpec /\ ScheduleSpec /\ CredentialSpec
<1> DEFINE all == <<focus, importVars, lifetimeVars, groupVars, upgradeVars, accountVars, scheduleVars, credentialVars>>
<1>1. Init => /\ ImportInit /\ LifetimeInit /\ GroupInit /\ UpgradeInit
              /\ AccountInit /\ ScheduleInit /\ CredentialInit
  BY DEF Init
<1>2. [Next]_all => [ImportNext]_importVars  BY DEF Next
<1>3. [Next]_all => [LifetimeNext]_lifetimeVars  BY DEF Next
<1>4. [Next]_all => [GroupNext]_groupVars  BY DEF Next
<1>5. [Next]_all => [UpgradeNext]_upgradeVars  BY DEF Next
<1>6. [Next]_all => [AccountNext]_accountVars  BY DEF Next
<1>7. [Next]_all => [ScheduleNext]_scheduleVars  BY DEF Next
<1>8. [Next]_all => [CredentialNext]_credentialVars  BY DEF Next
<1> QED BY <1>1, <1>2, <1>3, <1>4, <1>5, <1>6, <1>7, <1>8, PTL
        DEF Spec, ImportSpec, LifetimeSpec, GroupSpec, UpgradeSpec, AccountSpec, ScheduleSpec, CredentialSpec

\* Every variable has its type in the run of all operations, the one that moves and those that rest.
THEOREM OperationTypes == Spec => []TypesOK
<1>1. ImportTypeOK /\ LifetimeTypeOK /\ GroupTypeOK /\ UpgradeTypeOK /\ AccountTypeOK /\ ScheduleTypeOK
        /\ CredentialTypeOK => TypesOK
  BY DEF TypesOK
<1> QED BY <1>1, OperationsCompose, ImportTypes, LifetimeTypes, GroupTypes, UpgradeTypes, AccountTypes, ScheduleTypes,
        CredentialTypes, PTL
==============================================================================
