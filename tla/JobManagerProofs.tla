-------------------------- MODULE JobManagerProofs --------------------------
(***************************************************************************)
(* Proofs about the job manager, for every set of jobs, instances and      *)
(* keys and every number of crashes.                                       *)
(***************************************************************************)
EXTENDS JobManager, TLAPS

\* The columns of a row, or of a goroutine whose row was deleted, are written.
SpecWritten ==
    \A j \in Jobs :
        /\ pc[j] # "idle" => spec[j] \in Specs
        /\ spec[j] \in Specs /\ spec[j].type = Auth
             => spec[j].snapshot \in InstStates

Typed == TypeOK /\ SpecWritten

LEMMA TypedInit == Init => Typed
  BY CrashesAssumption, NoneAssumption DEF Init, Typed, TypeOK, SpecWritten, NoSpec, Types,
     Statuses, PCs, InstStates, InstalledStates, Auth

LEMMA TypedNext == Typed /\ [Next]_vars => Typed'
<1> SUFFICES ASSUME Typed, [Next]_vars PROVE Typed'
  OBVIOUS
<1> USE DEF Typed, TypeOK, SpecWritten, durable, memory
<1>0. \A j \in Jobs : spec[j] \in Specs =>
          /\ spec[j].type \in Types /\ spec[j].target \in Instances
  BY DEF Specs
<1>1. ASSUME NEW j \in Jobs, Create(j) PROVE Typed'
  <2>1. PICK i \in Instances, type \in Types, key \in Keys \cup {None},
             snapshot \in InstStates \cup {None} :
          /\ Insert(j, type, i, key, snapshot)
          /\ type = Auth => snapshot \in InstStates
    <3>1. \/ \E i \in Instances : \E type \in {Install, Auth} :
               CreateExclusive(j, type, i)
          \/ \E i \in Instances : \E key \in Keys : CreateIdempotent(j, i, key)
      BY <1>1 DEF Create
    <3>2. ASSUME NEW i \in Instances, NEW type \in {Install, Auth},
                 CreateExclusive(j, type, i)
          PROVE  Insert(j, type, i, None, IF type = Auth THEN inst[i] ELSE None)
      BY <3>2 DEF CreateExclusive
    <3>3. ASSUME NEW i \in Instances, NEW key \in Keys,
                 CreateIdempotent(j, i, key)
          PROVE  Insert(j, Import, i, key, None)
      BY <3>3 DEF CreateIdempotent
    <3> QED BY <3>1, <3>2, <3>3 DEF Types, Install, Auth, Import
  <2>2. [type |-> type, target |-> i, key |-> key, snapshot |-> snapshot] \in Specs
    BY DEF Specs
  <2> QED BY <2>1, <2>2 DEF Insert, Statuses, ActiveStatuses, PCs
<1>2. ASSUME NEW j \in Jobs, Step(j) PROVE Typed'
  <2> USE DEF Statuses, ActiveStatuses, TerminalStatuses, PCs, SetStatus, Leave
  <2>1. CASE Launch(j)  BY <2>1 DEF Launch
  <2>2. CASE PrepareFails(j)  BY <2>2 DEF PrepareFails
  <2>3. CASE StartRow(j)  BY <2>3 DEF StartRow
  <2>4. CASE StartRowFails(j)  BY <2>4 DEF StartRowFails
  <2>5. CASE RunnerWrites(j)  BY <2>5 DEF RunnerWrites, LeasedWrite, InstStates, InstalledStates
  <2>6. CASE RunnerSucceeds(j)
    <3>1. inst' \in [Instances -> InstStates]
      BY <2>6 DEF RunnerSucceeds, LeasedWrite, InstStates, InstalledStates,
         Install, Auth
    <3> QED BY <2>6, <3>1 DEF RunnerSucceeds
  <2>7. CASE RunnerFails(j)
    <3>1. inst' \in [Instances -> InstStates]
      BY <2>7 DEF RunnerFails, LeasedWrite, InstStates, InstalledStates,
         Install, Auth
    <3> QED BY <2>7, <3>1 DEF RunnerFails
  <2>8. CASE RunnerPanics(j)  BY <2>8 DEF RunnerPanics
  <2>9. CASE Settle(j)
    <3>1. status' \in [Jobs -> Statuses] /\ \A k \in Jobs :
             status'[k] # "absent" => status[k] # "absent"
      BY <2>9 DEF Settle
    <3> QED BY <2>9, <3>1 DEF Settle
  <2>10. CASE Expire(j)  BY <2>10 DEF Expire
  <2>11. CASE CancelRunning(j)  BY <2>11 DEF CancelRunning
  <2>12. CASE CancelReads(j)  BY <2>12 DEF CancelReads
  <2>13. CASE CancelWrites(j)  BY <2>13 DEF CancelWrites
  <2> QED BY <1>2, <2>1, <2>2, <2>3, <2>4, <2>5, <2>6, <2>7, <2>8, <2>9, <2>10,
       <2>11, <2>12, <2>13 DEF Step, RunnerReturns
<1>3. CASE Clear  BY <1>3, NoneAssumption DEF Clear, Statuses, NoSpec, Types
<1>4. CASE Crash  BY <1>4, CrashesAssumption DEF Crash, PCs
<1>5. CASE ListInterrupted  BY <1>5 DEF ListInterrupted
<1>6. ASSUME NEW j \in Jobs, MarkInterrupted(j) PROVE Typed'
  <2>2. inst' \in [Instances -> InstStates]
    <3>1. spec[j] \in Specs \/ spec[j].type # Auth  BY NoneAssumption DEF NoSpec, Types
    <3> QED
      BY <1>6, <3>1 DEF MarkInterrupted, Recovered, LeasedWrite, InstStates,
         InstalledStates
  <2> QED BY <1>6, <2>2 DEF MarkInterrupted
<1>7. CASE FailInterrupted
  BY <1>7 DEF FailInterrupted, Active, Statuses, TerminalStatuses, ActiveStatuses
<1>8. CASE UNCHANGED vars  BY <1>8 DEF vars
<1> QED BY <1>1, <1>2, <1>3, <1>4, <1>5, <1>6, <1>7, <1>8 DEF Next, Recovery

\* The variables keep their types.  TypeOK alone is not inductive: a goroutine
\* outlives its deleted row, and the row an authorization restores must be one
\* that was captured.
THEOREM TypeCorrect == Spec => []TypeOK
<1>1. Spec => []Typed  BY TypedInit, TypedNext, PTL DEF Spec
<1>2. Typed => TypeOK  BY DEF Typed
<1> QED BY <1>1, <1>2, PTL

-----------------------------------------------------------------------------
\* What one step does to the rows: it inserts one, sets the status of some that
\* exist, or deletes them all.  Columns never change under a row.
RowInserted(j, type, i, key) ==
    /\ status[j] = "absent"
    /\ InstallIndexAllows(j, type, i)
    /\ key # None => type = Import /\ ~KeyTaken(type, i, key)
    /\ status' = [status EXCEPT ![j] = "queued"]
    /\ \E snapshot : spec' = [spec EXCEPT ![j] =
          [type |-> type, target |-> i, key |-> key, snapshot |-> snapshot]]

RowsSet ==
    /\ UNCHANGED spec
    /\ \A k \in Jobs : status[k] = "absent" => status'[k] = "absent"
    /\ \A k \in Jobs : Active(k)' =>
           \/ Active(k)
           \/ InstallIndexAllows(k, spec[k].type, spec[k].target)
    /\ \A k, l \in Jobs : Active(k)' /\ Active(l)' /\ ~Active(k) => k = l \/ Active(l)

LEMMA RowStep ==
    ASSUME Typed, [Next]_vars
    PROVE  \/ \E j \in Jobs : \E type \in Types : \E i \in Instances :
                \E key \in Keys \cup {None} : RowInserted(j, type, i, key)
           \/ RowsSet
           \/ \A j \in Jobs : status'[j] = "absent"
<1> USE DEF Typed, TypeOK, durable, memory
<1>1. ASSUME NEW j \in Jobs, Create(j)
      PROVE  \E type \in Types : \E i \in Instances :
                \E key \in Keys \cup {None} : RowInserted(j, type, i, key)
  <2>1. ASSUME NEW i \in Instances, NEW type \in {Install, Auth},
               CreateExclusive(j, type, i)
        PROVE  type \in Types /\ RowInserted(j, type, i, None)
    BY <2>1 DEF CreateExclusive, Insert, RowInserted, Types
  <2>2. ASSUME NEW i \in Instances, NEW key \in Keys, CreateIdempotent(j, i, key)
        PROVE  Import \in Types /\ RowInserted(j, Import, i, key)
    BY <2>2 DEF CreateIdempotent, Insert, RowInserted, Types
  <2> QED BY <1>1, <2>1, <2>2 DEF Create
<1>2. ASSUME NEW j \in Jobs, NEW value \in Statuses, UNCHANGED spec,
             SetStatus(j, value),
             value \in ActiveStatuses =>
                 InstallIndexAllows(j, spec[j].type, spec[j].target)
      PROVE  RowsSet
  BY <1>2 DEF SetStatus, RowsSet, Active, Statuses, ActiveStatuses, TerminalStatuses
<1>3. ASSUME UNCHANGED <<status, spec>> PROVE RowsSet
  BY <1>3 DEF RowsSet, Active
<1>4. ASSUME NEW j \in Jobs, Step(j) PROVE RowsSet
  <2> USE DEF Statuses, ActiveStatuses, TerminalStatuses
  <2>1. CASE Launch(j)  BY <1>3, <2>1 DEF Launch
  <2>2. CASE PrepareFails(j)  BY <1>2, <1>3, <2>2 DEF PrepareFails
  <2>3. CASE StartRow(j)  BY <1>2, <2>3 DEF StartRow
  <2>4. CASE StartRowFails(j)  BY <1>2, <1>3, <2>4 DEF StartRowFails
  <2>5. CASE RunnerWrites(j) \/ RunnerReturns(j) \/ Expire(j)
               \/ CancelRunning(j) \/ CancelReads(j)
    BY <1>3, <2>5 DEF RunnerWrites, RunnerReturns, RunnerSucceeds, RunnerFails,
       Expire, CancelRunning, CancelReads
  <2>6. CASE RunnerPanics(j)  BY <1>2, <2>6 DEF RunnerPanics
  <2>7. CASE Settle(j)
    <3>1. PICK value \in TerminalStatuses :
             SetStatus(j, value) \/ UNCHANGED status
      BY <2>7 DEF Settle
    <3> QED BY <1>2, <1>3, <2>7, <3>1 DEF Settle
  <2>8. CASE CancelWrites(j)  BY <1>2, <2>8 DEF CancelWrites
  <2> QED BY <1>4, <2>1, <2>2, <2>3, <2>4, <2>5, <2>6, <2>7, <2>8 DEF Step
<1>5. CASE Clear  BY <1>5 DEF Clear
<1>6. CASE Crash  BY <1>3, <1>6 DEF Crash
<1>7. CASE ListInterrupted  BY <1>3, <1>7 DEF ListInterrupted
<1>8. ASSUME NEW j \in Jobs, MarkInterrupted(j) PROVE RowsSet
  BY <1>3, <1>8 DEF MarkInterrupted
<1>9. CASE FailInterrupted  BY <1>9 DEF FailInterrupted, RowsSet, Active, ActiveStatuses
<1>10. CASE UNCHANGED vars  BY <1>3, <1>10 DEF vars
<1> QED BY <1>1, <1>4, <1>5, <1>6, <1>7, <1>8, <1>9, <1>10 DEF Next, Recovery

LEMMA SingleInstallNext == Typed /\ SingleInstall /\ [Next]_vars => SingleInstall'
<1> SUFFICES ASSUME Typed, SingleInstall, [Next]_vars,
                    NEW j \in Jobs, NEW k \in Jobs,
                    Active(j)', spec'[j].type = Install,
                    Active(k)', spec'[k].type = Install,
                    spec'[j].target = spec'[k].target, j # k
             PROVE  FALSE
  BY DEF SingleInstall
<1> USE DEF Typed, TypeOK
<1>1. ASSUME NEW l \in Jobs, NEW type \in Types, NEW i \in Instances,
             NEW key \in Keys \cup {None}, RowInserted(l, type, i, key)
      PROVE  FALSE
  <2>1. \A m \in Jobs \ {l} : /\ Active(m)' <=> Active(m)
                              /\ spec'[m] = spec[m]
    BY <1>1 DEF RowInserted, Active
  <2>2. spec'[l].type = type /\ spec'[l].target = i  BY <1>1 DEF RowInserted
  <2>3. CASE l \notin {j, k}  BY <2>1, <2>3 DEF SingleInstall
  <2>4. CASE l \in {j, k}
    <3>1. PICK m \in {j, k} : m # l  BY <2>4
    <3>2. m \in ActiveOn(Install, i) /\ type = Install  BY <2>1, <2>2, <2>4, <3>1 DEF ActiveOn
    <3> QED BY <1>1, <3>1, <3>2 DEF RowInserted, InstallIndexAllows
  <2> QED BY <2>3, <2>4
<1>2. CASE RowsSet
  <2>1. CASE Active(j) /\ Active(k)  BY <1>2, <2>1 DEF RowsSet, SingleInstall
  <2>2. CASE ~Active(j)
    <3>1. Active(k) /\ InstallIndexAllows(j, Install, spec[j].target)  BY <1>2, <2>2 DEF RowsSet
    <3> QED BY <1>2, <3>1 DEF InstallIndexAllows, ActiveOn, RowsSet
  <2>3. CASE ~Active(k)
    <3>1. Active(j) /\ InstallIndexAllows(k, Install, spec[k].target)  BY <1>2, <2>3 DEF RowsSet
    <3> QED BY <1>2, <3>1 DEF InstallIndexAllows, ActiveOn, RowsSet
  <2> QED BY <2>1, <2>2, <2>3
<1>3. CASE \A l \in Jobs : status'[l] = "absent"  BY <1>3 DEF Active, ActiveStatuses
<1> QED BY <1>1, <1>2, <1>3, RowStep

\* At most one install per instance is queued or running, under every fault the
\* model has and in every history of crashes.  The unique index carries it: the
\* driver's check guards only the insert, not the later update by id.
THEOREM SingleInstallHolds == Spec => []SingleInstall
<1>1. Init => SingleInstall  BY DEF Init, SingleInstall, Active, ActiveStatuses
<1>2. Typed /\ SingleInstall /\ [Next]_vars => SingleInstall'  BY SingleInstallNext
<1> QED BY <1>1, <1>2, TypedInit, TypedNext, PTL DEF Spec

LEMMA KeyBoundOnceNext == Typed /\ KeyBoundOnce /\ [Next]_vars => KeyBoundOnce'
<1> SUFFICES ASSUME Typed, KeyBoundOnce, [Next]_vars,
                    NEW j \in Jobs, NEW k \in Jobs,
                    status'[j] # "absent", status'[k] # "absent",
                    spec'[j].key # None, spec'[j].key = spec'[k].key,
                    spec'[j].type = spec'[k].type,
                    spec'[j].target = spec'[k].target, j # k
             PROVE  FALSE
  BY DEF KeyBoundOnce
<1> USE DEF Typed, TypeOK
<1>1. ASSUME NEW l \in Jobs, NEW type \in Types, NEW i \in Instances,
             NEW key \in Keys \cup {None}, RowInserted(l, type, i, key)
      PROVE  FALSE
  <2>1. \A m \in Jobs \ {l} : status'[m] = status[m] /\ spec'[m] = spec[m]
    BY <1>1 DEF RowInserted
  <2>2. /\ spec'[l].type = type /\ spec'[l].target = i
        /\ spec'[l].key = key
    BY <1>1 DEF RowInserted
  <2>3. CASE l \notin {j, k}  BY <2>1, <2>3 DEF KeyBoundOnce
  <2>4. CASE l \in {j, k}
    <3>1. PICK m \in {j, k} : m # l  BY <2>4
    <3>2. KeyTaken(type, i, key) /\ key # None  BY <2>1, <2>2, <2>4, <3>1 DEF KeyTaken
    <3> QED BY <1>1, <3>2 DEF RowInserted
  <2> QED BY <2>3, <2>4
<1>2. CASE RowsSet  BY <1>2 DEF RowsSet, KeyBoundOnce
<1>3. CASE \A l \in Jobs : status'[l] = "absent"  BY <1>3
<1> QED BY <1>1, <1>2, <1>3, RowStep

\* A key is bound to one row until the rows are cleared, terminal rows
\* included: a request repeated after a crash finds its first job.
THEOREM KeyBoundOnceHolds == Spec => []KeyBoundOnce
<1>1. Init => KeyBoundOnce  BY DEF Init, KeyBoundOnce
<1> QED BY <1>1, KeyBoundOnceNext, TypedInit, TypedNext, PTL DEF Spec

(***************************************************************************)
(* Crashes of the panel: with no database error, no panic and              *)
(* no row-level cancellation, no sequence of crashes leaves an instance in *)
(* an install or authorization phase that no job will end, and every       *)
(* authorization gives back the instance it borrowed.                      *)
(***************************************************************************)
\* The only failures are crashes of the panel.
CrashesOnly == Faults = {}

\* A goroutine and its row agree while the panel serves; the rows still to be
\* recovered are active.
Handshake ==
    /\ canceling = {}
    /\ panel # "recovering" => todo = {}
    /\ \A j \in Jobs :
        /\ ctx[j] # "canceled"
        /\ panel # "up" => pc[j] = "idle"
        /\ panel = "up" /\ pc[j] = "idle" => ~Active(j)
        /\ pc[j] \in {"created", "launched"} => status[j] = "queued" /\ ctx[j] = "live"
        /\ pc[j] \in {"running", "succeeding", "failing"} => status[j] = "running"
        /\ j \in todo => Active(j)

Writer(j) == Active(j) /\ spec[j].type \in {Install, Auth}

\* Installs and authorizations of one instance exclude each other.
OneWriter ==
    \A j, k \in Jobs :
        Writer(j) /\ Writer(k) /\ spec[j].target = spec[k].target => j = k

\* The job may have left its instance in a phase of its own.
Holds(j) ==
    /\ panel = "up" => pc[j] = "running"
    /\ panel = "recovering" => j \in todo

PhaseHeld ==
    \A i \in Instances :
        /\ inst[i] = "installing" => \E j \in ActiveOn(Install, i) : Holds(j)
        /\ inst[i] = "authorizing" => \E j \in ActiveOn(Auth, i) : Holds(j)

\* What an active authorization has captured, and where the instance is.
Borrowed ==
    \A j \in Jobs : Active(j) /\ spec[j].type = Auth =>
        /\ spec[j].snapshot \in {"ready_to_start", "stopped"}
        /\ \/ inst[spec[j].target] = spec[j].snapshot
           \/ Holds(j) /\ inst[spec[j].target] = "authorizing"

IInv == Typed /\ Handshake /\ OneWriter /\ PhaseHeld /\ Borrowed

LEMMA IInvInit == Init => IInv
  BY TypedInit DEF Init, IInv, Handshake, OneWriter, PhaseHeld, Borrowed,
     Writer, Active, ActiveStatuses

-----------------------------------------------------------------------------
(* The frame of the steps that leave the instances alone                   *)

\* Every active row stays where it was, and no job that held a phase lets go.
LEMMA Frame ==
    ASSUME IInv, Typed', UNCHANGED <<inst, spec>>,
           \A k \in Jobs : Active(k)' => Active(k),
           \A k \in Jobs : Writer(k) /\ Holds(k) => Active(k)' /\ Holds(k)'
    PROVE  OneWriter' /\ PhaseHeld' /\ Borrowed'
<1> USE DEF IInv, Typed, TypeOK
<1>1. OneWriter'  BY DEF OneWriter, Writer
<1>2. \A type \in {Install, Auth}, i \in Instances, k \in Jobs :
          k \in ActiveOn(type, i) /\ Holds(k)
          => k \in ActiveOn(type, i)' /\ Holds(k)'
  BY DEF ActiveOn, Writer
<1>3. PhaseHeld'
  <2> SUFFICES ASSUME NEW i \in Instances
               PROVE  /\ inst[i] = "installing" =>
                           \E k \in ActiveOn(Install, i)' : Holds(k)'
                      /\ inst[i] = "authorizing" =>
                           \E k \in ActiveOn(Auth, i)' : Holds(k)'
    BY DEF PhaseHeld
  <2>1. \A type : ActiveOn(type, i) \subseteq Jobs  BY DEF ActiveOn
  <2> QED BY <1>2, <2>1 DEF PhaseHeld
<1>4. Borrowed'  BY DEF Borrowed, Writer
<1> QED BY <1>1, <1>3, <1>4

\* A step of one job that writes the instance it works on.  Whatever it leaves
\* there must be accounted for by that job.
LEMMA Write ==
    ASSUME IInv, Typed', UNCHANGED <<spec, status, panel>>,
           NEW j \in Jobs, Writer(j),
           NEW value \in InstStates,
           inst' = [inst EXCEPT ![spec[j].target] = value],
           \A k \in Jobs : k # j => (Holds(k)' <=> Holds(k)),
           value = "installing" => spec[j].type = Install /\ Holds(j)',
           value = "authorizing" => spec[j].type = Auth /\ Holds(j)',
           spec[j].type = Auth => value \in {spec[j].snapshot, "authorizing"}
    PROVE  OneWriter' /\ PhaseHeld' /\ Borrowed'
<1> USE DEF IInv, Typed, TypeOK
<1>0. spec[j] \in Specs /\ spec[j].target \in Instances
  BY DEF Writer, Active, ActiveStatuses, Specs
<1>1. \A k \in Jobs : (Active(k)' <=> Active(k)) /\ (Writer(k)' <=> Writer(k))
  BY DEF Active, Writer
<1>2. OneWriter'  BY <1>1 DEF OneWriter
<1>3. \A type : \A i : ActiveOn(type, i)' = ActiveOn(type, i)  BY <1>1 DEF ActiveOn
<1>4. PhaseHeld'
  <2> SUFFICES ASSUME NEW i \in Instances
               PROVE  /\ inst'[i] = "installing" =>
                           \E k \in ActiveOn(Install, i) : Holds(k)'
                      /\ inst'[i] = "authorizing" =>
                           \E k \in ActiveOn(Auth, i) : Holds(k)'
    BY <1>3 DEF PhaseHeld
  <2>1. CASE i = spec[j].target  BY <1>0, <2>1 DEF ActiveOn, Writer
  <2>2. CASE i # spec[j].target
    <3>1. \A type : \A k \in ActiveOn(type, i) : k \in Jobs \ {j}  BY <2>2 DEF ActiveOn
    <3> QED BY <2>2, <3>1 DEF PhaseHeld
  <2> QED BY <2>1, <2>2
<1>5. Borrowed'
  <2> SUFFICES ASSUME NEW k \in Jobs, Active(k), spec[k].type = Auth
               PROVE  /\ spec[k].snapshot \in {"ready_to_start", "stopped"}
                      /\ \/ inst'[spec[k].target] = spec[k].snapshot
                         \/ Holds(k)' /\ inst'[spec[k].target] = "authorizing"
    BY <1>1 DEF Borrowed
  <2>1. CASE k = j  BY <1>0, <2>1 DEF Borrowed
  <2>2. CASE k # j
    <3>1. spec[k].target # spec[j].target  BY <2>2 DEF OneWriter, Writer
    <3> QED BY <2>2, <3>1 DEF Borrowed
  <2> QED BY <2>1, <2>2
<1> QED BY <1>2, <1>4, <1>5

-----------------------------------------------------------------------------
(* The steps                                                               *)

LEMMA CreateStep ==
    ASSUME IInv, Typed', CrashesOnly, NEW j \in Jobs, Create(j)
    PROVE  IInv'
<1> USE DEF IInv, Typed, TypeOK
<1>1. PICK i \in Instances, type \in Types, key \in Keys \cup {None},
           snapshot \in InstStates \cup {None} :
        /\ Insert(j, type, i, key, snapshot) /\ panel = "up"
        /\ ActiveOn(Install, i) = {} /\ ActiveOn(Auth, i) = {}
        /\ type = Auth => snapshot = inst[i] /\ inst[i] \in InstalledStates
  <2>1. ASSUME NEW i \in Instances, NEW type \in {Install, Auth},
               CreateExclusive(j, type, i)
        PROVE  /\ panel = "up" /\ InstallAdmitted(type, i)
               /\ Insert(j, type, i, None, IF type = Auth THEN inst[i] ELSE None)
    BY <2>1 DEF CreateExclusive
  <2>2. ASSUME NEW i \in Instances, NEW key \in Keys, CreateIdempotent(j, i, key)
        PROVE  panel = "up" /\ ImportAdmitted(i) /\ Insert(j, Import, i, key, None)
    BY <2>2 DEF CreateIdempotent
  <2>3. CASE \E i \in Instances : \E type \in {Install, Auth} :
                 CreateExclusive(j, type, i)
    <3>1. PICK i \in Instances, type \in {Install, Auth} :
             CreateExclusive(j, type, i)
      BY <2>3
    <3>2. InstallAdmitted(type, i) /\ panel = "up"
             /\ Insert(j, type, i, None, IF type = Auth THEN inst[i] ELSE None)
      BY <2>1, <3>1
    <3> QED BY <3>2 DEF InstallAdmitted, Types
  <2>4. CASE \E i \in Instances : \E key \in Keys : CreateIdempotent(j, i, key)
    BY <2>2, <2>4 DEF ImportAdmitted, Types, Import, Auth
  <2> QED BY <2>3, <2>4 DEF CreateExclusive, Create
<1>2. /\ status' = [status EXCEPT ![j] = "queued"] /\ status[j] = "absent"
      /\ spec' = [spec EXCEPT ![j] = [type |-> type, target |-> i, key |-> key,
                                      snapshot |-> snapshot]]
      /\ pc' = [pc EXCEPT ![j] = "created"]
      /\ ctx' = [ctx EXCEPT ![j] = "live"]
      /\ UNCHANGED <<inst, panel, todo, canceling>>
  BY <1>1 DEF Insert
<1>3. /\ \A k \in Jobs \ {j} : /\ Active(k)' <=> Active(k)
                               /\ spec'[k] = spec[k]
                               /\ Holds(k)' <=> Holds(k)
      /\ ~Active(j)
      /\ spec'[j].type = type /\ spec'[j].target = i /\ spec'[j].snapshot = snapshot
  BY <1>2 DEF Active, ActiveStatuses, Holds
<1>4. Handshake'  BY <1>1, <1>2, <1>3 DEF Handshake, Active, ActiveStatuses
<1>5. \A k \in Jobs : Writer(k) => spec[k].target # i  BY <1>1 DEF Writer, ActiveOn
<1>6. OneWriter'  BY <1>3, <1>5 DEF OneWriter, Writer
<1>7. \A t, h : ActiveOn(t, h) \subseteq ActiveOn(t, h)' \ {j}  BY <1>3 DEF ActiveOn
<1>8. PhaseHeld'
  <2> SUFFICES ASSUME NEW h \in Instances
               PROVE  /\ inst[h] = "installing" =>
                           \E k \in ActiveOn(Install, h)' : Holds(k)'
                      /\ inst[h] = "authorizing" =>
                           \E k \in ActiveOn(Auth, h)' : Holds(k)'
    BY <1>2 DEF PhaseHeld
  <2>1. \A t : ActiveOn(t, h) \subseteq Jobs  BY DEF ActiveOn
  <2> QED BY <1>3, <1>7, <2>1 DEF PhaseHeld
<1>9. inst[i] \notin {"installing", "authorizing"}  BY <1>1 DEF PhaseHeld
<1>10. Borrowed'  BY <1>1, <1>2, <1>3, <1>5, <1>9 DEF Borrowed, Writer, InstalledStates
<1> QED BY <1>4, <1>6, <1>8, <1>10

\* A database that answers lets a launched job start: the index has no other
\* install, and nobody ended the context.
LEMMA NoStartFailure ==
    ASSUME IInv, CrashesOnly, NEW j \in Jobs
    PROVE  ~StartRowFails(j) /\ ~RunnerPanics(j) /\ ~CancelRunning(j)
           /\ ~CancelReads(j) /\ ~CancelWrites(j)
<1>1. ~StartRowFails(j)
  <2> SUFFICES ASSUME StartRowFails(j) PROVE FALSE
    OBVIOUS
  <2>1. status[j] = "queued" /\ ctx[j] = "live"  BY DEF StartRowFails, IInv, Handshake
  <2>2. ~InstallIndexAllows(j, spec[j].type, spec[j].target)
    BY <2>1 DEF StartRowFails, CrashesOnly
  <2> QED
    BY <2>1, <2>2 DEF InstallIndexAllows, ActiveOn, IInv, OneWriter, Writer,
       Active, ActiveStatuses
<1>2. ~RunnerPanics(j) /\ ~CancelRunning(j) /\ ~CancelReads(j)
  BY DEF RunnerPanics, CancelRunning, CancelReads, CrashesOnly
<1>3. ~CancelWrites(j)  BY DEF CancelWrites, IInv, Handshake
<1> QED BY <1>1, <1>2, <1>3

LEMMA JobStep ==
    ASSUME IInv, Typed', CrashesOnly, NEW j \in Jobs, Step(j)
    PROVE  IInv'
<1> USE DEF IInv, Typed, TypeOK
<1>1. CASE Launch(j)
  <2>1. Handshake'  BY <1>1 DEF Launch, Handshake, Active
  <2>2. \A k \in Jobs : (Active(k)' <=> Active(k)) /\ (Holds(k) => Holds(k)')
    BY <1>1 DEF Launch, Active, Holds
  <2> QED BY <1>1, <2>1, <2>2, Frame DEF Launch, Writer
<1>2. CASE PrepareFails(j)
  <2>1. /\ status' = [status EXCEPT ![j] = "failed"]
        /\ pc' = [pc EXCEPT ![j] = "idle"] /\ pc[j] = "created" /\ panel = "up"
        /\ UNCHANGED <<inst, spec, panel, todo, ctx, canceling>>
    BY <1>2 DEF PrepareFails, CrashesOnly, SetStatus, Handshake
  <2>2. Handshake'  BY <2>1 DEF Handshake, Active, ActiveStatuses
  <2>3. /\ \A k \in Jobs : Active(k)' => Active(k)
        /\ \A k \in Jobs : Active(k) /\ Holds(k) => Active(k)' /\ Holds(k)'
    BY <2>1 DEF Active, ActiveStatuses, Holds
  <2> QED BY <2>1, <2>2, <2>3, Frame DEF Writer
<1>3. CASE StartRow(j)
  <2>1. /\ status' = [status EXCEPT ![j] = "running"] /\ status[j] = "queued"
        /\ pc' = [pc EXCEPT ![j] = "running"] /\ pc[j] = "launched" /\ panel = "up"
        /\ UNCHANGED <<inst, spec, panel, todo, ctx, canceling>>
    BY <1>3 DEF StartRow, SetStatus, Handshake
  <2>2. Handshake'  BY <2>1 DEF Handshake, Active, ActiveStatuses
  <2>3. /\ \A k \in Jobs : Active(k)' <=> Active(k)
        /\ \A k \in Jobs : Active(k) /\ Holds(k) => Holds(k)'
    BY <2>1 DEF Active, ActiveStatuses, Holds
  <2> QED BY <2>1, <2>2, <2>3, Frame DEF Writer
<1>4. CASE RunnerWrites(j)
  <2>1. PICK value \in InstStates :
          /\ inst' = [inst EXCEPT ![spec[j].target] = value] /\ Writer(j)
          /\ panel = "up" /\ pc[j] = "running"
          /\ UNCHANGED <<status, spec, panel, todo, memory>>
          /\ \/ spec[j].type = Install /\ value = "installing"
             \/ spec[j].type = Auth /\ value = "authorizing"
    BY <1>4 DEF RunnerWrites, LeasedWrite, Writer, Active, ActiveStatuses,
       Handshake, InstStates, InstalledStates
  <2>2. Handshake'  BY <2>1 DEF Handshake, Active, memory
  <2>3. \A k \in Jobs : (Holds(k)' <=> Holds(k)) /\ Holds(j)'  BY <2>1 DEF Holds, memory
  <2>4. OneWriter' /\ PhaseHeld' /\ Borrowed'  BY <2>1, <2>3, Write DEF Install, Auth
  <2> QED BY <2>2, <2>4
<1>5. CASE RunnerReturns(j)
  <2>1. /\ panel = "up" /\ pc[j] = "running" /\ Active(j)
        /\ UNCHANGED <<status, spec, panel, todo, ctx, canceling>>
        /\ \E to \in {"succeeding", "failing"} : pc' = [pc EXCEPT ![j] = to]
    BY <1>5 DEF RunnerReturns, RunnerSucceeds, RunnerFails, Active,
       ActiveStatuses, Handshake
  <2>2. Handshake'  BY <2>1 DEF Handshake, Active
  <2>3. \A k \in Jobs : k # j => (Holds(k)' <=> Holds(k))  BY <2>1 DEF Holds
  <2>4. CASE ~Writer(j)
    <3>1. UNCHANGED inst
      BY <1>5, <2>1, <2>4 DEF RunnerReturns, RunnerSucceeds, RunnerFails, Writer
    <3>2. \A k \in Jobs : Active(k)' <=> Active(k)  BY <2>1 DEF Active
    <3> QED BY <2>1, <2>2, <2>3, <2>4, <3>1, <3>2, Frame DEF Writer
  <2>5. CASE Writer(j)
    <3>1. CASE spec[j].type = Install
      <4>1. PICK value \in {"ready_to_start", "error"} :
              inst' = [inst EXCEPT ![spec[j].target] = value]
        <5>1. ASSUME RunnerSucceeds(j)
              PROVE  inst' = [inst EXCEPT ![spec[j].target] = "ready_to_start"]
          <6>1. LeasedWrite(j, "ready_to_start")
            BY <3>1, <5>1 DEF RunnerSucceeds, Install, Auth
          <6> QED BY <2>1, <6>1 DEF LeasedWrite
        <5>2. ASSUME RunnerFails(j)
              PROVE  inst' = [inst EXCEPT ![spec[j].target] = "error"]
          <6>1. LeasedWrite(j, "error")  BY <3>1, <5>2 DEF RunnerFails, Handshake, Install, Auth
          <6> QED BY <2>1, <6>1 DEF LeasedWrite
        <5> QED BY <1>5, <5>1, <5>2 DEF RunnerReturns
      <4> QED
        BY <2>1, <2>2, <2>3, <2>5, <3>1, <4>1, Write DEF Install, Auth,
           InstStates, InstalledStates
    <3>2. CASE spec[j].type = Auth
      <4>1. inst' = [inst EXCEPT ![spec[j].target] = spec[j].snapshot]
        BY <1>5, <3>2 DEF RunnerReturns, RunnerSucceeds, RunnerFails, Install, Auth
      <4>2. spec[j].snapshot \in {"ready_to_start", "stopped"}  BY <2>1, <3>2 DEF Borrowed
      <4> QED
        BY <2>1, <2>2, <2>3, <2>5, <3>2, <4>1, <4>2, Write DEF InstStates,
           InstalledStates
    <3> QED BY <2>5, <3>1, <3>2 DEF Writer
  <2> QED BY <2>4, <2>5
<1>6. CASE Settle(j)
  <2>1. PICK value \in TerminalStatuses :
          /\ status' = [status EXCEPT ![j] = value]
          /\ pc' = [pc EXCEPT ![j] = "idle"]
          /\ pc[j] \in {"succeeding", "failing"} /\ panel = "up"
          /\ UNCHANGED <<inst, spec, panel, todo, ctx, canceling>>
    BY <1>6 DEF Settle, Leave, SetStatus, CrashesOnly, Handshake, TerminalStatuses
  <2>2. Handshake'  BY <2>1 DEF Handshake, Active, ActiveStatuses, TerminalStatuses
  <2>3. /\ \A k \in Jobs : Active(k)' => Active(k)
        /\ \A k \in Jobs : Active(k) /\ Holds(k) => Active(k)' /\ Holds(k)'
    BY <2>1 DEF Active, ActiveStatuses, TerminalStatuses, Holds
  <2> QED BY <2>1, <2>2, <2>3, Frame DEF Writer
<1>7. CASE Expire(j)
  <2>1. Handshake'  BY <1>7 DEF Expire, Handshake, Active, durable
  <2>2. \A k \in Jobs : (Active(k)' <=> Active(k)) /\ (Holds(k) => Holds(k)')
    BY <1>7 DEF Expire, Active, Holds, durable
  <2> QED BY <1>7, <2>1, <2>2, Frame DEF Expire, durable, Writer
<1> QED BY <1>1, <1>2, <1>3, <1>4, <1>5, <1>6, <1>7, NoStartFailure DEF Step

LEMMA PanelStep ==
    ASSUME IInv, Typed', CrashesOnly, Clear \/ Crash \/ Recovery
    PROVE  IInv'
<1> USE DEF IInv, Typed, TypeOK
<1>1. CASE Clear
  <2>1. \A k \in Jobs : ~Active(k) /\ ~Active(k)'  BY <1>1 DEF Clear, Active, ActiveStatuses
  <2>2. \A k \in Jobs : pc[k] = "idle"  BY <2>1 DEF Handshake, Active, ActiveStatuses, PCs
  <2>3. Handshake'  BY <1>1, <2>1, <2>2 DEF Clear, Handshake, memory
  <2>4. PhaseHeld'  BY <1>1, <2>1 DEF Clear, PhaseHeld, ActiveOn
  <2> QED BY <2>1, <2>3, <2>4 DEF OneWriter, Borrowed, Writer
<1>2. CASE Crash
  <2>1. \A k \in Jobs : (Active(k)' <=> Active(k)) /\ Holds(k)'
    BY <1>2 DEF Crash, Active, Holds, durable
  <2>2. Handshake'  BY <1>2 DEF Crash, Handshake, Active, ActiveStatuses, durable
  <2> QED BY <1>2, <2>1, <2>2, Frame DEF Crash, Writer, durable
<1>3. CASE ListInterrupted
  <2>1. \A k \in Jobs : (Active(k)' <=> Active(k)) /\ (Active(k) => Holds(k)')
    BY <1>3 DEF ListInterrupted, Active, Holds, durable
  <2>2. Handshake'  BY <1>3, <2>1 DEF ListInterrupted, Handshake, memory, durable
  <2> QED BY <1>3, <2>1, <2>2, Frame DEF ListInterrupted, Writer, durable
<1>4. ASSUME NEW j \in Jobs, MarkInterrupted(j) PROVE IInv'
  <2>1. /\ panel = "recovering" /\ j \in todo /\ todo' = todo \ {j} /\ Active(j)
        /\ UNCHANGED <<status, spec, panel, memory>> /\ Recovered(j)
    BY <1>4 DEF MarkInterrupted, CrashesOnly, Handshake
  <2>2. Handshake'  BY <2>1 DEF Handshake, Active, memory
  <2>3. \A k \in Jobs : k # j => (Holds(k)' <=> Holds(k))  BY <2>1 DEF Holds
  <2>4. CASE spec[j].type = Install /\ inst[spec[j].target] \notin InstalledStates
    <3>1. inst' = [inst EXCEPT ![spec[j].target] = "error"]
      BY <2>1, <2>4 DEF Recovered, LeasedWrite
    <3> QED BY <2>1, <2>2, <2>3, <2>4, <3>1, Write DEF Writer, Install, Auth, InstStates
  <2>5. CASE spec[j].type = Auth
    <3>1. inst' = [inst EXCEPT ![spec[j].target] = spec[j].snapshot]
      BY <2>1, <2>5 DEF Recovered, Install, Auth
    <3>2. spec[j].snapshot \in {"ready_to_start", "stopped"}  BY <2>1, <2>5 DEF Borrowed
    <3> QED
      BY <2>1, <2>2, <2>3, <2>5, <3>1, <3>2, Write DEF Writer, InstStates,
         InstalledStates
  <2>6. CASE ~Writer(j)
    <3>1. UNCHANGED inst  BY <2>1, <2>6 DEF Recovered, Writer
    <3>2. \A k \in Jobs : Active(k)' <=> Active(k)  BY <2>1 DEF Active
    <3> QED BY <2>1, <2>2, <2>3, <2>6, <3>1, <3>2, Frame DEF Writer
  <2>7. CASE spec[j].type = Install /\ inst[spec[j].target] \in InstalledStates
    \* Nothing is written, and an installed instance is not in an install phase.
    <3>1. spec[j].target \in Instances  BY <2>1 DEF Specs, Active, ActiveStatuses
    <3>2. inst' = [inst EXCEPT ![spec[j].target] = inst[spec[j].target]]
      BY <2>1, <2>7, <3>1 DEF Recovered, Install, Auth
    <3>3. inst[spec[j].target] \notin {"installing", "authorizing"}
      <4>1. ASSUME inst[spec[j].target] = "authorizing" PROVE FALSE
        <5>1. PICK k \in ActiveOn(Auth, spec[j].target) : Holds(k)  BY <3>1, <4>1 DEF PhaseHeld
        <5> QED BY <2>1, <2>7, <5>1 DEF ActiveOn, OneWriter, Writer, Install, Auth
      <4> QED BY <2>7, <4>1 DEF InstalledStates
    <3> QED BY <2>1, <2>2, <2>3, <2>7, <3>1, <3>2, <3>3, Write DEF Writer, Install, Auth
  <2> QED BY <2>1, <2>4, <2>5, <2>6, <2>7 DEF Writer
<1>5. CASE FailInterrupted
  <2>1. \A k \in Jobs : ~Active(k)' /\ ~Holds(k)
    BY <1>5 DEF FailInterrupted, Active, ActiveStatuses, Holds
  <2>2. \A i \in Instances : inst[i] \notin {"installing", "authorizing"}
    BY <2>1 DEF PhaseHeld, ActiveOn
  <2>3. Handshake'  BY <1>5, <2>1 DEF FailInterrupted, Handshake, memory
  <2>4. PhaseHeld'  BY <1>5, <2>2 DEF FailInterrupted, PhaseHeld
  <2> QED BY <2>1, <2>3, <2>4 DEF OneWriter, Borrowed, Writer
<1> QED BY <1>1, <1>2, <1>3, <1>4, <1>5 DEF Recovery

LEMMA IInvNext ==
    ASSUME CrashesOnly, IInv, [Next]_vars PROVE IInv'
<1>1. Typed'  BY TypedNext DEF IInv
<1>2. CASE UNCHANGED vars
  BY <1>1, <1>2 DEF vars, IInv, Handshake, OneWriter, PhaseHeld, Borrowed,
     Writer, Active, ActiveOn, Holds
<1> QED BY <1>1, <1>2, CreateStep, JobStep, PanelStep DEF Next

LEMMA IInvAlways == ASSUME CrashesOnly PROVE Spec => []IInv
<1>1. IInv /\ [Next]_vars => IInv'  BY IInvNext
<1> QED BY <1>1, IInvInit, PTL DEF Spec

-----------------------------------------------------------------------------

\* With crashes as the only fault, however many and wherever they strike, an
\* instance shown as installing or authorizing has a running job behind it
\* whenever the panel serves.
THEOREM InstallPhaseOwnedHolds == ASSUME CrashesOnly PROVE Spec => []InstallPhaseOwned
<1>1. IInv => InstallPhaseOwned  BY DEF IInv, PhaseHeld, InstallPhaseOwned, Holds
<1> QED BY <1>1, IInvAlways, PTL

\* With crashes as the only fault, an authorization that ends leaves the
\* instance as it was captured.
THEOREM AuthGivesBackHolds == ASSUME CrashesOnly PROVE Spec => AuthGivesBack
<1>1. ASSUME IInv, [Next]_vars, NEW j \in Jobs, Active(j), ~Active(j)',
             spec[j].type = Auth
      PROVE  inst'[spec[j].target] = spec[j].snapshot
  <2>a. \A k \in Jobs :
            Step(k) => \/ Launch(k) \/ PrepareFails(k) \/ StartRow(k)
                       \/ RunnerWrites(k) \/ RunnerReturns(k)
                       \/ Settle(k) \/ Expire(k)
    BY <1>1, NoStartFailure DEF Step
  <2> USE DEF IInv, Typed, TypeOK
  <2>b. ~Holds(j) => inst[spec[j].target] = spec[j].snapshot  BY <1>1 DEF Borrowed
  <2>1. UNCHANGED inst /\ ~Holds(j)
    <3>1. ASSUME NEW k \in Jobs, Create(k) PROVE FALSE
      <4>1. status' = [status EXCEPT ![k] = "queued"]
        <5>1. \A i, type, key, snapshot : Insert(k, type, i, key, snapshot)
                => status' = [status EXCEPT ![k] = "queued"]
          BY DEF Insert
        <5> QED BY <3>1, <5>1 DEF Create, CreateExclusive, CreateIdempotent
      <4> QED BY <1>1, <4>1 DEF Active, ActiveStatuses
    <3>2. ASSUME NEW k \in Jobs, Step(k) PROVE UNCHANGED inst /\ ~Holds(j)
      <4>1. CASE PrepareFails(k)
        <5>1. k = j  BY <1>1, <4>1 DEF PrepareFails, SetStatus, Active, ActiveStatuses
        <5> QED BY <4>1, <5>1 DEF PrepareFails, Holds
      <4>2. CASE Settle(k)
        <5>1. k = j  BY <1>1, <4>2 DEF Settle, SetStatus, Active, ActiveStatuses
        <5> QED BY <4>2, <5>1 DEF Settle, Holds
      <4>3. CASE StartRow(k)  BY <1>1, <4>3 DEF StartRow, SetStatus, Active, ActiveStatuses
      <4>4. CASE Launch(k) \/ RunnerWrites(k) \/ RunnerReturns(k) \/ Expire(k)
        BY <1>1, <4>4 DEF Launch, RunnerWrites, RunnerReturns, RunnerSucceeds,
           RunnerFails, Expire, Active, durable
      <4> QED BY <2>a, <3>2, <4>1, <4>2, <4>3, <4>4
    <3>3. CASE Clear  BY <1>1, <3>3 DEF Clear
    <3>4. CASE FailInterrupted  BY <3>4 DEF FailInterrupted, Holds
    <3>5. CASE Crash \/ ListInterrupted \/ \E k \in Jobs : MarkInterrupted(k)
      BY <1>1, <3>5 DEF Crash, ListInterrupted, MarkInterrupted, Active, durable
    <3>6. CASE UNCHANGED vars  BY <1>1, <3>6 DEF vars, Active
    <3> QED BY <1>1, <3>1, <3>2, <3>3, <3>4, <3>5, <3>6 DEF Next, Recovery
  <2> QED BY <2>b, <2>1
<1>2. IInv /\ [Next]_vars =>
        [\A j \in Jobs :
           Active(j) /\ ~Active(j)' /\ spec[j].type = Auth
           => inst'[spec[j].target] = spec[j].snapshot]_vars
  BY <1>1
<1> QED BY <1>2, IInvAlways, PTL DEF Spec, AuthGivesBack

\* With crashes as the only fault, no goroutine and no recovery rewrites the
\* status of a job that has ended.
THEOREM TerminalIsFinalHolds == ASSUME CrashesOnly PROVE Spec => TerminalIsFinal
<1>1. ASSUME IInv, [Next]_vars, NEW j \in Jobs, status[j] \in TerminalStatuses
      PROVE  status'[j] \in {status[j], "absent"}
  <2>1. \A k \in Jobs :
            Step(k) => \/ Launch(k) \/ PrepareFails(k) \/ StartRow(k)
                       \/ RunnerWrites(k) \/ RunnerReturns(k)
                       \/ Settle(k) \/ Expire(k)
    BY <1>1, NoStartFailure DEF Step
  <2> USE DEF IInv, Typed, TypeOK
  <2>2. ASSUME NEW k \in Jobs, Create(k) PROVE status'[j] = status[j]
    <3>1. \A i, type, key, snapshot : Insert(k, type, i, key, snapshot)
            => status[k] = "absent" /\ status' = [status EXCEPT ![k] = "queued"]
      BY DEF Insert
    <3>2. status[k] = "absent" /\ status' = [status EXCEPT ![k] = "queued"]
      BY <2>2, <3>1 DEF Create, CreateExclusive, CreateIdempotent
    <3> QED BY <1>1, <3>2 DEF TerminalStatuses
  <2>3. ASSUME NEW k \in Jobs, Step(k) PROVE status'[j] = status[j]
    <3>1. CASE Launch(k) \/ RunnerWrites(k) \/ RunnerReturns(k) \/ Expire(k)
      BY <3>1 DEF Launch, RunnerWrites, RunnerReturns, RunnerSucceeds,
         RunnerFails, Expire, durable
    <3>2. CASE PrepareFails(k)
      BY <1>1, <3>2 DEF PrepareFails, SetStatus, Handshake, TerminalStatuses
    <3>3. CASE StartRow(k)  BY <1>1, <3>3 DEF StartRow, SetStatus, Handshake, TerminalStatuses
    <3>4. CASE Settle(k)  BY <1>1, <3>4 DEF Settle, SetStatus, Handshake, TerminalStatuses
    <3> QED BY <2>1, <2>3, <3>1, <3>2, <3>3, <3>4
  <2>4. CASE Clear  BY <2>4 DEF Clear
  <2>5. CASE FailInterrupted
    BY <1>1, <2>5 DEF FailInterrupted, Active, ActiveStatuses, TerminalStatuses
  <2>6. CASE Crash \/ ListInterrupted \/ \E k \in Jobs : MarkInterrupted(k)
    BY <2>6 DEF Crash, ListInterrupted, MarkInterrupted, durable
  <2>7. CASE UNCHANGED vars  BY <2>7 DEF vars
  <2> QED BY <1>1, <2>2, <2>3, <2>4, <2>5, <2>6, <2>7 DEF Next, Recovery
<1>2. IInv /\ [Next]_vars =>
        [\A j \in Jobs :
           status[j] \in TerminalStatuses
           => status'[j] \in {status[j], "absent"}]_vars
  BY <1>1
<1> QED BY <1>2, IInvAlways, PTL DEF Spec, TerminalIsFinal
=============================================================================
