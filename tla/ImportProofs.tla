----------------------------- MODULE ImportProofs -----------------------------
(***************************************************************************)
(* Proofs about the import of a save, for any number of failing steps,     *)
(* exits of the game and stops of the panel.                               *)
(***************************************************************************)
EXTENDS SaveImport, TLAPS

\* The stages by what has happened.
Early   == {"validated", "staged", "backup_created"}
Confirms == {"confirmed", "activating"}
Durables == {"finalize_confirmed", "persisting", "verified"}
Unended == Early \cup {"runtime_ready", "submitted"} \cup Confirms \cup Durables

\* Where the panel is, by what that says.
Joining  == {"bind", "bindtoken", "bindready", "stage", "staged"}
BootPlaces  == {"bootname", "bootbuild", "bootmake", "bootmade", "bootselect", "bootselected"}
Raising  == {"check", "publish", "startintent", "up", "upreturned", "ready"}
Phasing  == {"observe", "phasestop", "judge", "half", "phasefailed"}
Activating == {"activate", "restartintent", "restart", "restarted", "await"}
Lasting  == {"durable", "reserve", "send", "unsent", "sent", "saving", "asis", "unboot", "complete"}
UndoSteps  == {"rstop", "rstopped", "rsave", "rsaved", "rpointer", "rpointed", "rrow", "rrowed", "rend", "rmanual"}
Cleaning == {"clean", "removed"}
Working  == Joining \cup {"backup"} \cup BootPlaces \cup Raising \cup {"republish", "prepare", "fifo", "submitted"}
            \cup Phasing \cup Activating \cup Lasting \cup {"running", "succeed", "rollback"} \cup UndoSteps \cup Cleaning

\* What a journal says of itself.
Journaled ==
    /\ importJournal.fifo => importJournal.stage \notin Early
    /\ importJournal.stage \in {"submitted", "rolled_back", "completed"} \cup Confirms \cup Durables => importJournal.fifo
    /\ importJournal.submitted => importJournal.fifo
    /\ importJournal.confirmed <=> importJournal.stage \in {"rolled_back", "completed"} \cup Confirms \cup Durables
    /\ importJournal.outcome = "no_effect" => importJournal.fifo
    /\ importJournal.rollback # "none" \/ importJournal.unsent => importJournal.confirmed
    /\ importJournal.stage = "completed" => importJournal.rollback = "none"
    /\ importJournal.manual => importJournal.mrec \notin {"none", "restored"} \/ importJournal.confirmed
    /\ importJournal.stage = "canceled" <=> importJournal.clean = "done"
    /\ importJournal.clean # "none" => Exists
    /\ importJournal.boot # "none" => first = "none"
    /\ Exists => importJournal.original = first \/ importJournal.boot = "created"
    /\ Exists /\ row = "none" => importJournal.stage = "validated" /\ importJournal.boot = "none"

\* Nothing was done.
NothingDone ==
    /\ target = "none" /\ ~boot /\ ~intent /\ pointer = first
    /\ inst = "orig" /\ game = "down" /\ cmd = "none"

\* The commands, by what the journal says of them.
Commanded ==
    /\ submits \in 0..1 /\ saves \in 0..1
    /\ submits = 0 => cmd = "none" /\ ~intent
    /\ submits > 0 /\ Exists => importJournal.fifo
    /\ saves > 0 /\ Exists => importJournal.command
    /\ save # "none" => saves = 1
    /\ game = "down" => cmd = "none"
    /\ cmd \in {"queued", "converted", "pending"} => pointer # "target"

\* The world, by what the journal says of it.
WorldSound ==
    /\ importJournal.stage \in {"absent", "canceled"} => NothingDone
    /\ token.receipt => token.status = "owned" /\ importJournal.stage \in {"absent", "canceled"}
    /\ game # "down" => importJournal.maint \/ importJournal.restarted
    /\ inst = "maint" => Exists /\ importJournal.mrec \notin {"none", "restored"}
    /\ inst = "running" => importJournal.stage = "completed"
    /\ Proven => game = "down" /\ ~intent
    /\ importJournal.confirmed /\ importJournal.rollback = "none" => pointer = "target"
    /\ importJournal.stage \in Durables \cup {"completed"} /\ importJournal.rollback = "none" => ~intent
    /\ importJournal.stage = "completed" => ~boot /\ (swap => target = "saved" /\ saves = 1)
    /\ RolledBackRestored

\* What a cleanup has found, and how far it is.
Cleaned ==
    importJournal.clean # "none" =>
        /\ pc \in {"idle", "clean", "removed", "finalize", "untoken"} /\ token.status = "owned"
        /\ ~importJournal.maint /\ importJournal.mrec \in {"none", "restored"} /\ ~importJournal.confirmed
        /\ importJournal.fifo => Proven
        /\ game = "down" /\ inst = "orig" /\ ~intent
        /\ importJournal.clean = "boot" /\ importJournal.boot # "created" => ~boot /\ pointer = first
        /\ importJournal.clean \in {"staged", "source"} \/ pc = "removed" => ~boot /\ pointer = first
        /\ importJournal.clean = "source" \/ importJournal.stage = "validated" => target = "none"
        /\ importJournal.clean = "staged" /\ pc = "removed" => target = "none"

\* What the panel relies on where it is.
Placed ==
    /\ pc \in Working => row # "none"
    /\ pc \in {"admit", "refused", "move", "own", "ownjournal", "start"} \cup (Working \ Cleaning) => ~token.receipt
    /\ pc = "admit" => token.status = "reserved"
    /\ pc \in {"move", "own", "ownjournal", "start"} => Exists
    /\ pc \in Joining => importJournal.stage = "validated"
    /\ pc = "backup" => importJournal.stage = "staged"
    /\ pc \in Joining \cup {"backup"} => importJournal.boot = "none"
    /\ pc \in BootPlaces \cup Raising => importJournal.stage = "backup_created"
    /\ pc = "bootname" => importJournal.boot = "none" /\ importJournal.original = "none"
    /\ pc \in {"bootbuild", "bootmake", "bootmade"} => first = "none" /\ importJournal.boot \in {"named", "built"}
    /\ pc \in {"bootselect", "bootselected"} => importJournal.boot = "created"
    /\ pc \in {"publish", "startintent", "up", "upreturned", "ready", "republish"} =>
           importJournal.mrec \notin {"none", "restored"}
    /\ pc \in {"up", "upreturned", "ready"} => importJournal.maint
    /\ pc \in {"republish", "prepare", "fifo", "submitted"} => importJournal.stage = "runtime_ready"
    /\ pc \in {"republish", "prepare"} => ~importJournal.fifo
    /\ pc = "fifo" => submits = 0 /\ pointer # "target"
    /\ pc \in {"fifo", "submitted"} \cup Phasing => importJournal.fifo
    /\ pc \in Phasing => importJournal.stage \in {"runtime_ready", "submitted"}
    /\ pc \in {"judge", "half", "restore", "restorerow", "restored"} => game = "down"
    /\ pc = "restored" => inst # "maint"
    /\ pc \in {"bootstop", "giveup"} => kept = "up" \/ game = "down" \/ importJournal.restarted
    /\ pc \in {"mstop", "ambiguous", "ambstop"} => importJournal.stage \in Unended
    /\ pc \in Activating => importJournal.stage \in Confirms /\ importJournal.rollback = "none"
    /\ pc \in {"restart", "restarted"} => importJournal.restarted
    /\ pc \in Lasting => importJournal.stage \in Durables /\ importJournal.rollback = "none"
    /\ pc = "reserve" => ~importJournal.command
    /\ pc = "send" => importJournal.command /\ saves = 0
    /\ pc = "asis" => ~swap
    /\ pc \in {"unboot", "complete"} => (swap => target = "saved" /\ saves = 1)
    /\ pc = "complete" => ~boot
    /\ pc \in {"running", "bootrunning"} => importJournal.stage = "completed"
    /\ pc = "rollback" => importJournal.confirmed /\ swap
    /\ pc \in UndoSteps => importJournal.stage \in Confirms \cup Durables /\ importJournal.rollback # "none" /\ swap
    /\ pc \in UndoSteps \ {"rstop", "rmanual"} => game = "down"
    /\ pc \in {"rsaved", "rpointer", "rpointed", "rrow", "rrowed", "rend"} => target = "staged"
    /\ pc \in {"rpointed", "rrow", "rrowed", "rend"} => pointer = first /\ ~boot
    /\ pc \in {"rrowed", "rend"} => inst = "orig"
    /\ pc \in Cleaning => Exists /\ token.status = "owned"
    /\ pc = "removed" => importJournal.clean # "none"
    /\ pc = "finalize" => importJournal.stage \in {"absent", "canceled"}
    /\ pc = "untoken" => ~Exists

ImportInv == ImportTypeOK /\ Journaled /\ Commanded /\ WorldSound /\ Cleaned /\ Placed

Tokens == [status: {"none", "available", "reserved", "owned", "succeeded"}, job: BOOLEAN, receipt: BOOLEAN]

\* The stages by name.
LEMMA StageNames ==
    {ImportStages[i] : i \in 1..11} = Unended \cup {"completed"}
BY DEF ImportStages, Unended, Early, Confirms, Durables

\* Where a step to p leads: to the end of the job when it fails.
Lands(p) == IF p = "failed" THEN "idle" ELSE p
Lands2(good, bad) == {Lands(good), Lands(bad)}

\* What every step does with the row, the work and the count of faults.
AnyStep ==
    /\ row' \in {row, "failed"} /\ work' \in {work, "none"}
    /\ faults' \in 0..ImportFaults
UploadStays == UNCHANGED <<upload, fixed>>

\* A step to p, with its fault or without.
LEMMA MoveEffect ==
    ASSUME ImportTypeOK, NEW p, Ok(p) \/ Fail(p)
    PROVE  pc' = Lands(p) /\ AnyStep
BY ImportAssumption DEF ImportTypeOK, Ok, Fail, Goto, Lands, AnyStep

\* A step that writes the journal.
LEMMA JournalEffect ==
    ASSUME ImportTypeOK, NEW p, NEW j, NEW good, NEW bad, Record(p, j, good, bad)
    PROVE  /\ pc = p /\ AnyStep
           /\ \/ pc' = Lands(good) /\ importJournal' = j
              \/ pc' = Lands(bad) /\ importJournal' \in {importJournal, j}
           /\ UNCHANGED <<token, payload, kept, inst, target, pointer, intent, boot, game, cmd, save, submits, saves,
                          swap, first, panel, crashes>>
BY MoveEffect DEF Record, Put, upload, files, runtime, count, fixed

\* A stop of the game, a fresh container and a write of the instance row.
LEMMA StopEffect ==
    ASSUME ImportTypeOK, NEW p, NEW good, NEW bad, Stop(p, good, bad)
    PROVE  /\ pc = p /\ AnyStep
           /\ \/ pc' = Lands(good) /\ game' = "down" /\ cmd' = "none"
              \/ pc' = Lands(bad) /\ game' \in {"down", game} /\ cmd' = (IF game' = "down" THEN "none" ELSE cmd)
           /\ UNCHANGED <<token, payload, importJournal, kept, inst, target, pointer, intent, boot, save, submits, saves,
                          swap, first, panel, crashes>>
BY MoveEffect DEF Stop, upload, files, runtime, count, fixed
LEMMA RecreateEffect ==
    ASSUME ImportTypeOK, NEW p, NEW good, NEW bad, RecreateServer(p, good, bad)
    PROVE  /\ pc = p /\ AnyStep
           /\ \/ pc' = Lands(good) /\ game' = "loading" /\ cmd' = "none"
              \/ pc' = Lands(bad) /\ game' \in {"down", "loading", game} /\ cmd' = (IF game' = game THEN cmd ELSE "none")
           /\ UNCHANGED <<token, payload, importJournal, kept, inst, target, pointer, intent, boot, save, submits, saves,
                          swap, first, panel, crashes>>
BY MoveEffect DEF RecreateServer, upload, files, runtime, count, fixed
LEMMA Published ==
    ASSUME ImportTypeOK, NEW p, NEW i, NEW good, NEW bad, Publish(p, i, good, bad)
    PROVE  /\ pc = p /\ AnyStep
           /\ \/ pc' = Lands(good) /\ inst' = i
              \/ pc' = Lands(bad) /\ inst' = inst
           /\ UNCHANGED <<token, payload, importJournal, kept, target, pointer, intent, boot, game, cmd, save, submits, saves,
                          swap, first, panel, crashes>>
BY MoveEffect DEF Publish, upload, files, runtime, count, fixed

\* A step that only moves the panel on, and one that fails.
LEMMA Passed ==
    ASSUME ImportTypeOK, NEW p, NEW good, pc = p, Ok(good),
           UNCHANGED <<upload, importJournal, kept, inst, files, runtime, count, fixed>>
    PROVE  /\ pc = p /\ pc' = Lands(good) /\ AnyStep
           /\ UNCHANGED <<token, payload, importJournal, kept, inst, target, pointer, intent, boot, game, cmd, save,
                          submits, saves, swap, first, panel, crashes>>
BY MoveEffect DEF upload, files, runtime, count, fixed
LEMMA Missed ==
    ASSUME ImportTypeOK, NEW p, NEW bad, Miss(p, bad)
    PROVE  /\ pc = p /\ pc' = Lands(bad) /\ AnyStep
           /\ UNCHANGED <<token, payload, importJournal, kept, inst, target, pointer, intent, boot, game, cmd, save,
                          submits, saves, swap, first, panel, crashes>>
BY MoveEffect DEF Miss, upload, files, runtime, count, fixed

\* A write of the journal beside something else.
LEMMA JournalWritten ==
    ASSUME ImportTypeOK, NEW j, NEW good, NEW bad, Put(j, good, bad)
    PROVE  /\ AnyStep
           /\ \/ pc' = Lands(good) /\ importJournal' = j
              \/ pc' = Lands(bad) /\ importJournal' \in {importJournal, j}
BY MoveEffect DEF Put

\* What the verdicts say of the disk.
LEMMA Verdicts ==
    /\ Verdict = "confirmed" => pointer = "target"
    /\ Verdict = "no_effect" => target = "staged" /\ ~intent /\ pointer = importJournal.original
    /\ Verdict = "half" => ~intent
BY DEF Verdict

\* The order of the stages.
LEMMA Order ==
    /\ Index("validated") = 1 /\ Index("staged") = 2 /\ Index("backup_created") = 3 /\ Index("runtime_ready") = 4
    /\ Index("submitted") = 5 /\ Index("confirmed") = 6 /\ Index("activating") = 7 /\ Index("finalize_confirmed") = 8
    /\ Index("persisting") = 9 /\ Index("verified") = 10 /\ Index("completed") = 11
<1> DEFINE P(i, s) == ImportStages[i] = s
<1>0. /\ P(1, "validated") /\ P(2, "staged") /\ P(3, "backup_created") /\ P(4, "runtime_ready")
      /\ P(5, "submitted") /\ P(6, "confirmed") /\ P(7, "activating") /\ P(8, "finalize_confirmed")
      /\ P(9, "persisting") /\ P(10, "verified") /\ P(11, "completed")
  BY DEF ImportStages
<1>1. \A i \in 1..11 : i \in {1, 2, 3, 4, 5, 6, 7, 8, 9, 10, 11}  OBVIOUS
<1> HIDE DEF P
<1>2. ASSUME NEW k \in 1..11, NEW s, P(k, s), \A i \in 1..11 : P(i, s) => i = k
      PROVE  Index(s) = k
  BY <1>2 DEF Index, P
<1>3. \A i \in 1..11 : \A s, t : P(i, s) /\ P(i, t) => s = t  BY DEF P
<1>4. ASSUME NEW k \in 1..11, NEW s, P(k, s),
             s \in {"validated", "staged", "backup_created", "runtime_ready", "submitted", "confirmed", "activating",
                    "finalize_confirmed", "persisting", "verified", "completed"}
      PROVE  \A i \in 1..11 : P(i, s) => i = k
  BY <1>0, <1>1, <1>3, <1>4
<1> QED BY <1>0, <1>2, <1>4
LEMMA Reached ==
    ASSUME importJournal \in Journals
    PROVE  /\ importJournal.stage \in Unended => (AtLeast("staged") <=> importJournal.stage # "validated")
           /\ AtLeast("submitted") <=> importJournal.stage \in {"submitted", "completed"} \cup Confirms \cup Durables
BY Order, StageNames DEF AtLeast, Journals, Unended, Early, Confirms, Durables

\* The journal while the job is started and the save is staged.
LEMMA StagedJournal ==
    ASSUME ImportInv, OwnJournal \/ Attach \/ Confirm \/ RecordStaged \/ Backup \/ NameBootstrap \/ BuildBootstrap \/ RecordBootstrap \/ RecordOriginal
    PROVE  ImportInv'
<1> USE DEF AnyStep, WorldSound, Placed, Exists, Ended, Journaled, Cleaned, Commanded, NothingDone, Proven
<1>0. /\ ImportTypeOK /\ Journaled /\ Commanded /\ WorldSound /\ Cleaned /\ Placed
      /\ importJournal \in Journals /\ token \in Tokens
  BY DEF ImportInv, ImportTypeOK, Tokens
<1> USE DEF Early, Confirms, Durables, Unended, Joining, BootPlaces, Raising, Phasing, Activating, Lasting, UndoSteps, Cleaning, Working
<1>1. ASSUME OwnJournal PROVE ImportInv'
  <2> DEFINE j == [importJournal EXCEPT !.owned = TRUE]
  <2>1. /\ j \in Journals
        /\ j.stage = importJournal.stage /\ j.original = importJournal.original /\ j.owned = TRUE
        /\ j.bind = importJournal.bind /\ j.boot = importJournal.boot /\ j.maint = importJournal.maint
        /\ j.mrec = importJournal.mrec /\ j.manual = importJournal.manual /\ j.fifo = importJournal.fifo
        /\ j.submitted = importJournal.submitted /\ j.confirmed = importJournal.confirmed /\ j.outcome = importJournal.outcome
        /\ j.restarted = importJournal.restarted /\ j.command = importJournal.command /\ j.unsent = importJournal.unsent
        /\ j.rollback = importJournal.rollback /\ j.clean = importJournal.clean
    <3>1. importJournal \in Journals  BY <1>0
    <3> QED BY <3>1 DEF Journals
  <2> HIDE DEF j
  <2>2. /\ pc = "ownjournal" /\ AnyStep
        /\ \/ pc' = "start" /\ importJournal' = j
           \/ pc' = "refused" /\ importJournal' \in {importJournal, j}
        /\ UNCHANGED <<token, payload, kept, inst, target, pointer, intent, boot, game, cmd, save,
                       submits, saves, swap, first, panel, crashes>>
    BY <1>0, <1>1, JournalEffect DEF OwnJournal, Lands, j
  <2>3. ImportTypeOK'  BY <1>0, <2>1, <2>2 DEF ImportTypeOK, PCs
  <2>4. Journaled'  BY <1>0, <2>1, <2>2
  <2>5. Commanded'  BY <1>0, <2>1, <2>2
  <2>6. WorldSound'  BY <1>0, <2>1, <2>2 DEF RolledBackRestored
  <2>7. Cleaned'  BY <1>0, <2>1, <2>2
  <2>8. Placed'  BY <1>0, <2>1, <2>2
  <2> QED BY <2>3, <2>4, <2>5, <2>6, <2>7, <2>8 DEF ImportInv
<1>2. ASSUME Attach PROVE ImportInv'
  <2> DEFINE j == [importJournal EXCEPT !.bind = "attached"]
  <2>1. /\ j \in Journals
        /\ j.stage = importJournal.stage /\ j.original = importJournal.original /\ j.owned = importJournal.owned
        /\ j.bind = "attached" /\ j.boot = importJournal.boot /\ j.maint = importJournal.maint
        /\ j.mrec = importJournal.mrec /\ j.manual = importJournal.manual /\ j.fifo = importJournal.fifo
        /\ j.submitted = importJournal.submitted /\ j.confirmed = importJournal.confirmed /\ j.outcome = importJournal.outcome
        /\ j.restarted = importJournal.restarted /\ j.command = importJournal.command /\ j.unsent = importJournal.unsent
        /\ j.rollback = importJournal.rollback /\ j.clean = importJournal.clean
    <3>1. importJournal \in Journals  BY <1>0
    <3> QED BY <3>1 DEF Journals
  <2> HIDE DEF j
  <2>2. /\ pc = "bind" /\ AnyStep
        /\ \/ pc' = "bindtoken" /\ importJournal' = j
           \/ pc' = "idle" /\ importJournal' \in {importJournal, j}
        /\ UNCHANGED <<token, payload, kept, inst, target, pointer, intent, boot, game, cmd, save,
                       submits, saves, swap, first, panel, crashes>>
    BY <1>0, <1>2, JournalEffect DEF Attach, Lands, j
  <2>3. ImportTypeOK'  BY <1>0, <2>1, <2>2 DEF ImportTypeOK, PCs
  <2>4. Journaled'  BY <1>0, <2>1, <2>2
  <2>5. Commanded'  BY <1>0, <2>1, <2>2
  <2>6. WorldSound'  BY <1>0, <2>1, <2>2 DEF RolledBackRestored
  <2>7. Cleaned'  BY <1>0, <2>1, <2>2
  <2>8. Placed'  BY <1>0, <2>1, <2>2
  <2> QED BY <2>3, <2>4, <2>5, <2>6, <2>7, <2>8 DEF ImportInv
<1>3. ASSUME Confirm PROVE ImportInv'
  <2> DEFINE j == [importJournal EXCEPT !.bind = "ready"]
  <2>1. /\ j \in Journals
        /\ j.stage = importJournal.stage /\ j.original = importJournal.original /\ j.owned = importJournal.owned
        /\ j.bind = "ready" /\ j.boot = importJournal.boot /\ j.maint = importJournal.maint
        /\ j.mrec = importJournal.mrec /\ j.manual = importJournal.manual /\ j.fifo = importJournal.fifo
        /\ j.submitted = importJournal.submitted /\ j.confirmed = importJournal.confirmed /\ j.outcome = importJournal.outcome
        /\ j.restarted = importJournal.restarted /\ j.command = importJournal.command /\ j.unsent = importJournal.unsent
        /\ j.rollback = importJournal.rollback /\ j.clean = importJournal.clean
    <3>1. importJournal \in Journals  BY <1>0
    <3> QED BY <3>1 DEF Journals
  <2> HIDE DEF j
  <2>2. /\ pc = "bindready" /\ AnyStep
        /\ \/ pc' = "stage" /\ importJournal' = j
           \/ pc' = "idle" /\ importJournal' \in {importJournal, j}
        /\ UNCHANGED <<token, payload, kept, inst, target, pointer, intent, boot, game, cmd, save,
                       submits, saves, swap, first, panel, crashes>>
    BY <1>0, <1>3, JournalEffect DEF Confirm, Lands, j
  <2>3. ImportTypeOK'  BY <1>0, <2>1, <2>2 DEF ImportTypeOK, PCs
  <2>4. Journaled'  BY <1>0, <2>1, <2>2
  <2>5. Commanded'  BY <1>0, <2>1, <2>2
  <2>6. WorldSound'  BY <1>0, <2>1, <2>2 DEF RolledBackRestored
  <2>7. Cleaned'  BY <1>0, <2>1, <2>2
  <2>8. Placed'  BY <1>0, <2>1, <2>2
  <2> QED BY <2>3, <2>4, <2>5, <2>6, <2>7, <2>8 DEF ImportInv
<1>4. ASSUME RecordStaged PROVE ImportInv'
  <2> DEFINE j == [importJournal EXCEPT !.stage = "staged"]
  <2>1. /\ j \in Journals
        /\ j.stage = "staged" /\ j.original = importJournal.original /\ j.owned = importJournal.owned
        /\ j.bind = importJournal.bind /\ j.boot = importJournal.boot /\ j.maint = importJournal.maint
        /\ j.mrec = importJournal.mrec /\ j.manual = importJournal.manual /\ j.fifo = importJournal.fifo
        /\ j.submitted = importJournal.submitted /\ j.confirmed = importJournal.confirmed /\ j.outcome = importJournal.outcome
        /\ j.restarted = importJournal.restarted /\ j.command = importJournal.command /\ j.unsent = importJournal.unsent
        /\ j.rollback = importJournal.rollback /\ j.clean = importJournal.clean
    <3>1. importJournal \in Journals  BY <1>0
    <3>2. "staged" \in {"absent", "canceled", "rolled_back"} \cup {ImportStages[i] : i \in 1..11}
      BY <3>1, StageNames DEF Journals
    <3> QED BY <3>1, <3>2 DEF Journals
  <2> HIDE DEF j
  <2>2. /\ pc = "staged" /\ AnyStep
        /\ \/ pc' = "backup" /\ importJournal' = j
           \/ pc' = "idle" /\ importJournal' \in {importJournal, j}
        /\ UNCHANGED <<token, payload, kept, inst, target, pointer, intent, boot, game, cmd, save,
                       submits, saves, swap, first, panel, crashes>>
    BY <1>0, <1>4, JournalEffect DEF RecordStaged, Lands, j
  <2>3. ImportTypeOK'  BY <1>0, <2>1, <2>2 DEF ImportTypeOK, PCs
  <2>4. Journaled'  BY <1>0, <2>1, <2>2
  <2>5. Commanded'  BY <1>0, <2>1, <2>2
  <2>6. WorldSound'  BY <1>0, <2>1, <2>2 DEF RolledBackRestored
  <2>7. Cleaned'  BY <1>0, <2>1, <2>2
  <2>8. Placed'  BY <1>0, <2>1, <2>2
  <2> QED BY <2>3, <2>4, <2>5, <2>6, <2>7, <2>8 DEF ImportInv
<1>5. ASSUME Backup PROVE ImportInv'
  <2> DEFINE j == [importJournal EXCEPT !.stage = "backup_created"]
  <2>1. /\ j \in Journals
        /\ j.stage = "backup_created" /\ j.original = importJournal.original /\ j.owned = importJournal.owned
        /\ j.bind = importJournal.bind /\ j.boot = importJournal.boot /\ j.maint = importJournal.maint
        /\ j.mrec = importJournal.mrec /\ j.manual = importJournal.manual /\ j.fifo = importJournal.fifo
        /\ j.submitted = importJournal.submitted /\ j.confirmed = importJournal.confirmed /\ j.outcome = importJournal.outcome
        /\ j.restarted = importJournal.restarted /\ j.command = importJournal.command /\ j.unsent = importJournal.unsent
        /\ j.rollback = importJournal.rollback /\ j.clean = importJournal.clean
    <3>1. importJournal \in Journals  BY <1>0
    <3>2. "backup_created" \in {"absent", "canceled", "rolled_back"} \cup {ImportStages[i] : i \in 1..11}
      BY <3>1, StageNames DEF Journals
    <3> QED BY <3>1, <3>2 DEF Journals
  <2> HIDE DEF j
  <2>2. /\ pc = "backup" /\ AnyStep
        /\ \/ pc' = (IF importJournal.original = "none" THEN "bootname" ELSE "check") /\ importJournal' = j
           \/ pc' = "idle" /\ importJournal' \in {importJournal, j}
        /\ UNCHANGED <<token, payload, kept, inst, target, pointer, intent, boot, game, cmd, save,
                       submits, saves, swap, first, panel, crashes>>
    BY <1>0, <1>5, JournalEffect DEF Backup, Lands, j
  <2>3. ImportTypeOK'  BY <1>0, <2>1, <2>2 DEF ImportTypeOK, PCs
  <2>4. Journaled'  BY <1>0, <2>1, <2>2
  <2>5. Commanded'  BY <1>0, <2>1, <2>2
  <2>6. WorldSound'  BY <1>0, <2>1, <2>2 DEF RolledBackRestored
  <2>7. Cleaned'  BY <1>0, <2>1, <2>2
  <2>8. Placed'  BY <1>0, <2>1, <2>2
  <2> QED BY <2>3, <2>4, <2>5, <2>6, <2>7, <2>8 DEF ImportInv
<1>6. ASSUME NameBootstrap PROVE ImportInv'
  <2> DEFINE j == [importJournal EXCEPT !.boot = "named"]
  <2>1. /\ j \in Journals
        /\ j.stage = importJournal.stage /\ j.original = importJournal.original /\ j.owned = importJournal.owned
        /\ j.bind = importJournal.bind /\ j.boot = "named" /\ j.maint = importJournal.maint
        /\ j.mrec = importJournal.mrec /\ j.manual = importJournal.manual /\ j.fifo = importJournal.fifo
        /\ j.submitted = importJournal.submitted /\ j.confirmed = importJournal.confirmed /\ j.outcome = importJournal.outcome
        /\ j.restarted = importJournal.restarted /\ j.command = importJournal.command /\ j.unsent = importJournal.unsent
        /\ j.rollback = importJournal.rollback /\ j.clean = importJournal.clean
    <3>1. importJournal \in Journals  BY <1>0
    <3> QED BY <3>1 DEF Journals
  <2> HIDE DEF j
  <2>2. /\ pc = "bootname" /\ AnyStep
        /\ \/ pc' = "bootbuild" /\ importJournal' = j
           \/ pc' = "idle" /\ importJournal' \in {importJournal, j}
        /\ UNCHANGED <<token, payload, kept, inst, target, pointer, intent, boot, game, cmd, save,
                       submits, saves, swap, first, panel, crashes>>
    BY <1>0, <1>6, JournalEffect DEF NameBootstrap, Lands, j
  <2>3. ImportTypeOK'  BY <1>0, <2>1, <2>2 DEF ImportTypeOK, PCs
  <2>4. Journaled'  BY <1>0, <2>1, <2>2
  <2>5. Commanded'  BY <1>0, <2>1, <2>2
  <2>6. WorldSound'  BY <1>0, <2>1, <2>2 DEF RolledBackRestored
  <2>7. Cleaned'  BY <1>0, <2>1, <2>2
  <2>8. Placed'  BY <1>0, <2>1, <2>2
  <2> QED BY <2>3, <2>4, <2>5, <2>6, <2>7, <2>8 DEF ImportInv
<1>7. ASSUME BuildBootstrap PROVE ImportInv'
  <2> DEFINE j == [importJournal EXCEPT !.boot = "built"]
  <2>1. /\ j \in Journals
        /\ j.stage = importJournal.stage /\ j.original = importJournal.original /\ j.owned = importJournal.owned
        /\ j.bind = importJournal.bind /\ j.boot = "built" /\ j.maint = importJournal.maint
        /\ j.mrec = importJournal.mrec /\ j.manual = importJournal.manual /\ j.fifo = importJournal.fifo
        /\ j.submitted = importJournal.submitted /\ j.confirmed = importJournal.confirmed /\ j.outcome = importJournal.outcome
        /\ j.restarted = importJournal.restarted /\ j.command = importJournal.command /\ j.unsent = importJournal.unsent
        /\ j.rollback = importJournal.rollback /\ j.clean = importJournal.clean
    <3>1. importJournal \in Journals  BY <1>0
    <3> QED BY <3>1 DEF Journals
  <2> HIDE DEF j
  <2>2. /\ pc = "bootbuild" /\ AnyStep
        /\ \/ pc' = "bootmake" /\ importJournal' = j
           \/ pc' = "idle" /\ importJournal' \in {importJournal, j}
        /\ UNCHANGED <<token, payload, kept, inst, target, pointer, intent, boot, game, cmd, save,
                       submits, saves, swap, first, panel, crashes>>
    BY <1>0, <1>7, JournalEffect DEF BuildBootstrap, Lands, j
  <2>3. ImportTypeOK'  BY <1>0, <2>1, <2>2 DEF ImportTypeOK, PCs
  <2>4. Journaled'  BY <1>0, <2>1, <2>2
  <2>5. Commanded'  BY <1>0, <2>1, <2>2
  <2>6. WorldSound'  BY <1>0, <2>1, <2>2 DEF RolledBackRestored
  <2>7. Cleaned'  BY <1>0, <2>1, <2>2
  <2>8. Placed'  BY <1>0, <2>1, <2>2
  <2> QED BY <2>3, <2>4, <2>5, <2>6, <2>7, <2>8 DEF ImportInv
<1>8. ASSUME RecordBootstrap PROVE ImportInv'
  <2> DEFINE j == [importJournal EXCEPT !.boot = "created"]
  <2>1. /\ j \in Journals
        /\ j.stage = importJournal.stage /\ j.original = importJournal.original /\ j.owned = importJournal.owned
        /\ j.bind = importJournal.bind /\ j.boot = "created" /\ j.maint = importJournal.maint
        /\ j.mrec = importJournal.mrec /\ j.manual = importJournal.manual /\ j.fifo = importJournal.fifo
        /\ j.submitted = importJournal.submitted /\ j.confirmed = importJournal.confirmed /\ j.outcome = importJournal.outcome
        /\ j.restarted = importJournal.restarted /\ j.command = importJournal.command /\ j.unsent = importJournal.unsent
        /\ j.rollback = importJournal.rollback /\ j.clean = importJournal.clean
    <3>1. importJournal \in Journals  BY <1>0
    <3> QED BY <3>1 DEF Journals
  <2> HIDE DEF j
  <2>2. /\ pc = "bootmade" /\ AnyStep
        /\ \/ pc' = "bootselect" /\ importJournal' = j
           \/ pc' = "idle" /\ importJournal' \in {importJournal, j}
        /\ UNCHANGED <<token, payload, kept, inst, target, pointer, intent, boot, game, cmd, save,
                       submits, saves, swap, first, panel, crashes>>
    BY <1>0, <1>8, JournalEffect DEF RecordBootstrap, Lands, j
  <2>3. ImportTypeOK'  BY <1>0, <2>1, <2>2 DEF ImportTypeOK, PCs
  <2>4. Journaled'  BY <1>0, <2>1, <2>2
  <2>5. Commanded'  BY <1>0, <2>1, <2>2
  <2>6. WorldSound'  BY <1>0, <2>1, <2>2 DEF RolledBackRestored
  <2>7. Cleaned'  BY <1>0, <2>1, <2>2
  <2>8. Placed'  BY <1>0, <2>1, <2>2
  <2> QED BY <2>3, <2>4, <2>5, <2>6, <2>7, <2>8 DEF ImportInv
<1>9. ASSUME RecordOriginal PROVE ImportInv'
  <2> DEFINE j == [importJournal EXCEPT !.original = "boot"]
  <2>1. /\ j \in Journals
        /\ j.stage = importJournal.stage /\ j.original = "boot" /\ j.owned = importJournal.owned
        /\ j.bind = importJournal.bind /\ j.boot = importJournal.boot /\ j.maint = importJournal.maint
        /\ j.mrec = importJournal.mrec /\ j.manual = importJournal.manual /\ j.fifo = importJournal.fifo
        /\ j.submitted = importJournal.submitted /\ j.confirmed = importJournal.confirmed /\ j.outcome = importJournal.outcome
        /\ j.restarted = importJournal.restarted /\ j.command = importJournal.command /\ j.unsent = importJournal.unsent
        /\ j.rollback = importJournal.rollback /\ j.clean = importJournal.clean
    <3>1. importJournal \in Journals  BY <1>0
    <3> QED BY <3>1 DEF Journals
  <2> HIDE DEF j
  <2>2. /\ pc = "bootselected" /\ AnyStep
        /\ \/ pc' = "check" /\ importJournal' = j
           \/ pc' = "idle" /\ importJournal' \in {importJournal, j}
        /\ UNCHANGED <<token, payload, kept, inst, target, pointer, intent, boot, game, cmd, save,
                       submits, saves, swap, first, panel, crashes>>
    BY <1>0, <1>9, JournalEffect DEF RecordOriginal, Lands, j
  <2>3. ImportTypeOK'  BY <1>0, <2>1, <2>2 DEF ImportTypeOK, PCs
  <2>4. Journaled'  BY <1>0, <2>1, <2>2
  <2>5. Commanded'  BY <1>0, <2>1, <2>2
  <2>6. WorldSound'  BY <1>0, <2>1, <2>2 DEF RolledBackRestored
  <2>7. Cleaned'  BY <1>0, <2>1, <2>2
  <2>8. Placed'  BY <1>0, <2>1, <2>2
  <2> QED BY <2>3, <2>4, <2>5, <2>6, <2>7, <2>8 DEF ImportInv
<1> QED BY <1>1, <1>2, <1>3, <1>4, <1>5, <1>6, <1>7, <1>8, <1>9

\* The journal of the private game and of what is ambiguous.
LEMMA Submitting ==
    ASSUME ImportInv, StartIntent \/ UpReturned \/ RecordSubmitted \/ HalfRestored \/ PhaseFailed \/ Ambiguous \/ PersistManual
    PROVE  ImportInv'
<1> USE DEF AnyStep, WorldSound, Placed, Exists, Ended, Journaled, Cleaned, Commanded, NothingDone, Proven
<1>0. /\ ImportTypeOK /\ Journaled /\ Commanded /\ WorldSound /\ Cleaned /\ Placed
      /\ importJournal \in Journals /\ token \in Tokens
  BY DEF ImportInv, ImportTypeOK, Tokens
<1> USE DEF Early, Confirms, Durables, Unended, Joining, BootPlaces, Raising, Phasing, Activating, Lasting, UndoSteps, Cleaning, Working
<1>1. ASSUME StartIntent PROVE ImportInv'
  <2> DEFINE j == [importJournal EXCEPT !.maint = TRUE, !.mrec = "intent"]
  <2>1. /\ j \in Journals
        /\ j.stage = importJournal.stage /\ j.original = importJournal.original /\ j.owned = importJournal.owned
        /\ j.bind = importJournal.bind /\ j.boot = importJournal.boot /\ j.maint = TRUE
        /\ j.mrec = "intent" /\ j.manual = importJournal.manual /\ j.fifo = importJournal.fifo
        /\ j.submitted = importJournal.submitted /\ j.confirmed = importJournal.confirmed /\ j.outcome = importJournal.outcome
        /\ j.restarted = importJournal.restarted /\ j.command = importJournal.command /\ j.unsent = importJournal.unsent
        /\ j.rollback = importJournal.rollback /\ j.clean = importJournal.clean
    <3>1. importJournal \in Journals  BY <1>0
    <3> QED BY <3>1 DEF Journals
  <2> HIDE DEF j
  <2>2. /\ pc = "startintent" /\ AnyStep
        /\ \/ pc' = "up" /\ importJournal' = j
           \/ pc' = "mstop" /\ importJournal' \in {importJournal, j}
        /\ UNCHANGED <<token, payload, kept, inst, target, pointer, intent, boot, game, cmd, save,
                       submits, saves, swap, first, panel, crashes>>
    BY <1>0, <1>1, JournalEffect DEF StartIntent, Lands, j
  <2>3. ImportTypeOK'  BY <1>0, <2>1, <2>2 DEF ImportTypeOK, PCs
  <2>4. Journaled'  BY <1>0, <2>1, <2>2
  <2>5. Commanded'  BY <1>0, <2>1, <2>2
  <2>6. WorldSound'  BY <1>0, <2>1, <2>2 DEF RolledBackRestored
  <2>7. Cleaned'  BY <1>0, <2>1, <2>2
  <2>8. Placed'  BY <1>0, <2>1, <2>2
  <2> QED BY <2>3, <2>4, <2>5, <2>6, <2>7, <2>8 DEF ImportInv
<1>2. ASSUME UpReturned PROVE ImportInv'
  <2> DEFINE j == [importJournal EXCEPT !.mrec = "up"]
  <2>1. /\ j \in Journals
        /\ j.stage = importJournal.stage /\ j.original = importJournal.original /\ j.owned = importJournal.owned
        /\ j.bind = importJournal.bind /\ j.boot = importJournal.boot /\ j.maint = importJournal.maint
        /\ j.mrec = "up" /\ j.manual = importJournal.manual /\ j.fifo = importJournal.fifo
        /\ j.submitted = importJournal.submitted /\ j.confirmed = importJournal.confirmed /\ j.outcome = importJournal.outcome
        /\ j.restarted = importJournal.restarted /\ j.command = importJournal.command /\ j.unsent = importJournal.unsent
        /\ j.rollback = importJournal.rollback /\ j.clean = importJournal.clean
    <3>1. importJournal \in Journals  BY <1>0
    <3> QED BY <3>1 DEF Journals
  <2> HIDE DEF j
  <2>2. /\ pc = "upreturned" /\ AnyStep
        /\ \/ pc' = "ready" /\ importJournal' = j
           \/ pc' = "mstop" /\ importJournal' \in {importJournal, j}
        /\ UNCHANGED <<token, payload, kept, inst, target, pointer, intent, boot, game, cmd, save,
                       submits, saves, swap, first, panel, crashes>>
    BY <1>0, <1>2, JournalEffect DEF UpReturned, Lands, j
  <2>3. ImportTypeOK'  BY <1>0, <2>1, <2>2 DEF ImportTypeOK, PCs
  <2>4. Journaled'  BY <1>0, <2>1, <2>2
  <2>5. Commanded'  BY <1>0, <2>1, <2>2
  <2>6. WorldSound'  BY <1>0, <2>1, <2>2 DEF RolledBackRestored
  <2>7. Cleaned'  BY <1>0, <2>1, <2>2
  <2>8. Placed'  BY <1>0, <2>1, <2>2
  <2> QED BY <2>3, <2>4, <2>5, <2>6, <2>7, <2>8 DEF ImportInv
<1>3. ASSUME RecordSubmitted PROVE ImportInv'
  <2> DEFINE j == [importJournal EXCEPT !.submitted = TRUE, !.stage = "submitted"]
  <2>1. /\ j \in Journals
        /\ j.stage = "submitted" /\ j.original = importJournal.original /\ j.owned = importJournal.owned
        /\ j.bind = importJournal.bind /\ j.boot = importJournal.boot /\ j.maint = importJournal.maint
        /\ j.mrec = importJournal.mrec /\ j.manual = importJournal.manual /\ j.fifo = importJournal.fifo
        /\ j.submitted = TRUE /\ j.confirmed = importJournal.confirmed /\ j.outcome = importJournal.outcome
        /\ j.restarted = importJournal.restarted /\ j.command = importJournal.command /\ j.unsent = importJournal.unsent
        /\ j.rollback = importJournal.rollback /\ j.clean = importJournal.clean
    <3>1. importJournal \in Journals  BY <1>0
    <3>2. "submitted" \in {"absent", "canceled", "rolled_back"} \cup {ImportStages[i] : i \in 1..11}
      BY <3>1, StageNames DEF Journals
    <3> QED BY <3>1, <3>2 DEF Journals
  <2> HIDE DEF j
  <2>2. /\ pc = "submitted" /\ AnyStep
        /\ \/ pc' = "observe" /\ importJournal' = j
           \/ pc' = "phasestop" /\ importJournal' \in {importJournal, j}
        /\ UNCHANGED <<token, payload, kept, inst, target, pointer, intent, boot, game, cmd, save,
                       submits, saves, swap, first, panel, crashes>>
    BY <1>0, <1>3, JournalEffect DEF RecordSubmitted, Lands, j
  <2>3. ImportTypeOK'  BY <1>0, <2>1, <2>2 DEF ImportTypeOK, PCs
  <2>4. Journaled'  BY <1>0, <2>1, <2>2
  <2>5. Commanded'  BY <1>0, <2>1, <2>2
  <2>6. WorldSound'  BY <1>0, <2>1, <2>2 DEF RolledBackRestored
  <2>7. Cleaned'  BY <1>0, <2>1, <2>2
  <2>8. Placed'  BY <1>0, <2>1, <2>2
  <2> QED BY <2>3, <2>4, <2>5, <2>6, <2>7, <2>8 DEF ImportInv
<1>4. ASSUME HalfRestored PROVE ImportInv'
  <2> DEFINE j == [importJournal EXCEPT !.outcome = "half"]
  <2>1. /\ j \in Journals
        /\ j.stage = importJournal.stage /\ j.original = importJournal.original /\ j.owned = importJournal.owned
        /\ j.bind = importJournal.bind /\ j.boot = importJournal.boot /\ j.maint = importJournal.maint
        /\ j.mrec = importJournal.mrec /\ j.manual = importJournal.manual /\ j.fifo = importJournal.fifo
        /\ j.submitted = importJournal.submitted /\ j.confirmed = importJournal.confirmed /\ j.outcome = "half"
        /\ j.restarted = importJournal.restarted /\ j.command = importJournal.command /\ j.unsent = importJournal.unsent
        /\ j.rollback = importJournal.rollback /\ j.clean = importJournal.clean
    <3>1. importJournal \in Journals  BY <1>0
    <3> QED BY <3>1 DEF Journals
  <2> HIDE DEF j
  <2>2. /\ pc = "half" /\ AnyStep
        /\ \/ pc' = "idle" /\ importJournal' = j
           \/ pc' = "idle" /\ importJournal' \in {importJournal, j}
        /\ UNCHANGED <<token, payload, kept, inst, target, pointer, intent, boot, game, cmd, save,
                       submits, saves, swap, first, panel, crashes>>
    BY <1>0, <1>4, JournalEffect DEF HalfRestored, Lands, j
  <2>3. ImportTypeOK'  BY <1>0, <2>1, <2>2 DEF ImportTypeOK, PCs
  <2>4. Journaled'  BY <1>0, <2>1, <2>2
  <2>5. Commanded'  BY <1>0, <2>1, <2>2
  <2>6. WorldSound'  BY <1>0, <2>1, <2>2 DEF RolledBackRestored
  <2>7. Cleaned'  BY <1>0, <2>1, <2>2
  <2>8. Placed'  BY <1>0, <2>1, <2>2
  <2> QED BY <2>3, <2>4, <2>5, <2>6, <2>7, <2>8 DEF ImportInv
<1>5. ASSUME PhaseFailed PROVE ImportInv'
  <2> DEFINE j == [importJournal EXCEPT !.outcome = "recovery"]
  <2>1. /\ j \in Journals
        /\ j.stage = importJournal.stage /\ j.original = importJournal.original /\ j.owned = importJournal.owned
        /\ j.bind = importJournal.bind /\ j.boot = importJournal.boot /\ j.maint = importJournal.maint
        /\ j.mrec = importJournal.mrec /\ j.manual = importJournal.manual /\ j.fifo = importJournal.fifo
        /\ j.submitted = importJournal.submitted /\ j.confirmed = importJournal.confirmed /\ j.outcome = "recovery"
        /\ j.restarted = importJournal.restarted /\ j.command = importJournal.command /\ j.unsent = importJournal.unsent
        /\ j.rollback = importJournal.rollback /\ j.clean = importJournal.clean
    <3>1. importJournal \in Journals  BY <1>0
    <3> QED BY <3>1 DEF Journals
  <2> HIDE DEF j
  <2>2. /\ pc = "phasefailed" /\ AnyStep
        /\ \/ pc' = "idle" /\ importJournal' = j
           \/ pc' = "idle" /\ importJournal' \in {importJournal, j}
        /\ UNCHANGED <<token, payload, kept, inst, target, pointer, intent, boot, game, cmd, save,
                       submits, saves, swap, first, panel, crashes>>
    BY <1>0, <1>5, JournalEffect DEF PhaseFailed, Lands, j
  <2>3. ImportTypeOK'  BY <1>0, <2>1, <2>2 DEF ImportTypeOK, PCs
  <2>4. Journaled'  BY <1>0, <2>1, <2>2
  <2>5. Commanded'  BY <1>0, <2>1, <2>2
  <2>6. WorldSound'  BY <1>0, <2>1, <2>2 DEF RolledBackRestored
  <2>7. Cleaned'  BY <1>0, <2>1, <2>2
  <2>8. Placed'  BY <1>0, <2>1, <2>2
  <2> QED BY <2>3, <2>4, <2>5, <2>6, <2>7, <2>8 DEF ImportInv
<1>6. ASSUME Ambiguous PROVE ImportInv'
  <2> DEFINE j == [importJournal EXCEPT !.mrec = "manual", !.manual = TRUE, !.outcome = "recovery"]
  <2>1. /\ j \in Journals
        /\ j.stage = importJournal.stage /\ j.original = importJournal.original /\ j.owned = importJournal.owned
        /\ j.bind = importJournal.bind /\ j.boot = importJournal.boot /\ j.maint = importJournal.maint
        /\ j.mrec = "manual" /\ j.manual = TRUE /\ j.fifo = importJournal.fifo
        /\ j.submitted = importJournal.submitted /\ j.confirmed = importJournal.confirmed /\ j.outcome = "recovery"
        /\ j.restarted = importJournal.restarted /\ j.command = importJournal.command /\ j.unsent = importJournal.unsent
        /\ j.rollback = importJournal.rollback /\ j.clean = importJournal.clean
    <3>1. importJournal \in Journals  BY <1>0
    <3> QED BY ZenonT(60), <3>1 DEF Journals
  <2> HIDE DEF j
  <2>2. /\ pc = "ambiguous" /\ AnyStep
        /\ \/ pc' = "ambstop" /\ importJournal' = j
           \/ pc' = "ambstop" /\ importJournal' \in {importJournal, j}
        /\ UNCHANGED <<token, payload, kept, inst, target, pointer, intent, boot, game, cmd, save,
                       submits, saves, swap, first, panel, crashes>>
    BY <1>0, <1>6, JournalEffect DEF Ambiguous, Lands, j
  <2>3. ImportTypeOK'  BY <1>0, <2>1, <2>2 DEF ImportTypeOK, PCs
  <2>4. Journaled'  BY <1>0, <2>1, <2>2
  <2>5. Commanded'  BY <1>0, <2>1, <2>2
  <2>6. WorldSound'  BY <1>0, <2>1, <2>2 DEF RolledBackRestored
  <2>7. Cleaned'  BY <1>0, <2>1, <2>2
  <2>8. Placed'  BY <1>0, <2>1, <2>2
  <2> QED BY <2>3, <2>4, <2>5, <2>6, <2>7, <2>8 DEF ImportInv
<1>7. ASSUME PersistManual PROVE ImportInv'
  <2> DEFINE j == [importJournal EXCEPT !.mrec = "manual", !.manual = TRUE]
  <2>1. /\ j \in Journals
        /\ j.stage = importJournal.stage /\ j.original = importJournal.original /\ j.owned = importJournal.owned
        /\ j.bind = importJournal.bind /\ j.boot = importJournal.boot /\ j.maint = importJournal.maint
        /\ j.mrec = "manual" /\ j.manual = TRUE /\ j.fifo = importJournal.fifo
        /\ j.submitted = importJournal.submitted /\ j.confirmed = importJournal.confirmed /\ j.outcome = importJournal.outcome
        /\ j.restarted = importJournal.restarted /\ j.command = importJournal.command /\ j.unsent = importJournal.unsent
        /\ j.rollback = importJournal.rollback /\ j.clean = importJournal.clean
    <3>1. importJournal \in Journals  BY <1>0
    <3> QED BY <3>1 DEF Journals
  <2> HIDE DEF j
  <2>2. /\ pc = "bootpersist" /\ AnyStep
        /\ \/ pc' = "idle" /\ importJournal' = j
           \/ pc' = "idle" /\ importJournal' \in {importJournal, j}
        /\ UNCHANGED <<token, payload, kept, inst, target, pointer, intent, boot, game, cmd, save,
                       submits, saves, swap, first, panel, crashes>>
    BY <1>0, <1>7, JournalEffect DEF PersistManual, Lands, j
  <2>3. ImportTypeOK'  BY <1>0, <2>1, <2>2 DEF ImportTypeOK, PCs
  <2>4. Journaled'  BY <1>0, <2>1, <2>2
  <2>5. Commanded'  BY <1>0, <2>1, <2>2
  <2>6. WorldSound'  BY <1>0, <2>1, <2>2 DEF RolledBackRestored
  <2>7. Cleaned'  BY <1>0, <2>1, <2>2
  <2>8. Placed'  BY <1>0, <2>1, <2>2
  <2> QED BY <2>3, <2>4, <2>5, <2>6, <2>7, <2>8 DEF ImportInv
<1> QED BY <1>1, <1>2, <1>3, <1>4, <1>5, <1>6, <1>7

\* The journal of a confirmed import.
LEMMA Lasts ==
    ASSUME ImportInv, RestartIntent \/ RecordRestart \/ Unsent \/ Complete
    PROVE  ImportInv'
<1> USE DEF AnyStep, WorldSound, Placed, Exists, Ended, Journaled, Cleaned, Commanded, NothingDone, Proven
<1>0. /\ ImportTypeOK /\ Journaled /\ Commanded /\ WorldSound /\ Cleaned /\ Placed
      /\ importJournal \in Journals /\ token \in Tokens
  BY DEF ImportInv, ImportTypeOK, Tokens
<1> USE DEF Early, Confirms, Durables, Unended, Joining, BootPlaces, Raising, Phasing, Activating, Lasting, UndoSteps, Cleaning, Working
<1>1. ASSUME RestartIntent PROVE ImportInv'
  <2> DEFINE j == [importJournal EXCEPT !.stage = "activating", !.restarted = TRUE]
  <2>1. /\ j \in Journals
        /\ j.stage = "activating" /\ j.original = importJournal.original /\ j.owned = importJournal.owned
        /\ j.bind = importJournal.bind /\ j.boot = importJournal.boot /\ j.maint = importJournal.maint
        /\ j.mrec = importJournal.mrec /\ j.manual = importJournal.manual /\ j.fifo = importJournal.fifo
        /\ j.submitted = importJournal.submitted /\ j.confirmed = importJournal.confirmed /\ j.outcome = importJournal.outcome
        /\ j.restarted = TRUE /\ j.command = importJournal.command /\ j.unsent = importJournal.unsent
        /\ j.rollback = importJournal.rollback /\ j.clean = importJournal.clean
    <3>1. importJournal \in Journals  BY <1>0
    <3>2. "activating" \in {"absent", "canceled", "rolled_back"} \cup {ImportStages[i] : i \in 1..11}
      BY <3>1, StageNames DEF Journals
    <3> QED BY <3>1, <3>2 DEF Journals
  <2> HIDE DEF j
  <2>2. /\ pc = "restartintent" /\ AnyStep
        /\ \/ pc' = "restart" /\ importJournal' = j
           \/ pc' = (IF swap THEN "rollback" ELSE "idle") /\ importJournal' \in {importJournal, j}
        /\ UNCHANGED <<token, payload, kept, inst, target, pointer, intent, boot, game, cmd, save,
                       submits, saves, swap, first, panel, crashes>>
    BY <1>0, <1>1, JournalEffect DEF RestartIntent, Lost, Lands, j
  <2>3. ImportTypeOK'  BY <1>0, <2>1, <2>2 DEF ImportTypeOK, PCs
  <2>4. Journaled'  BY <1>0, <2>1, <2>2
  <2>5. Commanded'  BY <1>0, <2>1, <2>2
  <2>6. WorldSound'  BY <1>0, <2>1, <2>2 DEF RolledBackRestored
  <2>7. Cleaned'  BY <1>0, <2>1, <2>2
  <2>8. Placed'  BY <1>0, <2>1, <2>2
  <2> QED BY <2>3, <2>4, <2>5, <2>6, <2>7, <2>8 DEF ImportInv
<1>2. ASSUME RecordRestart PROVE ImportInv'
  <2> DEFINE j == [importJournal EXCEPT !.maint = TRUE]
  <2>1. /\ j \in Journals
        /\ j.stage = importJournal.stage /\ j.original = importJournal.original /\ j.owned = importJournal.owned
        /\ j.bind = importJournal.bind /\ j.boot = importJournal.boot /\ j.maint = TRUE
        /\ j.mrec = importJournal.mrec /\ j.manual = importJournal.manual /\ j.fifo = importJournal.fifo
        /\ j.submitted = importJournal.submitted /\ j.confirmed = importJournal.confirmed /\ j.outcome = importJournal.outcome
        /\ j.restarted = importJournal.restarted /\ j.command = importJournal.command /\ j.unsent = importJournal.unsent
        /\ j.rollback = importJournal.rollback /\ j.clean = importJournal.clean
    <3>1. importJournal \in Journals  BY <1>0
    <3> QED BY <3>1 DEF Journals
  <2> HIDE DEF j
  <2>2. /\ pc = "restarted" /\ AnyStep
        /\ \/ pc' = "await" /\ importJournal' = j
           \/ pc' = (IF swap THEN "rollback" ELSE "idle") /\ importJournal' \in {importJournal, j}
        /\ UNCHANGED <<token, payload, kept, inst, target, pointer, intent, boot, game, cmd, save,
                       submits, saves, swap, first, panel, crashes>>
    BY <1>0, <1>2, JournalEffect DEF RecordRestart, Lost, Lands, j
  <2>3. ImportTypeOK'  BY <1>0, <2>1, <2>2 DEF ImportTypeOK, PCs
  <2>4. Journaled'  BY <1>0, <2>1, <2>2
  <2>5. Commanded'  BY <1>0, <2>1, <2>2
  <2>6. WorldSound'  BY <1>0, <2>1, <2>2 DEF RolledBackRestored
  <2>7. Cleaned'  BY <1>0, <2>1, <2>2
  <2>8. Placed'  BY <1>0, <2>1, <2>2
  <2> QED BY <2>3, <2>4, <2>5, <2>6, <2>7, <2>8 DEF ImportInv
<1>3. ASSUME Unsent PROVE ImportInv'
  <2> DEFINE j == [importJournal EXCEPT !.unsent = TRUE]
  <2>1. /\ j \in Journals
        /\ j.stage = importJournal.stage /\ j.original = importJournal.original /\ j.owned = importJournal.owned
        /\ j.bind = importJournal.bind /\ j.boot = importJournal.boot /\ j.maint = importJournal.maint
        /\ j.mrec = importJournal.mrec /\ j.manual = importJournal.manual /\ j.fifo = importJournal.fifo
        /\ j.submitted = importJournal.submitted /\ j.confirmed = importJournal.confirmed /\ j.outcome = importJournal.outcome
        /\ j.restarted = importJournal.restarted /\ j.command = importJournal.command /\ j.unsent = TRUE
        /\ j.rollback = importJournal.rollback /\ j.clean = importJournal.clean
    <3>1. importJournal \in Journals  BY <1>0
    <3> QED BY <3>1 DEF Journals
  <2> HIDE DEF j
  <2>2. /\ pc = "unsent" /\ AnyStep
        /\ \/ pc' = (IF swap THEN "rollback" ELSE "idle") /\ importJournal' = j
           \/ pc' = (IF swap THEN "rollback" ELSE "idle") /\ importJournal' \in {importJournal, j}
        /\ UNCHANGED <<token, payload, kept, inst, target, pointer, intent, boot, game, cmd, save,
                       submits, saves, swap, first, panel, crashes>>
    BY <1>0, <1>3, JournalEffect DEF Unsent, Lost, Lands, j
  <2>3. ImportTypeOK'  BY <1>0, <2>1, <2>2 DEF ImportTypeOK, PCs
  <2>4. Journaled'  BY <1>0, <2>1, <2>2
  <2>5. Commanded'  BY <1>0, <2>1, <2>2
  <2>6. WorldSound'  BY <1>0, <2>1, <2>2 DEF RolledBackRestored
  <2>7. Cleaned'  BY <1>0, <2>1, <2>2
  <2>8. Placed'  BY <1>0, <2>1, <2>2
  <2> QED BY <2>3, <2>4, <2>5, <2>6, <2>7, <2>8 DEF ImportInv
<1>4. ASSUME Complete PROVE ImportInv'
  <2> DEFINE j == [importJournal EXCEPT !.stage = "completed"]
  <2>1. /\ j \in Journals
        /\ j.stage = "completed" /\ j.original = importJournal.original /\ j.owned = importJournal.owned
        /\ j.bind = importJournal.bind /\ j.boot = importJournal.boot /\ j.maint = importJournal.maint
        /\ j.mrec = importJournal.mrec /\ j.manual = importJournal.manual /\ j.fifo = importJournal.fifo
        /\ j.submitted = importJournal.submitted /\ j.confirmed = importJournal.confirmed /\ j.outcome = importJournal.outcome
        /\ j.restarted = importJournal.restarted /\ j.command = importJournal.command /\ j.unsent = importJournal.unsent
        /\ j.rollback = importJournal.rollback /\ j.clean = importJournal.clean
    <3>1. importJournal \in Journals  BY <1>0
    <3>2. "completed" \in {"absent", "canceled", "rolled_back"} \cup {ImportStages[i] : i \in 1..11}
      BY <3>1, StageNames DEF Journals
    <3> QED BY <3>1, <3>2 DEF Journals
  <2> HIDE DEF j
  <2>2. /\ pc = "complete" /\ AnyStep
        /\ \/ pc' = "running" /\ importJournal' = j
           \/ pc' = (IF swap THEN "rollback" ELSE "idle") /\ importJournal' \in {importJournal, j}
        /\ UNCHANGED <<token, payload, kept, inst, target, pointer, intent, boot, game, cmd, save,
                       submits, saves, swap, first, panel, crashes>>
    BY <1>0, <1>4, JournalEffect DEF Complete, Lost, Lands, j
  <2>3. ImportTypeOK'  BY <1>0, <2>1, <2>2 DEF ImportTypeOK, PCs
  <2>4. Journaled'  BY <1>0, <2>1, <2>2
  <2>5. Commanded'  BY <1>0, <2>1, <2>2
  <2>6. WorldSound'  BY <1>0, <2>1, <2>2 DEF RolledBackRestored
  <2>7. Cleaned'  BY <1>0, <2>1, <2>2
  <2>8. Placed'  BY <1>0, <2>1, <2>2
  <2> QED BY <2>3, <2>4, <2>5, <2>6, <2>7, <2>8 DEF ImportInv
<1> QED BY <1>1, <1>2, <1>3, <1>4

\* The journal of a rollback.
LEMMA RollsBack ==
    ASSUME ImportInv, RecordStopped \/ RecordSave \/ RecordPointer \/ RecordInstance \/ RolledBack \/ RollbackManual
    PROVE  ImportInv'
<1> USE DEF AnyStep, WorldSound, Placed, Exists, Ended, Journaled, Cleaned, Commanded, NothingDone, Proven
<1>0. /\ ImportTypeOK /\ Journaled /\ Commanded /\ WorldSound /\ Cleaned /\ Placed
      /\ importJournal \in Journals /\ token \in Tokens
  BY DEF ImportInv, ImportTypeOK, Tokens
<1> USE DEF Early, Confirms, Durables, Unended, Joining, BootPlaces, Raising, Phasing, Activating, Lasting, UndoSteps, Cleaning, Working
<1>1. ASSUME RecordStopped PROVE ImportInv'
  <2> DEFINE j == [importJournal EXCEPT !.rollback = "server_stopped"]
  <2>1. /\ j \in Journals
        /\ j.stage = importJournal.stage /\ j.original = importJournal.original /\ j.owned = importJournal.owned
        /\ j.bind = importJournal.bind /\ j.boot = importJournal.boot /\ j.maint = importJournal.maint
        /\ j.mrec = importJournal.mrec /\ j.manual = importJournal.manual /\ j.fifo = importJournal.fifo
        /\ j.submitted = importJournal.submitted /\ j.confirmed = importJournal.confirmed /\ j.outcome = importJournal.outcome
        /\ j.restarted = importJournal.restarted /\ j.command = importJournal.command /\ j.unsent = importJournal.unsent
        /\ j.rollback = "server_stopped" /\ j.clean = importJournal.clean
    <3>1. importJournal \in Journals  BY <1>0
    <3> QED BY <3>1 DEF Journals
  <2> HIDE DEF j
  <2>2. /\ pc = "rstopped" /\ AnyStep
        /\ \/ pc' = "rsave" /\ importJournal' = j
           \/ pc' = "idle" /\ importJournal' \in {importJournal, j}
        /\ UNCHANGED <<token, payload, kept, inst, target, pointer, intent, boot, game, cmd, save,
                       submits, saves, swap, first, panel, crashes>>
    BY <1>0, <1>1, JournalEffect DEF RecordStopped, Lands, j
  <2>3. ImportTypeOK'  BY <1>0, <2>1, <2>2 DEF ImportTypeOK, PCs
  <2>4. Journaled'  BY <1>0, <2>1, <2>2
  <2>5. Commanded'  BY <1>0, <2>1, <2>2
  <2>6. WorldSound'  BY <1>0, <2>1, <2>2 DEF RolledBackRestored
  <2>7. Cleaned'  BY <1>0, <2>1, <2>2
  <2>8. Placed'  BY <1>0, <2>1, <2>2
  <2> QED BY <2>3, <2>4, <2>5, <2>6, <2>7, <2>8 DEF ImportInv
<1>2. ASSUME RecordSave PROVE ImportInv'
  <2> DEFINE j == [importJournal EXCEPT !.rollback = "save_restored"]
  <2>1. /\ j \in Journals
        /\ j.stage = importJournal.stage /\ j.original = importJournal.original /\ j.owned = importJournal.owned
        /\ j.bind = importJournal.bind /\ j.boot = importJournal.boot /\ j.maint = importJournal.maint
        /\ j.mrec = importJournal.mrec /\ j.manual = importJournal.manual /\ j.fifo = importJournal.fifo
        /\ j.submitted = importJournal.submitted /\ j.confirmed = importJournal.confirmed /\ j.outcome = importJournal.outcome
        /\ j.restarted = importJournal.restarted /\ j.command = importJournal.command /\ j.unsent = importJournal.unsent
        /\ j.rollback = "save_restored" /\ j.clean = importJournal.clean
    <3>1. importJournal \in Journals  BY <1>0
    <3> QED BY <3>1 DEF Journals
  <2> HIDE DEF j
  <2>2. /\ pc = "rsaved" /\ AnyStep
        /\ \/ pc' = "rpointer" /\ importJournal' = j
           \/ pc' = "idle" /\ importJournal' \in {importJournal, j}
        /\ UNCHANGED <<token, payload, kept, inst, target, pointer, intent, boot, game, cmd, save,
                       submits, saves, swap, first, panel, crashes>>
    BY <1>0, <1>2, JournalEffect DEF RecordSave, Lands, j
  <2>3. ImportTypeOK'  BY <1>0, <2>1, <2>2 DEF ImportTypeOK, PCs
  <2>4. Journaled'  BY <1>0, <2>1, <2>2
  <2>5. Commanded'  BY <1>0, <2>1, <2>2
  <2>6. WorldSound'  BY <1>0, <2>1, <2>2 DEF RolledBackRestored
  <2>7. Cleaned'  BY <1>0, <2>1, <2>2
  <2>8. Placed'  BY <1>0, <2>1, <2>2
  <2> QED BY <2>3, <2>4, <2>5, <2>6, <2>7, <2>8 DEF ImportInv
<1>3. ASSUME RecordPointer PROVE ImportInv'
  <2> DEFINE j == [importJournal EXCEPT !.rollback = "pointer_restored"]
  <2>1. /\ j \in Journals
        /\ j.stage = importJournal.stage /\ j.original = importJournal.original /\ j.owned = importJournal.owned
        /\ j.bind = importJournal.bind /\ j.boot = importJournal.boot /\ j.maint = importJournal.maint
        /\ j.mrec = importJournal.mrec /\ j.manual = importJournal.manual /\ j.fifo = importJournal.fifo
        /\ j.submitted = importJournal.submitted /\ j.confirmed = importJournal.confirmed /\ j.outcome = importJournal.outcome
        /\ j.restarted = importJournal.restarted /\ j.command = importJournal.command /\ j.unsent = importJournal.unsent
        /\ j.rollback = "pointer_restored" /\ j.clean = importJournal.clean
    <3>1. importJournal \in Journals  BY <1>0
    <3> QED BY <3>1 DEF Journals
  <2> HIDE DEF j
  <2>2. /\ pc = "rpointed" /\ AnyStep
        /\ \/ pc' = "rrow" /\ importJournal' = j
           \/ pc' = "idle" /\ importJournal' \in {importJournal, j}
        /\ UNCHANGED <<token, payload, kept, inst, target, pointer, intent, boot, game, cmd, save,
                       submits, saves, swap, first, panel, crashes>>
    BY <1>0, <1>3, JournalEffect DEF RecordPointer, Lands, j
  <2>3. ImportTypeOK'  BY <1>0, <2>1, <2>2 DEF ImportTypeOK, PCs
  <2>4. Journaled'  BY <1>0, <2>1, <2>2
  <2>5. Commanded'  BY <1>0, <2>1, <2>2
  <2>6. WorldSound'  BY <1>0, <2>1, <2>2 DEF RolledBackRestored
  <2>7. Cleaned'  BY <1>0, <2>1, <2>2
  <2>8. Placed'  BY <1>0, <2>1, <2>2
  <2> QED BY <2>3, <2>4, <2>5, <2>6, <2>7, <2>8 DEF ImportInv
<1>4. ASSUME RecordInstance PROVE ImportInv'
  <2> DEFINE j == [importJournal EXCEPT !.rollback = "instance_restored"]
  <2>1. /\ j \in Journals
        /\ j.stage = importJournal.stage /\ j.original = importJournal.original /\ j.owned = importJournal.owned
        /\ j.bind = importJournal.bind /\ j.boot = importJournal.boot /\ j.maint = importJournal.maint
        /\ j.mrec = importJournal.mrec /\ j.manual = importJournal.manual /\ j.fifo = importJournal.fifo
        /\ j.submitted = importJournal.submitted /\ j.confirmed = importJournal.confirmed /\ j.outcome = importJournal.outcome
        /\ j.restarted = importJournal.restarted /\ j.command = importJournal.command /\ j.unsent = importJournal.unsent
        /\ j.rollback = "instance_restored" /\ j.clean = importJournal.clean
    <3>1. importJournal \in Journals  BY <1>0
    <3> QED BY <3>1 DEF Journals
  <2> HIDE DEF j
  <2>2. /\ pc = "rrowed" /\ AnyStep
        /\ \/ pc' = "rend" /\ importJournal' = j
           \/ pc' = "idle" /\ importJournal' \in {importJournal, j}
        /\ UNCHANGED <<token, payload, kept, inst, target, pointer, intent, boot, game, cmd, save,
                       submits, saves, swap, first, panel, crashes>>
    BY <1>0, <1>4, JournalEffect DEF RecordInstance, Lands, j
  <2>3. ImportTypeOK'  BY <1>0, <2>1, <2>2 DEF ImportTypeOK, PCs
  <2>4. Journaled'  BY <1>0, <2>1, <2>2
  <2>5. Commanded'  BY <1>0, <2>1, <2>2
  <2>6. WorldSound'  BY <1>0, <2>1, <2>2 DEF RolledBackRestored
  <2>7. Cleaned'  BY <1>0, <2>1, <2>2
  <2>8. Placed'  BY <1>0, <2>1, <2>2
  <2> QED BY <2>3, <2>4, <2>5, <2>6, <2>7, <2>8 DEF ImportInv
<1>5. ASSUME RolledBack PROVE ImportInv'
  <2> DEFINE j == [importJournal EXCEPT !.stage = "rolled_back", !.maint = FALSE, !.rollback = "completed"]
  <2>1. /\ j \in Journals
        /\ j.stage = "rolled_back" /\ j.original = importJournal.original /\ j.owned = importJournal.owned
        /\ j.bind = importJournal.bind /\ j.boot = importJournal.boot /\ j.maint = FALSE
        /\ j.mrec = importJournal.mrec /\ j.manual = importJournal.manual /\ j.fifo = importJournal.fifo
        /\ j.submitted = importJournal.submitted /\ j.confirmed = importJournal.confirmed /\ j.outcome = importJournal.outcome
        /\ j.restarted = importJournal.restarted /\ j.command = importJournal.command /\ j.unsent = importJournal.unsent
        /\ j.rollback = "completed" /\ j.clean = importJournal.clean
    <3>1. importJournal \in Journals  BY <1>0
    <3>2. "rolled_back" \in {"absent", "canceled", "rolled_back"} \cup {ImportStages[i] : i \in 1..11}
      BY <3>1, StageNames DEF Journals
    <3> QED BY <3>1, <3>2 DEF Journals
  <2> HIDE DEF j
  <2>2. /\ pc = "rend" /\ AnyStep
        /\ \/ pc' = "idle" /\ importJournal' = j
           \/ pc' = "idle" /\ importJournal' \in {importJournal, j}
        /\ UNCHANGED <<token, payload, kept, inst, target, pointer, intent, boot, game, cmd, save,
                       submits, saves, swap, first, panel, crashes>>
    BY <1>0, <1>5, JournalEffect DEF RolledBack, Lands, j
  <2>3. ImportTypeOK'  BY <1>0, <2>1, <2>2 DEF ImportTypeOK, PCs
  <2>4. Journaled'  BY <1>0, <2>1, <2>2
  <2>5. Commanded'  BY <1>0, <2>1, <2>2
  <2>6. WorldSound'  BY <1>0, <2>1, <2>2 DEF RolledBackRestored
  <2>7. Cleaned'  BY <1>0, <2>1, <2>2
  <2>8. Placed'  BY <1>0, <2>1, <2>2
  <2> QED BY <2>3, <2>4, <2>5, <2>6, <2>7, <2>8 DEF ImportInv
<1>6. ASSUME RollbackManual PROVE ImportInv'
  <2> DEFINE j == [importJournal EXCEPT !.rollback = "manual", !.manual = TRUE]
  <2>1. /\ j \in Journals
        /\ j.stage = importJournal.stage /\ j.original = importJournal.original /\ j.owned = importJournal.owned
        /\ j.bind = importJournal.bind /\ j.boot = importJournal.boot /\ j.maint = importJournal.maint
        /\ j.mrec = importJournal.mrec /\ j.manual = TRUE /\ j.fifo = importJournal.fifo
        /\ j.submitted = importJournal.submitted /\ j.confirmed = importJournal.confirmed /\ j.outcome = importJournal.outcome
        /\ j.restarted = importJournal.restarted /\ j.command = importJournal.command /\ j.unsent = importJournal.unsent
        /\ j.rollback = "manual" /\ j.clean = importJournal.clean
    <3>1. importJournal \in Journals  BY <1>0
    <3> QED BY <3>1 DEF Journals
  <2> HIDE DEF j
  <2>2. /\ pc = "rmanual" /\ AnyStep
        /\ \/ pc' = "idle" /\ importJournal' = j
           \/ pc' = "idle" /\ importJournal' \in {importJournal, j}
        /\ UNCHANGED <<token, payload, kept, inst, target, pointer, intent, boot, game, cmd, save,
                       submits, saves, swap, first, panel, crashes>>
    BY <1>0, <1>6, JournalEffect DEF RollbackManual, Lands, j
  <2>3. ImportTypeOK'  BY <1>0, <2>1, <2>2 DEF ImportTypeOK, PCs
  <2>4. Journaled'  BY <1>0, <2>1, <2>2
  <2>5. Commanded'  BY <1>0, <2>1, <2>2
  <2>6. WorldSound'  BY <1>0, <2>1, <2>2 DEF RolledBackRestored
  <2>7. Cleaned'  BY <1>0, <2>1, <2>2
  <2>8. Placed'  BY <1>0, <2>1, <2>2
  <2> QED BY <2>3, <2>4, <2>5, <2>6, <2>7, <2>8 DEF ImportInv
<1> QED BY <1>1, <1>2, <1>3, <1>4, <1>5, <1>6

\* The game is stopped.
LEMMA Stops ==
    ASSUME ImportInv, StopMaintenance \/ StopPhaseA \/ StopAmbiguous \/ StopRollback \/ StopAtBoot \/ StopManual
    PROVE  ImportInv'
<1> USE DEF AnyStep, WorldSound, Placed, Exists, Ended, Journaled, Cleaned, Commanded, NothingDone, Proven
<1>0. /\ ImportTypeOK /\ Journaled /\ Commanded /\ WorldSound /\ Cleaned /\ Placed
      /\ importJournal \in Journals /\ token \in Tokens
  BY DEF ImportInv, ImportTypeOK, Tokens
<1> USE DEF Early, Confirms, Durables, Unended, Joining, BootPlaces, Raising, Phasing, Activating, Lasting, UndoSteps, Cleaning, Working
<1>1. ASSUME StopMaintenance PROVE ImportInv'
  <2>1. /\ pc = "mstop" /\ AnyStep
        /\ \/ pc' = "restore" /\ game' = "down" /\ cmd' = "none"
           \/ pc' = "idle" /\ game' \in {"down", game} /\ cmd' = (IF game' = "down" THEN "none" ELSE cmd)
        /\ UNCHANGED <<token, payload, importJournal, kept, inst, target, pointer, intent, boot, save,
                       submits, saves, swap, first, panel, crashes>>
    BY <1>0, <1>1, StopEffect DEF StopMaintenance, Lands, upload, files, runtime, count, fixed, control
  <2>2. ImportTypeOK'  BY <1>0, <2>1 DEF ImportTypeOK, PCs
  <2>3. Journaled'  BY <1>0, <2>1
  <2>4. Commanded'  BY <1>0, <2>1
  <2>5. WorldSound'  BY <1>0, <2>1 DEF RolledBackRestored
  <2>6. Cleaned'  BY <1>0, <2>1
  <2>7. Placed'  BY <1>0, <2>1
  <2> QED BY <2>2, <2>3, <2>4, <2>5, <2>6, <2>7 DEF ImportInv
<1>2. ASSUME StopPhaseA PROVE ImportInv'
  <2>1. /\ pc = "phasestop" /\ AnyStep
        /\ \/ pc' = "judge" /\ game' = "down" /\ cmd' = "none"
           \/ pc' = "phasefailed" /\ game' \in {"down", game} /\ cmd' = (IF game' = "down" THEN "none" ELSE cmd)
        /\ UNCHANGED <<token, payload, importJournal, kept, inst, target, pointer, intent, boot, save,
                       submits, saves, swap, first, panel, crashes>>
    BY <1>0, <1>2, StopEffect DEF StopPhaseA, Lands, upload, files, runtime, count, fixed, control
  <2>2. ImportTypeOK'  BY <1>0, <2>1 DEF ImportTypeOK, PCs
  <2>3. Journaled'  BY <1>0, <2>1
  <2>4. Commanded'  BY <1>0, <2>1
  <2>5. WorldSound'  BY <1>0, <2>1 DEF RolledBackRestored
  <2>6. Cleaned'  BY <1>0, <2>1
  <2>7. Placed'  BY <1>0, <2>1
  <2> QED BY <2>2, <2>3, <2>4, <2>5, <2>6, <2>7 DEF ImportInv
<1>3. ASSUME StopAmbiguous PROVE ImportInv'
  <2>1. /\ pc = "ambstop" /\ AnyStep
        /\ \/ pc' = "idle" /\ game' = "down" /\ cmd' = "none"
           \/ pc' = "idle" /\ game' \in {"down", game} /\ cmd' = (IF game' = "down" THEN "none" ELSE cmd)
        /\ UNCHANGED <<token, payload, importJournal, kept, inst, target, pointer, intent, boot, save,
                       submits, saves, swap, first, panel, crashes>>
    BY <1>0, <1>3, StopEffect DEF StopAmbiguous, Lands, upload, files, runtime, count, fixed, control
  <2>2. ImportTypeOK'  BY <1>0, <2>1 DEF ImportTypeOK, PCs
  <2>3. Journaled'  BY <1>0, <2>1
  <2>4. Commanded'  BY <1>0, <2>1
  <2>5. WorldSound'  BY <1>0, <2>1 DEF RolledBackRestored
  <2>6. Cleaned'  BY <1>0, <2>1
  <2>7. Placed'  BY <1>0, <2>1
  <2> QED BY <2>2, <2>3, <2>4, <2>5, <2>6, <2>7 DEF ImportInv
<1>4. ASSUME StopRollback PROVE ImportInv'
  <2>1. /\ pc = "rstop" /\ AnyStep
        /\ \/ pc' = "rstopped" /\ game' = "down" /\ cmd' = "none"
           \/ pc' = "rmanual" /\ game' \in {"down", game} /\ cmd' = (IF game' = "down" THEN "none" ELSE cmd)
        /\ UNCHANGED <<token, payload, importJournal, kept, inst, target, pointer, intent, boot, save,
                       submits, saves, swap, first, panel, crashes>>
    BY <1>0, <1>4, StopEffect DEF StopRollback, Lands, upload, files, runtime, count, fixed, control
  <2>2. ImportTypeOK'  BY <1>0, <2>1 DEF ImportTypeOK, PCs
  <2>3. Journaled'  BY <1>0, <2>1
  <2>4. Commanded'  BY <1>0, <2>1
  <2>5. WorldSound'  BY <1>0, <2>1 DEF RolledBackRestored
  <2>6. Cleaned'  BY <1>0, <2>1
  <2>7. Placed'  BY <1>0, <2>1
  <2> QED BY <2>2, <2>3, <2>4, <2>5, <2>6, <2>7 DEF ImportInv
<1>5. ASSUME StopAtBoot PROVE ImportInv'
  <2>1. /\ pc = "bootstop" /\ AnyStep
        /\ \/ pc' = "restore" /\ game' = "down" /\ cmd' = "none"
           \/ pc' = "giveup" /\ game' \in {"down", game} /\ cmd' = (IF game' = "down" THEN "none" ELSE cmd)
        /\ UNCHANGED <<token, payload, importJournal, kept, inst, target, pointer, intent, boot, save,
                       submits, saves, swap, first, panel, crashes>>
    BY <1>0, <1>5, StopEffect DEF StopAtBoot, Lands, upload, files, runtime, count, fixed, control
  <2>2. ImportTypeOK'  BY <1>0, <2>1 DEF ImportTypeOK, PCs
  <2>3. Journaled'  BY <1>0, <2>1
  <2>4. Commanded'  BY <1>0, <2>1
  <2>5. WorldSound'  BY <1>0, <2>1 DEF RolledBackRestored
  <2>6. Cleaned'  BY <1>0, <2>1
  <2>7. Placed'  BY <1>0, <2>1
  <2> QED BY <2>2, <2>3, <2>4, <2>5, <2>6, <2>7 DEF ImportInv
<1>6. ASSUME StopManual PROVE ImportInv'
  <2>1. /\ pc = "bootmanual" /\ AnyStep
        /\ \/ pc' = "bootpersist" /\ game' = "down" /\ cmd' = "none"
           \/ pc' = "bootpersist" /\ game' \in {"down", game} /\ cmd' = (IF game' = "down" THEN "none" ELSE cmd)
        /\ UNCHANGED <<token, payload, importJournal, kept, inst, target, pointer, intent, boot, save,
                       submits, saves, swap, first, panel, crashes>>
    BY <1>0, <1>6, StopEffect DEF StopManual, Lands, upload, files, runtime, count, fixed, control
  <2>2. ImportTypeOK'  BY <1>0, <2>1 DEF ImportTypeOK, PCs
  <2>3. Journaled'  BY <1>0, <2>1
  <2>4. Commanded'  BY <1>0, <2>1
  <2>5. WorldSound'  BY <1>0, <2>1 DEF RolledBackRestored
  <2>6. Cleaned'  BY <1>0, <2>1
  <2>7. Placed'  BY <1>0, <2>1
  <2> QED BY <2>2, <2>3, <2>4, <2>5, <2>6, <2>7 DEF ImportInv
<1> QED BY <1>1, <1>2, <1>3, <1>4, <1>5, <1>6

\* The game comes up, and the instance is shown as it is.
LEMMA Shows ==
    ASSUME ImportInv, ComposeUp \/ Restart \/ PublishMaintenance \/ Republish \/ RestoreRow \/ PublishRunning \/ RestoreInstance \/ BootRunning
    PROVE  ImportInv'
<1> USE DEF AnyStep, WorldSound, Placed, Exists, Ended, Journaled, Cleaned, Commanded, NothingDone, Proven
<1>0. /\ ImportTypeOK /\ Journaled /\ Commanded /\ WorldSound /\ Cleaned /\ Placed
      /\ importJournal \in Journals /\ token \in Tokens
  BY DEF ImportInv, ImportTypeOK, Tokens
<1> USE DEF Early, Confirms, Durables, Unended, Joining, BootPlaces, Raising, Phasing, Activating, Lasting, UndoSteps, Cleaning, Working
<1>1. ASSUME ComposeUp PROVE ImportInv'
  <2>1. /\ pc = "up" /\ AnyStep
        /\ \/ pc' = "upreturned" /\ game' = "loading" /\ cmd' = "none"
           \/ pc' = "mstop" /\ game' \in {"down", "loading", game} /\ cmd' = (IF game' = game THEN cmd ELSE "none")
        /\ UNCHANGED <<token, payload, importJournal, kept, inst, target, pointer, intent, boot, save,
                       submits, saves, swap, first, panel, crashes>>
    BY <1>0, <1>1, RecreateEffect DEF ComposeUp, Lands, upload, files, runtime, count, fixed, control
  <2>2. ImportTypeOK'  BY <1>0, <2>1 DEF ImportTypeOK, PCs
  <2>3. Journaled'  BY <1>0, <2>1
  <2>4. Commanded'  BY <1>0, <2>1
  <2>5. WorldSound'  BY <1>0, <2>1 DEF RolledBackRestored
  <2>6. Cleaned'  BY <1>0, <2>1
  <2>7. Placed'  BY <1>0, <2>1
  <2> QED BY <2>2, <2>3, <2>4, <2>5, <2>6, <2>7 DEF ImportInv
<1>2. ASSUME Restart PROVE ImportInv'
  <2>1. /\ pc = "restart" /\ AnyStep
        /\ \/ pc' = "restarted" /\ game' = "loading" /\ cmd' = "none"
           \/ pc' = (IF swap THEN "rollback" ELSE "idle") /\ game' \in {"down", "loading", game} /\ cmd' = (IF game' = game THEN cmd ELSE "none")
        /\ UNCHANGED <<token, payload, importJournal, kept, inst, target, pointer, intent, boot, save,
                       submits, saves, swap, first, panel, crashes>>
    BY <1>0, <1>2, RecreateEffect DEF Restart, Lost, Lands, upload, files, runtime, count, fixed, control
  <2>2. ImportTypeOK'  BY <1>0, <2>1 DEF ImportTypeOK, PCs
  <2>3. Journaled'  BY <1>0, <2>1
  <2>4. Commanded'  BY <1>0, <2>1
  <2>5. WorldSound'  BY <1>0, <2>1 DEF RolledBackRestored
  <2>6. Cleaned'  BY <1>0, <2>1
  <2>7. Placed'  BY <1>0, <2>1
  <2> QED BY <2>2, <2>3, <2>4, <2>5, <2>6, <2>7 DEF ImportInv
<1>3. ASSUME PublishMaintenance PROVE ImportInv'
  <2>1. /\ pc = "publish" /\ AnyStep
        /\ \/ pc' = "startintent" /\ inst' = "maint"
           \/ pc' = "mstop" /\ inst' = inst
        /\ UNCHANGED <<token, payload, importJournal, kept, target, pointer, intent, boot, game, cmd,
                       save, submits, saves, swap, first, panel, crashes>>
    BY <1>0, <1>3, Published DEF PublishMaintenance, Lands, upload, files, runtime, count, fixed, control
  <2>2. ImportTypeOK'  BY <1>0, <2>1 DEF ImportTypeOK, PCs
  <2>3. Journaled'  BY <1>0, <2>1
  <2>4. Commanded'  BY <1>0, <2>1
  <2>5. WorldSound'  BY <1>0, <2>1 DEF RolledBackRestored
  <2>6. Cleaned'  BY <1>0, <2>1
  <2>7. Placed'  BY <1>0, <2>1
  <2> QED BY <2>2, <2>3, <2>4, <2>5, <2>6, <2>7 DEF ImportInv
<1>4. ASSUME Republish PROVE ImportInv'
  <2>1. /\ pc = "republish" /\ AnyStep
        /\ \/ pc' = "prepare" /\ inst' = "maint"
           \/ pc' = "mstop" /\ inst' = inst
        /\ UNCHANGED <<token, payload, importJournal, kept, target, pointer, intent, boot, game, cmd,
                       save, submits, saves, swap, first, panel, crashes>>
    BY <1>0, <1>4, Published DEF Republish, Lands, upload, files, runtime, count, fixed, control
  <2>2. ImportTypeOK'  BY <1>0, <2>1 DEF ImportTypeOK, PCs
  <2>3. Journaled'  BY <1>0, <2>1
  <2>4. Commanded'  BY <1>0, <2>1
  <2>5. WorldSound'  BY <1>0, <2>1 DEF RolledBackRestored
  <2>6. Cleaned'  BY <1>0, <2>1
  <2>7. Placed'  BY <1>0, <2>1
  <2> QED BY <2>2, <2>3, <2>4, <2>5, <2>6, <2>7 DEF ImportInv
<1>5. ASSUME RestoreRow PROVE ImportInv'
  <2>1. /\ pc = "restorerow" /\ AnyStep
        /\ \/ pc' = "restored" /\ inst' = "orig"
           \/ pc' = (IF kept = "no" THEN "idle" ELSE "giveup") /\ inst' = inst
        /\ UNCHANGED <<token, payload, importJournal, kept, target, pointer, intent, boot, game, cmd,
                       save, submits, saves, swap, first, panel, crashes>>
    BY <1>0, <1>5, Published DEF RestoreRow, Unrestored, Lands, upload, files, runtime, count, fixed, control
  <2>2. ImportTypeOK'  BY <1>0, <2>1 DEF ImportTypeOK, PCs
  <2>3. Journaled'  BY <1>0, <2>1
  <2>4. Commanded'  BY <1>0, <2>1
  <2>5. WorldSound'  BY <1>0, <2>1 DEF RolledBackRestored
  <2>6. Cleaned'  BY <1>0, <2>1
  <2>7. Placed'  BY <1>0, <2>1
  <2> QED BY <2>2, <2>3, <2>4, <2>5, <2>6, <2>7 DEF ImportInv
<1>6. ASSUME PublishRunning PROVE ImportInv'
  <2>1. /\ pc = "running" /\ AnyStep
        /\ \/ pc' = "succeed" /\ inst' = "running"
           \/ pc' = "idle" /\ inst' = inst
        /\ UNCHANGED <<token, payload, importJournal, kept, target, pointer, intent, boot, game, cmd,
                       save, submits, saves, swap, first, panel, crashes>>
    BY <1>0, <1>6, Published DEF PublishRunning, Lands, upload, files, runtime, count, fixed, control
  <2>2. ImportTypeOK'  BY <1>0, <2>1 DEF ImportTypeOK, PCs
  <2>3. Journaled'  BY <1>0, <2>1
  <2>4. Commanded'  BY <1>0, <2>1
  <2>5. WorldSound'  BY <1>0, <2>1 DEF RolledBackRestored
  <2>6. Cleaned'  BY <1>0, <2>1
  <2>7. Placed'  BY <1>0, <2>1
  <2> QED BY <2>2, <2>3, <2>4, <2>5, <2>6, <2>7 DEF ImportInv
<1>7. ASSUME RestoreInstance PROVE ImportInv'
  <2>1. /\ pc = "rrow" /\ AnyStep
        /\ \/ pc' = "rrowed" /\ inst' = "orig"
           \/ pc' = "rmanual" /\ inst' = inst
        /\ UNCHANGED <<token, payload, importJournal, kept, target, pointer, intent, boot, game, cmd,
                       save, submits, saves, swap, first, panel, crashes>>
    BY <1>0, <1>7, Published DEF RestoreInstance, Lands, upload, files, runtime, count, fixed, control
  <2>2. ImportTypeOK'  BY <1>0, <2>1 DEF ImportTypeOK, PCs
  <2>3. Journaled'  BY <1>0, <2>1
  <2>4. Commanded'  BY <1>0, <2>1
  <2>5. WorldSound'  BY <1>0, <2>1 DEF RolledBackRestored
  <2>6. Cleaned'  BY <1>0, <2>1
  <2>7. Placed'  BY <1>0, <2>1
  <2> QED BY <2>2, <2>3, <2>4, <2>5, <2>6, <2>7 DEF ImportInv
<1>8. ASSUME BootRunning PROVE ImportInv'
  <2>1. /\ pc = "bootrunning" /\ AnyStep
        /\ \/ pc' = "idle" /\ inst' = "running"
           \/ pc' = "idle" /\ inst' = inst
        /\ UNCHANGED <<token, payload, importJournal, kept, target, pointer, intent, boot, game, cmd,
                       save, submits, saves, swap, first, panel, crashes>>
    BY <1>0, <1>8, Published DEF BootRunning, Lands, upload, files, runtime, count, fixed, control
  <2>2. ImportTypeOK'  BY <1>0, <2>1 DEF ImportTypeOK, PCs
  <2>3. Journaled'  BY <1>0, <2>1
  <2>4. Commanded'  BY <1>0, <2>1
  <2>5. WorldSound'  BY <1>0, <2>1 DEF RolledBackRestored
  <2>6. Cleaned'  BY <1>0, <2>1
  <2>7. Placed'  BY <1>0, <2>1
  <2> QED BY <2>2, <2>3, <2>4, <2>5, <2>6, <2>7 DEF ImportInv
<1> QED BY <1>1, <1>2, <1>3, <1>4, <1>5, <1>6, <1>7, <1>8

\* The private game is prepared.
LEMMA Prepares ==
    ASSUME ImportInv, Capture \/ RuntimeReady \/ FifoIntent
    PROVE  ImportInv'
<1> USE DEF AnyStep, WorldSound, Placed, Exists, Ended, Journaled, Cleaned, Commanded, NothingDone, Proven
<1>0. /\ ImportTypeOK /\ Journaled /\ Commanded /\ WorldSound /\ Cleaned /\ Placed
      /\ importJournal \in Journals /\ token \in Tokens
  BY DEF ImportInv, ImportTypeOK, Tokens
<1> USE DEF Early, Confirms, Durables, Unended, Joining, BootPlaces, Raising, Phasing, Activating, Lasting, UndoSteps, Cleaning, Working
<1>1. ASSUME game = "down" /\ pointer = importJournal.original /\ Record("check", [importJournal EXCEPT !.mrec = "captured"], "publish", "failed") PROVE ImportInv'
  <2> DEFINE j == [importJournal EXCEPT !.mrec = "captured"]
  <2>1. /\ j \in Journals
        /\ j.stage = importJournal.stage /\ j.original = importJournal.original /\ j.owned = importJournal.owned
        /\ j.bind = importJournal.bind /\ j.boot = importJournal.boot /\ j.maint = importJournal.maint
        /\ j.mrec = "captured" /\ j.manual = importJournal.manual /\ j.fifo = importJournal.fifo
        /\ j.submitted = importJournal.submitted /\ j.confirmed = importJournal.confirmed /\ j.outcome = importJournal.outcome
        /\ j.restarted = importJournal.restarted /\ j.command = importJournal.command /\ j.unsent = importJournal.unsent
        /\ j.rollback = importJournal.rollback /\ j.clean = importJournal.clean
    <3>1. importJournal \in Journals  BY <1>0
    <3> QED BY <3>1 DEF Journals
  <2> HIDE DEF j
  <2>2. /\ pc = "check" /\ AnyStep
        /\ game = "down"
        /\ \/ pc' = "publish" /\ importJournal' = j
           \/ pc' = "idle" /\ importJournal' \in {importJournal, j}
        /\ UNCHANGED <<token, payload, kept, inst, target, pointer, intent, boot, game, cmd, save,
                       submits, saves, swap, first, panel, crashes>>
    BY <1>0, <1>1, JournalEffect DEF Lands, j
  <2>3. ImportTypeOK'  BY <1>0, <2>1, <2>2 DEF ImportTypeOK, PCs
  <2>4. Journaled'  BY <1>0, <2>1, <2>2
  <2>5. Commanded'  BY <1>0, <2>1, <2>2
  <2>6. WorldSound'  BY <1>0, <2>1, <2>2 DEF RolledBackRestored
  <2>7. Cleaned'  BY <1>0, <2>1, <2>2
  <2>8. Placed'  BY <1>0, <2>1, <2>2
  <2> QED BY <2>3, <2>4, <2>5, <2>6, <2>7, <2>8 DEF ImportInv
<1>2. ASSUME Miss("check", "failed") PROVE ImportInv'
  <2>1. /\ pc = "check" /\ AnyStep
        /\ pc' = "idle"
        /\ UNCHANGED <<token, payload, importJournal, kept, inst, target, pointer, intent, boot, game,
                       cmd, save, submits, saves, swap, first, panel, crashes>>
    BY <1>0, <1>2, Missed DEF Lands, upload, files, runtime, count, fixed, control
  <2>2. ImportTypeOK'  BY <1>0, <2>1 DEF ImportTypeOK, PCs
  <2>3. Journaled'  BY <1>0, <2>1
  <2>4. Commanded'  BY <1>0, <2>1
  <2>5. WorldSound'  BY <1>0, <2>1 DEF RolledBackRestored
  <2>6. Cleaned'  BY <1>0, <2>1
  <2>7. Placed'  BY <1>0, <2>1
  <2> QED BY <2>2, <2>3, <2>4, <2>5, <2>6, <2>7 DEF ImportInv
<1>3. ASSUME game \in {"orig", "boot"} /\ Record("ready", [importJournal EXCEPT !.stage = "runtime_ready", !.mrec = "ready"], "republish", "mstop") PROVE ImportInv'
  <2> DEFINE j == [importJournal EXCEPT !.stage = "runtime_ready", !.mrec = "ready"]
  <2>1. /\ j \in Journals
        /\ j.stage = "runtime_ready" /\ j.original = importJournal.original /\ j.owned = importJournal.owned
        /\ j.bind = importJournal.bind /\ j.boot = importJournal.boot /\ j.maint = importJournal.maint
        /\ j.mrec = "ready" /\ j.manual = importJournal.manual /\ j.fifo = importJournal.fifo
        /\ j.submitted = importJournal.submitted /\ j.confirmed = importJournal.confirmed /\ j.outcome = importJournal.outcome
        /\ j.restarted = importJournal.restarted /\ j.command = importJournal.command /\ j.unsent = importJournal.unsent
        /\ j.rollback = importJournal.rollback /\ j.clean = importJournal.clean
    <3>1. importJournal \in Journals  BY <1>0
    <3>2. "runtime_ready" \in {"absent", "canceled", "rolled_back"} \cup {ImportStages[i] : i \in 1..11}
      BY <3>1, StageNames DEF Journals
    <3> QED BY <3>1, <3>2 DEF Journals
  <2> HIDE DEF j
  <2>2. /\ pc = "ready" /\ AnyStep
        /\ \/ pc' = "republish" /\ importJournal' = j
           \/ pc' = "mstop" /\ importJournal' \in {importJournal, j}
        /\ UNCHANGED <<token, payload, kept, inst, target, pointer, intent, boot, game, cmd, save,
                       submits, saves, swap, first, panel, crashes>>
    BY <1>0, <1>3, JournalEffect DEF Lands, j
  <2>3. ImportTypeOK'  BY <1>0, <2>1, <2>2 DEF ImportTypeOK, PCs
  <2>4. Journaled'  BY <1>0, <2>1, <2>2
  <2>5. Commanded'  BY <1>0, <2>1, <2>2
  <2>6. WorldSound'  BY <1>0, <2>1, <2>2 DEF RolledBackRestored
  <2>7. Cleaned'  BY <1>0, <2>1, <2>2
  <2>8. Placed'  BY <1>0, <2>1, <2>2
  <2> QED BY <2>3, <2>4, <2>5, <2>6, <2>7, <2>8 DEF ImportInv
<1>4. ASSUME Miss("ready", "mstop") PROVE ImportInv'
  <2>1. /\ pc = "ready" /\ AnyStep
        /\ pc' = "mstop"
        /\ UNCHANGED <<token, payload, importJournal, kept, inst, target, pointer, intent, boot, game,
                       cmd, save, submits, saves, swap, first, panel, crashes>>
    BY <1>0, <1>4, Missed DEF Lands, upload, files, runtime, count, fixed, control
  <2>2. ImportTypeOK'  BY <1>0, <2>1 DEF ImportTypeOK, PCs
  <2>3. Journaled'  BY <1>0, <2>1
  <2>4. Commanded'  BY <1>0, <2>1
  <2>5. WorldSound'  BY <1>0, <2>1 DEF RolledBackRestored
  <2>6. Cleaned'  BY <1>0, <2>1
  <2>7. Placed'  BY <1>0, <2>1
  <2> QED BY <2>2, <2>3, <2>4, <2>5, <2>6, <2>7 DEF ImportInv
<1>5. ASSUME importJournal.stage = "runtime_ready" /\ importJournal.maint /\ game \in {"orig", "boot"} /\ ~intent /\ pointer # "target" /\ Record("prepare", [importJournal EXCEPT !.fifo = TRUE], "fifo", "ambiguous") PROVE ImportInv'
  <2> DEFINE j == [importJournal EXCEPT !.fifo = TRUE]
  <2>1. /\ j \in Journals
        /\ j.stage = importJournal.stage /\ j.original = importJournal.original /\ j.owned = importJournal.owned
        /\ j.bind = importJournal.bind /\ j.boot = importJournal.boot /\ j.maint = importJournal.maint
        /\ j.mrec = importJournal.mrec /\ j.manual = importJournal.manual /\ j.fifo = TRUE
        /\ j.submitted = importJournal.submitted /\ j.confirmed = importJournal.confirmed /\ j.outcome = importJournal.outcome
        /\ j.restarted = importJournal.restarted /\ j.command = importJournal.command /\ j.unsent = importJournal.unsent
        /\ j.rollback = importJournal.rollback /\ j.clean = importJournal.clean
    <3>1. importJournal \in Journals  BY <1>0
    <3> QED BY <3>1 DEF Journals
  <2> HIDE DEF j
  <2>2. /\ pc = "prepare" /\ AnyStep
        /\ importJournal.stage = "runtime_ready"
        /\ importJournal.maint
        /\ game \in {"orig", "boot"}
        /\ ~intent
        /\ pointer # "target"
        /\ \/ pc' = "fifo" /\ importJournal' = j
           \/ pc' = "ambiguous" /\ importJournal' \in {importJournal, j}
        /\ UNCHANGED <<token, payload, kept, inst, target, pointer, intent, boot, game, cmd, save,
                       submits, saves, swap, first, panel, crashes>>
    BY <1>0, <1>5, JournalEffect DEF Lands, j
  <2>3. ImportTypeOK'  BY <1>0, <2>1, <2>2 DEF ImportTypeOK, PCs
  <2>4. Journaled'  BY <1>0, <2>1, <2>2
  <2>5. Commanded'  BY <1>0, <2>1, <2>2
  <2>6. WorldSound'
    <3>1. (importJournal.stage \in {"absent", "canceled"} => NothingDone)'
      BY <1>0, <2>1, <2>2 DEF RolledBackRestored
    <3>2. (token.receipt => token.status = "owned" /\ importJournal.stage \in {"absent", "canceled"})'
      BY <1>0, <2>1, <2>2 DEF RolledBackRestored
    <3>3. (game # "down" => importJournal.maint \/ importJournal.restarted)'
      BY <1>0, <2>1, <2>2 DEF RolledBackRestored
    <3>4. (inst = "maint" => Exists /\ importJournal.mrec \notin {"none", "restored"})'
      BY <1>0, <2>1, <2>2 DEF RolledBackRestored
    <3>5. (inst = "running" => importJournal.stage = "completed")'
      BY <1>0, <2>1, <2>2 DEF RolledBackRestored
    <3>6. (Proven => game = "down" /\ ~intent)'  BY <1>0, <2>1, <2>2 DEF RolledBackRestored
    <3>7. (importJournal.confirmed /\ importJournal.rollback = "none" => pointer = "target")'
      BY <1>0, <2>1, <2>2 DEF RolledBackRestored
    <3>8. (importJournal.stage \in Durables \cup {"completed"} /\ importJournal.rollback = "none" => ~intent)'
      BY <1>0, <2>1, <2>2 DEF RolledBackRestored
    <3>9. (importJournal.stage = "completed" => ~boot /\ (swap => target = "saved" /\ saves = 1))'
      BY <1>0, <2>1, <2>2 DEF RolledBackRestored
    <3>10. (RolledBackRestored)'  BY <1>0, <2>1, <2>2 DEF RolledBackRestored
    <3> QED BY <3>1, <3>2, <3>3, <3>4, <3>5, <3>6, <3>7, <3>8, <3>9, <3>10
  <2>7. Cleaned'  BY <1>0, <2>1, <2>2
  <2>8. Placed'  BY <1>0, <2>1, <2>2
  <2> QED BY <2>3, <2>4, <2>5, <2>6, <2>7, <2>8 DEF ImportInv
<1>6. ASSUME Miss("prepare", "mstop") PROVE ImportInv'
  <2>1. /\ pc = "prepare" /\ AnyStep
        /\ pc' = "mstop"
        /\ UNCHANGED <<token, payload, importJournal, kept, inst, target, pointer, intent, boot, game,
                       cmd, save, submits, saves, swap, first, panel, crashes>>
    BY <1>0, <1>6, Missed DEF Lands, upload, files, runtime, count, fixed, control
  <2>2. ImportTypeOK'  BY <1>0, <2>1 DEF ImportTypeOK, PCs
  <2>3. Journaled'  BY <1>0, <2>1
  <2>4. Commanded'  BY <1>0, <2>1
  <2>5. WorldSound'  BY <1>0, <2>1 DEF RolledBackRestored
  <2>6. Cleaned'  BY <1>0, <2>1
  <2>7. Placed'  BY <1>0, <2>1
  <2> QED BY <2>2, <2>3, <2>4, <2>5, <2>6, <2>7 DEF ImportInv
<1> QED BY <1>1, <1>2, <1>3, <1>4, <1>5, <1>6 DEF Capture, RuntimeReady, FifoIntent

\* The target world comes up.
LEMMA Activates ==
    ASSUME ImportInv, Activate \/ Await
    PROVE  ImportInv'
<1> USE DEF AnyStep, WorldSound, Placed, Exists, Ended, Journaled, Cleaned, Commanded, NothingDone, Proven
<1>0. /\ ImportTypeOK /\ Journaled /\ Commanded /\ WorldSound /\ Cleaned /\ Placed
      /\ importJournal \in Journals /\ token \in Tokens
  BY DEF ImportInv, ImportTypeOK, Tokens
<1> USE DEF Early, Confirms, Durables, Unended, Joining, BootPlaces, Raising, Phasing, Activating, Lasting, UndoSteps, Cleaning, Working
<1>1. ASSUME importJournal.maint /\ Loaded /\ Record("activate", [importJournal EXCEPT !.stage = "finalize_confirmed"], "durable", Lost) PROVE ImportInv'
  <2> DEFINE j == [importJournal EXCEPT !.stage = "finalize_confirmed"]
  <2>1. /\ j \in Journals
        /\ j.stage = "finalize_confirmed" /\ j.original = importJournal.original /\ j.owned = importJournal.owned
        /\ j.bind = importJournal.bind /\ j.boot = importJournal.boot /\ j.maint = importJournal.maint
        /\ j.mrec = importJournal.mrec /\ j.manual = importJournal.manual /\ j.fifo = importJournal.fifo
        /\ j.submitted = importJournal.submitted /\ j.confirmed = importJournal.confirmed /\ j.outcome = importJournal.outcome
        /\ j.restarted = importJournal.restarted /\ j.command = importJournal.command /\ j.unsent = importJournal.unsent
        /\ j.rollback = importJournal.rollback /\ j.clean = importJournal.clean
    <3>1. importJournal \in Journals  BY <1>0
    <3>2. "finalize_confirmed" \in {"absent", "canceled", "rolled_back"} \cup {ImportStages[i] : i \in 1..11}
      BY <3>1, StageNames DEF Journals
    <3> QED BY <3>1, <3>2 DEF Journals
  <2> HIDE DEF j
  <2>2. /\ pc = "activate" /\ AnyStep
        /\ game = "target" /\ ~intent
        /\ \/ pc' = "durable" /\ importJournal' = j
           \/ pc' = (IF swap THEN "rollback" ELSE "idle") /\ importJournal' \in {importJournal, j}
        /\ UNCHANGED <<token, payload, kept, inst, target, pointer, intent, boot, game, cmd, save,
                       submits, saves, swap, first, panel, crashes>>
    BY <1>0, <1>1, JournalEffect DEF Loaded, Lost, Lands, j
  <2>3. ImportTypeOK'  BY <1>0, <2>1, <2>2 DEF ImportTypeOK, PCs
  <2>4. Journaled'  BY <1>0, <2>1, <2>2
  <2>5. Commanded'  BY <1>0, <2>1, <2>2
  <2>6. WorldSound'  BY <1>0, <2>1, <2>2 DEF RolledBackRestored
  <2>7. Cleaned'  BY <1>0, <2>1, <2>2
  <2>8. Placed'  BY <1>0, <2>1, <2>2
  <2> QED BY <2>3, <2>4, <2>5, <2>6, <2>7, <2>8 DEF ImportInv
<1>2. ASSUME Miss("activate", Lost) PROVE ImportInv'
  <2>1. /\ pc = "activate" /\ AnyStep
        /\ pc' = (IF swap THEN "rollback" ELSE "idle")
        /\ UNCHANGED <<token, payload, importJournal, kept, inst, target, pointer, intent, boot, game,
                       cmd, save, submits, saves, swap, first, panel, crashes>>
    BY <1>0, <1>2, Missed DEF Lost, Lands, upload, files, runtime, count, fixed, control
  <2>2. ImportTypeOK'  BY <1>0, <2>1 DEF ImportTypeOK, PCs
  <2>3. Journaled'  BY <1>0, <2>1
  <2>4. Commanded'  BY <1>0, <2>1
  <2>5. WorldSound'  BY <1>0, <2>1 DEF RolledBackRestored
  <2>6. Cleaned'  BY <1>0, <2>1
  <2>7. Placed'  BY <1>0, <2>1
  <2> QED BY <2>2, <2>3, <2>4, <2>5, <2>6, <2>7 DEF ImportInv
<1>3. ASSUME pc = "activate" /\ Ok(Lost) /\ UNCHANGED <<upload, importJournal, kept, inst, files, runtime, count, fixed>> PROVE ImportInv'
  <2>1. /\ pc = "activate" /\ AnyStep
        /\ pc' = (IF swap THEN "rollback" ELSE "idle")
        /\ UNCHANGED <<token, payload, importJournal, kept, inst, target, pointer, intent, boot, game,
                       cmd, save, submits, saves, swap, first, panel, crashes>>
    BY <1>0, <1>3, Passed DEF Lost, Lands, upload, files, runtime, count, fixed, control
  <2>2. ImportTypeOK'  BY <1>0, <2>1 DEF ImportTypeOK, PCs
  <2>3. Journaled'  BY <1>0, <2>1
  <2>4. Commanded'  BY <1>0, <2>1
  <2>5. WorldSound'  BY <1>0, <2>1 DEF RolledBackRestored
  <2>6. Cleaned'  BY <1>0, <2>1
  <2>7. Placed'  BY <1>0, <2>1
  <2> QED BY <2>2, <2>3, <2>4, <2>5, <2>6, <2>7 DEF ImportInv
<1>4. ASSUME pc = "activate" /\ Ok("restartintent") /\ UNCHANGED <<upload, importJournal, kept, inst, files, runtime, count, fixed>> PROVE ImportInv'
  <2>1. /\ pc = "activate" /\ AnyStep
        /\ pc' = "restartintent"
        /\ UNCHANGED <<token, payload, importJournal, kept, inst, target, pointer, intent, boot, game,
                       cmd, save, submits, saves, swap, first, panel, crashes>>
    BY <1>0, <1>4, Passed DEF Lands, upload, files, runtime, count, fixed, control
  <2>2. ImportTypeOK'  BY <1>0, <2>1 DEF ImportTypeOK, PCs
  <2>3. Journaled'  BY <1>0, <2>1
  <2>4. Commanded'  BY <1>0, <2>1
  <2>5. WorldSound'  BY <1>0, <2>1 DEF RolledBackRestored
  <2>6. Cleaned'  BY <1>0, <2>1
  <2>7. Placed'  BY <1>0, <2>1
  <2> QED BY <2>2, <2>3, <2>4, <2>5, <2>6, <2>7 DEF ImportInv
<1>5. ASSUME Loaded /\ Record("await", [importJournal EXCEPT !.stage = "finalize_confirmed"], "durable", Lost) PROVE ImportInv'
  <2> DEFINE j == [importJournal EXCEPT !.stage = "finalize_confirmed"]
  <2>1. /\ j \in Journals
        /\ j.stage = "finalize_confirmed" /\ j.original = importJournal.original /\ j.owned = importJournal.owned
        /\ j.bind = importJournal.bind /\ j.boot = importJournal.boot /\ j.maint = importJournal.maint
        /\ j.mrec = importJournal.mrec /\ j.manual = importJournal.manual /\ j.fifo = importJournal.fifo
        /\ j.submitted = importJournal.submitted /\ j.confirmed = importJournal.confirmed /\ j.outcome = importJournal.outcome
        /\ j.restarted = importJournal.restarted /\ j.command = importJournal.command /\ j.unsent = importJournal.unsent
        /\ j.rollback = importJournal.rollback /\ j.clean = importJournal.clean
    <3>1. importJournal \in Journals  BY <1>0
    <3>2. "finalize_confirmed" \in {"absent", "canceled", "rolled_back"} \cup {ImportStages[i] : i \in 1..11}
      BY <3>1, StageNames DEF Journals
    <3> QED BY <3>1, <3>2 DEF Journals
  <2> HIDE DEF j
  <2>2. /\ pc = "await" /\ AnyStep
        /\ game = "target" /\ ~intent
        /\ \/ pc' = "durable" /\ importJournal' = j
           \/ pc' = (IF swap THEN "rollback" ELSE "idle") /\ importJournal' \in {importJournal, j}
        /\ UNCHANGED <<token, payload, kept, inst, target, pointer, intent, boot, game, cmd, save,
                       submits, saves, swap, first, panel, crashes>>
    BY <1>0, <1>5, JournalEffect DEF Loaded, Lost, Lands, j
  <2>3. ImportTypeOK'  BY <1>0, <2>1, <2>2 DEF ImportTypeOK, PCs
  <2>4. Journaled'  BY <1>0, <2>1, <2>2
  <2>5. Commanded'  BY <1>0, <2>1, <2>2
  <2>6. WorldSound'  BY <1>0, <2>1, <2>2 DEF RolledBackRestored
  <2>7. Cleaned'  BY <1>0, <2>1, <2>2
  <2>8. Placed'  BY <1>0, <2>1, <2>2
  <2> QED BY <2>3, <2>4, <2>5, <2>6, <2>7, <2>8 DEF ImportInv
<1>6. ASSUME pc = "await" /\ Ok(Lost) /\ UNCHANGED <<upload, importJournal, kept, inst, files, runtime, count, fixed>> PROVE ImportInv'
  <2>1. /\ pc = "await" /\ AnyStep
        /\ pc' = (IF swap THEN "rollback" ELSE "idle")
        /\ UNCHANGED <<token, payload, importJournal, kept, inst, target, pointer, intent, boot, game,
                       cmd, save, submits, saves, swap, first, panel, crashes>>
    BY <1>0, <1>6, Passed DEF Lost, Lands, upload, files, runtime, count, fixed, control
  <2>2. ImportTypeOK'  BY <1>0, <2>1 DEF ImportTypeOK, PCs
  <2>3. Journaled'  BY <1>0, <2>1
  <2>4. Commanded'  BY <1>0, <2>1
  <2>5. WorldSound'  BY <1>0, <2>1 DEF RolledBackRestored
  <2>6. Cleaned'  BY <1>0, <2>1
  <2>7. Placed'  BY <1>0, <2>1
  <2> QED BY <2>2, <2>3, <2>4, <2>5, <2>6, <2>7 DEF ImportInv
<1> QED BY <1>1, <1>2, <1>3, <1>4, <1>5, <1>6 DEF Activate, Await, Activated

\* The target world is saved.
LEMMA Persists ==
    ASSUME ImportInv, Durable \/ ReserveCommand \/ AwaitSave \/ VerifyAsIs \/ RecordSent
    PROVE  ImportInv'
<1> USE DEF AnyStep, WorldSound, Placed, Exists, Ended, Journaled, Cleaned, Commanded, NothingDone, Proven
<1>0. /\ ImportTypeOK /\ Journaled /\ Commanded /\ WorldSound /\ Cleaned /\ Placed
      /\ importJournal \in Journals /\ token \in Tokens
  BY DEF ImportInv, ImportTypeOK, Tokens
<1> USE DEF Early, Confirms, Durables, Unended, Joining, BootPlaces, Raising, Phasing, Activating, Lasting, UndoSteps, Cleaning, Working
<1>1. ASSUME ~swap /\ pc = "durable" /\ Ok("asis") /\ UNCHANGED <<upload, importJournal, kept, inst, files, runtime, count, fixed>> PROVE ImportInv'
  <2>1. /\ pc = "durable" /\ AnyStep
        /\ ~swap
        /\ pc' = "asis"
        /\ UNCHANGED <<token, payload, importJournal, kept, inst, target, pointer, intent, boot, game,
                       cmd, save, submits, saves, swap, first, panel, crashes>>
    BY <1>0, <1>1, Passed DEF Lands, upload, files, runtime, count, fixed, control
  <2>2. ImportTypeOK'  BY <1>0, <2>1 DEF ImportTypeOK, PCs
  <2>3. Journaled'  BY <1>0, <2>1
  <2>4. Commanded'  BY <1>0, <2>1
  <2>5. WorldSound'  BY <1>0, <2>1 DEF RolledBackRestored
  <2>6. Cleaned'  BY <1>0, <2>1
  <2>7. Placed'  BY <1>0, <2>1
  <2> QED BY <2>2, <2>3, <2>4, <2>5, <2>6, <2>7 DEF ImportInv
<1>2. ASSUME pc = "durable" /\ Ok(Lost) /\ UNCHANGED <<upload, importJournal, kept, inst, files, runtime, count, fixed>> PROVE ImportInv'
  <2>1. /\ pc = "durable" /\ AnyStep
        /\ pc' = (IF swap THEN "rollback" ELSE "idle")
        /\ UNCHANGED <<token, payload, importJournal, kept, inst, target, pointer, intent, boot, game,
                       cmd, save, submits, saves, swap, first, panel, crashes>>
    BY <1>0, <1>2, Passed DEF Lost, Lands, upload, files, runtime, count, fixed, control
  <2>2. ImportTypeOK'  BY <1>0, <2>1 DEF ImportTypeOK, PCs
  <2>3. Journaled'  BY <1>0, <2>1
  <2>4. Commanded'  BY <1>0, <2>1
  <2>5. WorldSound'  BY <1>0, <2>1 DEF RolledBackRestored
  <2>6. Cleaned'  BY <1>0, <2>1
  <2>7. Placed'  BY <1>0, <2>1
  <2> QED BY <2>2, <2>3, <2>4, <2>5, <2>6, <2>7 DEF ImportInv
<1>3. ASSUME pc = "durable" /\ Ok("saving") /\ UNCHANGED <<upload, importJournal, kept, inst, files, runtime, count, fixed>> PROVE ImportInv'
  <2>1. /\ pc = "durable" /\ AnyStep
        /\ pc' = "saving"
        /\ UNCHANGED <<token, payload, importJournal, kept, inst, target, pointer, intent, boot, game,
                       cmd, save, submits, saves, swap, first, panel, crashes>>
    BY <1>0, <1>3, Passed DEF Lands, upload, files, runtime, count, fixed, control
  <2>2. ImportTypeOK'  BY <1>0, <2>1 DEF ImportTypeOK, PCs
  <2>3. Journaled'  BY <1>0, <2>1
  <2>4. Commanded'  BY <1>0, <2>1
  <2>5. WorldSound'  BY <1>0, <2>1 DEF RolledBackRestored
  <2>6. Cleaned'  BY <1>0, <2>1
  <2>7. Placed'  BY <1>0, <2>1
  <2> QED BY <2>2, <2>3, <2>4, <2>5, <2>6, <2>7 DEF ImportInv
<1>4. ASSUME ~importJournal.command /\ pc = "durable" /\ Ok("reserve") /\ UNCHANGED <<upload, importJournal, kept, inst, files, runtime, count, fixed>> PROVE ImportInv'
  <2>1. /\ pc = "durable" /\ AnyStep
        /\ ~importJournal.command
        /\ pc' = "reserve"
        /\ UNCHANGED <<token, payload, importJournal, kept, inst, target, pointer, intent, boot, game,
                       cmd, save, submits, saves, swap, first, panel, crashes>>
    BY <1>0, <1>4, Passed DEF Lands, upload, files, runtime, count, fixed, control
  <2>2. ImportTypeOK'  BY <1>0, <2>1 DEF ImportTypeOK, PCs
  <2>3. Journaled'  BY <1>0, <2>1
  <2>4. Commanded'  BY <1>0, <2>1
  <2>5. WorldSound'  BY <1>0, <2>1 DEF RolledBackRestored
  <2>6. Cleaned'  BY <1>0, <2>1
  <2>7. Placed'  BY <1>0, <2>1
  <2> QED BY <2>2, <2>3, <2>4, <2>5, <2>6, <2>7 DEF ImportInv
<1>5. ASSUME Record("reserve", [importJournal EXCEPT !.command = TRUE, !.stage = "persisting"], "send", Lost) PROVE ImportInv'
  <2> DEFINE j == [importJournal EXCEPT !.command = TRUE, !.stage = "persisting"]
  <2>1. /\ j \in Journals
        /\ j.stage = "persisting" /\ j.original = importJournal.original /\ j.owned = importJournal.owned
        /\ j.bind = importJournal.bind /\ j.boot = importJournal.boot /\ j.maint = importJournal.maint
        /\ j.mrec = importJournal.mrec /\ j.manual = importJournal.manual /\ j.fifo = importJournal.fifo
        /\ j.submitted = importJournal.submitted /\ j.confirmed = importJournal.confirmed /\ j.outcome = importJournal.outcome
        /\ j.restarted = importJournal.restarted /\ j.command = TRUE /\ j.unsent = importJournal.unsent
        /\ j.rollback = importJournal.rollback /\ j.clean = importJournal.clean
    <3>1. importJournal \in Journals  BY <1>0
    <3>2. "persisting" \in {"absent", "canceled", "rolled_back"} \cup {ImportStages[i] : i \in 1..11}
      BY <3>1, StageNames DEF Journals
    <3> QED BY <3>1, <3>2 DEF Journals
  <2> HIDE DEF j
  <2>2. /\ pc = "reserve" /\ AnyStep
        /\ \/ pc' = "send" /\ importJournal' = j
           \/ pc' = (IF swap THEN "rollback" ELSE "idle") /\ importJournal' \in {importJournal, j}
        /\ UNCHANGED <<token, payload, kept, inst, target, pointer, intent, boot, game, cmd, save,
                       submits, saves, swap, first, panel, crashes>>
    BY <1>0, <1>5, JournalEffect DEF Lost, Lands, j
  <2>3. ImportTypeOK'  BY <1>0, <2>1, <2>2 DEF ImportTypeOK, PCs
  <2>4. Journaled'  BY <1>0, <2>1, <2>2
  <2>5. Commanded'  BY <1>0, <2>1, <2>2
  <2>6. WorldSound'  BY <1>0, <2>1, <2>2 DEF RolledBackRestored
  <2>7. Cleaned'  BY <1>0, <2>1, <2>2
  <2>8. Placed'  BY <1>0, <2>1, <2>2
  <2> QED BY <2>3, <2>4, <2>5, <2>6, <2>7, <2>8 DEF ImportInv
<1>6. ASSUME game = "down" /\ pc = "reserve" /\ Ok(Lost) /\ UNCHANGED <<upload, importJournal, kept, inst, files, runtime, count, fixed>> PROVE ImportInv'
  <2>1. /\ pc = "reserve" /\ AnyStep
        /\ pc' = (IF swap THEN "rollback" ELSE "idle")
        /\ UNCHANGED <<token, payload, importJournal, kept, inst, target, pointer, intent, boot, game,
                       cmd, save, submits, saves, swap, first, panel, crashes>>
    BY <1>0, <1>6, Passed DEF Lost, Lands, upload, files, runtime, count, fixed, control
  <2>2. ImportTypeOK'  BY <1>0, <2>1 DEF ImportTypeOK, PCs
  <2>3. Journaled'  BY <1>0, <2>1
  <2>4. Commanded'  BY <1>0, <2>1
  <2>5. WorldSound'  BY <1>0, <2>1 DEF RolledBackRestored
  <2>6. Cleaned'  BY <1>0, <2>1
  <2>7. Placed'  BY <1>0, <2>1
  <2> QED BY <2>2, <2>3, <2>4, <2>5, <2>6, <2>7 DEF ImportInv
<1>7. ASSUME save = "done" /\ target = "saved" /\ Record("saving", [importJournal EXCEPT !.stage = "verified"], "unboot", Lost) PROVE ImportInv'
  <2> DEFINE j == [importJournal EXCEPT !.stage = "verified"]
  <2>1. /\ j \in Journals
        /\ j.stage = "verified" /\ j.original = importJournal.original /\ j.owned = importJournal.owned
        /\ j.bind = importJournal.bind /\ j.boot = importJournal.boot /\ j.maint = importJournal.maint
        /\ j.mrec = importJournal.mrec /\ j.manual = importJournal.manual /\ j.fifo = importJournal.fifo
        /\ j.submitted = importJournal.submitted /\ j.confirmed = importJournal.confirmed /\ j.outcome = importJournal.outcome
        /\ j.restarted = importJournal.restarted /\ j.command = importJournal.command /\ j.unsent = importJournal.unsent
        /\ j.rollback = importJournal.rollback /\ j.clean = importJournal.clean
    <3>1. importJournal \in Journals  BY <1>0
    <3>2. "verified" \in {"absent", "canceled", "rolled_back"} \cup {ImportStages[i] : i \in 1..11}
      BY <3>1, StageNames DEF Journals
    <3> QED BY <3>1, <3>2 DEF Journals
  <2> HIDE DEF j
  <2>2. /\ pc = "saving" /\ AnyStep
        /\ save = "done"
        /\ target = "saved"
        /\ \/ pc' = "unboot" /\ importJournal' = j
           \/ pc' = (IF swap THEN "rollback" ELSE "idle") /\ importJournal' \in {importJournal, j}
        /\ UNCHANGED <<token, payload, kept, inst, target, pointer, intent, boot, game, cmd, save,
                       submits, saves, swap, first, panel, crashes>>
    BY <1>0, <1>7, JournalEffect DEF Lost, Lands, j
  <2>3. ImportTypeOK'  BY <1>0, <2>1, <2>2 DEF ImportTypeOK, PCs
  <2>4. Journaled'  BY <1>0, <2>1, <2>2
  <2>5. Commanded'  BY <1>0, <2>1, <2>2
  <2>6. WorldSound'  BY <1>0, <2>1, <2>2 DEF RolledBackRestored
  <2>7. Cleaned'  BY <1>0, <2>1, <2>2
  <2>8. Placed'  BY <1>0, <2>1, <2>2
  <2> QED BY <2>3, <2>4, <2>5, <2>6, <2>7, <2>8 DEF ImportInv
<1>8. ASSUME pc = "saving" /\ Ok(Lost) /\ UNCHANGED <<upload, importJournal, kept, inst, files, runtime, count, fixed>> PROVE ImportInv'
  <2>1. /\ pc = "saving" /\ AnyStep
        /\ pc' = (IF swap THEN "rollback" ELSE "idle")
        /\ UNCHANGED <<token, payload, importJournal, kept, inst, target, pointer, intent, boot, game,
                       cmd, save, submits, saves, swap, first, panel, crashes>>
    BY <1>0, <1>8, Passed DEF Lost, Lands, upload, files, runtime, count, fixed, control
  <2>2. ImportTypeOK'  BY <1>0, <2>1 DEF ImportTypeOK, PCs
  <2>3. Journaled'  BY <1>0, <2>1
  <2>4. Commanded'  BY <1>0, <2>1
  <2>5. WorldSound'  BY <1>0, <2>1 DEF RolledBackRestored
  <2>6. Cleaned'  BY <1>0, <2>1
  <2>7. Placed'  BY <1>0, <2>1
  <2> QED BY <2>2, <2>3, <2>4, <2>5, <2>6, <2>7 DEF ImportInv
<1>9. ASSUME Loaded /\ Record("asis", [importJournal EXCEPT !.stage = "verified"], "unboot", Lost) PROVE ImportInv'
  <2> DEFINE j == [importJournal EXCEPT !.stage = "verified"]
  <2>1. /\ j \in Journals
        /\ j.stage = "verified" /\ j.original = importJournal.original /\ j.owned = importJournal.owned
        /\ j.bind = importJournal.bind /\ j.boot = importJournal.boot /\ j.maint = importJournal.maint
        /\ j.mrec = importJournal.mrec /\ j.manual = importJournal.manual /\ j.fifo = importJournal.fifo
        /\ j.submitted = importJournal.submitted /\ j.confirmed = importJournal.confirmed /\ j.outcome = importJournal.outcome
        /\ j.restarted = importJournal.restarted /\ j.command = importJournal.command /\ j.unsent = importJournal.unsent
        /\ j.rollback = importJournal.rollback /\ j.clean = importJournal.clean
    <3>1. importJournal \in Journals  BY <1>0
    <3>2. "verified" \in {"absent", "canceled", "rolled_back"} \cup {ImportStages[i] : i \in 1..11}
      BY <3>1, StageNames DEF Journals
    <3> QED BY <3>1, <3>2 DEF Journals
  <2> HIDE DEF j
  <2>2. /\ pc = "asis" /\ AnyStep
        /\ \/ pc' = "unboot" /\ importJournal' = j
           \/ pc' = (IF swap THEN "rollback" ELSE "idle") /\ importJournal' \in {importJournal, j}
        /\ UNCHANGED <<token, payload, kept, inst, target, pointer, intent, boot, game, cmd, save,
                       submits, saves, swap, first, panel, crashes>>
    BY <1>0, <1>9, JournalEffect DEF Loaded, Lost, Lands, j
  <2>3. ImportTypeOK'  BY <1>0, <2>1, <2>2 DEF ImportTypeOK, PCs
  <2>4. Journaled'  BY <1>0, <2>1, <2>2
  <2>5. Commanded'  BY <1>0, <2>1, <2>2
  <2>6. WorldSound'  BY <1>0, <2>1, <2>2 DEF RolledBackRestored
  <2>7. Cleaned'  BY <1>0, <2>1, <2>2
  <2>8. Placed'  BY <1>0, <2>1, <2>2
  <2> QED BY <2>3, <2>4, <2>5, <2>6, <2>7, <2>8 DEF ImportInv
<1>10. ASSUME ~Loaded /\ pc = "asis" /\ Ok(Lost) /\ UNCHANGED <<upload, importJournal, kept, inst, files, runtime, count, fixed>> PROVE ImportInv'
  <2>1. /\ pc = "asis" /\ AnyStep
        /\ pc' = (IF swap THEN "rollback" ELSE "idle")
        /\ UNCHANGED <<token, payload, importJournal, kept, inst, target, pointer, intent, boot, game,
                       cmd, save, submits, saves, swap, first, panel, crashes>>
    BY <1>0, <1>10, Passed DEF Lost, Lands, upload, files, runtime, count, fixed, control
  <2>2. ImportTypeOK'  BY <1>0, <2>1 DEF ImportTypeOK, PCs
  <2>3. Journaled'  BY <1>0, <2>1
  <2>4. Commanded'  BY <1>0, <2>1
  <2>5. WorldSound'  BY <1>0, <2>1 DEF RolledBackRestored
  <2>6. Cleaned'  BY <1>0, <2>1
  <2>7. Placed'  BY <1>0, <2>1
  <2> QED BY <2>2, <2>3, <2>4, <2>5, <2>6, <2>7 DEF ImportInv
<1>11. ASSUME RecordSent PROVE ImportInv'
  <2>1. /\ pc = "sent" /\ AnyStep
        /\ pc' \in {"saving", (IF swap THEN "rollback" ELSE "idle")}
        /\ UNCHANGED <<token, payload, importJournal, kept, inst, target, pointer, intent, boot, game,
                       cmd, save, submits, saves, swap, first, panel, crashes>>
    BY <1>0, <1>11, JournalEffect DEF RecordSent, Lost, Lands, upload, files, runtime, count, fixed, control
  <2>2. ImportTypeOK'  BY <1>0, <2>1 DEF ImportTypeOK, PCs
  <2>3. Journaled'  BY <1>0, <2>1
  <2>4. Commanded'  BY <1>0, <2>1
  <2>5. WorldSound'  BY <1>0, <2>1 DEF RolledBackRestored
  <2>6. Cleaned'  BY <1>0, <2>1
  <2>7. Placed'  BY <1>0, <2>1
  <2> QED BY <2>2, <2>3, <2>4, <2>5, <2>6, <2>7 DEF ImportInv
<1> QED
  BY <1>1, <1>2, <1>3, <1>4, <1>5, <1>6, <1>7, <1>8, <1>9, <1>10, <1>11 DEF Durable, ReserveCommand, AwaitSave, VerifyAsIs

\* A rollback begins, or the instance is put back.
LEMMA ReturnStep ==
    ASSUME ImportInv, RollbackIntent \/ RestorePending
    PROVE  ImportInv'
<1> USE DEF AnyStep, WorldSound, Placed, Exists, Ended, Journaled, Cleaned, Commanded, NothingDone, Proven
<1>0. /\ ImportTypeOK /\ Journaled /\ Commanded /\ WorldSound /\ Cleaned /\ Placed
      /\ importJournal \in Journals /\ token \in Tokens
  BY DEF ImportInv, ImportTypeOK, Tokens
<1> USE DEF Early, Confirms, Durables, Unended, Joining, BootPlaces, Raising, Phasing, Activating, Lasting, UndoSteps, Cleaning, Working
<1>1. ASSUME importJournal.stage \notin Ended /\ Record("rollback", [importJournal EXCEPT !.rollback = "pending"], "rstop", "failed") PROVE ImportInv'
  <2> DEFINE j == [importJournal EXCEPT !.rollback = "pending"]
  <2>1. /\ j \in Journals
        /\ j.stage = importJournal.stage /\ j.original = importJournal.original /\ j.owned = importJournal.owned
        /\ j.bind = importJournal.bind /\ j.boot = importJournal.boot /\ j.maint = importJournal.maint
        /\ j.mrec = importJournal.mrec /\ j.manual = importJournal.manual /\ j.fifo = importJournal.fifo
        /\ j.submitted = importJournal.submitted /\ j.confirmed = importJournal.confirmed /\ j.outcome = importJournal.outcome
        /\ j.restarted = importJournal.restarted /\ j.command = importJournal.command /\ j.unsent = importJournal.unsent
        /\ j.rollback = "pending" /\ j.clean = importJournal.clean
    <3>1. importJournal \in Journals  BY <1>0
    <3> QED BY <3>1 DEF Journals
  <2> HIDE DEF j
  <2>2. /\ pc = "rollback" /\ AnyStep
        /\ importJournal.stage \notin Ended
        /\ \/ pc' = "rstop" /\ importJournal' = j
           \/ pc' = "idle" /\ importJournal' \in {importJournal, j}
        /\ UNCHANGED <<token, payload, kept, inst, target, pointer, intent, boot, game, cmd, save,
                       submits, saves, swap, first, panel, crashes>>
    BY <1>0, <1>1, JournalEffect DEF Lands, j
  <2>3. ImportTypeOK'  BY <1>0, <2>1, <2>2 DEF ImportTypeOK, PCs
  <2>4. Journaled'  BY <1>0, <2>1, <2>2
  <2>5. Commanded'  BY <1>0, <2>1, <2>2
  <2>6. WorldSound'  BY <1>0, <2>1, <2>2 DEF RolledBackRestored
  <2>7. Cleaned'  BY <1>0, <2>1, <2>2
  <2>8. Placed'  BY <1>0, <2>1, <2>2
  <2> QED BY <2>3, <2>4, <2>5, <2>6, <2>7, <2>8 DEF ImportInv
<1>2. ASSUME importJournal.stage \in Ended /\ pc = "rollback" /\ Ok("failed") /\ UNCHANGED <<upload, importJournal, kept, inst, files, runtime, count, fixed>> PROVE ImportInv'
  <2>1. /\ pc = "rollback" /\ AnyStep
        /\ pc' = "idle"
        /\ UNCHANGED <<token, payload, importJournal, kept, inst, target, pointer, intent, boot, game,
                       cmd, save, submits, saves, swap, first, panel, crashes>>
    BY <1>0, <1>2, Passed DEF Lands, upload, files, runtime, count, fixed, control
  <2>2. ImportTypeOK'  BY <1>0, <2>1 DEF ImportTypeOK, PCs
  <2>3. Journaled'  BY <1>0, <2>1
  <2>4. Commanded'  BY <1>0, <2>1
  <2>5. WorldSound'  BY <1>0, <2>1 DEF RolledBackRestored
  <2>6. Cleaned'  BY <1>0, <2>1
  <2>7. Placed'  BY <1>0, <2>1
  <2> QED BY <2>2, <2>3, <2>4, <2>5, <2>6, <2>7 DEF ImportInv
<1>3. ASSUME Record("restore", [importJournal EXCEPT !.maint = FALSE, !.mrec = "pending"], "restorerow", Unrestored) PROVE ImportInv'
  <2> DEFINE j == [importJournal EXCEPT !.maint = FALSE, !.mrec = "pending"]
  <2>1. /\ j \in Journals
        /\ j.stage = importJournal.stage /\ j.original = importJournal.original /\ j.owned = importJournal.owned
        /\ j.bind = importJournal.bind /\ j.boot = importJournal.boot /\ j.maint = FALSE
        /\ j.mrec = "pending" /\ j.manual = importJournal.manual /\ j.fifo = importJournal.fifo
        /\ j.submitted = importJournal.submitted /\ j.confirmed = importJournal.confirmed /\ j.outcome = importJournal.outcome
        /\ j.restarted = importJournal.restarted /\ j.command = importJournal.command /\ j.unsent = importJournal.unsent
        /\ j.rollback = importJournal.rollback /\ j.clean = importJournal.clean
    <3>1. importJournal \in Journals  BY <1>0
    <3> QED BY <3>1 DEF Journals
  <2> HIDE DEF j
  <2>2. /\ pc = "restore" /\ AnyStep
        /\ \/ pc' = "restorerow" /\ importJournal' = j
           \/ pc' = (IF kept = "no" THEN "idle" ELSE "giveup") /\ importJournal' \in {importJournal, j}
        /\ UNCHANGED <<token, payload, kept, inst, target, pointer, intent, boot, game, cmd, save,
                       submits, saves, swap, first, panel, crashes>>
    BY <1>0, <1>3, JournalEffect DEF Unrestored, Lands, j
  <2>3. ImportTypeOK'  BY <1>0, <2>1, <2>2 DEF ImportTypeOK, PCs
  <2>4. Journaled'  BY <1>0, <2>1, <2>2
  <2>5. Commanded'  BY <1>0, <2>1, <2>2
  <2>6. WorldSound'  BY <1>0, <2>1, <2>2 DEF RolledBackRestored
  <2>7. Cleaned'  BY <1>0, <2>1, <2>2
  <2>8. Placed'  BY <1>0, <2>1, <2>2
  <2> QED BY <2>3, <2>4, <2>5, <2>6, <2>7, <2>8 DEF ImportInv
<1>4. ASSUME pc = "restore" /\ Ok(Unrestored) /\ UNCHANGED <<upload, importJournal, kept, inst, files, runtime, count, fixed>> PROVE ImportInv'
  <2>1. /\ pc = "restore" /\ AnyStep
        /\ pc' = (IF kept = "no" THEN "idle" ELSE "giveup")
        /\ UNCHANGED <<token, payload, importJournal, kept, inst, target, pointer, intent, boot, game,
                       cmd, save, submits, saves, swap, first, panel, crashes>>
    BY <1>0, <1>4, Passed DEF Unrestored, Lands, upload, files, runtime, count, fixed, control
  <2>2. ImportTypeOK'  BY <1>0, <2>1 DEF ImportTypeOK, PCs
  <2>3. Journaled'  BY <1>0, <2>1
  <2>4. Commanded'  BY <1>0, <2>1
  <2>5. WorldSound'  BY <1>0, <2>1 DEF RolledBackRestored
  <2>6. Cleaned'  BY <1>0, <2>1
  <2>7. Placed'  BY <1>0, <2>1
  <2> QED BY <2>2, <2>3, <2>4, <2>5, <2>6, <2>7 DEF ImportInv
<1> QED BY <1>1, <1>2, <1>3, <1>4 DEF RollbackIntent, RestorePending

\* What the disk says Junimo did.
LEMMA Judged ==
    ASSUME ImportInv, GiveUp \/ Restored \/ Observe \/ Judge
    PROVE  ImportInv'
<1> USE DEF AnyStep, WorldSound, Placed, Exists, Ended, Journaled, Cleaned, Commanded, NothingDone, Proven
<1>0. /\ ImportTypeOK /\ Journaled /\ Commanded /\ WorldSound /\ Cleaned /\ Placed
      /\ importJournal \in Journals /\ token \in Tokens
  BY DEF ImportInv, ImportTypeOK, Tokens
<1> USE DEF Early, Confirms, Durables, Unended, Joining, BootPlaces, Raising, Phasing, Activating, Lasting, UndoSteps, Cleaning, Working
<1>1. ASSUME GiveUp PROVE ImportInv'
  <2> DEFINE j == [importJournal EXCEPT !.maint = (kept = "up"), !.mrec = "manual", !.manual = TRUE]
  <2>1. /\ j \in Journals
        /\ j.stage = importJournal.stage /\ j.original = importJournal.original /\ j.owned = importJournal.owned
        /\ j.bind = importJournal.bind /\ j.boot = importJournal.boot /\ j.maint = ((kept = "up"))
        /\ j.mrec = "manual" /\ j.manual = TRUE /\ j.fifo = importJournal.fifo
        /\ j.submitted = importJournal.submitted /\ j.confirmed = importJournal.confirmed /\ j.outcome = importJournal.outcome
        /\ j.restarted = importJournal.restarted /\ j.command = importJournal.command /\ j.unsent = importJournal.unsent
        /\ j.rollback = importJournal.rollback /\ j.clean = importJournal.clean
    <3>1. importJournal \in Journals  BY <1>0
    <3> QED BY ZenonT(60), <3>1 DEF Journals
  <2> HIDE DEF j
  <2>2. /\ pc = "giveup" /\ AnyStep
        /\ kept' = "no"
        /\ \/ pc' = "idle" /\ importJournal' = j
           \/ pc' = "idle" /\ importJournal' \in {importJournal, j}
        /\ UNCHANGED <<token, payload, inst, target, pointer, intent, boot, game, cmd, save, submits,
                       saves, swap, first, panel, crashes>>
    BY <1>0, <1>1, JournalWritten DEF GiveUp, upload, files, runtime, count, fixed, Lands, j
  <2>20. j.maint <=> kept = "up"  BY <2>1
  <2>3. ImportTypeOK'  BY <1>0, <2>1, <2>2 DEF ImportTypeOK, PCs
  <2>4. Journaled'  BY <1>0, <2>1, <2>2
  <2>5. Commanded'  BY <1>0, <2>1, <2>2
  <2>6. WorldSound'  BY <1>0, <2>1, <2>2, <2>20 DEF RolledBackRestored
  <2>7. Cleaned'  BY <1>0, <2>1, <2>2
  <2>8. Placed'  BY <1>0, <2>1, <2>2
  <2> QED BY <2>3, <2>4, <2>5, <2>6, <2>7, <2>8 DEF ImportInv
<1>2. ASSUME Restored PROVE ImportInv'
  <2> DEFINE j == [importJournal EXCEPT !.mrec = "restored", !.manual = FALSE]
  <2>1. /\ j \in Journals
        /\ j.stage = importJournal.stage /\ j.original = importJournal.original /\ j.owned = importJournal.owned
        /\ j.bind = importJournal.bind /\ j.boot = importJournal.boot /\ j.maint = importJournal.maint
        /\ j.mrec = "restored" /\ j.manual = FALSE /\ j.fifo = importJournal.fifo
        /\ j.submitted = importJournal.submitted /\ j.confirmed = importJournal.confirmed /\ j.outcome = importJournal.outcome
        /\ j.restarted = importJournal.restarted /\ j.command = importJournal.command /\ j.unsent = importJournal.unsent
        /\ j.rollback = importJournal.rollback /\ j.clean = importJournal.clean
    <3>1. importJournal \in Journals  BY <1>0
    <3> QED BY <3>1 DEF Journals
  <2> HIDE DEF j
  <2>2. /\ pc = "restored" /\ AnyStep
        /\ kept' = (IF pc' = "idle" THEN "no" ELSE kept)
        /\ \/ pc' = "idle" /\ importJournal' = j
           \/ pc' = (IF kept = "no" THEN "idle" ELSE "giveup") /\ importJournal' \in {importJournal, j}
        /\ UNCHANGED <<token, payload, inst, target, pointer, intent, boot, game, cmd, save, submits,
                       saves, swap, first, panel, crashes>>
    BY <1>0, <1>2, JournalWritten DEF Restored, Unrestored, upload, files, runtime, count, fixed, Lands, j
  <2>3. ImportTypeOK'  BY <1>0, <2>1, <2>2 DEF ImportTypeOK, PCs
  <2>4. Journaled'  BY <1>0, <2>1, <2>2
  <2>5. Commanded'  BY <1>0, <2>1, <2>2
  <2>6. WorldSound'  BY <1>0, <2>1, <2>2 DEF RolledBackRestored
  <2>7. Cleaned'  BY <1>0, <2>1, <2>2
  <2>8. Placed'  BY <1>0, <2>1, <2>2
  <2> QED BY <2>3, <2>4, <2>5, <2>6, <2>7, <2>8 DEF ImportInv
<1>3. ASSUME Verdict = "confirmed" /\ Record("observe", [importJournal EXCEPT !.submitted = TRUE, !.confirmed = TRUE, !.stage = "confirmed", !.outcome = "confirmed", !.maint = TRUE], "activate", "ambiguous") PROVE ImportInv'
  <2> DEFINE j == [importJournal EXCEPT !.submitted = TRUE, !.confirmed = TRUE, !.stage = "confirmed", !.outcome = "confirmed", !.maint = TRUE]
  <2>1. /\ j \in Journals
        /\ j.stage = "confirmed" /\ j.original = importJournal.original /\ j.owned = importJournal.owned
        /\ j.bind = importJournal.bind /\ j.boot = importJournal.boot /\ j.maint = TRUE
        /\ j.mrec = importJournal.mrec /\ j.manual = importJournal.manual /\ j.fifo = importJournal.fifo
        /\ j.submitted = TRUE /\ j.confirmed = TRUE /\ j.outcome = "confirmed"
        /\ j.restarted = importJournal.restarted /\ j.command = importJournal.command /\ j.unsent = importJournal.unsent
        /\ j.rollback = importJournal.rollback /\ j.clean = importJournal.clean
    <3>1. importJournal \in Journals  BY <1>0
    <3>2. "confirmed" \in {"absent", "canceled", "rolled_back"} \cup {ImportStages[i] : i \in 1..11}
      BY <3>1, StageNames DEF Journals
    <3> QED BY <3>1, <3>2 DEF Journals
  <2> HIDE DEF j
  <2>2. /\ pc = "observe" /\ AnyStep
        /\ pointer = "target"
        /\ \/ pc' = "activate" /\ importJournal' = j
           \/ pc' = "ambiguous" /\ importJournal' \in {importJournal, j}
        /\ UNCHANGED <<token, payload, kept, inst, target, pointer, intent, boot, game, cmd, save,
                       submits, saves, swap, first, panel, crashes>>
    BY <1>0, <1>3, JournalEffect, Verdicts DEF Lands, j
  <2>3. ImportTypeOK'  BY <1>0, <2>1, <2>2 DEF ImportTypeOK, PCs
  <2>4. Journaled'  BY <1>0, <2>1, <2>2
  <2>5. Commanded'  BY <1>0, <2>1, <2>2
  <2>6. WorldSound'  BY <1>0, <2>1, <2>2 DEF RolledBackRestored
  <2>7. Cleaned'  BY <1>0, <2>1, <2>2
  <2>8. Placed'  BY <1>0, <2>1, <2>2
  <2> QED BY <2>3, <2>4, <2>5, <2>6, <2>7, <2>8 DEF ImportInv
<1>4. ASSUME pc = "observe" /\ Ok("phasestop") /\ UNCHANGED <<upload, importJournal, kept, inst, files, runtime, count, fixed>> PROVE ImportInv'
  <2>1. /\ pc = "observe" /\ AnyStep
        /\ pc' = "phasestop"
        /\ UNCHANGED <<token, payload, importJournal, kept, inst, target, pointer, intent, boot, game,
                       cmd, save, submits, saves, swap, first, panel, crashes>>
    BY <1>0, <1>4, Passed DEF Lands, upload, files, runtime, count, fixed, control
  <2>2. ImportTypeOK'  BY <1>0, <2>1 DEF ImportTypeOK, PCs
  <2>3. Journaled'  BY <1>0, <2>1
  <2>4. Commanded'  BY <1>0, <2>1
  <2>5. WorldSound'  BY <1>0, <2>1 DEF RolledBackRestored
  <2>6. Cleaned'  BY <1>0, <2>1
  <2>7. Placed'  BY <1>0, <2>1
  <2> QED BY <2>2, <2>3, <2>4, <2>5, <2>6, <2>7 DEF ImportInv
<1>5. ASSUME Verdict = "confirmed" /\ Record("judge", [importJournal EXCEPT !.submitted = TRUE, !.confirmed = TRUE, !.stage = "confirmed", !.outcome = "confirmed", !.maint = FALSE], "activate", "failed") PROVE ImportInv'
  <2> DEFINE j == [importJournal EXCEPT !.submitted = TRUE, !.confirmed = TRUE, !.stage = "confirmed", !.outcome = "confirmed", !.maint = FALSE]
  <2>1. /\ j \in Journals
        /\ j.stage = "confirmed" /\ j.original = importJournal.original /\ j.owned = importJournal.owned
        /\ j.bind = importJournal.bind /\ j.boot = importJournal.boot /\ j.maint = FALSE
        /\ j.mrec = importJournal.mrec /\ j.manual = importJournal.manual /\ j.fifo = importJournal.fifo
        /\ j.submitted = TRUE /\ j.confirmed = TRUE /\ j.outcome = "confirmed"
        /\ j.restarted = importJournal.restarted /\ j.command = importJournal.command /\ j.unsent = importJournal.unsent
        /\ j.rollback = importJournal.rollback /\ j.clean = importJournal.clean
    <3>1. importJournal \in Journals  BY <1>0
    <3>2. "confirmed" \in {"absent", "canceled", "rolled_back"} \cup {ImportStages[i] : i \in 1..11}
      BY <3>1, StageNames DEF Journals
    <3> QED BY <3>1, <3>2 DEF Journals
  <2> HIDE DEF j
  <2>2. /\ pc = "judge" /\ AnyStep
        /\ pointer = "target"
        /\ \/ pc' = "activate" /\ importJournal' = j
           \/ pc' = "idle" /\ importJournal' \in {importJournal, j}
        /\ UNCHANGED <<token, payload, kept, inst, target, pointer, intent, boot, game, cmd, save,
                       submits, saves, swap, first, panel, crashes>>
    BY <1>0, <1>5, JournalEffect, Verdicts DEF Lands, j
  <2>3. ImportTypeOK'  BY <1>0, <2>1, <2>2 DEF ImportTypeOK, PCs
  <2>4. Journaled'  BY <1>0, <2>1, <2>2
  <2>5. Commanded'  BY <1>0, <2>1, <2>2
  <2>6. WorldSound'  BY <1>0, <2>1, <2>2 DEF RolledBackRestored
  <2>7. Cleaned'  BY <1>0, <2>1, <2>2
  <2>8. Placed'  BY <1>0, <2>1, <2>2
  <2> QED BY <2>3, <2>4, <2>5, <2>6, <2>7, <2>8 DEF ImportInv
<1>6. ASSUME pc = "judge", Judge, Verdict = "no_effect" PROVE ImportInv'
  <2> DEFINE j == [importJournal EXCEPT !.outcome = "no_effect"]
  <2>1. /\ j \in Journals
        /\ j.stage = importJournal.stage /\ j.original = importJournal.original /\ j.owned = importJournal.owned
        /\ j.bind = importJournal.bind /\ j.boot = importJournal.boot /\ j.maint = importJournal.maint
        /\ j.mrec = importJournal.mrec /\ j.manual = importJournal.manual /\ j.fifo = importJournal.fifo
        /\ j.submitted = importJournal.submitted /\ j.confirmed = importJournal.confirmed /\ j.outcome = "no_effect"
        /\ j.restarted = importJournal.restarted /\ j.command = importJournal.command /\ j.unsent = importJournal.unsent
        /\ j.rollback = importJournal.rollback /\ j.clean = importJournal.clean
    <3>1. importJournal \in Journals  BY <1>0
    <3> QED BY <3>1 DEF Journals
  <2> HIDE DEF j
  <2>2. /\ pc = "judge" /\ AnyStep
        /\ kept' = "up"
        /\ target = "staged" /\ ~intent /\ pointer = importJournal.original
        /\ \/ pc' = "restore" /\ importJournal' = j
           \/ pc' = "restore" /\ importJournal' \in {importJournal, j}
        /\ UNCHANGED <<token, payload, inst, target, pointer, intent, boot, game, cmd, save, submits,
                       saves, swap, first, panel, crashes>>
    BY <1>0, <1>6, JournalWritten, Verdicts DEF Judge, Record, upload, files, runtime, count, fixed, Lands, j
  <2>3. ImportTypeOK'  BY <1>0, <2>1, <2>2 DEF ImportTypeOK, PCs
  <2>4. Journaled'  BY <1>0, <2>1, <2>2
  <2>5. Commanded'  BY <1>0, <2>1, <2>2
  <2>6. WorldSound'  BY <1>0, <2>1, <2>2 DEF RolledBackRestored
  <2>7. Cleaned'  BY <1>0, <2>1, <2>2
  <2>8. Placed'  BY <1>0, <2>1, <2>2
  <2> QED BY <2>3, <2>4, <2>5, <2>6, <2>7, <2>8 DEF ImportInv
<1>7. ASSUME Verdict = "recovery" /\ Record("judge", [importJournal EXCEPT !.outcome = "recovery"], "failed", "failed") PROVE ImportInv'
  <2> DEFINE j == [importJournal EXCEPT !.outcome = "recovery"]
  <2>1. /\ j \in Journals
        /\ j.stage = importJournal.stage /\ j.original = importJournal.original /\ j.owned = importJournal.owned
        /\ j.bind = importJournal.bind /\ j.boot = importJournal.boot /\ j.maint = importJournal.maint
        /\ j.mrec = importJournal.mrec /\ j.manual = importJournal.manual /\ j.fifo = importJournal.fifo
        /\ j.submitted = importJournal.submitted /\ j.confirmed = importJournal.confirmed /\ j.outcome = "recovery"
        /\ j.restarted = importJournal.restarted /\ j.command = importJournal.command /\ j.unsent = importJournal.unsent
        /\ j.rollback = importJournal.rollback /\ j.clean = importJournal.clean
    <3>1. importJournal \in Journals  BY <1>0
    <3> QED BY <3>1 DEF Journals
  <2> HIDE DEF j
  <2>2. /\ pc = "judge" /\ AnyStep
        /\ \/ pc' = "idle" /\ importJournal' = j
           \/ pc' = "idle" /\ importJournal' \in {importJournal, j}
        /\ UNCHANGED <<token, payload, kept, inst, target, pointer, intent, boot, game, cmd, save,
                       submits, saves, swap, first, panel, crashes>>
    BY <1>0, <1>7, JournalEffect DEF Lands, j
  <2>3. ImportTypeOK'  BY <1>0, <2>1, <2>2 DEF ImportTypeOK, PCs
  <2>4. Journaled'  BY <1>0, <2>1, <2>2
  <2>5. Commanded'  BY <1>0, <2>1, <2>2
  <2>6. WorldSound'  BY <1>0, <2>1, <2>2 DEF RolledBackRestored
  <2>7. Cleaned'  BY <1>0, <2>1, <2>2
  <2>8. Placed'  BY <1>0, <2>1, <2>2
  <2> QED BY <2>3, <2>4, <2>5, <2>6, <2>7, <2>8 DEF ImportInv
<1>8. ASSUME Verdict = "contradictory" /\ Record("judge", [importJournal EXCEPT !.outcome = "contradictory"], "failed", "failed") PROVE ImportInv'
  <2> DEFINE j == [importJournal EXCEPT !.outcome = "contradictory"]
  <2>1. /\ j \in Journals
        /\ j.stage = importJournal.stage /\ j.original = importJournal.original /\ j.owned = importJournal.owned
        /\ j.bind = importJournal.bind /\ j.boot = importJournal.boot /\ j.maint = importJournal.maint
        /\ j.mrec = importJournal.mrec /\ j.manual = importJournal.manual /\ j.fifo = importJournal.fifo
        /\ j.submitted = importJournal.submitted /\ j.confirmed = importJournal.confirmed /\ j.outcome = "contradictory"
        /\ j.restarted = importJournal.restarted /\ j.command = importJournal.command /\ j.unsent = importJournal.unsent
        /\ j.rollback = importJournal.rollback /\ j.clean = importJournal.clean
    <3>1. importJournal \in Journals  BY <1>0
    <3> QED BY <3>1 DEF Journals
  <2> HIDE DEF j
  <2>2. /\ pc = "judge" /\ AnyStep
        /\ \/ pc' = "idle" /\ importJournal' = j
           \/ pc' = "idle" /\ importJournal' \in {importJournal, j}
        /\ UNCHANGED <<token, payload, kept, inst, target, pointer, intent, boot, game, cmd, save,
                       submits, saves, swap, first, panel, crashes>>
    BY <1>0, <1>8, JournalEffect DEF Lands, j
  <2>3. ImportTypeOK'  BY <1>0, <2>1, <2>2 DEF ImportTypeOK, PCs
  <2>4. Journaled'  BY <1>0, <2>1, <2>2
  <2>5. Commanded'  BY <1>0, <2>1, <2>2
  <2>6. WorldSound'  BY <1>0, <2>1, <2>2 DEF RolledBackRestored
  <2>7. Cleaned'  BY <1>0, <2>1, <2>2
  <2>8. Placed'  BY <1>0, <2>1, <2>2
  <2> QED BY <2>3, <2>4, <2>5, <2>6, <2>7, <2>8 DEF ImportInv
<1>9. ASSUME Judge, Verdict = "half" PROVE ImportInv'
  <2>1. /\ pc = "judge" /\ AnyStep
        /\ \/ pc' = "half" /\ target' \in {target, "staged"}
        /\ UNCHANGED <<token, payload, importJournal, kept, inst, pointer, intent, boot, game, cmd, save,
                       submits, saves, swap, first, panel, crashes>>
    BY <1>0, <1>9, MoveEffect DEF Judge, Record, OnFiles, Lands, upload, files, runtime, count, fixed, control
  <2>2. ImportTypeOK'  BY <1>0, <2>1 DEF ImportTypeOK, PCs
  <2>3. Journaled'  BY <1>0, <2>1
  <2>4. Commanded'  BY <1>0, <2>1
  <2>5. WorldSound'  BY <1>0, <2>1 DEF RolledBackRestored
  <2>6. Cleaned'  BY <1>0, <2>1
  <2>7. Placed'  BY <1>0, <2>1
  <2> QED BY <2>2, <2>3, <2>4, <2>5, <2>6, <2>7 DEF ImportInv
<1> QED BY <1>1, <1>2, <1>3, <1>4, <1>5, <1>6, <1>7, <1>8, <1>9 DEF Observe, Judge, Confirmed

\* The request.
LEMMA Requested ==
    ASSUME ImportInv, Upload \/ Drop \/ Commit \/ Refused \/ MovePayload \/ OwnToken \/ AttachToken
    PROVE  ImportInv'
<1> USE DEF AnyStep, WorldSound, Placed, Exists, Ended, Journaled, Cleaned, Commanded, NothingDone, Proven
<1>0. /\ ImportTypeOK /\ Journaled /\ Commanded /\ WorldSound /\ Cleaned /\ Placed
      /\ importJournal \in Journals /\ token \in Tokens
  BY DEF ImportInv, ImportTypeOK, Tokens
<1> USE DEF Early, Confirms, Durables, Unended, Joining, BootPlaces, Raising, Phasing, Activating, Lasting, UndoSteps, Cleaning, Working
<1>1. ASSUME Upload PROVE ImportInv'
  <2>1. /\ pc = "idle" /\ AnyStep
        /\ pc' = "idle" /\ row' = row
        /\ token.status = "none" /\ importJournal.stage \in Ended \cup {"absent"}
        /\ token' \in Tokens /\ token'.receipt = FALSE /\ token'.status = "available" /\ payload' = "upload"
        /\ UNCHANGED <<importJournal, kept, inst, target, pointer, intent, boot, game, cmd, save, submits,
                       saves, swap, first, panel, crashes>>
    BY <1>0, <1>1, ImportAssumption DEF Upload, Tokens, NoToken, Serving, control, ImportTypeOK, Lands, upload,
       files, runtime, count, fixed, control
  <2>2. ImportTypeOK'  BY <1>0, <2>1 DEF ImportTypeOK, PCs, Tokens
  <2>3. Journaled'  BY <1>0, <2>1
  <2>4. Commanded'  BY <1>0, <2>1
  <2>5. WorldSound'  BY <1>0, <2>1 DEF RolledBackRestored
  <2>6. Cleaned'  BY <1>0, <2>1
  <2>7. Placed'  BY <1>0, <2>1
  <2> QED BY <2>2, <2>3, <2>4, <2>5, <2>6, <2>7 DEF ImportInv
<1>2. ASSUME Drop PROVE ImportInv'
  <2>1. /\ pc = "idle" /\ AnyStep
        /\ pc' = "idle" /\ row' = row
        /\ token.status = "available"
        /\ token' \in Tokens /\ token'.receipt = FALSE /\ token'.status = "none" /\ payload' = "gone"
        /\ UNCHANGED <<importJournal, kept, inst, target, pointer, intent, boot, game, cmd, save, submits,
                       saves, swap, first, panel, crashes>>
    BY <1>0, <1>2, ImportAssumption DEF Drop, Tokens, NoToken, Serving, control, ImportTypeOK, Lands, upload, files,
       runtime, count, fixed, control
  <2>2. ImportTypeOK'  BY <1>0, <2>1 DEF ImportTypeOK, PCs, Tokens
  <2>3. Journaled'  BY <1>0, <2>1
  <2>4. Commanded'  BY <1>0, <2>1
  <2>5. WorldSound'  BY <1>0, <2>1 DEF RolledBackRestored
  <2>6. Cleaned'  BY <1>0, <2>1
  <2>7. Placed'  BY <1>0, <2>1
  <2> QED BY <2>2, <2>3, <2>4, <2>5, <2>6, <2>7 DEF ImportInv
<1>3. ASSUME Commit PROVE ImportInv'
  <2>1. /\ pc = "idle" /\ AnyStep
        /\ pc' = "admit"
        /\ token.status \in {"available", "reserved"}
        /\ token' \in Tokens /\ token'.receipt = token.receipt /\ token'.status = "reserved"
        /\ UNCHANGED <<payload, importJournal, kept, inst, target, pointer, intent, boot, game, cmd, save,
                       submits, saves, swap, first, panel, crashes>>
    BY <1>0, <1>3, MoveEffect DEF Commit, Tokens, NoToken, Serving, Lands, upload, files, runtime, count, fixed, control
  <2>2. ImportTypeOK'  BY <1>0, <2>1 DEF ImportTypeOK, PCs, Tokens
  <2>3. Journaled'  BY <1>0, <2>1
  <2>4. Commanded'  BY <1>0, <2>1
  <2>5. WorldSound'  BY <1>0, <2>1 DEF RolledBackRestored
  <2>6. Cleaned'  BY <1>0, <2>1
  <2>7. Placed'  BY <1>0, <2>1
  <2> QED BY <2>2, <2>3, <2>4, <2>5, <2>6, <2>7 DEF ImportInv
<1>4. ASSUME Refused PROVE ImportInv'
  <2>1. /\ pc = "refused" /\ AnyStep
        /\ pc' = "idle"
        /\ token' \in Tokens /\ token'.receipt = token.receipt
        /\ \/ token'.status = token.status
           \/ token.status = "reserved" /\ ~Exists /\ token'.status = "available"
        /\ UNCHANGED <<payload, importJournal, kept, inst, target, pointer, intent, boot, game, cmd, save,
                       submits, saves, swap, first, panel, crashes>>
    BY <1>0, <1>4, MoveEffect DEF Refused, Tokens, NoToken, Lands, upload, files, runtime, count, fixed, control
  <2>2. ImportTypeOK'  BY <1>0, <2>1 DEF ImportTypeOK, PCs, Tokens
  <2>3. Journaled'  BY <1>0, <2>1
  <2>4. Commanded'  BY <1>0, <2>1
  <2>5. WorldSound'  BY <1>0, <2>1 DEF RolledBackRestored
  <2>6. Cleaned'  BY <1>0, <2>1
  <2>7. Placed'  BY <1>0, <2>1
  <2> QED BY <2>2, <2>3, <2>4, <2>5, <2>6, <2>7 DEF ImportInv
<1>5. ASSUME MovePayload PROVE ImportInv'
  <2>1. /\ pc = "move" /\ AnyStep
        /\ pc' \in {"own", "refused"}
        /\ payload' \in {payload, "source"}
        /\ UNCHANGED <<token, importJournal, kept, inst, target, pointer, intent, boot, game, cmd, save,
                       submits, saves, swap, first, panel, crashes>>
    BY <1>0, <1>5, MoveEffect DEF MovePayload, Lands, upload, files, runtime, count, fixed, control
  <2>2. ImportTypeOK'  BY <1>0, <2>1 DEF ImportTypeOK, PCs
  <2>3. Journaled'  BY <1>0, <2>1
  <2>4. Commanded'  BY <1>0, <2>1
  <2>5. WorldSound'  BY <1>0, <2>1 DEF RolledBackRestored
  <2>6. Cleaned'  BY <1>0, <2>1
  <2>7. Placed'  BY <1>0, <2>1
  <2> QED BY <2>2, <2>3, <2>4, <2>5, <2>6, <2>7 DEF ImportInv
<1>6. ASSUME OwnToken PROVE ImportInv'
  <2>1. /\ pc = "own" /\ AnyStep
        /\ pc' \in {"ownjournal", "refused"}
        /\ token' \in Tokens /\ token'.receipt = token.receipt
        /\ token'.status \in {token.status, "owned"}
        /\ pc' = "ownjournal" => token'.status = "owned"
        /\ UNCHANGED <<payload, importJournal, kept, inst, target, pointer, intent, boot, game, cmd, save,
                       submits, saves, swap, first, panel, crashes>>
    BY <1>0, <1>6, MoveEffect DEF OwnToken, Tokens, NoToken, ImportTypeOK, Lands, upload, files, runtime, count, fixed, control
  <2>2. ImportTypeOK'  BY <1>0, <2>1 DEF ImportTypeOK, PCs, Tokens
  <2>3. Journaled'  BY <1>0, <2>1
  <2>4. Commanded'  BY <1>0, <2>1
  <2>5. WorldSound'  BY <1>0, <2>1 DEF RolledBackRestored
  <2>6. Cleaned'  BY <1>0, <2>1
  <2>7. Placed'  BY <1>0, <2>1
  <2> QED BY <2>2, <2>3, <2>4, <2>5, <2>6, <2>7 DEF ImportInv
<1>7. ASSUME AttachToken PROVE ImportInv'
  <2>1. /\ pc = "bindtoken" /\ AnyStep
        /\ pc' \in {"bindready", "idle"}
        /\ token' \in Tokens /\ token'.receipt = token.receipt
        /\ token'.status = token.status
        /\ UNCHANGED <<payload, importJournal, kept, inst, target, pointer, intent, boot, game, cmd, save,
                       submits, saves, swap, first, panel, crashes>>
    BY <1>0, <1>7, MoveEffect DEF AttachToken, Tokens, NoToken, Lands, upload, files, runtime, count, fixed, control
  <2>2. ImportTypeOK'  BY <1>0, <2>1 DEF ImportTypeOK, PCs, Tokens
  <2>3. Journaled'  BY <1>0, <2>1
  <2>4. Commanded'  BY <1>0, <2>1
  <2>5. WorldSound'  BY <1>0, <2>1 DEF RolledBackRestored
  <2>6. Cleaned'  BY <1>0, <2>1
  <2>7. Placed'  BY <1>0, <2>1
  <2> QED BY <2>2, <2>3, <2>4, <2>5, <2>6, <2>7 DEF ImportInv
<1> QED BY <1>1, <1>2, <1>3, <1>4, <1>5, <1>6, <1>7

\* The files, the commands and the end of the job.
LEMMA OnDisk ==
    ASSUME ImportInv, StageTarget \/ PublishBootstrap \/ SelectBootstrap \/ WriteFifo \/ SendSave \/ DropBootstrap \/ RestoreSave \/ RestorePointer
    PROVE  ImportInv'
<1> USE DEF AnyStep, Placed, WorldSound, Exists, Ended, Journaled, Cleaned, Commanded, NothingDone, Proven
<1>0. /\ ImportTypeOK /\ Journaled /\ Commanded /\ WorldSound /\ Cleaned /\ Placed
      /\ importJournal \in Journals /\ token \in Tokens
  BY DEF ImportInv, ImportTypeOK, Tokens
<1> USE DEF Early, Confirms, Durables, Unended, Joining, BootPlaces, Raising, Phasing, Activating, Lasting, UndoSteps, Cleaning, Working
<1>1. ASSUME StageTarget PROVE ImportInv'
  <2>1. /\ pc = "stage" /\ AnyStep
        /\ \/ pc' = "staged" /\ target' = "staged" /\ payload' = "saves"
           \/ pc' = "idle" /\ UNCHANGED <<target, payload>>
        /\ UNCHANGED <<token, importJournal, kept, inst, pointer, intent, boot, game, cmd, save, submits,
                       saves, swap, first, panel, crashes>>
    BY <1>0, <1>1, MoveEffect DEF StageTarget, Lands, upload, files, runtime, count, fixed, control
  <2>2. ImportTypeOK'  BY <1>0, <2>1 DEF ImportTypeOK, PCs
  <2>3. Journaled'  BY <1>0, <2>1
  <2>4. Commanded'  BY <1>0, <2>1
  <2>5. WorldSound'  BY <1>0, <2>1 DEF RolledBackRestored
  <2>6. Cleaned'  BY <1>0, <2>1
  <2>7. Placed'  BY <1>0, <2>1
  <2> QED BY <2>2, <2>3, <2>4, <2>5, <2>6, <2>7 DEF ImportInv
<1>2. ASSUME PublishBootstrap PROVE ImportInv'
  <2>1. /\ pc = "bootmake" /\ AnyStep
        /\ boot' \in BOOLEAN
        /\ \/ pc' = "bootmade" /\ boot' = TRUE
           \/ pc' = "idle" /\ UNCHANGED boot
        /\ UNCHANGED <<token, payload, importJournal, kept, inst, target, pointer, intent, game, cmd,
                       save, submits, saves, swap, first, panel, crashes>>
    BY <1>0, <1>2, MoveEffect DEF PublishBootstrap, OnFiles, ImportTypeOK, Lands, upload, files, runtime, count, fixed, control
  <2>2. ImportTypeOK'  BY <1>0, <2>1 DEF ImportTypeOK, PCs
  <2>3. Journaled'  BY <1>0, <2>1
  <2>4. Commanded'  BY <1>0, <2>1
  <2>5. WorldSound'  BY <1>0, <2>1 DEF RolledBackRestored
  <2>6. Cleaned'  BY <1>0, <2>1
  <2>7. Placed'  BY <1>0, <2>1
  <2> QED BY <2>2, <2>3, <2>4, <2>5, <2>6, <2>7 DEF ImportInv
<1>3. ASSUME SelectBootstrap PROVE ImportInv'
  <2>1. /\ pc = "bootselect" /\ AnyStep
        /\ \/ pc' = "bootselected" /\ pointer' = "boot"
           \/ pc' = "idle" /\ UNCHANGED pointer
        /\ UNCHANGED <<token, payload, importJournal, kept, inst, target, intent, boot, game, cmd, save,
                       submits, saves, swap, first, panel, crashes>>
    BY <1>0, <1>3, MoveEffect DEF SelectBootstrap, OnFiles, Lands, upload, files, runtime, count, fixed, control
  <2>2. ImportTypeOK'  BY <1>0, <2>1 DEF ImportTypeOK, PCs
  <2>3. Journaled'  BY <1>0, <2>1
  <2>4. Commanded'  BY <1>0, <2>1
  <2>5. WorldSound'  BY <1>0, <2>1 DEF RolledBackRestored
  <2>6. Cleaned'  BY <1>0, <2>1
  <2>7. Placed'  BY <1>0, <2>1
  <2> QED BY <2>2, <2>3, <2>4, <2>5, <2>6, <2>7 DEF ImportInv
<1>4. ASSUME WriteFifo PROVE ImportInv'
  <2>1. /\ pc = "fifo" /\ AnyStep
        /\ \/ game # "down" /\ cmd' = "queued" /\ submits' = submits + 1 /\ pc' \in {"submitted", "ambiguous"}
           \/ UNCHANGED <<cmd, submits>> /\ pc' = "ambiguous"
        /\ UNCHANGED <<token, payload, importJournal, kept, inst, target, pointer, intent, boot, game,
                       save, saves, swap, first, panel, crashes>>
    BY <1>0, <1>4, MoveEffect DEF WriteFifo, Lands, upload, files, runtime, count, fixed, control
  <2>2. ImportTypeOK'  BY <1>0, <2>1 DEF ImportTypeOK, PCs
  <2>3. Journaled'  BY <1>0, <2>1
  <2>4. Commanded'  BY <1>0, <2>1
  <2>5. WorldSound'  BY <1>0, <2>1 DEF RolledBackRestored
  <2>6. Cleaned'  BY <1>0, <2>1
  <2>7. Placed'  BY <1>0, <2>1
  <2> QED BY <2>2, <2>3, <2>4, <2>5, <2>6, <2>7 DEF ImportInv
<1>5. ASSUME SendSave PROVE ImportInv'
  <2>1. /\ pc = "send" /\ AnyStep
        /\ \/ pc' = "sent" /\ save' = "sent" /\ saves' = saves + 1
           \/ pc' = "unsent" /\ UNCHANGED <<save, saves>>
        /\ UNCHANGED <<token, payload, importJournal, kept, inst, target, pointer, intent, boot, game,
                       cmd, submits, swap, first, panel, crashes>>
    BY <1>0, <1>5, MoveEffect DEF SendSave, Lands, upload, files, runtime, count, fixed, control
  <2>2. ImportTypeOK'  BY <1>0, <2>1 DEF ImportTypeOK, PCs
  <2>3. Journaled'  BY <1>0, <2>1
  <2>4. Commanded'  BY <1>0, <2>1
  <2>5. WorldSound'  BY <1>0, <2>1 DEF RolledBackRestored
  <2>6. Cleaned'  BY <1>0, <2>1
  <2>7. Placed'  BY <1>0, <2>1
  <2> QED BY <2>2, <2>3, <2>4, <2>5, <2>6, <2>7 DEF ImportInv
<1>6. ASSUME DropBootstrap PROVE ImportInv'
  <2>1. /\ pc = "unboot" /\ AnyStep
        /\ boot' \in BOOLEAN
        /\ \/ pc' = "complete" /\ boot' = FALSE
           \/ pc' = (IF swap THEN "rollback" ELSE "idle") /\ UNCHANGED boot
        /\ UNCHANGED <<token, payload, importJournal, kept, inst, target, pointer, intent, game, cmd,
                       save, submits, saves, swap, first, panel, crashes>>
    BY <1>0, <1>6, MoveEffect DEF DropBootstrap, OnFiles, ImportTypeOK, Lost, Lands, upload, files, runtime, count, fixed, control
  <2>2. ImportTypeOK'  BY <1>0, <2>1 DEF ImportTypeOK, PCs
  <2>3. Journaled'  BY <1>0, <2>1
  <2>4. Commanded'  BY <1>0, <2>1
  <2>5. WorldSound'  BY <1>0, <2>1 DEF RolledBackRestored
  <2>6. Cleaned'  BY <1>0, <2>1
  <2>7. Placed'  BY <1>0, <2>1
  <2> QED BY <2>2, <2>3, <2>4, <2>5, <2>6, <2>7 DEF ImportInv
<1>7. ASSUME RestoreSave PROVE ImportInv'
  <2>1. /\ pc = "rsave" /\ AnyStep
        /\ \/ pc' = "rsaved" /\ target' = "staged"
           \/ pc' = "rmanual" /\ UNCHANGED target
        /\ UNCHANGED <<token, payload, importJournal, kept, inst, pointer, intent, boot, game, cmd, save,
                       submits, saves, swap, first, panel, crashes>>
    BY <1>0, <1>7, MoveEffect DEF RestoreSave, OnFiles, Lands, upload, files, runtime, count, fixed, control
  <2>2. ImportTypeOK'  BY <1>0, <2>1 DEF ImportTypeOK, PCs
  <2>3. Journaled'  BY <1>0, <2>1
  <2>4. Commanded'  BY <1>0, <2>1
  <2>5. WorldSound'  BY <1>0, <2>1 DEF RolledBackRestored
  <2>6. Cleaned'  BY <1>0, <2>1
  <2>7. Placed'  BY <1>0, <2>1
  <2> QED BY <2>2, <2>3, <2>4, <2>5, <2>6, <2>7 DEF ImportInv
<1>8. ASSUME RestorePointer PROVE ImportInv'
  <2>1. /\ pc = "rpointer" /\ AnyStep
        /\ boot' \in BOOLEAN
        /\ \/ /\ pc' = "rpointed" /\ boot' = FALSE
              /\ pointer' = (IF importJournal.boot # "none" THEN "none" ELSE importJournal.original)
           \/ pc' = "rmanual" /\ boot' = boot
              /\ pointer' \in {pointer, IF importJournal.boot # "none" THEN "none" ELSE importJournal.original}
        /\ UNCHANGED <<token, payload, importJournal, kept, inst, target, intent, game, cmd, save,
                       submits, saves, swap, first, panel, crashes>>
    BY <1>0, <1>8, MoveEffect DEF RestorePointer, OnFiles, ImportTypeOK, Lands, upload, files, runtime, count, fixed, control
  <2>2. ImportTypeOK'  BY <1>0, <2>1 DEF ImportTypeOK, PCs, Journals
  <2>3. Journaled'  BY <1>0, <2>1
  <2>4. Commanded'  BY <1>0, <2>1
  <2>5. WorldSound'  BY <1>0, <2>1 DEF RolledBackRestored
  <2>6. Cleaned'  BY <1>0, <2>1
  <2>7. Placed'  BY <1>0, <2>1
  <2> QED BY <2>2, <2>3, <2>4, <2>5, <2>6, <2>7 DEF ImportInv
<1> QED BY <1>1, <1>2, <1>3, <1>4, <1>5, <1>6, <1>7, <1>8

\* Junimo.
LEMMA Plays ==
    ASSUME ImportInv, Loads \/ Imports \/ Finalizes \/ SavesNow \/ Exits
    PROVE  ImportInv'
<1> USE DEF AnyStep, WorldSound, Placed, Exists, Ended, Journaled, Cleaned, Commanded, NothingDone, Proven,
    ImportTypeOK
<1>0. /\ ImportTypeOK /\ Journaled /\ Commanded /\ WorldSound /\ Cleaned /\ Placed
      /\ importJournal \in Journals /\ token \in Tokens
  BY DEF ImportInv, Tokens
<1> USE DEF Early, Confirms, Durables, Unended, Joining, BootPlaces, Raising, Phasing, Activating, Lasting, UndoSteps, Cleaning, Working
<1>1. ASSUME Loads PROVE ImportInv'
  <2>1. /\ AnyStep
        /\ pc' = pc
        /\ game = "loading" /\ game' \in {"orig", "boot", "target"}
        /\ row' = row
        /\ UNCHANGED <<token, payload, importJournal, kept, inst, target, pointer, intent, boot, cmd,
                       save, submits, saves, swap, first, panel, crashes>>
    BY <1>0, <1>1, ImportAssumption DEF Loads, Alone, Up, Lands, upload, files, runtime, count, fixed, control
  <2>2. ImportTypeOK'  BY <1>0, <2>1
  <2>3. Journaled'  BY <1>0, <2>1
  <2>4. Commanded'  BY <1>0, <2>1
  <2>5. WorldSound'  BY <1>0, <2>1 DEF RolledBackRestored
  <2>6. Cleaned'  BY <1>0, <2>1
  <2>7. Placed'  BY <1>0, <2>1
  <2> QED BY <2>2, <2>3, <2>4, <2>5, <2>6, <2>7 DEF ImportInv
<1>2. ASSUME Imports PROVE ImportInv'
  <2>1. /\ AnyStep
        /\ pc' = pc
        /\ game \notin {"down", "loading"} /\ cmd # "none" /\ row' = row
        /\ intent' \in BOOLEAN
        /\ \/ cmd = "queued" /\ swap /\ cmd' = "converted" /\ target' = "converted" /\ UNCHANGED <<pointer, intent, game>>
           \/ cmd = "converted" /\ cmd' = "pending" /\ intent' = TRUE /\ UNCHANGED <<pointer, target, game>>
           \/ cmd \in {"pending", "queued"} /\ cmd' = "moved" /\ pointer' = "target" /\ UNCHANGED <<target, intent, game>>
           \/ cmd' = "none" /\ game' \in {game, "loading"} /\ UNCHANGED <<target, intent, pointer>>
        /\ UNCHANGED <<token, payload, importJournal, kept, inst, boot, save, submits, saves, swap, first,
                       panel, crashes>>
    BY <1>0, <1>2, ImportAssumption DEF Imports, Alone, Up, Lands, upload, files, runtime, count, fixed, control
  <2>2. ImportTypeOK'  BY <1>0, <2>1
  <2>3. Journaled'  BY <1>0, <2>1
  <2>4. Commanded'  BY <1>0, <2>1
  <2>5. WorldSound'  BY <1>0, <2>1 DEF RolledBackRestored
  <2>6. Cleaned'  BY <1>0, <2>1
  <2>7. Placed'  BY <1>0, <2>1
  <2> QED BY <2>2, <2>3, <2>4, <2>5, <2>6, <2>7 DEF ImportInv
<1>3. ASSUME Finalizes PROVE ImportInv'
  <2>1. /\ AnyStep
        /\ pc' = pc
        /\ game = "target" /\ intent' = FALSE /\ intent' \in BOOLEAN /\ row' = row
        /\ UNCHANGED <<token, payload, importJournal, kept, inst, target, pointer, boot, game, cmd, save,
                       submits, saves, swap, first, panel, crashes>>
    BY <1>0, <1>3, ImportAssumption DEF Finalizes, Alone, Up, runtime, Lands, upload, files, runtime, count, fixed,
       control
  <2>2. ImportTypeOK'  BY <1>0, <2>1
  <2>3. Journaled'  BY <1>0, <2>1
  <2>4. Commanded'  BY <1>0, <2>1
  <2>5. WorldSound'  BY <1>0, <2>1 DEF RolledBackRestored
  <2>6. Cleaned'  BY <1>0, <2>1
  <2>7. Placed'  BY <1>0, <2>1
  <2> QED BY <2>2, <2>3, <2>4, <2>5, <2>6, <2>7 DEF ImportInv
<1>4. ASSUME SavesNow PROVE ImportInv'
  <2>1. /\ AnyStep
        /\ pc' = pc
        /\ save = "sent" /\ game = "target" /\ row' = row
        /\ \/ save' = "done" /\ target' = "saved"
           \/ save' = "failed" /\ UNCHANGED target
        /\ UNCHANGED <<token, payload, importJournal, kept, inst, pointer, intent, boot, game, cmd,
                       submits, saves, swap, first, panel, crashes>>
    BY <1>0, <1>4, ImportAssumption DEF SavesNow, Alone, Up, Lands, upload, files, runtime, count, fixed, control
  <2>2. ImportTypeOK'  BY <1>0, <2>1
  <2>3. Journaled'  BY <1>0, <2>1
  <2>4. Commanded'  BY <1>0, <2>1
  <2>5. WorldSound'  BY <1>0, <2>1 DEF RolledBackRestored
  <2>6. Cleaned'  BY <1>0, <2>1
  <2>7. Placed'  BY <1>0, <2>1
  <2> QED BY <2>2, <2>3, <2>4, <2>5, <2>6, <2>7 DEF ImportInv
<1>5. ASSUME Exits PROVE ImportInv'
  <2>1. /\ AnyStep
        /\ pc' = pc
        /\ game # "down" /\ game' = "down" /\ cmd' = "none" /\ row' = row
        /\ UNCHANGED <<token, payload, importJournal, kept, inst, target, pointer, intent, boot, save,
                       submits, saves, swap, first, panel, crashes>>
    BY <1>0, <1>5, ImportAssumption DEF Exits, Alone, Up, Lands, upload, files, runtime, count, fixed, control
  <2>2. ImportTypeOK'  BY <1>0, <2>1
  <2>3. Journaled'  BY <1>0, <2>1
  <2>4. Commanded'  BY <1>0, <2>1
  <2>5. WorldSound'  BY <1>0, <2>1 DEF RolledBackRestored
  <2>6. Cleaned'  BY <1>0, <2>1
  <2>7. Placed'  BY <1>0, <2>1
  <2> QED BY <2>2, <2>3, <2>4, <2>5, <2>6, <2>7 DEF ImportInv
<1> QED BY <1>1, <1>2, <1>3, <1>4, <1>5

\* The row of the job begins, ends and is forgotten.
LEMMA Accounts ==
    ASSUME ImportInv, StartJob \/ Succeed \/ RemoveToken
    PROVE  ImportInv'
<1> USE DEF AnyStep, WorldSound, Placed, Exists, Ended, ImportTypeOK, Tokens, Journaled, Cleaned, Commanded,
    NothingDone, Proven, Lands, upload, files, runtime, count, fixed, control
<1>0. /\ ImportTypeOK /\ Journaled /\ Commanded /\ WorldSound /\ Cleaned /\ Placed
      /\ importJournal \in Journals /\ token \in Tokens
  BY DEF ImportInv
<1> USE DEF Early, Confirms, Durables, Unended, Joining, BootPlaces, Raising, Phasing, Activating, Lasting, UndoSteps, Cleaning, Working
<1>1. ASSUME StartJob PROVE ImportInv'
  <2>1. /\ pc = "start"
        /\ row' \in {row, "active", "failed", "succeeded", "none"} /\ work' \in {work, "none", "import", "recovery"}
        /\ faults' \in 0..ImportFaults
        /\ \/ pc' = "bind" /\ row = "none" /\ row' = "active"
           \/ pc' = "refused" /\ row' \in {row, "failed"}
        /\ UNCHANGED <<token, payload, importJournal, kept, inst, target, pointer, intent, boot, game,
                       cmd, save, submits, saves, swap, first, panel, crashes>>
    BY <1>0, <1>1, MoveEffect DEF StartJob
  <2>2. ImportTypeOK'  BY <1>0, <2>1 DEF PCs
  <2>3. Journaled'  BY <1>0, <2>1
  <2>4. Commanded'  BY <1>0, <2>1
  <2>5. WorldSound'  BY <1>0, <2>1 DEF RolledBackRestored
  <2>6. Cleaned'  BY <1>0, <2>1
  <2>7. Placed'  BY <1>0, <2>1
  <2> QED BY <2>2, <2>3, <2>4, <2>5, <2>6, <2>7 DEF ImportInv
<1>2. ASSUME Succeed PROVE ImportInv'
  <2>1. /\ pc = "succeed"
        /\ row' \in {row, "active", "failed", "succeeded", "none"} /\ work' \in {work, "none", "import", "recovery"}
        /\ faults' \in 0..ImportFaults
        /\ pc' = "idle" /\ row' \in {row, "succeeded"}
        /\ token' \in Tokens /\ token'.receipt = token.receipt
        /\ token'.status \in {token.status, "succeeded"}
        /\ UNCHANGED <<payload, importJournal, kept, inst, target, pointer, intent, boot, game, cmd, save,
                       submits, saves, swap, first, panel, crashes>>
    BY <1>0, <1>2, ImportAssumption DEF Succeed
  <2>2. ImportTypeOK'  BY <1>0, <2>1 DEF PCs
  <2>3. Journaled'  BY <1>0, <2>1
  <2>4. Commanded'  BY <1>0, <2>1
  <2>5. WorldSound'  BY <1>0, <2>1 DEF RolledBackRestored
  <2>6. Cleaned'  BY <1>0, <2>1
  <2>7. Placed'  BY <1>0, <2>1
  <2> QED BY <2>2, <2>3, <2>4, <2>5, <2>6, <2>7 DEF ImportInv
<1>3. ASSUME RemoveToken PROVE ImportInv'
  <2>1. /\ pc = "untoken"
        /\ row' \in {row, "active", "failed", "succeeded", "none"} /\ work' \in {work, "none", "import", "recovery"}
        /\ faults' \in 0..ImportFaults
        /\ pc' = "idle"
        /\ token' \in Tokens
        /\ token'.receipt => token'.status = "owned" /\ importJournal.stage \in {"absent", "canceled"}
        /\ UNCHANGED <<payload, importJournal, kept, inst, target, pointer, intent, boot, game, cmd, save,
                       submits, saves, swap, first, panel, crashes>>
    <3>1. pc = "untoken"  BY <1>0, <1>3, ImportAssumption DEF RemoveToken, Fail, Goto, NoToken
    <3>2. row' \in {row, "active", "failed", "succeeded", "none"} /\ work' \in {work, "none", "import", "recovery"}
      BY <1>0, <1>3, ImportAssumption DEF RemoveToken, Fail, Goto, NoToken
    <3>3. faults' \in 0..ImportFaults
      BY <1>0, <1>3, ImportAssumption DEF RemoveToken, Fail, Goto, NoToken
    <3>4. pc' = "idle"  BY <1>0, <1>3, ImportAssumption DEF RemoveToken, Fail, Goto, NoToken
    <3>5. token' \in Tokens
      <4>1. token' = NoToken \/ token' = token  BY <1>3 DEF RemoveToken
      <4>2. NoToken \in Tokens  BY DEF NoToken
      <4> QED BY <1>0, <4>1, <4>2
    <3>6. token'.receipt => token'.status = "owned" /\ importJournal.stage \in {"absent", "canceled"}
      BY <1>0, <1>3, ImportAssumption DEF RemoveToken, Fail, Goto, NoToken
    <3>7. UNCHANGED <<payload, importJournal, kept, inst, target, pointer, intent, boot, game, cmd, save,
                       submits, saves, swap, first, panel, crashes>>
      BY <1>0, <1>3, ImportAssumption DEF RemoveToken, Fail, Goto, NoToken
    <3> QED BY <3>1, <3>2, <3>3, <3>4, <3>5, <3>6, <3>7
  <2>2. ImportTypeOK'  BY <1>0, <2>1 DEF PCs
  <2>3. Journaled'  BY <1>0, <2>1
  <2>4. Commanded'  BY <1>0, <2>1
  <2>5. WorldSound'  BY <1>0, <2>1 DEF RolledBackRestored
  <2>6. Cleaned'  BY <1>0, <2>1
  <2>7. Placed'  BY <1>0, <2>1
  <2> QED BY <2>2, <2>3, <2>4, <2>5, <2>6, <2>7 DEF ImportInv
<1> QED BY <1>1, <1>2, <1>3

\* The journal of a new operation, and none.
LEMMA FreshJournal ==
    ASSUME ImportTypeOK, pointer \in {"none", "orig", "boot"}
    PROVE  /\ NewJournal \in Journals
           /\ NewJournal.stage = "validated" /\ NewJournal.original = pointer /\ NewJournal.owned = FALSE /\ NewJournal.bind = "no"
           /\ NewJournal.boot = "none" /\ NewJournal.maint = FALSE /\ NewJournal.mrec = "none" /\ NewJournal.manual = FALSE
           /\ NewJournal.fifo = FALSE /\ NewJournal.submitted = FALSE /\ NewJournal.confirmed = FALSE /\ NewJournal.outcome = "none"
           /\ NewJournal.restarted = FALSE /\ NewJournal.command = FALSE /\ NewJournal.unsent = FALSE /\ NewJournal.rollback = "none"
           /\ NewJournal.clean = "none"
<1>1. {ImportStages[i] : i \in 1..11} = Unended \cup {"completed"}  BY StageNames
<1> QED BY <1>1 DEF NewJournal, NoJournal, Journals, Unended, Early
LEMMA NoJournalFacts ==
    /\ NoJournal \in Journals
    /\ NoJournal.stage = "absent" /\ NoJournal.original = "none" /\ NoJournal.owned = FALSE /\ NoJournal.bind = "no"
    /\ NoJournal.boot = "none" /\ NoJournal.maint = FALSE /\ NoJournal.mrec = "none" /\ NoJournal.manual = FALSE
    /\ NoJournal.fifo = FALSE /\ NoJournal.submitted = FALSE /\ NoJournal.confirmed = FALSE /\ NoJournal.outcome = "none"
    /\ NoJournal.restarted = FALSE /\ NoJournal.command = FALSE /\ NoJournal.unsent = FALSE /\ NoJournal.rollback = "none"
    /\ NoJournal.clean = "none"
BY DEF NoJournal, Journals

\* The gates of an import.
LEMMA Admitted ==
    ASSUME ImportInv, AdmitImport
    PROVE  ImportInv'
<1> USE DEF AnyStep, Exists, WorldSound, Placed, Ended, Journaled, Cleaned, NothingDone, Commanded, Proven
<1>0. /\ ImportTypeOK /\ Journaled /\ Commanded /\ WorldSound /\ Cleaned /\ Placed
      /\ importJournal \in Journals /\ token \in Tokens
  BY DEF ImportInv, ImportTypeOK, Tokens
<1> USE DEF Early, Confirms, Durables, Unended, Joining, BootPlaces, Raising, Phasing, Activating, Lasting, UndoSteps, Cleaning, Working
<1>1. ASSUME AdmitImport, Exists PROVE ImportInv'
  <2>1. /\ pc = "admit" /\ AnyStep
        /\ Exists /\ pc' \in {"start", "move", "refused"}
        /\ UNCHANGED <<token, payload, importJournal, kept, inst, target, pointer, intent, boot, game,
                       cmd, save, submits, saves, swap, first, panel, crashes>>
    BY <1>0, <1>1, MoveEffect DEF AdmitImport, Lands, upload, files, runtime, count, fixed, control
  <2>2. ImportTypeOK'  BY <1>0, <2>1 DEF ImportTypeOK, PCs
  <2>3. Journaled'  BY <1>0, <2>1
  <2>4. Commanded'  BY <1>0, <2>1
  <2>5. WorldSound'  BY <1>0, <2>1 DEF RolledBackRestored
  <2>6. Cleaned'  BY <1>0, <2>1
  <2>7. Placed'  BY <1>0, <2>1
  <2> QED BY <2>2, <2>3, <2>4, <2>5, <2>6, <2>7 DEF ImportInv
<1>2. ASSUME AdmitImport, ~Exists PROVE ImportInv'
  <2>0. /\ pointer \in {"none", "orig", "boot"} /\ pointer = first
        /\ NewJournal \in Journals
        /\ NewJournal.stage = "validated" /\ NewJournal.original = pointer /\ NewJournal.owned = FALSE /\ NewJournal.bind = "no"
        /\ NewJournal.boot = "none" /\ NewJournal.maint = FALSE /\ NewJournal.mrec = "none" /\ NewJournal.manual = FALSE
        /\ NewJournal.fifo = FALSE /\ NewJournal.submitted = FALSE /\ NewJournal.confirmed = FALSE /\ NewJournal.outcome = "none"
        /\ NewJournal.restarted = FALSE /\ NewJournal.command = FALSE /\ NewJournal.unsent = FALSE /\ NewJournal.rollback = "none"
        /\ NewJournal.clean = "none"
    <3>1. pointer = first /\ pointer \in {"none", "orig", "boot"}
      BY <1>0, <1>2 DEF ImportTypeOK
    <3> QED BY <1>0, <3>1, FreshJournal
  <2>1. /\ pc = "admit" /\ AnyStep
        /\ ~Exists /\ importJournal.stage = "absent" /\ submits' = 0 /\ saves' = 0 /\ save' = "none"
        /\ \/ pc' = "move" /\ importJournal' = NewJournal
           \/ pc' = "refused" /\ importJournal' \in {importJournal, NewJournal}
        /\ UNCHANGED <<token, payload, kept, inst, target, pointer, intent, boot, game, cmd, swap, first,
                       panel, crashes>>
    BY <1>0, <1>2, MoveEffect, JournalWritten DEF AdmitImport, Lands, upload, files, runtime, count, fixed, control
  <2>2. ImportTypeOK'  BY <1>0, <2>0, <2>1 DEF ImportTypeOK, PCs
  <2>3. Journaled'  BY <1>0, <2>0, <2>1
  <2>4. Commanded'  BY <1>0, <2>0, <2>1
  <2>5. WorldSound'  BY <1>0, <2>0, <2>1 DEF RolledBackRestored
  <2>6. Cleaned'  BY <1>0, <2>0, <2>1
  <2>7. Placed'  BY <1>0, <2>0, <2>1
  <2> QED BY <2>2, <2>3, <2>4, <2>5, <2>6, <2>7 DEF ImportInv
<1> QED BY <1>1, <1>2

\* A cleanup is planned.
LEMMA PlanStep ==
    ASSUME ImportInv, PlanCleanup
    PROVE  ImportInv'
<1> USE DEF Exists, AnyStep, WorldSound, Placed, Journaled, Ended, Cleaned, Commanded, Proven, NothingDone
<1>0. /\ ImportTypeOK /\ Journaled /\ Commanded /\ WorldSound /\ Cleaned /\ Placed
      /\ importJournal \in Journals /\ token \in Tokens
  BY DEF ImportInv, ImportTypeOK, Tokens
<1> USE DEF Early, Confirms, Durables, Unended, Joining, BootPlaces, Raising, Phasing, Activating, Lasting, UndoSteps, Cleaning, Working
<1>1. ASSUME game = "down", inst # "running", importJournal.clean = "none", Unsubmitted, Planned, Record("clean", [importJournal EXCEPT !.clean = "boot"], "clean", "idle") PROVE ImportInv'
  <2> DEFINE j == [importJournal EXCEPT !.clean = "boot"]
  <2>1. /\ j \in Journals
        /\ j.stage = importJournal.stage /\ j.original = importJournal.original /\ j.owned = importJournal.owned
        /\ j.bind = importJournal.bind /\ j.boot = importJournal.boot /\ j.maint = importJournal.maint
        /\ j.mrec = importJournal.mrec /\ j.manual = importJournal.manual /\ j.fifo = importJournal.fifo
        /\ j.submitted = importJournal.submitted /\ j.confirmed = importJournal.confirmed /\ j.outcome = importJournal.outcome
        /\ j.restarted = importJournal.restarted /\ j.command = importJournal.command /\ j.unsent = importJournal.unsent
        /\ j.rollback = importJournal.rollback /\ j.clean = "boot"
    <3>1. importJournal \in Journals  BY <1>0
    <3> QED BY <3>1 DEF Journals
  <2> HIDE DEF j
  <2>2. /\ pc = "clean" /\ AnyStep
        /\ game = "down" /\ inst # "running" /\ importJournal.clean = "none" /\ Unsubmitted /\ Planned
        /\ \/ pc' = "clean" /\ importJournal' = j
           \/ pc' = "idle" /\ importJournal' \in {importJournal, j}
        /\ UNCHANGED <<token, payload, kept, inst, target, pointer, intent, boot, game, cmd, save,
                       submits, saves, swap, first, panel, crashes>>
    BY <1>0, <1>1, JournalEffect DEF Lands, j
  <2>3. ImportTypeOK'  BY <1>0, <2>1, <2>2 DEF ImportTypeOK, PCs
  <2>4. Journaled'  BY <1>0, <2>1, <2>2
  <2>5. Commanded'  BY <1>0, <2>1, <2>2
  <2>6. WorldSound'  BY <1>0, <2>1, <2>2 DEF RolledBackRestored
  <2>20. /\ ~importJournal.maint /\ importJournal.mrec \in {"none", "restored"} /\ ~importJournal.confirmed
         /\ importJournal.fifo => Proven
    BY <2>2 DEF Unsubmitted
  <2>21. importJournal.stage \in Unended /\ token.status = "owned"
    BY <1>0, <2>2, <2>20, StageNames DEF Journals
  <2>22. /\ importJournal.stage = "validated" => target = "none"
         /\ importJournal.boot # "created" => ~boot /\ pointer = first
    BY <1>0, <2>2, <2>21, Reached DEF Planned
  <2>23. inst = "orig" /\ ~intent
    <3>1. inst = "orig"  BY <1>0, <2>2, <2>20 DEF ImportTypeOK
    <3>2. ~intent  BY <1>0, <2>20, <2>21
    <3> QED BY <3>1, <3>2
  <2>7. Cleaned'  BY <1>0, <2>1, <2>2, <2>20, <2>21, <2>22, <2>23
  <2>8. Placed'  BY <1>0, <2>1, <2>2
  <2> QED BY <2>3, <2>4, <2>5, <2>6, <2>7, <2>8 DEF ImportInv
<1>2. ASSUME importJournal.stage # "canceled" /\ pc = "clean" /\ Ok("idle") /\ UNCHANGED <<upload, importJournal, kept, inst, files, runtime, count, fixed>> PROVE ImportInv'
  <2>1. /\ pc = "clean" /\ AnyStep
        /\ pc' = "idle"
        /\ UNCHANGED <<token, payload, importJournal, kept, inst, target, pointer, intent, boot, game,
                       cmd, save, submits, saves, swap, first, panel, crashes>>
    BY <1>0, <1>2, Passed DEF Lands, upload, files, runtime, count, fixed, control
  <2>2. ImportTypeOK'  BY <1>0, <2>1 DEF ImportTypeOK, PCs
  <2>3. Journaled'  BY <1>0, <2>1
  <2>4. Commanded'  BY <1>0, <2>1
  <2>5. WorldSound'  BY <1>0, <2>1 DEF RolledBackRestored
  <2>6. Cleaned'  BY <1>0, <2>1
  <2>7. Placed'  BY <1>0, <2>1
  <2> QED BY <2>2, <2>3, <2>4, <2>5, <2>6, <2>7 DEF ImportInv
<1> QED BY <1>1, <1>2 DEF PlanCleanup

\* What an import made is removed.
LEMMA Removes ==
    ASSUME ImportInv, Remove
    PROVE  ImportInv'
<1> USE DEF AnyStep, Placed, Cleaned, Exists, Journaled, WorldSound, Ended
<1>0. /\ ImportTypeOK /\ Journaled /\ Commanded /\ WorldSound /\ Cleaned /\ Placed
      /\ importJournal \in Journals /\ token \in Tokens
  BY DEF ImportInv, ImportTypeOK, Tokens
<1> USE DEF Early, Confirms, Durables, Unended, Joining, BootPlaces, Raising, Phasing, Activating, Lasting, UndoSteps, Cleaning, Working
<1>1. ASSUME Remove PROVE ImportInv'
  <2>1. /\ pc = "clean" /\ AnyStep
        /\ boot' \in BOOLEAN /\ target' \in {target, "none"}
        /\ pc' \in {"removed", "idle"} /\ game = "down" /\ Unsubmitted
        /\ \/ /\ importJournal.clean = "boot" /\ boot' = FALSE
              /\ pointer' = (IF importJournal.boot = "created" THEN "none" ELSE pointer)
              /\ UNCHANGED <<target, payload>>
           \/ /\ importJournal.clean = "staged" /\ target' = (IF AtLeast("staged") THEN "none" ELSE target)
              /\ UNCHANGED <<boot, pointer, payload>>
           \/ /\ importJournal.clean = "source" /\ payload' = "gone"
              /\ UNCHANGED <<boot, pointer, target>>
        /\ UNCHANGED <<token, importJournal, kept, inst, intent, game, cmd, save, submits, saves, swap,
                       first, panel, crashes>>
    BY <1>0, <1>1, MoveEffect DEF Remove, ImportTypeOK, Lands, upload, files, runtime, count, fixed, control
  <2>2. ImportTypeOK'  BY <1>0, <2>1 DEF ImportTypeOK, PCs
  <2>3. Journaled'  BY <1>0, <2>1
  <2>4. Commanded'  BY <1>0, <2>1 DEF Commanded, NothingDone
  <2>5. WorldSound'  BY <1>0, <2>1 DEF Commanded, Proven, RolledBackRestored, NothingDone
  <2>20. importJournal.stage \in Unended  BY <1>0, <2>1, StageNames DEF Journals
  <2>21. target' = "none" \/ target' = target  BY <2>1
  <2>22. importJournal.clean = "staged" => target' = "none"  BY <1>0, <2>1, <2>20, Reached
  <2>6. Cleaned'  BY <1>0, <2>1, <2>20, <2>21, <2>22 DEF Proven
  <2>7. Placed'  BY <1>0, <2>1 DEF Commanded, Proven, NothingDone
  <2> QED BY <2>2, <2>3, <2>4, <2>5, <2>6, <2>7 DEF ImportInv
<1> QED BY <1>1

\* A cleanup goes on.
LEMMA Cleans ==
    ASSUME ImportInv, Removed
    PROVE  ImportInv'
<1> USE DEF AnyStep, WorldSound, Placed, Exists, Ended, Journaled, Cleaned, Commanded, NothingDone, Proven
<1>0. /\ ImportTypeOK /\ Journaled /\ Commanded /\ WorldSound /\ Cleaned /\ Placed
      /\ importJournal \in Journals /\ token \in Tokens
  BY DEF ImportInv, ImportTypeOK, Tokens
<1> USE DEF Early, Confirms, Durables, Unended, Joining, BootPlaces, Raising, Phasing, Activating, Lasting, UndoSteps, Cleaning, Working
<1>1. ASSUME Removed, importJournal.clean = "boot" PROVE ImportInv'
  <2> DEFINE j == [importJournal EXCEPT !.clean = "staged", !.stage = importJournal.stage]
  <2>1. /\ j \in Journals
        /\ j.stage = importJournal.stage /\ j.original = importJournal.original /\ j.owned = importJournal.owned
        /\ j.bind = importJournal.bind /\ j.boot = importJournal.boot /\ j.maint = importJournal.maint
        /\ j.mrec = importJournal.mrec /\ j.manual = importJournal.manual /\ j.fifo = importJournal.fifo
        /\ j.submitted = importJournal.submitted /\ j.confirmed = importJournal.confirmed /\ j.outcome = importJournal.outcome
        /\ j.restarted = importJournal.restarted /\ j.command = importJournal.command /\ j.unsent = importJournal.unsent
        /\ j.rollback = importJournal.rollback /\ j.clean = "staged"
    <3>1. importJournal \in Journals  BY <1>0
    <3>3. /\ j.stage = importJournal.stage /\ j.original = importJournal.original /\ j.owned = importJournal.owned
          /\ j.bind = importJournal.bind /\ j.boot = importJournal.boot /\ j.maint = importJournal.maint
          /\ j.mrec = importJournal.mrec /\ j.manual = importJournal.manual /\ j.fifo = importJournal.fifo
          /\ j.submitted = importJournal.submitted /\ j.confirmed = importJournal.confirmed /\ j.outcome = importJournal.outcome
          /\ j.restarted = importJournal.restarted /\ j.command = importJournal.command /\ j.unsent = importJournal.unsent
          /\ j.rollback = importJournal.rollback /\ j.clean = "staged"
      BY <3>1 DEF Journals
    <3>4. j \in Journals  BY <3>1 DEF Journals
    <3> QED BY <3>3, <3>4
  <2> HIDE DEF j
  <2>2. /\ pc = "removed" /\ AnyStep
        /\ importJournal.clean = "boot"
        /\ \/ pc' = "clean" /\ importJournal' = j
           \/ pc' = "idle" /\ importJournal' \in {importJournal, j}
        /\ UNCHANGED <<token, payload, kept, inst, target, pointer, intent, boot, game, cmd, save,
                       submits, saves, swap, first, panel, crashes>>
    BY <1>0, <1>1, JournalWritten DEF Removed, upload, files, runtime, count, fixed, Lands, j
  <2>3. ImportTypeOK'  BY <1>0, <2>1, <2>2 DEF ImportTypeOK, PCs
  <2>4. Journaled'  BY <1>0, <2>1, <2>2
  <2>5. Commanded'  BY <1>0, <2>1, <2>2
  <2>6. WorldSound'  BY <1>0, <2>1, <2>2 DEF RolledBackRestored
  <2>7. Cleaned'  BY <1>0, <2>1, <2>2
  <2>8. Placed'  BY <1>0, <2>1, <2>2
  <2> QED BY <2>3, <2>4, <2>5, <2>6, <2>7, <2>8 DEF ImportInv
<1>2. ASSUME Removed, importJournal.clean = "staged" PROVE ImportInv'
  <2> DEFINE j == [importJournal EXCEPT !.clean = "source", !.stage = importJournal.stage]
  <2>1. /\ j \in Journals
        /\ j.stage = importJournal.stage /\ j.original = importJournal.original /\ j.owned = importJournal.owned
        /\ j.bind = importJournal.bind /\ j.boot = importJournal.boot /\ j.maint = importJournal.maint
        /\ j.mrec = importJournal.mrec /\ j.manual = importJournal.manual /\ j.fifo = importJournal.fifo
        /\ j.submitted = importJournal.submitted /\ j.confirmed = importJournal.confirmed /\ j.outcome = importJournal.outcome
        /\ j.restarted = importJournal.restarted /\ j.command = importJournal.command /\ j.unsent = importJournal.unsent
        /\ j.rollback = importJournal.rollback /\ j.clean = "source"
    <3>1. importJournal \in Journals  BY <1>0
    <3>3. /\ j.stage = importJournal.stage /\ j.original = importJournal.original /\ j.owned = importJournal.owned
          /\ j.bind = importJournal.bind /\ j.boot = importJournal.boot /\ j.maint = importJournal.maint
          /\ j.mrec = importJournal.mrec /\ j.manual = importJournal.manual /\ j.fifo = importJournal.fifo
          /\ j.submitted = importJournal.submitted /\ j.confirmed = importJournal.confirmed /\ j.outcome = importJournal.outcome
          /\ j.restarted = importJournal.restarted /\ j.command = importJournal.command /\ j.unsent = importJournal.unsent
          /\ j.rollback = importJournal.rollback /\ j.clean = "source"
      BY <3>1 DEF Journals
    <3>4. j \in Journals  BY <3>1 DEF Journals
    <3> QED BY <3>3, <3>4
  <2> HIDE DEF j
  <2>2. /\ pc = "removed" /\ AnyStep
        /\ importJournal.clean = "staged"
        /\ \/ pc' = "clean" /\ importJournal' = j
           \/ pc' = "idle" /\ importJournal' \in {importJournal, j}
        /\ UNCHANGED <<token, payload, kept, inst, target, pointer, intent, boot, game, cmd, save,
                       submits, saves, swap, first, panel, crashes>>
    BY <1>0, <1>2, JournalWritten DEF Removed, upload, files, runtime, count, fixed, Lands, j
  <2>3. ImportTypeOK'  BY <1>0, <2>1, <2>2 DEF ImportTypeOK, PCs
  <2>4. Journaled'  BY <1>0, <2>1, <2>2
  <2>5. Commanded'  BY <1>0, <2>1, <2>2
  <2>6. WorldSound'  BY <1>0, <2>1, <2>2 DEF RolledBackRestored
  <2>7. Cleaned'  BY <1>0, <2>1, <2>2
  <2>8. Placed'  BY <1>0, <2>1, <2>2
  <2> QED BY <2>3, <2>4, <2>5, <2>6, <2>7, <2>8 DEF ImportInv
<1>3. ASSUME Removed, importJournal.clean = "source" PROVE ImportInv'
  <2> DEFINE j == [importJournal EXCEPT !.clean = "done", !.stage = "canceled"]
  <2>1. /\ j \in Journals
        /\ j.stage = "canceled" /\ j.original = importJournal.original /\ j.owned = importJournal.owned
        /\ j.bind = importJournal.bind /\ j.boot = importJournal.boot /\ j.maint = importJournal.maint
        /\ j.mrec = importJournal.mrec /\ j.manual = importJournal.manual /\ j.fifo = importJournal.fifo
        /\ j.submitted = importJournal.submitted /\ j.confirmed = importJournal.confirmed /\ j.outcome = importJournal.outcome
        /\ j.restarted = importJournal.restarted /\ j.command = importJournal.command /\ j.unsent = importJournal.unsent
        /\ j.rollback = importJournal.rollback /\ j.clean = "done"
    <3>1. importJournal \in Journals  BY <1>0
    <3>2. "canceled" \in {"absent", "canceled", "rolled_back"} \cup {ImportStages[i] : i \in 1..11}
      BY <3>1, StageNames DEF Journals
    <3>3. /\ j.stage = "canceled" /\ j.original = importJournal.original /\ j.owned = importJournal.owned
          /\ j.bind = importJournal.bind /\ j.boot = importJournal.boot /\ j.maint = importJournal.maint
          /\ j.mrec = importJournal.mrec /\ j.manual = importJournal.manual /\ j.fifo = importJournal.fifo
          /\ j.submitted = importJournal.submitted /\ j.confirmed = importJournal.confirmed /\ j.outcome = importJournal.outcome
          /\ j.restarted = importJournal.restarted /\ j.command = importJournal.command /\ j.unsent = importJournal.unsent
          /\ j.rollback = importJournal.rollback /\ j.clean = "done"
      BY <3>1 DEF Journals
    <3>4. j \in Journals  BY <3>1, <3>2 DEF Journals
    <3> QED BY <3>3, <3>4
  <2> HIDE DEF j
  <2>2. /\ pc = "removed" /\ AnyStep
        /\ importJournal.clean = "source"
        /\ \/ pc' = "clean" /\ importJournal' = j
           \/ pc' = "idle" /\ importJournal' \in {importJournal, j}
        /\ UNCHANGED <<token, payload, kept, inst, target, pointer, intent, boot, game, cmd, save,
                       submits, saves, swap, first, panel, crashes>>
    BY <1>0, <1>3, JournalWritten DEF Removed, upload, files, runtime, count, fixed, Lands, j
  <2>3. ImportTypeOK'  BY <1>0, <2>1, <2>2 DEF ImportTypeOK, PCs
  <2>4. Journaled'  BY <1>0, <2>1, <2>2
  <2>5. Commanded'  BY <1>0, <2>1, <2>2
  <2>6. WorldSound'  BY <1>0, <2>1, <2>2 DEF RolledBackRestored
  <2>7. Cleaned'  BY <1>0, <2>1, <2>2
  <2>8. Placed'  BY <1>0, <2>1, <2>2
  <2> QED BY <2>3, <2>4, <2>5, <2>6, <2>7, <2>8 DEF ImportInv
<1> QED BY <1>1, <1>2, <1>3 DEF Removed

\* The receipt of a cleanup.
LEMMA ReceiptStep ==
    ASSUME ImportInv, Receipt
    PROVE  ImportInv'
<1> USE DEF AnyStep, WorldSound, Placed, Exists, Ended, Tokens, Receipt, Serving, Journaled, Cleaned, Lands, upload,
    files, runtime, count, fixed, control, Commanded, NothingDone, Proven
<1>0. /\ ImportTypeOK /\ Journaled /\ Commanded /\ WorldSound /\ Cleaned /\ Placed
      /\ importJournal \in Journals /\ token \in Tokens
  BY DEF ImportInv, ImportTypeOK
<1> USE DEF Early, Confirms, Durables, Unended, Joining, BootPlaces, Raising, Phasing, Activating, Lasting, UndoSteps, Cleaning, Working
<1>1. ASSUME pc = "clean", Receipt PROVE ImportInv'
  <2>1. /\ pc = "clean" /\ AnyStep
        /\ importJournal.stage = "canceled" /\ pc' \in {"finalize", "idle"}
        /\ token' \in Tokens /\ token'.status = token.status
        /\ pc' = "finalize" => token'.receipt = TRUE
        /\ UNCHANGED <<payload, importJournal, kept, inst, target, pointer, intent, boot, game, cmd, save,
                       submits, saves, swap, first, panel, crashes>>
    <3>1. pc = "clean"  BY <1>0, <1>1, MoveEffect
    <3>2. AnyStep  BY <1>0, <1>1, MoveEffect
    <3>3. importJournal.stage = "canceled" /\ pc' \in {"finalize", "idle"}
      BY <1>0, <1>1, MoveEffect
    <3>4. token' \in Tokens /\ token'.status = token.status  BY <1>0, <1>1, MoveEffect
    <3>5. pc' = "finalize" => token'.receipt = TRUE  BY <1>0, <1>1, MoveEffect
    <3>6. UNCHANGED <<payload, importJournal, kept, inst, target, pointer, intent, boot, game, cmd, save,
                       submits, saves, swap, first, panel, crashes>>
      BY <1>0, <1>1, MoveEffect
    <3> QED BY <3>1, <3>2, <3>3, <3>4, <3>5, <3>6
  <2>2. ImportTypeOK'  BY <1>0, <2>1 DEF ImportTypeOK, PCs
  <2>3. Journaled'  BY <1>0, <2>1
  <2>4. Commanded'  BY <1>0, <2>1
  <2>5. WorldSound'  BY <1>0, <2>1 DEF RolledBackRestored
  <2>6. Cleaned'  BY <1>0, <2>1
  <2>7. Placed'  BY <1>0, <2>1
  <2> QED BY <2>2, <2>3, <2>4, <2>5, <2>6, <2>7 DEF ImportInv
<1>2. ASSUME Serving, Receipt PROVE ImportInv'
  <2>1. /\ pc = "idle" /\ AnyStep
        /\ token.receipt /\ pc' = "finalize"
        /\ UNCHANGED <<token, payload, importJournal, kept, inst, target, pointer, intent, boot, game,
                       cmd, save, submits, saves, swap, first, panel, crashes>>
    BY <1>0, <1>2, MoveEffect
  <2>2. ImportTypeOK'  BY <1>0, <2>1 DEF ImportTypeOK, PCs
  <2>3. Journaled'  BY <1>0, <2>1
  <2>4. Commanded'  BY <1>0, <2>1
  <2>5. WorldSound'  BY <1>0, <2>1 DEF RolledBackRestored
  <2>6. Cleaned'  BY <1>0, <2>1
  <2>7. Placed'  BY <1>0, <2>1
  <2> QED BY <2>2, <2>3, <2>4, <2>5, <2>6, <2>7 DEF ImportInv
<1> QED BY <1>1, <1>2

\* The journal of a canceled import goes.
LEMMA Forgets ==
    ASSUME ImportInv, FinalizeCleanup
    PROVE  ImportInv'
<1> USE DEF Placed, Exists, AnyStep, WorldSound, Ended, Journaled, Cleaned
<1>0. /\ ImportTypeOK /\ Journaled /\ Commanded /\ WorldSound /\ Cleaned /\ Placed
      /\ importJournal \in Journals /\ token \in Tokens
  BY DEF ImportInv, ImportTypeOK, Tokens
<1> USE DEF Early, Confirms, Durables, Unended, Joining, BootPlaces, Raising, Phasing, Activating, Lasting, UndoSteps, Cleaning, Working
<1>1. ASSUME FinalizeCleanup PROVE ImportInv'
  <2>1. /\ pc = "finalize" /\ AnyStep
        /\ importJournal.stage \in {"absent", "canceled"}
        /\ \/ pc' = "untoken" /\ importJournal' = NoJournal
           \/ pc' = "idle" /\ importJournal' = importJournal
        /\ UNCHANGED <<token, payload, kept, inst, target, pointer, intent, boot, game, cmd, save,
                       submits, saves, swap, first, panel, crashes>>
    BY <1>0, <1>1, MoveEffect DEF FinalizeCleanup, Lands, upload, files, runtime, count, fixed, control
  <2>2. ImportTypeOK'  BY <1>0, <2>1, NoJournalFacts DEF ImportTypeOK, PCs
  <2>3. Journaled'  BY <1>0, <2>1, NoJournalFacts
  <2>4. Commanded'  BY <1>0, <2>1, NoJournalFacts DEF Commanded, NothingDone
  <2>5. WorldSound'
    BY <1>0, <2>1, NoJournalFacts DEF Commanded, Proven, RolledBackRestored, NothingDone
  <2>6. Cleaned'  BY <1>0, <2>1, NoJournalFacts DEF Proven
  <2>7. Placed'  BY <1>0, <2>1, NoJournalFacts DEF Commanded, Proven, NothingDone
  <2> QED BY <2>2, <2>3, <2>4, <2>5, <2>6, <2>7 DEF ImportInv
<1> QED BY <1>1

\* The panel stops.
LEMMA Crashes ==
    ASSUME ImportInv, Crash
    PROVE  ImportInv'
<1> USE DEF ImportTypeOK, AnyStep, Crash, Lands, upload, files, runtime, count, fixed, control, WorldSound, Placed,
    Exists, Ended, Journaled, Cleaned
<1>0. /\ ImportTypeOK /\ Journaled /\ Commanded /\ WorldSound /\ Cleaned /\ Placed
      /\ importJournal \in Journals /\ token \in Tokens
  BY DEF ImportInv, Tokens
<1> USE DEF Early, Confirms, Durables, Unended, Joining, BootPlaces, Raising, Phasing, Activating, Lasting, UndoSteps, Cleaning, Working
<1>1. ASSUME Crash PROVE ImportInv'
  <2>1. /\ TRUE
        /\ row' \in {row, "active", "failed", "succeeded", "none"} /\ work' \in {work, "none", "import", "recovery"}
        /\ row' = row /\ faults' = faults
        /\ panel' \in BOOLEAN
        /\ pc' = "idle" /\ work' = "none" /\ kept' = "no" /\ crashes' \in 0..ImportCrashes
        /\ UNCHANGED <<token, payload, importJournal, inst, target, pointer, intent, boot, game, cmd,
                       save, submits, saves, swap, first>>
    <3>1. row' \in {row, "active", "failed", "succeeded", "none"} /\ work' \in {work, "none", "import", "recovery"}
      BY <1>0, <1>1, ImportAssumption
    <3>2. row' = row /\ faults' = faults  BY <1>0, <1>1, ImportAssumption
    <3>3. panel' \in BOOLEAN  BY <1>0, <1>1, ImportAssumption
    <3>4. pc' = "idle" /\ work' = "none" /\ kept' = "no" /\ crashes' \in 0..ImportCrashes
      BY <1>0, <1>1, ImportAssumption
    <3>5. UNCHANGED <<token, payload, importJournal, inst, target, pointer, intent, boot, game, cmd,
                       save, submits, saves, swap, first>>
      BY <1>0, <1>1, ImportAssumption
    <3> QED BY <3>1, <3>2, <3>3, <3>4, <3>5
  <2>2. ImportTypeOK'  BY <1>0, <2>1 DEF PCs, Tokens
  <2>3. Journaled'  BY <1>0, <2>1
  <2>4. Commanded'  BY <1>0, <2>1 DEF Commanded, NothingDone
  <2>5. WorldSound'  BY <1>0, <2>1 DEF Commanded, Proven, RolledBackRestored, NothingDone
  <2>6. Cleaned'  BY <1>0, <2>1 DEF Proven
  <2>7. Placed'  BY <1>0, <2>1 DEF Commanded, Proven, NothingDone
  <2> QED BY <2>2, <2>3, <2>4, <2>5, <2>6, <2>7 DEF ImportInv
<1> QED BY <1>1

\* What a boot finds in the journal.
LEMMA Recoveries ==
    ASSUME ImportInv
    PROVE  /\ Recovery \in {"none", "manual", "restore", "durable", "activate"}
           /\ Recovery \in {"manual", "restore"} => importJournal.clean = "none"
           /\ Recovery = "durable" => importJournal.stage \in Durables /\ importJournal.rollback = "none"
           /\ Recovery = "activate" => importJournal.stage \in Confirms /\ importJournal.rollback = "none"
<1>0. ImportTypeOK /\ Journaled /\ Cleaned /\ importJournal \in Journals
  BY DEF ImportInv, ImportTypeOK
<1>1. AtLeast("submitted") => importJournal.stage \in {"submitted", "completed"} \cup Confirms \cup Durables
  BY <1>0, Reached
<1>2. Recovery \in {"none", "manual", "restore", "durable", "activate"}  BY DEF Recovery
<1>3. ASSUME importJournal.clean # "none"
      PROVE  Recovery = "none"
  <2>1. /\ ~importJournal.maint /\ importJournal.mrec \in {"none", "restored"} /\ ~importJournal.confirmed
        /\ importJournal.fifo => Proven
    BY <1>0, <1>3 DEF Cleaned
  <2>2. /\ importJournal.rollback = "none" /\ ~importJournal.unsent /\ ~importJournal.manual
        /\ importJournal.stage \notin Confirms \cup Durables \cup {"completed"}
    BY <1>0, <2>1 DEF Journaled, Journals
  <2>3. Submitted => Proven  BY <1>0, <1>1, <2>1, <2>2 DEF Submitted, Journaled, Journals
  <2> QED
    <3>1. Proven \/ ~Submitted  BY <2>3
    <3>2. CASE Proven  BY <2>1, <2>2, <3>2 DEF Recovery, Confirms, Durables
    <3>3. CASE ~Proven /\ ~Submitted  BY <2>1, <2>2, <3>3 DEF Recovery, Confirms, Durables
    <3> QED BY <3>1, <3>2, <3>3
<1>4. /\ Recovery = "durable" => importJournal.stage \in Durables /\ importJournal.rollback = "none"
      /\ Recovery = "activate" => importJournal.stage \in Confirms /\ importJournal.rollback = "none"
  BY <1>0 DEF Recovery, Submitted, Proven, Journaled, Ended, Confirms, Durables
<1> QED BY <1>2, <1>3, <1>4

\* The panel boots.
LEMMA Boots ==
    ASSUME ImportInv, Boot
    PROVE  ImportInv'
<1> USE DEF AnyStep, WorldSound, Placed, Exists, Ended, Journaled, Cleaned, Commanded, NothingDone, Proven
<1>0. /\ ImportTypeOK /\ Journaled /\ Commanded /\ WorldSound /\ Cleaned /\ Placed
      /\ importJournal \in Journals /\ token \in Tokens
  BY DEF ImportInv, ImportTypeOK, Tokens
<1> USE DEF Early, Confirms, Durables, Unended, Joining, BootPlaces, Raising, Phasing, Activating, Lasting, UndoSteps, Cleaning, Working
<1>1. ASSUME Boot, Recovery = "manual" PROVE ImportInv'
  <2>1. /\ TRUE
        /\ work' \in {"none", "recovery"} /\ row' \in {row, "failed"} /\ faults' = faults /\ panel' = TRUE /\ panel' \in BOOLEAN
        /\ row = "none" => row' = "none"
        /\ row' = "none" => row = "none"
        /\ pc' = "bootmanual" /\ kept' = "no"
        /\ importJournal.clean = "none"
        /\ UNCHANGED <<token, payload, importJournal, inst, target, pointer, intent, boot, game, cmd,
                       save, submits, saves, swap, first, crashes>>
    BY <1>0, <1>1, Recoveries DEF Boot, Lands, upload, files, runtime, count, fixed, control
  <2>2. ImportTypeOK'  BY <1>0, <2>1 DEF ImportTypeOK, PCs, Tokens
  <2>3. Journaled'  BY <1>0, <2>1
  <2>4. Commanded'  BY <1>0, <2>1
  <2>5. WorldSound'  BY <1>0, <2>1 DEF RolledBackRestored
  <2>6. Cleaned'  BY <1>0, <2>1
  <2>7. Placed'  BY <1>0, <2>1
  <2> QED BY <2>2, <2>3, <2>4, <2>5, <2>6, <2>7 DEF ImportInv
<1>2. ASSUME Boot, Recovery = "restore" PROVE ImportInv'
  <2>1. /\ TRUE
        /\ work' \in {"none", "recovery"} /\ row' \in {row, "failed"} /\ faults' = faults /\ panel' = TRUE /\ panel' \in BOOLEAN
        /\ row = "none" => row' = "none"
        /\ row' = "none" => row = "none"
        /\ pc' = "bootstop" /\ kept' = (IF importJournal.maint THEN "up" ELSE "down")
        /\ importJournal.clean = "none"
        /\ UNCHANGED <<token, payload, importJournal, inst, target, pointer, intent, boot, game, cmd,
                       save, submits, saves, swap, first, crashes>>
    BY <1>0, <1>2, Recoveries DEF Boot, Lands, upload, files, runtime, count, fixed, control
  <2>2. ImportTypeOK'  BY <1>0, <2>1 DEF ImportTypeOK, PCs, Tokens
  <2>3. Journaled'  BY <1>0, <2>1
  <2>4. Commanded'  BY <1>0, <2>1
  <2>5. WorldSound'  BY <1>0, <2>1 DEF RolledBackRestored
  <2>6. Cleaned'  BY <1>0, <2>1
  <2>7. Placed'  BY <1>0, <2>1
  <2> QED BY <2>2, <2>3, <2>4, <2>5, <2>6, <2>7 DEF ImportInv
<1>3. ASSUME Boot, Recovery = "durable" PROVE ImportInv'
  <2>1. /\ TRUE
        /\ work' \in {"none", "recovery"} /\ row' \in {row, "failed"} /\ faults' = faults /\ panel' = TRUE /\ panel' \in BOOLEAN
        /\ row = "none" => row' = "none"
        /\ row' = "none" => row = "none"
        /\ pc' = "durable" /\ kept' = "no"
        /\ importJournal.stage \in Durables /\ importJournal.rollback = "none"
        /\ UNCHANGED <<token, payload, importJournal, inst, target, pointer, intent, boot, game, cmd,
                       save, submits, saves, swap, first, crashes>>
    BY <1>0, <1>3, Recoveries DEF Boot, Lands, upload, files, runtime, count, fixed, control
  <2>2. ImportTypeOK'  BY <1>0, <2>1 DEF ImportTypeOK, PCs, Tokens
  <2>3. Journaled'  BY <1>0, <2>1
  <2>4. Commanded'  BY <1>0, <2>1
  <2>5. WorldSound'  BY <1>0, <2>1 DEF RolledBackRestored
  <2>6. Cleaned'  BY <1>0, <2>1
  <2>7. Placed'  BY <1>0, <2>1
  <2> QED BY <2>2, <2>3, <2>4, <2>5, <2>6, <2>7 DEF ImportInv
<1>4. ASSUME Boot, Recovery = "activate" PROVE ImportInv'
  <2>1. /\ TRUE
        /\ work' \in {"none", "recovery"} /\ row' \in {row, "failed"} /\ faults' = faults /\ panel' = TRUE /\ panel' \in BOOLEAN
        /\ row = "none" => row' = "none"
        /\ row' = "none" => row = "none"
        /\ pc' = "activate" /\ kept' = "no"
        /\ importJournal.stage \in Confirms /\ importJournal.rollback = "none"
        /\ UNCHANGED <<token, payload, importJournal, inst, target, pointer, intent, boot, game, cmd,
                       save, submits, saves, swap, first, crashes>>
    BY <1>0, <1>4, Recoveries DEF Boot, Lands, upload, files, runtime, count, fixed, control
  <2>2. ImportTypeOK'  BY <1>0, <2>1 DEF ImportTypeOK, PCs, Tokens
  <2>3. Journaled'  BY <1>0, <2>1
  <2>4. Commanded'  BY <1>0, <2>1
  <2>5. WorldSound'  BY <1>0, <2>1 DEF RolledBackRestored
  <2>6. Cleaned'  BY <1>0, <2>1
  <2>7. Placed'  BY <1>0, <2>1
  <2> QED BY <2>2, <2>3, <2>4, <2>5, <2>6, <2>7 DEF ImportInv
<1>5. ASSUME Boot, Recovery = "none" PROVE ImportInv'
  <2>1. /\ TRUE
        /\ work' \in {"none", "recovery"} /\ row' \in {row, "failed"} /\ faults' = faults /\ panel' = TRUE /\ panel' \in BOOLEAN
        /\ row = "none" => row' = "none"
        /\ row' = "none" => row = "none"
        /\ \/ pc' = "bootrunning" /\ importJournal.stage = "completed"
           \/ pc' = "idle"
        /\ kept' = "no"
        /\ UNCHANGED <<token, payload, importJournal, inst, target, pointer, intent, boot, game, cmd,
                       save, submits, saves, swap, first, crashes>>
    BY <1>0, <1>5, Recoveries DEF Boot, Lands, upload, files, runtime, count, fixed, control
  <2>2. ImportTypeOK'  BY <1>0, <2>1 DEF ImportTypeOK, PCs, Tokens
  <2>3. Journaled'  BY <1>0, <2>1
  <2>4. Commanded'  BY <1>0, <2>1
  <2>5. WorldSound'  BY <1>0, <2>1 DEF RolledBackRestored
  <2>6. Cleaned'  BY <1>0, <2>1
  <2>7. Placed'  BY <1>0, <2>1
  <2> QED BY <2>2, <2>3, <2>4, <2>5, <2>6, <2>7 DEF ImportInv
<1> QED BY <1>1, <1>2, <1>3, <1>4, <1>5, Recoveries

\* What the journal and the token know of a job that is over.
LEMMA Reconciles ==
    ASSUME ImportInv, Reconcile
    PROVE  ImportInv'
<1> USE DEF Tokens, Journals, Reconcile, Serving, Lands, upload, files, runtime, count, fixed, control, AnyStep,
    WorldSound, Placed, Exists, Ended
<1>0. /\ ImportTypeOK /\ Journaled /\ Commanded /\ WorldSound /\ Cleaned /\ Placed
      /\ importJournal \in Journals /\ token \in Tokens
  BY DEF ImportInv, ImportTypeOK
<1> USE DEF Early, Confirms, Durables, Unended, Joining, BootPlaces, Raising, Phasing, Activating, Lasting, UndoSteps, Cleaning, Working
<1>1. ASSUME Reconcile PROVE ImportInv'
  <2>1. /\ pc = "idle" /\ AnyStep
        /\ token.status = "owned" /\ ~token.receipt /\ row # "none" /\ Exists
        /\ pc' = "idle" \/ (row = "failed" /\ pc' = "clean")
        /\ token' \in Tokens /\ token'.receipt = token.receipt
        /\ token'.status \in {"owned", "succeeded"}
        /\ token'.status = "succeeded" => importJournal.stage = "completed" /\ row = "succeeded"
        /\ \E b \in {"no", "attached", "ready"} : importJournal' = [importJournal EXCEPT !.bind = b]
        /\ UNCHANGED <<payload, kept, inst, target, pointer, intent, boot, game, cmd, save, submits,
                       saves, swap, first, panel, crashes>>
    <3>1. pc = "idle"  BY <1>0, <1>1, MoveEffect
    <3>2. AnyStep  BY <1>0, <1>1, MoveEffect
    <3>3. token.status = "owned" /\ ~token.receipt /\ row # "none" /\ Exists
      BY <1>0, <1>1, MoveEffect
    <3>4. pc' = "idle" \/ (row = "failed" /\ pc' = "clean")  BY <1>0, <1>1, MoveEffect
    <3>5. token' \in Tokens /\ token'.receipt = token.receipt
      BY ZenonT(60), <1>0, <1>1, MoveEffect
    <3>6. token'.status \in {"owned", "succeeded"}  BY <1>0, <1>1, MoveEffect
    <3>7. token'.status = "succeeded" => importJournal.stage = "completed" /\ row = "succeeded"
      BY <1>0, <1>1, MoveEffect
    <3>8. \E b \in {"no", "attached", "ready"} : importJournal' = [importJournal EXCEPT !.bind = b]
      BY <1>0, <1>1, MoveEffect
    <3>9. UNCHANGED <<payload, kept, inst, target, pointer, intent, boot, game, cmd, save, submits,
                       saves, swap, first, panel, crashes>>
      BY <1>0, <1>1, MoveEffect
    <3> QED BY <3>1, <3>2, <3>3, <3>4, <3>5, <3>6, <3>7, <3>8, <3>9
  <2>2. ImportTypeOK'  BY <1>0, <2>1 DEF ImportTypeOK, PCs
  <2>3. Journaled'  BY <1>0, <2>1 DEF Journaled, Cleaned
  <2>4. Commanded'  BY <1>0, <2>1 DEF Commanded, NothingDone
  <2>5. WorldSound'
    BY <1>0, <2>1 DEF Journaled, Cleaned, Commanded, Proven, RolledBackRestored, NothingDone
  <2>6. Cleaned'  BY <1>0, <2>1 DEF Cleaned, Proven, Journaled
  <2>7. Placed'  BY <1>0, <2>1 DEF Journaled, Cleaned, Commanded, Proven, NothingDone
  <2> QED BY <2>2, <2>3, <2>4, <2>5, <2>6, <2>7 DEF ImportInv
<1> QED BY <1>1

\* Every step keeps the invariant.
LEMMA ImportKept ==
    ASSUME ImportInv, [ImportNext]_importVars
    PROVE  ImportInv'
<1>1. CASE Request  BY <1>1, Requested, StagedJournal, Accounts, Admitted DEF Request
<1>2. CASE Staging  BY <1>2, OnDisk, StagedJournal DEF Staging
<1>3. CASE Maintenance  BY <1>3, Prepares, Shows, Submitting, Stops DEF Maintenance
<1>4. CASE Restore  BY <1>4, ReturnStep, Shows, Judged DEF Restore
<1>5. CASE PhaseA  BY <1>5, Prepares, OnDisk, Submitting, Judged, Stops DEF PhaseA
<1>6. CASE Activation  BY <1>6, Activates, Lasts, Shows DEF Activation
<1>7. CASE Saving  BY <1>7, Persists, OnDisk, Lasts, Shows, Accounts DEF Saving
<1>8. CASE SwapRollback  BY <1>8, ReturnStep, Stops, RollsBack, OnDisk, Shows DEF SwapRollback
<1>9. CASE Cleanup
  BY <1>9, Reconciles, PlanStep, Removes, Cleans, ReceiptStep, Forgets, Accounts DEF Cleanup
<1>10. CASE AtBoot  BY <1>10, Crashes, Boots, Stops, Submitting, Shows DEF AtBoot
<1>11. CASE Junimo  BY <1>11, Plays DEF Junimo
<1>12. CASE UNCHANGED importVars
  <2>1. /\ UNCHANGED <<pc, work, row, faults, crashes, swap, first, panel>>
        /\ UNCHANGED <<token, payload, importJournal, kept, inst, target, pointer, intent, boot, game, cmd, save,
                       submits, saves>>
    BY <1>12 DEF importVars
  <2> QED
    BY <2>1 DEF ImportInv, ImportTypeOK, Journaled, Commanded, WorldSound, Cleaned, Placed, NothingDone, Exists, Proven,
                RolledBackRestored
<1> QED BY <1>1, <1>2, <1>3, <1>4, <1>5, <1>6, <1>7, <1>8, <1>9, <1>10, <1>11, <1>12 DEF ImportNext

\* The journal, the commands, the saves and the place of the panel always fit each other, whatever
\* fails, exits or stops.
THEOREM ImportInvariant == ImportSpec => []ImportInv
<1>1. ImportInit => ImportInv
  <2> SUFFICES ASSUME ImportInit PROVE ImportInv
    OBVIOUS
  <2>1. /\ importJournal \in Journals
        /\ importJournal.stage = "absent" /\ importJournal.original = "none" /\ importJournal.owned = FALSE
        /\ importJournal.bind = "no" /\ importJournal.boot = "none" /\ importJournal.maint = FALSE
        /\ importJournal.mrec = "none" /\ importJournal.manual = FALSE /\ importJournal.fifo = FALSE
        /\ importJournal.submitted = FALSE /\ importJournal.confirmed = FALSE /\ importJournal.outcome = "none"
        /\ importJournal.restarted = FALSE /\ importJournal.command = FALSE /\ importJournal.unsent = FALSE
        /\ importJournal.rollback = "none" /\ importJournal.clean = "none"
    BY NoJournalFacts DEF ImportInit
  <2>2. token \in Tokens /\ token.status = "none" /\ token.receipt = FALSE
    BY DEF ImportInit, NoToken, Tokens
  <2>3. ImportTypeOK
    <3>1. /\ swap \in BOOLEAN /\ panel \in BOOLEAN /\ intent \in BOOLEAN /\ boot \in BOOLEAN
          /\ first \in {"orig", "none"} /\ pointer \in {"none", "orig", "boot", "target"}
      BY DEF ImportInit
    <3>2. pc \in PCs /\ faults \in 0..ImportFaults /\ crashes \in 0..ImportCrashes
      BY ImportAssumption DEF ImportInit, PCs
    <3>3. submits \in 0..2 /\ saves \in 0..2  BY DEF ImportInit
    <3> QED BY <2>1, <2>2, <3>1, <3>2, <3>3 DEF ImportInit, ImportTypeOK, Tokens
  <2>4. Journaled /\ Commanded
    BY <2>1 DEF ImportInit, Journaled, Commanded, Exists, Early, Confirms, Durables
  <2>5. WorldSound /\ Cleaned
    BY <2>1, <2>2 DEF ImportInit, WorldSound, Cleaned, NothingDone, Proven, Exists, RolledBackRestored, Durables
  <2>6. Placed
    BY <2>1, <2>2 DEF ImportInit, Placed, Joining, BootPlaces, Raising, Phasing, Activating, Lasting, UndoSteps, Cleaning,
                     Working
  <2> QED BY <2>3, <2>4, <2>5, <2>6 DEF ImportInv
<1>2. ImportInv /\ [ImportNext]_importVars => ImportInv'  BY ImportKept
<1> QED BY <1>1, <1>2, PTL DEF ImportSpec

\* The variables keep their types.
THEOREM ImportTypes == ImportSpec => []ImportTypeOK
<1>1. ImportInv => ImportTypeOK  BY DEF ImportInv
<1> QED BY <1>1, ImportInvariant, PTL

\* The import command and the save command of an operation are published once at most, and only
\* when the journal already says that they may have been (submitSaveImportCommand, runImportDurableSave).
THEOREM CommandsOnceHolds == ImportSpec => []CommandsOnce
<1>1. ImportInv => CommandsOnce  BY DEF ImportInv, Commanded, CommandsOnce
<1> QED BY <1>1, ImportInvariant, PTL

\* A canceled import changed nothing, and a rolled back one put back the saves, the pointer and the
\* instance (CleanupUnsubmittedImport, rollbackConfirmedHostSwapFailure).
THEOREM FailedChangesNothingHolds == ImportSpec => []FailedChangesNothing
<1>1. ImportInv => FailedChangesNothing
  BY DEF ImportInv, WorldSound, NothingDone, FailedChangesNothing, CanceledLeavesNothing
<1> QED BY <1>1, ImportInvariant, PTL

\* Players are let in only when the import is durable, and what runs in private is in the journal
\* that a boot reads (markCompletedImportRuntimeRunning, RecoverImportTransactions).
THEOREM ServedAsRecordedHolds == ImportSpec => []ServedAsRecorded
<1>1. ImportInv => ServedAsRecorded
  BY DEF ImportInv, Journaled, WorldSound, ServedAsRecorded, PublishedWhenDurable, PrivateAccounted
<1> QED BY <1>1, ImportInvariant, PTL
=============================================================================
