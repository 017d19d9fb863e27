--------------------------- MODULE ControlCommands ---------------------------
(***************************************************************************)
(* The commands the panel gives to the control mod inside the game          *)
(* (console.go, command_results.go, storage/control_commands.go,            *)
(* web/control_commands.go and the mod's ModEntry.cs).                      *)
(*                                                                         *)
(* A command and its result are files in a directory both sides share; the  *)
(* table control_commands is the panel's ledger of them.  The mod writes     *)
(* running before it acts, the outcome after it, and only then deletes the  *)
(* command.  The panel moves results into the ledger and deletes their       *)
(* files, from its scheduler and from every page that shows commands, at the *)
(* same time.                                                               *)
(***************************************************************************)
EXTENDS Naturals

CONSTANTS Commands,       \* commands given
          Readers,        \* scans of command-results that may run at once
          GameDeaths      \* bound: deaths of the game

ASSUME CommandAssumption == GameDeaths \in Nat

VARIABLES
    ways,       \* by command: plain, save (save-now), or owned: a save-now whose
                \* id an unfinished transaction has on record
    given,      \* by command: how far the request that gives it is
    queue,      \* the files in commands/
    result,     \* the files in command-results/
    writes,     \* by command: how many results the mod has written, its clock
    ledger,     \* the rows of control_commands
    scans,      \* by reader: the result it has read, and whether it has moved it
    waiting,    \* owned commands whose transaction still needs their result
    hand,       \* the command the mod is on
    pending,    \* the save the mod waits for
    saveJournal,\* pending-save-command.json
    gameUp, deaths,
    answered,   \* commands the mod has given an outcome
    cut         \* plain commands the game died over before they had an outcome

commandVars == <<ways, given, queue, result, writes, ledger, scans, waiting, hand, pending, saveJournal, gameUp,
                 deaths, answered, cut>>
panelSide == <<given, ledger, scans, waiting>>
modSide   == <<writes, hand, pending, saveJournal, gameUp, deaths, answered, cut>>

Final    == {"succeeded", "dispatched", "failed"}
Statuses == {"none", "queued", "running", "unknown"} \cup Final
NoCommandRow == [status |-> "none", at |-> 0, typed |-> FALSE, audited |-> FALSE]
NoScan   == [command |-> {}, status |-> "none", at |-> 0, moved |-> FALSE]
Free     == [command |-> {}, step |-> "idle"]

CommandInit ==
    /\ ways \in [Commands -> {"plain", "save", "owned"}]
    /\ given = [c \in Commands |-> "no"] /\ queue = {}
    /\ result = [c \in Commands |-> "none"] /\ writes = [c \in Commands |-> 0]
    /\ ledger = [c \in Commands |-> NoCommandRow] /\ scans = [r \in Readers |-> NoScan]
    /\ waiting = {} /\ hand = Free /\ pending = {} /\ saveJournal = {} /\ gameUp = TRUE /\ deaths = 0
    /\ answered = {} /\ cut = {}

Completed(status) == status \in Final \cup {"unknown"}
\* Times: the n-th result of the mod is from 2n, and what follows it from 2n + 1
\* unless it comes within the same millisecond.
Written(c) == 2 * writes[c]

-----------------------------------------------------------------------------
(* The panel gives a command                                                *)

\* writePanelCommandWithID
Published(c, step) ==
    /\ given[c] = "no" /\ given' = [given EXCEPT ![c] = step] /\ queue' = queue \cup {c}
    /\ UNCHANGED <<ways, result, ledger, scans, modSide>>

\* Kick, ban, warp, approve, festival and Joja; the state they look at may be old
GivePlain(c) == ways[c] = "plain" /\ Published(c, "published") /\ UNCHANGED waiting
GiveSave(c)  == ways[c] = "save"  /\ Published(c, "published") /\ UNCHANGED waiting
\* Its id is on record before, and no page follows it.
GiveOwned(c) == ways[c] = "owned" /\ Published(c, "done") /\ waiting' = waiting \cup {c}

\* writeFinalControlCommandAuditTx
Audited(row) == [row EXCEPT !.audited = @ \/ (row.typed /\ Completed(row.status))]

\* CreateControlCommand, after the command is visible: a row that a scan has made is completed
Submitted(row, status, now) ==
    Audited(IF row.status = "none" THEN [status |-> status, at |-> now, typed |-> TRUE, audited |-> FALSE]
            ELSE [row EXCEPT !.typed = TRUE])
RecordSubmission(c) ==
    /\ given[c] = "published" /\ given' = [given EXCEPT ![c] = "done"]
    /\ \E status \in {"queued", "dispatched"}, now \in {Written(c), Written(c) + 1} :
           \* dispatched: status.json names no result protocol
           ledger' = [ledger EXCEPT ![c] = Submitted(@, status, now)]
    /\ UNCHANGED <<ways, queue, result, scans, waiting, modSide>>

\* GetCommandOutcome: the transaction has what it waited for
TakeOutcome(c) ==
    /\ c \in waiting /\ Completed(result[c]) /\ waiting' = waiting \ {c}
    /\ UNCHANGED <<ways, given, queue, result, ledger, scans, modSide>>

-----------------------------------------------------------------------------
(* syncControlCommandResults: what a scan does with one of the results      *)

\* ListCommandResultFiles
ReadResult(r, c) ==
    /\ scans[r] = NoScan /\ result[c] # "none"
    /\ scans' = [scans EXCEPT ![r] = [command |-> {c}, status |-> result[c], at |-> Written(c), moved |-> FALSE]]
    /\ UNCHANGED <<ways, given, queue, result, ledger, waiting, modSide>>

\* Mutant: the result of an owned command is moved like any other.
ProtectedNever(c) == FALSE
\* DurableCommandResultProtected
Protected(c) == c \in waiting
SkipProtected(r, c) ==
    /\ scans[r].command = {c} /\ ~scans[r].moved /\ Protected(c) /\ scans' = [scans EXCEPT ![r] = NoScan]
    /\ UNCHANGED <<ways, given, queue, result, ledger, waiting, modSide>>

\* ImportControlCommandResult: only a result that is no older than the row
Imported(row, scan) ==
    IF row.status = "none" THEN [status |-> scan.status, at |-> scan.at, typed |-> FALSE, audited |-> FALSE]
    ELSE IF scan.at < row.at THEN row
    ELSE [row EXCEPT !.status = scan.status, !.at = scan.at]
ImportResult(r, c) ==
    /\ scans[r].command = {c} /\ ~scans[r].moved /\ ~Protected(c)
    /\ ledger' = [ledger EXCEPT ![c] = Audited(Imported(@, scans[r]))]
    /\ scans' = [scans EXCEPT ![r].moved = TRUE]
    /\ UNCHANGED <<ways, given, queue, result, waiting, modSide>>

\* Mutant: a running result is deleted like any other.
KeptNever(r, c) == FALSE
\* DeleteImportedCommandResult: by name, and on the status the scan has read
Kept(r, c) == scans[r].status = "running" /\ c \in queue
DeleteImported(r, c) ==
    /\ scans[r].command = {c} /\ scans[r].moved
    /\ result' = [result EXCEPT ![c] = IF Kept(r, c) THEN @ ELSE "none"]
    /\ scans' = [scans EXCEPT ![r] = NoScan]
    /\ UNCHANGED <<ways, given, queue, ledger, waiting, modSide>>

\* MarkStaleControlCommandsUnknown: five minutes may pass between any two steps
MarkStale ==
    LET stale == {c \in Commands : ledger[c].status = "running"} IN
    /\ stale # {}
    /\ ledger' = [c \in Commands |-> IF c \in stale
                     THEN [ledger[c] EXCEPT !.status = "unknown", !.at = Written(c) + 1, !.audited = TRUE] ELSE ledger[c]]
    /\ UNCHANGED <<ways, given, queue, result, scans, waiting, modSide>>

\* CleanupControlCommands, of one row; so may the retention
CleanupRow(c) ==
    /\ Completed(ledger[c].status) /\ ledger' = [ledger EXCEPT ![c] = NoCommandRow]
    /\ UNCHANGED <<ways, given, queue, result, scans, waiting, modSide>>

\* The panel dies; what it has not written down is gone.
CommandPanelDies ==
    /\ scans' = [r \in Readers |-> NoScan]
    /\ given' = [c \in Commands |-> IF given[c] = "published" THEN "done" ELSE given[c]]
    /\ UNCHANGED <<ways, queue, result, ledger, waiting, modSide>>

-----------------------------------------------------------------------------
(* The control mod                                                          *)

Puts(c, status) == result' = [result EXCEPT ![c] = status] /\ writes' = [writes EXCEPT ![c] = @ + 1]
Answer(c, status) == Puts(c, status) /\ answered' = answered \cup {c}
Dies == deaths < GameDeaths /\ deaths' = deaths + 1 /\ gameUp' = FALSE
Holding(c, step) == hand.command = {c} /\ hand.step = step
Ticks == gameUp /\ hand = Free   \* the handlers of the game's tick run one after another

\* ConsumeCommands: a command with a result is not acted on, whatever the result
ConsumeAnswered(c) ==
    /\ Ticks /\ c \in queue /\ result[c] # "none" /\ queue' = queue \ {c}
    /\ \/ ways[c] = "plain" /\ UNCHANGED <<result, writes, answered, saveJournal>>
       \/ ways[c] # "plain" /\ result[c] # "running"
          /\ saveJournal' = saveJournal \ {c} /\ UNCHANGED <<result, writes, answered>>
       \/ ways[c] # "plain" /\ result[c] = "running"
          /\ saveJournal \subseteq {c} /\ saveJournal' = {c} /\ UNCHANGED <<result, writes, answered>>
       \/ ways[c] # "plain" /\ result[c] = "running" /\ saveJournal # {c}   \* it cannot be written
          /\ Answer(c, "failed") /\ UNCHANGED saveJournal
    /\ hand' = IF saveJournal' = {c} THEN [command |-> {c}, step |-> "resuming"] ELSE Free
    /\ UNCHANGED <<ways, panelSide, pending, gameUp, deaths, cut>>
ConsumeCommand(c) ==
    /\ Ticks /\ c \in queue /\ result[c] = "none"
    /\ Puts(c, "running") /\ hand' = [command |-> {c}, step |-> "started"]
    /\ UNCHANGED <<ways, panelSide, queue, pending, saveJournal, gameUp, deaths, answered, cut>>

\* HandleCommand: a save only begins; or another one is pending, or its journal
\* cannot be written, or the menu is busy
ActOnCommand(c) ==
    /\ Holding(c, "started") /\ hand' = [hand EXCEPT !.step = "acted"]
    /\ \/ UNCHANGED <<pending, saveJournal>>
       \/ /\ ways[c] # "plain" /\ pending = {} /\ saveJournal \subseteq {c}
          /\ saveJournal' = {c} /\ pending' \in {{c}, {}}
    /\ UNCHANGED <<ways, panelSide, queue, result, writes, gameUp, deaths, answered, cut>>
AnswerCommand(c) ==
    /\ Holding(c, "acted") /\ hand' = [hand EXCEPT !.step = "answered"]
    /\ \/ ways[c] = "plain" /\ \E status \in Final : Answer(c, status)
       \/ c \in pending /\ Puts(c, "running") /\ UNCHANGED answered
       \/ ways[c] # "plain" /\ c \notin pending /\ Answer(c, "failed")
    /\ UNCHANGED <<ways, panelSide, queue, pending, saveJournal, gameUp, deaths, cut>>
DropCommand(c) ==
    /\ Holding(c, "answered") /\ hand' = Free /\ queue' = queue \ {c}
    /\ saveJournal' = saveJournal \ {x \in {c} : result[x] # "running"}
    /\ UNCHANGED <<ways, panelSide, result, writes, pending, gameUp, deaths, answered, cut>>

\* OnSaved and Expire
SaveEnds(c) ==
    /\ Ticks /\ c \in pending /\ pending' = {} /\ \E status \in {"succeeded", "failed"} : Answer(c, status)
    /\ \/ saveJournal' = saveJournal \ {c} /\ UNCHANGED <<gameUp, deaths>>
       \/ Dies /\ UNCHANGED saveJournal
    /\ UNCHANGED <<ways, panelSide, queue, hand, cut>>
\* ResumePendingSaveCommand: in a tick of its own or for a command it has just read
ResumeSave(c) ==
    /\ gameUp /\ (hand = Free \/ Holding(c, "resuming")) /\ hand' = Free
    /\ c \in saveJournal
    /\ \/ UNCHANGED <<result, writes, pending, saveJournal, answered>>   \* a save is pending, or not yet
       \/ /\ pending = {} /\ result[c] \in Final /\ saveJournal' = {}
          /\ UNCHANGED <<result, writes, pending, answered>>
       \/ /\ pending = {} /\ result[c] \notin Final /\ pending' = {c} /\ Puts(c, "running")
          /\ UNCHANGED <<saveJournal, answered>>
       \/ /\ pending = {} /\ result[c] \notin Final /\ Answer(c, "failed") /\ saveJournal' = {}
          /\ UNCHANGED pending
    /\ UNCHANGED <<ways, panelSide, queue, gameUp, deaths, cut>>

CommandGameDies ==
    /\ gameUp /\ Dies /\ hand' = Free /\ pending' = {}
    /\ cut' = cut \cup {c \in hand.command : ways[c] = "plain" /\ c \notin answered}
    /\ UNCHANGED <<ways, panelSide, queue, result, writes, saveJournal, answered>>
GameBoots ==
    /\ ~gameUp /\ gameUp' = TRUE
    /\ UNCHANGED <<ways, panelSide, queue, result, writes, hand, pending, saveJournal, deaths, answered, cut>>

Give(c) == GivePlain(c) \/ GiveSave(c) \/ GiveOwned(c)
Mod(c) == ConsumeAnswered(c) \/ ConsumeCommand(c) \/ ActOnCommand(c) \/ AnswerCommand(c) \/ DropCommand(c) \/ SaveEnds(c) \/ ResumeSave(c)
Scan(r, c) == ReadResult(r, c) \/ SkipProtected(r, c) \/ ImportResult(r, c) \/ DeleteImported(r, c)
CommandNext ==
    \/ \E c \in Commands : Give(c) \/ RecordSubmission(c) \/ TakeOutcome(c) \/ CleanupRow(c) \/ Mod(c)
    \/ \E r \in Readers, c \in Commands : Scan(r, c)
    \/ MarkStale \/ CommandPanelDies \/ CommandGameDies \/ GameBoots

CommandSpec == CommandInit /\ [][CommandNext]_commandVars

-----------------------------------------------------------------------------
(* Properties                                                               *)

\* Every variable has its type.
CommandTypeOK ==
    /\ ways \in [Commands -> {"plain", "save", "owned"}] /\ given \in [Commands -> {"no", "published", "done"}]
    /\ queue \subseteq Commands /\ result \in [Commands -> Statuses] /\ writes \in [Commands -> Nat]
    /\ ledger \in [Commands -> [status : Statuses, at : Nat, typed : BOOLEAN, audited : BOOLEAN]]
    /\ scans \in [Readers -> [command : SUBSET Commands, status : Statuses, at : Nat, moved : BOOLEAN]]
    /\ waiting \subseteq Commands /\ hand \in [command : SUBSET Commands, step : {"idle", "started", "acted", "answered", "resuming"}]
    /\ pending \subseteq Commands /\ saveJournal \subseteq Commands /\ gameUp \in BOOLEAN /\ deaths \in 0..GameDeaths
    /\ answered \subseteq Commands /\ cut \subseteq Commands

\* A command the game died over, unanswered, is never acted on again: its
\* running result stays for as long as the command does, whatever scans move.
CutNeverRetried == cut \cap hand.command = {}

\* No outcome is lost to the reader it is for.  The result a transaction waits
\* for stays in its file, with all its details, until the transaction has it,
\* however many scans run; and a known command that is over has its entry in the
\* audit log, in whichever order its submission, its result and its staleness
\* come to the ledger.
OutcomesReachReaders ==
    /\ \A c \in waiting : c \in answered /\ hand.command # {c} /\ c \notin pending => result[c] # "none"
    /\ \A c \in Commands : ledger[c].typed /\ Completed(ledger[c].status) => ledger[c].audited

\* What the documentation says: a final result leaves its file only for the ledger.
ImportedBeforeRemoved ==
    [][\A c \in Commands : result[c] \in Final /\ result'[c] = "none" => ledger[c].status = result[c]]_commandVars
=============================================================================
