---------------------------- MODULE PanelUpgrade ----------------------------
(***************************************************************************)
(* One-click upgrade of the panel itself (updater/service.go and the helper *)
(* container of updater/apply_helper.go) and the full-stack operation that  *)
(* goes on to the worlds once the panel runs the confirmed image            *)
(* (full_stack_*.go).                                                       *)
(*                                                                         *)
(* Three processes share files: the panel, which dies when its container    *)
(* is recreated or by a stop; the helper, which survives it; and, inside    *)
(* the panel, the coordinator, which wakes every two seconds, and the job   *)
(* of a group.  A group's own upgrade is GroupUpgrade; here it is its       *)
(* transaction, its public status and its leases, one after the other.      *)
(***************************************************************************)
EXTENDS Naturals

CONSTANTS Plans,          \* bound: full-stack operations prepared
          UpgradeFaults,  \* bound: steps that fail and deaths of the panel, together
          UpgradeStops    \* bound: times the panel dies by itself

ASSUME UpgradeAssumption == Plans \in Nat /\ UpgradeFaults \in Nat /\ UpgradeStops \in Nat

Groups == 1..2   \* world groups, in the order of the plan

VARIABLES
    panelImage, \* the image of the panel container: old, new, alt (new's tag, moved), none
    process,    \* the panel: up, boot (starting), stopped
    env,        \* the image the deployment's .env names
    panelDB,    \* the schema of panel.db: old, or migrated by a later panel
    apply,      \* apply-status.json
    launch,     \* startApply in the panel's memory, before the helper exists
    helper,     \* the step of the helper container
    tried,      \* recreateAttempted
    stack,      \* the current full-stack operation on disk
    check,      \* the job of its preflight runs
    coord,      \* the coordinator's goroutine
    txn140,     \* by operation and group: the phase of its transaction
    told,       \* the public status of a group: the operation it is for, and the outcome
    leased,     \* a group's leases are held
    job140,     \* the job of a group's upgrade, in memory
    receipt,    \* the compatibility receipt of a group's worlds
    expired,    \* the 24 hours of the operation are over
    ufaults, ustops
panelVars == <<panelImage, process, env, panelDB>>
helperVars == <<apply, helper, tried>>
stackVars == <<stack, receipt, expired>>
groupFiles == <<txn140, told, leased>>
memory == <<launch, check, coord, job140>>   \* what a dying panel forgets
upgradeVars == <<panelVars, helperVars, stackVars, groupFiles, memory, ufaults, ustops>>

NoStack == [id |-> 0, phase |-> "none", auth |-> FALSE, cont |-> FALSE, pid |-> FALSE,
            target |-> "new", scope |-> {}, part |-> [g \in Groups |-> "prepared"], cancelled |-> FALSE]
Idle == [at |-> "idle", g |-> 1, todo |-> {}, part |-> [g \in Groups |-> "prepared"], end |-> "none"]

UpgradeInit ==
    /\ panelImage = "old" /\ process = "up" /\ env = "old" /\ panelDB = "old"
    /\ apply = [phase |-> "none", by |-> 0, sel |-> "none"]
    /\ launch = FALSE /\ helper = "off" /\ tried = FALSE
    /\ stack = NoStack /\ check = FALSE /\ coord = Idle
    /\ txn140 = [n \in 1..Plans |-> [g \in Groups |-> "none"]]
    /\ told = [g \in Groups |-> [by |-> 0, phase |-> "none"]]
    /\ leased = [g \in Groups |-> FALSE]
    /\ job140 = [g \in Groups |-> "off"]
    /\ receipt = [g \in Groups |-> [by |-> 0, outcome |-> "none"]]
    /\ expired = FALSE /\ ufaults = 0 /\ ustops = 0

UFault == ufaults + ustops < UpgradeFaults /\ ufaults' = ufaults + 1
PanelUp == process = "up"
FullStackTerminal == {"succeeded", "failed_safe", "manual_action", "preflight_failed", "panel_failed_rolled_back"}
ActiveApply == apply.phase = "active"
\* the version the panel reports; alt carries the number of new
SameVersion(a, b) == (a = "old") = (b = "old")
Least(s) == CHOOSE g \in s : \A h \in s : g <= h

-----------------------------------------------------------------------------
(* startApply: the request of an administrator (by 0) or of the coordinator *)
(* (by its operation), until the helper has taken over.                     *)

BeginApply(by, then, otherwise) ==
    LET new == [phase |-> "active", by |-> by, sel |-> "none"] IN
    /\ ~launch /\ ~ActiveApply /\ panelImage = "old"
    /\ \/ apply' = new /\ launch' = TRUE /\ then /\ UNCHANGED ufaults
       \/ UFault /\ apply' \in {apply, new} /\ UNCHANGED launch /\ otherwise
Launching == UNCHANGED <<panelVars, stackVars, groupFiles, check, job140, ustops>>
\* startApply returns to the request, or to the tick that waits for it
Returns(result) == /\ launch' = FALSE
                   /\ coord' = (IF coord.at = "panel" THEN [coord EXCEPT !.at = result] ELSE coord)

AdminApply == /\ PanelUp /\ BeginApply(0, TRUE, TRUE) /\ Launching /\ UNCHANGED <<coord, helper, tried>>

\* the capability, the digest and the backup of the database, each a reason to give up
AbortBeforeHelper ==
    /\ PanelUp /\ launch
    /\ IF env = panelImage THEN UFault ELSE UNCHANGED ufaults
    /\ apply' = [apply EXCEPT !.phase = "failed_rolled_back"]
    /\ Returns("refused") /\ Launching /\ UNCHANGED <<helper, tried>>
\* a status that cannot be written ends the request and leaves the phase active
ApplyUnwritten == PanelUp /\ launch /\ UFault /\ Returns("refused") /\ Launching /\ UNCHANGED helperVars
StartApplyHelper ==
    /\ PanelUp /\ launch /\ env = panelImage
    /\ helper' = "backup" /\ tried' = FALSE
    /\ Returns("started") /\ Launching /\ UNCHANGED <<apply, ufaults>>

-----------------------------------------------------------------------------
(* RunApply, in the helper container.                                       *)

\* the next step, the rollback, or the end of the helper
Goes(step) == helper' = step /\ UNCHANGED ufaults
Undo == UFault /\ helper' = "rollback"
HelperEnds(phase) == apply' = [apply EXCEPT !.phase = phase] /\ helper' = "off"
Apart == UNCHANGED <<stackVars, groupFiles, memory, ustops>>

BackUpDeployment ==
    /\ helper = "backup"
    /\ \/ Goes("pull") /\ UNCHANGED apply
       \/ UFault /\ HelperEnds("failed_rolled_back")
    /\ UNCHANGED <<panelVars, tried>> /\ Apart
\* the confirmed image by its ID, or whatever the tag stands for now
SelectImage ==
    /\ helper = "pull"
    /\ \/ /\ \E i \in {"new", "alt"} :
                /\ apply.by # 0 => i = stack.target
                /\ apply' = [apply EXCEPT !.sel = i]
          /\ Goes("env")
       \/ Undo /\ UNCHANGED apply
    /\ UNCHANGED <<panelVars, tried>> /\ Apart
UpdateEnvImage ==
    /\ helper = "env"
    /\ \/ env' = apply.sel /\ Goes("config")
       \/ Undo /\ UNCHANGED env
    /\ UNCHANGED <<panelImage, process, panelDB, apply, tried>> /\ Apart
\* the Compose file names the target, and the phase recreating is on disk
CheckConfig ==
    /\ helper = "config"
    /\ \/ Goes("up") /\ tried' = TRUE
       \/ Undo /\ UNCHANGED tried
    /\ UNCHANGED <<panelVars, apply>> /\ Apart

\* a panel whose container is stopped or replaced forgets its jobs and goroutines
Container(i, p) ==
    /\ panelImage' = i /\ process' = p
    /\ IF <<i, p>> = <<panelImage, process>> THEN UNCHANGED memory
       ELSE /\ launch' = FALSE /\ check' = FALSE /\ coord' = Idle
            /\ job140' = [g \in Groups |-> "off"]
    /\ UNCHANGED <<stackVars, groupFiles>>
\* compose up --force-recreate, cut short anywhere between the two containers
Recreated(i) == Container(i, "boot")
HalfRecreated(i) ==
    \E c \in {<<panelImage, process>>, <<"none", "stopped">>, <<i, "stopped">>, <<i, "boot">>} : Container(c[1], c[2])

RecreatePanel ==
    /\ helper = "up"
    /\ \/ Recreated(apply.sel) /\ Goes("health")
       \/ HalfRecreated(apply.sel) /\ Undo
    /\ UNCHANGED <<env, panelDB, apply, tried, ustops>>
\* healthy, with the target's version and, for a confirmed image, its content
WaitForPanel ==
    /\ helper = "health"
    /\ \/ PanelUp /\ panelImage = apply.sel /\ Goes("cleanup")
       \/ Undo
    /\ UNCHANGED <<panelVars, apply, tried>> /\ Apart
\* the old images go; the status is the last step, and the helper does not repeat it
CleanUpImages ==
    /\ helper = "cleanup"
    /\ \/ HelperEnds("succeeded") /\ UNCHANGED ufaults
       \/ UFault /\ HelperEnds(apply.phase)
    /\ UNCHANGED <<panelVars, tried>> /\ Apart

UndoFails == UFault /\ HelperEnds("rollback_failed")
\* a rollback whose phase cannot be written is not begun
BeginRollback ==
    /\ helper = "rollback"
    /\ \/ Goes(IF tried THEN "stop" ELSE "files") /\ UNCHANGED apply
       \/ UFault /\ HelperEnds(apply.phase)
    /\ UNCHANGED <<panelVars, tried>> /\ Apart
StopPanel ==
    /\ helper = "stop"
    /\ \/ Container(panelImage, "stopped") /\ Goes("db") /\ UNCHANGED apply
       \/ Container(panelImage, process) /\ UndoFails
    /\ UNCHANGED <<env, panelDB, tried, ustops>>
\* Mutant: the database stays as the new panel migrated it.
KeepDatabase ==
    /\ helper = "db" /\ Goes("files")
    /\ UNCHANGED <<panelVars, apply, tried>> /\ Apart
RestoreDatabase ==
    /\ helper = "db"
    /\ \/ panelDB' = "old" /\ Goes("files") /\ UNCHANGED apply
       \/ UndoFails /\ UNCHANGED panelDB
    /\ UNCHANGED <<panelImage, process, env, tried>> /\ Apart
RestoreDeployment ==
    /\ helper = "files"
    /\ \/ env' = "old" /\ Goes(IF tried THEN "oldUp" ELSE "oldHealth") /\ UNCHANGED apply
       \/ UndoFails /\ UNCHANGED env
    /\ UNCHANGED <<panelImage, process, panelDB, tried>> /\ Apart
RecreateOld ==
    /\ helper = "oldUp"
    /\ \/ Recreated("old") /\ Goes("oldHealth") /\ UNCHANGED apply
       \/ HalfRecreated("old") /\ UndoFails
    /\ UNCHANGED <<env, panelDB, tried, ustops>>
WaitForOldPanel ==
    /\ helper = "oldHealth"
    /\ \/ PanelUp /\ panelImage = "old" /\ HelperEnds("failed_rolled_back") /\ UNCHANGED ufaults
       \/ UFault /\ \E phase \in {"rollback_failed", apply.phase} : HelperEnds(phase)
    /\ UNCHANGED <<panelVars, tried>> /\ Apart

HelperSteps == BackUpDeployment \/ SelectImage \/ UpdateEnvImage \/ CheckConfig \/ RecreatePanel
               \/ WaitForPanel \/ CleanUpImages \/ BeginRollback \/ StopPanel \/ RestoreDatabase
               \/ RestoreDeployment \/ RecreateOld \/ WaitForOldPanel

-----------------------------------------------------------------------------
(* The panel starts: the migrations, then RecoverRuntimeUpdateApply for      *)
(* every world, before the coordinator and the HTTP server.                  *)

PanelStopped == /\ PanelUp /\ ustops < UpgradeStops /\ ufaults + ustops < UpgradeFaults
              /\ ustops' = ustops + 1
              /\ Container(panelImage, "boot")
              /\ UNCHANGED <<env, panelDB, helperVars, ufaults>>

Ended140(phase) == phase \in {"committed", "rolled_back", "claim_failed"}
Outcome140(phase) == IF phase = "committed" THEN "succeeded" ELSE "failed_rolled_back"
\* the operation whose transaction of the group is not finished or not published
Owner140(g) == CHOOSE n \in 1..Plans : txn140[n][g] # "none" /\ \A m \in 1..Plans : txn140[m][g] # "none" => m <= n
\* an open transaction is rolled back, an ended one published; a failure keeps the leases
Recover140(who, broken) ==
    LET freed == {g \in who : leased[g]} \ broken
        begun == {g \in Groups : \E n \in 1..Plans : txn140[n][g] # "none"}
        fixed == freed \cap begun
        After(g) == IF Ended140(txn140[Owner140(g)][g]) THEN txn140[Owner140(g)][g] ELSE "rolled_back" IN
    /\ txn140' = [n \in 1..Plans |-> [g \in Groups |->
                    IF g \in fixed /\ n = Owner140(g) THEN After(g) ELSE txn140[n][g]]]
    /\ told' = [g \in Groups |->
                  IF g \in fixed THEN [by |-> Owner140(g), phase |-> Outcome140(After(g))]
                  ELSE IF g \in broken \cap begun THEN [by |-> Owner140(g), phase |-> "rollback_failed"] ELSE told[g]]
    /\ leased' = [g \in Groups |-> leased[g] /\ g \notin freed]

PanelStarts ==
    /\ process = "boot" /\ process' = "up"
    /\ panelDB' = (IF panelImage = "old" THEN panelDB ELSE "new")
    /\ \/ Recover140(Groups, {}) /\ UNCHANGED ufaults
       \/ \E g \in Groups : leased[g] /\ Recover140(Groups, {g}) /\ UFault
    /\ UNCHANGED <<panelImage, env, helperVars, stackVars, memory, ustops>>

-----------------------------------------------------------------------------
(* The operation: prepared, confirmed, cancelled.  Two files are written,    *)
(* so a failing write may have changed the operation all the same.           *)

WriteStack(new, then, otherwise) ==
    \/ stack' = new /\ then /\ UNCHANGED ufaults
    \/ UFault /\ stack' \in {stack, new} /\ otherwise
Quiet140 == UNCHANGED <<panelVars, helperVars, groupFiles, launch, job140, ustops>>
Owning == stack.auth /\ (stack.phase \notin FullStackTerminal \/ stack.phase = "manual_action")
Pin == IF panelImage = "old" THEN "new" ELSE panelImage   \* PreparedPanelTarget: the dry-run's image, or the running one

PrepareFullStack ==
    LET new == [NoStack EXCEPT !.id = stack.id + 1, !.phase = "preparing", !.target = Pin, !.cont = (panelImage # "old")] IN
    /\ PanelUp /\ coord.at = "idle" /\ ~check
    /\ stack.id < Plans /\ ~Owning /\ stack.phase # "preparing"
    /\ stack.phase = "awaiting_confirmation" => expired \/ stack.target # Pin \/ stack.cont # (panelImage # "old")
    /\ expired' = FALSE
    /\ WriteStack(new, check' = TRUE, check' = FALSE)
    /\ UNCHANGED <<coord, receipt>> /\ Quiet140
\* the groups that are not on the target yet, each downloaded and captured; or a reason against
Preflight ==
    LET scope == {g \in Groups : \A n \in 1..Plans : txn140[n][g] # "committed"} IN
    /\ PanelUp /\ check /\ check' = FALSE
    /\ \/ WriteStack([stack EXCEPT !.phase = "preflight_failed"], TRUE, TRUE)
       \/ /\ \A g \in scope : ~leased[g]
          /\ WriteStack([stack EXCEPT !.phase = IF stack.cont /\ scope = {} THEN "succeeded" ELSE "awaiting_confirmation",
                                      !.scope = scope], TRUE, TRUE)
    /\ UNCHANGED <<coord, receipt, expired>> /\ Quiet140
Confirm140 ==
    /\ PanelUp /\ coord.at = "idle"
    /\ stack.phase = "awaiting_confirmation" /\ ~expired /\ Pin = stack.target
    /\ \A g \in stack.scope : ~leased[g]
    /\ WriteStack([stack EXCEPT !.phase = "waiting_panel", !.auth = TRUE], TRUE, TRUE)
    /\ UNCHANGED <<coord, check, receipt, expired>> /\ Quiet140
CancelPrepared ==
    /\ PanelUp /\ coord.at = "idle" /\ stack.id # 0
    /\ stack.phase \notin FullStackTerminal \cup {"preparing"}
    /\ stack.pid => stack.phase = "scope_changed"
    /\ \A g \in stack.scope : stack.part[g] \in {"prepared", "succeeded", "failed_rolled_back"}
    /\ WriteStack([stack EXCEPT !.phase = "failed_safe", !.cancelled = TRUE], TRUE, TRUE)
    /\ UNCHANGED <<coord, check, receipt, expired>> /\ Quiet140
Expire == /\ ~expired /\ stack.phase \notin FullStackTerminal /\ stack.id # 0
          /\ expired' = TRUE
          /\ UNCHANGED <<stack, receipt, check, coord, ufaults>> /\ Quiet140

-----------------------------------------------------------------------------
(* reconcileFullStackPanel, every two seconds under the coordinator's lock.  *)

Owned == apply.by = stack.id /\ apply.phase # "none"
Started140 == \E g \in stack.scope : txn140[stack.id][g] # "none"
Tick == PanelUp /\ coord.at = "idle" /\ stack.id # 0 /\ stack.phase \notin FullStackTerminal
Waiting == Tick /\ stack.auth /\ stack.phase # "scope_changed"
Ticked == UNCHANGED <<check, receipt, expired>> /\ Quiet140
Seen == IF Owned THEN [stack EXCEPT !.pid = TRUE] ELSE stack
WriteTick(new) == WriteStack(new, coord' = Idle, coord' = Idle) /\ Ticked
Pause == WriteTick([Seen EXCEPT !.phase = "scope_changed"])

PreflightInterrupted ==
    /\ Tick /\ ~stack.auth /\ stack.phase = "preparing" /\ ~check
    /\ WriteTick([stack EXCEPT !.phase = "preflight_failed"])
PanelGaveUp ==
    /\ Waiting /\ Owned /\ apply.phase \in {"failed_rolled_back", "rollback_failed"}
    /\ WriteTick([Seen EXCEPT !.phase = IF apply.phase = "rollback_failed" THEN "manual_action" ELSE "panel_failed_rolled_back"])
PanelOnItsWay == Waiting /\ Owned /\ ActiveApply /\ ~stack.pid /\ WriteTick(Seen)
Settled140 == Owned => apply.phase = "succeeded"

\* Mutant: an update of the panel by any hand will do.
AnyPanel == stack.cont \/ apply.phase = "succeeded"
PanelProven == stack.cont \/ (Owned /\ apply.phase = "succeeded" /\ apply.sel = stack.target)
OnTarget == Waiting /\ Settled140 /\ panelImage = stack.target /\ PanelProven
ResumeRecovery ==
    /\ OnTarget /\ stack.phase = "recovering"
    /\ coord' = [Idle EXCEPT !.at = "recover", !.todo = stack.scope, !.part = stack.part]
    /\ UNCHANGED <<stack, ufaults>> /\ Ticked
Lapse == OnTarget /\ stack.phase # "recovering" /\ expired /\ ~Started140 /\ Pause
StartGroups ==
    /\ OnTarget /\ stack.phase # "recovering" /\ (~expired \/ Started140)
    /\ WriteStack([Seen EXCEPT !.phase = "migrating"],
                  coord' = [Idle EXCEPT !.at = "next", !.part = stack.part], coord' = Idle)
    /\ Ticked

Elsewhere == Waiting /\ Settled140 /\ panelImage # stack.target
NotOurs == stack.cont \/ SameVersion(panelImage, stack.target) \/ stack.phase = "recovering" \/ ActiveApply
TargetChanged == Elsewhere /\ (NotOurs \/ panelImage = "old") /\ Pause
\* the tick keeps its lock until startApply is done
StartPanel ==
    /\ Elsewhere /\ ~NotOurs /\ ~Owned
    /\ BeginApply(stack.id, coord' = [Idle EXCEPT !.at = "panel"], coord' = [Idle EXCEPT !.at = "refused"])
    /\ UNCHANGED <<panelVars, helper, tried, stackVars, groupFiles, check, job140, ustops>>
PanelStarted == PanelUp /\ coord.at = "started" /\ WriteTick([stack EXCEPT !.pid = TRUE])
PanelRefused == PanelUp /\ coord.at = "refused" /\ Pause

TickSteps == PreflightInterrupted \/ PanelGaveUp \/ PanelOnItsWay \/ ResumeRecovery \/ Lapse \/ StartGroups
             \/ TargetChanged \/ StartPanel \/ PanelStarted \/ PanelRefused

-----------------------------------------------------------------------------
(* runFullStackGroups: one group after the other, in memory until written.   *)

Coord(step) == PanelUp /\ coord.at = step /\ UNCHANGED <<panelVars, helperVars, launch, check, expired, ustops>>
AdvanceHelper(step) == coord' = [coord EXCEPT !.at = step]
FinishStack(phase) == coord' = [coord EXCEPT !.at = (IF phase = "failed_safe" THEN "verifying" ELSE "final"), !.end = phase]
PartNow(phase) == [coord.part EXCEPT ![coord.g] = phase]
Only == UNCHANGED <<stack, receipt, groupFiles, job140, ufaults>>
Store(new, then) == /\ WriteStack(new, coord' = then, coord' = Idle)
                    /\ UNCHANGED <<receipt, groupFiles, job140>>
Mine(g) == told[g].by = stack.id
Phase(g) == txn140[stack.id][g]

NextGroup ==
    LET left == {g \in stack.scope : coord.part[g] # "succeeded"} IN
    /\ Coord("next")
    /\ IF left = {} THEN Store([stack EXCEPT !.phase = "succeeded", !.part = coord.part], Idle)
       ELSE /\ coord' = [coord EXCEPT !.g = Least(left), !.at = IF Mine(Least(left)) THEN "mark" ELSE "validate"]
            /\ Only
\* the confirmed scope is captured again: it may have changed, and the time may be over
ScopeChanged ==
    /\ Coord("validate")
    /\ Store([stack EXCEPT !.phase = "scope_changed", !.part = coord.part], Idle)
\* a start that fails keeps what it wrote; the directory of an operation's transaction is made once
StartGroup ==
    /\ Coord("validate") /\ ~expired /\ ~leased[coord.g]
    /\ LET g == coord.g
           Publish(phase) == [told EXCEPT ![g] = [by |-> stack.id, phase |-> phase]] IN
       \/ /\ Phase(g) = "none"
          /\ txn140' = [txn140 EXCEPT ![stack.id][g] = "open"] /\ told' = Publish("active")
          /\ leased' = [leased EXCEPT ![g] = TRUE] /\ job140' = [job140 EXCEPT ![g] = "run"]
          /\ AdvanceHelper("mark") /\ UNCHANGED ufaults
       \/ /\ Phase(g) = "none" /\ UFault
          /\ \E phase \in {"none", "open", "claim_failed"} :
                /\ txn140' = [txn140 EXCEPT ![stack.id][g] = phase]
                /\ \/ told' = told
                   \/ phase # "none" /\ told' = Publish("active")
                   \/ phase # "open" /\ told' = Publish("failed_rolled_back")
          /\ leased' \in {leased, [leased EXCEPT ![g] = TRUE]}
          /\ FinishStack("failed_safe") /\ UNCHANGED job140
       \/ Phase(g) # "none" /\ FinishStack("failed_safe") /\ UNCHANGED <<groupFiles, job140, ufaults>>
    /\ UNCHANGED <<stack, receipt>>
MarkApplying ==
    /\ Coord("mark")
    /\ LET part == PartNow("applying") IN
       Store([stack EXCEPT !.part = part], [coord EXCEPT !.at = "wait", !.part = part])
\* polls, writing the progress, until the public status is terminal
PollFails == Coord("wait") /\ told[coord.g].phase = "active" /\ UFault /\ coord' = Idle
             /\ UNCHANGED <<stack, receipt, groupFiles, job140>>
Polled ==
    /\ Coord("wait") /\ told[coord.g].phase # "active"
    /\ LET known == [coord EXCEPT !.part = PartNow(told[coord.g].phase)]
           verified == [known EXCEPT !.at = "receipt"]
           doubtful == [known EXCEPT !.at = "final", !.end = "manual_action"] IN
       \/ told[coord.g].phase # "rollback_failed" /\ coord' = verified
       \/ told[coord.g].phase # "failed_rolled_back" /\ coord' = doubtful
    /\ Only

\* a receipt needs an ended transaction, no lease, and the confirmed panel
Receipts(g, outcome, ok, bad) ==
    \/ /\ ~leased[g] /\ panelImage = stack.target
       /\ receipt' = [receipt EXCEPT ![g] = [by |-> stack.id, outcome |-> outcome]]
       /\ ok /\ UNCHANGED ufaults
    \/ (leased[g] \/ panelImage # stack.target) /\ bad /\ UNCHANGED <<receipt, ufaults>>
    \/ UFault /\ receipt' \in {receipt, [receipt EXCEPT ![g] = [by |-> stack.id, outcome |-> outcome]]} /\ bad
WriteCompatibility ==
    /\ Coord("receipt")
    /\ LET g == coord.g IN
       \/ /\ Phase(g) \in {"committed", "rolled_back"}
          /\ Receipts(g, Phase(g),
                      IF told[g].phase = "succeeded" THEN AdvanceHelper("keep") ELSE FinishStack("failed_safe"),
                      FinishStack("manual_action"))
       \/ /\ Phase(g) \notin {"committed", "rolled_back"} /\ FinishStack("manual_action") /\ UNCHANGED <<receipt, ufaults>>
    /\ UNCHANGED <<stack, groupFiles, job140>>
KeepGroup ==
    /\ Coord("keep")
    /\ LET part == PartNow("succeeded") IN
       Store([stack EXCEPT !.part = part], [coord EXCEPT !.at = "next", !.part = part])

\* finishFullStackFailure: no group is left without a proof of its own
VerifyRemaining ==
    /\ Coord("verifying")
    /\ Store([stack EXCEPT !.phase = "verifying_remaining", !.part = coord.part],
             [coord EXCEPT !.at = "remaining", !.todo = stack.scope])
\* Mutant: only the group that failed gets its receipt.
ReceiptsOfEnded(g, ok, bad) ==
    IF Phase(g) \in {"committed", "rolled_back"} THEN Receipts(g, Phase(g), ok, bad)
    ELSE ok /\ UNCHANGED <<receipt, ufaults>>
TerminalCompatibility(g, ok, bad) ==
    \/ Phase(g) \in {"committed", "rolled_back"} /\ Receipts(g, Phase(g), ok, bad)
    \/ Phase(g) \in {"none", "claim_failed"} /\ (Receipts(g, "untouched", ok, bad) \/ (bad /\ UNCHANGED <<receipt, ufaults>>))
    \/ Phase(g) = "open" /\ bad /\ UNCHANGED <<receipt, ufaults>>
PartProven(g) == CASE Phase(g) = "committed" -> "succeeded" [] Phase(g) = "rolled_back" -> "failed_rolled_back"
             [] OTHER -> "unchanged"
Done140(step) == coord' = [coord EXCEPT !.todo = @ \ {Least(@)}, !.at = step,
                                        !.part[Least(coord.todo)] = PartProven(Least(coord.todo))]
Remaining ==
    /\ Coord("remaining")
    /\ IF coord.todo = {} THEN AdvanceHelper("final") /\ UNCHANGED <<receipt, ufaults>>
       ELSE TerminalCompatibility(Least(coord.todo), Done140("remaining"), FinishStack("manual_action"))
    /\ UNCHANGED <<stack, groupFiles, job140>>
FinishFailure ==
    /\ Coord("final")
    /\ Store([stack EXCEPT !.phase = coord.end, !.part = coord.part], Idle)

RunnerSteps == NextGroup \/ ScopeChanged \/ StartGroup \/ MarkApplying \/ PollFails \/ Polled
               \/ WriteCompatibility \/ KeepGroup \/ VerifyRemaining \/ Remaining \/ FinishFailure

-----------------------------------------------------------------------------
(* StartFullStackRecovery and runFullStackRecovery.                          *)

RequestRecovery ==
    /\ PanelUp /\ coord.at = "idle" /\ stack.auth /\ stack.phase \in {"manual_action", "failed_safe"}
    /\ LET new == [stack EXCEPT !.phase = "recovering", !.cancelled = FALSE] IN
       WriteStack(new, coord' = [Idle EXCEPT !.at = "recover", !.todo = stack.scope, !.part = stack.part], coord' = Idle)
    /\ Ticked
RecoverGroups ==
    /\ Coord("recover")
    /\ LET g == Least(coord.todo) IN
       \/ /\ coord.todo = {}
          /\ Store([stack EXCEPT !.part = coord.part,
                                 !.phase = IF \A h \in stack.scope : Phase(h) = "committed" THEN "succeeded" ELSE "failed_safe"],
                   Idle)
       \/ /\ coord.todo # {} /\ Phase(g) \in {"none", "claim_failed"}
          /\ TerminalCompatibility(g, Done140("recover"), FinishStack("manual_action"))
          /\ UNCHANGED <<stack, groupFiles, job140>>
       \/ /\ coord.todo # {} /\ Phase(g) = "open" /\ leased[g] /\ job140[g] = "off"
          /\ Recover140({g}, {}) /\ UNCHANGED <<stack, receipt, coord, job140, ufaults>>
       \/ /\ coord.todo # {} /\ Phase(g) = "open"
          /\ IF leased[g] /\ job140[g] = "off" THEN UFault ELSE UNCHANGED ufaults
          /\ FinishStack("manual_action") /\ UNCHANGED <<stack, receipt, groupFiles, job140>>
       \/ /\ coord.todo # {} /\ Phase(g) \in {"committed", "rolled_back"}
          /\ \/ Receipts(g, Phase(g), Done140("recover"), FinishStack("manual_action"))
             \/ Phase(g) = "committed" /\ FinishStack("manual_action") /\ UNCHANGED <<receipt, ufaults>>
          /\ UNCHANGED <<stack, groupFiles, job140>>

-----------------------------------------------------------------------------
(* The upgrade job of a group, as GroupUpgrade has it: the transaction ends, *)
(* the status is published, the leases go.                                   *)

Job(g, step) == PanelUp /\ job140[g] = step /\ UNCHANGED <<panelVars, helperVars, stackVars, launch, check, coord, ustops>>
Moves(g, step) == job140' = [job140 EXCEPT ![g] = step]
GroupEnds(g) ==
    /\ Job(g, "run")
    /\ \/ /\ \E phase \in {"committed", "rolled_back"} :
                txn140' = [txn140 EXCEPT ![Owner140(g)][g] = phase]
          /\ Moves(g, "publish") /\ UNCHANGED <<told, ufaults>>
       \/ /\ UFault /\ told' = [told EXCEPT ![g].phase = "rollback_failed"]
          /\ Moves(g, "off") /\ UNCHANGED txn140
    /\ UNCHANGED leased
GroupTells(g) ==
    /\ Job(g, "publish")
    /\ \/ /\ told' = [told EXCEPT ![g].phase = Outcome140(txn140[Owner140(g)][g])]
          /\ Moves(g, "release") /\ UNCHANGED ufaults
       \/ UFault /\ Moves(g, "off") /\ told' \in {told, [told EXCEPT ![g].phase = "rollback_failed"]}
    /\ UNCHANGED <<txn140, leased>>
GroupReleases(g) ==
    /\ Job(g, "release") /\ Moves(g, "off")
    /\ \/ leased' = [leased EXCEPT ![g] = FALSE] /\ UNCHANGED ufaults
       \/ UFault /\ UNCHANGED leased
    /\ UNCHANGED <<txn140, told>>

UpgradeNext ==
    \/ AdminApply \/ AbortBeforeHelper \/ ApplyUnwritten \/ StartApplyHelper \/ HelperSteps
    \/ PanelStopped \/ PanelStarts
    \/ PrepareFullStack \/ Preflight \/ Confirm140 \/ CancelPrepared \/ Expire
    \/ TickSteps \/ RunnerSteps \/ RequestRecovery \/ RecoverGroups
    \/ \E g \in Groups : GroupEnds(g) \/ GroupTells(g) \/ GroupReleases(g)

-----------------------------------------------------------------------------
\* Every variable has its type.
UpgradeTypeOK ==
    /\ panelImage \in {"old", "new", "alt", "none"} /\ process \in {"up", "boot", "stopped"}
    /\ env \in {"old", "new", "alt"} /\ panelDB \in {"old", "new"}
    /\ apply.phase \in {"none", "active", "succeeded", "failed_rolled_back", "rollback_failed"}
    /\ apply.by \in 0..Plans /\ apply.sel \in {"none", "new", "alt"}
    /\ launch \in BOOLEAN /\ tried \in BOOLEAN /\ check \in BOOLEAN /\ expired \in BOOLEAN
    /\ stack.id \in 0..Plans /\ stack.scope \subseteq Groups
    /\ txn140 \in [1..Plans -> [Groups -> {"none", "open", "committed", "rolled_back", "claim_failed"}]]
    /\ leased \in [Groups -> BOOLEAN]
    /\ ufaults \in 0..UpgradeFaults /\ ustops \in 0..UpgradeStops

\* What the helper reports about the panel is true of it: after a success the container and the
\* deployment are the selected image; after a rollback the container, the deployment and the
\* database are the old ones.  And no panel ever serves on a database a later one has migrated.
PanelReportTrue ==
    /\ apply.phase = "succeeded" => panelImage = apply.sel /\ env = apply.sel
    /\ apply.phase = "failed_rolled_back" /\ apply.sel # "none" => panelImage = "old" /\ env = "old" /\ panelDB = "old"
    /\ PanelUp /\ panelImage = "old" => panelDB = "old"

\* What the operation reports about the groups is true of them: success means every group is
\* committed; a safe failure that is not a cancellation means every group is finished, holds no
\* lease and has a receipt of this operation that names how it ended.
StackReportTrue ==
    /\ stack.phase = "succeeded" => \A g \in stack.scope : Phase(g) = "committed"
    /\ stack.phase = "failed_safe" /\ ~stack.cancelled =>
          \A g \in stack.scope :
             /\ Phase(g) # "open" /\ ~leased[g]
             /\ receipt[g] = [by |-> stack.id, outcome |-> IF Phase(g) \in {"committed", "rolled_back"}
                                                           THEN Phase(g) ELSE "untouched"]

\* What a finished apply, or a finished operation, reports holds of the panel and of its groups.
ReportsTrue == PanelReportTrue /\ StackReportTrue

\* A group's transaction is begun only for the operation an administrator confirmed, while it
\* owns its work, and by the very panel it was confirmed for.
GroupsNeedConsent ==
    [][\A n \in 1..Plans, g \in Groups :
         txn140[n][g] = "none" /\ txn140'[n][g] # "none" =>
            /\ stack.id = n /\ Owning /\ panelImage = stack.target
            /\ stack.cont \/ (apply.phase = "succeeded" /\ apply.by = n)]_upgradeVars
=============================================================================
