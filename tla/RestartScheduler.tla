--------------------------- MODULE RestartScheduler ---------------------------
(***************************************************************************)
(* The daily maintenance window of an instance                              *)
(* (web/restart_schedule_handlers.go, storage/restart_schedules.go).        *)
(*                                                                         *)
(* One goroutine of the panel polls; a tick works on the row as it was      *)
(* listed and on the time it began, while the window is reconfigured, users *)
(* start and stop the server and the jobs of the driver go on.  The marks   *)
(* in the row are all that outlives the panel.                              *)
(***************************************************************************)
EXTENDS Integers

CONSTANTS Day,          \* units of time in a day; a tick happens in each of them
          Grace,        \* units after the startup in which it may still be made up for
          Horizon,      \* the last moment looked at
          Disturbances  \* bound on faults, users' operations, reconfigurations and slow ticks

ASSUME ScheduleAssumption == Day \in Nat \ {0} /\ {Grace, Horizon, Disturbances} \subseteq Nat /\ Day <= Horizon

VARIABLES
    clock,      \* the time
    plan,       \* the configured half of the row in restart_schedules
    marks,      \* last_shutdown_at and last_startup_at
    tick,       \* the tick under way
    ticked,     \* when the last tick began
    awake,      \* the panel is up
    warned,     \* warningsSent: the shutdowns announced by this panel
    host,     \* the server and the lifecycle job on it
    closed,   \* history: shutdowns that were ever marked
    maintained, \* history: the last window whose shutdown was submitted
    disturbed   \* how many disturbances there have been

scheduleVars == <<clock, plan, marks, tick, ticked, awake, warned, host, closed, maintained, disturbed>>

Never  == 0
NoTick == [step |-> "none", at |-> 0, plan |-> [on |-> FALSE, shut |-> 0, start |-> 0], marks |-> [shut |-> Never, start |-> Never], seen |-> "stopped"]
Schedules(on) == [on : on, shut : 0..(Day - 1), start : 0..(Day - 1)]

\* A server that runs, under a schedule nobody has used
ScheduleInit ==
    /\ clock = Day /\ plan \in Schedules({TRUE}) /\ marks = [shut |-> Never, start |-> Never]
    /\ tick = NoTick /\ ticked = Never /\ awake = TRUE /\ warned = {} /\ host = "running"
    /\ closed = {} /\ maintained = [start |-> 0, alone |-> FALSE] /\ disturbed = 0

-----------------------------------------------------------------------------
(* The window                                                               *)

\* currentRestartScheduleWindow: the last shutdown, and the startup after it,
\* a whole day later where both are configured for the same time
CurrentShutdown(p, t) == t - ((t - p.shut) % Day)
StartupAfter(p, s) == s + 1 + ((p.start - p.shut - 1) % Day)
\* nextRestartScheduleWindow
NextShutdown(p, t) == CurrentShutdown(p, t) + Day
\* shouldRunScheduleAction
ShouldRun(last, at) == last < at

\* A disturbance ends what can be promised of the window.
Disturb == disturbed < Disturbances /\ disturbed' = disturbed + 1 /\ maintained' = [maintained EXCEPT !.alone = FALSE]
Undisturbed   == UNCHANGED <<disturbed, maintained>>
On(step) == awake /\ tick.step = step
TickTo(step) == tick' = [tick EXCEPT !.step = step]
OnlyTick == UNCHANGED <<clock, plan, marks, ticked, awake, warned, host, closed>>

\* A job of the driver is active.
JobActive == host \in {"stopping", "starting"}
\* What the row says of the instance: a runner publishes after it was admitted.
Shown(s) == CASE s = "stopping" -> {"running", "stopped"} [] s = "starting" -> {"stopped", "starting"} [] OTHER -> {s}

-----------------------------------------------------------------------------
(* A tick                                                                   *)

\* ListEnabledRestartSchedules; other instances may come first.
ListSchedules ==
    /\ On("none") /\ ticked # clock /\ ticked' = clock
    /\ tick' = IF plan.on THEN [step |-> "listed", at |-> clock, plan |-> plan, marks |-> marks, seen |-> "stopped"] ELSE NoTick
    /\ Undisturbed /\ UNCHANGED <<clock, plan, marks, awake, warned, host, closed>>

\* processSchedule: the reconciled instance, the warning one unit ahead, and
\* what is due
Due(now, seen) ==
    LET shut  == CurrentShutdown(tick.plan, now)
        start == StartupAfter(tick.plan, shut)
    IN  IF now < start /\ ShouldRun(tick.marks.shut, shut) THEN "shutdown"
        ELSE IF now >= start /\ now - start <= Grace /\ ShouldRun(tick.marks.start, start) THEN "startup" ELSE "none"
ProcessSchedule(seen) ==
    /\ On("listed") /\ seen \in Shown(host)
    /\ tick' = IF Due(tick.at, seen) = "none" THEN NoTick ELSE [tick EXCEPT !.step = Due(tick.at, seen), !.seen = seen]
    /\ LET next == NextShutdown(tick.plan, tick.at)
       IN  IF seen = "running" /\ next - tick.at = 1
           THEN warned' \in {warned, warned \cup {next}}   \* or the command cannot be written
           ELSE UNCHANGED warned
    /\ Undisturbed /\ UNCHANGED <<clock, plan, marks, ticked, awake, host, closed>>

\* The instance cannot be read.
ProcessFails == On("listed") /\ tick' = NoTick /\ Disturb /\ OnlyTick

ShutdownAt == CurrentShutdown(tick.plan, tick.at)
StartupAt  == StartupAfter(tick.plan, ShutdownAt)

\* runShutdown: another operation or an owner is in the way ...
ShutdownBlocked ==
    /\ On("shutdown") /\ TickTo("shut") /\ ((Undisturbed /\ JobActive) \/ Disturb)
    /\ OnlyTick
\* ... or there is nothing to stop ...
NothingToStop ==
    /\ On("shutdown") /\ ~JobActive /\ tick.seen \notin {"running", "starting"} /\ TickTo("shut")
    /\ Undisturbed /\ OnlyTick
\* ... or players are online, or the backup fails.
ShutdownSkipped ==
    /\ On("shutdown") /\ ~JobActive /\ TickTo("shut") /\ Disturb
    /\ OnlyTick
ReadyToStop ==
    /\ On("shutdown") /\ ~JobActive /\ tick.seen \in {"running", "starting"} /\ TickTo("stop")
    /\ Undisturbed /\ OnlyTick
\* Driver.Stop: accepted, even beside a stop; a new job only without one
SubmitStop ==
    /\ On("stop") /\ TickTo("shut") /\ host # "starting" /\ host' = "stopping"
    /\ maintained' = [start |-> StartupAt, alone |-> plan = tick.plan /\ clock = tick.at /\ host = "running"]
    /\ UNCHANGED <<clock, plan, marks, ticked, awake, warned, closed, disturbed>>
StopRefused ==
    /\ On("stop") /\ TickTo("shut") /\ ((Undisturbed /\ host = "starting") \/ Disturb)
    /\ OnlyTick

\* runStartup: it is up already; or another operation, an owner or a missing
\* save is in the way.
StartupSkipped ==
    /\ On("startup") /\ TickTo("start")
    /\ ((Undisturbed /\ (tick.seen \in {"running", "starting"} \/ host # "stopped")) \/ Disturb)
    /\ OnlyTick
SubmitStart ==
    /\ On("startup") /\ tick.seen \notin {"running", "starting"} /\ host = "stopped"
    /\ host' = "starting" /\ TickTo("start")
    /\ Undisturbed /\ UNCHANGED <<clock, plan, marks, ticked, awake, warned, closed>>

\* MarkRestartScheduleAction, whatever became of the action
MarkedAt(action) == IF action = "shut" THEN ShutdownAt ELSE StartupAt
MarkAction(action) ==
    /\ On(action) /\ tick' = NoTick
    /\ \/ /\ marks' = [marks EXCEPT ![action] = MarkedAt(action)] /\ Undisturbed
          /\ closed' = IF action = "shut" THEN closed \cup {ShutdownAt} ELSE closed
       \/ Disturb /\ UNCHANGED <<marks, closed>>   \* the write fails
    /\ UNCHANGED <<clock, plan, ticked, awake, warned, host>>

-----------------------------------------------------------------------------
(* Everything else                                                          *)

\* Mutant: a new configuration is a new row.
UpsertAnew(p) == plan' = p /\ marks' = [shut |-> Never, start |-> Never]
\* UpsertRestartSchedule: on conflict, the configured half
Upsert(p) == plan' = p /\ UNCHANGED marks
PutSchedule(p) == awake /\ Upsert(p) /\ Disturb /\ UNCHANGED <<clock, tick, ticked, awake, warned, host, closed>>

\* A runner ends its job, or fails.
JobFinishes ==
    /\ awake /\ JobActive
    /\ \/ host' = (IF host = "stopping" THEN "stopped" ELSE "running") /\ Undisturbed
       \/ host' \in {"running", "stopped"} /\ Disturb
    /\ UNCHANGED <<clock, plan, marks, tick, ticked, awake, warned, closed>>
\* A user has the driver start or stop it, or it exits by itself.
UserActs ==
    /\ awake /\ ~JobActive /\ Disturb
    /\ host' \in (IF host = "running" THEN {"stopping", "starting", "stopped"} ELSE {"starting"})
    /\ UNCHANGED <<clock, plan, marks, tick, ticked, awake, warned, closed>>

\* Boot recovery fails the job that was active; the container is where it is.
SchedulerDies ==
    /\ awake /\ awake' = FALSE /\ tick' = NoTick /\ ticked' = Never /\ warned' = {} /\ Disturb
    /\ host' \in (IF JobActive THEN {"running", "stopped"} ELSE {host})
    /\ UNCHANGED <<clock, plan, marks, closed>>
SchedulerBoots ==
    /\ ~awake /\ awake' = TRUE /\ Undisturbed /\ UNCHANGED <<clock, plan, marks, tick, ticked, warned, host, closed>>

\* Time passes between two ticks.  A stop that lasts until the startup is due
\* is a disturbance, and so is a tick that lasts.
TimePasses ==
    /\ clock < Horizon /\ clock' = clock + 1
    /\ \/ ~awake /\ Undisturbed
       \/ tick = NoTick /\ ticked = clock /\ Undisturbed /\ ~(host = "stopping" /\ clock' >= maintained.start)
       \/ awake /\ Disturb
    /\ UNCHANGED <<plan, marks, tick, ticked, awake, warned, host, closed>>

ScheduleNext ==
    \/ ListSchedules \/ (\E seen \in {"running", "stopped", "starting"} : ProcessSchedule(seen)) \/ ProcessFails
    \/ ShutdownBlocked \/ NothingToStop \/ ShutdownSkipped \/ ReadyToStop \/ SubmitStop \/ StopRefused
    \/ StartupSkipped \/ SubmitStart \/ (\E action \in {"shut", "start"} : MarkAction(action))
    \/ (\E p \in Schedules(BOOLEAN) : PutSchedule(p)) \/ JobFinishes \/ UserActs
    \/ SchedulerDies \/ SchedulerBoots \/ TimePasses

ScheduleSpec == ScheduleInit /\ [][ScheduleNext]_scheduleVars

-----------------------------------------------------------------------------
(* Properties                                                               *)

\* Every variable has its type.
ScheduleTypeOK ==
    /\ clock \in Day..Horizon /\ plan \in Schedules(BOOLEAN) /\ {marks.shut, marks.start} \subseteq 0..(Horizon + Day)
    /\ tick.step \in {"none", "listed", "shutdown", "startup", "stop", "shut", "start"}
    /\ tick.at \in 0..Horizon /\ tick.plan \in Schedules(BOOLEAN) /\ tick.seen \in {"running", "stopped", "starting"}
    /\ ticked \in 0..Horizon /\ awake \in BOOLEAN /\ warned \subseteq 0..(Horizon + Day)
    /\ host \in {"running", "stopping", "stopped", "starting"}
    /\ closed \subseteq 0..Horizon /\ maintained.alone \in BOOLEAN /\ disturbed \in 0..Disturbances

\* A server the schedule has taken down in a window nothing disturbed is up
\* again, or on its way, when the grace after the startup is over, provided
\* that its two times differ.
ComesBack ==
    maintained.alone /\ plan.shut # plan.start /\ clock > maintained.start + Grace => host \in {"starting", "running"}

\* Whatever is reconfigured and whenever the panel stops, a shutdown that was
\* answered is never submitted again: who starts the server inside the window
\* keeps it.
AnsweredOnce == On("stop") => ShutdownAt \notin closed

ScheduleKept == ComesBack /\ AnsweredOnce
=============================================================================
