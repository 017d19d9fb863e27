------------------------------ MODULE Installer ------------------------------
(***************************************************************************)
(* The installation of the game and the optional authorization of Steam    *)
(* invite codes (stardew_junimo/installer.go, junimo140_install.go,        *)
(* install_failure.go, installed_files_recovery.go, steam_invite_*.go).    *)
(*                                                                         *)
(* An installation chooses a game volume and writes a plan for it before   *)
(* Docker creates it; .env names it from then on.  It clones the volume    *)
(* named before, if there was one, lets SteamCMD download into it, adds    *)
(* SMAPI and verifies the files.  When it fails, the next one goes on in   *)
(* the same volume.  The authorization logs in with a container of its     *)
(* own, which holds the volume of the session, and writes its result to    *)
(* .env.  The two exclude each other (InstallAdmitted of JobManager).      *)
(*                                                                         *)
(* One instance.  A volume is part of the game when one of the files that  *)
(* the verification asks for is missing.  Any step may fail; the writes of *)
(* the state to the database succeed.  A cancelled job fails like one that *)
(* ran out of time, except that nobody writes its state.                   *)
(***************************************************************************)
EXTENDS Naturals

CONSTANTS
    Targets,        \* how many volumes installations may choose
    InstallFaults,  \* bound on failing steps
    InstallStops    \* bound on stops of the panel

ASSUME InstallerAssumption == Targets \in Nat /\ InstallFaults \in Nat /\ InstallStops \in Nat

Planned == 1 .. Targets     \* the volumes an installation may choose
Volumes == 0 .. Targets     \* and the one compose started with

VARIABLES
    base,    \* the instance's state, and whether its phase lets files be looked at again
    named,   \* the volume .env names
    disk,    \* what is in each volume: [there, game, smapi, fetched]
    plan,    \* the journal of each: [made, source, existed, created, prepared, verified]
    using,   \* the volumes a container of the instance, even a stopped one, refers to
    left,    \* those into which a container goes on writing that no job waits for
    task,    \* the installation: [step, resume, target, cached]
    elsewhere,   \* SteamCMD runs for another instance
    cachedLogin, \* AuthorizationCompleted of the shared credentials
    invite,  \* .env: [on, done, report]
    inviteSession, \* the volume of the session holds a login
    holder,  \* a container of the authorization exists
    authStep,   \* the step of the authorization
    panelStage, \* "up", "down", or the stage of the boot
    missteps, panelStops

installerVars == <<base, named, disk, plan, using, left, task, elsewhere, cachedLogin, invite, inviteSession,
                   holder, authStep, panelStage, missteps, panelStops>>
install    == <<base, named, disk, plan, task, cachedLogin>>
around     == <<using, left, elsewhere>>
invitation == <<invite, inviteSession, holder, authStep>>
bounds     == <<panelStage, missteps, panelStops>>

NoVolume == [there |-> FALSE, game |-> "none", smapi |-> FALSE, fetched |-> FALSE]
NoPlan   == [made |-> FALSE, source |-> 0, existed |-> FALSE, created |-> FALSE,
             prepared |-> FALSE, verified |-> FALSE]
NoTask   == [step |-> "idle", resume |-> FALSE, target |-> 0, cached |-> FALSE]

Steps     == {"idle", "preparing", "image", "choose", "bind", "create", "validate", "fill", "copy", "login",
              "download", "smapi", "marking", "verify"}
AuthSteps == {"idle", "begun", "clearing", "cleared", "login", "won", "clean", "unclean", "over"}

\* A new instance, or one installed before there were plans, by whose owner
\* invite codes were in use or not.
InstallerInit ==
    /\ base \in {"new", "installed"} /\ named = 0
    /\ disk = [v \in Volumes |-> IF v = 0 /\ base = "installed"
                                THEN [NoVolume EXCEPT !.there = TRUE, !.game = "whole", !.smapi = TRUE] ELSE NoVolume]
    /\ plan = [v \in Planned |-> NoPlan] /\ using = {} /\ left = {} /\ task = NoTask
    /\ elsewhere = FALSE /\ cachedLogin = FALSE
    /\ inviteSession \in (IF base = "installed" THEN BOOLEAN ELSE {FALSE})
    /\ invite = [on |-> inviteSession, done |-> inviteSession,
                  report |-> IF inviteSession THEN "ready" ELSE "disabled"]
    /\ holder = FALSE /\ authStep = "idle" /\ panelStage = "up" /\ missteps = 0 /\ panelStops = 0

Idle == panelStage = "up" /\ task.step = "idle" /\ authStep = "idle"

\* verifyGameDataVolume: the files the game, SMAPI and the SDK need are there.
Complete(v) == disk[v].there /\ disk[v].game = "whole" /\ disk[v].smapi

\* SteamInviteAuthState: the state shown; a completed login counts as ready.
Shown(i) == IF ~i.on THEN "disabled"
            ELSE IF i.done /\ i.report # "cleanup_pending" THEN "ready"
            ELSE i.report

Misstep == missteps < InstallFaults /\ missteps' = missteps + 1
GoTo(s) == task' = [task EXCEPT !.step = s]

-----------------------------------------------------------------------------
(* The container left behind by a login                                    *)

\* convergeSteamInviteCleanupPending, before an installation or a start: the
\* container of a login that succeeded is removed, its session kept.
CleanupRemoved(i) == IF Shown(i) = "cleanup_pending" /\ i.done THEN [i EXCEPT !.report = "ready"] ELSE i

HolderConverges ==
    IF Shown(invite) = "cleanup_pending"
    THEN invite.done /\ holder' = FALSE /\ invite' = CleanupRemoved(invite) /\ UNCHANGED <<inviteSession, authStep>>
    ELSE UNCHANGED invitation

-----------------------------------------------------------------------------
(* What is asked for                                                       *)

\* handleInstanceInstall and Install: no other instance may be installing.
\* The directory is prepared and the account saved, which forgets the cached
\* login of another one.
RequestInstall ==
    /\ Idle /\ ~elsewhere /\ HolderConverges
    /\ base' = (IF base = "new" THEN "scaffolded" ELSE base)
    /\ \E sameAccount \in BOOLEAN : cachedLogin' = (cachedLogin /\ sameAccount)
    /\ task' = [NoTask EXCEPT !.step = "preparing", !.resume = base \in {"error", "checkable", "credentials"}]
    /\ UNCHANGED <<named, disk, plan, around, bounds>>

\* The installation of another instance, to where SteamCMD ends.
OtherBegins == panelStage = "up" /\ task.step = "idle" /\ ~elsewhere /\ elsewhere' = TRUE
               /\ UNCHANGED <<install, using, left, invitation, bounds>>
OtherEnds   == elsewhere /\ elsewhere' = FALSE /\ UNCHANGED <<install, using, left, invitation, bounds>>

\* A start, and the stop after it: the containers that remain refer to the
\* volume.  Later they may be removed.
Play   == Idle /\ base = "installed" /\ HolderConverges /\ using' = {named}
          /\ UNCHANGED <<install, left, elsewhere, bounds>>
Remove == Idle /\ using # {} /\ using' = {} /\ UNCHANGED <<install, left, elsewhere, invitation, bounds>>

\* An update of SMAPI lets .env name a whole volume for which there is no plan.
Updated(v) ==
    /\ Idle /\ base = "installed" /\ ~disk[v].there /\ ~plan[v].made
    /\ disk' = [disk EXCEPT ![v] = [disk[named] EXCEPT !.fetched = FALSE]] /\ named' = v /\ using' = {v}
    /\ UNCHANGED <<base, plan, task, cachedLogin, left, elsewhere, invitation, bounds>>

\* reconcileRestoredGameFiles: the files of an error that may be looked at
\* again are whole.
FilesRechecked ==
    /\ Idle /\ base = "checkable" /\ Complete(named)
    /\ base' = "installed" /\ UNCHANGED <<named, disk, plan, task, cachedLogin, around, invitation, bounds>>

-----------------------------------------------------------------------------
(* The steps of an installation                                            *)

\* explainFailure: the error keeps the phase, hence what it says of the files;
\* refused credentials stay refused.
Explained(b) == IF b \in {"credentials", "checkable"} THEN b ELSE "error"

\* The job fails and writes b.
FailsAs(b) == Misstep /\ base' = b /\ task' = NoTask

\* What a failing step leaves behind when it writes nothing of its own: the
\* error explained, or nothing if the job was cancelled.
Unwritten == {base, Explained(base)}

\* The step s: its effect, or an error that leaves the volumes as they are and
\* the state one of ends.
At(s, ends, effect) ==
    /\ panelStage = "up" /\ task.step = s
    /\ \/ effect /\ UNCHANGED missteps
       \/ (\E b \in ends : FailsAs(b)) /\ UNCHANGED <<named, disk, plan, cachedLogin>>
    /\ UNCHANGED <<around, invitation, panelStage, panelStops>>

\* runPrepared: the files of the instance and its .env, then the image.
PrepareDirectory ==
    At("preparing", Unwritten, /\ task' = [task EXCEPT !.step = "image", !.cached = cachedLogin]
                               /\ base' = "installing" /\ UNCHANGED <<named, disk, plan, cachedLogin>>)
PullImage == At("image", {"error"}, GoTo("choose") /\ UNCHANGED <<base, named, disk, plan, cachedLogin>>)

\* A failed installation goes on with the plan of the volume .env names; if
\* there is none, it fails.  Any other chooses a new volume and writes its plan.
Resumes == task.resume /\ named # 0

ChooseVolume ==
    At("choose", Unwritten,
       /\ UNCHANGED <<base, named, disk, cachedLogin>>
       /\ \/ /\ Resumes /\ plan[named].made /\ UNCHANGED plan
             /\ task' = [task EXCEPT !.step = "create", !.target = named]
          \/ /\ ~Resumes
             /\ \E v \in Planned :
                  /\ ~disk[v].there /\ ~plan[v].made /\ \A u \in Planned : u < v => disk[u].there \/ plan[u].made
                  /\ plan' = [plan EXCEPT ![v] = [NoPlan EXCEPT !.made = TRUE, !.source = named,
                                                                !.existed = disk[named].there]]
                  /\ task' = [task EXCEPT !.step = "bind", !.target = v])

\* switchGameDataVolumeAtomic: .env names the volume of the plan just written.
BindVolume ==
    At("bind", Unwritten, named' = task.target /\ GoTo("create") /\ UNCHANGED <<base, disk, plan, cachedLogin>>)

\* A volume that the plan says was created must still be there.
CreateVolume ==
    At("create", Unwritten, /\ disk[named].there \/ ~(plan[named].created \/ plan[named].prepared)
                            /\ disk' = [disk EXCEPT ![named].there = TRUE] /\ GoTo("validate")
                            /\ UNCHANGED <<base, named, plan, cachedLogin>>)

\* No container may refer to the volume.  A prepared one is not filled again.
UnusedByGame(v) == v \notin using
AlwaysFills(p)  == p.made
Unused(v)       == v \notin using /\ v \notin left
NeedsFilling(p) == ~p.prepared

ValidateVolume ==
    At("validate", Unwritten, /\ Unused(named) /\ plan' = [plan EXCEPT ![named].created = TRUE]
                              /\ GoTo(IF NeedsFilling(plan[named]) THEN "fill" ELSE "login")
                              /\ UNCHANGED <<base, named, disk, cachedLogin>>)

\* RuntimeClonePinnedJunimo140Game: a source that is not empty replaces what
\* is in the volume.  Without one, the volume is ready as it is.
FillVolume ==
    LET p == plan[named] IN
    At("fill", Unwritten,
       /\ UNCHANGED <<base, named, cachedLogin>>
       /\ \/ p.existed /\ disk[p.source].game # "none" /\ GoTo("copy") /\ UNCHANGED plan
             /\ disk' = [disk EXCEPT ![named] = [NoVolume EXCEPT !.there = TRUE]]
          \/ ~p.existed /\ GoTo("login") /\ plan' = [plan EXCEPT ![named].prepared = TRUE] /\ UNCHANGED disk)
CopyVolume ==
    At("copy", Unwritten,
       /\ disk' = [disk EXCEPT ![named] = [disk[plan[named].source] EXCEPT !.fetched = FALSE]]
       /\ plan' = [plan EXCEPT ![named].prepared = TRUE] /\ GoTo("login") /\ UNCHANGED <<base, named, cachedLogin>>)

-----------------------------------------------------------------------------
(* SteamCMD (runSteamCMDFallback)                                          *)

SteamCMD(s) == panelStage = "up" /\ task.step = s
               /\ UNCHANGED <<named, plan, using, elsewhere, invitation, panelStage, panelStops>>

\* A context that ends kills docker's client, and the container goes on.  So it
\* does at a prompt that the cached login meets, where it finds no input.
Abandoned == left' = left \cup {named}

LogIn == SteamCMD("login") /\ GoTo("download") /\ UNCHANGED <<base, disk, cachedLogin, left, missteps>>

\* The cached login is refused, or asks for more: the account logs in anew.
CachedRefused ==
    /\ SteamCMD("login") /\ task.cached /\ cachedLogin' = FALSE /\ task' = [task EXCEPT !.cached = FALSE]
    /\ UNCHANGED <<base, disk, left, missteps>>

\* The login fails: refused, timed out, or an error of docker's.
LoginFails ==
    /\ SteamCMD("login") /\ UNCHANGED <<disk, cachedLogin>>
    /\ \/ ~task.cached /\ FailsAs("credentials") /\ UNCHANGED left
       \/ FailsAs("checkable") /\ UNCHANGED left
       \/ FailsAs("error") /\ (Abandoned \/ UNCHANGED left)

\* It writes to the volume, whose files are then those of two versions.
SteamWrites ==
    /\ SteamCMD("download") /\ ~(disk[named].game = "part" /\ disk[named].fetched)
    /\ disk' = [disk EXCEPT ![named].game = "part", ![named].fetched = TRUE]
    /\ UNCHANGED <<base, task, cachedLogin, left, missteps>>

\* It says that the game is installed, which says nothing of the SDK.
Downloaded ==
    /\ SteamCMD("download") /\ cachedLogin' = TRUE /\ GoTo("smapi")
    /\ \E g \in {"part", "whole"} : disk' = [disk EXCEPT ![named].game = g, ![named].fetched = TRUE]
    /\ UNCHANGED <<base, left, missteps>>

\* It ends otherwise, logged in all the same, or the job runs out of time.
DownloadFails ==
    /\ SteamCMD("download") /\ UNCHANGED disk
    /\ \/ cachedLogin' = TRUE /\ FailsAs("checkable") /\ UNCHANGED left
       \/ UNCHANGED cachedLogin /\ FailsAs("error") /\ Abandoned

\* A container nobody waits for goes on, and ends.
LeftWrites == \E v \in left, g \in {"part", "whole"} :
    /\ disk' = [disk EXCEPT ![v].game = g, ![v].fetched = TRUE] /\ left' = left \ {v}
    /\ UNCHANGED <<base, named, plan, task, cachedLogin, using, elsewhere, invitation, bounds>>
LeftEnds == \E v \in left :
    left' = left \ {v} /\ UNCHANGED <<install, using, elsewhere, invitation, bounds>>

-----------------------------------------------------------------------------
(* SMAPI and the end (completeInstall)                                     *)

\* ensureJunimo140SMAPIInstalled: what is there is verified anew.
BeginSmapi ==
    At("smapi", {"error"},
       /\ plan[named].made /\ plan[named].prepared /\ GoTo("marking")
       /\ plan' = [plan EXCEPT ![named].verified = @ /\ ~disk[named].smapi]
       /\ UNCHANGED <<base, named, disk, cachedLogin>>)
MarkGame ==
    At("marking", {"error"},
       /\ disk[named].game = "whole" /\ disk' = [disk EXCEPT ![named].smapi = TRUE]
       /\ plan' = [plan EXCEPT ![named].verified = TRUE] /\ GoTo("verify") /\ UNCHANGED <<base, named, cachedLogin>>)

\* The bundled mods are copied and the files verified.
VerifyInstall ==
    At("verify", {"error", "checkable"},
       Complete(named) /\ base' = "installed" /\ task' = NoTask /\ UNCHANGED <<named, disk, plan, cachedLogin>>)

Installs == \/ RequestInstall \/ PrepareDirectory \/ PullImage \/ ChooseVolume \/ BindVolume \/ CreateVolume
            \/ ValidateVolume \/ FillVolume \/ CopyVolume \/ LogIn \/ CachedRefused \/ LoginFails \/ SteamWrites
            \/ Downloaded \/ DownloadFails \/ BeginSmapi \/ MarkGame \/ VerifyInstall

-----------------------------------------------------------------------------
(* The authorization of invite codes (run with authOnly)                   *)

AuthAt(s) == panelStage = "up" /\ authStep = s /\ UNCHANGED <<install, around, panelStage, panelStops>>

\* Not when the last one is valid, or its container has not been removed.
RequestAuth ==
    /\ Idle /\ base = "installed" /\ Shown(invite) \notin {"ready", "cleanup_pending"}
    /\ invite' = [invite EXCEPT !.on = TRUE, !.report = IF invite.done THEN "ready" ELSE "pending"]
    /\ authStep' = "begun" /\ UNCHANGED <<inviteSession, holder, install, around, bounds>>

BeginAuth == AuthAt("begun") /\ invite' = [invite EXCEPT !.report = "authorizing"] /\ authStep' = "clearing"
             /\ UNCHANGED <<inviteSession, holder, missteps>>

\* clearSteamAuthSessionVolumes: the containers first, then the volume; then
\* .env forgets the login.
ClearSession == AuthAt("clearing") /\ holder' = FALSE /\ inviteSession' = FALSE /\ authStep' = "cleared"
                /\ UNCHANGED <<invite, missteps>>
ForgetLogin  == AuthAt("cleared") /\ invite' = [invite EXCEPT !.done = FALSE] /\ authStep' = "login"
                /\ UNCHANGED <<inviteSession, holder, missteps>>

\* Before the container is there, any step may fail, also after the containers
\* of the session are gone.
AuthFails == /\ \E s \in {"begun", "clearing", "cleared", "login"} : AuthAt(s)
             /\ Misstep /\ authStep' = "over" /\ ((authStep = "clearing" /\ holder' = FALSE) \/ UNCHANGED holder)
             /\ UNCHANGED <<invite, inviteSession>>

\* runSteamAuthAttempt: a container logs in, and is stopped when it has, or
\* has not.  A connection that fails is tried again.
StartLogin == AuthAt("login") /\ ~holder /\ holder' = TRUE /\ UNCHANGED <<invite, inviteSession, authStep, missteps>>
LoginWon   == AuthAt("login") /\ holder /\ inviteSession' = TRUE /\ authStep' = "won"
              /\ UNCHANGED <<invite, holder, missteps>>
LoginLost  == /\ AuthAt("login") /\ holder /\ UNCHANGED <<invite, inviteSession>>
              /\ \/ holder' = FALSE /\ authStep' \in {"login", "over"} /\ Misstep
                 \/ authStep' = "over" /\ Misstep /\ UNCHANGED holder
LoginStops == /\ AuthAt("won") /\ UNCHANGED <<invite, inviteSession>>
              /\ \/ holder' = FALSE /\ authStep' = "clean" /\ UNCHANGED missteps
                 \/ authStep' = "unclean" /\ Misstep /\ UNCHANGED holder

\* SetSteamAuthCompletedState: the login and what became of its container.
CompletedAs(clean) == [on |-> TRUE, done |-> TRUE, report |-> IF clean THEN "ready" ELSE "cleanup_pending"]

PersistLogin == /\ authStep \in {"clean", "unclean"} /\ AuthAt(authStep) /\ authStep' = "over"
                /\ UNCHANGED <<inviteSession, holder>>
                /\ \/ invite' = CompletedAs(authStep = "clean") /\ UNCHANGED missteps
                   \/ Misstep /\ UNCHANGED invite

\* The deferred report, and the same for one the panel's stop interrupted.
Settled(i) == IF Shown(i) = "cleanup_pending" THEN i
              ELSE [i EXCEPT !.report = IF i.done THEN "ready" ELSE IF i.on THEN "failed" ELSE "disabled"]

EndAuth == AuthAt("over") /\ invite' = Settled(invite) /\ authStep' = "idle"
           /\ UNCHANGED <<inviteSession, holder, missteps>>

Authorizes == \/ RequestAuth \/ BeginAuth \/ ClearSession \/ ForgetLogin \/ AuthFails \/ StartLogin \/ LoginWon
              \/ LoginLost \/ LoginStops \/ PersistLogin \/ EndAuth

-----------------------------------------------------------------------------
(* The panel                                                               *)

\* SteamCMD goes on without the job, as does the container of an authorization.
\* The other helpers of an installation stop at limits of their own.
Running == {"login", "download"}
StopPanel ==
    /\ panelStage # "down" /\ panelStops < InstallStops
    /\ panelStage' = "down" /\ panelStops' = panelStops + 1
    /\ left' = (IF task.step \in Running THEN left \cup {named} ELSE left)
    /\ UNCHANGED <<install, using, elsewhere, invitation, missteps>>

\* RecoverInterrupted: an instance being installed is in error, unless its
\* state is that of an installed one; an authorization is settled.
BootJobs ==
    /\ panelStage = "down" /\ panelStage' = "invite"
    /\ base' = (IF task.step # "idle" /\ base # "installed" THEN "error" ELSE base) /\ task' = NoTask
    /\ invite' = (IF authStep # "idle" THEN Settled(invite) ELSE invite) /\ authStep' = "idle"
    /\ UNCHANGED <<named, disk, plan, cachedLogin, around, inviteSession, holder, missteps, panelStops>>

\* RecoverInterruptedSteamInviteAuthorization, which may fail: the container
\* of a failed login is removed, then its session.
BootInvite ==
    /\ panelStage = "invite" /\ panelStage' = "up" /\ UNCHANGED <<install, around, authStep, panelStops>>
    /\ LET failed == invite.on /\ Shown(invite) \in {"failed", "authorizing"} IN
       \/ /\ invite' = CleanupRemoved(invite) /\ UNCHANGED missteps
          /\ holder' = (holder /\ ~failed /\ Shown(invite) # "cleanup_pending")
          /\ inviteSession' = (inviteSession /\ ~failed)
       \/ Misstep /\ UNCHANGED <<invite, inviteSession>> /\ ((failed /\ holder' = FALSE) \/ UNCHANGED holder)

Panel == StopPanel \/ BootJobs \/ BootInvite

InstallerNext == \/ Installs \/ Authorizes \/ Panel \/ Play \/ Remove \/ FilesRechecked \/ OtherBegins \/ OtherEnds
                 \/ LeftWrites \/ LeftEnds \/ \E v \in Planned : Updated(v)

InstallerSpec == InstallerInit /\ [][InstallerNext]_installerVars

-----------------------------------------------------------------------------
(* Properties                                                              *)

InstallerTypeOK ==
    /\ base \in {"new", "scaffolded", "installing", "installed", "credentials", "checkable", "error"}
    /\ named \in Volumes /\ using \subseteq Volumes /\ left \subseteq Volumes
    /\ disk \in [Volumes -> [there : BOOLEAN, game : {"none", "part", "whole"}, smapi : BOOLEAN, fetched : BOOLEAN]]
    /\ plan \in [Planned -> [made : BOOLEAN, source : Volumes, existed : BOOLEAN, created : BOOLEAN,
                             prepared : BOOLEAN, verified : BOOLEAN]]
    /\ task \in [step : Steps, resume : BOOLEAN, target : Volumes, cached : BOOLEAN]
    /\ {elsewhere, cachedLogin, inviteSession, holder} \subseteq BOOLEAN /\ authStep \in AuthSteps
    /\ invite \in [on : BOOLEAN, done : BOOLEAN,
                   report : {"disabled", "pending", "authorizing", "cleanup_pending", "ready", "failed"}]
    /\ panelStage \in {"up", "down", "invite"} /\ missteps \in 0 .. InstallFaults /\ panelStops \in 0 .. InstallStops

\* What the panel shows is so: an instance shown as installed has a volume
\* with all its files, whichever failures, retries, containers left behind and
\* stops came before; and invite codes are shown as ready only with a session
\* whose container is gone, as cleanup_pending only with a session.
ShownIsTrue ==
    /\ base = "installed" => Complete(named)
    /\ (panelStage = "up" /\ authStep = "idle" /\ Shown(invite) = "ready") => (inviteSession /\ ~holder)
    /\ (panelStage = "up" /\ authStep = "idle" /\ Shown(invite) = "cleanup_pending") => inviteSession

\* "A failed or interrupted download therefore keeps the same owned destination
\* on retry": what SteamCMD has put into a volume is never cleared, neither by a
\* retry nor by a clone that begins again.
DownloadKept == [][\A v \in Volumes : disk[v].fetched => disk'[v].fetched /\ disk'[v].game # "none"]_installerVars

\* "SteamCMD mutates its machine authorization cache, so concurrent game
\* downloads must not write that volume at the same time": SteamCMD does not run
\* for another instance while a container of this one goes on.
OneDownload == elsewhere => left = {} /\ task.step \notin {"login", "download"}
=============================================================================
