--------------------------- MODULE UpdateProofs ---------------------------
(***************************************************************************)
(* Proofs about what replaces a volume of the game: installations, and the *)
(* updates of SMAPI with their rollbacks.                                  *)
(***************************************************************************)
EXTENDS MCRuntimeUpdate, RuntimeProofs, TLAPS

-----------------------------------------------------------------------------
(***************************************************************************)
(* Installations.  The invariant says of every volume what its plan and    *)
(* its contents make of each other, where the installation at hand is, and *)
(* that whatever still writes to a volume writes to none that is used.     *)
(***************************************************************************)
\* The types the argument uses, by what they are about.
Contents == [there : BOOLEAN, game : {"none", "part", "whole"}, smapi : BOOLEAN, fetched : BOOLEAN]
Journals == [made : BOOLEAN, source : Volumes, existed : BOOLEAN, created : BOOLEAN,
             prepared : BOOLEAN, verified : BOOLEAN]
Tasks    == [step : Steps, resume : BOOLEAN, target : Volumes, cached : BOOLEAN]
Bases    == {"new", "scaffolded", "installing", "installed", "credentials", "checkable", "error"}
Invites  == [on : BOOLEAN, done : BOOLEAN,
             report : {"disabled", "pending", "authorizing", "cleanup_pending", "ready", "failed"}]
Around ==
    /\ named \in Volumes /\ using \subseteq Volumes /\ left \subseteq Volumes
    /\ elsewhere \in BOOLEAN /\ cachedLogin \in BOOLEAN
    /\ panelStage \in {"up", "down", "invite"} /\ missteps \in 0 .. InstallFaults /\ panelStops \in 0 .. InstallStops
Stored == disk \in [Volumes -> Contents] /\ plan \in [Planned -> Journals]
Doing  == base \in Bases /\ task \in Tasks
Asked  == invite \in Invites /\ inviteSession \in BOOLEAN /\ holder \in BOOLEAN /\ authStep \in AuthSteps

\* The steps at which .env names the volume of the plan, at which no container
\* writes to it any more, and at which it has been filled.
Bound    == {"create", "validate", "fill", "copy", "login", "download", "smapi", "marking", "verify"}
Awaiting == {"fill", "copy", "login", "download", "smapi", "marking", "verify"}
Filled   == {"login", "download", "smapi", "marking", "verify"}

\* What a volume and its plan say of each other.
Planning(p, d) ==
    /\ \A v \in Planned : p[v].prepared => p[v].made /\ d[v].there
    /\ \A v \in Planned : p[v].existed => d[p[v].source].there
    /\ \A v \in Volumes : d[v].fetched => v \in Planned /\ p[v].prepared /\ d[v].game # "none"
\* Where an installation is.
Working(t, b, n, p, d) ==
    /\ t.step \notin {"idle", "preparing"} => b = "installing"
    /\ t.step = "bind" => t.target \in Planned /\ p[t.target].made
    /\ t.step \in Bound => n \in Planned /\ p[n].made
    /\ t.step = "validate" => d[n].there
    /\ t.step \in {"fill", "copy"} => ~p[n].prepared /\ d[n].there
    /\ t.step = "copy" => p[n].existed
    /\ t.step \in Filled => p[n].prepared
\* A container nobody waits for writes to a volume that was filled, and not to one
\* that is used.
Leaving(l, p, n, b, t, s) ==
    /\ \A v \in l : v \in Planned /\ p[v].prepared
    /\ b \in {"installed", "checkable"} \/ (s # "down" /\ t.step \in Awaiting) => n \notin l
Whole(b, n, d) == b = "installed" => d[n].there /\ d[n].game = "whole" /\ d[n].smapi
\* A login on record has its session, and is the last thing an authorization does.
Inviting(i, hasSession, h, a, s) ==
    /\ i.done => i.on /\ hasSession /\ a \in {"idle", "over"} /\ i.report \in {"ready", "cleanup_pending"}
    /\ i.done /\ i.report = "ready" => ~h
    /\ ~i.done => i.report \notin {"ready", "cleanup_pending"}
    /\ a \in {"won", "clean", "unclean"} => hasSession
    /\ a # "idle" => i.on
    /\ a = "clean" => ~h
    /\ s = "invite" => a = "idle"
InstallInv ==
    /\ Around /\ Stored /\ Doing /\ Asked
    /\ Planning(plan, disk)
    /\ Working(task, base, named, plan, disk)
    /\ Leaving(left, plan, named, base, task, panelStage)
    /\ Whole(base, named, disk)
    /\ Inviting(invite, inviteSession, holder, authStep, panelStage)

LEMMA Numbers ==
    /\ Planned \subseteq Volumes /\ 0 \in Volumes
    /\ \A v \in Volumes : v # 0 => v \in Planned
    /\ \A v \in Planned : v # 0
BY InstallerAssumption DEF Planned, Volumes

LEMMA JobFails ==
    ASSUME InstallInv, panelStage = "up", NEW b \in Bases, FailsAs(b),
           b \in {"installed", "checkable"} => named \notin left',
           b = "installed" => base = "installed",
           UNCHANGED <<named, disk, plan, using, elsewhere, panelStage, panelStops, invitation>>,
           cachedLogin' \in BOOLEAN,
           left' = left \/ (left' = left \cup {named} /\ task.step \in Filled)
    PROVE  InstallInv'
<1> USE DEF InstallInv, Around, Stored, Contents, Journals, Doing, Working
<1>0. missteps' \in 0 .. InstallFaults  BY InstallerAssumption DEF FailsAs, Misstep
<1>u. UNCHANGED <<named, disk, plan, using, elsewhere, panelStage, panelStops, invite, inviteSession, holder, authStep>>
  BY DEF invitation
<1>t. task' = NoTask /\ task'.step = "idle" /\ task' \in Tasks /\ base' = b
  BY Numbers DEF FailsAs, NoTask, Tasks, Steps
<1>1. Around'  BY <1>0, <1>u, <1>t
<1>2. Stored'  BY <1>0, <1>u, <1>t
<1>3. Doing'  BY <1>0, <1>u, <1>t DEF Bases, Tasks, Steps
<1>4. Asked'  BY <1>0, <1>u, <1>t DEF Asked, Invites, AuthSteps
<1>5. (Planning(plan, disk))'  BY <1>0, <1>u, <1>t DEF Planning, Bound, Filled
<1>6. (Working(task, base, named, plan, disk))'
    BY <1>0, <1>u, <1>t DEF Planning, Bound, Filled, Awaiting
<1>7. (Leaving(left, plan, named, base, task, panelStage))'
    BY <1>0, <1>u, <1>t DEF Planning, Leaving, Bound, Filled, Awaiting
<1>8. (Whole(base, named, disk))'  BY <1>0, <1>u, <1>t DEF Leaving, Awaiting, Whole
<1>9. (Inviting(invite, inviteSession, holder, authStep, panelStage))'
    BY <1>0, <1>u, <1>t DEF Asked, Invites, AuthSteps, Inviting
<1>10. QED BY <1>1, <1>2, <1>3, <1>4, <1>5, <1>6, <1>7, <1>8, <1>9

LEMMA InstallStep == InstallInv /\ InstallerNext => InstallInv'
<1> SUFFICES ASSUME InstallInv, InstallerNext PROVE InstallInv'
  OBVIOUS
<1> USE Numbers
<1>1. CASE RequestInstall
  <2> USE DEF InstallInv, Around, RequestInstall, HolderConverges, CleanupRemoved, Idle, NoTask,
     Shown, around, bounds, install, invitation
  <2>0. missteps' \in 0 .. InstallFaults /\ panelStops' \in 0 .. InstallStops
    BY <1>1, InstallerAssumption
  <2>1. Around'  BY <1>1, <2>0
  <2>2. Stored'  BY <1>1, <2>0 DEF Stored, Contents, Journals
  <2>3. Doing'
    <3>1. base' \in Bases  BY <1>1 DEF Doing, Bases
    <3>2. (base \in {"error", "checkable", "credentials"}) \in BOOLEAN  OBVIOUS
    <3>3. task' \in Tasks  BY <1>1, <3>2, Numbers DEF Tasks, Steps
    <3>4. QED BY <3>1, <3>3 DEF Doing
  <2>4. Asked'  BY <1>1, <2>0 DEF Asked, Invites, AuthSteps
  <2>5. (Planning(plan, disk))'
      BY <1>1, <2>0 DEF Stored, Contents, Journals, Planning, Working, Bound, Filled
  <2>6. (Working(task, base, named, plan, disk))'
      BY <1>1, <2>0 DEF Stored, Contents, Journals, Doing, Planning, Working, Bound, Filled,
         Awaiting
  <2>7. (Leaving(left, plan, named, base, task, panelStage))'
      BY <1>1, <2>0 DEF Stored, Contents, Journals, Doing, Planning, Working, Leaving, Bound,
         Filled, Awaiting
  <2>8. (Whole(base, named, disk))'
      BY <1>1, <2>0 DEF Stored, Contents, Doing, Working, Leaving, Awaiting, Whole
  <2>9. (Inviting(invite, inviteSession, holder, authStep, panelStage))'
      BY <1>1, <2>0 DEF Asked, Invites, AuthSteps, Inviting
  <2>10. QED BY <2>1, <2>2, <2>3, <2>4, <2>5, <2>6, <2>7, <2>8, <2>9
<1>2. CASE PrepareDirectory
  <2> USE DEF InstallInv, around, Around, invitation
  <2>1. panelStage = "up" /\ task.step = "preparing" /\ UNCHANGED <<around, invitation, panelStage, panelStops>>
    BY <1>2 DEF PrepareDirectory, At
  <2>2. ASSUME NEW b \in Unwritten, FailsAs(b), UNCHANGED <<named, disk, plan, cachedLogin>>
        PROVE  InstallInv'
    <3>1. b \in Bases /\ (b \in {"installed", "checkable"} => named \notin left) /\ (b = "installed" => base = "installed")
      BY <2>1, <2>2 DEF Doing, Bases, Leaving, Awaiting, Working, Unwritten, Explained
    <3>2. QED BY <2>1, <2>2, <3>1, JobFails
  <2>3. ASSUME missteps' = missteps, UNCHANGED <<named, disk, plan, cachedLogin>>, base' = "installing", task' = [task EXCEPT !.step = "image", !.cached = cachedLogin]
        PROVE  InstallInv'
    <3>0. /\ task' \in Tasks /\ task'.step = "image"
      BY <2>1, <2>3 DEF Planned, Stored, Contents, Journals, Doing, Tasks, Steps, Working, Bound
    <3>1. Around'  BY <2>1, <2>3, <3>0
    <3>2. Stored'  BY <2>1, <2>3, <3>0 DEF Stored, Contents, Journals
    <3>3. Doing'  BY <2>1, <2>3, <3>0 DEF Doing, Bases, Tasks, Steps
    <3>4. Asked'  BY <2>1, <2>3, <3>0 DEF Asked, Invites, AuthSteps
    <3>5. (Planning(plan, disk))'
        BY <2>1, <2>3, <3>0 DEF Stored, Contents, Journals, Planning, Working, Bound, Filled
    <3>6. (Working(task, base, named, plan, disk))'
        BY <2>1, <2>3, <3>0 DEF Stored, Contents, Journals, Doing, Planning, Working, Bound,
           Filled, Awaiting
    <3>7. (Leaving(left, plan, named, base, task, panelStage))'
        BY <2>1, <2>3, <3>0 DEF Stored, Contents, Journals, Doing, Planning, Working, Leaving,
           Bound, Filled, Awaiting
    <3>8. (Whole(base, named, disk))'
        BY <2>1, <2>3, <3>0 DEF Stored, Contents, Doing, Working, Leaving, Awaiting, Whole
    <3>9. (Inviting(invite, inviteSession, holder, authStep, panelStage))'
        BY <2>1, <2>3, <3>0 DEF Asked, Invites, AuthSteps, Inviting
    <3>10. QED BY <3>1, <3>2, <3>3, <3>4, <3>5, <3>6, <3>7, <3>8, <3>9
  <2>4. QED BY <1>2, <2>2, <2>3 DEF PrepareDirectory, At
<1>3. CASE PullImage
  <2> USE DEF InstallInv, around, Around, invitation
  <2>1. panelStage = "up" /\ task.step = "image" /\ UNCHANGED <<around, invitation, panelStage, panelStops>>
    BY <1>3 DEF PullImage, At
  <2>2. ASSUME NEW b \in {"error"}, FailsAs(b), UNCHANGED <<named, disk, plan, cachedLogin>>
        PROVE  InstallInv'
    <3>1. b \in Bases /\ (b \in {"installed", "checkable"} => named \notin left) /\ (b = "installed" => base = "installed")
      BY <2>1, <2>2 DEF Doing, Bases, Leaving, Awaiting, Working, Unwritten, Explained
    <3>2. QED BY <2>1, <2>2, <3>1, JobFails
  <2>3. ASSUME missteps' = missteps, UNCHANGED <<base, named, disk, plan, cachedLogin>>, GoTo("choose")
        PROVE  InstallInv'
    <3>0. /\ task' \in Tasks /\ task'.step = "choose"
      BY <2>1, <2>3 DEF GoTo, Stored, Contents, Journals, Doing, Tasks, Steps, Working, Bound
    <3>1. Around'  BY <2>1, <2>3, <3>0
    <3>2. Stored'  BY <2>1, <2>3, <3>0 DEF Stored, Contents, Journals
    <3>3. Doing'  BY <2>1, <2>3, <3>0 DEF Doing, Bases, Tasks, Steps
    <3>4. Asked'  BY <2>1, <2>3, <3>0 DEF Asked, Invites, AuthSteps
    <3>5. (Planning(plan, disk))'
        BY <2>1, <2>3, <3>0 DEF Stored, Contents, Journals, Planning, Working, Bound, Filled
    <3>6. (Working(task, base, named, plan, disk))'
        BY <2>1, <2>3, <3>0 DEF Stored, Contents, Journals, Doing, Planning, Working, Bound,
           Filled, Awaiting
    <3>7. (Leaving(left, plan, named, base, task, panelStage))'
        BY <2>1, <2>3, <3>0 DEF Stored, Contents, Journals, Doing, Planning, Working, Leaving,
           Bound, Filled, Awaiting
    <3>8. (Whole(base, named, disk))'
        BY <2>1, <2>3, <3>0 DEF Stored, Contents, Doing, Working, Leaving, Awaiting, Whole
    <3>9. (Inviting(invite, inviteSession, holder, authStep, panelStage))'
        BY <2>1, <2>3, <3>0 DEF Asked, Invites, AuthSteps, Inviting
    <3>10. QED BY <3>1, <3>2, <3>3, <3>4, <3>5, <3>6, <3>7, <3>8, <3>9
  <2>4. QED BY <1>3, <2>2, <2>3 DEF PullImage, At
<1>4. CASE ChooseVolume
  <2> USE DEF InstallInv, around, Around, Stored, Contents, invitation
  <2>1. panelStage = "up" /\ task.step = "choose" /\ UNCHANGED <<around, invitation, panelStage, panelStops>>
    BY <1>4 DEF ChooseVolume, At
  <2>2. ASSUME NEW b \in Unwritten, FailsAs(b), UNCHANGED <<named, disk, plan, cachedLogin>>
        PROVE  InstallInv'
    <3>1. b \in Bases /\ (b \in {"installed", "checkable"} => named \notin left) /\ (b = "installed" => base = "installed")
      BY <2>1, <2>2 DEF Doing, Bases, Leaving, Awaiting, Working, Unwritten, Explained
    <3>2. QED BY <2>1, <2>2, <3>1, JobFails
  <2>3. ASSUME missteps' = missteps, UNCHANGED <<base, named, cachedLogin>>, Resumes, plan[named].made,
               task' = [task EXCEPT !.step = "create", !.target = named], UNCHANGED <<disk, plan>>
        PROVE  InstallInv'
    <3>0. /\ task' \in Tasks /\ task'.step = "create"
          /\ named \in Planned /\ plan[named].made
      BY <2>1, <2>3 DEF Resumes, NoPlan, Journals, Doing, Tasks, Steps, Working, Bound
    <3>1. Around'  BY <2>1, <2>3, <3>0
    <3>2. Stored'  BY <2>1, <2>3, <3>0 DEF Journals
    <3>3. Doing'  BY <2>1, <2>3, <3>0 DEF Doing, Bases, Tasks, Steps
    <3>4. Asked'  BY <2>1, <2>3, <3>0 DEF Asked, Invites, AuthSteps
    <3>5. (Planning(plan, disk))'
        BY <2>1, <2>3, <3>0 DEF Journals, Planning, Working, Bound, Filled
    <3>6. (Working(task, base, named, plan, disk))'
        BY <2>1, <2>3, <3>0 DEF Journals, Doing, Planning, Working, Bound, Filled, Awaiting
    <3>7. (Leaving(left, plan, named, base, task, panelStage))'
        BY <2>1, <2>3, <3>0 DEF Journals, Doing, Planning, Working, Leaving, Bound, Filled, Awaiting
    <3>8. (Whole(base, named, disk))'
        BY <2>1, <2>3, <3>0 DEF Doing, Working, Leaving, Awaiting, Whole
    <3>9. (Inviting(invite, inviteSession, holder, authStep, panelStage))'
        BY <2>1, <2>3, <3>0 DEF Asked, Invites, AuthSteps, Inviting
    <3>10. QED BY <3>1, <3>2, <3>3, <3>4, <3>5, <3>6, <3>7, <3>8, <3>9
  <2>4. ASSUME missteps' = missteps, UNCHANGED <<base, named, cachedLogin>>, NEW v \in Planned, ~disk[v].there, ~plan[v].made,
               plan' = [plan EXCEPT ![v] = [NoPlan EXCEPT !.made = TRUE, !.source = named,
               !.existed = disk[named].there]],
               task' = [task EXCEPT !.step = "bind", !.target = v], disk' = disk
        PROVE  InstallInv'
    <3>0. /\ task' \in Tasks /\ task'.step = "bind"
          /\ task'.target = v
          /\ plan' \in [Planned -> Journals] /\ (\A u \in Planned : u # v => plan'[u] = plan[u])
          /\ plan'[v].made /\ ~plan'[v].prepared /\ plan'[v].source = named /\ plan'[v].existed = disk[named].there
      <4>1. task' \in Tasks /\ task'.step = "bind"
        BY <2>1, <2>4 DEF Resumes, NoPlan, Journals, Doing, Tasks, Steps, Working, Bound
      <4>2. task'.target = v
        BY <2>1, <2>4 DEF Resumes, NoPlan, Journals, Doing, Tasks, Steps, Working, Bound
      <4>3. plan' \in [Planned -> Journals] /\ (\A u \in Planned : u # v => plan'[u] = plan[u])
        BY <2>1, <2>4 DEF Resumes, NoPlan, Journals, Doing, Tasks, Steps, Working, Bound
      <4>4. plan'[v].made /\ ~plan'[v].prepared /\ plan'[v].source = named /\ plan'[v].existed = disk[named].there
        BY <2>1, <2>4 DEF Resumes, NoPlan, Journals, Doing, Tasks, Steps, Working, Bound
      <4>5. QED BY <4>1, <4>2, <4>3, <4>4
    <3>1. Around'  BY <2>1, <2>4, <3>0
    <3>2. Stored'  BY <2>1, <2>4, <3>0 DEF Journals
    <3>3. Doing'  BY <2>1, <2>4, <3>0 DEF Doing, Bases, Tasks, Steps
    <3>4. Asked'  BY <2>1, <2>4, <3>0 DEF Asked, Invites, AuthSteps
    <3>5. (Planning(plan, disk))'
        BY <2>1, <2>4, <3>0 DEF Journals, Planning, Working, Bound, Filled
    <3>6. (Working(task, base, named, plan, disk))'
        BY <2>1, <2>4, <3>0 DEF Journals, Doing, Planning, Working, Bound, Filled, Awaiting
    <3>7. (Leaving(left, plan, named, base, task, panelStage))'
        BY <2>1, <2>4, <3>0 DEF Journals, Doing, Planning, Working, Leaving, Bound, Filled, Awaiting
    <3>8. (Whole(base, named, disk))'
        BY <2>1, <2>4, <3>0 DEF Doing, Working, Leaving, Awaiting, Whole
    <3>9. (Inviting(invite, inviteSession, holder, authStep, panelStage))'
        BY <2>1, <2>4, <3>0 DEF Asked, Invites, AuthSteps, Inviting
    <3>10. QED BY <3>1, <3>2, <3>3, <3>4, <3>5, <3>6, <3>7, <3>8, <3>9
  <2>5. QED BY <1>4, <2>2, <2>3, <2>4 DEF ChooseVolume, At
<1>5. CASE BindVolume
  <2> USE DEF InstallInv, around, Around, invitation
  <2>1. panelStage = "up" /\ task.step = "bind" /\ UNCHANGED <<around, invitation, panelStage, panelStops>>
    BY <1>5 DEF BindVolume, At
  <2>2. ASSUME NEW b \in Unwritten, FailsAs(b), UNCHANGED <<named, disk, plan, cachedLogin>>
        PROVE  InstallInv'
    <3>1. b \in Bases /\ (b \in {"installed", "checkable"} => named \notin left) /\ (b = "installed" => base = "installed")
      BY <2>1, <2>2 DEF Doing, Bases, Leaving, Awaiting, Working, Unwritten, Explained
    <3>2. QED BY <2>1, <2>2, <3>1, JobFails
  <2>3. ASSUME missteps' = missteps, UNCHANGED <<base, disk, plan, cachedLogin>>, named' = task.target, GoTo("create")
        PROVE  InstallInv'
    <3>0. /\ task' \in Tasks /\ task'.step = "create"
          /\ named' \in Planned /\ plan[named'].made
      BY <2>1, <2>3 DEF GoTo, Stored, Contents, Journals, Doing, Tasks, Steps, Working, Bound
    <3>1. Around'  BY <2>1, <2>3, <3>0
    <3>2. Stored'  BY <2>1, <2>3, <3>0 DEF Stored, Contents, Journals
    <3>3. Doing'  BY <2>1, <2>3, <3>0 DEF Doing, Bases, Tasks, Steps
    <3>4. Asked'  BY <2>1, <2>3, <3>0 DEF Asked, Invites, AuthSteps
    <3>5. (Planning(plan, disk))'
        BY <2>1, <2>3, <3>0 DEF Stored, Contents, Journals, Planning, Working, Bound, Filled
    <3>6. (Working(task, base, named, plan, disk))'
        BY <2>1, <2>3, <3>0 DEF Stored, Contents, Journals, Doing, Planning, Working, Bound,
           Filled, Awaiting
    <3>7. (Leaving(left, plan, named, base, task, panelStage))'
        BY <2>1, <2>3, <3>0 DEF Stored, Contents, Journals, Doing, Planning, Working, Leaving,
           Bound, Filled, Awaiting
    <3>8. (Whole(base, named, disk))'
        BY <2>1, <2>3, <3>0 DEF Stored, Contents, Doing, Working, Leaving, Awaiting, Whole
    <3>9. (Inviting(invite, inviteSession, holder, authStep, panelStage))'
        BY <2>1, <2>3, <3>0 DEF Asked, Invites, AuthSteps, Inviting
    <3>10. QED BY <3>1, <3>2, <3>3, <3>4, <3>5, <3>6, <3>7, <3>8, <3>9
  <2>4. QED BY <1>5, <2>2, <2>3 DEF BindVolume, At
<1>6. CASE CreateVolume
  <2> USE DEF InstallInv, around, Around, invitation
  <2>1. panelStage = "up" /\ task.step = "create" /\ UNCHANGED <<around, invitation, panelStage, panelStops>>
    BY <1>6 DEF CreateVolume, At
  <2>2. ASSUME NEW b \in Unwritten, FailsAs(b), UNCHANGED <<named, disk, plan, cachedLogin>>
        PROVE  InstallInv'
    <3>1. b \in Bases /\ (b \in {"installed", "checkable"} => named \notin left) /\ (b = "installed" => base = "installed")
      BY <2>1, <2>2 DEF Doing, Bases, Leaving, Awaiting, Working, Unwritten, Explained
    <3>2. QED BY <2>1, <2>2, <3>1, JobFails
  <2>3. ASSUME missteps' = missteps, UNCHANGED <<base, named, plan, cachedLogin>>, disk[named].there \/ ~(plan[named].created \/ plan[named].prepared),
               disk' = [disk EXCEPT ![named].there = TRUE], GoTo("validate")
        PROVE  InstallInv'
    <3>0. /\ task' \in Tasks /\ task'.step = "validate"
          /\ disk' \in [Volumes -> Contents] /\ (\A v \in Volumes : v # named => disk'[v] = disk[v])
          /\ disk'[named] = [disk[named] EXCEPT !.there = TRUE]
      <4>1. task' \in Tasks /\ task'.step = "validate"
        BY <2>1, <2>3 DEF GoTo, Stored, Contents, Journals, Doing, Tasks, Steps, Working, Bound
      <4>2. disk' \in [Volumes -> Contents] /\ (\A v \in Volumes : v # named => disk'[v] = disk[v])
        BY ZenonT(60), <2>1, <2>3 DEF GoTo, Stored, Contents, Journals, Doing, Tasks, Steps, Working, Bound
      <4>3. disk'[named] = [disk[named] EXCEPT !.there = TRUE]
        BY <2>1, <2>3 DEF GoTo, Stored, Contents, Journals, Doing, Tasks, Steps, Working, Bound
      <4>4. QED BY <4>1, <4>2, <4>3
    <3>1. Around'  BY <2>1, <2>3, <3>0
    <3>2. Stored'  BY <2>1, <2>3, <3>0 DEF Stored, Contents, Journals
    <3>3. Doing'  BY <2>1, <2>3, <3>0 DEF Doing, Bases, Tasks, Steps
    <3>4. Asked'  BY <2>1, <2>3, <3>0 DEF Asked, Invites, AuthSteps
    <3>5. (Planning(plan, disk))'
        BY <2>1, <2>3, <3>0 DEF Stored, Contents, Journals, Planning, Working, Bound, Filled
    <3>6. (Working(task, base, named, plan, disk))'
        BY <2>1, <2>3, <3>0 DEF Stored, Contents, Journals, Doing, Planning, Working, Bound,
           Filled, Awaiting
    <3>7. (Leaving(left, plan, named, base, task, panelStage))'
        BY <2>1, <2>3, <3>0 DEF Stored, Contents, Journals, Doing, Planning, Working, Leaving,
           Bound, Filled, Awaiting
    <3>8. (Whole(base, named, disk))'
        BY <2>1, <2>3, <3>0 DEF Stored, Contents, Doing, Working, Leaving, Awaiting, Whole
    <3>9. (Inviting(invite, inviteSession, holder, authStep, panelStage))'
        BY <2>1, <2>3, <3>0 DEF Asked, Invites, AuthSteps, Inviting
    <3>10. QED BY <3>1, <3>2, <3>3, <3>4, <3>5, <3>6, <3>7, <3>8, <3>9
  <2>4. QED BY <1>6, <2>2, <2>3 DEF CreateVolume, At
<1>7. CASE ValidateVolume
  <2> USE DEF InstallInv, Doing, Working, around, Around, Stored, Contents, invitation
  <2>1. panelStage = "up" /\ task.step = "validate" /\ UNCHANGED <<around, invitation, panelStage, panelStops>>
    BY <1>7 DEF ValidateVolume, At
  <2>2. ASSUME NEW b \in Unwritten, FailsAs(b), UNCHANGED <<named, disk, plan, cachedLogin>>
        PROVE  InstallInv'
    <3>1. b \in Bases /\ (b \in {"installed", "checkable"} => named \notin left) /\ (b = "installed" => base = "installed")
      BY <2>1, <2>2 DEF Bases, Leaving, Awaiting, Unwritten, Explained
    <3>2. QED BY <2>1, <2>2, <3>1, JobFails
  <2>3. ASSUME missteps' = missteps, UNCHANGED <<base, named, disk, cachedLogin>>, named \notin left, plan' = [plan EXCEPT ![named].created = TRUE], plan[named].prepared, GoTo("login")
        PROVE  InstallInv'
    <3>0. /\ task' \in Tasks /\ task'.step = "login"
          /\ plan' \in [Planned -> Journals] /\ (\A v \in Planned : v # named => plan'[v] = plan[v])
          /\ plan'[named] = [plan[named] EXCEPT !.created = TRUE]
      <4>1. task' \in Tasks /\ task'.step = "login"
        BY <2>1, <2>3 DEF GoTo, Journals, Tasks, Steps, Bound
      <4>2. plan' \in [Planned -> Journals] /\ (\A v \in Planned : v # named => plan'[v] = plan[v])
        BY ZenonT(60), <2>1, <2>3 DEF GoTo, Journals, Tasks, Steps, Bound
      <4>3. plan'[named] = [plan[named] EXCEPT !.created = TRUE]
        BY <2>1, <2>3 DEF GoTo, Journals, Tasks, Steps, Bound
      <4>4. QED BY <4>1, <4>2, <4>3
    <3>1. Around'  BY <2>1, <2>3, <3>0
    <3>2. Stored'  BY <2>1, <2>3, <3>0 DEF Journals
    <3>3. Doing'  BY <2>1, <2>3, <3>0 DEF Bases, Tasks, Steps
    <3>4. Asked'  BY <2>1, <2>3, <3>0 DEF Asked, Invites, AuthSteps
    <3>5. (Planning(plan, disk))'  BY <2>1, <2>3, <3>0 DEF Journals, Planning, Bound, Filled
    <3>6. (Working(task, base, named, plan, disk))'
        BY <2>1, <2>3, <3>0 DEF Journals, Planning, Bound, Filled, Awaiting
    <3>7. (Leaving(left, plan, named, base, task, panelStage))'
        BY <2>1, <2>3, <3>0 DEF Journals, Planning, Leaving, Bound, Filled, Awaiting
    <3>8. (Whole(base, named, disk))'  BY <2>1, <2>3, <3>0 DEF Leaving, Awaiting, Whole
    <3>9. (Inviting(invite, inviteSession, holder, authStep, panelStage))'
        BY <2>1, <2>3, <3>0 DEF Asked, Invites, AuthSteps, Inviting
    <3>10. QED BY <3>1, <3>2, <3>3, <3>4, <3>5, <3>6, <3>7, <3>8, <3>9
  <2>4. ASSUME missteps' = missteps, UNCHANGED <<base, named, disk, cachedLogin>>, named \notin left, plan' = [plan EXCEPT ![named].created = TRUE], ~plan[named].prepared, GoTo("fill")
        PROVE  InstallInv'
    <3>0. /\ task' \in Tasks /\ task'.step = "fill"
          /\ plan' \in [Planned -> Journals] /\ (\A v \in Planned : v # named => plan'[v] = plan[v])
          /\ plan'[named] = [plan[named] EXCEPT !.created = TRUE]
      <4>1. task' \in Tasks /\ task'.step = "fill"
        BY <2>1, <2>4 DEF GoTo, Journals, Tasks, Steps, Bound
      <4>2. plan' \in [Planned -> Journals] /\ (\A v \in Planned : v # named => plan'[v] = plan[v])
        BY ZenonT(60), <2>1, <2>4 DEF GoTo, Journals, Tasks, Steps, Bound
      <4>3. plan'[named] = [plan[named] EXCEPT !.created = TRUE]
        BY <2>1, <2>4 DEF GoTo, Journals, Tasks, Steps, Bound
      <4>4. QED BY <4>1, <4>2, <4>3
    <3>1. Around'  BY <2>1, <2>4, <3>0
    <3>2. Stored'  BY <2>1, <2>4, <3>0 DEF Journals
    <3>3. Doing'  BY <2>1, <2>4, <3>0 DEF Bases, Tasks, Steps
    <3>4. Asked'  BY <2>1, <2>4, <3>0 DEF Asked, Invites, AuthSteps
    <3>5. (Planning(plan, disk))'  BY <2>1, <2>4, <3>0 DEF Journals, Planning, Bound, Filled
    <3>6. (Working(task, base, named, plan, disk))'
        BY <2>1, <2>4, <3>0 DEF Journals, Planning, Bound, Filled, Awaiting
    <3>7. (Leaving(left, plan, named, base, task, panelStage))'
        BY <2>1, <2>4, <3>0 DEF Journals, Planning, Leaving, Bound, Filled, Awaiting
    <3>8. (Whole(base, named, disk))'  BY <2>1, <2>4, <3>0 DEF Leaving, Awaiting, Whole
    <3>9. (Inviting(invite, inviteSession, holder, authStep, panelStage))'
        BY <2>1, <2>4, <3>0 DEF Asked, Invites, AuthSteps, Inviting
    <3>10. QED BY <3>1, <3>2, <3>3, <3>4, <3>5, <3>6, <3>7, <3>8, <3>9
  <2>5. QED BY <1>7, <2>2, <2>3, <2>4 DEF ValidateVolume, At, Unused, NeedsFilling, GoTo
<1>8. CASE FillVolume
  <2> USE DEF InstallInv, Doing, Working, around, Around, Stored, Contents, invitation
  <2>1. panelStage = "up" /\ task.step = "fill" /\ UNCHANGED <<around, invitation, panelStage, panelStops>>
    BY <1>8 DEF FillVolume, At
  <2>2. ASSUME NEW b \in Unwritten, FailsAs(b), UNCHANGED <<named, disk, plan, cachedLogin>>
        PROVE  InstallInv'
    <3>1. b \in Bases /\ (b \in {"installed", "checkable"} => named \notin left) /\ (b = "installed" => base = "installed")
      BY <2>1, <2>2 DEF Bases, Leaving, Awaiting, Unwritten, Explained
    <3>2. QED BY <2>1, <2>2, <3>1, JobFails
  <2>3. ASSUME missteps' = missteps, UNCHANGED <<base, named, cachedLogin>>, plan[named].existed, GoTo("copy"), plan' = plan,
               disk' = [disk EXCEPT ![named] = [NoVolume EXCEPT !.there = TRUE]]
        PROVE  InstallInv'
    <3>0. /\ task' \in Tasks /\ task'.step = "copy"
          /\ disk' \in [Volumes -> Contents] /\ (\A v \in Volumes : v # named => disk'[v] = disk[v])
          /\ disk'[named].there /\ ~disk'[named].fetched
      <4>1. task' \in Tasks /\ task'.step = "copy"
        BY <2>1, <2>3 DEF GoTo, NoVolume, Journals, Tasks, Steps, Bound
      <4>2. disk' \in [Volumes -> Contents] /\ (\A v \in Volumes : v # named => disk'[v] = disk[v])
        BY <2>1, <2>3 DEF GoTo, NoVolume, Journals, Tasks, Steps, Bound
      <4>3. disk'[named].there /\ ~disk'[named].fetched
        BY <2>1, <2>3 DEF GoTo, NoVolume, Journals, Tasks, Steps, Bound
      <4>4. QED BY <4>1, <4>2, <4>3
    <3>1. Around'  BY <2>1, <2>3, <3>0
    <3>2. Stored'  BY <2>1, <2>3, <3>0 DEF Journals
    <3>3. Doing'  BY <2>1, <2>3, <3>0 DEF Bases, Tasks, Steps
    <3>4. Asked'  BY <2>1, <2>3, <3>0 DEF Asked, Invites, AuthSteps
    <3>5. (Planning(plan, disk))'  BY <2>1, <2>3, <3>0 DEF Journals, Planning, Bound, Filled
    <3>6. (Working(task, base, named, plan, disk))'
        BY <2>1, <2>3, <3>0 DEF Journals, Planning, Bound, Filled, Awaiting
    <3>7. (Leaving(left, plan, named, base, task, panelStage))'
        BY <2>1, <2>3, <3>0 DEF Journals, Planning, Leaving, Bound, Filled, Awaiting
    <3>8. (Whole(base, named, disk))'  BY <2>1, <2>3, <3>0 DEF Leaving, Awaiting, Whole
    <3>9. (Inviting(invite, inviteSession, holder, authStep, panelStage))'
        BY <2>1, <2>3, <3>0 DEF Asked, Invites, AuthSteps, Inviting
    <3>10. QED BY <3>1, <3>2, <3>3, <3>4, <3>5, <3>6, <3>7, <3>8, <3>9
  <2>4. ASSUME missteps' = missteps, UNCHANGED <<base, named, cachedLogin>>, GoTo("login"), plan' = [plan EXCEPT ![named].prepared = TRUE], disk' = disk
        PROVE  InstallInv'
    <3>0. /\ task' \in Tasks /\ task'.step = "login"
          /\ plan' \in [Planned -> Journals] /\ (\A v \in Planned : v # named => plan'[v] = plan[v])
          /\ plan'[named] = [plan[named] EXCEPT !.prepared = TRUE]
      <4>1. task' \in Tasks /\ task'.step = "login"
        BY <2>1, <2>4 DEF GoTo, NoVolume, Journals, Tasks, Steps, Bound
      <4>2. plan' \in [Planned -> Journals] /\ (\A v \in Planned : v # named => plan'[v] = plan[v])
        BY ZenonT(60), <2>1, <2>4 DEF GoTo, NoVolume, Journals, Tasks, Steps, Bound
      <4>3. plan'[named] = [plan[named] EXCEPT !.prepared = TRUE]
        BY <2>1, <2>4 DEF GoTo, NoVolume, Journals, Tasks, Steps, Bound
      <4>4. QED BY <4>1, <4>2, <4>3
    <3>1. Around'  BY <2>1, <2>4, <3>0
    <3>2. Stored'  BY <2>1, <2>4, <3>0 DEF Journals
    <3>3. Doing'  BY <2>1, <2>4, <3>0 DEF Bases, Tasks, Steps
    <3>4. Asked'  BY <2>1, <2>4, <3>0 DEF Asked, Invites, AuthSteps
    <3>5. (Planning(plan, disk))'  BY <2>1, <2>4, <3>0 DEF Journals, Planning, Bound, Filled
    <3>6. (Working(task, base, named, plan, disk))'
        BY <2>1, <2>4, <3>0 DEF Journals, Planning, Bound, Filled, Awaiting
    <3>7. (Leaving(left, plan, named, base, task, panelStage))'
        BY <2>1, <2>4, <3>0 DEF Journals, Planning, Leaving, Bound, Filled, Awaiting
    <3>8. (Whole(base, named, disk))'  BY <2>1, <2>4, <3>0 DEF Leaving, Awaiting, Whole
    <3>9. (Inviting(invite, inviteSession, holder, authStep, panelStage))'
        BY <2>1, <2>4, <3>0 DEF Asked, Invites, AuthSteps, Inviting
    <3>10. QED BY <3>1, <3>2, <3>3, <3>4, <3>5, <3>6, <3>7, <3>8, <3>9
  <2>5. QED BY <1>8, <2>2, <2>3, <2>4 DEF FillVolume, At
<1>9. CASE CopyVolume
  <2> USE DEF InstallInv, Stored
  <2>1. panelStage = "up" /\ task.step = "copy" /\ UNCHANGED <<around, invitation, panelStage, panelStops>>
    BY <1>9 DEF CopyVolume, At
  <2>2. ASSUME NEW b \in Unwritten, FailsAs(b), UNCHANGED <<named, disk, plan, cachedLogin>>
        PROVE  InstallInv'
    <3>1. b \in Bases /\ (b \in {"installed", "checkable"} => named \notin left) /\ (b = "installed" => base = "installed")
      BY <2>1, <2>2 DEF Doing, Bases, Leaving, Awaiting, Working, Unwritten, Explained
    <3>2. QED BY <2>1, <2>2, <3>1, JobFails DEF around, Around
  <2>3. ASSUME missteps' = missteps, UNCHANGED <<base, named, cachedLogin>>, disk' = [disk EXCEPT ![named] = [disk[plan[named].source] EXCEPT !.fetched = FALSE]],
               plan' = [plan EXCEPT ![named].prepared = TRUE], GoTo("login")
        PROVE  InstallInv'
    <3>p. named \in Planned /\ plan[named].source \in Volumes
      BY <2>1, <2>3 DEF Around, Contents, Journals, Working, Bound
    <3>q. [disk[plan[named].source] EXCEPT !.fetched = FALSE] \in Contents
      <4>1. disk[plan[named].source] \in Contents  BY <3>p
      <4>2. \A r \in Contents : [r EXCEPT !.fetched = FALSE] \in Contents  BY DEF Contents
      <4>3. QED BY <4>1, <4>2
    <3>0. /\ task' \in Tasks /\ task'.step = "login"
          /\ disk' \in [Volumes -> Contents] /\ (\A v \in Volumes : v # named => disk'[v] = disk[v])
          /\ disk'[named] = [disk[plan[named].source] EXCEPT !.fetched = FALSE]
          /\ plan' \in [Planned -> Journals] /\ (\A v \in Planned : v # named => plan'[v] = plan[v])
          /\ plan'[named] = [plan[named] EXCEPT !.prepared = TRUE]
          /\ plan[named].source \in Volumes
      <4>1. task' \in Tasks /\ task'.step = "login"
        BY <2>1, <2>3, <3>p, <3>q DEF GoTo, Around, Contents, Journals, Doing, Tasks, Steps,
           Working, Bound
      <4>2. disk' \in [Volumes -> Contents] /\ (\A v \in Volumes : v # named => disk'[v] = disk[v])
        BY <2>1, <2>3, <3>p, <3>q
      <4>3. disk'[named] = [disk[plan[named].source] EXCEPT !.fetched = FALSE]
        BY <2>1, <2>3, <3>p, <3>q
      <4>4. plan' \in [Planned -> Journals] /\ (\A v \in Planned : v # named => plan'[v] = plan[v])
        BY <2>1, <2>3, <3>p, <3>q DEF Journals
      <4>5. plan'[named] = [plan[named] EXCEPT !.prepared = TRUE]
        BY <2>1, <2>3, <3>p, <3>q DEF Journals
      <4>6. plan[named].source \in Volumes
        BY <2>1, <2>3, <3>p, <3>q DEF GoTo, Around, Contents, Journals, Doing, Tasks, Steps,
           Working, Bound
      <4>7. QED BY <4>1, <4>2, <4>3, <4>4, <4>5, <4>6
    <3>1. Around'  BY <2>1, <2>3, <3>0 DEF Around, around, invitation
    <3>2. Stored'  BY <2>1, <2>3, <3>0 DEF Around, Contents, Journals, around, invitation
    <3>3. Doing'  BY <2>1, <2>3, <3>0 DEF Around, Doing, Bases, Tasks, Steps, around, invitation
    <3>4. Asked'  BY <2>1, <2>3, <3>0 DEF Asked, Invites, AuthSteps, around, invitation
    <3>5. (Planning(plan, disk))'
        BY <2>1, <2>3, <3>0 DEF Around, Contents, Journals, Planning, Working, Bound, Filled,
           around, invitation
    <3>6. (Working(task, base, named, plan, disk))'
        BY <2>1, <2>3, <3>0 DEF Around, Contents, Journals, Doing, Planning, Working, Bound,
           Filled, Awaiting, around, invitation
    <3>7. (Leaving(left, plan, named, base, task, panelStage))'
        BY <2>1, <2>3, <3>0 DEF Around, Contents, Journals, Doing, Planning, Working, Leaving,
           Bound, Filled, Awaiting, around, invitation
    <3>8. (Whole(base, named, disk))'
        BY <2>1, <2>3, <3>0 DEF Around, Contents, Doing, Working, Leaving, Awaiting, Whole,
           around, invitation
    <3>9. (Inviting(invite, inviteSession, holder, authStep, panelStage))'
        BY <2>1, <2>3, <3>0 DEF Asked, Invites, AuthSteps, Inviting, around, invitation
    <3>10. QED BY <3>1, <3>2, <3>3, <3>4, <3>5, <3>6, <3>7, <3>8, <3>9
  <2>4. QED BY <1>9, <2>2, <2>3 DEF CopyVolume, At
<1>10. CASE LogIn
  <2> USE DEF InstallInv, Around, Stored, Contents
  <2>s. panelStage = "up" /\ task.step = "login"  BY <1>10 DEF LogIn, SteamCMD, At
  <2>e. /\ task' \in Tasks /\ task'.step = "download"
        /\ UNCHANGED <<base, named, disk, plan, cachedLogin, left, missteps>>
        /\ UNCHANGED <<using, elsewhere, invite, inviteSession, holder, authStep, panelStage, panelStops>>
    BY <1>10, <2>s DEF LogIn, SteamCMD, GoTo, Journals, Doing, Tasks, Steps, Working, Bound,
       Filled, invitation
  <2>1. Around'  BY <2>s, <2>e
  <2>2. Stored'  BY <2>s, <2>e DEF Journals
  <2>3. Doing'  BY <2>s, <2>e DEF Doing, Bases, Tasks, Steps
  <2>4. Asked'  BY <2>s, <2>e DEF Asked, Invites, AuthSteps
  <2>5. (Planning(plan, disk))'  BY <2>s, <2>e DEF Journals, Planning, Working, Bound, Filled
  <2>6. (Working(task, base, named, plan, disk))'
      BY <2>s, <2>e DEF Journals, Doing, Planning, Working, Bound, Filled, Awaiting
  <2>7. (Leaving(left, plan, named, base, task, panelStage))'
      BY <2>s, <2>e DEF Journals, Doing, Planning, Working, Leaving, Bound, Filled, Awaiting
  <2>8. (Whole(base, named, disk))'  BY <2>s, <2>e DEF Doing, Working, Leaving, Awaiting, Whole
  <2>9. (Inviting(invite, inviteSession, holder, authStep, panelStage))'
      BY <2>s, <2>e DEF Asked, Invites, AuthSteps, Inviting
  <2>10. QED BY <2>1, <2>2, <2>3, <2>4, <2>5, <2>6, <2>7, <2>8, <2>9
<1>11. CASE CachedRefused
  <2> USE DEF InstallInv, Around, Stored, Contents
  <2>s. panelStage = "up" /\ task.step = "login"  BY <1>11 DEF CachedRefused, SteamCMD, At
  <2>e. /\ task' \in Tasks /\ task'.step = "login"
        /\ cachedLogin' = FALSE
        /\ UNCHANGED <<base, named, disk, plan, left, missteps>>
        /\ UNCHANGED <<using, elsewhere, invite, inviteSession, holder, authStep, panelStage, panelStops>>
    BY <1>11, <2>s DEF CachedRefused, SteamCMD, GoTo, Journals, Doing, Tasks, Steps, Working,
       Bound, Filled, invitation
  <2>1. Around'  BY <2>s, <2>e
  <2>2. Stored'  BY <2>s, <2>e DEF Journals
  <2>3. Doing'  BY <2>s, <2>e DEF Doing, Bases, Tasks, Steps
  <2>4. Asked'  BY <2>s, <2>e DEF Asked, Invites, AuthSteps
  <2>5. (Planning(plan, disk))'  BY <2>s, <2>e DEF Journals, Planning, Working, Bound, Filled
  <2>6. (Working(task, base, named, plan, disk))'
      BY <2>s, <2>e DEF Journals, Doing, Planning, Working, Bound, Filled, Awaiting
  <2>7. (Leaving(left, plan, named, base, task, panelStage))'
      BY <2>s, <2>e DEF Journals, Doing, Planning, Working, Leaving, Bound, Filled, Awaiting
  <2>8. (Whole(base, named, disk))'  BY <2>s, <2>e DEF Doing, Working, Leaving, Awaiting, Whole
  <2>9. (Inviting(invite, inviteSession, holder, authStep, panelStage))'
      BY <2>s, <2>e DEF Asked, Invites, AuthSteps, Inviting
  <2>10. QED BY <2>1, <2>2, <2>3, <2>4, <2>5, <2>6, <2>7, <2>8, <2>9
<1>12. CASE LoginFails
  <2> USE DEF LoginFails, Filled, InstallInv
  <2>1. /\ panelStage = "up" /\ task.step \in Filled /\ cachedLogin' \in BOOLEAN
        /\ UNCHANGED <<named, disk, plan, using, elsewhere, panelStage, panelStops, invitation>>
    BY <1>12 DEF SteamCMD, Around
  <2>2. PICK b \in {"credentials", "checkable", "error"} :
          FailsAs(b) /\ (left' = left \/ (b = "error" /\ left' = left \cup {named}))
    BY <1>12 DEF Abandoned
  <2>3. b \in Bases /\ b # "installed" /\ (b = "checkable" => named \notin left')
    BY <2>1, <2>2 DEF Leaving, Awaiting, Bases
  <2>4. QED BY <2>1, <2>2, <2>3, JobFails
<1>13. CASE SteamWrites
  <2> USE DEF InstallInv, Around, Stored, Contents
  <2>s. panelStage = "up" /\ task.step = "download"  BY <1>13 DEF SteamWrites, SteamCMD, At
  <2>e. /\ disk' \in [Volumes -> Contents] /\ (\A v \in Volumes : v # named => disk'[v] = disk[v])
        /\ disk'[named].there = disk[named].there /\ disk'[named].game = "part"
        /\ named \in Planned /\ plan[named].prepared
        /\ UNCHANGED <<base, named, task, plan, cachedLogin, left, missteps>>
        /\ UNCHANGED <<using, elsewhere, invite, inviteSession, holder, authStep, panelStage, panelStops>>
    BY ZenonT(60), <1>13, <2>s DEF SteamWrites, SteamCMD, GoTo, Journals, Doing, Tasks, Steps, Working, Bound,
       Filled, invitation
  <2>1. Around'  BY <2>s, <2>e
  <2>2. Stored'  BY <2>s, <2>e DEF Journals
  <2>3. Doing'  BY <2>s, <2>e DEF Doing, Bases, Tasks, Steps
  <2>4. Asked'  BY <2>s, <2>e DEF Asked, Invites, AuthSteps
  <2>5. (Planning(plan, disk))'  BY <2>s, <2>e DEF Journals, Planning, Working, Bound, Filled
  <2>6. (Working(task, base, named, plan, disk))'
      BY <2>s, <2>e DEF Journals, Doing, Planning, Working, Bound, Filled, Awaiting
  <2>7. (Leaving(left, plan, named, base, task, panelStage))'
      BY <2>s, <2>e DEF Journals, Doing, Planning, Working, Leaving, Bound, Filled, Awaiting
  <2>8. (Whole(base, named, disk))'  BY <2>s, <2>e DEF Doing, Working, Leaving, Awaiting, Whole
  <2>9. (Inviting(invite, inviteSession, holder, authStep, panelStage))'
      BY <2>s, <2>e DEF Asked, Invites, AuthSteps, Inviting
  <2>10. QED BY <2>1, <2>2, <2>3, <2>4, <2>5, <2>6, <2>7, <2>8, <2>9
<1>14. CASE Downloaded
  <2> USE DEF InstallInv
  <2>s. panelStage = "up" /\ task.step = "download" /\ named \in Planned /\ plan[named].prepared
    BY <1>14 DEF Downloaded, SteamCMD, Working, Bound, Filled
  <2>g. PICK g \in {"part", "whole"} : disk' = [disk EXCEPT ![named].game = g, ![named].fetched = TRUE]
    BY <1>14 DEF Downloaded
  <2>e. /\ disk' \in [Volumes -> Contents] /\ (\A v \in Volumes : v # named => disk'[v] = disk[v])
        /\ disk'[named].there = disk[named].there /\ disk'[named].game = g
    BY <2>s, <2>g DEF Stored, Contents
  <2>t. task' \in Tasks /\ task'.step = "smapi"
    BY <1>14 DEF Downloaded, GoTo, Doing, Tasks, Steps
  <2>f. /\ cachedLogin' = TRUE
        /\ UNCHANGED <<base, named, plan, left, missteps, using, elsewhere, invite, inviteSession, holder, authStep,
                       panelStage, panelStops>>
    BY <1>14 DEF Downloaded, SteamCMD, invitation
  <2>1. Around'  BY <2>s, <2>g, <2>e, <2>t, <2>f DEF Around
  <2>2. Stored'  BY <2>s, <2>g, <2>e, <2>t, <2>f DEF Around, Stored, Contents, Journals
  <2>3. Doing'  BY <2>s, <2>g, <2>e, <2>t, <2>f DEF Around, Doing, Bases, Tasks, Steps
  <2>4. Asked'  BY <2>s, <2>g, <2>e, <2>t, <2>f DEF Asked, Invites, AuthSteps
  <2>5. (Planning(plan, disk))'
      BY <2>s, <2>g, <2>e, <2>t, <2>f DEF Around, Stored, Contents, Journals, Planning, Working,
         Bound, Filled
  <2>6. (Working(task, base, named, plan, disk))'
      BY <2>s, <2>g, <2>e, <2>t, <2>f DEF Around, Stored, Contents, Journals, Doing, Planning,
         Working, Bound, Filled, Awaiting
  <2>7. (Leaving(left, plan, named, base, task, panelStage))'
      BY <2>s, <2>g, <2>e, <2>t, <2>f DEF Around, Stored, Contents, Journals, Doing, Planning,
         Working, Leaving, Bound, Filled, Awaiting
  <2>8. (Whole(base, named, disk))'
      BY <2>s, <2>g, <2>e, <2>t, <2>f DEF Around, Stored, Contents, Doing, Working, Leaving,
         Awaiting, Whole
  <2>9. (Inviting(invite, inviteSession, holder, authStep, panelStage))'
      BY <2>s, <2>g, <2>e, <2>t, <2>f DEF Asked, Invites, AuthSteps, Inviting
  <2>10. QED BY <2>1, <2>2, <2>3, <2>4, <2>5, <2>6, <2>7, <2>8, <2>9
<1>15. CASE DownloadFails
  <2> USE DEF DownloadFails, Filled, InstallInv
  <2>1. /\ panelStage = "up" /\ task.step \in Filled /\ cachedLogin' \in BOOLEAN
        /\ UNCHANGED <<named, disk, plan, using, elsewhere, panelStage, panelStops, invitation>>
    BY <1>15 DEF SteamCMD, Around
  <2>2. PICK b \in {"credentials", "checkable", "error"} :
          FailsAs(b) /\ (left' = left \/ (b = "error" /\ left' = left \cup {named}))
    BY <1>15 DEF Abandoned
  <2>3. b \in Bases /\ b # "installed" /\ (b = "checkable" => named \notin left')
    BY <2>1, <2>2 DEF Leaving, Awaiting, Bases
  <2>4. QED BY <2>1, <2>2, <2>3, JobFails
<1>16. CASE BeginSmapi
  <2> USE DEF InstallInv, around, Around, Stored, invitation
  <2>1. panelStage = "up" /\ task.step = "smapi" /\ UNCHANGED <<around, invitation, panelStage, panelStops>>
    BY <1>16 DEF BeginSmapi, At
  <2>2. ASSUME NEW b \in {"error"}, FailsAs(b), UNCHANGED <<named, disk, plan, cachedLogin>>
        PROVE  InstallInv'
    <3>1. b \in Bases /\ (b \in {"installed", "checkable"} => named \notin left) /\ (b = "installed" => base = "installed")
      BY <2>1, <2>2 DEF Doing, Bases, Leaving, Awaiting, Working, Unwritten, Explained
    <3>2. QED BY <2>1, <2>2, <3>1, JobFails
  <2>3. ASSUME missteps' = missteps, UNCHANGED <<base, named, disk, cachedLogin>>, GoTo("marking"), plan' = [plan EXCEPT ![named].verified = @ /\ ~disk[named].smapi]
        PROVE  InstallInv'
    <3>p. named \in Planned /\ (plan[named].verified /\ ~disk[named].smapi) \in BOOLEAN
      BY <2>1, <2>3 DEF Contents, Journals, Working, Bound
    <3>0. /\ task' \in Tasks /\ task'.step = "marking"
          /\ plan' \in [Planned -> Journals] /\ (\A v \in Planned : v # named => plan'[v] = plan[v])
          /\ plan'[named] = [plan[named] EXCEPT !.verified = @ /\ ~disk[named].smapi]
      <4>1. task' \in Tasks /\ task'.step = "marking"
        BY <2>1, <2>3, <3>p DEF GoTo, Contents, Journals, Doing, Tasks, Steps, Working, Bound
      <4>2. plan' \in [Planned -> Journals] /\ (\A v \in Planned : v # named => plan'[v] = plan[v])
        BY ZenonT(60), <2>1, <2>3, <3>p DEF Journals
      <4>3. plan'[named] = [plan[named] EXCEPT !.verified = @ /\ ~disk[named].smapi]
        BY <2>1, <2>3, <3>p DEF Journals
      <4>4. QED BY <4>1, <4>2, <4>3
    <3>1. Around'  BY <2>1, <2>3, <3>0
    <3>2. Stored'  BY <2>1, <2>3, <3>0 DEF Contents, Journals
    <3>3. Doing'  BY <2>1, <2>3, <3>0 DEF Doing, Bases, Tasks, Steps
    <3>4. Asked'  BY <2>1, <2>3, <3>0 DEF Asked, Invites, AuthSteps
    <3>5. (Planning(plan, disk))'
        BY <2>1, <2>3, <3>0 DEF Contents, Journals, Planning, Working, Bound, Filled
    <3>6. (Working(task, base, named, plan, disk))'
        BY <2>1, <2>3, <3>0 DEF Contents, Journals, Doing, Planning, Working, Bound, Filled,
           Awaiting
    <3>7. (Leaving(left, plan, named, base, task, panelStage))'
        BY <2>1, <2>3, <3>0 DEF Contents, Journals, Doing, Planning, Working, Leaving, Bound,
           Filled, Awaiting
    <3>8. (Whole(base, named, disk))'
        BY <2>1, <2>3, <3>0 DEF Contents, Doing, Working, Leaving, Awaiting, Whole
    <3>9. (Inviting(invite, inviteSession, holder, authStep, panelStage))'
        BY <2>1, <2>3, <3>0 DEF Asked, Invites, AuthSteps, Inviting
    <3>10. QED BY <3>1, <3>2, <3>3, <3>4, <3>5, <3>6, <3>7, <3>8, <3>9
  <2>4. QED BY <1>16, <2>2, <2>3 DEF BeginSmapi, At
<1>17. CASE MarkGame
  <2> USE DEF InstallInv, Doing, Working, around, Around, Stored, Contents
  <2>1. panelStage = "up" /\ task.step = "marking" /\ UNCHANGED <<around, invitation, panelStage, panelStops>>
    BY <1>17 DEF MarkGame, At
  <2>2. ASSUME NEW b \in {"error"}, FailsAs(b), UNCHANGED <<named, disk, plan, cachedLogin>>
        PROVE  InstallInv'
    <3>1. b \in Bases /\ (b \in {"installed", "checkable"} => named \notin left) /\ (b = "installed" => base = "installed")
      BY <2>1, <2>2 DEF Bases, Leaving, Awaiting, Unwritten, Explained
    <3>2. QED BY <2>1, <2>2, <3>1, JobFails
  <2>3. ASSUME missteps' = missteps, UNCHANGED <<base, named, cachedLogin>>, disk[named].game = "whole", disk' = [disk EXCEPT ![named].smapi = TRUE],
               plan' = [plan EXCEPT ![named].verified = TRUE], GoTo("verify")
        PROVE  InstallInv'
    <3>0. /\ task' \in Tasks /\ task'.step = "verify"
          /\ disk' \in [Volumes -> Contents] /\ (\A v \in Volumes : v # named => disk'[v] = disk[v])
          /\ disk'[named] = [disk[named] EXCEPT !.smapi = TRUE]
          /\ plan' \in [Planned -> Journals] /\ (\A v \in Planned : v # named => plan'[v] = plan[v])
          /\ plan'[named] = [plan[named] EXCEPT !.verified = TRUE]
      <4>1. task' \in Tasks /\ task'.step = "verify"
        BY <2>1, <2>3 DEF GoTo, Journals, Tasks, Steps, Bound
      <4>2. disk' \in [Volumes -> Contents] /\ (\A v \in Volumes : v # named => disk'[v] = disk[v])
        BY <2>1, <2>3 DEF GoTo, Journals, Tasks, Steps, Bound
      <4>3. disk'[named] = [disk[named] EXCEPT !.smapi = TRUE]
        BY <2>1, <2>3 DEF GoTo, Journals, Tasks, Steps, Bound
      <4>4. plan' \in [Planned -> Journals] /\ (\A v \in Planned : v # named => plan'[v] = plan[v])
        BY ZenonT(60), <2>1, <2>3 DEF GoTo, Journals, Tasks, Steps, Bound
      <4>5. plan'[named] = [plan[named] EXCEPT !.verified = TRUE]
        BY <2>1, <2>3 DEF GoTo, Journals, Tasks, Steps, Bound
      <4>6. QED BY <4>1, <4>2, <4>3, <4>4, <4>5
    <3>1. Around'  BY <2>1, <2>3, <3>0 DEF invitation
    <3>2. Stored'  BY <2>1, <2>3, <3>0 DEF Journals, invitation
    <3>3. Doing'  BY <2>1, <2>3, <3>0 DEF Bases, Tasks, Steps, invitation
    <3>4. Asked'  BY <2>1, <2>3, <3>0 DEF Asked, Invites, AuthSteps, invitation
    <3>5. (Planning(plan, disk))'
        BY <2>1, <2>3, <3>0 DEF Journals, Planning, Bound, Filled, invitation
    <3>6. (Working(task, base, named, plan, disk))'
        BY <2>1, <2>3, <3>0 DEF Journals, Planning, Bound, Filled, Awaiting, invitation
    <3>7. (Leaving(left, plan, named, base, task, panelStage))'
        BY <2>1, <2>3, <3>0 DEF Journals, Planning, Leaving, Bound, Filled, Awaiting, invitation
    <3>8. (Whole(base, named, disk))'
        BY <2>1, <2>3, <3>0 DEF Leaving, Awaiting, Whole, invitation
    <3>9. (Inviting(invite, inviteSession, holder, authStep, panelStage))'
        BY <2>1, <2>3, <3>0 DEF Asked, Invites, AuthSteps, Inviting, invitation
    <3>10. QED BY <3>1, <3>2, <3>3, <3>4, <3>5, <3>6, <3>7, <3>8, <3>9
  <2>4. QED BY <1>17, <2>2, <2>3 DEF MarkGame, At
<1>18. CASE VerifyInstall
  <2> USE DEF InstallInv, around, Around, invitation
  <2>1. panelStage = "up" /\ task.step = "verify" /\ UNCHANGED <<around, invitation, panelStage, panelStops>>
    BY <1>18 DEF VerifyInstall, At
  <2>2. ASSUME NEW b \in {"error", "checkable"}, FailsAs(b), UNCHANGED <<named, disk, plan, cachedLogin>>
        PROVE  InstallInv'
    <3>1. b \in Bases /\ (b \in {"installed", "checkable"} => named \notin left) /\ (b = "installed" => base = "installed")
      BY <2>1, <2>2 DEF Doing, Bases, Leaving, Awaiting, Working, Unwritten, Explained
    <3>2. QED BY <2>1, <2>2, <3>1, JobFails
  <2>3. ASSUME missteps' = missteps, UNCHANGED <<named, disk, plan, cachedLogin>>, Complete(named), base' = "installed", task' = NoTask
        PROVE  InstallInv'
    <3>0. /\ task' \in Tasks /\ task'.step = "idle"
          /\ disk[named].there /\ disk[named].game = "whole" /\ disk[named].smapi
      BY <2>1, <2>3 DEF Complete, NoTask, Stored, Contents, Journals, Doing, Tasks, Steps,
         Working, Bound
    <3>1. Around'  BY <2>1, <2>3, <3>0
    <3>2. Stored'  BY <2>1, <2>3, <3>0 DEF Stored, Contents, Journals
    <3>3. Doing'  BY <2>1, <2>3, <3>0 DEF Doing, Bases, Tasks, Steps
    <3>4. Asked'  BY <2>1, <2>3, <3>0 DEF Asked, Invites, AuthSteps
    <3>5. (Planning(plan, disk))'
        BY <2>1, <2>3, <3>0 DEF Stored, Contents, Journals, Planning, Working, Bound, Filled
    <3>6. (Working(task, base, named, plan, disk))'
        BY <2>1, <2>3, <3>0 DEF Stored, Contents, Journals, Doing, Planning, Working, Bound,
           Filled, Awaiting
    <3>7. (Leaving(left, plan, named, base, task, panelStage))'
        BY <2>1, <2>3, <3>0 DEF Stored, Contents, Journals, Doing, Planning, Working, Leaving,
           Bound, Filled, Awaiting
    <3>8. (Whole(base, named, disk))'
        BY <2>1, <2>3, <3>0 DEF Stored, Contents, Doing, Working, Leaving, Awaiting, Whole
    <3>9. (Inviting(invite, inviteSession, holder, authStep, panelStage))'
        BY <2>1, <2>3, <3>0 DEF Asked, Invites, AuthSteps, Inviting
    <3>10. QED BY <3>1, <3>2, <3>3, <3>4, <3>5, <3>6, <3>7, <3>8, <3>9
  <2>4. QED BY <1>18, <2>2, <2>3 DEF VerifyInstall, At
<1>19. CASE RequestAuth
  <2> USE DEF InstallInv, Around, RequestAuth, Idle, Shown, around, bounds, install, invitation
  <2>0. missteps' \in 0 .. InstallFaults /\ panelStops' \in 0 .. InstallStops
    BY <1>19, InstallerAssumption
  <2>1. Around'  BY <1>19, <2>0
  <2>2. Stored'  BY <1>19, <2>0 DEF Stored, Contents, Journals
  <2>3. Doing'  BY <1>19, <2>0 DEF Doing, Bases, Tasks, Steps
  <2>4. Asked'  BY <1>19, <2>0 DEF Asked, Invites, AuthSteps
  <2>5. (Planning(plan, disk))'
      BY <1>19, <2>0 DEF Stored, Contents, Journals, Planning, Working, Bound, Filled
  <2>6. (Working(task, base, named, plan, disk))'
      BY <1>19, <2>0 DEF Stored, Contents, Journals, Doing, Planning, Working, Bound, Filled,
         Awaiting
  <2>7. (Leaving(left, plan, named, base, task, panelStage))'
      BY <1>19, <2>0 DEF Stored, Contents, Journals, Doing, Planning, Working, Leaving, Bound,
         Filled, Awaiting
  <2>8. (Whole(base, named, disk))'
      BY <1>19, <2>0 DEF Stored, Contents, Doing, Working, Leaving, Awaiting, Whole
  <2>9. (Inviting(invite, inviteSession, holder, authStep, panelStage))'
      BY <1>19, <2>0 DEF Asked, Invites, AuthSteps, Inviting
  <2>10. QED BY <2>1, <2>2, <2>3, <2>4, <2>5, <2>6, <2>7, <2>8, <2>9
<1>20. CASE BeginAuth
  <2> USE DEF InstallInv, Around, BeginAuth, AuthAt, around, bounds, install, invitation
  <2>0. missteps' \in 0 .. InstallFaults /\ panelStops' \in 0 .. InstallStops
    BY <1>20, InstallerAssumption
  <2>1. Around'  BY <1>20, <2>0
  <2>2. Stored'  BY <1>20, <2>0 DEF Stored, Contents, Journals
  <2>3. Doing'  BY <1>20, <2>0 DEF Doing, Bases, Tasks, Steps
  <2>4. Asked'  BY <1>20, <2>0 DEF Asked, Invites, AuthSteps
  <2>5. (Planning(plan, disk))'
      BY <1>20, <2>0 DEF Stored, Contents, Journals, Planning, Working, Bound, Filled
  <2>6. (Working(task, base, named, plan, disk))'
      BY <1>20, <2>0 DEF Stored, Contents, Journals, Doing, Planning, Working, Bound, Filled,
         Awaiting
  <2>7. (Leaving(left, plan, named, base, task, panelStage))'
      BY <1>20, <2>0 DEF Stored, Contents, Journals, Doing, Planning, Working, Leaving, Bound,
         Filled, Awaiting
  <2>8. (Whole(base, named, disk))'
      BY <1>20, <2>0 DEF Stored, Contents, Doing, Working, Leaving, Awaiting, Whole
  <2>9. (Inviting(invite, inviteSession, holder, authStep, panelStage))'
      BY <1>20, <2>0 DEF Asked, Invites, AuthSteps, Inviting
  <2>10. QED BY <2>1, <2>2, <2>3, <2>4, <2>5, <2>6, <2>7, <2>8, <2>9
<1>21. CASE ClearSession
  <2> USE DEF InstallInv, Around, ClearSession, AuthAt, around, bounds, install, invitation
  <2>0. missteps' \in 0 .. InstallFaults /\ panelStops' \in 0 .. InstallStops
    BY <1>21, InstallerAssumption
  <2>1. Around'  BY <1>21, <2>0
  <2>2. Stored'  BY <1>21, <2>0 DEF Stored, Contents, Journals
  <2>3. Doing'  BY <1>21, <2>0 DEF Doing, Bases, Tasks, Steps
  <2>4. Asked'  BY <1>21, <2>0 DEF Asked, Invites, AuthSteps
  <2>5. (Planning(plan, disk))'
      BY <1>21, <2>0 DEF Stored, Contents, Journals, Planning, Working, Bound, Filled
  <2>6. (Working(task, base, named, plan, disk))'
      BY <1>21, <2>0 DEF Stored, Contents, Journals, Doing, Planning, Working, Bound, Filled,
         Awaiting
  <2>7. (Leaving(left, plan, named, base, task, panelStage))'
      BY <1>21, <2>0 DEF Stored, Contents, Journals, Doing, Planning, Working, Leaving, Bound,
         Filled, Awaiting
  <2>8. (Whole(base, named, disk))'
      BY <1>21, <2>0 DEF Stored, Contents, Doing, Working, Leaving, Awaiting, Whole
  <2>9. (Inviting(invite, inviteSession, holder, authStep, panelStage))'
      BY <1>21, <2>0 DEF Asked, Invites, AuthSteps, Inviting
  <2>10. QED BY <2>1, <2>2, <2>3, <2>4, <2>5, <2>6, <2>7, <2>8, <2>9
<1>22. CASE ForgetLogin
  <2> USE DEF InstallInv, Around, ForgetLogin, AuthAt, around, bounds, install, invitation
  <2>0. missteps' \in 0 .. InstallFaults /\ panelStops' \in 0 .. InstallStops
    BY <1>22, InstallerAssumption
  <2>1. Around'  BY <1>22, <2>0
  <2>2. Stored'  BY <1>22, <2>0 DEF Stored, Contents, Journals
  <2>3. Doing'  BY <1>22, <2>0 DEF Doing, Bases, Tasks, Steps
  <2>4. Asked'  BY <1>22, <2>0 DEF Asked, Invites, AuthSteps
  <2>5. (Planning(plan, disk))'
      BY <1>22, <2>0 DEF Stored, Contents, Journals, Planning, Working, Bound, Filled
  <2>6. (Working(task, base, named, plan, disk))'
      BY <1>22, <2>0 DEF Stored, Contents, Journals, Doing, Planning, Working, Bound, Filled,
         Awaiting
  <2>7. (Leaving(left, plan, named, base, task, panelStage))'
      BY <1>22, <2>0 DEF Stored, Contents, Journals, Doing, Planning, Working, Leaving, Bound,
         Filled, Awaiting
  <2>8. (Whole(base, named, disk))'
      BY <1>22, <2>0 DEF Stored, Contents, Doing, Working, Leaving, Awaiting, Whole
  <2>9. (Inviting(invite, inviteSession, holder, authStep, panelStage))'
      BY <1>22, <2>0 DEF Asked, Invites, AuthSteps, Inviting
  <2>10. QED BY <2>1, <2>2, <2>3, <2>4, <2>5, <2>6, <2>7, <2>8, <2>9
<1>23. CASE AuthFails
  <2> USE DEF InstallInv, Around, AuthFails, AuthAt, around, bounds, install, invitation
  <2>0. missteps' \in 0 .. InstallFaults /\ panelStops' \in 0 .. InstallStops
    BY <1>23, InstallerAssumption DEF Misstep
  <2>1. Around'  BY <1>23, <2>0
  <2>2. Stored'  BY <1>23, <2>0 DEF Stored, Contents, Journals
  <2>3. Doing'  BY <1>23, <2>0 DEF Doing, Bases, Tasks, Steps
  <2>4. Asked'  BY <1>23, <2>0 DEF Asked, Invites, AuthSteps
  <2>5. (Planning(plan, disk))'
      BY <1>23, <2>0 DEF Stored, Contents, Journals, Planning, Working, Bound, Filled
  <2>6. (Working(task, base, named, plan, disk))'
      BY <1>23, <2>0 DEF Stored, Contents, Journals, Doing, Planning, Working, Bound, Filled,
         Awaiting
  <2>7. (Leaving(left, plan, named, base, task, panelStage))'
      BY <1>23, <2>0 DEF Stored, Contents, Journals, Doing, Planning, Working, Leaving, Bound,
         Filled, Awaiting
  <2>8. (Whole(base, named, disk))'
      BY <1>23, <2>0 DEF Stored, Contents, Doing, Working, Leaving, Awaiting, Whole
  <2>9. (Inviting(invite, inviteSession, holder, authStep, panelStage))'
      BY <1>23, <2>0 DEF Asked, Invites, AuthSteps, Inviting
  <2>10. QED BY <2>1, <2>2, <2>3, <2>4, <2>5, <2>6, <2>7, <2>8, <2>9
<1>24. CASE StartLogin
  <2> USE DEF InstallInv, Around, StartLogin, AuthAt, around, bounds, install, invitation
  <2>0. missteps' \in 0 .. InstallFaults /\ panelStops' \in 0 .. InstallStops
    BY <1>24, InstallerAssumption
  <2>1. Around'  BY <1>24, <2>0
  <2>2. Stored'  BY <1>24, <2>0 DEF Stored, Contents, Journals
  <2>3. Doing'  BY <1>24, <2>0 DEF Doing, Bases, Tasks, Steps
  <2>4. Asked'  BY <1>24, <2>0 DEF Asked, Invites, AuthSteps
  <2>5. (Planning(plan, disk))'
      BY <1>24, <2>0 DEF Stored, Contents, Journals, Planning, Working, Bound, Filled
  <2>6. (Working(task, base, named, plan, disk))'
      BY <1>24, <2>0 DEF Stored, Contents, Journals, Doing, Planning, Working, Bound, Filled,
         Awaiting
  <2>7. (Leaving(left, plan, named, base, task, panelStage))'
      BY <1>24, <2>0 DEF Stored, Contents, Journals, Doing, Planning, Working, Leaving, Bound,
         Filled, Awaiting
  <2>8. (Whole(base, named, disk))'
      BY <1>24, <2>0 DEF Stored, Contents, Doing, Working, Leaving, Awaiting, Whole
  <2>9. (Inviting(invite, inviteSession, holder, authStep, panelStage))'
      BY <1>24, <2>0 DEF Asked, Invites, AuthSteps, Inviting
  <2>10. QED BY <2>1, <2>2, <2>3, <2>4, <2>5, <2>6, <2>7, <2>8, <2>9
<1>25. CASE LoginWon
  <2> USE DEF InstallInv, Around, LoginWon, AuthAt, around, bounds, install, invitation
  <2>0. missteps' \in 0 .. InstallFaults /\ panelStops' \in 0 .. InstallStops
    BY <1>25, InstallerAssumption
  <2>1. Around'  BY <1>25, <2>0
  <2>2. Stored'  BY <1>25, <2>0 DEF Stored, Contents, Journals
  <2>3. Doing'  BY <1>25, <2>0 DEF Doing, Bases, Tasks, Steps
  <2>4. Asked'  BY <1>25, <2>0 DEF Asked, Invites, AuthSteps
  <2>5. (Planning(plan, disk))'
      BY <1>25, <2>0 DEF Stored, Contents, Journals, Planning, Working, Bound, Filled
  <2>6. (Working(task, base, named, plan, disk))'
      BY <1>25, <2>0 DEF Stored, Contents, Journals, Doing, Planning, Working, Bound, Filled,
         Awaiting
  <2>7. (Leaving(left, plan, named, base, task, panelStage))'
      BY <1>25, <2>0 DEF Stored, Contents, Journals, Doing, Planning, Working, Leaving, Bound,
         Filled, Awaiting
  <2>8. (Whole(base, named, disk))'
      BY <1>25, <2>0 DEF Stored, Contents, Doing, Working, Leaving, Awaiting, Whole
  <2>9. (Inviting(invite, inviteSession, holder, authStep, panelStage))'
      BY <1>25, <2>0 DEF Asked, Invites, AuthSteps, Inviting
  <2>10. QED BY <2>1, <2>2, <2>3, <2>4, <2>5, <2>6, <2>7, <2>8, <2>9
<1>26. CASE LoginLost
  <2> USE DEF LoginLost, AuthAt, InstallInv, Around, install, around, invitation, bounds
  <2>0. missteps' \in 0 .. InstallFaults /\ panelStops' \in 0 .. InstallStops
    <3>1. Misstep /\ panelStops' = panelStops  BY <1>26
    <3>2. QED BY <3>1, InstallerAssumption DEF Misstep
  <2>1. Around'  BY <1>26, <2>0
  <2>2. Stored'  BY <1>26, <2>0 DEF Stored, Contents, Journals
  <2>3. Doing'  BY <1>26, <2>0 DEF Doing, Bases, Tasks, Steps
  <2>4. Asked'  BY <1>26, <2>0 DEF Asked, Invites, AuthSteps
  <2>5. (Planning(plan, disk))'
      BY <1>26, <2>0 DEF Stored, Contents, Journals, Planning, Working, Bound, Filled
  <2>6. (Working(task, base, named, plan, disk))'
      BY <1>26, <2>0 DEF Stored, Contents, Journals, Doing, Planning, Working, Bound, Filled,
         Awaiting
  <2>7. (Leaving(left, plan, named, base, task, panelStage))'
      BY <1>26, <2>0 DEF Stored, Contents, Journals, Doing, Planning, Working, Leaving, Bound,
         Filled, Awaiting
  <2>8. (Whole(base, named, disk))'
      BY <1>26, <2>0 DEF Stored, Contents, Doing, Working, Leaving, Awaiting, Whole
  <2>9. (Inviting(invite, inviteSession, holder, authStep, panelStage))'
      BY <1>26, <2>0 DEF Asked, Invites, AuthSteps, Inviting
  <2>10. QED BY <2>1, <2>2, <2>3, <2>4, <2>5, <2>6, <2>7, <2>8, <2>9
<1>27. CASE LoginStops
  <2> USE DEF InstallInv, Around, LoginStops, AuthAt, around, bounds, install, invitation
  <2>0. missteps' \in 0 .. InstallFaults /\ panelStops' \in 0 .. InstallStops
    BY <1>27, InstallerAssumption DEF Misstep
  <2>1. Around'  BY <1>27, <2>0
  <2>2. Stored'  BY <1>27, <2>0 DEF Stored, Contents, Journals
  <2>3. Doing'  BY <1>27, <2>0 DEF Doing, Bases, Tasks, Steps
  <2>4. Asked'  BY <1>27, <2>0 DEF Asked, Invites, AuthSteps
  <2>5. (Planning(plan, disk))'
      BY <1>27, <2>0 DEF Stored, Contents, Journals, Planning, Working, Bound, Filled
  <2>6. (Working(task, base, named, plan, disk))'
      BY <1>27, <2>0 DEF Stored, Contents, Journals, Doing, Planning, Working, Bound, Filled,
         Awaiting
  <2>7. (Leaving(left, plan, named, base, task, panelStage))'
      BY <1>27, <2>0 DEF Stored, Contents, Journals, Doing, Planning, Working, Leaving, Bound,
         Filled, Awaiting
  <2>8. (Whole(base, named, disk))'
      BY <1>27, <2>0 DEF Stored, Contents, Doing, Working, Leaving, Awaiting, Whole
  <2>9. (Inviting(invite, inviteSession, holder, authStep, panelStage))'
      BY <1>27, <2>0 DEF Asked, Invites, AuthSteps, Inviting
  <2>10. QED BY <2>1, <2>2, <2>3, <2>4, <2>5, <2>6, <2>7, <2>8, <2>9
<1>28. CASE PersistLogin
  <2> USE DEF InstallInv, Around, PersistLogin, AuthAt, CompletedAs, around, bounds, install,
     invitation
  <2>0. missteps' \in 0 .. InstallFaults /\ panelStops' \in 0 .. InstallStops
    BY <1>28, InstallerAssumption DEF Misstep
  <2>1. Around'  BY <1>28, <2>0
  <2>2. Stored'  BY <1>28, <2>0 DEF Stored, Contents, Journals
  <2>3. Doing'  BY <1>28, <2>0 DEF Doing, Bases, Tasks, Steps
  <2>4. Asked'
    <3>1. \A c \in BOOLEAN : CompletedAs(c) \in Invites  BY DEF Invites
    <3>2. (authStep = "clean") \in BOOLEAN  OBVIOUS
    <3>3. invite' \in Invites  BY <1>28, <3>1, <3>2 DEF Asked
    <3>4. QED BY <1>28, <3>3 DEF Asked, AuthSteps
  <2>5. (Planning(plan, disk))'
      BY <1>28, <2>0 DEF Stored, Contents, Journals, Planning, Working, Bound, Filled
  <2>6. (Working(task, base, named, plan, disk))'
      BY <1>28, <2>0 DEF Stored, Contents, Journals, Doing, Planning, Working, Bound, Filled,
         Awaiting
  <2>7. (Leaving(left, plan, named, base, task, panelStage))'
      BY <1>28, <2>0 DEF Stored, Contents, Journals, Doing, Planning, Working, Leaving, Bound,
         Filled, Awaiting
  <2>8. (Whole(base, named, disk))'
      BY <1>28, <2>0 DEF Stored, Contents, Doing, Working, Leaving, Awaiting, Whole
  <2>9. (Inviting(invite, inviteSession, holder, authStep, panelStage))'
      BY <1>28, <2>0 DEF Asked, Invites, AuthSteps, Inviting
  <2>10. QED BY <2>1, <2>2, <2>3, <2>4, <2>5, <2>6, <2>7, <2>8, <2>9
<1>29. CASE EndAuth
  <2> USE DEF InstallInv, Around, EndAuth, AuthAt, Settled, Shown, around, bounds, install,
     invitation
  <2>0. missteps' \in 0 .. InstallFaults /\ panelStops' \in 0 .. InstallStops
    BY <1>29, InstallerAssumption
  <2>1. Around'  BY <1>29, <2>0
  <2>2. Stored'  BY <1>29, <2>0 DEF Stored, Contents, Journals
  <2>3. Doing'  BY <1>29, <2>0 DEF Doing, Bases, Tasks, Steps
  <2>4. Asked'  BY <1>29, <2>0 DEF Asked, Invites, AuthSteps
  <2>5. (Planning(plan, disk))'
      BY <1>29, <2>0 DEF Stored, Contents, Journals, Planning, Working, Bound, Filled
  <2>6. (Working(task, base, named, plan, disk))'
      BY <1>29, <2>0 DEF Stored, Contents, Journals, Doing, Planning, Working, Bound, Filled,
         Awaiting
  <2>7. (Leaving(left, plan, named, base, task, panelStage))'
      BY <1>29, <2>0 DEF Stored, Contents, Journals, Doing, Planning, Working, Leaving, Bound,
         Filled, Awaiting
  <2>8. (Whole(base, named, disk))'
      BY <1>29, <2>0 DEF Stored, Contents, Doing, Working, Leaving, Awaiting, Whole
  <2>9. (Inviting(invite, inviteSession, holder, authStep, panelStage))'
      BY <1>29, <2>0 DEF Asked, Invites, AuthSteps, Inviting
  <2>10. QED BY <2>1, <2>2, <2>3, <2>4, <2>5, <2>6, <2>7, <2>8, <2>9
<1>30. CASE StopPanel
  <2> USE DEF InstallInv, Around, StopPanel, Running, around, bounds, install, invitation
  <2>0. missteps' \in 0 .. InstallFaults /\ panelStops' \in 0 .. InstallStops
    BY <1>30, InstallerAssumption
  <2>1. Around'  BY <1>30, <2>0
  <2>2. Stored'  BY <1>30, <2>0 DEF Stored, Contents, Journals
  <2>3. Doing'  BY <1>30, <2>0 DEF Doing, Bases, Tasks, Steps
  <2>4. Asked'  BY <1>30, <2>0 DEF Asked, Invites, AuthSteps
  <2>5. (Planning(plan, disk))'
      BY <1>30, <2>0 DEF Stored, Contents, Journals, Planning, Working, Bound, Filled
  <2>6. (Working(task, base, named, plan, disk))'
      BY <1>30, <2>0 DEF Stored, Contents, Journals, Doing, Planning, Working, Bound, Filled,
         Awaiting
  <2>7. (Leaving(left, plan, named, base, task, panelStage))'
      BY <1>30, <2>0 DEF Stored, Contents, Journals, Doing, Planning, Working, Leaving, Bound,
         Filled, Awaiting
  <2>8. (Whole(base, named, disk))'
      BY <1>30, <2>0 DEF Stored, Contents, Doing, Working, Leaving, Awaiting, Whole
  <2>9. (Inviting(invite, inviteSession, holder, authStep, panelStage))'
      BY <1>30, <2>0 DEF Asked, Invites, AuthSteps, Inviting
  <2>10. QED BY <2>1, <2>2, <2>3, <2>4, <2>5, <2>6, <2>7, <2>8, <2>9
<1>31. CASE BootJobs
  <2> USE DEF InstallInv, Around, BootJobs, Settled, Shown, NoTask, around, bounds, install,
     invitation
  <2>0. missteps' \in 0 .. InstallFaults /\ panelStops' \in 0 .. InstallStops
    BY <1>31, InstallerAssumption
  <2>1. Around'  BY <1>31, <2>0
  <2>2. Stored'  BY <1>31, <2>0 DEF Stored, Contents, Journals
  <2>3. Doing'  BY <1>31, <2>0 DEF Doing, Bases, Tasks, Steps
  <2>4. Asked'  BY <1>31, <2>0 DEF Asked, Invites, AuthSteps
  <2>5. (Planning(plan, disk))'
      BY <1>31, <2>0 DEF Stored, Contents, Journals, Planning, Working, Bound, Filled
  <2>6. (Working(task, base, named, plan, disk))'
      BY <1>31, <2>0 DEF Stored, Contents, Journals, Doing, Planning, Working, Bound, Filled,
         Awaiting
  <2>7. (Leaving(left, plan, named, base, task, panelStage))'
      BY <1>31, <2>0 DEF Stored, Contents, Journals, Doing, Planning, Working, Leaving, Bound,
         Filled, Awaiting
  <2>8. (Whole(base, named, disk))'
      BY <1>31, <2>0 DEF Stored, Contents, Doing, Working, Leaving, Awaiting, Whole
  <2>9. (Inviting(invite, inviteSession, holder, authStep, panelStage))'
      BY <1>31, <2>0 DEF Asked, Invites, AuthSteps, Inviting
  <2>10. QED BY <2>1, <2>2, <2>3, <2>4, <2>5, <2>6, <2>7, <2>8, <2>9
<1>32. CASE BootInvite
  <2> USE DEF InstallInv, BootInvite, CleanupRemoved
  <2>0. missteps' \in 0 .. InstallFaults /\ panelStops' \in 0 .. InstallStops
    BY <1>32, InstallerAssumption DEF Around, Shown, Misstep, around, bounds
  <2>1. Around'  BY <1>32, <2>0 DEF Around, Shown, install, around, invitation, bounds
  <2>2. Stored'
      BY <1>32, <2>0 DEF Around, Stored, Contents, Journals, Shown, install, around, invitation,
         bounds
  <2>3. Doing'
      BY <1>32, <2>0 DEF Around, Doing, Bases, Tasks, Steps, Shown, install, around, invitation,
         bounds
  <2>4. Asked'
      BY <1>32, <2>0 DEF Asked, Invites, AuthSteps, Shown, install, around, invitation, bounds
  <2>5. (Planning(plan, disk))'
      BY <1>32, <2>0 DEF Around, Stored, Contents, Journals, Planning, Working, Bound, Filled,
         Shown, install, around, invitation, bounds
  <2>6. (Working(task, base, named, plan, disk))'
      BY <1>32, <2>0 DEF Around, Stored, Contents, Journals, Doing, Planning, Working, Bound,
         Filled, Awaiting, Shown, install, around, invitation, bounds
  <2>7. (Leaving(left, plan, named, base, task, panelStage))'
      BY <1>32, <2>0 DEF Around, Stored, Contents, Journals, Doing, Planning, Working, Leaving,
         Bound, Filled, Awaiting, Shown, install, around, invitation, bounds
  <2>8. (Whole(base, named, disk))'
      BY <1>32, <2>0 DEF Around, Stored, Contents, Doing, Working, Leaving, Awaiting, Whole,
         Shown, install, around, invitation, bounds
  <2>9. (Inviting(invite, inviteSession, holder, authStep, panelStage))'
    <3>1. authStep' = authStep /\ panelStage' = "up" /\ authStep = "idle"  BY <1>32 DEF Inviting
    <3>2. CASE ~invite.done
      <4>1. invite' = invite  BY <1>32, <3>2 DEF Asked, Inviting, Invites
      <4>2. QED BY <3>1, <3>2, <4>1 DEF Asked, Inviting, Invites
    <3>3. CASE invite.done
      <4>1. Shown(invite) = invite.report /\ invite.report \in {"ready", "cleanup_pending"} /\ inviteSession /\ invite.on
        BY <3>3 DEF Shown, Asked, Inviting, Invites
      <4>2. inviteSession'  BY <1>32, <3>3, <4>1
      <4>3. CASE invite' = invite
        <5>1. holder' => holder  BY <1>32, <4>1 DEF Asked
        <5>2. QED BY <3>1, <3>3, <4>1, <4>2, <4>3, <5>1 DEF Asked, Inviting, Invites
      <4>4. CASE invite' # invite
        <5>1. invite' = [invite EXCEPT !.report = "ready"] /\ Shown(invite) = "cleanup_pending"
          BY <1>32, <4>4
        <5>2. ~holder'  BY <1>32, <4>4, <5>1 DEF Asked
        <5>3. QED BY <3>1, <3>3, <4>1, <4>2, <5>1, <5>2 DEF Asked, Inviting, Invites
      <4>5. QED BY <4>3, <4>4
    <3>4. QED BY <3>2, <3>3 DEF Asked, Invites
  <2>10. QED BY <2>1, <2>2, <2>3, <2>4, <2>5, <2>6, <2>7, <2>8, <2>9
<1>33. CASE Play
  <2> USE DEF InstallInv, Around, Play, Idle, HolderConverges, CleanupRemoved, Shown, around,
     bounds, install, invitation
  <2>0. missteps' \in 0 .. InstallFaults /\ panelStops' \in 0 .. InstallStops
    BY <1>33, InstallerAssumption
  <2>1. Around'  BY <1>33, <2>0
  <2>2. Stored'  BY <1>33, <2>0 DEF Stored, Contents, Journals
  <2>3. Doing'  BY <1>33, <2>0 DEF Doing, Bases, Tasks, Steps
  <2>4. Asked'  BY <1>33, <2>0 DEF Asked, Invites, AuthSteps
  <2>5. (Planning(plan, disk))'
      BY <1>33, <2>0 DEF Stored, Contents, Journals, Planning, Working, Bound, Filled
  <2>6. (Working(task, base, named, plan, disk))'
      BY <1>33, <2>0 DEF Stored, Contents, Journals, Doing, Planning, Working, Bound, Filled,
         Awaiting
  <2>7. (Leaving(left, plan, named, base, task, panelStage))'
      BY <1>33, <2>0 DEF Stored, Contents, Journals, Doing, Planning, Working, Leaving, Bound,
         Filled, Awaiting
  <2>8. (Whole(base, named, disk))'
      BY <1>33, <2>0 DEF Stored, Contents, Doing, Working, Leaving, Awaiting, Whole
  <2>9. (Inviting(invite, inviteSession, holder, authStep, panelStage))'
      BY <1>33, <2>0 DEF Asked, Invites, AuthSteps, Inviting
  <2>10. QED BY <2>1, <2>2, <2>3, <2>4, <2>5, <2>6, <2>7, <2>8, <2>9
<1>34. CASE Remove
  <2> USE DEF InstallInv, Around, Remove, Idle, around, bounds, install, invitation
  <2>0. missteps' \in 0 .. InstallFaults /\ panelStops' \in 0 .. InstallStops
    BY <1>34, InstallerAssumption
  <2>1. Around'  BY <1>34, <2>0
  <2>2. Stored'  BY <1>34, <2>0 DEF Stored, Contents, Journals
  <2>3. Doing'  BY <1>34, <2>0 DEF Doing, Bases, Tasks, Steps
  <2>4. Asked'  BY <1>34, <2>0 DEF Asked, Invites, AuthSteps
  <2>5. (Planning(plan, disk))'
      BY <1>34, <2>0 DEF Stored, Contents, Journals, Planning, Working, Bound, Filled
  <2>6. (Working(task, base, named, plan, disk))'
      BY <1>34, <2>0 DEF Stored, Contents, Journals, Doing, Planning, Working, Bound, Filled,
         Awaiting
  <2>7. (Leaving(left, plan, named, base, task, panelStage))'
      BY <1>34, <2>0 DEF Stored, Contents, Journals, Doing, Planning, Working, Leaving, Bound,
         Filled, Awaiting
  <2>8. (Whole(base, named, disk))'
      BY <1>34, <2>0 DEF Stored, Contents, Doing, Working, Leaving, Awaiting, Whole
  <2>9. (Inviting(invite, inviteSession, holder, authStep, panelStage))'
      BY <1>34, <2>0 DEF Asked, Invites, AuthSteps, Inviting
  <2>10. QED BY <2>1, <2>2, <2>3, <2>4, <2>5, <2>6, <2>7, <2>8, <2>9
<1>35. CASE FilesRechecked
  <2> USE DEF InstallInv, Around, FilesRechecked, Idle, Complete, around, bounds, install,
     invitation
  <2>0. missteps' \in 0 .. InstallFaults /\ panelStops' \in 0 .. InstallStops
    BY <1>35, InstallerAssumption
  <2>1. Around'  BY <1>35, <2>0
  <2>2. Stored'  BY <1>35, <2>0 DEF Stored, Contents, Journals
  <2>3. Doing'  BY <1>35, <2>0 DEF Doing, Bases, Tasks, Steps
  <2>4. Asked'  BY <1>35, <2>0 DEF Asked, Invites, AuthSteps
  <2>5. (Planning(plan, disk))'
      BY <1>35, <2>0 DEF Stored, Contents, Journals, Planning, Working, Bound, Filled
  <2>6. (Working(task, base, named, plan, disk))'
      BY <1>35, <2>0 DEF Stored, Contents, Journals, Doing, Planning, Working, Bound, Filled,
         Awaiting
  <2>7. (Leaving(left, plan, named, base, task, panelStage))'
      BY <1>35, <2>0 DEF Stored, Contents, Journals, Doing, Planning, Working, Leaving, Bound,
         Filled, Awaiting
  <2>8. (Whole(base, named, disk))'
      BY <1>35, <2>0 DEF Stored, Contents, Doing, Working, Leaving, Awaiting, Whole
  <2>9. (Inviting(invite, inviteSession, holder, authStep, panelStage))'
      BY <1>35, <2>0 DEF Asked, Invites, AuthSteps, Inviting
  <2>10. QED BY <2>1, <2>2, <2>3, <2>4, <2>5, <2>6, <2>7, <2>8, <2>9
<1>36. CASE OtherBegins
  <2> USE DEF InstallInv, Around, OtherBegins, around, bounds, install, invitation
  <2>0. missteps' \in 0 .. InstallFaults /\ panelStops' \in 0 .. InstallStops
    BY <1>36, InstallerAssumption
  <2>1. Around'  BY <1>36, <2>0
  <2>2. Stored'  BY <1>36, <2>0 DEF Stored, Contents, Journals
  <2>3. Doing'  BY <1>36, <2>0 DEF Doing, Bases, Tasks, Steps
  <2>4. Asked'  BY <1>36, <2>0 DEF Asked, Invites, AuthSteps
  <2>5. (Planning(plan, disk))'
      BY <1>36, <2>0 DEF Stored, Contents, Journals, Planning, Working, Bound, Filled
  <2>6. (Working(task, base, named, plan, disk))'
      BY <1>36, <2>0 DEF Stored, Contents, Journals, Doing, Planning, Working, Bound, Filled,
         Awaiting
  <2>7. (Leaving(left, plan, named, base, task, panelStage))'
      BY <1>36, <2>0 DEF Stored, Contents, Journals, Doing, Planning, Working, Leaving, Bound,
         Filled, Awaiting
  <2>8. (Whole(base, named, disk))'
      BY <1>36, <2>0 DEF Stored, Contents, Doing, Working, Leaving, Awaiting, Whole
  <2>9. (Inviting(invite, inviteSession, holder, authStep, panelStage))'
      BY <1>36, <2>0 DEF Asked, Invites, AuthSteps, Inviting
  <2>10. QED BY <2>1, <2>2, <2>3, <2>4, <2>5, <2>6, <2>7, <2>8, <2>9
<1>37. CASE OtherEnds
  <2> USE DEF InstallInv, Around, OtherEnds, around, bounds, install, invitation
  <2>0. missteps' \in 0 .. InstallFaults /\ panelStops' \in 0 .. InstallStops
    BY <1>37, InstallerAssumption
  <2>1. Around'  BY <1>37, <2>0
  <2>2. Stored'  BY <1>37, <2>0 DEF Stored, Contents, Journals
  <2>3. Doing'  BY <1>37, <2>0 DEF Doing, Bases, Tasks, Steps
  <2>4. Asked'  BY <1>37, <2>0 DEF Asked, Invites, AuthSteps
  <2>5. (Planning(plan, disk))'
      BY <1>37, <2>0 DEF Stored, Contents, Journals, Planning, Working, Bound, Filled
  <2>6. (Working(task, base, named, plan, disk))'
      BY <1>37, <2>0 DEF Stored, Contents, Journals, Doing, Planning, Working, Bound, Filled,
         Awaiting
  <2>7. (Leaving(left, plan, named, base, task, panelStage))'
      BY <1>37, <2>0 DEF Stored, Contents, Journals, Doing, Planning, Working, Leaving, Bound,
         Filled, Awaiting
  <2>8. (Whole(base, named, disk))'
      BY <1>37, <2>0 DEF Stored, Contents, Doing, Working, Leaving, Awaiting, Whole
  <2>9. (Inviting(invite, inviteSession, holder, authStep, panelStage))'
      BY <1>37, <2>0 DEF Asked, Invites, AuthSteps, Inviting
  <2>10. QED BY <2>1, <2>2, <2>3, <2>4, <2>5, <2>6, <2>7, <2>8, <2>9
<1>38. CASE LeftWrites
  <2> USE DEF InstallInv, Around
  <2>p. PICK u \in left, g \in {"part", "whole"} :
          disk' = [disk EXCEPT ![u].game = g, ![u].fetched = TRUE] /\ left' = left \ {u}
    BY <1>38 DEF LeftWrites
  <2>u. u \in Volumes /\ u \in Planned /\ plan[u].prepared  BY <2>p DEF Leaving
  <2>e. /\ disk' \in [Volumes -> Contents] /\ (\A v \in Volumes : v # u => disk'[v] = disk[v])
        /\ disk'[u].there = disk[u].there /\ disk'[u].game # "none"
    BY <2>p, <2>u DEF Stored, Contents
  <2>f. UNCHANGED <<base, named, plan, task, cachedLogin, using, elsewhere, invite, inviteSession, holder, authStep,
                    panelStage, missteps, panelStops>>
    BY <1>38 DEF LeftWrites, invitation, bounds
  <2>l. left' = left \ {u}  BY <2>p
  <2>1. Around'  BY <2>u, <2>e, <2>f, <2>l
  <2>2. Stored'  BY <2>u, <2>e, <2>f, <2>l DEF Stored, Contents, Journals
  <2>3. Doing'  BY <2>u, <2>e, <2>f, <2>l DEF Doing, Bases, Tasks, Steps
  <2>4. Asked'  BY <2>u, <2>e, <2>f, <2>l DEF Asked, Invites, AuthSteps
  <2>5. (Planning(plan, disk))'
      BY <2>u, <2>e, <2>f, <2>l DEF Stored, Contents, Journals, Planning, Working, Bound, Filled
  <2>6. (Working(task, base, named, plan, disk))'
      BY <2>u, <2>e, <2>f, <2>l DEF Stored, Contents, Journals, Doing, Planning, Working, Bound,
         Filled, Awaiting
  <2>7. (Leaving(left, plan, named, base, task, panelStage))'
      BY <2>u, <2>e, <2>f, <2>l DEF Stored, Contents, Journals, Doing, Planning, Working, Leaving,
         Bound, Filled, Awaiting
  <2>8. (Whole(base, named, disk))'
      BY <2>u, <2>e, <2>f, <2>l DEF Stored, Contents, Doing, Working, Leaving, Awaiting, Whole
  <2>9. (Inviting(invite, inviteSession, holder, authStep, panelStage))'
      BY <2>u, <2>e, <2>f, <2>l DEF Asked, Invites, AuthSteps, Inviting
  <2>10. QED BY <2>1, <2>2, <2>3, <2>4, <2>5, <2>6, <2>7, <2>8, <2>9
<1>39. CASE LeftEnds
  <2> USE DEF InstallInv, Around, LeftEnds, around, bounds, install, invitation
  <2>0. missteps' \in 0 .. InstallFaults /\ panelStops' \in 0 .. InstallStops
    BY <1>39, InstallerAssumption
  <2>1. Around'  BY <1>39, <2>0
  <2>2. Stored'  BY <1>39, <2>0 DEF Stored, Contents, Journals
  <2>3. Doing'  BY <1>39, <2>0 DEF Doing, Bases, Tasks, Steps
  <2>4. Asked'  BY <1>39, <2>0 DEF Asked, Invites, AuthSteps
  <2>5. (Planning(plan, disk))'
      BY <1>39, <2>0 DEF Stored, Contents, Journals, Planning, Working, Bound, Filled
  <2>6. (Working(task, base, named, plan, disk))'
      BY <1>39, <2>0 DEF Stored, Contents, Journals, Doing, Planning, Working, Bound, Filled,
         Awaiting
  <2>7. (Leaving(left, plan, named, base, task, panelStage))'
      BY <1>39, <2>0 DEF Stored, Contents, Journals, Doing, Planning, Working, Leaving, Bound,
         Filled, Awaiting
  <2>8. (Whole(base, named, disk))'
      BY <1>39, <2>0 DEF Stored, Contents, Doing, Working, Leaving, Awaiting, Whole
  <2>9. (Inviting(invite, inviteSession, holder, authStep, panelStage))'
      BY <1>39, <2>0 DEF Asked, Invites, AuthSteps, Inviting
  <2>10. QED BY <2>1, <2>2, <2>3, <2>4, <2>5, <2>6, <2>7, <2>8, <2>9
<1>40. ASSUME NEW u \in Planned, Updated(u) PROVE InstallInv'
  <2>p. panelStage = "up" /\ task.step = "idle" /\ base = "installed" /\ ~disk[u].there /\ ~plan[u].made /\ u \in Volumes
    BY <1>40 DEF Updated, Idle
  <2>e. /\ disk' \in [Volumes -> Contents] /\ (\A v \in Volumes : v # u => disk'[v] = disk[v])
        /\ disk'[u] = [disk[named] EXCEPT !.fetched = FALSE] /\ named' = u /\ using' = {u}
    BY <1>40, <2>p DEF Updated, InstallInv, Around, Stored, Contents
  <2>f. UNCHANGED <<base, plan, task, cachedLogin, left, elsewhere, invite, inviteSession, holder, authStep,
                    panelStage, missteps, panelStops>>
    BY <1>40 DEF Updated, invitation, bounds
  <2>1. Around'  BY <2>p, <2>e, <2>f DEF InstallInv, Around
  <2>2. Stored'  BY <2>p, <2>e, <2>f DEF InstallInv, Around, Stored, Contents, Journals
  <2>3. Doing'  BY <2>p, <2>e, <2>f DEF InstallInv, Around, Doing, Bases, Tasks, Steps
  <2>4. Asked'  BY <2>p, <2>e, <2>f DEF InstallInv, Asked, Invites, AuthSteps
  <2>5. (Planning(plan, disk))'
      BY ZenonT(60), <2>p, <2>e, <2>f DEF InstallInv, Around, Stored, Contents, Journals, Planning, Working,
         Bound, Filled
  <2>6. (Working(task, base, named, plan, disk))'
      BY <2>p, <2>e, <2>f DEF InstallInv, Around, Stored, Contents, Journals, Doing, Planning,
         Working, Bound, Filled, Awaiting
  <2>7. (Leaving(left, plan, named, base, task, panelStage))'
      BY <2>p, <2>e, <2>f DEF InstallInv, Around, Stored, Contents, Journals, Doing, Planning,
         Working, Leaving, Bound, Filled, Awaiting
  <2>8. (Whole(base, named, disk))'
      BY <2>p, <2>e, <2>f DEF InstallInv, Around, Stored, Contents, Doing, Working, Leaving,
         Awaiting, Whole
  <2>9. (Inviting(invite, inviteSession, holder, authStep, panelStage))'
      BY <2>p, <2>e, <2>f DEF InstallInv, Asked, Invites, AuthSteps, Inviting
  <2>10. QED BY <2>1, <2>2, <2>3, <2>4, <2>5, <2>6, <2>7, <2>8, <2>9 DEF InstallInv
<1>41. QED
  BY <1>1, <1>2, <1>3, <1>4, <1>5, <1>6, <1>7, <1>8, <1>9, <1>10, <1>11, <1>12, <1>13, <1>14,
     <1>15, <1>16, <1>17, <1>18, <1>19, <1>20, <1>21, <1>22, <1>23, <1>24, <1>25, <1>26, <1>27,
        <1>28, <1>29, <1>30, <1>31, <1>32, <1>33, <1>34, <1>35, <1>36, <1>37, <1>38, <1>39,
           <1>40 DEF InstallerNext, Installs, Authorizes, Panel

LEMMA InstallStarts == InstallerInit => InstallInv
<1> SUFFICES ASSUME InstallerInit PROVE InstallInv
  OBVIOUS
<1>0. left = {} /\ using = {} /\ task = NoTask /\ named = 0 /\ panelStage = "up" /\ missteps = 0 /\ panelStops = 0
  BY DEF InstallerInit
<1>1. Around
  <2>1. elsewhere = FALSE /\ cachedLogin = FALSE  BY DEF InstallerInit
  <2>2. 0 \in 0 .. InstallFaults /\ 0 \in 0 .. InstallStops  BY InstallerAssumption
  <2>3. QED BY <1>0, <2>1, <2>2, Numbers DEF Around
<1>2. Stored  BY Numbers DEF InstallerInit, Stored, Contents, Journals, NoVolume, NoPlan
<1>3. Doing  BY Numbers DEF InstallerInit, Doing, Bases, Tasks, Steps, NoTask
<1>4. Asked  BY DEF InstallerInit, Asked, Invites, AuthSteps
<1>5. Planning(plan, disk)  BY Numbers DEF InstallerInit, Planning, NoVolume, NoPlan
<1>6. Working(task, base, named, plan, disk)  BY <1>0 DEF Working, NoTask, Bound, Filled
<1>7. Leaving(left, plan, named, base, task, panelStage)  BY <1>0 DEF Leaving
<1>8. Whole(base, named, disk)  BY Numbers DEF InstallerInit, Whole, NoVolume
<1>9. Inviting(invite, inviteSession, holder, authStep, panelStage)
  <2>1. /\ inviteSession \in BOOLEAN /\ holder = FALSE /\ authStep = "idle"
        /\ invite.on = inviteSession /\ invite.done = inviteSession
        /\ invite.report = (IF inviteSession THEN "ready" ELSE "disabled")
    BY DEF InstallerInit
  <2>2. QED BY <1>0, <2>1 DEF Inviting
<1>10. QED BY <1>1, <1>2, <1>3, <1>4, <1>5, <1>6, <1>7, <1>8, <1>9 DEF InstallInv

LEMMA InstallRests == InstallInv /\ UNCHANGED installerVars => InstallInv'
BY DEF InstallInv, Around, Stored, Doing, Asked, Planning, Working, Leaving, Whole, Inviting,
   installerVars

\* The invariant of an installation and of the authorization beside it: what volumes,
\* plans, containers left behind and .env say of each other, wherever a failing step or
\* a stop of the panel leaves them.
THEOREM InstallInvariant == InstallerSpec => []InstallInv
<1>1. InstallInv /\ [InstallerNext]_installerVars => InstallInv'  BY InstallStep, InstallRests
<1>2. QED BY InstallStarts, <1>1, PTL DEF InstallerSpec

\* Every variable keeps its type.
THEOREM InstallTypes == InstallerSpec => []InstallerTypeOK
<1>1. InstallInv => InstallerTypeOK
  BY DEF InstallInv, Around, Stored, Doing, Asked, Contents, Journals, Tasks, Bases, Invites,
     InstallerTypeOK
<1>2. QED BY InstallInvariant, <1>1, PTL

\* What the panel shows is so, for any number of volumes, failing steps and stops: an
\* instance shown as installed has all its files, and invite codes are shown as ready
\* or to be cleaned up only with a session.
THEOREM ShownIsTrueHolds == InstallerSpec => []ShownIsTrue
<1>1. InstallInv => ShownIsTrue
  <2> SUFFICES ASSUME InstallInv PROVE ShownIsTrue
    OBVIOUS
  <2>1. base = "installed" => Complete(named)  BY DEF InstallInv, Whole, Complete
  <2>2. Shown(invite) = "ready" => inviteSession /\ ~holder
    BY DEF InstallInv, Inviting, Shown, Asked, Invites
  <2>3. Shown(invite) = "cleanup_pending" => inviteSession
    BY DEF InstallInv, Inviting, Shown, Asked, Invites
  <2>4. QED BY <2>1, <2>2, <2>3 DEF ShownIsTrue
<1>2. QED BY InstallInvariant, <1>1, PTL

\* What SteamCMD has put into a volume is never cleared: a plan is filled once, before
\* the first download, and a volume is chosen only when there is nothing in it.
THEOREM DownloadKeptHolds == InstallerSpec => DownloadKept
<1> DEFINE Kept == \A v \in Volumes : disk[v].fetched => disk'[v].fetched
           Keeps == \A v \in Volumes : disk[v].fetched => disk'[v].fetched /\ disk'[v].game # "none"
<1>1. InstallInv /\ InstallerNext => Kept
  <2> SUFFICES ASSUME InstallInv, InstallerNext PROVE Kept
    OBVIOUS
  <2> USE Numbers DEF InstallInv, Around, Stored, Contents
  <2>1. disk' = disk => Kept  OBVIOUS
  <2>2. ASSUME NEW u \in Volumes, NEW c, disk' = [disk EXCEPT ![u] = c], disk[u].fetched => c.fetched
        PROVE  Kept
    BY <2>2
  <2>3. CASE CreateVolume
    <3>1. disk' = disk \/ disk' = [disk EXCEPT ![named] = [disk[named] EXCEPT !.there = TRUE]]
      BY <2>3 DEF CreateVolume, At
    <3>2. QED BY <3>1, <2>1, <2>2
  <2>4. CASE FillVolume
    <3>1. disk' = disk \/ disk' = [disk EXCEPT ![named] = [NoVolume EXCEPT !.there = TRUE]]
      BY <2>4 DEF FillVolume, At
    <3>2. ~disk[named].fetched  BY <2>4 DEF FillVolume, At, Working, Planning
    <3>3. QED BY <3>1, <3>2, <2>1, <2>2
  <2>5. CASE CopyVolume
    <3>1. disk' = disk \/ disk' = [disk EXCEPT ![named] = [disk[plan[named].source] EXCEPT !.fetched = FALSE]]
      BY <2>5 DEF CopyVolume, At
    <3>2. ~disk[named].fetched  BY <2>5 DEF CopyVolume, At, Working, Planning
    <3>3. QED BY <3>1, <3>2, <2>1, <2>2
  <2>6. CASE MarkGame
    <3>1. disk' = disk \/ disk' = [disk EXCEPT ![named] = [disk[named] EXCEPT !.smapi = TRUE]]
      BY <2>6 DEF MarkGame, At
    <3>2. QED BY <3>1, <2>1, <2>2
  <2>7. CASE SteamWrites
    <3>1. disk' = [disk EXCEPT ![named] = [disk[named] EXCEPT !.game = "part", !.fetched = TRUE]]
      BY <2>7 DEF SteamWrites
    <3>2. QED BY <3>1, <2>2
  <2>8. CASE Downloaded
    <3>1. PICK g \in {"part", "whole"} : disk' = [disk EXCEPT ![named].game = g, ![named].fetched = TRUE]
      BY <2>8 DEF Downloaded
    <3>2. QED BY <3>1
  <2>9. CASE LeftWrites
    <3>1. PICK u \in left, g \in {"part", "whole"} : disk' = [disk EXCEPT ![u].game = g, ![u].fetched = TRUE]
      BY <2>9 DEF LeftWrites
    <3>2. QED BY <3>1
  <2>10. ASSUME NEW v \in Planned, Updated(v) PROVE Kept
    <3>1. disk' = [disk EXCEPT ![v] = [disk[named] EXCEPT !.fetched = FALSE]] /\ ~plan[v].made /\ v \in Volumes
      BY <2>10 DEF Updated
    <3>2. ~disk[v].fetched  BY <3>1 DEF Planning
    <3>3. QED BY <3>1, <3>2, <2>2
  <2>11. CASE \/ RequestInstall \/ PrepareDirectory \/ PullImage \/ ChooseVolume \/ BindVolume \/ ValidateVolume
              \/ LogIn \/ CachedRefused \/ LoginFails \/ DownloadFails \/ BeginSmapi \/ VerifyInstall
    <3>1. disk' = disk
      BY <2>11 DEF RequestInstall, PrepareDirectory, PullImage, ChooseVolume, BindVolume,
         ValidateVolume, At, LogIn,
                   CachedRefused, LoginFails, DownloadFails, BeginSmapi, VerifyInstall
    <3>2. QED BY <3>1, <2>1
  <2>12. CASE Authorizes \/ Panel \/ Play \/ Remove \/ FilesRechecked \/ OtherBegins \/ OtherEnds \/ LeftEnds
    <3>1. disk' = disk
      BY <2>12 DEF Authorizes, RequestAuth, BeginAuth, ClearSession, ForgetLogin, AuthFails,
         StartLogin, LoginWon, LoginLost,
                   LoginStops, PersistLogin, EndAuth, AuthAt, Panel, StopPanel, BootJobs,
                   BootInvite, Play, Remove,
                   FilesRechecked, OtherBegins, OtherEnds, LeftEnds, install
    <3>2. QED BY <3>1, <2>1
  <2>13. QED
    BY <2>3, <2>4, <2>5, <2>6, <2>7, <2>8, <2>9, <2>10, <2>11, <2>12 DEF InstallerNext, Installs
<1>2. InstallInv' => \A v \in Volumes : disk'[v].fetched => disk'[v].game # "none"
  BY DEF InstallInv, Planning
<1>3. InstallInv /\ InstallInv' /\ [InstallerNext]_installerVars => [Keeps]_installerVars
  BY <1>1, <1>2
<1>4. QED BY InstallInvariant, <1>3, PTL DEF InstallerSpec, DownloadKept

(***************************************************************************)
(* Updates of SMAPI.  The invariant says what the job remembers, what its  *)
(* kit of originals holds and what is in place of each of them, step by    *)
(* step of an apply and of a rollback, whoever does it.                    *)
(***************************************************************************)
\* The steps of an apply before and after there is something to roll back, with .env
\* naming the old volume and the clone; and those of a rollback.
Pre      == {"check", "fetch", "save", "note", "create"}
Mid      == {"clone", "install", "verify", "halt", "control", "switch", "switched"}
Post     == {"sync", "publish", "start", "stack", "restore", "finish"}
Restored == {"restart", "reverify", "unhalt", "drop", "forget", "settle"}
Undoing  == {"undo", "unstop", "unswitch", "unsync", "unpublish", "lost", "uncontrol"} \cup Restored
Works    == {"idle", "tidy"} \cup Pre \cup Mid \cup Post \cup Undoing

BundledKept == bundled \in {"old", origin.bundled}
\* How a rollback leaves the server.
AsFound == game.up = (duty = "apply" /\ was)

SmapiTypes ==
    /\ work \in Works /\ duty \in {"apply", "boot"}
    /\ held \in [mutated: BOOLEAN, switched: BOOLEAN, keep: BOOLEAN]
    /\ report \in Forward \cup SmapiFinal \cup {"none", "rolling_back"}
    /\ late \in Forward \cup {"no", "rolling_back"}
    /\ kit \in [dir: {"none", "copies", "whole", "torn"}, switched: BOOLEAN]
    /\ dry \in BOOLEAN /\ archive \in {"unfit", "good"}
    /\ volume \in {"old", "clone"} /\ clone \in {"none", "made", "copied", "ready", "spoilt"}
    /\ controlMod \in {"old", "mixed", "new"}
    /\ bundled \in {"old", "new", "none"} /\ spare \in {"old", "new", "none"}
    /\ game \in [up: BOOLEAN, uses: {"old", "clone"}] /\ was \in BOOLEAN
    /\ origin \in [control: {"old", "mixed", "new"}, bundled: {"old", "new", "none"}]
    /\ alive \in BOOLEAN /\ unnoted \in BOOLEAN
    /\ failures \in 0..SmapiFaults /\ stops \in 0..SmapiStops

\* What the job remembers is so, and no other job is about.
Memory ==
    /\ ~alive => work = "idle" /\ late = "no" /\ held = Blank
    /\ work \in Pre \cup Mid \cup Post => duty = "apply" /\ late = "no" /\ ~held.keep
    /\ work \in Undoing => (held.keep <=> duty = "boot")
    /\ work \in Undoing /\ held.keep => held.mutated /\ held.switched = kit.switched
    /\ work \in Pre => ~held.mutated /\ ~held.switched
    /\ work \in Mid => held.mutated /\ ~held.switched
    /\ work \in Post => held.mutated /\ held.switched
    /\ work \in Undoing \ {"undo", "settle"} => held.mutated
    /\ work \in Undoing /\ held.switched => held.mutated
    /\ work \in {"unswitch", "unsync", "unpublish", "lost"} => held.switched
    /\ work \in {"restart", "reverify", "unhalt"} => ~held.keep
    /\ work \in Undoing /\ kit.switched => held.switched
    /\ work = "undo" /\ held.keep => held.switched
    /\ work = "forget" => held.keep /\ ~held.switched
    /\ work = "unhalt" => ~was
    /\ late # "no" => duty = "boot" /\ report # "succeeded"

\* The recovery directory has what a rollback needs.
Kept ==
    /\ kit.switched => kit.dir = "whole"
    /\ work \in Mid \cup Post \cup {"create"} => kit.dir = "whole"
    /\ work \in Pre => ~kit.switched
    /\ work = "check" => kit.dir = "none"
    /\ work \in Mid => ~kit.switched
    /\ work \in Post => kit.switched
    /\ work \in Undoing \ {"settle"} /\ held.mutated => kit.dir \in {"whole", "torn"}
    /\ work \in Undoing \ {"settle"} /\ held.mutated /\ ~held.keep => kit.dir = "whole"
    /\ report # "succeeded" /\ kit.dir # "whole" => AsBefore
    /\ (report \notin {"succeeded", "rollback_failed"} \/ late # "no") /\ ~kit.switched /\ ~held.switched => BundledKept
    /\ ~alive /\ Interrupted /\ ~kit.switched => volume = "old"

\* What is in place at every step.
Placed ==
    /\ game.up => game.uses = volume
    /\ volume = "clone" => clone = "ready"
    /\ work \in {"halt", "control", "switch"} => clone = "ready"
    /\ work \in {"control", "switch", "switched", "sync", "publish", "start"} => ~game.up
    /\ work \in Pre => AsBefore /\ game.up = was
    /\ work \in Mid => volume = (IF work = "switched" THEN "clone" ELSE "old")
    /\ work \in Post => volume = "clone"
    /\ work \in {"switch", "switched"} \cup Post => controlMod = "new"
    /\ work \in {"start", "stack", "restore", "finish"} => bundled = "new"
    /\ work = "restore" => game.up
    /\ work = "finish" => game.up = was
    /\ work \in {"undo", "unstop"} /\ ~held.switched => volume = "old"
    /\ work \in {"unsync", "unpublish", "lost", "uncontrol"} => volume = "old"
    /\ work = "uncontrol" => BundledKept
    /\ work \in {"unswitch", "unsync", "unpublish", "lost"} => ~game.up
    /\ work = "uncontrol" /\ held.keep => ~game.up
    /\ work \in Restored => AsBefore
    /\ work = "undo" /\ ~held.mutated => AsBefore /\ AsFound
    /\ work \in {"drop", "forget", "settle"} => AsFound

\* What is reported is so.
Reported ==
    /\ work \in Pre \cup Mid \cup Post \cup Undoing => report \notin SmapiFinal \cup {"none"}
    /\ report = "none" => held = Blank
    /\ report = "succeeded" =>
          volume = "clone" /\ controlMod = "new" /\ bundled = "new" /\ game.up = was /\ work \in {"tidy", "idle"}
    /\ report = "failed_rolled_back" => AsBefore /\ AsFound
    /\ work = "tidy" /\ report # "succeeded" => AsBefore

SmapiInv == SmapiTypes /\ (unnoted \/ (Memory /\ Kept /\ Placed /\ Reported))

LEMMA SmapiStep == SmapiInv /\ SmapiNext => SmapiInv'
<1> USE DEF BundledKept, AsBefore, Placed, AsFound
<1> SUFFICES ASSUME SmapiInv, SmapiNext PROVE SmapiInv'
  OBVIOUS
<1>0. SmapiTypes /\ (~unnoted => Memory /\ Kept /\ Placed /\ Reported)  BY DEF SmapiInv
<1>1. CASE SmapiDryRun
  <2> USE DEF SmapiTypes, Works, Pre, Mid, Post, Restored, Undoing, NoChangeYet, Forward,
     SmapiFinal, SmapiDryRun, fixed, notes, smapiMods, places, Memory, Kept, Reported
  <2>1. SmapiTypes'  BY <1>1, <1>0, SmapiAssumption
  <2>2. ASSUME ~unnoted' PROVE Memory' /\ Kept' /\ Placed' /\ Reported'
    <3>u. ~unnoted  BY <1>1, <1>0, <2>2
    <3>v. Memory /\ Kept /\ Placed /\ Reported  BY <1>0, <3>u
    <3>1. Memory'  BY <1>1, <1>0, <2>2, <3>u, <3>v
    <3>2. Kept'  BY <1>1, <1>0, <2>2, <3>u, <3>v DEF Interrupted
    <3>3. Placed'  BY <1>1, <1>0, <2>2, <3>u, <3>v
    <3>4. Reported'  BY <1>1, <1>0, <2>2, <3>u, <3>v
    <3>5. QED BY <3>1, <3>2, <3>3, <3>4
  <2>3. QED BY <2>1, <2>2 DEF SmapiInv
<1>2. CASE SmapiRequest
  <2> USE DEF SmapiTypes, Works, Pre, Mid, Post, Restored, Undoing, NoChangeYet, Forward,
     SmapiFinal, SmapiRequest, Outdated, Done, Broken, fixed, notes, smapiMods, places, NoKit, Blank
  <2>1. SmapiTypes'
    <3>1. (work \in Works)'  BY <1>2, <1>0, SmapiAssumption
    <3>2. (duty \in {"apply", "boot"})'  BY <1>2, <1>0, SmapiAssumption
    <3>3. (held \in [mutated: BOOLEAN, switched: BOOLEAN, keep: BOOLEAN])'
        <4>1. Blank \in [mutated: BOOLEAN, switched: BOOLEAN, keep: BOOLEAN]  OBVIOUS
        <4>2. held' = held \/ held' = Blank  BY <1>2
        <4>3. QED BY <1>0, <4>1, <4>2
    <3>4. (report \in Forward \cup SmapiFinal \cup {"none", "rolling_back"})'
      BY <1>2, <1>0, SmapiAssumption
    <3>5. (late \in Forward \cup {"no", "rolling_back"})'  BY <1>2, <1>0, SmapiAssumption
    <3>6. (kit \in [dir: {"none", "copies", "whole", "torn"}, switched: BOOLEAN])'
        <4>1. NoKit \in [dir: {"none", "copies", "whole", "torn"}, switched: BOOLEAN]  OBVIOUS
        <4>2. kit' = kit \/ kit' = NoKit  BY <1>2
        <4>3. QED BY <1>0, <4>1, <4>2
    <3>7. (dry \in BOOLEAN)'  BY <1>2, <1>0, SmapiAssumption
    <3>8. (archive \in {"unfit", "good"})'  BY <1>2, <1>0, SmapiAssumption
    <3>9. (volume \in {"old", "clone"})'  BY <1>2, <1>0, SmapiAssumption
    <3>10. (clone \in {"none", "made", "copied", "ready", "spoilt"})'
      BY <1>2, <1>0, SmapiAssumption
    <3>11. (controlMod \in {"old", "mixed", "new"})'  BY <1>2, <1>0, SmapiAssumption
    <3>12. (bundled \in {"old", "new", "none"})'  BY <1>2, <1>0, SmapiAssumption
    <3>13. (spare \in {"old", "new", "none"})'  BY <1>2, <1>0, SmapiAssumption
    <3>14. (game \in [up: BOOLEAN, uses: {"old", "clone"}])'  BY <1>2, <1>0, SmapiAssumption
    <3>15. (was \in BOOLEAN)'  BY <1>2, <1>0, SmapiAssumption
    <3>16. (origin \in [control: {"old", "mixed", "new"}, bundled: {"old", "new", "none"}])'
      BY <1>2, <1>0, SmapiAssumption
    <3>17. (alive \in BOOLEAN)'  BY <1>2, <1>0, SmapiAssumption
    <3>18. (unnoted \in BOOLEAN)'  BY <1>2, <1>0, SmapiAssumption
    <3>19. (failures \in 0..SmapiFaults)'  BY <1>2, <1>0, SmapiAssumption
    <3>20. (stops \in 0..SmapiStops)'  BY <1>2, <1>0, SmapiAssumption
    <3>21. QED
      BY <3>1, <3>2, <3>3, <3>4, <3>5, <3>6, <3>7, <3>8, <3>9, <3>10, <3>11, <3>12, <3>13, <3>14,
         <3>15, <3>16, <3>17, <3>18, <3>19, <3>20
  <2>2. ASSUME ~unnoted' PROVE Memory' /\ Kept' /\ Placed' /\ Reported'
    <3>u. ~unnoted  BY <1>2, <1>0, <2>2
    <3>v. Memory /\ Kept /\ Placed /\ Reported  BY <1>0, <3>u
    <3>1. Memory'  BY <1>2, <1>0, <2>2, <3>u, <3>v DEF Memory, Kept, Reported
    <3>2. Kept'  BY <1>2, <1>0, <2>2, <3>u, <3>v DEF Memory, Kept, Reported, Interrupted
    <3>3. Placed'  BY <1>2, <1>0, <2>2, <3>u, <3>v DEF Memory, Kept, Reported
    <3>4. Reported'  BY <1>2, <1>0, <2>2, <3>u, <3>v DEF Memory, Kept, Reported
    <3>5. QED BY <3>1, <3>2, <3>3, <3>4
  <2>3. QED BY <2>1, <2>2 DEF SmapiInv
<1>3. CASE Recheck
  <2> USE DEF SmapiTypes, Works, Pre, Mid, Post, Restored, Undoing, NoChangeYet, Forward,
     SmapiFinal, Recheck, Attempt, Done, Broken, fixed, notes, smapiMods, places, Phased,
     MaybePhased, Memory, Kept, Reported
  <2>1. SmapiTypes'  BY <1>3, <1>0, SmapiAssumption
  <2>2. ASSUME ~unnoted' PROVE Memory' /\ Kept' /\ Placed' /\ Reported'
    <3>u. ~unnoted  BY <1>3, <1>0, <2>2
    <3>v. Memory /\ Kept /\ Placed /\ Reported  BY <1>0, <3>u
    <3>1. Memory'  BY <1>3, <1>0, <2>2, <3>u, <3>v
    <3>2. Kept'  BY <1>3, <1>0, <2>2, <3>u, <3>v DEF Interrupted
    <3>3. Placed'  BY <1>3, <1>0, <2>2, <3>u, <3>v
    <3>4. Reported'  BY <1>3, <1>0, <2>2, <3>u, <3>v
    <3>5. QED BY <3>1, <3>2, <3>3, <3>4
  <2>3. QED BY <2>1, <2>2 DEF SmapiInv
<1>4. CASE EnsureArchive
  <2> USE DEF SmapiTypes, Works, Pre, Mid, Post, Restored, Undoing, NoChangeYet, Forward,
     SmapiFinal, EnsureArchive, Attempt, Done, Broken, fixed, notes, smapiMods, places, Phased,
     MaybePhased, Memory, Kept, Reported
  <2>1. SmapiTypes'  BY <1>4, <1>0, SmapiAssumption
  <2>2. ASSUME ~unnoted' PROVE Memory' /\ Kept' /\ Placed' /\ Reported'
    <3>u. ~unnoted  BY <1>4, <1>0, <2>2
    <3>v. Memory /\ Kept /\ Placed /\ Reported  BY <1>0, <3>u
    <3>1. Memory'  BY <1>4, <1>0, <2>2, <3>u, <3>v
    <3>2. Kept'  BY <1>4, <1>0, <2>2, <3>u, <3>v DEF Interrupted
    <3>3. Placed'  BY <1>4, <1>0, <2>2, <3>u, <3>v
    <3>4. Reported'  BY <1>4, <1>0, <2>2, <3>u, <3>v
    <3>5. QED BY <3>1, <3>2, <3>3, <3>4
  <2>3. QED BY <2>1, <2>2 DEF SmapiInv
<1>5. CASE BackupControl
  <2> USE DEF SmapiTypes, Works, Pre, Mid, Post, Restored, Undoing, NoChangeYet, Forward,
     SmapiFinal, BackupControl, Attempt, Done, Broken, fixed, notes, smapiMods, places, Phased,
     MaybePhased, Memory, Kept, Reported
  <2>1. SmapiTypes'  BY <1>5, <1>0, SmapiAssumption
  <2>2. ASSUME ~unnoted' PROVE Memory' /\ Kept' /\ Placed' /\ Reported'
    <3>u. ~unnoted  BY <1>5, <1>0, <2>2
    <3>v. Memory /\ Kept /\ Placed /\ Reported  BY <1>0, <3>u
    <3>1. Memory'  BY <1>5, <1>0, <2>2, <3>u, <3>v
    <3>2. Kept'  BY <1>5, <1>0, <2>2, <3>u, <3>v DEF Interrupted
    <3>3. Placed'  BY <1>5, <1>0, <2>2, <3>u, <3>v
    <3>4. Reported'  BY <1>5, <1>0, <2>2, <3>u, <3>v
    <3>5. QED BY <3>1, <3>2, <3>3, <3>4
  <2>3. QED BY <2>1, <2>2 DEF SmapiInv
<1>6. CASE WriteKit
  <2> USE DEF SmapiTypes, Works, Pre, Mid, Post, Restored, Undoing, NoChangeYet, Forward,
     SmapiFinal, WriteKit, Attempt, Done, Broken, fixed, notes, smapiMods, places, Phased,
     MaybePhased, Memory, Kept, Reported
  <2>1. SmapiTypes'  BY <1>6, <1>0, SmapiAssumption
  <2>2. ASSUME ~unnoted' PROVE Memory' /\ Kept' /\ Placed' /\ Reported'
    <3>u. ~unnoted  BY <1>6, <1>0, <2>2
    <3>v. Memory /\ Kept /\ Placed /\ Reported  BY <1>0, <3>u
    <3>1. Memory'  BY <1>6, <1>0, <2>2, <3>u, <3>v
    <3>2. Kept'  BY <1>6, <1>0, <2>2, <3>u, <3>v DEF Interrupted
    <3>3. Placed'  BY <1>6, <1>0, <2>2, <3>u, <3>v
    <3>4. Reported'  BY <1>6, <1>0, <2>2, <3>u, <3>v
    <3>5. QED BY <3>1, <3>2, <3>3, <3>4
  <2>3. QED BY <2>1, <2>2 DEF SmapiInv
<1>7. CASE CreateClone
  <2> USE DEF SmapiTypes, Works, Pre, Mid, Post, Restored, Undoing, NoChangeYet, Forward,
     SmapiFinal, CreateClone, Attempt, Done, Broken, fixed, notes, smapiMods, places, Phased,
     MaybePhased
  <2>1. SmapiTypes'
    <3>1. (work \in Works)'  BY <1>7, <1>0, SmapiAssumption
    <3>2. (duty \in {"apply", "boot"})'  BY <1>7, <1>0, SmapiAssumption
    <3>3. (held \in [mutated: BOOLEAN, switched: BOOLEAN, keep: BOOLEAN])'
      BY <1>7, <1>0, SmapiAssumption
    <3>4. (report \in Forward \cup SmapiFinal \cup {"none", "rolling_back"})'
      BY <1>7, <1>0, SmapiAssumption
    <3>5. (late \in Forward \cup {"no", "rolling_back"})'  BY <1>7, <1>0, SmapiAssumption
    <3>6. (kit \in [dir: {"none", "copies", "whole", "torn"}, switched: BOOLEAN])'
      BY <1>7, <1>0, SmapiAssumption
    <3>7. (dry \in BOOLEAN)'  BY <1>7, <1>0, SmapiAssumption
    <3>8. (archive \in {"unfit", "good"})'  BY <1>7, <1>0, SmapiAssumption
    <3>9. (volume \in {"old", "clone"})'  BY <1>7, <1>0, SmapiAssumption
    <3>10. (clone \in {"none", "made", "copied", "ready", "spoilt"})'
      BY <1>7, <1>0, SmapiAssumption
    <3>11. (controlMod \in {"old", "mixed", "new"})'  BY <1>7, <1>0, SmapiAssumption
    <3>12. (bundled \in {"old", "new", "none"})'  BY <1>7, <1>0, SmapiAssumption
    <3>13. (spare \in {"old", "new", "none"})'  BY <1>7, <1>0, SmapiAssumption
    <3>14. (game \in [up: BOOLEAN, uses: {"old", "clone"}])'  BY <1>7, <1>0, SmapiAssumption
    <3>15. (was \in BOOLEAN)'  BY <1>7, <1>0, SmapiAssumption
    <3>16. (origin \in [control: {"old", "mixed", "new"}, bundled: {"old", "new", "none"}])'
      BY <1>7, <1>0, SmapiAssumption
    <3>17. (alive \in BOOLEAN)'  BY <1>7, <1>0, SmapiAssumption
    <3>18. (unnoted \in BOOLEAN)'  BY <1>7, <1>0, SmapiAssumption
    <3>19. (failures \in 0..SmapiFaults)'  BY <1>7, <1>0, SmapiAssumption
    <3>20. (stops \in 0..SmapiStops)'  BY <1>7, <1>0, SmapiAssumption
    <3>21. QED
      BY <3>1, <3>2, <3>3, <3>4, <3>5, <3>6, <3>7, <3>8, <3>9, <3>10, <3>11, <3>12, <3>13, <3>14,
         <3>15, <3>16, <3>17, <3>18, <3>19, <3>20
  <2>2. ASSUME ~unnoted' PROVE Memory' /\ Kept' /\ Placed' /\ Reported'
    <3>u. ~unnoted  BY <1>7, <1>0, <2>2
    <3>v. Memory /\ Kept /\ Placed /\ Reported  BY <1>0, <3>u
    <3>1. Memory'  BY <1>7, <1>0, <2>2, <3>u, <3>v DEF Memory, Kept, Reported
    <3>2. Kept'  BY <1>7, <1>0, <2>2, <3>u, <3>v DEF Memory, Kept, Reported, Interrupted
    <3>3. Placed'  BY <1>7, <1>0, <2>2, <3>u, <3>v DEF Memory, Kept, Reported
    <3>4. Reported'  BY <1>7, <1>0, <2>2, <3>u, <3>v DEF Memory, Kept, Reported
    <3>5. QED BY <3>1, <3>2, <3>3, <3>4
  <2>3. QED BY <2>1, <2>2 DEF SmapiInv
<1>8. CASE CloneGame
  <2> USE DEF SmapiTypes, Works, Pre, Mid, Post, Restored, Undoing, NoChangeYet, Forward,
     SmapiFinal, CloneGame, Attempt, Done, Broken, fixed, notes, smapiMods, places, Phased,
     MaybePhased, Memory, Kept, Reported
  <2>1. SmapiTypes'  BY <1>8, <1>0, SmapiAssumption
  <2>2. ASSUME ~unnoted' PROVE Memory' /\ Kept' /\ Placed' /\ Reported'
    <3>u. ~unnoted  BY <1>8, <1>0, <2>2
    <3>v. Memory /\ Kept /\ Placed /\ Reported  BY <1>0, <3>u
    <3>1. Memory'  BY <1>8, <1>0, <2>2, <3>u, <3>v
    <3>2. Kept'  BY <1>8, <1>0, <2>2, <3>u, <3>v DEF Interrupted
    <3>3. Placed'  BY <1>8, <1>0, <2>2, <3>u, <3>v
    <3>4. Reported'  BY <1>8, <1>0, <2>2, <3>u, <3>v
    <3>5. QED BY <3>1, <3>2, <3>3, <3>4
  <2>3. QED BY <2>1, <2>2 DEF SmapiInv
<1>9. CASE InstallSmapi
  <2> USE DEF SmapiTypes, Works, Pre, Mid, Post, Restored, Undoing, NoChangeYet, Forward,
     SmapiFinal, InstallSmapi, Attempt, Done, Broken, fixed, notes, smapiMods, places, Phased,
     MaybePhased, Memory, Kept, Reported
  <2>1. SmapiTypes'  BY <1>9, <1>0, SmapiAssumption
  <2>2. ASSUME ~unnoted' PROVE Memory' /\ Kept' /\ Placed' /\ Reported'
    <3>u. ~unnoted  BY <1>9, <1>0, <2>2
    <3>v. Memory /\ Kept /\ Placed /\ Reported  BY <1>0, <3>u
    <3>1. Memory'  BY <1>9, <1>0, <2>2, <3>u, <3>v
    <3>2. Kept'  BY <1>9, <1>0, <2>2, <3>u, <3>v DEF Interrupted
    <3>3. Placed'  BY <1>9, <1>0, <2>2, <3>u, <3>v
    <3>4. Reported'  BY <1>9, <1>0, <2>2, <3>u, <3>v
    <3>5. QED BY <3>1, <3>2, <3>3, <3>4
  <2>3. QED BY <2>1, <2>2 DEF SmapiInv
<1>10. CASE VerifyClone
  <2> USE DEF SmapiTypes, Works, Pre, Mid, Post, Restored, Undoing, NoChangeYet, Forward,
     SmapiFinal, VerifyClone, Attempt, Done, Broken, fixed, notes, smapiMods, places, Phased,
     MaybePhased, Memory, Kept, Reported
  <2>1. SmapiTypes'  BY <1>10, <1>0, SmapiAssumption
  <2>2. ASSUME ~unnoted' PROVE Memory' /\ Kept' /\ Placed' /\ Reported'
    <3>u. ~unnoted  BY <1>10, <1>0, <2>2
    <3>v. Memory /\ Kept /\ Placed /\ Reported  BY <1>0, <3>u
    <3>1. Memory'  BY <1>10, <1>0, <2>2, <3>u, <3>v
    <3>2. Kept'  BY <1>10, <1>0, <2>2, <3>u, <3>v DEF Interrupted
    <3>3. Placed'  BY <1>10, <1>0, <2>2, <3>u, <3>v
    <3>4. Reported'  BY <1>10, <1>0, <2>2, <3>u, <3>v
    <3>5. QED BY <3>1, <3>2, <3>3, <3>4
  <2>3. QED BY <2>1, <2>2 DEF SmapiInv
<1>11. CASE HaltServer
  <2> USE DEF SmapiTypes, Works, Pre, Mid, Post, Restored, Undoing, NoChangeYet, Forward,
     SmapiFinal, HaltServer, Attempt, Done, Broken, fixed, notes, smapiMods, places, Phased,
     MaybePhased, Stopped, MaybeStopped
  <2>1. SmapiTypes'
    <3>1. (work \in Works)'  BY <1>11, <1>0, SmapiAssumption
    <3>2. (duty \in {"apply", "boot"})'  BY <1>11, <1>0, SmapiAssumption
    <3>3. (held \in [mutated: BOOLEAN, switched: BOOLEAN, keep: BOOLEAN])'
      BY <1>11, <1>0, SmapiAssumption
    <3>4. (report \in Forward \cup SmapiFinal \cup {"none", "rolling_back"})'
      BY <1>11, <1>0, SmapiAssumption
    <3>5. (late \in Forward \cup {"no", "rolling_back"})'  BY <1>11, <1>0, SmapiAssumption
    <3>6. (kit \in [dir: {"none", "copies", "whole", "torn"}, switched: BOOLEAN])'
      BY <1>11, <1>0, SmapiAssumption
    <3>7. (dry \in BOOLEAN)'  BY <1>11, <1>0, SmapiAssumption
    <3>8. (archive \in {"unfit", "good"})'  BY <1>11, <1>0, SmapiAssumption
    <3>9. (volume \in {"old", "clone"})'  BY <1>11, <1>0, SmapiAssumption
    <3>10. (clone \in {"none", "made", "copied", "ready", "spoilt"})'
      BY <1>11, <1>0, SmapiAssumption
    <3>11. (controlMod \in {"old", "mixed", "new"})'  BY <1>11, <1>0, SmapiAssumption
    <3>12. (bundled \in {"old", "new", "none"})'  BY <1>11, <1>0, SmapiAssumption
    <3>13. (spare \in {"old", "new", "none"})'  BY <1>11, <1>0, SmapiAssumption
    <3>14. (game \in [up: BOOLEAN, uses: {"old", "clone"}])'  BY <1>11, <1>0, SmapiAssumption
    <3>15. (was \in BOOLEAN)'  BY <1>11, <1>0, SmapiAssumption
    <3>16. (origin \in [control: {"old", "mixed", "new"}, bundled: {"old", "new", "none"}])'
      BY <1>11, <1>0, SmapiAssumption
    <3>17. (alive \in BOOLEAN)'  BY <1>11, <1>0, SmapiAssumption
    <3>18. (unnoted \in BOOLEAN)'  BY <1>11, <1>0, SmapiAssumption
    <3>19. (failures \in 0..SmapiFaults)'  BY <1>11, <1>0, SmapiAssumption
    <3>20. (stops \in 0..SmapiStops)'  BY <1>11, <1>0, SmapiAssumption
    <3>21. QED
      BY <3>1, <3>2, <3>3, <3>4, <3>5, <3>6, <3>7, <3>8, <3>9, <3>10, <3>11, <3>12, <3>13, <3>14,
         <3>15, <3>16, <3>17, <3>18, <3>19, <3>20
  <2>2. ASSUME ~unnoted' PROVE Memory' /\ Kept' /\ Placed' /\ Reported'
    <3>u. ~unnoted  BY <1>11, <1>0, <2>2
    <3>v. Memory /\ Kept /\ Placed /\ Reported  BY <1>0, <3>u
    <3>1. Memory'  BY <1>11, <1>0, <2>2, <3>u, <3>v DEF Memory, Kept, Reported
    <3>2. Kept'  BY <1>11, <1>0, <2>2, <3>u, <3>v DEF Memory, Kept, Reported, Interrupted
    <3>3. Placed'  BY <1>11, <1>0, <2>2, <3>u, <3>v DEF Memory, Kept, Reported
    <3>4. Reported'  BY <1>11, <1>0, <2>2, <3>u, <3>v DEF Memory, Kept, Reported
    <3>5. QED BY <3>1, <3>2, <3>3, <3>4
  <2>3. QED BY <2>1, <2>2 DEF SmapiInv
<1>12. CASE ReplaceControl
  <2> USE DEF SmapiTypes, Works, Pre, Mid, Post, Restored, Undoing, NoChangeYet, Forward,
     SmapiFinal, ReplaceControl, Attempt, Done, Broken, fixed, notes, smapiMods, places, Phased,
     MaybePhased, Memory, Kept, Reported
  <2>1. SmapiTypes'  BY <1>12, <1>0, SmapiAssumption
  <2>2. ASSUME ~unnoted' PROVE Memory' /\ Kept' /\ Placed' /\ Reported'
    <3>u. ~unnoted  BY <1>12, <1>0, <2>2
    <3>v. Memory /\ Kept /\ Placed /\ Reported  BY <1>0, <3>u
    <3>1. Memory'  BY <1>12, <1>0, <2>2, <3>u, <3>v
    <3>2. Kept'  BY <1>12, <1>0, <2>2, <3>u, <3>v DEF Interrupted
    <3>3. Placed'  BY <1>12, <1>0, <2>2, <3>u, <3>v
    <3>4. Reported'  BY <1>12, <1>0, <2>2, <3>u, <3>v
    <3>5. QED BY <3>1, <3>2, <3>3, <3>4
  <2>3. QED BY <2>1, <2>2 DEF SmapiInv
<1>13. CASE SwitchVolume
  <2> USE DEF SmapiTypes, Works, Pre, Mid, Post, Restored, Undoing, NoChangeYet, Forward,
     SmapiFinal, SwitchVolume, Attempt, Done, Broken, fixed, notes, smapiMods, places, Phased,
     MaybePhased, Memory, Kept, Reported
  <2>1. SmapiTypes'  BY <1>13, <1>0, SmapiAssumption
  <2>2. ASSUME ~unnoted' PROVE Memory' /\ Kept' /\ Placed' /\ Reported'
    <3>u. ~unnoted  BY <1>13, <1>0, <2>2
    <3>v. Memory /\ Kept /\ Placed /\ Reported  BY <1>0, <3>u
    <3>1. Memory'  BY <1>13, <1>0, <2>2, <3>u, <3>v
    <3>2. Kept'  BY <1>13, <1>0, <2>2, <3>u, <3>v DEF Interrupted
    <3>3. Placed'  BY <1>13, <1>0, <2>2, <3>u, <3>v
    <3>4. Reported'  BY <1>13, <1>0, <2>2, <3>u, <3>v
    <3>5. QED BY <3>1, <3>2, <3>3, <3>4
  <2>3. QED BY <2>1, <2>2 DEF SmapiInv
<1>14. CASE NoteSwitch
  <2> USE DEF SmapiTypes, Works, Pre, Mid, Post, Restored, Undoing, NoChangeYet, Forward,
     SmapiFinal, NoteSwitch, Attempt, Done, Broken, fixed, notes, smapiMods, places, Phased,
     MaybePhased
  <2>1. SmapiTypes'
    <3>1. (work \in Works)'  BY <1>14, <1>0, SmapiAssumption
    <3>2. (duty \in {"apply", "boot"})'  BY <1>14, <1>0, SmapiAssumption
    <3>3. (held \in [mutated: BOOLEAN, switched: BOOLEAN, keep: BOOLEAN])'
      BY <1>14, <1>0, SmapiAssumption
    <3>4. (report \in Forward \cup SmapiFinal \cup {"none", "rolling_back"})'
      BY <1>14, <1>0, SmapiAssumption
    <3>5. (late \in Forward \cup {"no", "rolling_back"})'  BY <1>14, <1>0, SmapiAssumption
    <3>6. (kit \in [dir: {"none", "copies", "whole", "torn"}, switched: BOOLEAN])'
      BY <1>14, <1>0, SmapiAssumption
    <3>7. (dry \in BOOLEAN)'  BY <1>14, <1>0, SmapiAssumption
    <3>8. (archive \in {"unfit", "good"})'  BY <1>14, <1>0, SmapiAssumption
    <3>9. (volume \in {"old", "clone"})'  BY <1>14, <1>0, SmapiAssumption
    <3>10. (clone \in {"none", "made", "copied", "ready", "spoilt"})'
      BY <1>14, <1>0, SmapiAssumption
    <3>11. (controlMod \in {"old", "mixed", "new"})'  BY <1>14, <1>0, SmapiAssumption
    <3>12. (bundled \in {"old", "new", "none"})'  BY <1>14, <1>0, SmapiAssumption
    <3>13. (spare \in {"old", "new", "none"})'  BY <1>14, <1>0, SmapiAssumption
    <3>14. (game \in [up: BOOLEAN, uses: {"old", "clone"}])'  BY <1>14, <1>0, SmapiAssumption
    <3>15. (was \in BOOLEAN)'  BY <1>14, <1>0, SmapiAssumption
    <3>16. (origin \in [control: {"old", "mixed", "new"}, bundled: {"old", "new", "none"}])'
      BY <1>14, <1>0, SmapiAssumption
    <3>17. (alive \in BOOLEAN)'  BY <1>14, <1>0, SmapiAssumption
    <3>18. (unnoted \in BOOLEAN)'  BY <1>14, <1>0, SmapiAssumption
    <3>19. (failures \in 0..SmapiFaults)'  BY <1>14, <1>0, SmapiAssumption
    <3>20. (stops \in 0..SmapiStops)'  BY <1>14, <1>0, SmapiAssumption
    <3>21. QED
      BY <3>1, <3>2, <3>3, <3>4, <3>5, <3>6, <3>7, <3>8, <3>9, <3>10, <3>11, <3>12, <3>13, <3>14,
         <3>15, <3>16, <3>17, <3>18, <3>19, <3>20
  <2>2. ASSUME ~unnoted' PROVE Memory' /\ Kept' /\ Placed' /\ Reported'
    <3>u. ~unnoted  BY <1>14, <1>0, <2>2
    <3>v. Memory /\ Kept /\ Placed /\ Reported  BY <1>0, <3>u
    <3>1. Memory'  BY <1>14, <1>0, <2>2, <3>u, <3>v DEF Memory, Kept, Reported
    <3>2. Kept'  BY <1>14, <1>0, <2>2, <3>u, <3>v DEF Memory, Kept, Reported, Interrupted
    <3>3. Placed'  BY <1>14, <1>0, <2>2, <3>u, <3>v DEF Memory, Kept, Reported
    <3>4. Reported'  BY <1>14, <1>0, <2>2, <3>u, <3>v DEF Memory, Kept, Reported
    <3>5. QED BY <3>1, <3>2, <3>3, <3>4
  <2>3. QED BY <2>1, <2>2 DEF SmapiInv
<1>15. CASE SyncBundled
  <2> USE DEF SmapiTypes, Works, Pre, Mid, Post, Restored, Undoing, NoChangeYet, Forward,
     SmapiFinal, SyncBundled, SetAside, Supplied, InPlace, Attempt, Done, Broken, fixed, notes,
     smapiMods, places, Memory, Kept, Reported
  <2>1. SmapiTypes'  BY <1>15, <1>0, SmapiAssumption
  <2>2. ASSUME ~unnoted' PROVE Memory' /\ Kept' /\ Placed' /\ Reported'
    <3>u. ~unnoted  BY <1>15, <1>0, <2>2
    <3>v. Memory /\ Kept /\ Placed /\ Reported  BY <1>0, <3>u
    <3>1. Memory'  BY <1>15, <1>0, <2>2, <3>u, <3>v
    <3>2. Kept'  BY <1>15, <1>0, <2>2, <3>u, <3>v DEF Interrupted
    <3>3. Placed'  BY <1>15, <1>0, <2>2, <3>u, <3>v
    <3>4. Reported'  BY <1>15, <1>0, <2>2, <3>u, <3>v
    <3>5. QED BY <3>1, <3>2, <3>3, <3>4
  <2>3. QED BY <2>1, <2>2 DEF SmapiInv
<1>16. CASE PublishBundled
  <2> USE DEF SmapiTypes, Works, Pre, Mid, Post, Restored, Undoing, NoChangeYet, Forward,
     SmapiFinal, PublishBundled, Publish, Supplied, Attempt, Done, Broken, fixed, notes,
     smapiMods, places, Memory, Kept, Reported
  <2>1. SmapiTypes'  BY <1>16, <1>0, SmapiAssumption
  <2>2. ASSUME ~unnoted' PROVE Memory' /\ Kept' /\ Placed' /\ Reported'
    <3>u. ~unnoted  BY <1>16, <1>0, <2>2
    <3>v. Memory /\ Kept /\ Placed /\ Reported  BY <1>0, <3>u
    <3>1. Memory'  BY <1>16, <1>0, <2>2, <3>u, <3>v
    <3>2. Kept'  BY <1>16, <1>0, <2>2, <3>u, <3>v DEF Interrupted
    <3>3. Placed'  BY <1>16, <1>0, <2>2, <3>u, <3>v
    <3>4. Reported'  BY <1>16, <1>0, <2>2, <3>u, <3>v
    <3>5. QED BY <3>1, <3>2, <3>3, <3>4
  <2>3. QED BY <2>1, <2>2 DEF SmapiInv
<1>17. CASE StartStack
  <2> USE DEF SmapiTypes, Works, Pre, Mid, Post, Restored, Undoing, NoChangeYet, Forward,
     SmapiFinal, StartStack, Attempt, Done, Broken, fixed, notes, smapiMods, places, Phased,
     MaybePhased, Started, MaybeStarted
  <2>1. SmapiTypes'
    <3>1. (work \in Works)'  BY <1>17, <1>0, SmapiAssumption
    <3>2. (duty \in {"apply", "boot"})'  BY <1>17, <1>0, SmapiAssumption
    <3>3. (held \in [mutated: BOOLEAN, switched: BOOLEAN, keep: BOOLEAN])'
      BY <1>17, <1>0, SmapiAssumption
    <3>4. (report \in Forward \cup SmapiFinal \cup {"none", "rolling_back"})'
      BY <1>17, <1>0, SmapiAssumption
    <3>5. (late \in Forward \cup {"no", "rolling_back"})'  BY <1>17, <1>0, SmapiAssumption
    <3>6. (kit \in [dir: {"none", "copies", "whole", "torn"}, switched: BOOLEAN])'
      BY <1>17, <1>0, SmapiAssumption
    <3>7. (dry \in BOOLEAN)'  BY <1>17, <1>0, SmapiAssumption
    <3>8. (archive \in {"unfit", "good"})'  BY <1>17, <1>0, SmapiAssumption
    <3>9. (volume \in {"old", "clone"})'  BY <1>17, <1>0, SmapiAssumption
    <3>10. (clone \in {"none", "made", "copied", "ready", "spoilt"})'
      BY <1>17, <1>0, SmapiAssumption
    <3>11. (controlMod \in {"old", "mixed", "new"})'  BY <1>17, <1>0, SmapiAssumption
    <3>12. (bundled \in {"old", "new", "none"})'  BY <1>17, <1>0, SmapiAssumption
    <3>13. (spare \in {"old", "new", "none"})'  BY <1>17, <1>0, SmapiAssumption
    <3>14. (game \in [up: BOOLEAN, uses: {"old", "clone"}])'
        <4>1. game' \in {game, [up |-> FALSE, uses |-> volume], [up |-> TRUE, uses |-> volume]}
          BY <1>17 DEF UndoStep
        <4>2. volume \in {"old", "clone"} /\ game \in [up: BOOLEAN, uses: {"old", "clone"}]
          BY <1>0
        <4>3. \A b \in BOOLEAN, v \in {"old", "clone"} : [up |-> b, uses |-> v] \in [up: BOOLEAN, uses: {"old", "clone"}]
          OBVIOUS
        <4>4. QED BY <4>1, <4>2, <4>3
    <3>15. (was \in BOOLEAN)'  BY <1>17, <1>0, SmapiAssumption
    <3>16. (origin \in [control: {"old", "mixed", "new"}, bundled: {"old", "new", "none"}])'
      BY <1>17, <1>0, SmapiAssumption
    <3>17. (alive \in BOOLEAN)'  BY <1>17, <1>0, SmapiAssumption
    <3>18. (unnoted \in BOOLEAN)'  BY <1>17, <1>0, SmapiAssumption
    <3>19. (failures \in 0..SmapiFaults)'  BY <1>17, <1>0, SmapiAssumption
    <3>20. (stops \in 0..SmapiStops)'  BY <1>17, <1>0, SmapiAssumption
    <3>21. QED
      BY <3>1, <3>2, <3>3, <3>4, <3>5, <3>6, <3>7, <3>8, <3>9, <3>10, <3>11, <3>12, <3>13, <3>14,
         <3>15, <3>16, <3>17, <3>18, <3>19, <3>20
  <2>2. ASSUME ~unnoted' PROVE Memory' /\ Kept' /\ Placed' /\ Reported'
    <3>u. ~unnoted  BY <1>17, <1>0, <2>2
    <3>v. Memory /\ Kept /\ Placed /\ Reported  BY <1>0, <3>u
    <3>1. Memory'  BY <1>17, <1>0, <2>2, <3>u, <3>v DEF Memory, Kept, Reported
    <3>2. Kept'  BY <1>17, <1>0, <2>2, <3>u, <3>v DEF Memory, Kept, Reported, Interrupted
    <3>3. Placed'  BY <1>17, <1>0, <2>2, <3>u, <3>v DEF Memory, Kept, Reported
    <3>4. Reported'  BY <1>17, <1>0, <2>2, <3>u, <3>v DEF Memory, Kept, Reported
    <3>5. QED BY <3>1, <3>2, <3>3, <3>4
  <2>3. QED BY <2>1, <2>2 DEF SmapiInv
<1>18. CASE VerifyStack
  <2> USE DEF SmapiTypes, Works, Pre, Mid, Post, Restored, Undoing, NoChangeYet, Forward,
     SmapiFinal, VerifyStack, Attempt, Done, Broken, fixed, notes, smapiMods, places, Phased,
     MaybePhased, Memory, Kept, Reported
  <2>1. SmapiTypes'  BY <1>18, <1>0, SmapiAssumption
  <2>2. ASSUME ~unnoted' PROVE Memory' /\ Kept' /\ Placed' /\ Reported'
    <3>u. ~unnoted  BY <1>18, <1>0, <2>2
    <3>v. Memory /\ Kept /\ Placed /\ Reported  BY <1>0, <3>u
    <3>1. Memory'  BY <1>18, <1>0, <2>2, <3>u, <3>v
    <3>2. Kept'  BY <1>18, <1>0, <2>2, <3>u, <3>v DEF Interrupted
    <3>3. Placed'  BY <1>18, <1>0, <2>2, <3>u, <3>v
    <3>4. Reported'  BY <1>18, <1>0, <2>2, <3>u, <3>v
    <3>5. QED BY <3>1, <3>2, <3>3, <3>4
  <2>3. QED BY <2>1, <2>2 DEF SmapiInv
<1>19. CASE RestoreStopped
  <2> USE DEF SmapiTypes, Works, Pre, Mid, Post, Restored, Undoing, NoChangeYet, Forward,
     SmapiFinal, RestoreStopped, Attempt, Done, Broken, fixed, notes, smapiMods, places, Phased,
     MaybePhased, Stopped, MaybeStopped
  <2>1. SmapiTypes'
    <3>1. (work \in Works)'  BY <1>19, <1>0, SmapiAssumption
    <3>2. (duty \in {"apply", "boot"})'  BY <1>19, <1>0, SmapiAssumption
    <3>3. (held \in [mutated: BOOLEAN, switched: BOOLEAN, keep: BOOLEAN])'
      BY <1>19, <1>0, SmapiAssumption
    <3>4. (report \in Forward \cup SmapiFinal \cup {"none", "rolling_back"})'
      BY <1>19, <1>0, SmapiAssumption
    <3>5. (late \in Forward \cup {"no", "rolling_back"})'  BY <1>19, <1>0, SmapiAssumption
    <3>6. (kit \in [dir: {"none", "copies", "whole", "torn"}, switched: BOOLEAN])'
      BY <1>19, <1>0, SmapiAssumption
    <3>7. (dry \in BOOLEAN)'  BY <1>19, <1>0, SmapiAssumption
    <3>8. (archive \in {"unfit", "good"})'  BY <1>19, <1>0, SmapiAssumption
    <3>9. (volume \in {"old", "clone"})'  BY <1>19, <1>0, SmapiAssumption
    <3>10. (clone \in {"none", "made", "copied", "ready", "spoilt"})'
      BY <1>19, <1>0, SmapiAssumption
    <3>11. (controlMod \in {"old", "mixed", "new"})'  BY <1>19, <1>0, SmapiAssumption
    <3>12. (bundled \in {"old", "new", "none"})'  BY <1>19, <1>0, SmapiAssumption
    <3>13. (spare \in {"old", "new", "none"})'  BY <1>19, <1>0, SmapiAssumption
    <3>14. (game \in [up: BOOLEAN, uses: {"old", "clone"}])'  BY <1>19, <1>0, SmapiAssumption
    <3>15. (was \in BOOLEAN)'  BY <1>19, <1>0, SmapiAssumption
    <3>16. (origin \in [control: {"old", "mixed", "new"}, bundled: {"old", "new", "none"}])'
      BY <1>19, <1>0, SmapiAssumption
    <3>17. (alive \in BOOLEAN)'  BY <1>19, <1>0, SmapiAssumption
    <3>18. (unnoted \in BOOLEAN)'  BY <1>19, <1>0, SmapiAssumption
    <3>19. (failures \in 0..SmapiFaults)'  BY <1>19, <1>0, SmapiAssumption
    <3>20. (stops \in 0..SmapiStops)'  BY <1>19, <1>0, SmapiAssumption
    <3>21. QED
      BY <3>1, <3>2, <3>3, <3>4, <3>5, <3>6, <3>7, <3>8, <3>9, <3>10, <3>11, <3>12, <3>13, <3>14,
         <3>15, <3>16, <3>17, <3>18, <3>19, <3>20
  <2>2. ASSUME ~unnoted' PROVE Memory' /\ Kept' /\ Placed' /\ Reported'
    <3>u. ~unnoted  BY <1>19, <1>0, <2>2
    <3>v. Memory /\ Kept /\ Placed /\ Reported  BY <1>0, <3>u
    <3>1. Memory'  BY <1>19, <1>0, <2>2, <3>u, <3>v DEF Memory, Kept, Reported
    <3>2. Kept'  BY <1>19, <1>0, <2>2, <3>u, <3>v DEF Memory, Kept, Reported, Interrupted
    <3>3. Placed'  BY <1>19, <1>0, <2>2, <3>u, <3>v DEF Memory, Kept, Reported
    <3>4. Reported'  BY <1>19, <1>0, <2>2, <3>u, <3>v DEF Memory, Kept, Reported
    <3>5. QED BY <3>1, <3>2, <3>3, <3>4
  <2>3. QED BY <2>1, <2>2 DEF SmapiInv
<1>20. CASE SmapiSucceeds
  <2> USE DEF SmapiTypes, Works, Pre, Mid, Post, Restored, Undoing, NoChangeYet, Forward,
     SmapiFinal, SmapiSucceeds, Attempt, Done, Broken, fixed, notes, smapiMods, places, Phased,
     MaybePhased, Memory, Kept, Reported
  <2>1. SmapiTypes'  BY <1>20, <1>0, SmapiAssumption
  <2>2. ASSUME ~unnoted' PROVE Memory' /\ Kept' /\ Placed' /\ Reported'
    <3>u. ~unnoted  BY <1>20, <1>0, <2>2
    <3>v. Memory /\ Kept /\ Placed /\ Reported  BY <1>0, <3>u
    <3>1. Memory'  BY <1>20, <1>0, <2>2, <3>u, <3>v
    <3>2. Kept'  BY <1>20, <1>0, <2>2, <3>u, <3>v DEF Interrupted
    <3>3. Placed'  BY <1>20, <1>0, <2>2, <3>u, <3>v
    <3>4. Reported'  BY <1>20, <1>0, <2>2, <3>u, <3>v
    <3>5. QED BY <3>1, <3>2, <3>3, <3>4
  <2>3. QED BY <2>1, <2>2 DEF SmapiInv
<1>21. CASE Tidy
  <2> USE DEF SmapiTypes, Works, Pre, Mid, Post, Restored, Undoing, NoChangeYet, Forward,
     SmapiFinal, Tidy, Attempt, Done, Broken, fixed, notes, smapiMods, places, NoKit, Memory,
     Kept, Reported
  <2>1. SmapiTypes'  BY <1>21, <1>0, SmapiAssumption
  <2>2. ASSUME ~unnoted' PROVE Memory' /\ Kept' /\ Placed' /\ Reported'
    <3>u. ~unnoted  BY <1>21, <1>0, <2>2
    <3>v. Memory /\ Kept /\ Placed /\ Reported  BY <1>0, <3>u
    <3>1. Memory'  BY <1>21, <1>0, <2>2, <3>u, <3>v
    <3>2. Kept'  BY <1>21, <1>0, <2>2, <3>u, <3>v DEF Interrupted
    <3>3. Placed'  BY <1>21, <1>0, <2>2, <3>u, <3>v
    <3>4. Reported'  BY <1>21, <1>0, <2>2, <3>u, <3>v
    <3>5. QED BY <3>1, <3>2, <3>3, <3>4
  <2>3. QED BY <2>1, <2>2 DEF SmapiInv
<1>22. CASE BeginUndo
  <2> USE DEF SmapiTypes, Works, Pre, Mid, Post, Restored, Undoing, NoChangeYet, Forward,
     SmapiFinal, BeginUndo, GiveUp, Done, Broken, fixed, notes, smapiMods, places, Memory, Kept,
     Reported, Placed, AsBefore, BundledKept, AsFound
  <2>1. SmapiTypes'  BY <1>22, <1>0, SmapiAssumption
  <2>2. ASSUME ~unnoted' PROVE Memory' /\ Kept' /\ Placed' /\ Reported'
    <3>u. ~unnoted  BY <1>22, <1>0, <2>2
    <3>v. Memory /\ Kept /\ Placed /\ Reported  BY <1>0, <3>u
    <3>1. Memory'  BY <1>22, <1>0, <2>2, <3>u, <3>v
    <3>2. Kept'  BY <1>22, <1>0, <2>2, <3>u, <3>v DEF Interrupted
    <3>3. Placed'
      <4>1. (game.up => game.uses = volume)'  BY <1>22, <1>0, <2>2, <3>u, <3>v
      <4>2. (volume = "clone" => clone = "ready")'  BY <1>22, <1>0, <2>2, <3>u, <3>v
      <4>3. (work \in {"halt", "control", "switch"} => clone = "ready")'
        BY <1>22, <1>0, <2>2, <3>u, <3>v
      <4>4. (work \in {"control", "switch", "switched", "sync", "publish", "start"} => ~game.up)'
        BY <1>22, <1>0, <2>2, <3>u, <3>v
      <4>5. (work \in Pre => AsBefore /\ game.up = was)'  BY <1>22, <1>0, <2>2, <3>u, <3>v
      <4>6. (work \in Mid => volume = (IF work = "switched" THEN "clone" ELSE "old"))'
        BY <1>22, <1>0, <2>2, <3>u, <3>v
      <4>7. (work \in Post => volume = "clone")'  BY <1>22, <1>0, <2>2, <3>u, <3>v
      <4>8. (work \in {"switch", "switched"} \cup Post => controlMod = "new")'
        BY <1>22, <1>0, <2>2, <3>u, <3>v
      <4>9. (work \in {"start", "stack", "restore", "finish"} => bundled = "new")'
        BY <1>22, <1>0, <2>2, <3>u, <3>v
      <4>10. (work = "restore" => game.up)'  BY <1>22, <1>0, <2>2, <3>u, <3>v
      <4>11. (work = "finish" => game.up = was)'  BY <1>22, <1>0, <2>2, <3>u, <3>v
      <4>12. (work \in {"undo", "unstop"} /\ ~held.switched => volume = "old")'
        BY <1>22, <1>0, <2>2, <3>u, <3>v
      <4>13. (work \in {"unsync", "unpublish", "lost", "uncontrol"} => volume = "old")'
        BY <1>22, <1>0, <2>2, <3>u, <3>v
      <4>14. (work = "uncontrol" => BundledKept)'  BY <1>22, <1>0, <2>2, <3>u, <3>v
      <4>15. (work \in {"unswitch", "unsync", "unpublish", "lost"} => ~game.up)'
        BY <1>22, <1>0, <2>2, <3>u, <3>v
      <4>16. (work = "uncontrol" /\ held.keep => ~game.up)'  BY <1>22, <1>0, <2>2, <3>u, <3>v
      <4>17. (work \in Restored => AsBefore)'  BY <1>22, <1>0, <2>2, <3>u, <3>v
      <4>18. (work = "undo" /\ ~held.mutated => AsBefore /\ AsFound)'
        BY <1>22, <1>0, <2>2, <3>u, <3>v
      <4>19. (work \in {"drop", "forget", "settle"} => AsFound)'
        BY <1>22, <1>0, <2>2, <3>u, <3>v
      <4>20. QED
        BY <4>1, <4>2, <4>3, <4>4, <4>5, <4>6, <4>7, <4>8, <4>9, <4>10, <4>11, <4>12, <4>13,
           <4>14, <4>15, <4>16, <4>17, <4>18, <4>19
    <3>4. Reported'  BY <1>22, <1>0, <2>2, <3>u, <3>v
    <3>5. QED BY <3>1, <3>2, <3>3, <3>4
  <2>3. QED BY <2>1, <2>2 DEF SmapiInv
<1>23. CASE UndoStop
  <2> USE DEF SmapiTypes, Works, Pre, Mid, Post, Restored, Undoing, NoChangeYet, Forward,
     SmapiFinal, UndoStop, UndoStep, Stopped, MaybeStopped, GiveUp, Done, Broken, fixed, notes,
     smapiMods, places, Memory, Kept, Reported, Placed
  <2>1. SmapiTypes'
    <3>1. (work \in Works)'  BY <1>23, <1>0, SmapiAssumption
    <3>2. (duty \in {"apply", "boot"})'  BY <1>23, <1>0, SmapiAssumption
    <3>3. (held \in [mutated: BOOLEAN, switched: BOOLEAN, keep: BOOLEAN])'
      BY <1>23, <1>0, SmapiAssumption
    <3>4. (report \in Forward \cup SmapiFinal \cup {"none", "rolling_back"})'
      BY <1>23, <1>0, SmapiAssumption
    <3>5. (late \in Forward \cup {"no", "rolling_back"})'  BY <1>23, <1>0, SmapiAssumption
    <3>6. (kit \in [dir: {"none", "copies", "whole", "torn"}, switched: BOOLEAN])'
      BY <1>23, <1>0, SmapiAssumption
    <3>7. (dry \in BOOLEAN)'  BY <1>23, <1>0, SmapiAssumption
    <3>8. (archive \in {"unfit", "good"})'  BY <1>23, <1>0, SmapiAssumption
    <3>9. (volume \in {"old", "clone"})'  BY <1>23, <1>0, SmapiAssumption
    <3>10. (clone \in {"none", "made", "copied", "ready", "spoilt"})'
      BY <1>23, <1>0, SmapiAssumption
    <3>11. (controlMod \in {"old", "mixed", "new"})'  BY <1>23, <1>0, SmapiAssumption
    <3>12. (bundled \in {"old", "new", "none"})'  BY <1>23, <1>0, SmapiAssumption
    <3>13. (spare \in {"old", "new", "none"})'  BY <1>23, <1>0, SmapiAssumption
    <3>14. (game \in [up: BOOLEAN, uses: {"old", "clone"}])'  BY <1>23, <1>0, SmapiAssumption
    <3>15. (was \in BOOLEAN)'  BY <1>23, <1>0, SmapiAssumption
    <3>16. (origin \in [control: {"old", "mixed", "new"}, bundled: {"old", "new", "none"}])'
      BY <1>23, <1>0, SmapiAssumption
    <3>17. (alive \in BOOLEAN)'  BY <1>23, <1>0, SmapiAssumption
    <3>18. (unnoted \in BOOLEAN)'  BY <1>23, <1>0, SmapiAssumption
    <3>19. (failures \in 0..SmapiFaults)'  BY <1>23, <1>0, SmapiAssumption
    <3>20. (stops \in 0..SmapiStops)'  BY <1>23, <1>0, SmapiAssumption
    <3>21. QED
      BY <3>1, <3>2, <3>3, <3>4, <3>5, <3>6, <3>7, <3>8, <3>9, <3>10, <3>11, <3>12, <3>13, <3>14,
         <3>15, <3>16, <3>17, <3>18, <3>19, <3>20
  <2>2. ASSUME ~unnoted' PROVE Memory' /\ Kept' /\ Placed' /\ Reported'
    <3>u. ~unnoted  BY <1>23, <1>0, <2>2
    <3>v. Memory /\ Kept /\ Placed /\ Reported  BY <1>0, <3>u
    <3>1. Memory'  BY <1>23, <1>0, <2>2, <3>u, <3>v
    <3>2. Kept'  BY <1>23, <1>0, <2>2, <3>u, <3>v DEF Interrupted
    <3>3. Placed'
      <4>1. (game.up => game.uses = volume)'  BY <1>23, <1>0, <2>2, <3>u, <3>v
      <4>2. (volume = "clone" => clone = "ready")'  BY <1>23, <1>0, <2>2, <3>u, <3>v
      <4>3. (work \in {"halt", "control", "switch"} => clone = "ready")'
        BY <1>23, <1>0, <2>2, <3>u, <3>v
      <4>4. (work \in {"control", "switch", "switched", "sync", "publish", "start"} => ~game.up)'
        BY <1>23, <1>0, <2>2, <3>u, <3>v
      <4>5. (work \in Pre => AsBefore /\ game.up = was)'  BY <1>23, <1>0, <2>2, <3>u, <3>v
      <4>6. (work \in Mid => volume = (IF work = "switched" THEN "clone" ELSE "old"))'
        BY <1>23, <1>0, <2>2, <3>u, <3>v
      <4>7. (work \in Post => volume = "clone")'  BY <1>23, <1>0, <2>2, <3>u, <3>v
      <4>8. (work \in {"switch", "switched"} \cup Post => controlMod = "new")'
        BY <1>23, <1>0, <2>2, <3>u, <3>v
      <4>9. (work \in {"start", "stack", "restore", "finish"} => bundled = "new")'
        BY <1>23, <1>0, <2>2, <3>u, <3>v
      <4>10. (work = "restore" => game.up)'  BY <1>23, <1>0, <2>2, <3>u, <3>v
      <4>11. (work = "finish" => game.up = was)'  BY <1>23, <1>0, <2>2, <3>u, <3>v
      <4>12. (work \in {"undo", "unstop"} /\ ~held.switched => volume = "old")'
        BY <1>23, <1>0, <2>2, <3>u, <3>v
      <4>13. (work \in {"unsync", "unpublish", "lost", "uncontrol"} => volume = "old")'
        BY <1>23, <1>0, <2>2, <3>u, <3>v
      <4>14. (work = "uncontrol" => BundledKept)'  BY <1>23, <1>0, <2>2, <3>u, <3>v
      <4>15. (work \in {"unswitch", "unsync", "unpublish", "lost"} => ~game.up)'
        BY <1>23, <1>0, <2>2, <3>u, <3>v
      <4>16. (work = "uncontrol" /\ held.keep => ~game.up)'  BY <1>23, <1>0, <2>2, <3>u, <3>v
      <4>17. (work \in Restored => AsBefore)'  BY <1>23, <1>0, <2>2, <3>u, <3>v
      <4>18. (work = "undo" /\ ~held.mutated => AsBefore /\ AsFound)'
        BY <1>23, <1>0, <2>2, <3>u, <3>v
      <4>19. (work \in {"drop", "forget", "settle"} => AsFound)'
        BY <1>23, <1>0, <2>2, <3>u, <3>v
      <4>20. QED
        BY <4>1, <4>2, <4>3, <4>4, <4>5, <4>6, <4>7, <4>8, <4>9, <4>10, <4>11, <4>12, <4>13,
           <4>14, <4>15, <4>16, <4>17, <4>18, <4>19
    <3>4. Reported'
      <4>1. (work \in Pre \cup Mid \cup Post \cup Undoing => report \notin SmapiFinal \cup {"none"})'
        BY <1>23, <1>0, <2>2, <3>u, <3>v
      <4>2. (report = "none" => held = Blank)'  BY <1>23, <1>0, <2>2, <3>u, <3>v
      <4>3. (report = "succeeded" => volume = "clone" /\ controlMod = "new" /\ bundled = "new" /\ game.up = was /\ work \in {"tidy", "idle"})'
        BY <1>23, <1>0, <2>2, <3>u, <3>v
      <4>4. (report = "failed_rolled_back" => AsBefore /\ AsFound)'
        BY <1>23, <1>0, <2>2, <3>u, <3>v
      <4>5. (work = "tidy" /\ report # "succeeded" => AsBefore)'
        BY <1>23, <1>0, <2>2, <3>u, <3>v
      <4>6. QED BY <4>1, <4>2, <4>3, <4>4, <4>5
    <3>5. QED BY <3>1, <3>2, <3>3, <3>4
  <2>3. QED BY <2>1, <2>2 DEF SmapiInv
<1>24. CASE UndoSwitch
  <2> USE DEF SmapiTypes, Works, Pre, Mid, Post, Restored, Undoing, NoChangeYet, Forward,
     SmapiFinal, UndoSwitch, UndoStep, GiveUp, Done, Broken, fixed, notes, smapiMods, places,
     Memory, Kept, Reported, Placed, AsBefore, BundledKept, AsFound
  <2>1. SmapiTypes'  BY <1>24, <1>0, SmapiAssumption
  <2>2. ASSUME ~unnoted' PROVE Memory' /\ Kept' /\ Placed' /\ Reported'
    <3>u. ~unnoted  BY <1>24, <1>0, <2>2
    <3>v. Memory /\ Kept /\ Placed /\ Reported  BY <1>0, <3>u
    <3>1. Memory'  BY <1>24, <1>0, <2>2, <3>u, <3>v
    <3>2. Kept'  BY <1>24, <1>0, <2>2, <3>u, <3>v DEF Interrupted
    <3>3. Placed'  BY <1>24, <1>0, <2>2, <3>u, <3>v
    <3>4. Reported'
      <4>1. (work \in Pre \cup Mid \cup Post \cup Undoing => report \notin SmapiFinal \cup {"none"})'
        BY <1>24, <1>0, <2>2, <3>u, <3>v
      <4>2. (report = "none" => held = Blank)'  BY <1>24, <1>0, <2>2, <3>u, <3>v
      <4>3. (report = "succeeded" => volume = "clone" /\ controlMod = "new" /\ bundled = "new" /\ game.up = was /\ work \in {"tidy", "idle"})'
        BY <1>24, <1>0, <2>2, <3>u, <3>v
      <4>4. (report = "failed_rolled_back" => AsBefore /\ AsFound)'
        BY <1>24, <1>0, <2>2, <3>u, <3>v
      <4>5. (work = "tidy" /\ report # "succeeded" => AsBefore)'
        BY <1>24, <1>0, <2>2, <3>u, <3>v
      <4>6. QED BY <4>1, <4>2, <4>3, <4>4, <4>5
    <3>5. QED BY <3>1, <3>2, <3>3, <3>4
  <2>3. QED BY <2>1, <2>2 DEF SmapiInv
<1>25. CASE UndoBundled
  <2> USE DEF SmapiTypes, Works, Pre, Mid, Post, Restored, Undoing, NoChangeYet, Forward,
     SmapiFinal, UndoBundled, SetAside, Publish, Supplied, InPlace, GiveUp, Done, Broken, fixed,
     notes, smapiMods, places, Memory, Kept, Reported, Placed, AsBefore, BundledKept, Interrupted
  <2>1. SmapiTypes'  BY <1>25, <1>0, SmapiAssumption
  <2>2. ASSUME ~unnoted' PROVE Memory' /\ Kept' /\ Placed' /\ Reported'
    <3>u. ~unnoted  BY <1>25, <1>0, <2>2
    <3>v. Memory /\ Kept /\ Placed /\ Reported  BY <1>0, <3>u
    <3>1. Memory'  BY <1>25, <1>0, <2>2, <3>u, <3>v
    <3>2. Kept'
      <4>1. (kit.switched => kit.dir = "whole")'  BY <1>25, <1>0, <2>2, <3>u, <3>v
      <4>2. (work \in Mid \cup Post \cup {"create"} => kit.dir = "whole")'
        BY <1>25, <1>0, <2>2, <3>u, <3>v
      <4>3. (work \in Pre => ~kit.switched)'  BY <1>25, <1>0, <2>2, <3>u, <3>v
      <4>4. (work = "check" => kit.dir = "none")'  BY <1>25, <1>0, <2>2, <3>u, <3>v
      <4>5. (work \in Mid => ~kit.switched)'  BY <1>25, <1>0, <2>2, <3>u, <3>v
      <4>6. (work \in Post => kit.switched)'  BY <1>25, <1>0, <2>2, <3>u, <3>v
      <4>7. (work \in Undoing \ {"settle"} /\ held.mutated => kit.dir \in {"whole", "torn"})'
        BY <1>25, <1>0, <2>2, <3>u, <3>v
      <4>8. (work \in Undoing \ {"settle"} /\ held.mutated /\ ~held.keep => kit.dir = "whole")'
        BY <1>25, <1>0, <2>2, <3>u, <3>v
      <4>9. (report # "succeeded" /\ kit.dir # "whole" => AsBefore)'
        BY <1>25, <1>0, <2>2, <3>u, <3>v
      <4>10. ((report \notin {"succeeded", "rollback_failed"} \/ late # "no") /\ ~kit.switched /\ ~held.switched => BundledKept)'
        BY <1>25, <1>0, <2>2, <3>u, <3>v
      <4>11. (~alive /\ Interrupted /\ ~kit.switched => volume = "old")'
        BY <1>25, <1>0, <2>2, <3>u, <3>v
      <4>12. QED BY <4>1, <4>2, <4>3, <4>4, <4>5, <4>6, <4>7, <4>8, <4>9, <4>10, <4>11
    <3>3. Placed'  BY <1>25, <1>0, <2>2, <3>u, <3>v
    <3>4. Reported'  BY <1>25, <1>0, <2>2, <3>u, <3>v
    <3>5. QED BY <3>1, <3>2, <3>3, <3>4
  <2>3. QED BY <2>1, <2>2 DEF SmapiInv
<1>26. CASE UndoLost
  <2> USE DEF SmapiTypes, Works, Pre, Mid, Post, Restored, Undoing, NoChangeYet, Forward,
     SmapiFinal, UndoLost, GiveUp, Done, Broken, fixed, notes, smapiMods, places, Memory, Kept,
     Reported, Placed, AsBefore, BundledKept, AsFound
  <2>1. SmapiTypes'  BY <1>26, <1>0, SmapiAssumption
  <2>2. ASSUME ~unnoted' PROVE Memory' /\ Kept' /\ Placed' /\ Reported'
    <3>u. ~unnoted  BY <1>26, <1>0, <2>2
    <3>v. Memory /\ Kept /\ Placed /\ Reported  BY <1>0, <3>u
    <3>1. Memory'  BY <1>26, <1>0, <2>2, <3>u, <3>v
    <3>2. Kept'  BY <1>26, <1>0, <2>2, <3>u, <3>v DEF Interrupted
    <3>3. Placed'  BY <1>26, <1>0, <2>2, <3>u, <3>v
    <3>4. Reported'
      <4>1. (work \in Pre \cup Mid \cup Post \cup Undoing => report \notin SmapiFinal \cup {"none"})'
        BY <1>26, <1>0, <2>2, <3>u, <3>v
      <4>2. (report = "none" => held = Blank)'  BY <1>26, <1>0, <2>2, <3>u, <3>v
      <4>3. (report = "succeeded" => volume = "clone" /\ controlMod = "new" /\ bundled = "new" /\ game.up = was /\ work \in {"tidy", "idle"})'
        BY <1>26, <1>0, <2>2, <3>u, <3>v
      <4>4. (report = "failed_rolled_back" => AsBefore /\ AsFound)'
        BY <1>26, <1>0, <2>2, <3>u, <3>v
      <4>5. (work = "tidy" /\ report # "succeeded" => AsBefore)'
        BY <1>26, <1>0, <2>2, <3>u, <3>v
      <4>6. QED BY <4>1, <4>2, <4>3, <4>4, <4>5
    <3>5. QED BY <3>1, <3>2, <3>3, <3>4
  <2>3. QED BY <2>1, <2>2 DEF SmapiInv
<1>27. CASE UndoControl
  <2> USE DEF SmapiTypes, Works, Pre, Mid, Post, Restored, Undoing, NoChangeYet, Forward,
     SmapiFinal, UndoControl, GiveUp, Done, Broken, fixed, notes, smapiMods, places, Memory, Kept,
     Reported, Placed, AsBefore, BundledKept, AsFound
  <2>1. SmapiTypes'  BY <1>27, <1>0, SmapiAssumption
  <2>2. ASSUME ~unnoted' PROVE Memory' /\ Kept' /\ Placed' /\ Reported'
    <3>u. ~unnoted  BY <1>27, <1>0, <2>2
    <3>v. Memory /\ Kept /\ Placed /\ Reported  BY <1>0, <3>u
    <3>1. Memory'  BY <1>27, <1>0, <2>2, <3>u, <3>v
    <3>2. Kept'  BY <1>27, <1>0, <2>2, <3>u, <3>v DEF Interrupted
    <3>3. Placed'  BY <1>27, <1>0, <2>2, <3>u, <3>v
    <3>4. Reported'
      <4>1. (work \in Pre \cup Mid \cup Post \cup Undoing => report \notin SmapiFinal \cup {"none"})'
        BY <1>27, <1>0, <2>2, <3>u, <3>v
      <4>2. (report = "none" => held = Blank)'  BY <1>27, <1>0, <2>2, <3>u, <3>v
      <4>3. (report = "succeeded" => volume = "clone" /\ controlMod = "new" /\ bundled = "new" /\ game.up = was /\ work \in {"tidy", "idle"})'
        BY <1>27, <1>0, <2>2, <3>u, <3>v
      <4>4. (report = "failed_rolled_back" => AsBefore /\ AsFound)'
        BY <1>27, <1>0, <2>2, <3>u, <3>v
      <4>5. (work = "tidy" /\ report # "succeeded" => AsBefore)'
        BY <1>27, <1>0, <2>2, <3>u, <3>v
      <4>6. QED BY <4>1, <4>2, <4>3, <4>4, <4>5
    <3>5. QED BY <3>1, <3>2, <3>3, <3>4
  <2>3. QED BY <2>1, <2>2 DEF SmapiInv
<1>28. CASE OldStackUp
  <2> USE DEF SmapiTypes, Works, Pre, Mid, Post, Restored, Undoing, NoChangeYet, Forward,
     SmapiFinal, OldStackUp, UndoStep, Started, MaybeStarted, GiveUp, Done, Broken, fixed, notes,
     smapiMods, places
  <2>1. SmapiTypes'
    <3>1. (work \in Works)'  BY <1>28, <1>0, SmapiAssumption
    <3>2. (duty \in {"apply", "boot"})'  BY <1>28, <1>0, SmapiAssumption
    <3>3. (held \in [mutated: BOOLEAN, switched: BOOLEAN, keep: BOOLEAN])'
      BY <1>28, <1>0, SmapiAssumption
    <3>4. (report \in Forward \cup SmapiFinal \cup {"none", "rolling_back"})'
      BY <1>28, <1>0, SmapiAssumption
    <3>5. (late \in Forward \cup {"no", "rolling_back"})'  BY <1>28, <1>0, SmapiAssumption
    <3>6. (kit \in [dir: {"none", "copies", "whole", "torn"}, switched: BOOLEAN])'
      BY <1>28, <1>0, SmapiAssumption
    <3>7. (dry \in BOOLEAN)'  BY <1>28, <1>0, SmapiAssumption
    <3>8. (archive \in {"unfit", "good"})'  BY <1>28, <1>0, SmapiAssumption
    <3>9. (volume \in {"old", "clone"})'  BY <1>28, <1>0, SmapiAssumption
    <3>10. (clone \in {"none", "made", "copied", "ready", "spoilt"})'
      BY <1>28, <1>0, SmapiAssumption
    <3>11. (controlMod \in {"old", "mixed", "new"})'  BY <1>28, <1>0, SmapiAssumption
    <3>12. (bundled \in {"old", "new", "none"})'  BY <1>28, <1>0, SmapiAssumption
    <3>13. (spare \in {"old", "new", "none"})'  BY <1>28, <1>0, SmapiAssumption
    <3>14. (game \in [up: BOOLEAN, uses: {"old", "clone"}])'
        <4>1. game' \in {game, [up |-> FALSE, uses |-> volume], [up |-> TRUE, uses |-> volume]}
          BY <1>28 DEF Attempt
        <4>2. volume \in {"old", "clone"} /\ game \in [up: BOOLEAN, uses: {"old", "clone"}]
          BY <1>0
        <4>3. \A b \in BOOLEAN, v \in {"old", "clone"} : [up |-> b, uses |-> v] \in [up: BOOLEAN, uses: {"old", "clone"}]
          OBVIOUS
        <4>4. QED BY <4>1, <4>2, <4>3
    <3>15. (was \in BOOLEAN)'  BY <1>28, <1>0, SmapiAssumption
    <3>16. (origin \in [control: {"old", "mixed", "new"}, bundled: {"old", "new", "none"}])'
      BY <1>28, <1>0, SmapiAssumption
    <3>17. (alive \in BOOLEAN)'  BY <1>28, <1>0, SmapiAssumption
    <3>18. (unnoted \in BOOLEAN)'  BY <1>28, <1>0, SmapiAssumption
    <3>19. (failures \in 0..SmapiFaults)'  BY <1>28, <1>0, SmapiAssumption
    <3>20. (stops \in 0..SmapiStops)'  BY <1>28, <1>0, SmapiAssumption
    <3>21. QED
      BY <3>1, <3>2, <3>3, <3>4, <3>5, <3>6, <3>7, <3>8, <3>9, <3>10, <3>11, <3>12, <3>13, <3>14,
         <3>15, <3>16, <3>17, <3>18, <3>19, <3>20
  <2>2. ASSUME ~unnoted' PROVE Memory' /\ Kept' /\ Placed' /\ Reported'
    <3>u. ~unnoted  BY <1>28, <1>0, <2>2
    <3>v. Memory /\ Kept /\ Placed /\ Reported  BY <1>0, <3>u
    <3>1. Memory'  BY <1>28, <1>0, <2>2, <3>u, <3>v DEF Memory, Kept, Reported
    <3>2. Kept'  BY <1>28, <1>0, <2>2, <3>u, <3>v DEF Memory, Kept, Reported, Interrupted
    <3>3. Placed'  BY <1>28, <1>0, <2>2, <3>u, <3>v DEF Memory, Kept, Reported
    <3>4. Reported'  BY <1>28, <1>0, <2>2, <3>u, <3>v DEF Memory, Kept, Reported
    <3>5. QED BY <3>1, <3>2, <3>3, <3>4
  <2>3. QED BY <2>1, <2>2 DEF SmapiInv
<1>29. CASE VerifyOldStack
  <2> USE DEF SmapiTypes, Works, Pre, Mid, Post, Restored, Undoing, NoChangeYet, Forward,
     SmapiFinal, VerifyOldStack, UndoStep, GiveUp, Done, Broken, fixed, notes, smapiMods, places,
     Memory, Kept, Reported
  <2>1. SmapiTypes'  BY <1>29, <1>0, SmapiAssumption
  <2>2. ASSUME ~unnoted' PROVE Memory' /\ Kept' /\ Placed' /\ Reported'
    <3>u. ~unnoted  BY <1>29, <1>0, <2>2
    <3>v. Memory /\ Kept /\ Placed /\ Reported  BY <1>0, <3>u
    <3>1. Memory'  BY <1>29, <1>0, <2>2, <3>u, <3>v
    <3>2. Kept'  BY <1>29, <1>0, <2>2, <3>u, <3>v DEF Interrupted
    <3>3. Placed'  BY <1>29, <1>0, <2>2, <3>u, <3>v
    <3>4. Reported'  BY <1>29, <1>0, <2>2, <3>u, <3>v
    <3>5. QED BY <3>1, <3>2, <3>3, <3>4
  <2>3. QED BY <2>1, <2>2 DEF SmapiInv
<1>30. CASE StopOldStack
  <2> USE DEF SmapiTypes, Works, Pre, Mid, Post, Restored, Undoing, NoChangeYet, Forward,
     SmapiFinal, StopOldStack, UndoStep, Stopped, MaybeStopped, GiveUp, Done, Broken, fixed,
     notes, smapiMods, places
  <2>1. SmapiTypes'
    <3>1. (work \in Works)'  BY <1>30, <1>0, SmapiAssumption
    <3>2. (duty \in {"apply", "boot"})'  BY <1>30, <1>0, SmapiAssumption
    <3>3. (held \in [mutated: BOOLEAN, switched: BOOLEAN, keep: BOOLEAN])'
      BY <1>30, <1>0, SmapiAssumption
    <3>4. (report \in Forward \cup SmapiFinal \cup {"none", "rolling_back"})'
      BY <1>30, <1>0, SmapiAssumption
    <3>5. (late \in Forward \cup {"no", "rolling_back"})'  BY <1>30, <1>0, SmapiAssumption
    <3>6. (kit \in [dir: {"none", "copies", "whole", "torn"}, switched: BOOLEAN])'
      BY <1>30, <1>0, SmapiAssumption
    <3>7. (dry \in BOOLEAN)'  BY <1>30, <1>0, SmapiAssumption
    <3>8. (archive \in {"unfit", "good"})'  BY <1>30, <1>0, SmapiAssumption
    <3>9. (volume \in {"old", "clone"})'  BY <1>30, <1>0, SmapiAssumption
    <3>10. (clone \in {"none", "made", "copied", "ready", "spoilt"})'
      BY <1>30, <1>0, SmapiAssumption
    <3>11. (controlMod \in {"old", "mixed", "new"})'  BY <1>30, <1>0, SmapiAssumption
    <3>12. (bundled \in {"old", "new", "none"})'  BY <1>30, <1>0, SmapiAssumption
    <3>13. (spare \in {"old", "new", "none"})'  BY <1>30, <1>0, SmapiAssumption
    <3>14. (game \in [up: BOOLEAN, uses: {"old", "clone"}])'  BY <1>30, <1>0, SmapiAssumption
    <3>15. (was \in BOOLEAN)'  BY <1>30, <1>0, SmapiAssumption
    <3>16. (origin \in [control: {"old", "mixed", "new"}, bundled: {"old", "new", "none"}])'
      BY <1>30, <1>0, SmapiAssumption
    <3>17. (alive \in BOOLEAN)'  BY <1>30, <1>0, SmapiAssumption
    <3>18. (unnoted \in BOOLEAN)'  BY <1>30, <1>0, SmapiAssumption
    <3>19. (failures \in 0..SmapiFaults)'  BY <1>30, <1>0, SmapiAssumption
    <3>20. (stops \in 0..SmapiStops)'  BY <1>30, <1>0, SmapiAssumption
    <3>21. QED
      BY <3>1, <3>2, <3>3, <3>4, <3>5, <3>6, <3>7, <3>8, <3>9, <3>10, <3>11, <3>12, <3>13, <3>14,
         <3>15, <3>16, <3>17, <3>18, <3>19, <3>20
  <2>2. ASSUME ~unnoted' PROVE Memory' /\ Kept' /\ Placed' /\ Reported'
    <3>u. ~unnoted  BY <1>30, <1>0, <2>2
    <3>v. Memory /\ Kept /\ Placed /\ Reported  BY <1>0, <3>u
    <3>1. Memory'  BY <1>30, <1>0, <2>2, <3>u, <3>v DEF Memory, Kept, Reported
    <3>2. Kept'  BY <1>30, <1>0, <2>2, <3>u, <3>v DEF Memory, Kept, Reported, Interrupted
    <3>3. Placed'  BY <1>30, <1>0, <2>2, <3>u, <3>v DEF Memory, Kept, Reported
    <3>4. Reported'  BY <1>30, <1>0, <2>2, <3>u, <3>v DEF Memory, Kept, Reported
    <3>5. QED BY <3>1, <3>2, <3>3, <3>4
  <2>3. QED BY <2>1, <2>2 DEF SmapiInv
<1>31. CASE DropClone
  <2> USE DEF SmapiTypes, Works, Pre, Mid, Post, Restored, Undoing, NoChangeYet, Forward,
     SmapiFinal, DropClone, GiveUp, Done, Broken, fixed, notes, smapiMods, places, Memory, Kept,
     Reported
  <2>1. SmapiTypes'  BY <1>31, <1>0, SmapiAssumption
  <2>2. ASSUME ~unnoted' PROVE Memory' /\ Kept' /\ Placed' /\ Reported'
    <3>u. ~unnoted  BY <1>31, <1>0, <2>2
    <3>v. Memory /\ Kept /\ Placed /\ Reported  BY <1>0, <3>u
    <3>1. Memory'  BY <1>31, <1>0, <2>2, <3>u, <3>v
    <3>2. Kept'  BY <1>31, <1>0, <2>2, <3>u, <3>v DEF Interrupted
    <3>3. Placed'  BY <1>31, <1>0, <2>2, <3>u, <3>v
    <3>4. Reported'  BY <1>31, <1>0, <2>2, <3>u, <3>v
    <3>5. QED BY <3>1, <3>2, <3>3, <3>4
  <2>3. QED BY <2>1, <2>2 DEF SmapiInv
<1>32. CASE ForgetKit
  <2> USE DEF SmapiTypes, Works, Pre, Mid, Post, Restored, Undoing, NoChangeYet, Forward,
     SmapiFinal, ForgetKit, GiveUp, Done, Broken, fixed, notes, smapiMods, places, NoKit
  <2>1. SmapiTypes'
    <3>1. (work \in Works)'  BY <1>32, <1>0, SmapiAssumption
    <3>2. (duty \in {"apply", "boot"})'  BY <1>32, <1>0, SmapiAssumption
    <3>3. (held \in [mutated: BOOLEAN, switched: BOOLEAN, keep: BOOLEAN])'
      BY <1>32, <1>0, SmapiAssumption
    <3>4. (report \in Forward \cup SmapiFinal \cup {"none", "rolling_back"})'
      BY <1>32, <1>0, SmapiAssumption
    <3>5. (late \in Forward \cup {"no", "rolling_back"})'  BY <1>32, <1>0, SmapiAssumption
    <3>6. (kit \in [dir: {"none", "copies", "whole", "torn"}, switched: BOOLEAN])'
        <4>1. NoKit \in [dir: {"none", "copies", "whole", "torn"}, switched: BOOLEAN]  OBVIOUS
        <4>2. kit' = NoKit \/ kit' = [kit EXCEPT !.dir = "torn"]  BY <1>32
        <4>3. QED BY <1>0, <4>1, <4>2
    <3>7. (dry \in BOOLEAN)'  BY <1>32, <1>0, SmapiAssumption
    <3>8. (archive \in {"unfit", "good"})'  BY <1>32, <1>0, SmapiAssumption
    <3>9. (volume \in {"old", "clone"})'  BY <1>32, <1>0, SmapiAssumption
    <3>10. (clone \in {"none", "made", "copied", "ready", "spoilt"})'
      BY <1>32, <1>0, SmapiAssumption
    <3>11. (controlMod \in {"old", "mixed", "new"})'  BY <1>32, <1>0, SmapiAssumption
    <3>12. (bundled \in {"old", "new", "none"})'  BY <1>32, <1>0, SmapiAssumption
    <3>13. (spare \in {"old", "new", "none"})'  BY <1>32, <1>0, SmapiAssumption
    <3>14. (game \in [up: BOOLEAN, uses: {"old", "clone"}])'  BY <1>32, <1>0, SmapiAssumption
    <3>15. (was \in BOOLEAN)'  BY <1>32, <1>0, SmapiAssumption
    <3>16. (origin \in [control: {"old", "mixed", "new"}, bundled: {"old", "new", "none"}])'
      BY <1>32, <1>0, SmapiAssumption
    <3>17. (alive \in BOOLEAN)'  BY <1>32, <1>0, SmapiAssumption
    <3>18. (unnoted \in BOOLEAN)'  BY <1>32, <1>0, SmapiAssumption
    <3>19. (failures \in 0..SmapiFaults)'  BY <1>32, <1>0, SmapiAssumption
    <3>20. (stops \in 0..SmapiStops)'  BY <1>32, <1>0, SmapiAssumption
    <3>21. QED
      BY <3>1, <3>2, <3>3, <3>4, <3>5, <3>6, <3>7, <3>8, <3>9, <3>10, <3>11, <3>12, <3>13, <3>14,
         <3>15, <3>16, <3>17, <3>18, <3>19, <3>20
  <2>2. ASSUME ~unnoted' PROVE Memory' /\ Kept' /\ Placed' /\ Reported'
    <3>u. ~unnoted  BY <1>32, <1>0, <2>2
    <3>v. Memory /\ Kept /\ Placed /\ Reported  BY <1>0, <3>u
    <3>1. Memory'
      <4>1. (~alive => work = "idle" /\ late = "no" /\ held = Blank)'
        BY <1>32, <1>0, <2>2, <3>u, <3>v DEF Memory, Kept, Reported
      <4>2. (work \in Pre \cup Mid \cup Post => duty = "apply" /\ late = "no" /\ ~held.keep)'
        BY <1>32, <1>0, <2>2, <3>u, <3>v DEF Memory, Kept, Reported
      <4>3. (work \in Undoing => (held.keep <=> duty = "boot"))'
        BY <1>32, <1>0, <2>2, <3>u, <3>v DEF Memory, Kept, Reported
      <4>4. (work \in Undoing /\ held.keep => held.mutated /\ held.switched = kit.switched)'
        <5>1. ~kit.switched /\ ~held.switched /\ held.mutated /\ held' = held
          BY <1>32, <1>0, <3>v DEF Memory
        <5>2. kit'.switched = FALSE  BY <1>32, <1>0, <5>1
        <5>3. QED BY <5>1, <5>2, <1>0
      <4>5. (work \in Pre => ~held.mutated /\ ~held.switched)'
        BY <1>32, <1>0, <2>2, <3>u, <3>v DEF Memory, Kept, Reported
      <4>6. (work \in Mid => held.mutated /\ ~held.switched)'
        BY <1>32, <1>0, <2>2, <3>u, <3>v DEF Memory, Kept, Reported
      <4>7. (work \in Post => held.mutated /\ held.switched)'
        BY <1>32, <1>0, <2>2, <3>u, <3>v DEF Memory, Kept, Reported
      <4>8. (work \in Undoing \ {"undo", "settle"} => held.mutated)'
        BY <1>32, <1>0, <2>2, <3>u, <3>v DEF Memory, Kept, Reported
      <4>9. (work \in Undoing /\ held.switched => held.mutated)'
        BY <1>32, <1>0, <2>2, <3>u, <3>v DEF Memory, Kept, Reported
      <4>10. (work \in {"unswitch", "unsync", "unpublish", "lost"} => held.switched)'
        BY <1>32, <1>0, <2>2, <3>u, <3>v DEF Memory, Kept, Reported
      <4>11. (work \in {"restart", "reverify", "unhalt"} => ~held.keep)'
        BY <1>32, <1>0, <2>2, <3>u, <3>v DEF Memory, Kept, Reported
      <4>12. (work \in Undoing /\ kit.switched => held.switched)'
        BY <1>32, <1>0, <2>2, <3>u, <3>v DEF Memory, Kept, Reported
      <4>13. (work = "undo" /\ held.keep => held.switched)'
        BY <1>32, <1>0, <2>2, <3>u, <3>v DEF Memory, Kept, Reported
      <4>14. (work = "forget" => held.keep /\ ~held.switched)'
        BY <1>32, <1>0, <2>2, <3>u, <3>v DEF Memory, Kept, Reported
      <4>15. (work = "unhalt" => ~was)'
        BY <1>32, <1>0, <2>2, <3>u, <3>v DEF Memory, Kept, Reported
      <4>16. (late # "no" => duty = "boot" /\ report # "succeeded")'
        BY <1>32, <1>0, <2>2, <3>u, <3>v DEF Memory, Kept, Reported
      <4>17. QED
        BY <4>1, <4>2, <4>3, <4>4, <4>5, <4>6, <4>7, <4>8, <4>9, <4>10, <4>11, <4>12, <4>13,
           <4>14, <4>15, <4>16 DEF Memory
    <3>2. Kept'  BY <1>32, <1>0, <2>2, <3>u, <3>v DEF Memory, Kept, Reported, Interrupted
    <3>3. Placed'  BY <1>32, <1>0, <2>2, <3>u, <3>v DEF Memory, Kept, Reported
    <3>4. Reported'  BY <1>32, <1>0, <2>2, <3>u, <3>v DEF Memory, Kept, Reported
    <3>5. QED BY <3>1, <3>2, <3>3, <3>4
  <2>3. QED BY <2>1, <2>2 DEF SmapiInv
<1>33. CASE SmapiRolledBack
  <2> USE DEF SmapiTypes, Works, Pre, Mid, Post, Restored, Undoing, NoChangeYet, Forward,
     SmapiFinal, SmapiRolledBack, GiveUp, Done, Broken, fixed, notes, smapiMods, places, Memory,
     Kept, Reported
  <2>1. SmapiTypes'  BY <1>33, <1>0, SmapiAssumption
  <2>2. ASSUME ~unnoted' PROVE Memory' /\ Kept' /\ Placed' /\ Reported'
    <3>u. ~unnoted  BY <1>33, <1>0, <2>2
    <3>v. Memory /\ Kept /\ Placed /\ Reported  BY <1>0, <3>u
    <3>1. Memory'  BY <1>33, <1>0, <2>2, <3>u, <3>v
    <3>2. Kept'  BY <1>33, <1>0, <2>2, <3>u, <3>v DEF Interrupted
    <3>3. Placed'  BY <1>33, <1>0, <2>2, <3>u, <3>v
    <3>4. Reported'  BY <1>33, <1>0, <2>2, <3>u, <3>v
    <3>5. QED BY <3>1, <3>2, <3>3, <3>4
  <2>3. QED BY <2>1, <2>2 DEF SmapiInv
<1>34. CASE SmapiCrash
  <2> USE DEF SmapiTypes, Works, Pre, Mid, Post, Restored, Undoing, NoChangeYet, Forward,
     SmapiFinal, SmapiCrash, Blank, smapiMods, places
  <2>1. SmapiTypes'
    <3>1. (work \in Works)'  BY <1>34, <1>0, SmapiAssumption
    <3>2. (duty \in {"apply", "boot"})'  BY <1>34, <1>0, SmapiAssumption
    <3>3. (held \in [mutated: BOOLEAN, switched: BOOLEAN, keep: BOOLEAN])'
      BY <1>34, <1>0, SmapiAssumption
    <3>4. (report \in Forward \cup SmapiFinal \cup {"none", "rolling_back"})'
      BY <1>34, <1>0, SmapiAssumption
    <3>5. (late \in Forward \cup {"no", "rolling_back"})'  BY <1>34, <1>0, SmapiAssumption
    <3>6. (kit \in [dir: {"none", "copies", "whole", "torn"}, switched: BOOLEAN])'
      BY <1>34, <1>0, SmapiAssumption
    <3>7. (dry \in BOOLEAN)'  BY <1>34, <1>0, SmapiAssumption
    <3>8. (archive \in {"unfit", "good"})'  BY <1>34, <1>0, SmapiAssumption
    <3>9. (volume \in {"old", "clone"})'  BY <1>34, <1>0, SmapiAssumption
    <3>10. (clone \in {"none", "made", "copied", "ready", "spoilt"})'
      BY <1>34, <1>0, SmapiAssumption
    <3>11. (controlMod \in {"old", "mixed", "new"})'  BY <1>34, <1>0, SmapiAssumption
    <3>12. (bundled \in {"old", "new", "none"})'  BY <1>34, <1>0, SmapiAssumption
    <3>13. (spare \in {"old", "new", "none"})'  BY <1>34, <1>0, SmapiAssumption
    <3>14. (game \in [up: BOOLEAN, uses: {"old", "clone"}])'  BY <1>34, <1>0, SmapiAssumption
    <3>15. (was \in BOOLEAN)'  BY <1>34, <1>0, SmapiAssumption
    <3>16. (origin \in [control: {"old", "mixed", "new"}, bundled: {"old", "new", "none"}])'
      BY <1>34, <1>0, SmapiAssumption
    <3>17. (alive \in BOOLEAN)'  BY <1>34, <1>0, SmapiAssumption
    <3>18. (unnoted \in BOOLEAN)'  BY <1>34, <1>0, SmapiAssumption
    <3>19. (failures \in 0..SmapiFaults)'  BY <1>34, <1>0, SmapiAssumption
    <3>20. (stops \in 0..SmapiStops)'  BY <1>34, <1>0, SmapiAssumption
    <3>21. QED
      BY <3>1, <3>2, <3>3, <3>4, <3>5, <3>6, <3>7, <3>8, <3>9, <3>10, <3>11, <3>12, <3>13, <3>14,
         <3>15, <3>16, <3>17, <3>18, <3>19, <3>20
  <2>2. ASSUME ~unnoted' PROVE Memory' /\ Kept' /\ Placed' /\ Reported'
    <3>u. ~unnoted  BY <1>34, <1>0, <2>2
    <3>v. Memory /\ Kept /\ Placed /\ Reported  BY <1>0, <3>u
    <3>1. Memory'  BY <1>34, <1>0, <2>2, <3>u, <3>v DEF Memory, Kept, Reported
    <3>2. Kept'
      <4>1. (kit.switched => kit.dir = "whole")'
        BY <1>34, <1>0, <2>2, <3>u, <3>v DEF Memory, Kept, Reported, Interrupted
      <4>2. (work \in Mid \cup Post \cup {"create"} => kit.dir = "whole")'
        BY <1>34, <1>0, <2>2, <3>u, <3>v DEF Memory, Kept, Reported, Interrupted
      <4>3. (work \in Pre => ~kit.switched)'
        BY <1>34, <1>0, <2>2, <3>u, <3>v DEF Memory, Kept, Reported, Interrupted
      <4>4. (work = "check" => kit.dir = "none")'
        BY <1>34, <1>0, <2>2, <3>u, <3>v DEF Memory, Kept, Reported, Interrupted
      <4>5. (work \in Mid => ~kit.switched)'
        BY <1>34, <1>0, <2>2, <3>u, <3>v DEF Memory, Kept, Reported, Interrupted
      <4>6. (work \in Post => kit.switched)'
        BY <1>34, <1>0, <2>2, <3>u, <3>v DEF Memory, Kept, Reported, Interrupted
      <4>7. (work \in Undoing \ {"settle"} /\ held.mutated => kit.dir \in {"whole", "torn"})'
        BY <1>34, <1>0, <2>2, <3>u, <3>v DEF Memory, Kept, Reported, Interrupted
      <4>8. (work \in Undoing \ {"settle"} /\ held.mutated /\ ~held.keep => kit.dir = "whole")'
        BY <1>34, <1>0, <2>2, <3>u, <3>v DEF Memory, Kept, Reported, Interrupted
      <4>9. (report # "succeeded" /\ kit.dir # "whole" => AsBefore)'
        BY <1>34, <1>0, <2>2, <3>u, <3>v DEF Memory, Kept, Reported, Interrupted
      <4>10. ((report \notin {"succeeded", "rollback_failed"} \/ late # "no") /\ ~kit.switched /\ ~held.switched => BundledKept)'
        <5>1. CASE Interrupted  BY <1>34, <1>0, <2>2, <3>u, <3>v, <5>1 DEF Kept, Interrupted
        <5>2. CASE ~Interrupted
          <6>1. report = "failed_rolled_back" \/ (report = "none" /\ held = Blank) => BundledKept \/ kit.switched
            BY <3>v DEF Kept, Reported
          <6>2. report' = report /\ late' = "no" /\ kit' = kit /\ (BundledKept => BundledKept') /\ held' = Blank
            BY <1>34
          <6>3. QED BY <1>0, <3>v, <5>2, <6>1, <6>2 DEF Reported, Interrupted
        <5>3. QED BY <5>1, <5>2
      <4>11. (~alive /\ Interrupted /\ ~kit.switched => volume = "old")'
        BY <1>34, <1>0, <2>2, <3>u, <3>v DEF Memory, Kept, Reported, Interrupted
      <4>12. QED BY <4>1, <4>2, <4>3, <4>4, <4>5, <4>6, <4>7, <4>8, <4>9, <4>10, <4>11 DEF Kept
    <3>3. Placed'  BY <1>34, <1>0, <2>2, <3>u, <3>v DEF Memory, Kept, Reported
    <3>4. Reported'
      <4>1. (work \in Pre \cup Mid \cup Post \cup Undoing => report \notin SmapiFinal \cup {"none"})'
        BY <1>34, <1>0, <2>2, <3>u, <3>v DEF Memory, Kept, Reported
      <4>2. (report = "none" => held = Blank)'
        BY <1>34, <1>0, <2>2, <3>u, <3>v DEF Memory, Kept, Reported
      <4>3. (report = "succeeded" => volume = "clone" /\ controlMod = "new" /\ bundled = "new" /\ game.up = was /\ work \in {"tidy", "idle"})'
        BY <1>34, <1>0, <2>2, <3>u, <3>v DEF Memory, Kept, Reported
      <4>4. (report = "failed_rolled_back" => AsBefore /\ AsFound)'
        BY <1>34, <1>0, <2>2, <3>u, <3>v DEF Memory, Kept, Reported
      <4>5. (work = "tidy" /\ report # "succeeded" => AsBefore)'
        BY <1>34, <1>0, <2>2, <3>u, <3>v DEF Memory, Kept, Reported
      <4>6. QED BY <4>1, <4>2, <4>3, <4>4, <4>5 DEF Reported
    <3>5. QED BY <3>1, <3>2, <3>3, <3>4
  <2>3. QED BY <2>1, <2>2 DEF SmapiInv
<1>35. CASE RecoverSmapi
  <2> USE DEF SmapiTypes, Works, Pre, Mid, Post, Restored, Undoing, NoChangeYet, Forward,
     SmapiFinal, smapiMods, Interrupted, Memory, Kept, Reported, Blank
  <2>0. /\ ~alive /\ alive' = TRUE
        /\ UNCHANGED <<kit, dry, archive, smapiMods, volume, clone, was, origin, unnoted, stops>>
        /\ BootIdle \/ BootUnmanaged \/ BootUndoes
    BY <1>35 DEF RecoverSmapi
  <2>1. CASE BootIdle
    <3>1. SmapiTypes'
      <4>1. (work \in Works)'  BY <2>0, <2>1, <1>0, SmapiAssumption DEF BootIdle, BootStays
      <4>2. (duty \in {"apply", "boot"})'
        BY <2>0, <2>1, <1>0, SmapiAssumption DEF BootIdle, BootStays
      <4>3. (held \in [mutated: BOOLEAN, switched: BOOLEAN, keep: BOOLEAN])'
        BY <2>0, <2>1, <1>0, SmapiAssumption DEF BootIdle, BootStays
      <4>4. (report \in Forward \cup SmapiFinal \cup {"none", "rolling_back"})'
        BY <2>0, <2>1, <1>0, SmapiAssumption DEF BootIdle, BootStays
      <4>5. (late \in Forward \cup {"no", "rolling_back"})'
        BY <2>0, <2>1, <1>0, SmapiAssumption DEF BootIdle, BootStays
      <4>6. (kit \in [dir: {"none", "copies", "whole", "torn"}, switched: BOOLEAN])'
        BY <2>0, <2>1, <1>0, SmapiAssumption DEF BootIdle, BootStays
      <4>7. (dry \in BOOLEAN)'  BY <2>0, <2>1, <1>0, SmapiAssumption DEF BootIdle, BootStays
      <4>8. (archive \in {"unfit", "good"})'
        BY <2>0, <2>1, <1>0, SmapiAssumption DEF BootIdle, BootStays
      <4>9. (volume \in {"old", "clone"})'
        BY <2>0, <2>1, <1>0, SmapiAssumption DEF BootIdle, BootStays
      <4>10. (clone \in {"none", "made", "copied", "ready", "spoilt"})'
        BY <2>0, <2>1, <1>0, SmapiAssumption DEF BootIdle, BootStays
      <4>11. (controlMod \in {"old", "mixed", "new"})'
        BY <2>0, <2>1, <1>0, SmapiAssumption DEF BootIdle, BootStays
      <4>12. (bundled \in {"old", "new", "none"})'
        BY <2>0, <2>1, <1>0, SmapiAssumption DEF BootIdle, BootStays
      <4>13. (spare \in {"old", "new", "none"})'
        BY <2>0, <2>1, <1>0, SmapiAssumption DEF BootIdle, BootStays
      <4>14. (game \in [up: BOOLEAN, uses: {"old", "clone"}])'
        BY <2>0, <2>1, <1>0, SmapiAssumption DEF BootIdle, BootStays
      <4>15. (was \in BOOLEAN)'  BY <2>0, <2>1, <1>0, SmapiAssumption DEF BootIdle, BootStays
      <4>16. (origin \in [control: {"old", "mixed", "new"}, bundled: {"old", "new", "none"}])'
        BY <2>0, <2>1, <1>0, SmapiAssumption DEF BootIdle, BootStays
      <4>17. (alive \in BOOLEAN)'  BY <2>0, <2>1, <1>0, SmapiAssumption DEF BootIdle, BootStays
      <4>18. (unnoted \in BOOLEAN)'
        BY <2>0, <2>1, <1>0, SmapiAssumption DEF BootIdle, BootStays
      <4>19. (failures \in 0..SmapiFaults)'
        BY <2>0, <2>1, <1>0, SmapiAssumption DEF BootIdle, BootStays
      <4>20. (stops \in 0..SmapiStops)'
        BY <2>0, <2>1, <1>0, SmapiAssumption DEF BootIdle, BootStays
      <4>21. QED
        BY <4>1, <4>2, <4>3, <4>4, <4>5, <4>6, <4>7, <4>8, <4>9, <4>10, <4>11, <4>12, <4>13,
           <4>14, <4>15, <4>16, <4>17, <4>18, <4>19, <4>20
    <3>2. ASSUME ~unnoted' PROVE Memory' /\ Kept' /\ Placed' /\ Reported'
      <4>v. ~unnoted /\ Memory /\ Kept /\ Placed /\ Reported /\ work = "idle" /\ late = "no" /\ held = Blank
        BY <1>0, <2>0, <3>2
      <4>1. Memory'
        <5>1. (~alive => work = "idle" /\ late = "no" /\ held = Blank)'
          BY <2>0, <2>1, <1>0, <4>v DEF BootIdle, BootStays
        <5>2. (work \in Pre \cup Mid \cup Post => duty = "apply" /\ late = "no" /\ ~held.keep)'
          BY <2>0, <2>1, <1>0, <4>v DEF BootIdle, BootStays
        <5>3. (work \in Undoing => (held.keep <=> duty = "boot"))'
          BY <2>0, <2>1, <1>0, <4>v DEF BootIdle, BootStays
        <5>4. (work \in Undoing /\ held.keep => held.mutated /\ held.switched = kit.switched)'
          BY <2>0, <2>1, <1>0, <4>v DEF BootIdle, BootStays
        <5>5. (work \in Pre => ~held.mutated /\ ~held.switched)'
          BY <2>0, <2>1, <1>0, <4>v DEF BootIdle, BootStays
        <5>6. (work \in Mid => held.mutated /\ ~held.switched)'
          BY <2>0, <2>1, <1>0, <4>v DEF BootIdle, BootStays
        <5>7. (work \in Post => held.mutated /\ held.switched)'
          BY <2>0, <2>1, <1>0, <4>v DEF BootIdle, BootStays
        <5>8. (work \in Undoing \ {"undo", "settle"} => held.mutated)'
          BY <2>0, <2>1, <1>0, <4>v DEF BootIdle, BootStays
        <5>9. (work \in Undoing /\ held.switched => held.mutated)'
          BY <2>0, <2>1, <1>0, <4>v DEF BootIdle, BootStays
        <5>10. (work \in {"unswitch", "unsync", "unpublish", "lost"} => held.switched)'
          BY <2>0, <2>1, <1>0, <4>v DEF BootIdle, BootStays
        <5>11. (work \in {"restart", "reverify", "unhalt"} => ~held.keep)'
          BY <2>0, <2>1, <1>0, <4>v DEF BootIdle, BootStays
        <5>12. (work \in Undoing /\ kit.switched => held.switched)'
          BY <2>0, <2>1, <1>0, <4>v DEF BootIdle, BootStays
        <5>13. (work = "undo" /\ held.keep => held.switched)'
          BY <2>0, <2>1, <1>0, <4>v DEF BootIdle, BootStays
        <5>14. (work = "forget" => held.keep /\ ~held.switched)'
          BY <2>0, <2>1, <1>0, <4>v DEF BootIdle, BootStays
        <5>15. (work = "unhalt" => ~was)'  BY <2>0, <2>1, <1>0, <4>v DEF BootIdle, BootStays
        <5>16. (late # "no" => duty = "boot" /\ report # "succeeded")'
          BY <2>0, <2>1, <1>0, <4>v DEF BootIdle, BootStays
        <5>17. QED
          BY <5>1, <5>2, <5>3, <5>4, <5>5, <5>6, <5>7, <5>8, <5>9, <5>10, <5>11, <5>12, <5>13,
             <5>14, <5>15, <5>16
      <4>2. Kept'
        <5>1. (kit.switched => kit.dir = "whole")'
          BY <2>0, <2>1, <1>0, <4>v DEF BootIdle, BootStays
        <5>2. (work \in Mid \cup Post \cup {"create"} => kit.dir = "whole")'
          BY <2>0, <2>1, <1>0, <4>v DEF BootIdle, BootStays
        <5>3. (work \in Pre => ~kit.switched)'
          BY <2>0, <2>1, <1>0, <4>v DEF BootIdle, BootStays
        <5>4. (work = "check" => kit.dir = "none")'
          BY <2>0, <2>1, <1>0, <4>v DEF BootIdle, BootStays
        <5>5. (work \in Mid => ~kit.switched)'
          BY <2>0, <2>1, <1>0, <4>v DEF BootIdle, BootStays
        <5>6. (work \in Post => kit.switched)'
          BY <2>0, <2>1, <1>0, <4>v DEF BootIdle, BootStays
        <5>7. (work \in Undoing \ {"settle"} /\ held.mutated => kit.dir \in {"whole", "torn"})'
          BY <2>0, <2>1, <1>0, <4>v DEF BootIdle, BootStays
        <5>8. (work \in Undoing \ {"settle"} /\ held.mutated /\ ~held.keep => kit.dir = "whole")'
          BY <2>0, <2>1, <1>0, <4>v DEF BootIdle, BootStays
        <5>9. (report # "succeeded" /\ kit.dir # "whole" => AsBefore)'
          BY <2>0, <2>1, <1>0, <4>v DEF BootIdle, BootStays
        <5>10. ((report \notin {"succeeded", "rollback_failed"} \/ late # "no") /\ ~kit.switched /\ ~held.switched => BundledKept)'
          BY <2>0, <2>1, <1>0, <4>v DEF BootIdle, BootStays
        <5>11. (~alive /\ Interrupted /\ ~kit.switched => volume = "old")'
          BY <2>0, <2>1, <1>0, <4>v DEF BootIdle, BootStays
        <5>12. QED BY <5>1, <5>2, <5>3, <5>4, <5>5, <5>6, <5>7, <5>8, <5>9, <5>10, <5>11
      <4>3. Placed'
        <5>1. (game.up => game.uses = volume)'
          BY <2>0, <2>1, <1>0, <4>v DEF BootIdle, BootStays
        <5>2. (volume = "clone" => clone = "ready")'
          BY <2>0, <2>1, <1>0, <4>v DEF BootIdle, BootStays
        <5>3. (work \in {"halt", "control", "switch"} => clone = "ready")'
          BY <2>0, <2>1, <1>0, <4>v DEF BootIdle, BootStays
        <5>4. (work \in {"control", "switch", "switched", "sync", "publish", "start"} => ~game.up)'
          BY <2>0, <2>1, <1>0, <4>v DEF BootIdle, BootStays
        <5>5. (work \in Pre => AsBefore /\ game.up = was)'
          BY <2>0, <2>1, <1>0, <4>v DEF BootIdle, BootStays
        <5>6. (work \in Mid => volume = (IF work = "switched" THEN "clone" ELSE "old"))'
          BY <2>0, <2>1, <1>0, <4>v DEF BootIdle, BootStays
        <5>7. (work \in Post => volume = "clone")'
          BY <2>0, <2>1, <1>0, <4>v DEF BootIdle, BootStays
        <5>8. (work \in {"switch", "switched"} \cup Post => controlMod = "new")'
          BY <2>0, <2>1, <1>0, <4>v DEF BootIdle, BootStays
        <5>9. (work \in {"start", "stack", "restore", "finish"} => bundled = "new")'
          BY <2>0, <2>1, <1>0, <4>v DEF BootIdle, BootStays
        <5>10. (work = "restore" => game.up)'  BY <2>0, <2>1, <1>0, <4>v DEF BootIdle, BootStays
        <5>11. (work = "finish" => game.up = was)'
          BY <2>0, <2>1, <1>0, <4>v DEF BootIdle, BootStays
        <5>12. (work \in {"undo", "unstop"} /\ ~held.switched => volume = "old")'
          BY <2>0, <2>1, <1>0, <4>v DEF BootIdle, BootStays
        <5>13. (work \in {"unsync", "unpublish", "lost", "uncontrol"} => volume = "old")'
          BY <2>0, <2>1, <1>0, <4>v DEF BootIdle, BootStays
        <5>14. (work = "uncontrol" => BundledKept)'
          BY <2>0, <2>1, <1>0, <4>v DEF BootIdle, BootStays
        <5>15. (work \in {"unswitch", "unsync", "unpublish", "lost"} => ~game.up)'
          BY <2>0, <2>1, <1>0, <4>v DEF BootIdle, BootStays
        <5>16. (work = "uncontrol" /\ held.keep => ~game.up)'
          BY <2>0, <2>1, <1>0, <4>v DEF BootIdle, BootStays
        <5>17. (work \in Restored => AsBefore)'
          BY <2>0, <2>1, <1>0, <4>v DEF BootIdle, BootStays
        <5>18. (work = "undo" /\ ~held.mutated => AsBefore /\ AsFound)'
          BY <2>0, <2>1, <1>0, <4>v DEF BootIdle, BootStays
        <5>19. (work \in {"drop", "forget", "settle"} => AsFound)'
          BY <2>0, <2>1, <1>0, <4>v DEF BootIdle, BootStays
        <5>20. QED
          BY <5>1, <5>2, <5>3, <5>4, <5>5, <5>6, <5>7, <5>8, <5>9, <5>10, <5>11, <5>12, <5>13,
             <5>14, <5>15, <5>16, <5>17, <5>18, <5>19 DEF Placed
      <4>4. Reported'
        <5>1. (work \in Pre \cup Mid \cup Post \cup Undoing => report \notin SmapiFinal \cup {"none"})'
          BY <2>0, <2>1, <1>0, <4>v DEF BootIdle, BootStays
        <5>2. (report = "none" => held = Blank)'
          BY <2>0, <2>1, <1>0, <4>v DEF BootIdle, BootStays
        <5>3. (report = "succeeded" => volume = "clone" /\ controlMod = "new" /\ bundled = "new" /\ game.up = was /\ work \in {"tidy", "idle"})'
          BY <2>0, <2>1, <1>0, <4>v DEF BootIdle, BootStays
        <5>4. (report = "failed_rolled_back" => AsBefore /\ AsFound)'
          BY <2>0, <2>1, <1>0, <4>v DEF BootIdle, BootStays
        <5>5. (work = "tidy" /\ report # "succeeded" => AsBefore)'
          BY <2>0, <2>1, <1>0, <4>v DEF BootIdle, BootStays
        <5>6. QED BY <5>1, <5>2, <5>3, <5>4, <5>5
      <4>5. QED BY <4>1, <4>2, <4>3, <4>4
    <3>3. QED BY <3>1, <3>2 DEF SmapiInv
  <2>2. CASE BootUnmanaged
    <3>1. SmapiTypes'
      <4>1. (work \in Works)'
        BY <2>0, <2>2, <1>0, SmapiAssumption DEF BootUnmanaged, GiveUp, Stopped, MaybeStopped
      <4>2. (duty \in {"apply", "boot"})'
        BY <2>0, <2>2, <1>0, SmapiAssumption DEF BootUnmanaged, GiveUp, Stopped, MaybeStopped
      <4>3. (held \in [mutated: BOOLEAN, switched: BOOLEAN, keep: BOOLEAN])'
        BY <2>0, <2>2, <1>0, SmapiAssumption DEF BootUnmanaged, GiveUp, Stopped, MaybeStopped
      <4>4. (report \in Forward \cup SmapiFinal \cup {"none", "rolling_back"})'
        BY <2>0, <2>2, <1>0, SmapiAssumption DEF BootUnmanaged, GiveUp, Stopped, MaybeStopped
      <4>5. (late \in Forward \cup {"no", "rolling_back"})'
        BY <2>0, <2>2, <1>0, SmapiAssumption DEF BootUnmanaged, GiveUp, Stopped, MaybeStopped
      <4>6. (kit \in [dir: {"none", "copies", "whole", "torn"}, switched: BOOLEAN])'
        BY <2>0, <2>2, <1>0, SmapiAssumption DEF BootUnmanaged, GiveUp, Stopped, MaybeStopped
      <4>7. (dry \in BOOLEAN)'
        BY <2>0, <2>2, <1>0, SmapiAssumption DEF BootUnmanaged, GiveUp, Stopped, MaybeStopped
      <4>8. (archive \in {"unfit", "good"})'
        BY <2>0, <2>2, <1>0, SmapiAssumption DEF BootUnmanaged, GiveUp, Stopped, MaybeStopped
      <4>9. (volume \in {"old", "clone"})'
        BY <2>0, <2>2, <1>0, SmapiAssumption DEF BootUnmanaged, GiveUp, Stopped, MaybeStopped
      <4>10. (clone \in {"none", "made", "copied", "ready", "spoilt"})'
        BY <2>0, <2>2, <1>0, SmapiAssumption DEF BootUnmanaged, GiveUp, Stopped, MaybeStopped
      <4>11. (controlMod \in {"old", "mixed", "new"})'
        BY <2>0, <2>2, <1>0, SmapiAssumption DEF BootUnmanaged, GiveUp, Stopped, MaybeStopped
      <4>12. (bundled \in {"old", "new", "none"})'
        BY <2>0, <2>2, <1>0, SmapiAssumption DEF BootUnmanaged, GiveUp, Stopped, MaybeStopped
      <4>13. (spare \in {"old", "new", "none"})'
        BY <2>0, <2>2, <1>0, SmapiAssumption DEF BootUnmanaged, GiveUp, Stopped, MaybeStopped
      <4>14. (game \in [up: BOOLEAN, uses: {"old", "clone"}])'
        BY <2>0, <2>2, <1>0, SmapiAssumption DEF BootUnmanaged, GiveUp, Stopped, MaybeStopped
      <4>15. (was \in BOOLEAN)'
        BY <2>0, <2>2, <1>0, SmapiAssumption DEF BootUnmanaged, GiveUp, Stopped, MaybeStopped
      <4>16. (origin \in [control: {"old", "mixed", "new"}, bundled: {"old", "new", "none"}])'
        BY <2>0, <2>2, <1>0, SmapiAssumption DEF BootUnmanaged, GiveUp, Stopped, MaybeStopped
      <4>17. (alive \in BOOLEAN)'
        BY <2>0, <2>2, <1>0, SmapiAssumption DEF BootUnmanaged, GiveUp, Stopped, MaybeStopped
      <4>18. (unnoted \in BOOLEAN)'
        BY <2>0, <2>2, <1>0, SmapiAssumption DEF BootUnmanaged, GiveUp, Stopped, MaybeStopped
      <4>19. (failures \in 0..SmapiFaults)'
        BY <2>0, <2>2, <1>0, SmapiAssumption DEF BootUnmanaged, GiveUp, Stopped, MaybeStopped
      <4>20. (stops \in 0..SmapiStops)'
        BY <2>0, <2>2, <1>0, SmapiAssumption DEF BootUnmanaged, GiveUp, Stopped, MaybeStopped
      <4>21. QED
        BY <4>1, <4>2, <4>3, <4>4, <4>5, <4>6, <4>7, <4>8, <4>9, <4>10, <4>11, <4>12, <4>13,
           <4>14, <4>15, <4>16, <4>17, <4>18, <4>19, <4>20
    <3>2. ASSUME ~unnoted' PROVE Memory' /\ Kept' /\ Placed' /\ Reported'
      <4>v. ~unnoted /\ Memory /\ Kept /\ Placed /\ Reported /\ work = "idle" /\ late = "no" /\ held = Blank
        BY <1>0, <2>0, <3>2
      <4>1. Memory'
        <5>1. (~alive => work = "idle" /\ late = "no" /\ held = Blank)'
          BY <2>0, <2>2, <1>0, <4>v DEF BootUnmanaged, GiveUp, Stopped, MaybeStopped
        <5>2. (work \in Pre \cup Mid \cup Post => duty = "apply" /\ late = "no" /\ ~held.keep)'
          BY <2>0, <2>2, <1>0, <4>v DEF BootUnmanaged, GiveUp, Stopped, MaybeStopped
        <5>3. (work \in Undoing => (held.keep <=> duty = "boot"))'
          BY <2>0, <2>2, <1>0, <4>v DEF BootUnmanaged, GiveUp, Stopped, MaybeStopped
        <5>4. (work \in Undoing /\ held.keep => held.mutated /\ held.switched = kit.switched)'
          BY <2>0, <2>2, <1>0, <4>v DEF BootUnmanaged, GiveUp, Stopped, MaybeStopped
        <5>5. (work \in Pre => ~held.mutated /\ ~held.switched)'
          BY <2>0, <2>2, <1>0, <4>v DEF BootUnmanaged, GiveUp, Stopped, MaybeStopped
        <5>6. (work \in Mid => held.mutated /\ ~held.switched)'
          BY <2>0, <2>2, <1>0, <4>v DEF BootUnmanaged, GiveUp, Stopped, MaybeStopped
        <5>7. (work \in Post => held.mutated /\ held.switched)'
          BY <2>0, <2>2, <1>0, <4>v DEF BootUnmanaged, GiveUp, Stopped, MaybeStopped
        <5>8. (work \in Undoing \ {"undo", "settle"} => held.mutated)'
          BY <2>0, <2>2, <1>0, <4>v DEF BootUnmanaged, GiveUp, Stopped, MaybeStopped
        <5>9. (work \in Undoing /\ held.switched => held.mutated)'
          BY <2>0, <2>2, <1>0, <4>v DEF BootUnmanaged, GiveUp, Stopped, MaybeStopped
        <5>10. (work \in {"unswitch", "unsync", "unpublish", "lost"} => held.switched)'
          BY <2>0, <2>2, <1>0, <4>v DEF BootUnmanaged, GiveUp, Stopped, MaybeStopped
        <5>11. (work \in {"restart", "reverify", "unhalt"} => ~held.keep)'
          BY <2>0, <2>2, <1>0, <4>v DEF BootUnmanaged, GiveUp, Stopped, MaybeStopped
        <5>12. (work \in Undoing /\ kit.switched => held.switched)'
          BY <2>0, <2>2, <1>0, <4>v DEF BootUnmanaged, GiveUp, Stopped, MaybeStopped
        <5>13. (work = "undo" /\ held.keep => held.switched)'
          BY <2>0, <2>2, <1>0, <4>v DEF BootUnmanaged, GiveUp, Stopped, MaybeStopped
        <5>14. (work = "forget" => held.keep /\ ~held.switched)'
          BY <2>0, <2>2, <1>0, <4>v DEF BootUnmanaged, GiveUp, Stopped, MaybeStopped
        <5>15. (work = "unhalt" => ~was)'
          BY <2>0, <2>2, <1>0, <4>v DEF BootUnmanaged, GiveUp, Stopped, MaybeStopped
        <5>16. (late # "no" => duty = "boot" /\ report # "succeeded")'
          BY <2>0, <2>2, <1>0, <4>v DEF BootUnmanaged, GiveUp, Stopped, MaybeStopped
        <5>17. QED
          BY <5>1, <5>2, <5>3, <5>4, <5>5, <5>6, <5>7, <5>8, <5>9, <5>10, <5>11, <5>12, <5>13,
             <5>14, <5>15, <5>16
      <4>2. Kept'
        <5>1. (kit.switched => kit.dir = "whole")'
          BY <2>0, <2>2, <1>0, <4>v DEF BootUnmanaged, GiveUp, Stopped, MaybeStopped
        <5>2. (work \in Mid \cup Post \cup {"create"} => kit.dir = "whole")'
          BY <2>0, <2>2, <1>0, <4>v DEF BootUnmanaged, GiveUp, Stopped, MaybeStopped
        <5>3. (work \in Pre => ~kit.switched)'
          BY <2>0, <2>2, <1>0, <4>v DEF BootUnmanaged, GiveUp, Stopped, MaybeStopped
        <5>4. (work = "check" => kit.dir = "none")'
          BY <2>0, <2>2, <1>0, <4>v DEF BootUnmanaged, GiveUp, Stopped, MaybeStopped
        <5>5. (work \in Mid => ~kit.switched)'
          BY <2>0, <2>2, <1>0, <4>v DEF BootUnmanaged, GiveUp, Stopped, MaybeStopped
        <5>6. (work \in Post => kit.switched)'
          BY <2>0, <2>2, <1>0, <4>v DEF BootUnmanaged, GiveUp, Stopped, MaybeStopped
        <5>7. (work \in Undoing \ {"settle"} /\ held.mutated => kit.dir \in {"whole", "torn"})'
          BY <2>0, <2>2, <1>0, <4>v DEF BootUnmanaged, GiveUp, Stopped, MaybeStopped
        <5>8. (work \in Undoing \ {"settle"} /\ held.mutated /\ ~held.keep => kit.dir = "whole")'
          BY <2>0, <2>2, <1>0, <4>v DEF BootUnmanaged, GiveUp, Stopped, MaybeStopped
        <5>9. (report # "succeeded" /\ kit.dir # "whole" => AsBefore)'
          BY <2>0, <2>2, <1>0, <4>v DEF BootUnmanaged, GiveUp, Stopped, MaybeStopped
        <5>10. ((report \notin {"succeeded", "rollback_failed"} \/ late # "no") /\ ~kit.switched /\ ~held.switched => BundledKept)'
          BY <2>0, <2>2, <1>0, <4>v DEF BootUnmanaged, GiveUp, Stopped, MaybeStopped
        <5>11. (~alive /\ Interrupted /\ ~kit.switched => volume = "old")'
          BY <2>0, <2>2, <1>0, <4>v DEF BootUnmanaged, GiveUp, Stopped, MaybeStopped
        <5>12. QED BY <5>1, <5>2, <5>3, <5>4, <5>5, <5>6, <5>7, <5>8, <5>9, <5>10, <5>11
      <4>3. Placed'
        <5>1. (game.up => game.uses = volume)'
          BY <2>0, <2>2, <1>0, <4>v DEF BootUnmanaged, GiveUp, Stopped, MaybeStopped
        <5>2. (volume = "clone" => clone = "ready")'
          BY <2>0, <2>2, <1>0, <4>v DEF BootUnmanaged, GiveUp, Stopped, MaybeStopped
        <5>3. (work \in {"halt", "control", "switch"} => clone = "ready")'
          BY <2>0, <2>2, <1>0, <4>v DEF BootUnmanaged, GiveUp, Stopped, MaybeStopped
        <5>4. (work \in {"control", "switch", "switched", "sync", "publish", "start"} => ~game.up)'
          BY <2>0, <2>2, <1>0, <4>v DEF BootUnmanaged, GiveUp, Stopped, MaybeStopped
        <5>5. (work \in Pre => AsBefore /\ game.up = was)'
          BY <2>0, <2>2, <1>0, <4>v DEF BootUnmanaged, GiveUp, Stopped, MaybeStopped
        <5>6. (work \in Mid => volume = (IF work = "switched" THEN "clone" ELSE "old"))'
          BY <2>0, <2>2, <1>0, <4>v DEF BootUnmanaged, GiveUp, Stopped, MaybeStopped
        <5>7. (work \in Post => volume = "clone")'
          BY <2>0, <2>2, <1>0, <4>v DEF BootUnmanaged, GiveUp, Stopped, MaybeStopped
        <5>8. (work \in {"switch", "switched"} \cup Post => controlMod = "new")'
          BY <2>0, <2>2, <1>0, <4>v DEF BootUnmanaged, GiveUp, Stopped, MaybeStopped
        <5>9. (work \in {"start", "stack", "restore", "finish"} => bundled = "new")'
          BY <2>0, <2>2, <1>0, <4>v DEF BootUnmanaged, GiveUp, Stopped, MaybeStopped
        <5>10. (work = "restore" => game.up)'
          BY <2>0, <2>2, <1>0, <4>v DEF BootUnmanaged, GiveUp, Stopped, MaybeStopped
        <5>11. (work = "finish" => game.up = was)'
          BY <2>0, <2>2, <1>0, <4>v DEF BootUnmanaged, GiveUp, Stopped, MaybeStopped
        <5>12. (work \in {"undo", "unstop"} /\ ~held.switched => volume = "old")'
          BY <2>0, <2>2, <1>0, <4>v DEF BootUnmanaged, GiveUp, Stopped, MaybeStopped
        <5>13. (work \in {"unsync", "unpublish", "lost", "uncontrol"} => volume = "old")'
          BY <2>0, <2>2, <1>0, <4>v DEF BootUnmanaged, GiveUp, Stopped, MaybeStopped
        <5>14. (work = "uncontrol" => BundledKept)'
          BY <2>0, <2>2, <1>0, <4>v DEF BootUnmanaged, GiveUp, Stopped, MaybeStopped
        <5>15. (work \in {"unswitch", "unsync", "unpublish", "lost"} => ~game.up)'
          BY <2>0, <2>2, <1>0, <4>v DEF BootUnmanaged, GiveUp, Stopped, MaybeStopped
        <5>16. (work = "uncontrol" /\ held.keep => ~game.up)'
          BY <2>0, <2>2, <1>0, <4>v DEF BootUnmanaged, GiveUp, Stopped, MaybeStopped
        <5>17. (work \in Restored => AsBefore)'
          BY <2>0, <2>2, <1>0, <4>v DEF BootUnmanaged, GiveUp, Stopped, MaybeStopped
        <5>18. (work = "undo" /\ ~held.mutated => AsBefore /\ AsFound)'
          BY <2>0, <2>2, <1>0, <4>v DEF BootUnmanaged, GiveUp, Stopped, MaybeStopped
        <5>19. (work \in {"drop", "forget", "settle"} => AsFound)'
          BY <2>0, <2>2, <1>0, <4>v DEF BootUnmanaged, GiveUp, Stopped, MaybeStopped
        <5>20. QED
          BY <5>1, <5>2, <5>3, <5>4, <5>5, <5>6, <5>7, <5>8, <5>9, <5>10, <5>11, <5>12, <5>13,
             <5>14, <5>15, <5>16, <5>17, <5>18, <5>19 DEF Placed
      <4>4. Reported'
        <5>1. (work \in Pre \cup Mid \cup Post \cup Undoing => report \notin SmapiFinal \cup {"none"})'
          BY <2>0, <2>2, <1>0, <4>v DEF BootUnmanaged, GiveUp, Stopped, MaybeStopped
        <5>2. (report = "none" => held = Blank)'
          BY <2>0, <2>2, <1>0, <4>v DEF BootUnmanaged, GiveUp, Stopped, MaybeStopped
        <5>3. (report = "succeeded" => volume = "clone" /\ controlMod = "new" /\ bundled = "new" /\ game.up = was /\ work \in {"tidy", "idle"})'
          BY <2>0, <2>2, <1>0, <4>v DEF BootUnmanaged, GiveUp, Stopped, MaybeStopped
        <5>4. (report = "failed_rolled_back" => AsBefore /\ AsFound)'
          BY ZenonT(60), <2>0, <2>2, <1>0, <4>v DEF BootUnmanaged, GiveUp, Stopped, MaybeStopped
        <5>5. (work = "tidy" /\ report # "succeeded" => AsBefore)'
          BY <2>0, <2>2, <1>0, <4>v DEF BootUnmanaged, GiveUp, Stopped, MaybeStopped
        <5>6. QED BY <5>1, <5>2, <5>3, <5>4, <5>5
      <4>5. QED BY <4>1, <4>2, <4>3, <4>4
    <3>3. QED BY <3>1, <3>2 DEF SmapiInv
  <2>3. CASE BootUndoes
    <3>1. SmapiTypes'
      <4>1. (work \in Works)'  BY <2>0, <2>3, <1>0, SmapiAssumption DEF BootUndoes, Done, Broken
      <4>2. (duty \in {"apply", "boot"})'
        BY <2>0, <2>3, <1>0, SmapiAssumption DEF BootUndoes, Done, Broken
      <4>3. (held \in [mutated: BOOLEAN, switched: BOOLEAN, keep: BOOLEAN])'
        <5>1. kit.switched \in BOOLEAN  BY <1>0
        <5>2. \A b \in BOOLEAN : [mutated |-> TRUE, switched |-> b, keep |-> TRUE] \in [mutated: BOOLEAN, switched: BOOLEAN, keep: BOOLEAN]
          OBVIOUS
        <5>3. held' = held \/ held' = [mutated |-> TRUE, switched |-> kit.switched, keep |-> TRUE]
          BY <2>3 DEF BootUndoes
        <5>4. QED BY <1>0, <5>1, <5>2, <5>3
      <4>4. (report \in Forward \cup SmapiFinal \cup {"none", "rolling_back"})'
        BY <2>0, <2>3, <1>0, SmapiAssumption DEF BootUndoes, Done, Broken
      <4>5. (late \in Forward \cup {"no", "rolling_back"})'
        BY <2>0, <2>3, <1>0, SmapiAssumption DEF BootUndoes, Done, Broken
      <4>6. (kit \in [dir: {"none", "copies", "whole", "torn"}, switched: BOOLEAN])'
        BY <2>0, <2>3, <1>0, SmapiAssumption DEF BootUndoes, Done, Broken
      <4>7. (dry \in BOOLEAN)'
        BY <2>0, <2>3, <1>0, SmapiAssumption DEF BootUndoes, Done, Broken
      <4>8. (archive \in {"unfit", "good"})'
        BY <2>0, <2>3, <1>0, SmapiAssumption DEF BootUndoes, Done, Broken
      <4>9. (volume \in {"old", "clone"})'
        BY <2>0, <2>3, <1>0, SmapiAssumption DEF BootUndoes, Done, Broken
      <4>10. (clone \in {"none", "made", "copied", "ready", "spoilt"})'
        BY <2>0, <2>3, <1>0, SmapiAssumption DEF BootUndoes, Done, Broken
      <4>11. (controlMod \in {"old", "mixed", "new"})'
        BY <2>0, <2>3, <1>0, SmapiAssumption DEF BootUndoes, Done, Broken
      <4>12. (bundled \in {"old", "new", "none"})'
        BY <2>0, <2>3, <1>0, SmapiAssumption DEF BootUndoes, Done, Broken
      <4>13. (spare \in {"old", "new", "none"})'
        BY <2>0, <2>3, <1>0, SmapiAssumption DEF BootUndoes, Done, Broken
      <4>14. (game \in [up: BOOLEAN, uses: {"old", "clone"}])'
        BY <2>0, <2>3, <1>0, SmapiAssumption DEF BootUndoes, Done, Broken
      <4>15. (was \in BOOLEAN)'
        BY <2>0, <2>3, <1>0, SmapiAssumption DEF BootUndoes, Done, Broken
      <4>16. (origin \in [control: {"old", "mixed", "new"}, bundled: {"old", "new", "none"}])'
        BY <2>0, <2>3, <1>0, SmapiAssumption DEF BootUndoes, Done, Broken
      <4>17. (alive \in BOOLEAN)'
        BY <2>0, <2>3, <1>0, SmapiAssumption DEF BootUndoes, Done, Broken
      <4>18. (unnoted \in BOOLEAN)'
        BY <2>0, <2>3, <1>0, SmapiAssumption DEF BootUndoes, Done, Broken
      <4>19. (failures \in 0..SmapiFaults)'
        BY <2>0, <2>3, <1>0, SmapiAssumption DEF BootUndoes, Done, Broken
      <4>20. (stops \in 0..SmapiStops)'
        BY <2>0, <2>3, <1>0, SmapiAssumption DEF BootUndoes, Done, Broken
      <4>21. QED
        BY <4>1, <4>2, <4>3, <4>4, <4>5, <4>6, <4>7, <4>8, <4>9, <4>10, <4>11, <4>12, <4>13,
           <4>14, <4>15, <4>16, <4>17, <4>18, <4>19, <4>20
    <3>2. ASSUME ~unnoted' PROVE Memory' /\ Kept' /\ Placed' /\ Reported'
      <4>v. ~unnoted /\ Memory /\ Kept /\ Placed /\ Reported /\ work = "idle" /\ late = "no" /\ held = Blank
        BY <1>0, <2>0, <3>2
      <4>1. Memory'
        <5>1. (~alive => work = "idle" /\ late = "no" /\ held = Blank)'
          BY <2>0, <2>3, <1>0, <4>v DEF BootUndoes, Done, Broken
        <5>2. (work \in Pre \cup Mid \cup Post => duty = "apply" /\ late = "no" /\ ~held.keep)'
          BY <2>0, <2>3, <1>0, <4>v DEF BootUndoes, Done, Broken
        <5>3. (work \in Undoing => (held.keep <=> duty = "boot"))'
          BY <2>0, <2>3, <1>0, <4>v DEF BootUndoes, Done, Broken
        <5>4. (work \in Undoing /\ held.keep => held.mutated /\ held.switched = kit.switched)'
          BY <2>0, <2>3, <1>0, <4>v DEF BootUndoes, Done, Broken
        <5>5. (work \in Pre => ~held.mutated /\ ~held.switched)'
          BY <2>0, <2>3, <1>0, <4>v DEF BootUndoes, Done, Broken
        <5>6. (work \in Mid => held.mutated /\ ~held.switched)'
          BY <2>0, <2>3, <1>0, <4>v DEF BootUndoes, Done, Broken
        <5>7. (work \in Post => held.mutated /\ held.switched)'
          BY <2>0, <2>3, <1>0, <4>v DEF BootUndoes, Done, Broken
        <5>8. (work \in Undoing \ {"undo", "settle"} => held.mutated)'
          BY <2>0, <2>3, <1>0, <4>v DEF BootUndoes, Done, Broken
        <5>9. (work \in Undoing /\ held.switched => held.mutated)'
          BY <2>0, <2>3, <1>0, <4>v DEF BootUndoes, Done, Broken
        <5>10. (work \in {"unswitch", "unsync", "unpublish", "lost"} => held.switched)'
          BY <2>0, <2>3, <1>0, <4>v DEF BootUndoes, Done, Broken
        <5>11. (work \in {"restart", "reverify", "unhalt"} => ~held.keep)'
          BY <2>0, <2>3, <1>0, <4>v DEF BootUndoes, Done, Broken
        <5>12. (work \in Undoing /\ kit.switched => held.switched)'
          BY <2>0, <2>3, <1>0, <4>v DEF BootUndoes, Done, Broken
        <5>13. (work = "undo" /\ held.keep => held.switched)'
          BY <2>0, <2>3, <1>0, <4>v DEF BootUndoes, Done, Broken
        <5>14. (work = "forget" => held.keep /\ ~held.switched)'
          BY <2>0, <2>3, <1>0, <4>v DEF BootUndoes, Done, Broken
        <5>15. (work = "unhalt" => ~was)'
          BY <2>0, <2>3, <1>0, <4>v DEF BootUndoes, Done, Broken
        <5>16. (late # "no" => duty = "boot" /\ report # "succeeded")'
          BY <2>0, <2>3, <1>0, <4>v DEF BootUndoes, Done, Broken
        <5>17. QED
          BY <5>1, <5>2, <5>3, <5>4, <5>5, <5>6, <5>7, <5>8, <5>9, <5>10, <5>11, <5>12, <5>13,
             <5>14, <5>15, <5>16
      <4>2. Kept'
        <5>1. (kit.switched => kit.dir = "whole")'
          BY <2>0, <2>3, <1>0, <4>v DEF BootUndoes, Done, Broken
        <5>2. (work \in Mid \cup Post \cup {"create"} => kit.dir = "whole")'
          BY <2>0, <2>3, <1>0, <4>v DEF BootUndoes, Done, Broken
        <5>3. (work \in Pre => ~kit.switched)'
          BY <2>0, <2>3, <1>0, <4>v DEF BootUndoes, Done, Broken
        <5>4. (work = "check" => kit.dir = "none")'
          BY <2>0, <2>3, <1>0, <4>v DEF BootUndoes, Done, Broken
        <5>5. (work \in Mid => ~kit.switched)'
          BY <2>0, <2>3, <1>0, <4>v DEF BootUndoes, Done, Broken
        <5>6. (work \in Post => kit.switched)'
          BY <2>0, <2>3, <1>0, <4>v DEF BootUndoes, Done, Broken
        <5>7. (work \in Undoing \ {"settle"} /\ held.mutated => kit.dir \in {"whole", "torn"})'
          BY <2>0, <2>3, <1>0, <4>v DEF BootUndoes, Done, Broken
        <5>8. (work \in Undoing \ {"settle"} /\ held.mutated /\ ~held.keep => kit.dir = "whole")'
          BY <2>0, <2>3, <1>0, <4>v DEF BootUndoes, Done, Broken
        <5>9. (report # "succeeded" /\ kit.dir # "whole" => AsBefore)'
          BY <2>0, <2>3, <1>0, <4>v DEF BootUndoes, Done, Broken
        <5>10. ((report \notin {"succeeded", "rollback_failed"} \/ late # "no") /\ ~kit.switched /\ ~held.switched => BundledKept)'
          BY <2>0, <2>3, <1>0, <4>v DEF BootUndoes, Done, Broken
        <5>11. (~alive /\ Interrupted /\ ~kit.switched => volume = "old")'
          BY <2>0, <2>3, <1>0, <4>v DEF BootUndoes, Done, Broken
        <5>12. QED BY <5>1, <5>2, <5>3, <5>4, <5>5, <5>6, <5>7, <5>8, <5>9, <5>10, <5>11
      <4>3. Placed'
        <5>1. (game.up => game.uses = volume)'
          BY <2>0, <2>3, <1>0, <4>v DEF BootUndoes, Done, Broken
        <5>2. (volume = "clone" => clone = "ready")'
          BY <2>0, <2>3, <1>0, <4>v DEF BootUndoes, Done, Broken
        <5>3. (work \in {"halt", "control", "switch"} => clone = "ready")'
          BY <2>0, <2>3, <1>0, <4>v DEF BootUndoes, Done, Broken
        <5>4. (work \in {"control", "switch", "switched", "sync", "publish", "start"} => ~game.up)'
          BY <2>0, <2>3, <1>0, <4>v DEF BootUndoes, Done, Broken
        <5>5. (work \in Pre => AsBefore /\ game.up = was)'
          BY <2>0, <2>3, <1>0, <4>v DEF BootUndoes, Done, Broken
        <5>6. (work \in Mid => volume = (IF work = "switched" THEN "clone" ELSE "old"))'
          BY <2>0, <2>3, <1>0, <4>v DEF BootUndoes, Done, Broken
        <5>7. (work \in Post => volume = "clone")'
          BY <2>0, <2>3, <1>0, <4>v DEF BootUndoes, Done, Broken
        <5>8. (work \in {"switch", "switched"} \cup Post => controlMod = "new")'
          BY <2>0, <2>3, <1>0, <4>v DEF BootUndoes, Done, Broken
        <5>9. (work \in {"start", "stack", "restore", "finish"} => bundled = "new")'
          BY <2>0, <2>3, <1>0, <4>v DEF BootUndoes, Done, Broken
        <5>10. (work = "restore" => game.up)'
          BY <2>0, <2>3, <1>0, <4>v DEF BootUndoes, Done, Broken
        <5>11. (work = "finish" => game.up = was)'
          BY <2>0, <2>3, <1>0, <4>v DEF BootUndoes, Done, Broken
        <5>12. (work \in {"undo", "unstop"} /\ ~held.switched => volume = "old")'
          BY <2>0, <2>3, <1>0, <4>v DEF BootUndoes, Done, Broken
        <5>13. (work \in {"unsync", "unpublish", "lost", "uncontrol"} => volume = "old")'
          BY <2>0, <2>3, <1>0, <4>v DEF BootUndoes, Done, Broken
        <5>14. (work = "uncontrol" => BundledKept)'
          BY <2>0, <2>3, <1>0, <4>v DEF BootUndoes, Done, Broken
        <5>15. (work \in {"unswitch", "unsync", "unpublish", "lost"} => ~game.up)'
          BY <2>0, <2>3, <1>0, <4>v DEF BootUndoes, Done, Broken
        <5>16. (work = "uncontrol" /\ held.keep => ~game.up)'
          BY <2>0, <2>3, <1>0, <4>v DEF BootUndoes, Done, Broken
        <5>17. (work \in Restored => AsBefore)'
          BY <2>0, <2>3, <1>0, <4>v DEF BootUndoes, Done, Broken
        <5>18. (work = "undo" /\ ~held.mutated => AsBefore /\ AsFound)'
          BY <2>0, <2>3, <1>0, <4>v DEF BootUndoes, Done, Broken
        <5>19. (work \in {"drop", "forget", "settle"} => AsFound)'
          BY <2>0, <2>3, <1>0, <4>v DEF BootUndoes, Done, Broken
        <5>20. QED
          BY <5>1, <5>2, <5>3, <5>4, <5>5, <5>6, <5>7, <5>8, <5>9, <5>10, <5>11, <5>12, <5>13,
             <5>14, <5>15, <5>16, <5>17, <5>18, <5>19 DEF Placed
      <4>4. Reported'
        <5>1. (work \in Pre \cup Mid \cup Post \cup Undoing => report \notin SmapiFinal \cup {"none"})'
          BY <2>0, <2>3, <1>0, <4>v DEF BootUndoes, Done, Broken
        <5>2. (report = "none" => held = Blank)'
          BY <2>0, <2>3, <1>0, <4>v DEF BootUndoes, Done, Broken
        <5>3. (report = "succeeded" => volume = "clone" /\ controlMod = "new" /\ bundled = "new" /\ game.up = was /\ work \in {"tidy", "idle"})'
          BY <2>0, <2>3, <1>0, <4>v DEF BootUndoes, Done, Broken
        <5>4. (report = "failed_rolled_back" => AsBefore /\ AsFound)'
          BY <2>0, <2>3, <1>0, <4>v DEF BootUndoes, Done, Broken
        <5>5. (work = "tidy" /\ report # "succeeded" => AsBefore)'
          BY <2>0, <2>3, <1>0, <4>v DEF BootUndoes, Done, Broken
        <5>6. QED BY <5>1, <5>2, <5>3, <5>4, <5>5
      <4>5. QED BY <4>1, <4>2, <4>3, <4>4
    <3>3. QED BY <3>1, <3>2 DEF SmapiInv
  <2>4. QED BY <2>0, <2>1, <2>2, <2>3
<1>36. CASE BootNotesJob
  <2> USE DEF SmapiTypes, Works, Pre, Mid, Post, Restored, Undoing, NoChangeYet, Forward,
     SmapiFinal, BootNotesJob, notes, smapiMods, places, Memory, Kept, Reported
  <2>1. SmapiTypes'  BY <1>36, <1>0, SmapiAssumption
  <2>2. ASSUME ~unnoted' PROVE Memory' /\ Kept' /\ Placed' /\ Reported'
    <3>u. ~unnoted  BY <1>36, <1>0, <2>2
    <3>v. Memory /\ Kept /\ Placed /\ Reported  BY <1>0, <3>u
    <3>1. Memory'  BY <1>36, <1>0, <2>2, <3>u, <3>v
    <3>2. Kept'  BY <1>36, <1>0, <2>2, <3>u, <3>v DEF Interrupted
    <3>3. Placed'  BY <1>36, <1>0, <2>2, <3>u, <3>v
    <3>4. Reported'  BY <1>36, <1>0, <2>2, <3>u, <3>v
    <3>5. QED BY <3>1, <3>2, <3>3, <3>4
  <2>3. QED BY <2>1, <2>2 DEF SmapiInv
<1>37. QED
  BY <1>1, <1>2, <1>3, <1>4, <1>5, <1>6, <1>7, <1>8, <1>9, <1>10, <1>11, <1>12, <1>13, <1>14,
     <1>15, <1>16, <1>17, <1>18, <1>19, <1>20, <1>21, <1>22, <1>23, <1>24, <1>25, <1>26, <1>27,
        <1>28, <1>29, <1>30, <1>31, <1>32, <1>33, <1>34, <1>35, <1>36 DEF SmapiNext, SmapiApply,
           SmapiUndo

LEMMA SmapiStarts == SmapiInit => SmapiInv
<1> USE DEF SmapiInit, Pre, Mid, Post, Undoing, Restored
<1> SUFFICES ASSUME SmapiInit PROVE SmapiInv
  OBVIOUS
<1>1. SmapiTypes
  <2>1. held \in [mutated: BOOLEAN, switched: BOOLEAN, keep: BOOLEAN]  BY DEF Blank
  <2>2. kit \in [dir: {"none", "copies", "whole", "torn"}, switched: BOOLEAN]  BY DEF NoKit
  <2>3. game \in [up: BOOLEAN, uses: {"old", "clone"}]  OBVIOUS
  <2>4. origin \in [control: {"old", "mixed", "new"}, bundled: {"old", "new", "none"}]  OBVIOUS
  <2>5. 0 \in 0..SmapiFaults /\ 0 \in 0..SmapiStops  BY SmapiAssumption
  <2>6. QED BY <2>1, <2>2, <2>3, <2>4, <2>5 DEF SmapiTypes, Works, Forward, NoChangeYet, SmapiFinal
<1>2. Memory  BY DEF Memory
<1>3. Kept  BY DEF Kept, NoKit, AsBefore, BundledKept
<1>4. Placed  BY DEF Placed
<1>5. Reported  BY DEF Reported, SmapiFinal
<1>6. QED BY <1>1, <1>2, <1>3, <1>4, <1>5 DEF SmapiInv

LEMMA SmapiRests == SmapiInv /\ UNCHANGED smapiVars => SmapiInv'
<1> SUFFICES ASSUME SmapiInv, UNCHANGED smapiVars PROVE SmapiInv'
  OBVIOUS
<1>1. SmapiTypes'  BY DEF SmapiInv, SmapiTypes, smapiVars
<1>2. ASSUME ~unnoted' PROVE Memory' /\ Kept' /\ Placed' /\ Reported'
  <2>1. Memory /\ Kept /\ Placed /\ Reported  BY <1>2 DEF SmapiInv, smapiVars
  <2>2. QED
    BY <2>1 DEF Memory, Kept, Placed, Reported, AsBefore, AsFound, BundledKept, Interrupted,
       smapiVars
<1>3. QED BY <1>1, <1>2 DEF SmapiInv

\* The invariant of an update of SMAPI and of its rollback: what the job remembers, the
\* recovery directory holds, the status says and the disk has, at every step of either
\* and after any stop that did not fall between the switch and its note.
THEOREM SmapiInvariant == SmapiSpec => []SmapiInv
<1>1. SmapiInv /\ [SmapiNext]_smapiVars => SmapiInv'  BY SmapiStep, SmapiRests
<1>2. QED BY SmapiStarts, <1>1, PTL DEF SmapiSpec

\* Every variable of an update of SMAPI has its type.
THEOREM SmapiUpdateTypes == SmapiSpec => []SmapiTypeOK
<1>1. SmapiInv => SmapiTypeOK
  BY DEF SmapiInv, SmapiTypes, SmapiTypeOK, Works, Pre, Mid, Post, Undoing, Restored
<1> QED BY <1>1, SmapiInvariant, PTL

\* What an update of SMAPI reports is so, for any number of failing steps and stops: a
\* success is the verified clone, a rollback has put back volume and mods and left the
\* server as it should, and a failed rollback has kept what it needs.
THEOREM SmapiOutcomeHolds == SmapiSpec => []SmapiOutcome
<1>1. SmapiInv => SmapiOutcome
  <2> SUFFICES ASSUME SmapiInv, ~unnoted PROVE SmapiOutcome
    BY DEF SmapiOutcome
  <2>0. SmapiTypes /\ Kept /\ Placed /\ Reported  BY DEF SmapiInv
  <2>1. volume = "clone" => clone = "ready"  BY <2>0 DEF Placed
  <2>2. report = "succeeded" =>
          volume = "clone" /\ clone = "ready" /\ controlMod = "new" /\ bundled = "new" /\ game.up = was
    BY <2>0, <2>1 DEF Reported
  <2>3. report = "failed_rolled_back" =>
          AsBefore /\ game.up = (duty = "apply" /\ was) /\ (game.up => game.uses = "old")
    BY <2>0 DEF Reported, AsFound, Placed, AsBefore
  <2>4. report = "rollback_failed" => AsBefore \/ kit.dir = "whole"  BY <2>0 DEF Kept
  <2>5. QED BY <2>1, <2>2, <2>3, <2>4 DEF SmapiOutcome
<1>2. QED BY SmapiInvariant, <1>1, PTL

-----------------------------------------------------------------------------
(* The installation and the two updates, in one run (MCRuntimeUpdate)       *)

\* The run lets one of them move and the others rest, so that each behaves as its module says, but
\* for the fairness of the Junimo update, which is that of its own steps; its invariant needs none.
THEOREM UpdatesCompose == UpdatesSpec => Init /\ [][Next]_vars /\ SmapiSpec /\ InstallerSpec
<1> DEFINE all == <<focus, vars, smapiVars, installerVars>>
<1>1. UpdatesInit => Init /\ SmapiInit /\ InstallerInit  BY DEF UpdatesInit
<1>2. [UpdatesNext]_all => [Next]_vars  BY DEF UpdatesNext, JunimoMoves
<1>3. [UpdatesNext]_all => [SmapiNext]_smapiVars  BY DEF UpdatesNext, JunimoMoves
<1>4. [UpdatesNext]_all => [InstallerNext]_installerVars  BY DEF UpdatesNext, JunimoMoves
<1> QED BY <1>1, <1>2, <1>3, <1>4, PTL DEF UpdatesSpec, SmapiSpec, InstallerSpec

\* Every variable has its type in the run of them all, those of what moves and those of what rests.
THEOREM UpdatesTypes == UpdatesSpec => []UpdatesTypeOK
<1>1. Init /\ [][Next]_vars => []TypeOK
  <2>1. UpdateInv /\ [Next]_vars => UpdateInv'  BY UpdateStep, UpdateRests
  <2>2. UpdateInv => TypeOK  BY DEF UpdateInv
  <2> QED BY UpdateStarts, <2>1, <2>2, PTL
<1>2. TypeOK /\ SmapiTypeOK /\ InstallerTypeOK => UpdatesTypeOK  BY DEF UpdatesTypeOK
<1> QED BY <1>1, <1>2, UpdatesCompose, SmapiUpdateTypes, InstallTypes, PTL
==========================================================================
