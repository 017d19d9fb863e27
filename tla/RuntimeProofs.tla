-------------------------- MODULE RuntimeProofs --------------------------
(***************************************************************************)
(* Proofs about the updates of the runtime, with their rollbacks and       *)
(* repairs, for any number of faults and stops.  The invariant says what   *)
(* an apply has done when it comes to a step, what a job knows, and that   *)
(* whatever differs from the original is named by the manifest a boot or a *)
(* repair reads.                                                           *)
(***************************************************************************)
EXTENDS RuntimeUpdate, TLAPS

\* Nothing of the target is in place, and nothing is missing or half replaced.
AsWas ==
    /\ env # "target" /\ control # "mixed" /\ mods.active # "target" /\ mods.backup = "none"
    /\ server # "target" /\ auth # "target" /\ session # "used"

\* What the world may differ in where a manifest says m: what it does not name is as
\* it was, and the original Junimo mod is in use or set aside.
OnlyWhat(m) ==
    /\ ~m.mutated => ~m.control /\ ~m.mod /\ ~m.auth /\ AsWas
    /\ ~m.control => control # "mixed"
    /\ m.saved # "mixed"
    /\ m.mod /\ m.modWas => mods.backup \in {"none", "orig"}
    /\ ~(m.mod /\ m.modWas) => mods.backup = "none"
    /\ (~m.mod \/ (m.modWas /\ mods.backup = "none")) => mods.active # "target"
    /\ auth = "target" \/ session = "used" => m.auth
    /\ m.auth => need.auth /\ m.cloned

\* The steps of an apply: without materials, before the first change that is more
\* than a stop, and after each of the changes.
Unbegun   == {"prepare", "backup", "retry"}
Untouched == {"reload", "stopphase", "stopintent", "stop", "controlintent"}
BeforeMod == {"control", "snapintent", "snapcreate", "snapclone", "snapdone", "configphase", "modintent"}
LastSteps   == {"restore", "clean", "images", "finish"}
Verified  == {"serverphase", "serverintent", "serverup"} \cup LastSteps
Written   == {"authphase", "authintent", "authup"} \cup Verified
Modded    == {"env"} \cup Written
Forwarding   == Untouched \cup BeforeMod \cup {"modout", "modin"} \cup Modded
\* Those of a rollback: what it has still to do, and what is behind it.
Restoring == {"undo", "ustop", "uenv", "umod", "umodback", "ucontrol", "ufix", "upin", "usession"}
AfterUndo  == {"ukeep", "uauth", "userver", "urun", "unpin", "udone"}
Rolling   == Restoring \cup AfterUndo \cup {"ufail"}
BootSteps == {"undo", "ustop", "uenv", "umod", "umodback", "ucontrol", "usession", "ukeep",
              "ufail", "udone", "uclean", "discard"}

\* Who runs, and what the status says meanwhile.
WhoRuns ==
    /\ ~panel => pc = "idle"
    /\ pc = "idle" <=> mode = "none"
    /\ need.auth => need.uses
    /\ mode = "boot" => pc \in BootSteps
    /\ pc \notin {"idle", "discard", "uclean"} => InFlight
    /\ pc = "discard" => status.phase \in Final
    /\ pc = "uclean" => status.phase = "rolled_back"

\* What an apply has done when it comes to a step, whatever came before it.
Applied ==
    /\ pc \in Forwarding \ (Untouched \cup {"control"}) => control = "target"
    /\ pc \in Modded => mods.active # "none" /\ (need.server => mods.active = "target")
    /\ pc \in Written => env = "target"
    /\ pc \in Verified => (need.auth => auth # "orig")
    /\ pc \in LastSteps => server # "orig"

\* What disk and Docker hold is what the manifest, or an unchanged world, accounts for.
Recorded ==
    /\ status.phase \in {"none", "rolled_back"} => AsWas
    /\ status.phase \notin Final \cup {"none"} => IF man.dir = "whole" THEN OnlyWhat(man) ELSE AsWas

\* What a running job knows, and what it has put in place or back.
Knowing ==
    /\ pc \in Unbegun => man.dir = "no"
    /\ pc \in Forwarding \cup Rolling => man.dir = "whole"
    /\ pc \in Forwarding => mem = man
    /\ pc \in Unbegun \cup Untouched => AsWas
    /\ pc \in Forwarding \ Untouched => mem.mutated /\ mem.control
    /\ pc \in Untouched \cup BeforeMod => ~mem.mod
    /\ pc \in BeforeMod \cup {"modout"} => mods.active # "target" /\ mods.backup = "none"
    /\ pc = "modout" => mem.mod /\ mem.modWas = (mods.active # "none")
    /\ pc = "modin" => mem.mod /\ mods.active = "none" /\ mods.backup = (IF mem.modWas THEN "orig" ELSE "none")
    /\ pc \in {"configphase", "modintent", "modout", "modin"} \cup Modded /\ need.auth => mem.cloned
    /\ pc \in {"snapintent", "snapcreate", "snapclone", "snapdone"} => need.auth
    /\ pc \in {"authup"} \cup Verified /\ need.auth => mem.auth
    /\ pc \in Rolling /\ mem.control => man.control
    /\ pc \in Restoring => OnlyWhat(mem)
    /\ pc = "umod" => mem.mod
    /\ pc = "ucontrol" => mem.control
    /\ pc = "umodback" => mem.modWas /\ mem.mod /\ mods.backup = "orig" /\ mods.active = "none"
    /\ pc \in Restoring \ {"undo", "ustop"} => server # "target" /\ auth # "target"
    /\ pc \in Restoring \ {"undo", "ustop", "uenv"} => env # "target"
    /\ pc \in {"ucontrol", "ufix", "upin", "usession"} => mods.active # "target" /\ mods.backup = "none"
    /\ pc \in {"ufix", "upin", "usession"} => control # "mixed"
    /\ pc \in AfterUndo \cup {"rclean", "rdir"} => AsWas

UpdateInv == TypeOK /\ WhoRuns /\ Applied /\ SucceededIsTarget /\ (unrecorded \/ (Recorded /\ Knowing))

\* The part of the type invariant that is neither a manifest, the status nor a bound.
WorldTyped ==
    /\ need \in [uses: BOOLEAN, auth: BOOLEAN, server: BOOLEAN]
    /\ pc \in PCs
    /\ mode \in {"none", "apply", "boot", "repair"}
    /\ env \in {"orig", "target", "pinned"} /\ control \in {"orig", "mixed", "target"}
    /\ mods \in [active: {"none", "orig", "target"}, backup: {"none", "orig", "target"},
                 aside: {"none", "orig", "target"}]
    /\ server \in Containers /\ auth \in Containers
    /\ session \in {"orig", "used", "lost"} /\ snapshot \in {"none", "empty", "full"}
    /\ images \subseteq {"server", "auth"}
    /\ db \in BOOLEAN /\ asked \in {"no", "up", "down"}
    /\ checked \in BOOLEAN /\ panel \in BOOLEAN /\ unrecorded \in BOOLEAN

LEMMA NoManifestTyped == NoManifest \in Manifest
BY DEF NoManifest, Manifest

LEMMA UpdateStep == UpdateInv /\ Next => UpdateInv'
<1> USE DEF TypeOK, WorldTyped, Early, Final, Terminal, WhoRuns, InFlight, Applied
<1> SUFFICES ASSUME UpdateInv, Next PROVE UpdateInv'
  OBVIOUS
<1> USE DEF Unbegun, Untouched, BeforeMod, LastSteps, Verified, Written, Modded, Forwarding, Restoring,
   AfterUndo, Rolling, BootSteps
<1>0. TypeOK /\ WhoRuns /\ Applied /\ SucceededIsTarget /\ (~unrecorded => Recorded /\ Knowing)
  BY DEF UpdateInv
<1>1. CASE Prepare
  <2> USE DEF Prepare, Ok, Finish, files, docker, rest, old, volumes, Fail, Phase, Goto, NoManifest
  <2>1. TypeOK'
    <3>1. WorldTyped'  BY <1>1, <1>0 DEF PCs, Phases, Containers
    <3>2. (mem \in Manifest)'
      <4>1. mem' = mem \/ mem' = NoManifest
        BY <1>1, <1>0 DEF Prepare, Ok, Finish, files, docker, rest, old, volumes, Fail, Phase, Goto, NoManifest
      <4>9. QED BY <1>0, <4>1, NoManifestTyped
    <3>3. (status \in [phase: Phases, attempts: 0..RepairLimit, was: BOOLEAN])'
      BY <1>1, <1>0, RepairAssumption, BoundsAssumption DEF Phases
    <3>4. (man \in Manifest)'  BY <1>1, <1>0, RepairAssumption, BoundsAssumption DEF Manifest
    <3>5. (faults \in 0..MaxFaults /\ crashes \in 0..MaxCrashes)'
      BY <1>1, <1>0, RepairAssumption, BoundsAssumption
    <3>6. QED BY <3>1, <3>2, <3>3, <3>4, <3>5
  <2>2. WhoRuns'  BY <1>1, <1>0 DEF Phases
  <2>3. Applied'  BY <1>1, <1>0 DEF Containers
  <2>4. SucceededIsTarget'  BY <1>1, <1>0 DEF SucceededIsTarget, Containers
  <2>5. ASSUME ~unrecorded' PROVE Recorded' /\ Knowing'
    <3>u. ~unrecorded  BY <1>1, <1>0, <2>5
    <3>v. Recorded /\ Knowing  BY <1>0, <3>u
    <3>1. Recorded'  BY <1>1, <1>0, <2>5, <3>u, <3>v DEF Recorded, Knowing, AsWas, OnlyWhat
    <3>2. Knowing'  BY <1>1, <1>0, <2>5, <3>u, <3>v DEF Recorded, Knowing, AsWas, OnlyWhat
    <3>3. QED BY <3>1, <3>2
  <2>6. QED BY <2>1, <2>2, <2>3, <2>4, <2>5 DEF UpdateInv
<1>2. CASE Backup
  <2> USE DEF Backup, NoManifest, Goto, Finish, files, docker, rest, old, volumes, Fail, Phase
  <2>1. TypeOK'
    <3>1. WorldTyped'  BY <1>2, <1>0 DEF PCs, Phases, Containers
    <3>2. (mem \in Manifest)'
      <4>1. mem' = mem \/ mem' = NoManifest \/ mem' = [NoManifest EXCEPT !.dir = "whole", !.saved = control, !.authWas = (auth # "down")]
        BY <1>2, <1>0 DEF Backup, NoManifest, Goto, Finish, files, docker, rest, old, volumes, Fail, Phase
      <4>2. [NoManifest EXCEPT !.dir = "whole", !.saved = control, !.authWas = (auth # "down")] \in Manifest
        <5>1. (auth # "down") \in BOOLEAN /\ control \in {"orig", "mixed", "target"}  BY <1>0
        <5>2. \A b \in BOOLEAN, c \in {"orig", "mixed", "target"} :
                 [NoManifest EXCEPT !.dir = "whole", !.saved = c, !.authWas = b] \in Manifest
          BY DEF Manifest, NoManifest
        <5>3. QED BY <5>1, <5>2
      <4>9. QED BY <1>0, <4>1, NoManifestTyped, <4>2
    <3>3. (status \in [phase: Phases, attempts: 0..RepairLimit, was: BOOLEAN])'
      BY <1>2, <1>0, RepairAssumption, BoundsAssumption DEF Phases
    <3>4. (man \in Manifest)'
      <4>1. man' = man \/ man' = NoManifest \/ man' = [NoManifest EXCEPT !.dir = "whole", !.saved = control, !.authWas = (auth # "down")]
        BY <1>2, <1>0 DEF Backup, NoManifest, Goto, Finish, files, docker, rest, old, volumes, Fail, Phase
      <4>2. [NoManifest EXCEPT !.dir = "whole", !.saved = control, !.authWas = (auth # "down")] \in Manifest
        <5>1. (auth # "down") \in BOOLEAN /\ control \in {"orig", "mixed", "target"}  BY <1>0
        <5>2. \A b \in BOOLEAN, c \in {"orig", "mixed", "target"} :
                 [NoManifest EXCEPT !.dir = "whole", !.saved = c, !.authWas = b] \in Manifest
          BY DEF Manifest, NoManifest
        <5>3. QED BY <5>1, <5>2
      <4>9. QED BY <1>0, <4>1, NoManifestTyped, <4>2
    <3>5. (faults \in 0..MaxFaults /\ crashes \in 0..MaxCrashes)'
      BY <1>2, <1>0, RepairAssumption, BoundsAssumption
    <3>6. QED BY <3>1, <3>2, <3>3, <3>4, <3>5
  <2>2. WhoRuns'  BY <1>2, <1>0 DEF Phases
  <2>3. Applied'  BY <1>2, <1>0 DEF Containers
  <2>4. SucceededIsTarget'  BY <1>2, <1>0 DEF SucceededIsTarget, Containers
  <2>5. ASSUME ~unrecorded' PROVE Recorded' /\ Knowing'
    <3>u. ~unrecorded
      BY <1>2, <1>0, <2>5 DEF Backup, NoManifest, Goto, Finish, files, docker, rest, old, volumes, Fail, Phase
    <3>v. Recorded /\ Knowing  BY <1>0, <3>u
    <3>1. /\ pc = "backup" /\ man.dir = "no" /\ AsWas /\ status.phase \notin Final \cup {"none"}
      BY <1>2, <1>0, <3>v DEF Recorded, Knowing, Unbegun, Untouched, BeforeMod, LastSteps, Verified, Written,
         Modded, Forwarding, Restoring, AfterUndo, Rolling, BootSteps, Backup
    <3>2. /\ UNCHANGED <<env, control, mods, server, auth, session, need>>
          /\ \/ pc' = "reload" /\ status' = status /\ man' = mem' /\ mem' = [NoManifest EXCEPT !.dir = "whole", !.saved = control, !.authWas = (auth # "down")]
             \/ pc' = "idle" /\ (man' = man \/ man' = [NoManifest EXCEPT !.dir = "whole", !.saved = control, !.authWas = (auth # "down")]) /\ (status' = status \/ status'.phase = "rolled_back")
      BY <1>2, <1>0 DEF Backup, NoManifest, Goto, Finish, files, docker, rest, old, volumes, Fail, Phase
    <3>3. AsWas'  BY <3>1, <3>2 DEF AsWas
    <3>4. man'.dir = "whole" => man' = [NoManifest EXCEPT !.dir = "whole", !.saved = control, !.authWas = (auth # "down")]
      BY <3>1, <3>2
    <3>5. man'.dir = "whole" => ~man'.mutated /\ ~man'.control /\ ~man'.mod /\ ~man'.auth /\ ~man'.modWas /\ man'.saved = control
      BY <3>4 DEF NoManifest
    <3>6. man'.dir = "whole" => OnlyWhat(man)'  BY <3>1, <3>2, <3>3, <3>5 DEF OnlyWhat, AsWas
    <3>7. pc' = "reload" => man'.dir = "whole" /\ ~mem'.control /\ ~mem'.mod
      BY <3>2 DEF NoManifest
    <3>8. Recorded'  BY <3>3, <3>6 DEF Recorded
    <3>9. QED
      BY <3>2, <3>3, <3>7, <3>8 DEF Knowing, Unbegun, Untouched, BeforeMod, LastSteps, Verified,
         Written, Modded, Forwarding, Restoring, AfterUndo, Rolling, BootSteps
  <2>6. QED BY <2>1, <2>2, <2>3, <2>4, <2>5 DEF UpdateInv
<1>3. CASE Reload
  <2> USE DEF Reload, Ok, StopsServer, StopsAuth, journal, Finish, Forget, docker, rest, old,
     volumes, NoManifest, Fail, Phase, Goto
  <2>1. TypeOK'
    <3>1. /\ (need \in [uses: BOOLEAN, auth: BOOLEAN, server: BOOLEAN])'
          /\ (env \in {"orig", "target", "pinned"} /\ control \in {"orig", "mixed", "target"})'
          /\ (session \in {"orig", "used", "lost"} /\ snapshot \in {"none", "empty", "full"})'
          /\ (images \subseteq {"server", "auth"})'
          /\ (db \in BOOLEAN /\ asked \in {"no", "up", "down"})'
      BY <1>3, <1>0 DEF PCs, Phases, Containers
    <3>2. (pc \in PCs)'  BY <1>3, <1>0, RepairAssumption, BoundsAssumption DEF PCs
    <3>3. (mode \in {"none", "apply", "boot", "repair"})'
      BY <1>3, <1>0, RepairAssumption, BoundsAssumption
    <3>4. (mem \in Manifest)'
      <4>1. mem' = mem \/ mem' = NoManifest
        BY <1>3, <1>0 DEF Reload, Ok, StopsServer, StopsAuth, journal, Finish, Forget, docker, rest, old, volumes,
           NoManifest, Fail, Phase, Goto
      <4>9. QED BY <1>0, <4>1, NoManifestTyped
    <3>5. (status \in [phase: Phases, attempts: 0..RepairLimit, was: BOOLEAN])'
      BY <1>3, <1>0, RepairAssumption, BoundsAssumption DEF Phases
    <3>6. (man \in Manifest)'
      <4>1. man' = man \/ man' = NoManifest
        BY <1>3, <1>0 DEF Reload, Ok, StopsServer, StopsAuth, journal, Finish, Forget, docker, rest, old, volumes,
           NoManifest, Fail, Phase, Goto
      <4>9. QED BY <1>0, <4>1, NoManifestTyped
    <3>7. (mods \in [active: {"none", "orig", "target"}, backup: {"none", "orig", "target"}, aside: {"none", "orig", "target"}])'
      BY <1>3, <1>0, RepairAssumption, BoundsAssumption
    <3>8. (server \in Containers /\ auth \in Containers)'
      BY <1>3, <1>0, RepairAssumption, BoundsAssumption DEF Containers
    <3>9. (checked \in BOOLEAN /\ panel \in BOOLEAN /\ unrecorded \in BOOLEAN)'
      BY <1>3, <1>0, RepairAssumption, BoundsAssumption
    <3>10. (faults \in 0..MaxFaults /\ crashes \in 0..MaxCrashes)'
      BY <1>3, <1>0, RepairAssumption, BoundsAssumption
    <3>11. QED BY <3>1, <3>2, <3>3, <3>4, <3>5, <3>6, <3>7, <3>8, <3>9, <3>10
  <2>2. WhoRuns'  BY <1>3, <1>0 DEF Phases
  <2>3. Applied'  BY <1>3, <1>0 DEF Containers
  <2>4. SucceededIsTarget'  BY <1>3, <1>0 DEF SucceededIsTarget, Containers
  <2>5. ASSUME ~unrecorded' PROVE Recorded' /\ Knowing'
    <3>u. ~unrecorded  BY <1>3, <1>0, <2>5
    <3>v. Recorded /\ Knowing  BY <1>0, <3>u
    <3>1. Recorded'
      BY ZenonT(60), <1>3, <1>0, <2>5, <3>u, <3>v DEF Recorded, Knowing, AsWas, OnlyWhat
    <3>2. Knowing'  BY <1>3, <1>0, <2>5, <3>u, <3>v DEF Recorded, Knowing, AsWas, OnlyWhat
    <3>3. QED BY <3>1, <3>2
  <2>6. QED BY <2>1, <2>2, <2>3, <2>4, <2>5 DEF UpdateInv
<1>4. CASE StopPhase
  <2> USE DEF StopPhase, Announce, Ok, Phase, Fail, files, docker, rest, old, volumes, Goto,
     NoManifest
  <2>1. TypeOK'
    <3>1. WorldTyped'  BY <1>4, <1>0 DEF PCs, Phases, Containers
    <3>2. (mem \in Manifest)'
      <4>1. mem' = mem \/ mem' = NoManifest
        BY <1>4, <1>0 DEF StopPhase, Announce, Ok, Phase, Fail, files, docker, rest, old, volumes, Goto, NoManifest
      <4>9. QED BY <1>0, <4>1, NoManifestTyped
    <3>3. (status \in [phase: Phases, attempts: 0..RepairLimit, was: BOOLEAN])'
      BY <1>4, <1>0, RepairAssumption, BoundsAssumption DEF Phases
    <3>4. (man \in Manifest)'  BY <1>4, <1>0, RepairAssumption, BoundsAssumption DEF Manifest
    <3>5. (faults \in 0..MaxFaults /\ crashes \in 0..MaxCrashes)'
      BY <1>4, <1>0, RepairAssumption, BoundsAssumption
    <3>6. QED BY <3>1, <3>2, <3>3, <3>4, <3>5
  <2>2. WhoRuns'  BY <1>4, <1>0 DEF Phases
  <2>3. Applied'  BY <1>4, <1>0 DEF Containers
  <2>4. SucceededIsTarget'  BY <1>4, <1>0 DEF SucceededIsTarget, Containers
  <2>5. ASSUME ~unrecorded' PROVE Recorded' /\ Knowing'
    <3>u. ~unrecorded  BY <1>4, <1>0, <2>5
    <3>v. Recorded /\ Knowing  BY <1>0, <3>u
    <3>1. Recorded'  BY <1>4, <1>0, <2>5, <3>u, <3>v DEF Recorded, Knowing, AsWas, OnlyWhat
    <3>2. Knowing'  BY <1>4, <1>0, <2>5, <3>u, <3>v DEF Recorded, Knowing, AsWas, OnlyWhat
    <3>3. QED BY <3>1, <3>2
  <2>6. QED BY <2>1, <2>2, <2>3, <2>4, <2>5 DEF UpdateInv
<1>5. CASE StopIntent
  <2> USE DEF StopIntent, Goto, Finish, Forget, docker, rest, old, volumes, NoManifest, Fail, Phase
  <2>1. TypeOK'
    <3>1. /\ (need \in [uses: BOOLEAN, auth: BOOLEAN, server: BOOLEAN])'
          /\ (env \in {"orig", "target", "pinned"} /\ control \in {"orig", "mixed", "target"})'
          /\ (session \in {"orig", "used", "lost"} /\ snapshot \in {"none", "empty", "full"})'
          /\ (images \subseteq {"server", "auth"})'
          /\ (db \in BOOLEAN /\ asked \in {"no", "up", "down"})'
      BY <1>5, <1>0 DEF PCs, Phases, Containers
    <3>2. (pc \in PCs)'  BY <1>5, <1>0, RepairAssumption, BoundsAssumption DEF PCs
    <3>3. (mode \in {"none", "apply", "boot", "repair"})'
      BY <1>5, <1>0, RepairAssumption, BoundsAssumption
    <3>4. (mem \in Manifest)'
      <4>1. mem' = mem \/ mem' = NoManifest \/ mem' = [mem EXCEPT !.mutated = TRUE]
        BY <1>5, <1>0 DEF StopIntent, Goto, Finish, Forget, docker, rest, old, volumes, NoManifest, Fail, Phase
      <4>2. [mem EXCEPT !.mutated = TRUE] \in Manifest
        BY <1>0, NoManifestTyped DEF Manifest, NoManifest
      <4>9. QED BY <1>0, <4>1, NoManifestTyped, <4>2
    <3>5. (status \in [phase: Phases, attempts: 0..RepairLimit, was: BOOLEAN])'
      BY <1>5, <1>0, RepairAssumption, BoundsAssumption DEF Phases
    <3>6. (man \in Manifest)'
      <4>1. man' = man \/ man' = NoManifest \/ man' = [mem EXCEPT !.mutated = TRUE]
        BY <1>5, <1>0 DEF StopIntent, Goto, Finish, Forget, docker, rest, old, volumes, NoManifest, Fail, Phase
      <4>2. [mem EXCEPT !.mutated = TRUE] \in Manifest
        BY <1>0, NoManifestTyped DEF Manifest, NoManifest
      <4>9. QED BY <1>0, <4>1, NoManifestTyped, <4>2
    <3>7. (mods \in [active: {"none", "orig", "target"}, backup: {"none", "orig", "target"}, aside: {"none", "orig", "target"}])'
      BY <1>5, <1>0, RepairAssumption, BoundsAssumption
    <3>8. (server \in Containers /\ auth \in Containers)'
      BY <1>5, <1>0, RepairAssumption, BoundsAssumption DEF Containers
    <3>9. (checked \in BOOLEAN /\ panel \in BOOLEAN /\ unrecorded \in BOOLEAN)'
      BY <1>5, <1>0, RepairAssumption, BoundsAssumption
    <3>10. (faults \in 0..MaxFaults /\ crashes \in 0..MaxCrashes)'
      BY <1>5, <1>0, RepairAssumption, BoundsAssumption
    <3>11. QED BY <3>1, <3>2, <3>3, <3>4, <3>5, <3>6, <3>7, <3>8, <3>9, <3>10
  <2>2. WhoRuns'  BY <1>5, <1>0 DEF Phases
  <2>3. Applied'  BY <1>5, <1>0 DEF Containers
  <2>4. SucceededIsTarget'  BY <1>5, <1>0 DEF SucceededIsTarget, Containers
  <2>5. ASSUME ~unrecorded' PROVE Recorded' /\ Knowing'
    <3>u. ~unrecorded
      BY <1>5, <1>0, <2>5 DEF StopIntent, Goto, Finish, Forget, docker, rest, old, volumes, NoManifest, Fail, Phase
    <3>v. Recorded /\ Knowing  BY <1>0, <3>u
    <3>1. /\ pc = "stopintent" /\ man.dir = "whole" /\ mem = man /\ OnlyWhat(man) /\ status.phase \notin Final \cup {"none"} /\ AsWas /\ ~mem.mod
      BY <1>5, <1>0, <3>v DEF Recorded, Knowing, Unbegun, Untouched, BeforeMod, LastSteps, Verified, Written,
         Modded, Forwarding, Restoring, AfterUndo, Rolling, BootSteps, StopIntent
    <3>2. /\ UNCHANGED <<env, control, server, auth, session, need>>
          /\ mods'.active = mods.active /\ mods'.backup \in {"none", mods.backup}
          /\ \/ pc' = "stop" /\ man' = mem' /\ status' = status /\ mem' = [mem EXCEPT !.mutated = TRUE]
             \/ pc' = "idle" /\ man' = NoManifest /\ (status' = status \/ status'.phase = "rolled_back")
      BY <1>5, <1>0 DEF StopIntent, Goto, Finish, Forget, docker, rest, old, volumes, NoManifest, Fail, Phase
    <3>3. AsWas'  BY <3>1, <3>2 DEF AsWas
    <3>4. CASE pc' = "stop"
      <4>1. man' = mem' /\ mem'.dir = "whole" /\ mem'.control = mem.control /\ mem'.snap = mem.snap /\ mem'.cloned = mem.cloned /\ mem'.mod = mem.mod /\ mem'.modWas = mem.modWas /\ mem'.auth = mem.auth /\ mem'.saved = mem.saved /\ mem'.mutated
        BY <1>0, <3>1, <3>2, <3>4 DEF Manifest
      <4>2. OnlyWhat(man)'  BY <3>1, <3>2, <3>3, <4>1 DEF OnlyWhat, AsWas
      <4>3. QED
        BY <3>1, <3>2, <3>3, <3>4, <4>1, <4>2 DEF Recorded, Knowing, Unbegun, Untouched, BeforeMod, LastSteps,
           Verified, Written, Modded, Forwarding, Restoring, AfterUndo, Rolling, BootSteps
    <3>5. CASE pc' = "idle"
      BY <3>2, <3>3, <3>5 DEF Recorded, Knowing, NoManifest, Unbegun, Untouched, BeforeMod, LastSteps, Verified,
         Written, Modded, Forwarding, Restoring, AfterUndo, Rolling, BootSteps
    <3>6. QED BY <3>2, <3>4, <3>5
  <2>6. QED BY <2>1, <2>2, <2>3, <2>4, <2>5 DEF UpdateInv
<1>6. CASE StopOld
  <2> USE DEF StopOld, Stop, StopsServer, StopsAuth, journal, files, volumes, old, Ok, Fail, Goto,
     NoManifest
  <2>1. TypeOK'
    <3>1. /\ (need \in [uses: BOOLEAN, auth: BOOLEAN, server: BOOLEAN])'
          /\ (env \in {"orig", "target", "pinned"} /\ control \in {"orig", "mixed", "target"})'
          /\ (session \in {"orig", "used", "lost"} /\ snapshot \in {"none", "empty", "full"})'
          /\ (images \subseteq {"server", "auth"})'
          /\ (db \in BOOLEAN /\ asked \in {"no", "up", "down"})'
      BY ZenonT(60), <1>6, <1>0 DEF PCs, Phases, Containers
    <3>2. (pc \in PCs)'  BY <1>6, <1>0, RepairAssumption, BoundsAssumption DEF PCs
    <3>3. (mode \in {"none", "apply", "boot", "repair"})'
      BY <1>6, <1>0, RepairAssumption, BoundsAssumption
    <3>4. (mem \in Manifest)'  BY <1>6, <1>0, RepairAssumption, BoundsAssumption DEF Manifest
    <3>5. (status \in [phase: Phases, attempts: 0..RepairLimit, was: BOOLEAN])'
      BY <1>6, <1>0, RepairAssumption, BoundsAssumption DEF Phases
    <3>6. (man \in Manifest)'  BY <1>6, <1>0, RepairAssumption, BoundsAssumption DEF Manifest
    <3>7. (mods \in [active: {"none", "orig", "target"}, backup: {"none", "orig", "target"}, aside: {"none", "orig", "target"}])'
      BY <1>6, <1>0, RepairAssumption, BoundsAssumption
    <3>8. (server \in Containers /\ auth \in Containers)'
      BY <1>6, <1>0, RepairAssumption, BoundsAssumption DEF Containers
    <3>9. (checked \in BOOLEAN /\ panel \in BOOLEAN /\ unrecorded \in BOOLEAN)'
      BY <1>6, <1>0, RepairAssumption, BoundsAssumption
    <3>10. (faults \in 0..MaxFaults /\ crashes \in 0..MaxCrashes)'
      BY <1>6, <1>0, RepairAssumption, BoundsAssumption
    <3>11. QED BY <3>1, <3>2, <3>3, <3>4, <3>5, <3>6, <3>7, <3>8, <3>9, <3>10
  <2>2. WhoRuns'  BY <1>6, <1>0 DEF Phases
  <2>3. Applied'  BY <1>6, <1>0 DEF Containers
  <2>4. SucceededIsTarget'  BY <1>6, <1>0 DEF SucceededIsTarget, Containers
  <2>5. ASSUME ~unrecorded' PROVE Recorded' /\ Knowing'
    <3>u. ~unrecorded  BY <1>6, <1>0, <2>5
    <3>v. Recorded /\ Knowing  BY <1>0, <3>u
    <3>1. Recorded'  BY <1>6, <1>0, <2>5, <3>u, <3>v DEF Recorded, Knowing, AsWas, OnlyWhat
    <3>2. Knowing'  BY <1>6, <1>0, <2>5, <3>u, <3>v DEF Recorded, Knowing, AsWas, OnlyWhat
    <3>3. QED BY <3>1, <3>2
  <2>6. QED BY <2>1, <2>2, <2>3, <2>4, <2>5 DEF UpdateInv
<1>7. CASE ControlIntent
  <2> USE DEF ControlIntent, Intend, Record, files, docker, volumes, Goto, NoManifest
  <2>1. TypeOK'
    <3>1. WorldTyped'  BY <1>7, <1>0 DEF PCs, Phases, Containers
    <3>2. (mem \in Manifest)'
      <4> HIDE DEF Early, Final, Terminal, WhoRuns, InFlight, Applied
      <4> QED BY ZenonT(60), <1>7, <1>0, RepairAssumption, BoundsAssumption DEF TypeOK, Manifest
    <3>3. (status \in [phase: Phases, attempts: 0..RepairLimit, was: BOOLEAN])'
      BY <1>7, <1>0, RepairAssumption, BoundsAssumption DEF Phases
    <3>4. (man \in Manifest)'
      BY ZenonT(60), <1>7, <1>0, RepairAssumption, BoundsAssumption DEF Manifest
    <3>5. (faults \in 0..MaxFaults /\ crashes \in 0..MaxCrashes)'
      BY <1>7, <1>0, RepairAssumption, BoundsAssumption
    <3>6. QED BY <3>1, <3>2, <3>3, <3>4, <3>5
  <2>2. WhoRuns'  BY <1>7, <1>0 DEF Phases
  <2>3. Applied'  BY <1>7, <1>0 DEF Containers
  <2>4. SucceededIsTarget'  BY <1>7, <1>0 DEF SucceededIsTarget, Containers
  <2>5. ASSUME ~unrecorded' PROVE Recorded' /\ Knowing'
    <3>u. ~unrecorded
      BY <1>7, <1>0, <2>5 DEF ControlIntent, Intend, Record, files, docker, volumes, Goto, NoManifest
    <3>v. Recorded /\ Knowing  BY <1>0, <3>u
    <3>1. /\ pc = "controlintent" /\ man.dir = "whole" /\ mem = man /\ OnlyWhat(man) /\ status.phase \notin Final \cup {"none"} /\ AsWas /\ ~mem.mod
      BY <1>7, <1>0, <3>v DEF Recorded, Knowing, Unbegun, Untouched, BeforeMod, LastSteps, Verified, Written,
         Modded, Forwarding, Restoring, AfterUndo, Rolling, BootSteps, ControlIntent, Intend, Record, files, docker,
         volumes, Goto, NoManifest
    <3>2. mem'.dir = mem.dir /\ mem'.mutated = TRUE /\ mem'.control = TRUE /\ mem'.snap = mem.snap /\ mem'.cloned = mem.cloned /\ mem'.mod = mem.mod /\ mem'.modWas = mem.modWas /\ mem'.auth = mem.auth /\ mem'.saved = mem.saved
      <4> HIDE DEF Early, Final, Terminal, WhoRuns, InFlight, Applied
      <4> QED BY <1>7, <1>0 DEF TypeOK, Manifest, ControlIntent, Intend, Record, files, docker, volumes, Goto,
          NoManifest
    <3>3. /\ UNCHANGED <<env, control, mods, server, auth, session, need, status>>
          /\ (pc' = "control" /\ man' = mem') \/ (pc' = "undo" /\ man' = man /\ (unrecorded' \/ man.control))
      BY <1>7 DEF ControlIntent, Intend, Record, files, docker, volumes, Goto, NoManifest
    <3>4. OnlyWhat(mem)'  BY <3>1, <3>2, <3>3 DEF OnlyWhat, AsWas
    <3>5. OnlyWhat(man)' /\ man'.dir = "whole"  BY <3>1, <3>2, <3>3, <3>4 DEF OnlyWhat, AsWas
    <3>6. Recorded'  BY <3>1, <3>3, <3>5 DEF Recorded
    <3>7. Knowing'
      BY <2>5, <3>1, <3>2, <3>3, <3>4, <3>5 DEF Knowing, OnlyWhat, Unbegun, Untouched, BeforeMod,
         LastSteps, Verified, Written, Modded, Forwarding, Restoring, AfterUndo, Rolling, BootSteps
    <3>8. QED BY <3>6, <3>7
  <2>6. QED BY <2>1, <2>2, <2>3, <2>4, <2>5 DEF UpdateInv
<1>8. CASE InstallControl
  <2> USE DEF InstallControl, Ok, Fail, journal, docker, rest, old, volumes, Goto, NoManifest
  <2>1. TypeOK'
    BY <1>8, <1>0, NoManifestTyped, RepairAssumption, BoundsAssumption DEF PCs, Phases, Containers
  <2>2. WhoRuns'  BY <1>8, <1>0 DEF Phases
  <2>3. Applied'  BY <1>8, <1>0 DEF Containers
  <2>4. SucceededIsTarget'  BY <1>8, <1>0 DEF SucceededIsTarget, Containers
  <2>5. ASSUME ~unrecorded' PROVE Recorded' /\ Knowing'
    <3>u. ~unrecorded  BY <1>8, <1>0, <2>5
    <3>v. Recorded /\ Knowing  BY <1>0, <3>u
    <3>1. Recorded'  BY <1>8, <1>0, <2>5, <3>u, <3>v DEF Recorded, Knowing, AsWas, OnlyWhat
    <3>2. Knowing'  BY <1>8, <1>0, <2>5, <3>u, <3>v DEF Recorded, Knowing, AsWas, OnlyWhat
    <3>3. QED BY <3>1, <3>2
  <2>6. QED BY <2>1, <2>2, <2>3, <2>4, <2>5 DEF UpdateInv
<1>9. CASE SnapshotIntent
  <2> USE DEF SnapshotIntent, Intend, Record, files, docker, volumes, Goto, NoManifest
  <2>1. TypeOK'
    <3>1. WorldTyped'  BY <1>9, <1>0 DEF PCs, Phases, Containers
    <3>2. (mem \in Manifest)'
      <4> HIDE DEF Early, Final, Terminal, WhoRuns, InFlight, Applied
      <4> QED BY ZenonT(60), <1>9, <1>0, RepairAssumption, BoundsAssumption DEF TypeOK, Manifest
    <3>3. (status \in [phase: Phases, attempts: 0..RepairLimit, was: BOOLEAN])'
      BY <1>9, <1>0, RepairAssumption, BoundsAssumption DEF Phases
    <3>4. (man \in Manifest)'
      BY ZenonT(60), <1>9, <1>0, RepairAssumption, BoundsAssumption DEF Manifest
    <3>5. (faults \in 0..MaxFaults /\ crashes \in 0..MaxCrashes)'
      BY <1>9, <1>0, RepairAssumption, BoundsAssumption
    <3>6. QED BY <3>1, <3>2, <3>3, <3>4, <3>5
  <2>2. WhoRuns'  BY <1>9, <1>0 DEF Phases
  <2>3. Applied'  BY <1>9, <1>0 DEF Containers
  <2>4. SucceededIsTarget'  BY <1>9, <1>0 DEF SucceededIsTarget, Containers
  <2>5. ASSUME ~unrecorded' PROVE Recorded' /\ Knowing'
    <3>u. ~unrecorded
      BY <1>9, <1>0, <2>5 DEF SnapshotIntent, Intend, Record, files, docker, volumes, Goto, NoManifest
    <3>v. Recorded /\ Knowing  BY <1>0, <3>u
    <3>1. /\ pc = "snapintent" /\ man.dir = "whole" /\ mem = man /\ OnlyWhat(man) /\ status.phase \notin Final \cup {"none"}
          /\ mem.mutated /\ mem.control /\ ~mem.mod
          /\ mods.active # "target" /\ mods.backup = "none" /\ need.auth
      BY <1>9, <1>0, <3>v DEF Recorded, Knowing, Unbegun, Untouched, BeforeMod, LastSteps, Verified, Written,
         Modded, Forwarding, Restoring, AfterUndo, Rolling, BootSteps, SnapshotIntent, Intend, Record, files,
         docker, volumes, Goto, NoManifest
    <3>2. mem'.dir = mem.dir /\ mem'.mutated = mem.mutated /\ mem'.control = mem.control /\ mem'.snap = TRUE /\ mem'.cloned = mem.cloned /\ mem'.mod = mem.mod /\ mem'.modWas = mem.modWas /\ mem'.auth = mem.auth /\ mem'.saved = mem.saved
      BY <1>9, <1>0 DEF Manifest, SnapshotIntent, Intend, Record, files, docker, volumes, Goto, NoManifest
    <3>3. /\ UNCHANGED <<env, control, mods, server, auth, session, need, status>>
          /\ (pc' = "snapcreate" /\ man' = mem') \/ (pc' = "undo" /\ man' = man /\ (unrecorded' \/ man.control))
      BY <1>9 DEF SnapshotIntent, Intend, Record, files, docker, volumes, Goto, NoManifest
    <3>4. OnlyWhat(mem)'  BY <3>1, <3>2, <3>3 DEF OnlyWhat, AsWas
    <3>5. OnlyWhat(man)' /\ man'.dir = "whole"  BY <3>1, <3>2, <3>3, <3>4 DEF OnlyWhat, AsWas
    <3>6. Recorded'  BY <3>1, <3>3, <3>5 DEF Recorded
    <3>7. Knowing'
      BY <2>5, <3>1, <3>2, <3>3, <3>4, <3>5 DEF Knowing, OnlyWhat, Unbegun, Untouched, BeforeMod,
         LastSteps, Verified, Written, Modded, Forwarding, Restoring, AfterUndo, Rolling, BootSteps
    <3>8. QED BY <3>6, <3>7
  <2>6. QED BY <2>1, <2>2, <2>3, <2>4, <2>5 DEF UpdateInv
<1>10. CASE CreateSnapshot
  <2> USE DEF CreateSnapshot, Ok, Fail, journal, files, rest, old, Goto, NoManifest
  <2>1. TypeOK'
    BY <1>10, <1>0, NoManifestTyped, RepairAssumption, BoundsAssumption DEF PCs, Phases, Containers
  <2>2. WhoRuns'  BY <1>10, <1>0 DEF Phases
  <2>3. Applied'  BY <1>10, <1>0 DEF Containers
  <2>4. SucceededIsTarget'  BY <1>10, <1>0 DEF SucceededIsTarget, Containers
  <2>5. ASSUME ~unrecorded' PROVE Recorded' /\ Knowing'
    <3>u. ~unrecorded  BY <1>10, <1>0, <2>5
    <3>v. Recorded /\ Knowing  BY <1>0, <3>u
    <3>1. Recorded'  BY <1>10, <1>0, <2>5, <3>u, <3>v DEF Recorded, Knowing, AsWas, OnlyWhat
    <3>2. Knowing'  BY <1>10, <1>0, <2>5, <3>u, <3>v DEF Recorded, Knowing, AsWas, OnlyWhat
    <3>3. QED BY <3>1, <3>2
  <2>6. QED BY <2>1, <2>2, <2>3, <2>4, <2>5 DEF UpdateInv
<1>11. CASE CloneSession
  <2> USE DEF CloneSession, Ok, Fail, journal, files, rest, old, Goto, NoManifest
  <2>1. TypeOK'
    BY <1>11, <1>0, NoManifestTyped, RepairAssumption, BoundsAssumption DEF PCs, Phases, Containers
  <2>2. WhoRuns'  BY <1>11, <1>0 DEF Phases
  <2>3. Applied'  BY <1>11, <1>0 DEF Containers
  <2>4. SucceededIsTarget'  BY <1>11, <1>0 DEF SucceededIsTarget, Containers
  <2>5. ASSUME ~unrecorded' PROVE Recorded' /\ Knowing'
    <3>u. ~unrecorded  BY <1>11, <1>0, <2>5
    <3>v. Recorded /\ Knowing  BY <1>0, <3>u
    <3>1. Recorded'  BY <1>11, <1>0, <2>5, <3>u, <3>v DEF Recorded, Knowing, AsWas, OnlyWhat
    <3>2. Knowing'  BY <1>11, <1>0, <2>5, <3>u, <3>v DEF Recorded, Knowing, AsWas, OnlyWhat
    <3>3. QED BY <3>1, <3>2
  <2>6. QED BY <2>1, <2>2, <2>3, <2>4, <2>5 DEF UpdateInv
<1>12. CASE SnapshotDone
  <2> USE DEF SnapshotDone, Intend, Record, files, docker, volumes, Goto, NoManifest
  <2>1. TypeOK'
    <3>1. WorldTyped'  BY <1>12, <1>0 DEF PCs, Phases, Containers
    <3>2. (mem \in Manifest)'
      <4> HIDE DEF Early, Final, Terminal, WhoRuns, InFlight, Applied
      <4> QED BY ZenonT(60), <1>12, <1>0, RepairAssumption, BoundsAssumption DEF TypeOK, Manifest
    <3>3. (status \in [phase: Phases, attempts: 0..RepairLimit, was: BOOLEAN])'
      BY <1>12, <1>0, RepairAssumption, BoundsAssumption DEF Phases
    <3>4. (man \in Manifest)'
      BY ZenonT(60), <1>12, <1>0, RepairAssumption, BoundsAssumption DEF Manifest
    <3>5. (faults \in 0..MaxFaults /\ crashes \in 0..MaxCrashes)'
      BY <1>12, <1>0, RepairAssumption, BoundsAssumption
    <3>6. QED BY <3>1, <3>2, <3>3, <3>4, <3>5
  <2>2. WhoRuns'  BY <1>12, <1>0 DEF Phases
  <2>3. Applied'  BY <1>12, <1>0 DEF Containers
  <2>4. SucceededIsTarget'  BY <1>12, <1>0 DEF SucceededIsTarget, Containers
  <2>5. ASSUME ~unrecorded' PROVE Recorded' /\ Knowing'
    <3>u. ~unrecorded
      BY <1>12, <1>0, <2>5 DEF SnapshotDone, Intend, Record, files, docker, volumes, Goto, NoManifest
    <3>v. Recorded /\ Knowing  BY <1>0, <3>u
    <3>1. /\ pc = "snapdone" /\ man.dir = "whole" /\ mem = man /\ OnlyWhat(man) /\ status.phase \notin Final \cup {"none"}
          /\ mem.mutated /\ mem.control /\ ~mem.mod
          /\ mods.active # "target" /\ mods.backup = "none"
      BY <1>12, <1>0, <3>v DEF Recorded, Knowing, Unbegun, Untouched, BeforeMod, LastSteps, Verified, Written,
         Modded, Forwarding, Restoring, AfterUndo, Rolling, BootSteps, SnapshotDone, Intend, Record, files, docker,
         volumes, Goto, NoManifest
    <3>2. mem'.dir = mem.dir /\ mem'.mutated = mem.mutated /\ mem'.control = mem.control /\ mem'.snap = mem.snap /\ mem'.cloned = TRUE /\ mem'.mod = mem.mod /\ mem'.modWas = mem.modWas /\ mem'.auth = mem.auth /\ mem'.saved = mem.saved
      BY <1>12, <1>0 DEF Manifest, SnapshotDone, Intend, Record, files, docker, volumes, Goto, NoManifest
    <3>3. /\ UNCHANGED <<env, control, mods, server, auth, session, need, status>>
          /\ (pc' = "configphase" /\ man' = mem') \/ (pc' = "undo" /\ man' = man /\ (unrecorded' \/ man.control))
      BY <1>12 DEF SnapshotDone, Intend, Record, files, docker, volumes, Goto, NoManifest
    <3>4. OnlyWhat(mem)'  BY <3>1, <3>2, <3>3 DEF OnlyWhat, AsWas
    <3>5. OnlyWhat(man)' /\ man'.dir = "whole"  BY <3>1, <3>2, <3>3, <3>4 DEF OnlyWhat, AsWas
    <3>6. Recorded'  BY <3>1, <3>3, <3>5 DEF Recorded
    <3>7. Knowing'
      BY <2>5, <3>1, <3>2, <3>3, <3>4, <3>5 DEF Knowing, OnlyWhat, Unbegun, Untouched, BeforeMod,
         LastSteps, Verified, Written, Modded, Forwarding, Restoring, AfterUndo, Rolling, BootSteps
    <3>8. QED BY <3>6, <3>7
  <2>6. QED BY <2>1, <2>2, <2>3, <2>4, <2>5 DEF UpdateInv
<1>13. CASE ConfigPhase
  <2> USE DEF ConfigPhase, Announce, Ok, Phase, Fail, files, docker, rest, old, volumes, Goto,
     NoManifest
  <2>1. TypeOK'
    <3>1. WorldTyped'  BY <1>13, <1>0 DEF PCs, Phases, Containers
    <3>2. (mem \in Manifest)'
      <4>1. mem' = mem \/ mem' = NoManifest
        BY <1>13, <1>0 DEF ConfigPhase, Announce, Ok, Phase, Fail, files, docker, rest, old, volumes, Goto,
           NoManifest
      <4>9. QED BY <1>0, <4>1, NoManifestTyped
    <3>3. (status \in [phase: Phases, attempts: 0..RepairLimit, was: BOOLEAN])'
      BY <1>13, <1>0, RepairAssumption, BoundsAssumption DEF Phases
    <3>4. (man \in Manifest)'  BY <1>13, <1>0, RepairAssumption, BoundsAssumption DEF Manifest
    <3>5. (faults \in 0..MaxFaults /\ crashes \in 0..MaxCrashes)'
      BY <1>13, <1>0, RepairAssumption, BoundsAssumption
    <3>6. QED BY <3>1, <3>2, <3>3, <3>4, <3>5
  <2>2. WhoRuns'  BY <1>13, <1>0 DEF Phases
  <2>3. Applied'  BY <1>13, <1>0 DEF Containers
  <2>4. SucceededIsTarget'  BY <1>13, <1>0 DEF SucceededIsTarget, Containers
  <2>5. ASSUME ~unrecorded' PROVE Recorded' /\ Knowing'
    <3>u. ~unrecorded  BY <1>13, <1>0, <2>5
    <3>v. Recorded /\ Knowing  BY <1>0, <3>u
    <3>1. Recorded'  BY <1>13, <1>0, <2>5, <3>u, <3>v DEF Recorded, Knowing, AsWas, OnlyWhat
    <3>2. Knowing'  BY <1>13, <1>0, <2>5, <3>u, <3>v DEF Recorded, Knowing, AsWas, OnlyWhat
    <3>3. QED BY <3>1, <3>2
  <2>6. QED BY <2>1, <2>2, <2>3, <2>4, <2>5 DEF UpdateInv
<1>14. CASE ModIntent
  <2> USE DEF ModIntent, Intend, Record, files, docker, volumes, Goto, NoManifest
  <2>1. TypeOK'
    <3>1. WorldTyped'  BY <1>14, <1>0 DEF PCs, Phases, Containers
    <3>2. (mem \in Manifest)'
      <4>1. mem' = mem \/ mem' = [mem EXCEPT !.mod = TRUE, !.modWas = (mods.active # "none")]
        BY <1>14, <1>0 DEF ModIntent, Intend, Record, files, docker, volumes, Goto, NoManifest
      <4>2. [mem EXCEPT !.mod = TRUE, !.modWas = (mods.active # "none")] \in Manifest
        <5>1. (mods.active # "none") \in BOOLEAN /\ mem \in Manifest  BY <1>0
        <5>2. \A b \in BOOLEAN : [mem EXCEPT !.mod = TRUE, !.modWas = b] \in Manifest
          BY <5>1 DEF Manifest
        <5>3. QED BY <5>1, <5>2
      <4>9. QED BY <1>0, <4>1, NoManifestTyped, <4>2
    <3>3. (status \in [phase: Phases, attempts: 0..RepairLimit, was: BOOLEAN])'
      BY <1>14, <1>0, RepairAssumption, BoundsAssumption DEF Phases
    <3>4. (man \in Manifest)'
      BY ZenonT(60), <1>14, <1>0, RepairAssumption, BoundsAssumption DEF Manifest
    <3>5. (faults \in 0..MaxFaults /\ crashes \in 0..MaxCrashes)'
      BY <1>14, <1>0, RepairAssumption, BoundsAssumption
    <3>6. QED BY <3>1, <3>2, <3>3, <3>4, <3>5
  <2>2. WhoRuns'  BY <1>14, <1>0 DEF Phases
  <2>3. Applied'  BY <1>14, <1>0 DEF Containers
  <2>4. SucceededIsTarget'  BY <1>14, <1>0 DEF SucceededIsTarget, Containers
  <2>5. ASSUME ~unrecorded' PROVE Recorded' /\ Knowing'
    <3>u. ~unrecorded
      BY <1>14, <1>0, <2>5 DEF ModIntent, Intend, Record, files, docker, volumes, Goto, NoManifest
    <3>v. Recorded /\ Knowing  BY <1>0, <3>u
    <3>1. /\ pc = "modintent" /\ man.dir = "whole" /\ mem = man /\ OnlyWhat(man) /\ status.phase \notin Final \cup {"none"}
          /\ mem.mutated /\ mem.control /\ ~mem.mod
          /\ mods.active # "target" /\ mods.backup = "none" /\ (need.auth => mem.cloned)
      BY <1>14, <1>0, <3>v DEF Recorded, Knowing, Unbegun, Untouched, BeforeMod, LastSteps, Verified, Written,
         Modded, Forwarding, Restoring, AfterUndo, Rolling, BootSteps, ModIntent, Intend, Record, files, docker,
         volumes, Goto, NoManifest
    <3>2. mem'.dir = mem.dir /\ mem'.mutated = mem.mutated /\ mem'.control = mem.control /\ mem'.snap = mem.snap /\ mem'.cloned = mem.cloned /\ mem'.mod = TRUE /\ mem'.modWas = (mods.active # "none") /\ mem'.auth = mem.auth /\ mem'.saved = mem.saved
      <4> HIDE DEF Early, Final, Terminal, WhoRuns, InFlight, Applied
      <4> QED BY <1>14, <1>0 DEF TypeOK, Manifest, ModIntent, Intend, Record, files, docker, volumes, Goto,
          NoManifest
    <3>3. /\ UNCHANGED <<env, control, mods, server, auth, session, need, status>>
          /\ (pc' = "modout" /\ man' = mem') \/ (pc' = "undo" /\ man' = man /\ (unrecorded' \/ man.control))
      BY <1>14 DEF ModIntent, Intend, Record, files, docker, volumes, Goto, NoManifest
    <3>4. OnlyWhat(mem)'  BY <3>1, <3>2, <3>3 DEF OnlyWhat, AsWas
    <3>5. OnlyWhat(man)' /\ man'.dir = "whole"  BY <3>1, <3>2, <3>3, <3>4 DEF OnlyWhat, AsWas
    <3>6. Recorded'  BY <3>1, <3>3, <3>5 DEF Recorded
    <3>7. Knowing'
      BY <2>5, <3>1, <3>2, <3>3, <3>4, <3>5 DEF Knowing, OnlyWhat, Unbegun, Untouched, BeforeMod,
         LastSteps, Verified, Written, Modded, Forwarding, Restoring, AfterUndo, Rolling, BootSteps
    <3>8. QED BY <3>6, <3>7
  <2>6. QED BY <2>1, <2>2, <2>3, <2>4, <2>5 DEF UpdateInv
<1>15. CASE MoveModOut
  <2> USE DEF MoveModOut, Ok, Fail, journal, docker, rest, old, volumes, Goto, NoManifest
  <2>1. TypeOK'
    <3>1. /\ (need \in [uses: BOOLEAN, auth: BOOLEAN, server: BOOLEAN])'
          /\ (env \in {"orig", "target", "pinned"} /\ control \in {"orig", "mixed", "target"})'
          /\ (session \in {"orig", "used", "lost"} /\ snapshot \in {"none", "empty", "full"})'
          /\ (images \subseteq {"server", "auth"})'
          /\ (db \in BOOLEAN /\ asked \in {"no", "up", "down"})'
      BY <1>15, <1>0 DEF PCs, Phases, Containers
    <3>2. (pc \in PCs)'  BY <1>15, <1>0, RepairAssumption, BoundsAssumption DEF PCs
    <3>3. (mode \in {"none", "apply", "boot", "repair"})'
      BY <1>15, <1>0, RepairAssumption, BoundsAssumption
    <3>4. (mem \in Manifest)'  BY <1>15, <1>0, RepairAssumption, BoundsAssumption DEF Manifest
    <3>5. (status \in [phase: Phases, attempts: 0..RepairLimit, was: BOOLEAN])'
      BY <1>15, <1>0, RepairAssumption, BoundsAssumption DEF Phases
    <3>6. (man \in Manifest)'  BY <1>15, <1>0, RepairAssumption, BoundsAssumption DEF Manifest
    <3>7. (mods \in [active: {"none", "orig", "target"}, backup: {"none", "orig", "target"}, aside: {"none", "orig", "target"}])'
      BY <1>15, <1>0, RepairAssumption, BoundsAssumption
    <3>8. (server \in Containers /\ auth \in Containers)'
      BY <1>15, <1>0, RepairAssumption, BoundsAssumption DEF Containers
    <3>9. (checked \in BOOLEAN /\ panel \in BOOLEAN /\ unrecorded \in BOOLEAN)'
      BY <1>15, <1>0, RepairAssumption, BoundsAssumption
    <3>10. (faults \in 0..MaxFaults /\ crashes \in 0..MaxCrashes)'
      BY <1>15, <1>0, RepairAssumption, BoundsAssumption
    <3>11. QED BY <3>1, <3>2, <3>3, <3>4, <3>5, <3>6, <3>7, <3>8, <3>9, <3>10
  <2>2. WhoRuns'  BY <1>15, <1>0 DEF Phases
  <2>3. Applied'  BY <1>15, <1>0 DEF Containers
  <2>4. SucceededIsTarget'  BY <1>15, <1>0 DEF SucceededIsTarget, Containers
  <2>5. ASSUME ~unrecorded' PROVE Recorded' /\ Knowing'
    <3>u. ~unrecorded  BY <1>15, <1>0, <2>5
    <3>v. Recorded /\ Knowing  BY <1>0, <3>u
    <3>1. Recorded'
      BY ZenonT(60), <1>15, <1>0, <2>5, <3>u, <3>v DEF Recorded, Knowing, AsWas, OnlyWhat
    <3>2. Knowing'
      <4>1. (pc \in Unbegun => man.dir = "no")'
        BY <1>15, <1>0, <2>5, <3>u, <3>v DEF Recorded, Knowing, AsWas, OnlyWhat
      <4>2. (pc \in Forwarding \cup Rolling => man.dir = "whole")'
        BY <1>15, <1>0, <2>5, <3>u, <3>v DEF Recorded, Knowing, AsWas, OnlyWhat
      <4>3. (pc \in Forwarding => mem = man)'
        BY <1>15, <1>0, <2>5, <3>u, <3>v DEF Recorded, Knowing, AsWas, OnlyWhat
      <4>4. (pc \in Unbegun \cup Untouched => AsWas)'
        BY <1>15, <1>0, <2>5, <3>u, <3>v DEF Recorded, Knowing, AsWas, OnlyWhat
      <4>5. (pc \in Forwarding \ Untouched => mem.mutated /\ mem.control)'
        BY <1>15, <1>0, <2>5, <3>u, <3>v DEF Recorded, Knowing, AsWas, OnlyWhat
      <4>6. (pc \in Untouched \cup BeforeMod => ~mem.mod)'
        BY <1>15, <1>0, <2>5, <3>u, <3>v DEF Recorded, Knowing, AsWas, OnlyWhat
      <4>7. (pc \in BeforeMod \cup {"modout"} => mods.active # "target" /\ mods.backup = "none")'
        BY <1>15, <1>0, <2>5, <3>u, <3>v DEF Recorded, Knowing, AsWas, OnlyWhat
      <4>8. (pc = "modout" => mem.mod /\ mem.modWas = (mods.active # "none"))'
        BY <1>15, <1>0, <2>5, <3>u, <3>v DEF Recorded, Knowing, AsWas, OnlyWhat
      <4>9. (pc = "modin" => mem.mod /\ mods.active = "none" /\ mods.backup = (IF mem.modWas THEN "orig" ELSE "none"))'
        BY <1>15, <1>0, <2>5, <3>u, <3>v DEF Recorded, Knowing, AsWas, OnlyWhat
      <4>10. (pc \in {"configphase", "modintent", "modout", "modin"} \cup Modded /\ need.auth => mem.cloned)'
        BY <1>15, <1>0, <2>5, <3>u, <3>v DEF Recorded, Knowing, AsWas, OnlyWhat
      <4>11. (pc \in {"snapintent", "snapcreate", "snapclone", "snapdone"} => need.auth)'
        BY <1>15, <1>0, <2>5, <3>u, <3>v DEF Recorded, Knowing, AsWas, OnlyWhat
      <4>12. (pc \in {"authup"} \cup Verified /\ need.auth => mem.auth)'
        BY <1>15, <1>0, <2>5, <3>u, <3>v DEF Recorded, Knowing, AsWas, OnlyWhat
      <4>13. (pc \in Rolling /\ mem.control => man.control)'
        BY <1>15, <1>0, <2>5, <3>u, <3>v DEF Recorded, Knowing, AsWas, OnlyWhat
      <4>14. (pc \in Restoring => OnlyWhat(mem))'
        BY <1>15, <1>0, <2>5, <3>u, <3>v DEF Recorded, Knowing, AsWas, OnlyWhat
      <4>15. (pc = "umod" => mem.mod)'
        BY <1>15, <1>0, <2>5, <3>u, <3>v DEF Recorded, Knowing, AsWas, OnlyWhat
      <4>16. (pc = "ucontrol" => mem.control)'
        BY <1>15, <1>0, <2>5, <3>u, <3>v DEF Recorded, Knowing, AsWas, OnlyWhat
      <4>17. (pc = "umodback" => mem.modWas /\ mem.mod /\ mods.backup = "orig" /\ mods.active = "none")'
        BY <1>15, <1>0, <2>5, <3>u, <3>v DEF Recorded, Knowing, AsWas, OnlyWhat
      <4>18. (pc \in Restoring \ {"undo", "ustop"} => server # "target" /\ auth # "target")'
        BY <1>15, <1>0, <2>5, <3>u, <3>v DEF Recorded, Knowing, AsWas, OnlyWhat
      <4>19. (pc \in Restoring \ {"undo", "ustop", "uenv"} => env # "target")'
        BY <1>15, <1>0, <2>5, <3>u, <3>v DEF Recorded, Knowing, AsWas, OnlyWhat
      <4>20. (pc \in {"ucontrol", "ufix", "upin", "usession"} => mods.active # "target" /\ mods.backup = "none")'
        BY <1>15, <1>0, <2>5, <3>u, <3>v DEF Recorded, Knowing, AsWas, OnlyWhat
      <4>21. (pc \in {"ufix", "upin", "usession"} => control # "mixed")'
        BY <1>15, <1>0, <2>5, <3>u, <3>v DEF Recorded, Knowing, AsWas, OnlyWhat
      <4>22. (pc \in AfterUndo \cup {"rclean", "rdir"} => AsWas)'
        BY <1>15, <1>0, <2>5, <3>u, <3>v DEF Recorded, Knowing, AsWas, OnlyWhat
      <4>23. QED
        BY <4>1, <4>2, <4>3, <4>4, <4>5, <4>6, <4>7, <4>8, <4>9, <4>10, <4>11, <4>12, <4>13,
           <4>14, <4>15, <4>16, <4>17, <4>18, <4>19, <4>20, <4>21, <4>22 DEF Knowing
    <3>3. QED BY <3>1, <3>2
  <2>6. QED BY <2>1, <2>2, <2>3, <2>4, <2>5 DEF UpdateInv
<1>16. CASE MoveModIn
  <2> USE DEF MoveModIn, Ok, Fail, journal, docker, rest, old, volumes, Goto, NoManifest
  <2>1. TypeOK'
    <3>1. /\ (need \in [uses: BOOLEAN, auth: BOOLEAN, server: BOOLEAN])'
          /\ (env \in {"orig", "target", "pinned"} /\ control \in {"orig", "mixed", "target"})'
          /\ (session \in {"orig", "used", "lost"} /\ snapshot \in {"none", "empty", "full"})'
          /\ (images \subseteq {"server", "auth"})'
          /\ (db \in BOOLEAN /\ asked \in {"no", "up", "down"})'
      BY <1>16, <1>0 DEF PCs, Phases, Containers
    <3>2. (pc \in PCs)'  BY <1>16, <1>0, RepairAssumption, BoundsAssumption DEF PCs
    <3>3. (mode \in {"none", "apply", "boot", "repair"})'
      BY <1>16, <1>0, RepairAssumption, BoundsAssumption
    <3>4. (mem \in Manifest)'  BY <1>16, <1>0, RepairAssumption, BoundsAssumption DEF Manifest
    <3>5. (status \in [phase: Phases, attempts: 0..RepairLimit, was: BOOLEAN])'
      BY <1>16, <1>0, RepairAssumption, BoundsAssumption DEF Phases
    <3>6. (man \in Manifest)'  BY <1>16, <1>0, RepairAssumption, BoundsAssumption DEF Manifest
    <3>7. (mods \in [active: {"none", "orig", "target"}, backup: {"none", "orig", "target"}, aside: {"none", "orig", "target"}])'
      BY <1>16, <1>0, RepairAssumption, BoundsAssumption
    <3>8. (server \in Containers /\ auth \in Containers)'
      BY <1>16, <1>0, RepairAssumption, BoundsAssumption DEF Containers
    <3>9. (checked \in BOOLEAN /\ panel \in BOOLEAN /\ unrecorded \in BOOLEAN)'
      BY <1>16, <1>0, RepairAssumption, BoundsAssumption
    <3>10. (faults \in 0..MaxFaults /\ crashes \in 0..MaxCrashes)'
      BY <1>16, <1>0, RepairAssumption, BoundsAssumption
    <3>11. QED BY <3>1, <3>2, <3>3, <3>4, <3>5, <3>6, <3>7, <3>8, <3>9, <3>10
  <2>2. WhoRuns'  BY <1>16, <1>0 DEF Phases
  <2>3. Applied'  BY <1>16, <1>0 DEF Containers
  <2>4. SucceededIsTarget'  BY <1>16, <1>0 DEF SucceededIsTarget, Containers
  <2>5. ASSUME ~unrecorded' PROVE Recorded' /\ Knowing'
    <3>u. ~unrecorded  BY <1>16, <1>0, <2>5
    <3>v. Recorded /\ Knowing  BY <1>0, <3>u
    <3>1. Recorded'
      BY ZenonT(60), <1>16, <1>0, <2>5, <3>u, <3>v DEF Recorded, Knowing, AsWas, OnlyWhat
    <3>2. Knowing'
      <4>1. (pc \in Unbegun => man.dir = "no")'
        BY <1>16, <1>0, <2>5, <3>u, <3>v DEF Recorded, Knowing, AsWas, OnlyWhat
      <4>2. (pc \in Forwarding \cup Rolling => man.dir = "whole")'
        BY <1>16, <1>0, <2>5, <3>u, <3>v DEF Recorded, Knowing, AsWas, OnlyWhat
      <4>3. (pc \in Forwarding => mem = man)'
        BY <1>16, <1>0, <2>5, <3>u, <3>v DEF Recorded, Knowing, AsWas, OnlyWhat
      <4>4. (pc \in Unbegun \cup Untouched => AsWas)'
        BY <1>16, <1>0, <2>5, <3>u, <3>v DEF Recorded, Knowing, AsWas, OnlyWhat
      <4>5. (pc \in Forwarding \ Untouched => mem.mutated /\ mem.control)'
        BY <1>16, <1>0, <2>5, <3>u, <3>v DEF Recorded, Knowing, AsWas, OnlyWhat
      <4>6. (pc \in Untouched \cup BeforeMod => ~mem.mod)'
        BY <1>16, <1>0, <2>5, <3>u, <3>v DEF Recorded, Knowing, AsWas, OnlyWhat
      <4>7. (pc \in BeforeMod \cup {"modout"} => mods.active # "target" /\ mods.backup = "none")'
        BY <1>16, <1>0, <2>5, <3>u, <3>v DEF Recorded, Knowing, AsWas, OnlyWhat
      <4>8. (pc = "modout" => mem.mod /\ mem.modWas = (mods.active # "none"))'
        BY <1>16, <1>0, <2>5, <3>u, <3>v DEF Recorded, Knowing, AsWas, OnlyWhat
      <4>9. (pc = "modin" => mem.mod /\ mods.active = "none" /\ mods.backup = (IF mem.modWas THEN "orig" ELSE "none"))'
        BY <1>16, <1>0, <2>5, <3>u, <3>v DEF Recorded, Knowing, AsWas, OnlyWhat
      <4>10. (pc \in {"configphase", "modintent", "modout", "modin"} \cup Modded /\ need.auth => mem.cloned)'
        BY <1>16, <1>0, <2>5, <3>u, <3>v DEF Recorded, Knowing, AsWas, OnlyWhat
      <4>11. (pc \in {"snapintent", "snapcreate", "snapclone", "snapdone"} => need.auth)'
        BY <1>16, <1>0, <2>5, <3>u, <3>v DEF Recorded, Knowing, AsWas, OnlyWhat
      <4>12. (pc \in {"authup"} \cup Verified /\ need.auth => mem.auth)'
        BY <1>16, <1>0, <2>5, <3>u, <3>v DEF Recorded, Knowing, AsWas, OnlyWhat
      <4>13. (pc \in Rolling /\ mem.control => man.control)'
        BY <1>16, <1>0, <2>5, <3>u, <3>v DEF Recorded, Knowing, AsWas, OnlyWhat
      <4>14. (pc \in Restoring => OnlyWhat(mem))'
        <5>1. mem = man /\ OnlyWhat(man) /\ mem.mod /\ mods.active = "none" /\ mods.backup = (IF mem.modWas THEN "orig" ELSE "none") /\ mem.mutated /\ mem.control
          BY <1>16, <1>0, <3>v DEF Recorded, Knowing, Unbegun, Untouched, BeforeMod, LastSteps, Verified, Written,
             Modded, Forwarding, Restoring, AfterUndo, Rolling, BootSteps, MoveModIn
        <5>2. mem' = mem /\ UNCHANGED <<env, control, server, auth, session, need>>
              /\ \/ mods'.active \in {"none", "target"} /\ mods'.backup = mods.backup
                 \/ mods'.active = mods.backup /\ mods'.backup = "none"
          BY <1>16, <1>0, <5>1 DEF MoveModIn, Ok, Fail, journal, docker, rest, old, volumes, Goto, NoManifest
        <5>3. QED BY <5>1, <5>2 DEF OnlyWhat, AsWas
      <4>15. (pc = "umod" => mem.mod)'
        BY <1>16, <1>0, <2>5, <3>u, <3>v DEF Recorded, Knowing, AsWas, OnlyWhat
      <4>16. (pc = "ucontrol" => mem.control)'
        BY <1>16, <1>0, <2>5, <3>u, <3>v DEF Recorded, Knowing, AsWas, OnlyWhat
      <4>17. (pc = "umodback" => mem.modWas /\ mem.mod /\ mods.backup = "orig" /\ mods.active = "none")'
        BY <1>16, <1>0, <2>5, <3>u, <3>v DEF Recorded, Knowing, AsWas, OnlyWhat
      <4>18. (pc \in Restoring \ {"undo", "ustop"} => server # "target" /\ auth # "target")'
        BY <1>16, <1>0, <2>5, <3>u, <3>v DEF Recorded, Knowing, AsWas, OnlyWhat
      <4>19. (pc \in Restoring \ {"undo", "ustop", "uenv"} => env # "target")'
        BY <1>16, <1>0, <2>5, <3>u, <3>v DEF Recorded, Knowing, AsWas, OnlyWhat
      <4>20. (pc \in {"ucontrol", "ufix", "upin", "usession"} => mods.active # "target" /\ mods.backup = "none")'
        BY <1>16, <1>0, <2>5, <3>u, <3>v DEF Recorded, Knowing, AsWas, OnlyWhat
      <4>21. (pc \in {"ufix", "upin", "usession"} => control # "mixed")'
        BY <1>16, <1>0, <2>5, <3>u, <3>v DEF Recorded, Knowing, AsWas, OnlyWhat
      <4>22. (pc \in AfterUndo \cup {"rclean", "rdir"} => AsWas)'
        BY <1>16, <1>0, <2>5, <3>u, <3>v DEF Recorded, Knowing, AsWas, OnlyWhat
      <4>23. QED
        BY <4>1, <4>2, <4>3, <4>4, <4>5, <4>6, <4>7, <4>8, <4>9, <4>10, <4>11, <4>12, <4>13,
           <4>14, <4>15, <4>16, <4>17, <4>18, <4>19, <4>20, <4>21, <4>22 DEF Knowing
    <3>3. QED BY <3>1, <3>2
  <2>6. QED BY <2>1, <2>2, <2>3, <2>4, <2>5 DEF UpdateInv
<1>17. CASE WriteConfig
  <2> USE DEF WriteConfig, Ok, Fail, journal, docker, rest, old, volumes, Goto, NoManifest
  <2>1. TypeOK'
    BY <1>17, <1>0, NoManifestTyped, RepairAssumption, BoundsAssumption DEF PCs, Phases, Containers
  <2>2. WhoRuns'  BY <1>17, <1>0 DEF Phases
  <2>3. Applied'
    <3>1. (pc \in Forwarding \ (Untouched \cup {"control"}) => control = "target")'
      BY <1>17, <1>0 DEF Containers
    <3>2. (pc \in Modded => mods.active # "none" /\ (need.server => mods.active = "target"))'
      BY <1>17, <1>0 DEF Containers
    <3>3. (pc \in Written => env = "target")'  BY <1>17, <1>0 DEF Containers
    <3>4. (pc \in Verified => (need.auth => auth # "orig"))'  BY <1>17, <1>0 DEF Containers
    <3>5. (pc \in LastSteps => server # "orig")'  BY <1>17, <1>0 DEF Containers
    <3>6. QED BY <3>1, <3>2, <3>3, <3>4, <3>5
  <2>4. SucceededIsTarget'  BY <1>17, <1>0 DEF SucceededIsTarget, Containers
  <2>5. ASSUME ~unrecorded' PROVE Recorded' /\ Knowing'
    <3>u. ~unrecorded  BY <1>17, <1>0, <2>5
    <3>v. Recorded /\ Knowing  BY <1>0, <3>u
    <3>1. Recorded'  BY <1>17, <1>0, <2>5, <3>u, <3>v DEF Recorded, Knowing, AsWas, OnlyWhat
    <3>2. Knowing'
      <4>1. (pc \in Unbegun => man.dir = "no")'
        BY <1>17, <1>0, <2>5, <3>u, <3>v DEF Recorded, Knowing, AsWas, OnlyWhat
      <4>2. (pc \in Forwarding \cup Rolling => man.dir = "whole")'
        BY <1>17, <1>0, <2>5, <3>u, <3>v DEF Recorded, Knowing, AsWas, OnlyWhat
      <4>3. (pc \in Forwarding => mem = man)'
        BY <1>17, <1>0, <2>5, <3>u, <3>v DEF Recorded, Knowing, AsWas, OnlyWhat
      <4>4. (pc \in Unbegun \cup Untouched => AsWas)'
        BY <1>17, <1>0, <2>5, <3>u, <3>v DEF Recorded, Knowing, AsWas, OnlyWhat
      <4>5. (pc \in Forwarding \ Untouched => mem.mutated /\ mem.control)'
        BY <1>17, <1>0, <2>5, <3>u, <3>v DEF Recorded, Knowing, AsWas, OnlyWhat
      <4>6. (pc \in Untouched \cup BeforeMod => ~mem.mod)'
        BY <1>17, <1>0, <2>5, <3>u, <3>v DEF Recorded, Knowing, AsWas, OnlyWhat
      <4>7. (pc \in BeforeMod \cup {"modout"} => mods.active # "target" /\ mods.backup = "none")'
        BY <1>17, <1>0, <2>5, <3>u, <3>v DEF Recorded, Knowing, AsWas, OnlyWhat
      <4>8. (pc = "modout" => mem.mod /\ mem.modWas = (mods.active # "none"))'
        BY <1>17, <1>0, <2>5, <3>u, <3>v DEF Recorded, Knowing, AsWas, OnlyWhat
      <4>9. (pc = "modin" => mem.mod /\ mods.active = "none" /\ mods.backup = (IF mem.modWas THEN "orig" ELSE "none"))'
        BY <1>17, <1>0, <2>5, <3>u, <3>v DEF Recorded, Knowing, AsWas, OnlyWhat
      <4>10. (pc \in {"configphase", "modintent", "modout", "modin"} \cup Modded /\ need.auth => mem.cloned)'
        BY <1>17, <1>0, <2>5, <3>u, <3>v DEF Recorded, Knowing, AsWas, OnlyWhat
      <4>11. (pc \in {"snapintent", "snapcreate", "snapclone", "snapdone"} => need.auth)'
        BY <1>17, <1>0, <2>5, <3>u, <3>v DEF Recorded, Knowing, AsWas, OnlyWhat
      <4>12. (pc \in {"authup"} \cup Verified /\ need.auth => mem.auth)'
        BY <1>17, <1>0, <2>5, <3>u, <3>v DEF Recorded, Knowing, AsWas, OnlyWhat
      <4>13. (pc \in Rolling /\ mem.control => man.control)'
        BY <1>17, <1>0, <2>5, <3>u, <3>v DEF Recorded, Knowing, AsWas, OnlyWhat
      <4>14. (pc \in Restoring => OnlyWhat(mem))'
        BY <1>17, <1>0, <2>5, <3>u, <3>v DEF Recorded, Knowing, AsWas, OnlyWhat
      <4>15. (pc = "umod" => mem.mod)'
        BY <1>17, <1>0, <2>5, <3>u, <3>v DEF Recorded, Knowing, AsWas, OnlyWhat
      <4>16. (pc = "ucontrol" => mem.control)'
        BY <1>17, <1>0, <2>5, <3>u, <3>v DEF Recorded, Knowing, AsWas, OnlyWhat
      <4>17. (pc = "umodback" => mem.modWas /\ mem.mod /\ mods.backup = "orig" /\ mods.active = "none")'
        BY <1>17, <1>0, <2>5, <3>u, <3>v DEF Recorded, Knowing, AsWas, OnlyWhat
      <4>18. (pc \in Restoring \ {"undo", "ustop"} => server # "target" /\ auth # "target")'
        BY <1>17, <1>0, <2>5, <3>u, <3>v DEF Recorded, Knowing, AsWas, OnlyWhat
      <4>19. (pc \in Restoring \ {"undo", "ustop", "uenv"} => env # "target")'
        BY <1>17, <1>0, <2>5, <3>u, <3>v DEF Recorded, Knowing, AsWas, OnlyWhat
      <4>20. (pc \in {"ucontrol", "ufix", "upin", "usession"} => mods.active # "target" /\ mods.backup = "none")'
        BY <1>17, <1>0, <2>5, <3>u, <3>v DEF Recorded, Knowing, AsWas, OnlyWhat
      <4>21. (pc \in {"ufix", "upin", "usession"} => control # "mixed")'
        BY <1>17, <1>0, <2>5, <3>u, <3>v DEF Recorded, Knowing, AsWas, OnlyWhat
      <4>22. (pc \in AfterUndo \cup {"rclean", "rdir"} => AsWas)'
        BY <1>17, <1>0, <2>5, <3>u, <3>v DEF Recorded, Knowing, AsWas, OnlyWhat
      <4>23. QED
        BY <4>1, <4>2, <4>3, <4>4, <4>5, <4>6, <4>7, <4>8, <4>9, <4>10, <4>11, <4>12, <4>13,
           <4>14, <4>15, <4>16, <4>17, <4>18, <4>19, <4>20, <4>21, <4>22 DEF Knowing
    <3>3. QED BY <3>1, <3>2
  <2>6. QED BY <2>1, <2>2, <2>3, <2>4, <2>5 DEF UpdateInv
<1>18. CASE AuthPhase
  <2> USE DEF AuthPhase, Announce, Ok, Phase, Fail, files, docker, rest, old, volumes, Goto,
     NoManifest
  <2>1. TypeOK'
    <3>1. WorldTyped'  BY <1>18, <1>0 DEF PCs, Phases, Containers
    <3>2. (mem \in Manifest)'
      <4>1. mem' = mem \/ mem' = NoManifest
        BY <1>18, <1>0 DEF AuthPhase, Announce, Ok, Phase, Fail, files, docker, rest, old, volumes, Goto, NoManifest
      <4>9. QED BY <1>0, <4>1, NoManifestTyped
    <3>3. (status \in [phase: Phases, attempts: 0..RepairLimit, was: BOOLEAN])'
      BY <1>18, <1>0, RepairAssumption, BoundsAssumption DEF Phases
    <3>4. (man \in Manifest)'  BY <1>18, <1>0, RepairAssumption, BoundsAssumption DEF Manifest
    <3>5. (faults \in 0..MaxFaults /\ crashes \in 0..MaxCrashes)'
      BY <1>18, <1>0, RepairAssumption, BoundsAssumption
    <3>6. QED BY <3>1, <3>2, <3>3, <3>4, <3>5
  <2>2. WhoRuns'  BY <1>18, <1>0 DEF Phases
  <2>3. Applied'  BY <1>18, <1>0 DEF Containers
  <2>4. SucceededIsTarget'  BY <1>18, <1>0 DEF SucceededIsTarget, Containers
  <2>5. ASSUME ~unrecorded' PROVE Recorded' /\ Knowing'
    <3>u. ~unrecorded  BY <1>18, <1>0, <2>5
    <3>v. Recorded /\ Knowing  BY <1>0, <3>u
    <3>1. Recorded'  BY <1>18, <1>0, <2>5, <3>u, <3>v DEF Recorded, Knowing, AsWas, OnlyWhat
    <3>2. Knowing'  BY <1>18, <1>0, <2>5, <3>u, <3>v DEF Recorded, Knowing, AsWas, OnlyWhat
    <3>3. QED BY <3>1, <3>2
  <2>6. QED BY <2>1, <2>2, <2>3, <2>4, <2>5 DEF UpdateInv
<1>19. CASE AuthIntent
  <2> USE DEF AuthIntent, Intend, Record, files, docker, volumes, Goto, NoManifest
  <2>1. TypeOK'
    <3>1. WorldTyped'  BY <1>19, <1>0 DEF PCs, Phases, Containers
    <3>2. (mem \in Manifest)'
      <4>1. mem' = mem \/ mem' = [mem EXCEPT !.auth = need.auth, !.authStart = ~need.auth]
        BY <1>19, <1>0 DEF AuthIntent, Intend, Record, files, docker, volumes, Goto, NoManifest
      <4>2. [mem EXCEPT !.auth = need.auth, !.authStart = ~need.auth] \in Manifest
        <5>1. need.auth \in BOOLEAN /\ (~need.auth) \in BOOLEAN /\ mem \in Manifest  BY <1>0
        <5>2. \A b, c \in BOOLEAN : [mem EXCEPT !.auth = b, !.authStart = c] \in Manifest
          BY <5>1 DEF Manifest
        <5>3. QED BY <5>1, <5>2
      <4>9. QED BY <1>0, <4>1, NoManifestTyped, <4>2
    <3>3. (status \in [phase: Phases, attempts: 0..RepairLimit, was: BOOLEAN])'
      BY <1>19, <1>0, RepairAssumption, BoundsAssumption DEF Phases
    <3>4. (man \in Manifest)'
      <4>1. man' = man \/ man' = [mem EXCEPT !.auth = need.auth, !.authStart = ~need.auth]
        BY <1>19, <1>0 DEF AuthIntent, Intend, Record, files, docker, volumes, Goto, NoManifest
      <4>2. [mem EXCEPT !.auth = need.auth, !.authStart = ~need.auth] \in Manifest
        <5>1. need.auth \in BOOLEAN /\ (~need.auth) \in BOOLEAN /\ mem \in Manifest  BY <1>0
        <5>2. \A b, c \in BOOLEAN : [mem EXCEPT !.auth = b, !.authStart = c] \in Manifest
          BY <5>1 DEF Manifest
        <5>3. QED BY <5>1, <5>2
      <4>9. QED BY <1>0, <4>1, NoManifestTyped, <4>2
    <3>5. (faults \in 0..MaxFaults /\ crashes \in 0..MaxCrashes)'
      BY <1>19, <1>0, RepairAssumption, BoundsAssumption
    <3>6. QED BY <3>1, <3>2, <3>3, <3>4, <3>5
  <2>2. WhoRuns'  BY <1>19, <1>0 DEF Phases
  <2>3. Applied'  BY <1>19, <1>0 DEF Containers
  <2>4. SucceededIsTarget'  BY <1>19, <1>0 DEF SucceededIsTarget, Containers
  <2>5. ASSUME ~unrecorded' PROVE Recorded' /\ Knowing'
    <3>u. ~unrecorded
      BY <1>19, <1>0, <2>5 DEF AuthIntent, Intend, Record, files, docker, volumes, Goto, NoManifest
    <3>v. Recorded /\ Knowing  BY <1>0, <3>u
    <3>1. /\ pc = "authintent" /\ man.dir = "whole" /\ mem = man /\ OnlyWhat(man) /\ status.phase \notin Final \cup {"none"}
          /\ mem.mutated /\ mem.control /\ (need.auth => mem.cloned)
      BY <1>19, <1>0, <3>v DEF Recorded, Knowing, Unbegun, Untouched, BeforeMod, LastSteps, Verified, Written,
         Modded, Forwarding, Restoring, AfterUndo, Rolling, BootSteps, AuthIntent, Intend, Record, files, docker,
         volumes, Goto, NoManifest
    <3>2. mem'.dir = mem.dir /\ mem'.mutated = mem.mutated /\ mem'.control = mem.control /\ mem'.snap = mem.snap /\ mem'.cloned = mem.cloned /\ mem'.mod = mem.mod /\ mem'.modWas = mem.modWas /\ mem'.auth = need.auth /\ mem'.saved = mem.saved
      BY <1>19, <1>0 DEF Manifest, AuthIntent, Intend, Record, files, docker, volumes, Goto, NoManifest
    <3>3. /\ UNCHANGED <<env, control, mods, server, auth, session, need, status>>
          /\ (pc' = "authup" /\ man' = mem') \/ (pc' = "undo" /\ man' = man /\ (unrecorded' \/ man.control))
      BY <1>19 DEF AuthIntent, Intend, Record, files, docker, volumes, Goto, NoManifest
    <3>4. OnlyWhat(mem)'  BY <3>1, <3>2, <3>3 DEF OnlyWhat, AsWas
    <3>5. OnlyWhat(man)' /\ man'.dir = "whole"  BY <3>1, <3>2, <3>3, <3>4 DEF OnlyWhat, AsWas
    <3>6. Recorded'  BY <3>1, <3>3, <3>5 DEF Recorded
    <3>7. Knowing'
      BY <2>5, <3>1, <3>2, <3>3, <3>4, <3>5 DEF Knowing, OnlyWhat, Unbegun, Untouched, BeforeMod,
         LastSteps, Verified, Written, Modded, Forwarding, Restoring, AfterUndo, Rolling, BootSteps
    <3>8. QED BY <3>6, <3>7
  <2>6. QED BY <2>1, <2>2, <2>3, <2>4, <2>5 DEF UpdateInv
<1>20. CASE AuthUp
  <2> USE DEF AuthUp, Ok, Fail, journal, files, rest, old, Goto, NoManifest
  <2>1. TypeOK'
    <3>1. WorldTyped'  BY <1>20, <1>0 DEF PCs, Phases, Containers
    <3>2. (mem \in Manifest)'
      <4>1. mem' = mem \/ mem' = NoManifest
        BY <1>20, <1>0 DEF AuthUp, Ok, Fail, journal, files, rest, old, Goto, NoManifest
      <4>9. QED BY <1>0, <4>1, NoManifestTyped
    <3>3. (status \in [phase: Phases, attempts: 0..RepairLimit, was: BOOLEAN])'
      BY <1>20, <1>0, RepairAssumption, BoundsAssumption DEF Phases
    <3>4. (man \in Manifest)'  BY <1>20, <1>0, RepairAssumption, BoundsAssumption DEF Manifest
    <3>5. (faults \in 0..MaxFaults /\ crashes \in 0..MaxCrashes)'
      BY <1>20, <1>0, RepairAssumption, BoundsAssumption
    <3>6. QED BY <3>1, <3>2, <3>3, <3>4, <3>5
  <2>2. WhoRuns'  BY <1>20, <1>0 DEF Phases
  <2>3. Applied'  BY <1>20, <1>0 DEF Containers
  <2>4. SucceededIsTarget'  BY <1>20, <1>0 DEF SucceededIsTarget, Containers
  <2>5. ASSUME ~unrecorded' PROVE Recorded' /\ Knowing'
    <3>u. ~unrecorded  BY <1>20, <1>0, <2>5
    <3>v. Recorded /\ Knowing  BY <1>0, <3>u
    <3>1. Recorded'  BY <1>20, <1>0, <2>5, <3>u, <3>v DEF Recorded, Knowing, AsWas, OnlyWhat
    <3>2. Knowing'  BY <1>20, <1>0, <2>5, <3>u, <3>v DEF Recorded, Knowing, AsWas, OnlyWhat
    <3>3. QED BY <3>1, <3>2
  <2>6. QED BY <2>1, <2>2, <2>3, <2>4, <2>5 DEF UpdateInv
<1>21. CASE ServerPhase
  <2> USE DEF ServerPhase, Announce, Ok, Phase, Fail, files, docker, rest, old, volumes, Goto,
     NoManifest
  <2>1. TypeOK'
    <3>1. WorldTyped'  BY <1>21, <1>0 DEF PCs, Phases, Containers
    <3>2. (mem \in Manifest)'
      <4>1. mem' = mem \/ mem' = NoManifest
        BY <1>21, <1>0 DEF ServerPhase, Announce, Ok, Phase, Fail, files, docker, rest, old, volumes, Goto,
           NoManifest
      <4>9. QED BY <1>0, <4>1, NoManifestTyped
    <3>3. (status \in [phase: Phases, attempts: 0..RepairLimit, was: BOOLEAN])'
      BY <1>21, <1>0, RepairAssumption, BoundsAssumption DEF Phases
    <3>4. (man \in Manifest)'  BY <1>21, <1>0, RepairAssumption, BoundsAssumption DEF Manifest
    <3>5. (faults \in 0..MaxFaults /\ crashes \in 0..MaxCrashes)'
      BY <1>21, <1>0, RepairAssumption, BoundsAssumption
    <3>6. QED BY <3>1, <3>2, <3>3, <3>4, <3>5
  <2>2. WhoRuns'  BY <1>21, <1>0 DEF Phases
  <2>3. Applied'  BY <1>21, <1>0 DEF Containers
  <2>4. SucceededIsTarget'  BY <1>21, <1>0 DEF SucceededIsTarget, Containers
  <2>5. ASSUME ~unrecorded' PROVE Recorded' /\ Knowing'
    <3>u. ~unrecorded  BY <1>21, <1>0, <2>5
    <3>v. Recorded /\ Knowing  BY <1>0, <3>u
    <3>1. Recorded'  BY <1>21, <1>0, <2>5, <3>u, <3>v DEF Recorded, Knowing, AsWas, OnlyWhat
    <3>2. Knowing'  BY <1>21, <1>0, <2>5, <3>u, <3>v DEF Recorded, Knowing, AsWas, OnlyWhat
    <3>3. QED BY <3>1, <3>2
  <2>6. QED BY <2>1, <2>2, <2>3, <2>4, <2>5 DEF UpdateInv
<1>22. CASE ServerIntent
  <2> USE DEF ServerIntent, Intend, Record, files, docker, volumes, Goto, NoManifest
  <2>1. TypeOK'
    BY <1>22, <1>0, NoManifestTyped, RepairAssumption, BoundsAssumption DEF PCs, Phases, Containers
  <2>2. WhoRuns'  BY <1>22, <1>0 DEF Phases
  <2>3. Applied'  BY <1>22, <1>0 DEF Containers
  <2>4. SucceededIsTarget'  BY <1>22, <1>0 DEF SucceededIsTarget, Containers
  <2>5. ASSUME ~unrecorded' PROVE Recorded' /\ Knowing'
    <3>u. ~unrecorded  BY <1>22, <1>0, <2>5
    <3>v. Recorded /\ Knowing  BY <1>0, <3>u
    <3>1. Recorded'  BY <1>22, <1>0, <2>5, <3>u, <3>v DEF Recorded, Knowing, AsWas, OnlyWhat
    <3>2. Knowing'  BY <1>22, <1>0, <2>5, <3>u, <3>v DEF Recorded, Knowing, AsWas, OnlyWhat
    <3>3. QED BY <3>1, <3>2
  <2>6. QED BY <2>1, <2>2, <2>3, <2>4, <2>5 DEF UpdateInv
<1>23. CASE ServerUp
  <2> USE DEF ServerUp, Ok, Fail, journal, files, volumes, rest, old, Goto, NoManifest
  <2>1. TypeOK'
    <3>1. WorldTyped'  BY <1>23, <1>0 DEF PCs, Phases, Containers
    <3>2. (mem \in Manifest)'
      <4>1. mem' = mem \/ mem' = NoManifest
        BY <1>23, <1>0 DEF ServerUp, Ok, Fail, journal, files, volumes, rest, old, Goto, NoManifest
      <4>9. QED BY <1>0, <4>1, NoManifestTyped
    <3>3. (status \in [phase: Phases, attempts: 0..RepairLimit, was: BOOLEAN])'
      BY <1>23, <1>0, RepairAssumption, BoundsAssumption DEF Phases
    <3>4. (man \in Manifest)'  BY <1>23, <1>0, RepairAssumption, BoundsAssumption DEF Manifest
    <3>5. (faults \in 0..MaxFaults /\ crashes \in 0..MaxCrashes)'
      BY <1>23, <1>0, RepairAssumption, BoundsAssumption
    <3>6. QED BY <3>1, <3>2, <3>3, <3>4, <3>5
  <2>2. WhoRuns'  BY <1>23, <1>0 DEF Phases
  <2>3. Applied'  BY <1>23, <1>0 DEF Containers
  <2>4. SucceededIsTarget'  BY <1>23, <1>0 DEF SucceededIsTarget, Containers
  <2>5. ASSUME ~unrecorded' PROVE Recorded' /\ Knowing'
    <3>u. ~unrecorded  BY <1>23, <1>0, <2>5
    <3>v. Recorded /\ Knowing  BY <1>0, <3>u
    <3>1. Recorded'  BY <1>23, <1>0, <2>5, <3>u, <3>v DEF Recorded, Knowing, AsWas, OnlyWhat
    <3>2. Knowing'  BY <1>23, <1>0, <2>5, <3>u, <3>v DEF Recorded, Knowing, AsWas, OnlyWhat
    <3>3. QED BY <3>1, <3>2
  <2>6. QED BY <2>1, <2>2, <2>3, <2>4, <2>5 DEF UpdateInv
<1>24. CASE RestoreState
  <2> USE DEF RestoreState, Ok, Stop, journal, files, volumes, old, Fail, Goto, NoManifest
  <2>1. TypeOK'
    <3>1. (need \in [uses: BOOLEAN, auth: BOOLEAN, server: BOOLEAN])'
      BY <1>24, <1>0, RepairAssumption, BoundsAssumption
    <3>2. (pc \in PCs)'  BY <1>24, <1>0, RepairAssumption, BoundsAssumption DEF PCs
    <3>3. (mode \in {"none", "apply", "boot", "repair"})'
      BY <1>24, <1>0, RepairAssumption, BoundsAssumption
    <3>4. (mem \in Manifest)'  BY <1>24, <1>0, RepairAssumption, BoundsAssumption DEF Manifest
    <3>5. (status \in [phase: Phases, attempts: 0..RepairLimit, was: BOOLEAN])'
      BY <1>24, <1>0, RepairAssumption, BoundsAssumption DEF Phases
    <3>6. (man \in Manifest)'  BY <1>24, <1>0, RepairAssumption, BoundsAssumption DEF Manifest
    <3>7. (env \in {"orig", "target", "pinned"} /\ control \in {"orig", "mixed", "target"})'
      BY <1>24, <1>0, RepairAssumption, BoundsAssumption
    <3>8. (mods \in [active: {"none", "orig", "target"}, backup: {"none", "orig", "target"}, aside: {"none", "orig", "target"}])'
      BY <1>24, <1>0, RepairAssumption, BoundsAssumption
    <3>9. (server \in Containers /\ auth \in Containers)'
      BY <1>24, <1>0, RepairAssumption, BoundsAssumption DEF Containers
    <3>10. (session \in {"orig", "used", "lost"} /\ snapshot \in {"none", "empty", "full"})'
      BY <1>24, <1>0, RepairAssumption, BoundsAssumption
    <3>11. (images \subseteq {"server", "auth"})'
      BY <1>24, <1>0, RepairAssumption, BoundsAssumption
    <3>12. (db \in BOOLEAN /\ asked \in {"no", "up", "down"})'
      BY <1>24, <1>0, RepairAssumption, BoundsAssumption
    <3>13. (checked \in BOOLEAN /\ panel \in BOOLEAN /\ unrecorded \in BOOLEAN)'
      BY <1>24, <1>0, RepairAssumption, BoundsAssumption
    <3>14. (faults \in 0..MaxFaults /\ crashes \in 0..MaxCrashes)'
      <4>1. (faults' = faults \/ (faults < MaxFaults /\ faults' = faults + 1)) /\ crashes' = crashes
        BY <1>24 DEF RestoreState, Ok, Stop, journal, files, volumes, old, Fail, Goto, NoManifest
      <4>2. QED BY <1>0, <4>1, BoundsAssumption
    <3>15. QED BY <3>1, <3>2, <3>3, <3>4, <3>5, <3>6, <3>7, <3>8, <3>9, <3>10, <3>11, <3>12, <3>13,
         <3>14 DEF TypeOK
  <2>2. WhoRuns'  BY <1>24, <1>0 DEF Phases
  <2>3. Applied'  BY <1>24, <1>0 DEF Containers
  <2>4. SucceededIsTarget'  BY <1>24, <1>0 DEF SucceededIsTarget, Containers
  <2>5. ASSUME ~unrecorded' PROVE Recorded' /\ Knowing'
    <3>u. ~unrecorded  BY <1>24, <1>0, <2>5
    <3>v. Recorded /\ Knowing  BY <1>0, <3>u
    <3>1. Recorded'
      BY ZenonT(60), <1>24, <1>0, <2>5, <3>u, <3>v DEF Recorded, Knowing, AsWas, OnlyWhat
    <3>2. Knowing'
      <4>1. (pc \in Unbegun => man.dir = "no")'
        BY <1>24, <1>0, <2>5, <3>u, <3>v DEF Recorded, Knowing, AsWas, OnlyWhat
      <4>2. (pc \in Forwarding \cup Rolling => man.dir = "whole")'
        BY <1>24, <1>0, <2>5, <3>u, <3>v DEF Recorded, Knowing, AsWas, OnlyWhat
      <4>3. (pc \in Forwarding => mem = man)'
        BY <1>24, <1>0, <2>5, <3>u, <3>v DEF Recorded, Knowing, AsWas, OnlyWhat
      <4>4. (pc \in Unbegun \cup Untouched => AsWas)'
        BY <1>24, <1>0, <2>5, <3>u, <3>v DEF Recorded, Knowing, AsWas, OnlyWhat
      <4>5. (pc \in Forwarding \ Untouched => mem.mutated /\ mem.control)'
        BY <1>24, <1>0, <2>5, <3>u, <3>v DEF Recorded, Knowing, AsWas, OnlyWhat
      <4>6. (pc \in Untouched \cup BeforeMod => ~mem.mod)'
        BY <1>24, <1>0, <2>5, <3>u, <3>v DEF Recorded, Knowing, AsWas, OnlyWhat
      <4>7. (pc \in BeforeMod \cup {"modout"} => mods.active # "target" /\ mods.backup = "none")'
        BY <1>24, <1>0, <2>5, <3>u, <3>v DEF Recorded, Knowing, AsWas, OnlyWhat
      <4>8. (pc = "modout" => mem.mod /\ mem.modWas = (mods.active # "none"))'
        BY <1>24, <1>0, <2>5, <3>u, <3>v DEF Recorded, Knowing, AsWas, OnlyWhat
      <4>9. (pc = "modin" => mem.mod /\ mods.active = "none" /\ mods.backup = (IF mem.modWas THEN "orig" ELSE "none"))'
        BY <1>24, <1>0, <2>5, <3>u, <3>v DEF Recorded, Knowing, AsWas, OnlyWhat
      <4>10. (pc \in {"configphase", "modintent", "modout", "modin"} \cup Modded /\ need.auth => mem.cloned)'
        BY <1>24, <1>0, <2>5, <3>u, <3>v DEF Recorded, Knowing, AsWas, OnlyWhat
      <4>11. (pc \in {"snapintent", "snapcreate", "snapclone", "snapdone"} => need.auth)'
        BY <1>24, <1>0, <2>5, <3>u, <3>v DEF Recorded, Knowing, AsWas, OnlyWhat
      <4>12. (pc \in {"authup"} \cup Verified /\ need.auth => mem.auth)'
        BY <1>24, <1>0, <2>5, <3>u, <3>v DEF Recorded, Knowing, AsWas, OnlyWhat
      <4>13. (pc \in Rolling /\ mem.control => man.control)'
        BY <1>24, <1>0, <2>5, <3>u, <3>v DEF Recorded, Knowing, AsWas, OnlyWhat
      <4>14. (pc \in Restoring => OnlyWhat(mem))'
        <5>1. mem = man /\ OnlyWhat(man)
          BY <1>24, <1>0, <3>v DEF Recorded, Knowing, Unbegun, Untouched, BeforeMod, LastSteps, Verified, Written,
             Modded, Forwarding, Restoring, AfterUndo, Rolling, BootSteps, RestoreState
        <5>2. mem' = mem /\ UNCHANGED <<env, control, mods, session, need>> /\ server' \in {server, "down"} /\ auth' \in {auth, "down"} /\ pc' \notin {"idle"}
          BY <1>24, <1>0, <5>1 DEF RestoreState, Ok, Stop, journal, files, volumes, old, Fail, Goto, NoManifest
        <5>3. QED BY <5>1, <5>2 DEF OnlyWhat, AsWas
      <4>15. (pc = "umod" => mem.mod)'
        BY <1>24, <1>0, <2>5, <3>u, <3>v DEF Recorded, Knowing, AsWas, OnlyWhat
      <4>16. (pc = "ucontrol" => mem.control)'
        BY <1>24, <1>0, <2>5, <3>u, <3>v DEF Recorded, Knowing, AsWas, OnlyWhat
      <4>17. (pc = "umodback" => mem.modWas /\ mem.mod /\ mods.backup = "orig" /\ mods.active = "none")'
        BY <1>24, <1>0, <2>5, <3>u, <3>v DEF Recorded, Knowing, AsWas, OnlyWhat
      <4>18. (pc \in Restoring \ {"undo", "ustop"} => server # "target" /\ auth # "target")'
        BY <1>24, <1>0, <2>5, <3>u, <3>v DEF Recorded, Knowing, AsWas, OnlyWhat
      <4>19. (pc \in Restoring \ {"undo", "ustop", "uenv"} => env # "target")'
        BY <1>24, <1>0, <2>5, <3>u, <3>v DEF Recorded, Knowing, AsWas, OnlyWhat
      <4>20. (pc \in {"ucontrol", "ufix", "upin", "usession"} => mods.active # "target" /\ mods.backup = "none")'
        BY <1>24, <1>0, <2>5, <3>u, <3>v DEF Recorded, Knowing, AsWas, OnlyWhat
      <4>21. (pc \in {"ufix", "upin", "usession"} => control # "mixed")'
        BY <1>24, <1>0, <2>5, <3>u, <3>v DEF Recorded, Knowing, AsWas, OnlyWhat
      <4>22. (pc \in AfterUndo \cup {"rclean", "rdir"} => AsWas)'
        BY <1>24, <1>0, <2>5, <3>u, <3>v DEF Recorded, Knowing, AsWas, OnlyWhat
      <4>23. QED
        BY <4>1, <4>2, <4>3, <4>4, <4>5, <4>6, <4>7, <4>8, <4>9, <4>10, <4>11, <4>12, <4>13,
           <4>14, <4>15, <4>16, <4>17, <4>18, <4>19, <4>20, <4>21, <4>22 DEF Knowing
    <3>3. QED BY <3>1, <3>2
  <2>6. QED BY <2>1, <2>2, <2>3, <2>4, <2>5 DEF UpdateInv
<1>25. CASE RemoveSnapshot
  <2> USE DEF RemoveSnapshot, Ok, Fail, journal, files, rest, old, Goto, NoManifest
  <2>1. TypeOK'
    BY <1>25, <1>0, NoManifestTyped, RepairAssumption, BoundsAssumption DEF PCs, Phases, Containers
  <2>2. WhoRuns'  BY <1>25, <1>0 DEF Phases
  <2>3. Applied'  BY <1>25, <1>0 DEF Containers
  <2>4. SucceededIsTarget'  BY <1>25, <1>0 DEF SucceededIsTarget, Containers
  <2>5. ASSUME ~unrecorded' PROVE Recorded' /\ Knowing'
    <3>u. ~unrecorded  BY <1>25, <1>0, <2>5
    <3>v. Recorded /\ Knowing  BY <1>0, <3>u
    <3>1. Recorded'  BY <1>25, <1>0, <2>5, <3>u, <3>v DEF Recorded, Knowing, AsWas, OnlyWhat
    <3>2. Knowing'  BY <1>25, <1>0, <2>5, <3>u, <3>v DEF Recorded, Knowing, AsWas, OnlyWhat
    <3>3. QED BY <3>1, <3>2
  <2>6. QED BY <2>1, <2>2, <2>3, <2>4, <2>5 DEF UpdateInv
<1>26. CASE RemoveImages
  <2> USE DEF RemoveImages, Ok, Replaced, Fail, journal, files, volumes, rest, old, Goto, NoManifest
  <2>1. TypeOK'
    <3>1. (need \in [uses: BOOLEAN, auth: BOOLEAN, server: BOOLEAN])'
      BY <1>26, <1>0, RepairAssumption, BoundsAssumption
    <3>2. (pc \in PCs)'  BY <1>26, <1>0, RepairAssumption, BoundsAssumption DEF PCs
    <3>3. (mode \in {"none", "apply", "boot", "repair"})'
      BY <1>26, <1>0, RepairAssumption, BoundsAssumption
    <3>4. (mem \in Manifest)'  BY <1>26, <1>0, RepairAssumption, BoundsAssumption DEF Manifest
    <3>5. (status \in [phase: Phases, attempts: 0..RepairLimit, was: BOOLEAN])'
      BY <1>26, <1>0, RepairAssumption, BoundsAssumption DEF Phases
    <3>6. (man \in Manifest)'  BY <1>26, <1>0, RepairAssumption, BoundsAssumption DEF Manifest
    <3>7. (env \in {"orig", "target", "pinned"} /\ control \in {"orig", "mixed", "target"})'
      BY <1>26, <1>0, RepairAssumption, BoundsAssumption
    <3>8. (mods \in [active: {"none", "orig", "target"}, backup: {"none", "orig", "target"}, aside: {"none", "orig", "target"}])'
      BY <1>26, <1>0, RepairAssumption, BoundsAssumption
    <3>9. (server \in Containers /\ auth \in Containers)'
      BY <1>26, <1>0, RepairAssumption, BoundsAssumption DEF Containers
    <3>10. (session \in {"orig", "used", "lost"} /\ snapshot \in {"none", "empty", "full"})'
      BY <1>26, <1>0, RepairAssumption, BoundsAssumption
    <3>11. (images \subseteq {"server", "auth"})'
      BY <1>26, <1>0, RepairAssumption, BoundsAssumption
    <3>12. (db \in BOOLEAN /\ asked \in {"no", "up", "down"})'
      BY <1>26, <1>0, RepairAssumption, BoundsAssumption
    <3>13. (checked \in BOOLEAN /\ panel \in BOOLEAN /\ unrecorded \in BOOLEAN)'
      BY <1>26, <1>0, RepairAssumption, BoundsAssumption
    <3>14. (faults \in 0..MaxFaults /\ crashes \in 0..MaxCrashes)'
      BY <1>26, <1>0, RepairAssumption, BoundsAssumption
    <3>15. QED BY <3>1, <3>2, <3>3, <3>4, <3>5, <3>6, <3>7, <3>8, <3>9, <3>10, <3>11, <3>12, <3>13,
         <3>14 DEF TypeOK
  <2>2. WhoRuns'  BY <1>26, <1>0 DEF Phases
  <2>3. Applied'  BY <1>26, <1>0 DEF Containers
  <2>4. SucceededIsTarget'  BY <1>26, <1>0 DEF SucceededIsTarget, Containers
  <2>5. ASSUME ~unrecorded' PROVE Recorded' /\ Knowing'
    <3>u. ~unrecorded  BY <1>26, <1>0, <2>5
    <3>v. Recorded /\ Knowing  BY <1>0, <3>u
    <3>1. Recorded'  BY <1>26, <1>0, <2>5, <3>u, <3>v DEF Recorded, Knowing, AsWas, OnlyWhat
    <3>2. Knowing'  BY <1>26, <1>0, <2>5, <3>u, <3>v DEF Recorded, Knowing, AsWas, OnlyWhat
    <3>3. QED BY <3>1, <3>2
  <2>6. QED BY <2>1, <2>2, <2>3, <2>4, <2>5 DEF UpdateInv
<1>27. CASE Succeed
  <2> USE DEF Succeed, Ok, Phase, Fail, files, docker, rest, old, volumes, Goto, NoManifest
  <2>1. TypeOK'
    <3>1. WorldTyped'  BY <1>27, <1>0 DEF PCs, Phases, Containers
    <3>2. (mem \in Manifest)'
      <4>1. mem' = mem \/ mem' = NoManifest
        BY <1>27, <1>0 DEF Succeed, Ok, Phase, Fail, files, docker, rest, old, volumes, Goto, NoManifest
      <4>9. QED BY <1>0, <4>1, NoManifestTyped
    <3>3. (status \in [phase: Phases, attempts: 0..RepairLimit, was: BOOLEAN])'
      BY <1>27, <1>0, RepairAssumption, BoundsAssumption DEF Phases
    <3>4. (man \in Manifest)'  BY <1>27, <1>0, RepairAssumption, BoundsAssumption DEF Manifest
    <3>5. (faults \in 0..MaxFaults /\ crashes \in 0..MaxCrashes)'
      BY <1>27, <1>0, RepairAssumption, BoundsAssumption
    <3>6. QED BY <3>1, <3>2, <3>3, <3>4, <3>5
  <2>2. WhoRuns'  BY <1>27, <1>0 DEF Phases
  <2>3. Applied'  BY <1>27, <1>0 DEF Containers
  <2>4. SucceededIsTarget'  BY <1>27, <1>0 DEF SucceededIsTarget, Containers
  <2>5. ASSUME ~unrecorded' PROVE Recorded' /\ Knowing'
    <3>u. ~unrecorded  BY <1>27, <1>0, <2>5
    <3>v. Recorded /\ Knowing  BY <1>0, <3>u
    <3>1. Recorded'  BY <1>27, <1>0, <2>5, <3>u, <3>v DEF Recorded, Knowing, AsWas, OnlyWhat
    <3>2. Knowing'  BY <1>27, <1>0, <2>5, <3>u, <3>v DEF Recorded, Knowing, AsWas, OnlyWhat
    <3>3. QED BY <3>1, <3>2
  <2>6. QED BY <2>1, <2>2, <2>3, <2>4, <2>5 DEF UpdateInv
<1>28. CASE Discard
  <2> USE DEF Discard, Ok, Forget, Fail, docker, rest, old, volumes, Goto, NoManifest
  <2>1. TypeOK'
    <3>1. /\ (need \in [uses: BOOLEAN, auth: BOOLEAN, server: BOOLEAN])'
          /\ (env \in {"orig", "target", "pinned"} /\ control \in {"orig", "mixed", "target"})'
          /\ (session \in {"orig", "used", "lost"} /\ snapshot \in {"none", "empty", "full"})'
          /\ (images \subseteq {"server", "auth"})'
          /\ (db \in BOOLEAN /\ asked \in {"no", "up", "down"})'
      BY <1>28, <1>0 DEF PCs, Phases, Containers
    <3>2. (pc \in PCs)'  BY <1>28, <1>0, RepairAssumption, BoundsAssumption DEF PCs
    <3>3. (mode \in {"none", "apply", "boot", "repair"})'
      BY <1>28, <1>0, RepairAssumption, BoundsAssumption
    <3>4. (mem \in Manifest)'
      <4>1. mem' = mem \/ mem' = NoManifest
        BY <1>28, <1>0 DEF Discard, Ok, Forget, Fail, docker, rest, old, volumes, Goto, NoManifest
      <4>9. QED BY <1>0, <4>1, NoManifestTyped
    <3>5. (status \in [phase: Phases, attempts: 0..RepairLimit, was: BOOLEAN])'
      BY <1>28, <1>0, RepairAssumption, BoundsAssumption DEF Phases
    <3>6. (man \in Manifest)'
      <4>1. man' = man \/ man' = NoManifest
        BY <1>28, <1>0 DEF Discard, Ok, Forget, Fail, docker, rest, old, volumes, Goto, NoManifest
      <4>9. QED BY <1>0, <4>1, NoManifestTyped
    <3>7. (mods \in [active: {"none", "orig", "target"}, backup: {"none", "orig", "target"}, aside: {"none", "orig", "target"}])'
      BY <1>28, <1>0, RepairAssumption, BoundsAssumption
    <3>8. (server \in Containers /\ auth \in Containers)'
      BY <1>28, <1>0, RepairAssumption, BoundsAssumption DEF Containers
    <3>9. (checked \in BOOLEAN /\ panel \in BOOLEAN /\ unrecorded \in BOOLEAN)'
      BY <1>28, <1>0, RepairAssumption, BoundsAssumption
    <3>10. (faults \in 0..MaxFaults /\ crashes \in 0..MaxCrashes)'
      BY <1>28, <1>0, RepairAssumption, BoundsAssumption
    <3>11. QED BY <3>1, <3>2, <3>3, <3>4, <3>5, <3>6, <3>7, <3>8, <3>9, <3>10
  <2>2. WhoRuns'  BY <1>28, <1>0 DEF Phases
  <2>3. Applied'  BY <1>28, <1>0 DEF Containers
  <2>4. SucceededIsTarget'  BY <1>28, <1>0 DEF SucceededIsTarget, Containers
  <2>5. ASSUME ~unrecorded' PROVE Recorded' /\ Knowing'
    <3>u. ~unrecorded  BY <1>28, <1>0, <2>5
    <3>v. Recorded /\ Knowing  BY <1>0, <3>u
    <3>1. Recorded'
      BY ZenonT(60), <1>28, <1>0, <2>5, <3>u, <3>v DEF Recorded, Knowing, AsWas, OnlyWhat
    <3>2. Knowing'  BY <1>28, <1>0, <2>5, <3>u, <3>v DEF Recorded, Knowing, AsWas, OnlyWhat
    <3>3. QED BY <3>1, <3>2
  <2>6. QED BY <2>1, <2>2, <2>3, <2>4, <2>5 DEF UpdateInv
<1>29. CASE Undo
  <2> USE DEF Undo, Ok, Phase, Fail, files, docker, rest, old, volumes, Goto, NoManifest
  <2>1. TypeOK'
    BY <1>29, <1>0, NoManifestTyped, RepairAssumption, BoundsAssumption DEF PCs, Phases, Containers
  <2>2. WhoRuns'  BY <1>29, <1>0 DEF Phases
  <2>3. Applied'  BY <1>29, <1>0 DEF Containers
  <2>4. SucceededIsTarget'  BY <1>29, <1>0 DEF SucceededIsTarget, Containers
  <2>5. ASSUME ~unrecorded' PROVE Recorded' /\ Knowing'
    <3>u. ~unrecorded  BY <1>29, <1>0, <2>5
    <3>v. Recorded /\ Knowing  BY <1>0, <3>u
    <3>1. Recorded'  BY <1>29, <1>0, <2>5, <3>u, <3>v DEF Recorded, Knowing, AsWas, OnlyWhat
    <3>2. Knowing'  BY <1>29, <1>0, <2>5, <3>u, <3>v DEF Recorded, Knowing, AsWas, OnlyWhat
    <3>3. QED BY <3>1, <3>2
  <2>6. QED BY <2>1, <2>2, <2>3, <2>4, <2>5 DEF UpdateInv
<1>30. CASE StopNew
  <2> USE DEF StopNew, Stop, journal, files, volumes, rest, old, Ok, Fail, Goto, NoManifest
  <2>1. TypeOK'
    BY <1>30, <1>0, NoManifestTyped, RepairAssumption, BoundsAssumption DEF PCs, Phases, Containers
  <2>2. WhoRuns'  BY <1>30, <1>0 DEF Phases
  <2>3. Applied'  BY <1>30, <1>0 DEF Containers
  <2>4. SucceededIsTarget'  BY <1>30, <1>0 DEF SucceededIsTarget, Containers
  <2>5. ASSUME ~unrecorded' PROVE Recorded' /\ Knowing'
    <3>u. ~unrecorded  BY <1>30, <1>0, <2>5
    <3>v. Recorded /\ Knowing  BY <1>0, <3>u
    <3>1. Recorded'  BY <1>30, <1>0, <2>5, <3>u, <3>v DEF Recorded, Knowing, AsWas, OnlyWhat
    <3>2. Knowing'  BY <1>30, <1>0, <2>5, <3>u, <3>v DEF Recorded, Knowing, AsWas, OnlyWhat
    <3>3. QED BY <3>1, <3>2
  <2>6. QED BY <2>1, <2>2, <2>3, <2>4, <2>5 DEF UpdateInv
<1>31. CASE RestoreEnv
  <2> USE DEF RestoreEnv, Ok, ModRestored, Fail, journal, docker, rest, old, volumes, Goto,
     NoManifest, FilesRestored
  <2>1. TypeOK'
    BY <1>31, <1>0, NoManifestTyped, RepairAssumption, BoundsAssumption DEF PCs, Phases, Containers
  <2>2. WhoRuns'  BY <1>31, <1>0 DEF Phases
  <2>3. Applied'  BY <1>31, <1>0 DEF Containers
  <2>4. SucceededIsTarget'  BY <1>31, <1>0 DEF SucceededIsTarget, Containers
  <2>5. ASSUME ~unrecorded' PROVE Recorded' /\ Knowing'
    <3>u. ~unrecorded  BY <1>31, <1>0, <2>5
    <3>v. Recorded /\ Knowing  BY <1>0, <3>u
    <3>1. Recorded'  BY <1>31, <1>0, <2>5, <3>u, <3>v DEF Recorded, Knowing, AsWas, OnlyWhat
    <3>2. Knowing'  BY <1>31, <1>0, <2>5, <3>u, <3>v DEF Recorded, Knowing, AsWas, OnlyWhat
    <3>3. QED BY <3>1, <3>2
  <2>6. QED BY <2>1, <2>2, <2>3, <2>4, <2>5 DEF UpdateInv
<1>32. CASE MoveModAside
  <2> USE DEF MoveModAside, Ok, ModRestored, Fail, journal, docker, rest, old, volumes, Goto,
     NoManifest, FilesRestored
  <2>1. TypeOK'
    <3>1. /\ (need \in [uses: BOOLEAN, auth: BOOLEAN, server: BOOLEAN])'
          /\ (env \in {"orig", "target", "pinned"} /\ control \in {"orig", "mixed", "target"})'
          /\ (session \in {"orig", "used", "lost"} /\ snapshot \in {"none", "empty", "full"})'
          /\ (images \subseteq {"server", "auth"})'
          /\ (db \in BOOLEAN /\ asked \in {"no", "up", "down"})'
      BY <1>32, <1>0 DEF PCs, Phases, Containers
    <3>2. (pc \in PCs)'  BY <1>32, <1>0, RepairAssumption, BoundsAssumption DEF PCs
    <3>3. (mode \in {"none", "apply", "boot", "repair"})'
      BY <1>32, <1>0, RepairAssumption, BoundsAssumption
    <3>4. (mem \in Manifest)'  BY <1>32, <1>0, RepairAssumption, BoundsAssumption DEF Manifest
    <3>5. (status \in [phase: Phases, attempts: 0..RepairLimit, was: BOOLEAN])'
      BY <1>32, <1>0, RepairAssumption, BoundsAssumption DEF Phases
    <3>6. (man \in Manifest)'  BY <1>32, <1>0, RepairAssumption, BoundsAssumption DEF Manifest
    <3>7. (mods \in [active: {"none", "orig", "target"}, backup: {"none", "orig", "target"}, aside: {"none", "orig", "target"}])'
      BY <1>32, <1>0, RepairAssumption, BoundsAssumption
    <3>8. (server \in Containers /\ auth \in Containers)'
      BY <1>32, <1>0, RepairAssumption, BoundsAssumption DEF Containers
    <3>9. (checked \in BOOLEAN /\ panel \in BOOLEAN /\ unrecorded \in BOOLEAN)'
      BY <1>32, <1>0, RepairAssumption, BoundsAssumption
    <3>10. (faults \in 0..MaxFaults /\ crashes \in 0..MaxCrashes)'
      BY <1>32, <1>0, RepairAssumption, BoundsAssumption
    <3>11. QED BY <3>1, <3>2, <3>3, <3>4, <3>5, <3>6, <3>7, <3>8, <3>9, <3>10
  <2>2. WhoRuns'  BY <1>32, <1>0 DEF Phases
  <2>3. Applied'  BY <1>32, <1>0 DEF Containers
  <2>4. SucceededIsTarget'  BY <1>32, <1>0 DEF SucceededIsTarget, Containers
  <2>5. ASSUME ~unrecorded' PROVE Recorded' /\ Knowing'
    <3>u. ~unrecorded  BY <1>32, <1>0, <2>5
    <3>v. Recorded /\ Knowing  BY <1>0, <3>u
    <3>1. Recorded'
      <4>1. (status.phase \in {"none", "rolled_back"} => AsWas)'
        BY <1>32, <1>0, <2>5, <3>u, <3>v DEF Recorded, Knowing, AsWas, OnlyWhat
      <4>2. (status.phase \notin Final \cup {"none"} => IF man.dir = "whole" THEN OnlyWhat(man) ELSE AsWas)'
        <5>1. man.dir = "whole" /\ OnlyWhat(man)
          BY <1>32, <1>0, <3>v DEF Recorded, Knowing, Unbegun, Untouched, BeforeMod, LastSteps, Verified, Written,
             Modded, Forwarding, Restoring, AfterUndo, Rolling, BootSteps, MoveModAside
        <5>2. mem' = mem /\ man' = man /\ UNCHANGED <<env, control, server, auth, session, need, status>>
              /\ (mods' = mods \/ (mods'.active = "none" /\ mods'.backup = mods.backup))
          BY <1>32, <1>0, <5>1 DEF MoveModAside, Ok, ModRestored, Fail, journal, docker, rest, old, volumes, Goto,
             NoManifest, FilesRestored
        <5>3. QED BY <5>1, <5>2 DEF OnlyWhat, AsWas
      <4>3. QED BY <4>1, <4>2 DEF Recorded
    <3>2. Knowing'
      <4>1. (pc \in Unbegun => man.dir = "no")'
        BY <1>32, <1>0, <2>5, <3>u, <3>v DEF Recorded, Knowing, AsWas, OnlyWhat
      <4>2. (pc \in Forwarding \cup Rolling => man.dir = "whole")'
        BY <1>32, <1>0, <2>5, <3>u, <3>v DEF Recorded, Knowing, AsWas, OnlyWhat
      <4>3. (pc \in Forwarding => mem = man)'
        BY <1>32, <1>0, <2>5, <3>u, <3>v DEF Recorded, Knowing, AsWas, OnlyWhat
      <4>4. (pc \in Unbegun \cup Untouched => AsWas)'
        BY <1>32, <1>0, <2>5, <3>u, <3>v DEF Recorded, Knowing, AsWas, OnlyWhat
      <4>5. (pc \in Forwarding \ Untouched => mem.mutated /\ mem.control)'
        BY <1>32, <1>0, <2>5, <3>u, <3>v DEF Recorded, Knowing, AsWas, OnlyWhat
      <4>6. (pc \in Untouched \cup BeforeMod => ~mem.mod)'
        BY <1>32, <1>0, <2>5, <3>u, <3>v DEF Recorded, Knowing, AsWas, OnlyWhat
      <4>7. (pc \in BeforeMod \cup {"modout"} => mods.active # "target" /\ mods.backup = "none")'
        BY <1>32, <1>0, <2>5, <3>u, <3>v DEF Recorded, Knowing, AsWas, OnlyWhat
      <4>8. (pc = "modout" => mem.mod /\ mem.modWas = (mods.active # "none"))'
        BY <1>32, <1>0, <2>5, <3>u, <3>v DEF Recorded, Knowing, AsWas, OnlyWhat
      <4>9. (pc = "modin" => mem.mod /\ mods.active = "none" /\ mods.backup = (IF mem.modWas THEN "orig" ELSE "none"))'
        BY <1>32, <1>0, <2>5, <3>u, <3>v DEF Recorded, Knowing, AsWas, OnlyWhat
      <4>10. (pc \in {"configphase", "modintent", "modout", "modin"} \cup Modded /\ need.auth => mem.cloned)'
        BY <1>32, <1>0, <2>5, <3>u, <3>v DEF Recorded, Knowing, AsWas, OnlyWhat
      <4>11. (pc \in {"snapintent", "snapcreate", "snapclone", "snapdone"} => need.auth)'
        BY <1>32, <1>0, <2>5, <3>u, <3>v DEF Recorded, Knowing, AsWas, OnlyWhat
      <4>12. (pc \in {"authup"} \cup Verified /\ need.auth => mem.auth)'
        BY <1>32, <1>0, <2>5, <3>u, <3>v DEF Recorded, Knowing, AsWas, OnlyWhat
      <4>13. (pc \in Rolling /\ mem.control => man.control)'
        BY <1>32, <1>0, <2>5, <3>u, <3>v DEF Recorded, Knowing, AsWas, OnlyWhat
      <4>14. (pc \in Restoring => OnlyWhat(mem))'
        <5>1. OnlyWhat(mem)
          BY <1>32, <1>0, <3>v DEF Recorded, Knowing, Unbegun, Untouched, BeforeMod, LastSteps, Verified, Written,
             Modded, Forwarding, Restoring, AfterUndo, Rolling, BootSteps, MoveModAside
        <5>2. mem' = mem /\ man' = man /\ UNCHANGED <<env, control, server, auth, session, need, status>>
              /\ (mods' = mods \/ (mods'.active = "none" /\ mods'.backup = mods.backup))
          BY <1>32, <1>0, <5>1 DEF MoveModAside, Ok, ModRestored, Fail, journal, docker, rest, old, volumes, Goto,
             NoManifest, FilesRestored
        <5>3. QED BY <5>1, <5>2 DEF OnlyWhat, AsWas
      <4>15. (pc = "umod" => mem.mod)'
        BY <1>32, <1>0, <2>5, <3>u, <3>v DEF Recorded, Knowing, AsWas, OnlyWhat
      <4>16. (pc = "ucontrol" => mem.control)'
        BY <1>32, <1>0, <2>5, <3>u, <3>v DEF Recorded, Knowing, AsWas, OnlyWhat
      <4>17. (pc = "umodback" => mem.modWas /\ mem.mod /\ mods.backup = "orig" /\ mods.active = "none")'
        BY ZenonT(60), <1>32, <1>0, <2>5, <3>u, <3>v DEF Recorded, Knowing, AsWas, OnlyWhat
      <4>18. (pc \in Restoring \ {"undo", "ustop"} => server # "target" /\ auth # "target")'
        BY <1>32, <1>0, <2>5, <3>u, <3>v DEF Recorded, Knowing, AsWas, OnlyWhat
      <4>19. (pc \in Restoring \ {"undo", "ustop", "uenv"} => env # "target")'
        BY <1>32, <1>0, <2>5, <3>u, <3>v DEF Recorded, Knowing, AsWas, OnlyWhat
      <4>20. (pc \in {"ucontrol", "ufix", "upin", "usession"} => mods.active # "target" /\ mods.backup = "none")'
        BY ZenonT(60), <1>32, <1>0, <2>5, <3>u, <3>v DEF Recorded, Knowing, AsWas, OnlyWhat
      <4>21. (pc \in {"ufix", "upin", "usession"} => control # "mixed")'
        BY <1>32, <1>0, <2>5, <3>u, <3>v DEF Recorded, Knowing, AsWas, OnlyWhat
      <4>22. (pc \in AfterUndo \cup {"rclean", "rdir"} => AsWas)'
        BY <1>32, <1>0, <2>5, <3>u, <3>v DEF Recorded, Knowing, AsWas, OnlyWhat
      <4>23. QED
        BY <4>1, <4>2, <4>3, <4>4, <4>5, <4>6, <4>7, <4>8, <4>9, <4>10, <4>11, <4>12, <4>13,
           <4>14, <4>15, <4>16, <4>17, <4>18, <4>19, <4>20, <4>21, <4>22 DEF Knowing
    <3>3. QED BY <3>1, <3>2
  <2>6. QED BY <2>1, <2>2, <2>3, <2>4, <2>5 DEF UpdateInv
<1>33. CASE MoveModBack
  <2> USE DEF MoveModBack, Ok, ModRestored, Fail, journal, docker, rest, old, volumes, Goto,
     NoManifest, FilesRestored
  <2>1. TypeOK'
    <3>1. /\ (need \in [uses: BOOLEAN, auth: BOOLEAN, server: BOOLEAN])'
          /\ (env \in {"orig", "target", "pinned"} /\ control \in {"orig", "mixed", "target"})'
          /\ (session \in {"orig", "used", "lost"} /\ snapshot \in {"none", "empty", "full"})'
          /\ (images \subseteq {"server", "auth"})'
          /\ (db \in BOOLEAN /\ asked \in {"no", "up", "down"})'
      BY <1>33, <1>0 DEF PCs, Phases, Containers
    <3>2. (pc \in PCs)'  BY <1>33, <1>0, RepairAssumption, BoundsAssumption DEF PCs
    <3>3. (mode \in {"none", "apply", "boot", "repair"})'
      BY <1>33, <1>0, RepairAssumption, BoundsAssumption
    <3>4. (mem \in Manifest)'  BY <1>33, <1>0, RepairAssumption, BoundsAssumption DEF Manifest
    <3>5. (status \in [phase: Phases, attempts: 0..RepairLimit, was: BOOLEAN])'
      BY <1>33, <1>0, RepairAssumption, BoundsAssumption DEF Phases
    <3>6. (man \in Manifest)'  BY <1>33, <1>0, RepairAssumption, BoundsAssumption DEF Manifest
    <3>7. (mods \in [active: {"none", "orig", "target"}, backup: {"none", "orig", "target"}, aside: {"none", "orig", "target"}])'
      BY <1>33, <1>0, RepairAssumption, BoundsAssumption
    <3>8. (server \in Containers /\ auth \in Containers)'
      BY <1>33, <1>0, RepairAssumption, BoundsAssumption DEF Containers
    <3>9. (checked \in BOOLEAN /\ panel \in BOOLEAN /\ unrecorded \in BOOLEAN)'
      BY <1>33, <1>0, RepairAssumption, BoundsAssumption
    <3>10. (faults \in 0..MaxFaults /\ crashes \in 0..MaxCrashes)'
      BY <1>33, <1>0, RepairAssumption, BoundsAssumption
    <3>11. QED BY <3>1, <3>2, <3>3, <3>4, <3>5, <3>6, <3>7, <3>8, <3>9, <3>10
  <2>2. WhoRuns'  BY <1>33, <1>0 DEF Phases
  <2>3. Applied'  BY <1>33, <1>0 DEF Containers
  <2>4. SucceededIsTarget'  BY <1>33, <1>0 DEF SucceededIsTarget, Containers
  <2>5. ASSUME ~unrecorded' PROVE Recorded' /\ Knowing'
    <3>u. ~unrecorded  BY <1>33, <1>0, <2>5
    <3>v. Recorded /\ Knowing  BY <1>0, <3>u
    <3>1. Recorded'
      BY ZenonT(60), <1>33, <1>0, <2>5, <3>u, <3>v DEF Recorded, Knowing, AsWas, OnlyWhat
    <3>2. Knowing'
      BY ZenonT(60), <1>33, <1>0, <2>5, <3>u, <3>v DEF Recorded, Knowing, AsWas, OnlyWhat
    <3>3. QED BY <3>1, <3>2
  <2>6. QED BY <2>1, <2>2, <2>3, <2>4, <2>5 DEF UpdateInv
<1>34. CASE RestoreControl
  <2> USE DEF RestoreControl, Ok, FilesRestored, Fail, journal, docker, rest, old, volumes, Goto,
     NoManifest
  <2>1. TypeOK'
    <3>1. /\ (need \in [uses: BOOLEAN, auth: BOOLEAN, server: BOOLEAN])'
          /\ (pc \in PCs)'
          /\ (mode \in {"none", "apply", "boot", "repair"})'
          /\ (mods \in [active: {"none", "orig", "target"}, backup: {"none", "orig", "target"}, aside: {"none", "orig", "target"}])'
          /\ (server \in Containers /\ auth \in Containers)'
          /\ (session \in {"orig", "used", "lost"} /\ snapshot \in {"none", "empty", "full"})'
          /\ (images \subseteq {"server", "auth"})'
          /\ (db \in BOOLEAN /\ asked \in {"no", "up", "down"})'
          /\ (checked \in BOOLEAN /\ panel \in BOOLEAN /\ unrecorded \in BOOLEAN)'
      BY <1>34, <1>0 DEF PCs, Phases, Containers
    <3>2. (mem \in Manifest)'  BY <1>34, <1>0, RepairAssumption, BoundsAssumption DEF Manifest
    <3>3. (status \in [phase: Phases, attempts: 0..RepairLimit, was: BOOLEAN])'
      BY <1>34, <1>0, RepairAssumption, BoundsAssumption DEF Phases
    <3>4. (man \in Manifest)'  BY <1>34, <1>0, RepairAssumption, BoundsAssumption DEF Manifest
    <3>5. (env \in {"orig", "target", "pinned"} /\ control \in {"orig", "mixed", "target"})'
      <4>1. mem.saved \in {"orig", "mixed", "target"}  BY <1>0 DEF Manifest
      <4>2. env' = env /\ control' \in {mem.saved, control, "mixed"}
        BY <1>34 DEF RestoreControl, Ok, FilesRestored, Fail, journal, docker, rest, old, volumes,
           Goto, NoManifest
      <4>3. QED BY <1>0, <4>1, <4>2
    <3>6. (faults \in 0..MaxFaults /\ crashes \in 0..MaxCrashes)'
      BY <1>34, <1>0, RepairAssumption, BoundsAssumption
    <3>7. QED BY <3>1, <3>2, <3>3, <3>4, <3>5, <3>6
  <2>2. WhoRuns'  BY <1>34, <1>0 DEF Phases
  <2>3. Applied'  BY <1>34, <1>0 DEF Containers
  <2>4. SucceededIsTarget'  BY <1>34, <1>0 DEF SucceededIsTarget, Containers
  <2>5. ASSUME ~unrecorded' PROVE Recorded' /\ Knowing'
    <3>u. ~unrecorded  BY <1>34, <1>0, <2>5
    <3>v. Recorded /\ Knowing  BY <1>0, <3>u
    <3>1. Recorded'
      <4>1. (status.phase \in {"none", "rolled_back"} => AsWas)'
        BY <1>34, <1>0, <2>5, <3>u, <3>v DEF Recorded, Knowing, AsWas, OnlyWhat
      <4>2. (status.phase \notin Final \cup {"none"} => IF man.dir = "whole" THEN OnlyWhat(man) ELSE AsWas)'
        BY <1>34, <1>0, <2>5, <3>u, <3>v DEF Recorded, Knowing, AsWas, OnlyWhat
      <4>3. QED BY <4>1, <4>2 DEF Recorded
    <3>2. Knowing'  BY <1>34, <1>0, <2>5, <3>u, <3>v DEF Recorded, Knowing, AsWas, OnlyWhat
    <3>3. QED BY <3>1, <3>2
  <2>6. QED BY <2>1, <2>2, <2>3, <2>4, <2>5 DEF UpdateInv
<1>35. CASE EnsureMod
  <2> USE DEF EnsureMod, Ok, OldImage, Fail, journal, docker, rest, old, volumes, Goto, NoManifest
  <2>1. TypeOK'
    BY <1>35, <1>0, NoManifestTyped, RepairAssumption, BoundsAssumption DEF PCs, Phases, Containers
  <2>2. WhoRuns'  BY <1>35, <1>0 DEF Phases
  <2>3. Applied'  BY <1>35, <1>0 DEF Containers
  <2>4. SucceededIsTarget'  BY <1>35, <1>0 DEF SucceededIsTarget, Containers
  <2>5. ASSUME ~unrecorded' PROVE Recorded' /\ Knowing'
    <3>u. ~unrecorded  BY <1>35, <1>0, <2>5
    <3>v. Recorded /\ Knowing  BY <1>0, <3>u
    <3>1. Recorded'  BY <1>35, <1>0, <2>5, <3>u, <3>v DEF Recorded, Knowing, AsWas, OnlyWhat
    <3>2. Knowing'  BY <1>35, <1>0, <2>5, <3>u, <3>v DEF Recorded, Knowing, AsWas, OnlyWhat
    <3>3. QED BY <3>1, <3>2
  <2>6. QED BY <2>1, <2>2, <2>3, <2>4, <2>5 DEF UpdateInv
<1>36. CASE PinImages
  <2> USE DEF PinImages, Ok, Fail, journal, docker, rest, old, volumes, Goto, NoManifest
  <2>1. TypeOK'
    BY <1>36, <1>0, NoManifestTyped, RepairAssumption, BoundsAssumption DEF PCs, Phases, Containers
  <2>2. WhoRuns'  BY <1>36, <1>0 DEF Phases
  <2>3. Applied'  BY <1>36, <1>0 DEF Containers
  <2>4. SucceededIsTarget'  BY <1>36, <1>0 DEF SucceededIsTarget, Containers
  <2>5. ASSUME ~unrecorded' PROVE Recorded' /\ Knowing'
    <3>u. ~unrecorded  BY <1>36, <1>0, <2>5
    <3>v. Recorded /\ Knowing  BY <1>0, <3>u
    <3>1. Recorded'  BY <1>36, <1>0, <2>5, <3>u, <3>v DEF Recorded, Knowing, AsWas, OnlyWhat
    <3>2. Knowing'  BY <1>36, <1>0, <2>5, <3>u, <3>v DEF Recorded, Knowing, AsWas, OnlyWhat
    <3>3. QED BY <3>1, <3>2
  <2>6. QED BY <2>1, <2>2, <2>3, <2>4, <2>5 DEF UpdateInv
<1>37. CASE RestoreSession
  <2> USE DEF RestoreSession, OldImage, Ok, SessionRestoredNext, volumes, Fail, journal, files,
     rest, old, Goto, NoManifest
  <2>1. TypeOK'
    BY <1>37, <1>0, NoManifestTyped, RepairAssumption, BoundsAssumption DEF PCs, Phases, Containers
  <2>2. WhoRuns'  BY <1>37, <1>0 DEF Phases
  <2>3. Applied'  BY <1>37, <1>0 DEF Containers
  <2>4. SucceededIsTarget'  BY <1>37, <1>0 DEF SucceededIsTarget, Containers
  <2>5. ASSUME ~unrecorded' PROVE Recorded' /\ Knowing'
    <3>u. ~unrecorded  BY <1>37, <1>0, <2>5
    <3>v. Recorded /\ Knowing  BY <1>0, <3>u
    <3>1. Recorded'  BY <1>37, <1>0, <2>5, <3>u, <3>v DEF Recorded, Knowing, AsWas, OnlyWhat
    <3>2. Knowing'  BY <1>37, <1>0, <2>5, <3>u, <3>v DEF Recorded, Knowing, AsWas, OnlyWhat
    <3>3. QED BY <3>1, <3>2
  <2>6. QED BY <2>1, <2>2, <2>3, <2>4, <2>5 DEF UpdateInv
<1>38. CASE KeepStopped
  <2> USE DEF KeepStopped, Stop, journal, files, volumes, old, Ok, Fail, Goto, NoManifest
  <2>1. TypeOK'
    <3>1. /\ (need \in [uses: BOOLEAN, auth: BOOLEAN, server: BOOLEAN])'
          /\ (env \in {"orig", "target", "pinned"} /\ control \in {"orig", "mixed", "target"})'
          /\ (session \in {"orig", "used", "lost"} /\ snapshot \in {"none", "empty", "full"})'
          /\ (images \subseteq {"server", "auth"})'
          /\ (db \in BOOLEAN /\ asked \in {"no", "up", "down"})'
      BY ZenonT(60), <1>38, <1>0 DEF PCs, Phases, Containers
    <3>2. (pc \in PCs)'  BY <1>38, <1>0, RepairAssumption, BoundsAssumption DEF PCs
    <3>3. (mode \in {"none", "apply", "boot", "repair"})'
      BY <1>38, <1>0, RepairAssumption, BoundsAssumption
    <3>4. (mem \in Manifest)'  BY <1>38, <1>0, RepairAssumption, BoundsAssumption DEF Manifest
    <3>5. (status \in [phase: Phases, attempts: 0..RepairLimit, was: BOOLEAN])'
      BY <1>38, <1>0, RepairAssumption, BoundsAssumption DEF Phases
    <3>6. (man \in Manifest)'  BY <1>38, <1>0, RepairAssumption, BoundsAssumption DEF Manifest
    <3>7. (mods \in [active: {"none", "orig", "target"}, backup: {"none", "orig", "target"}, aside: {"none", "orig", "target"}])'
      BY <1>38, <1>0, RepairAssumption, BoundsAssumption
    <3>8. (server \in Containers /\ auth \in Containers)'
      BY <1>38, <1>0, RepairAssumption, BoundsAssumption DEF Containers
    <3>9. (checked \in BOOLEAN /\ panel \in BOOLEAN /\ unrecorded \in BOOLEAN)'
      BY <1>38, <1>0, RepairAssumption, BoundsAssumption
    <3>10. (faults \in 0..MaxFaults /\ crashes \in 0..MaxCrashes)'
      BY <1>38, <1>0, RepairAssumption, BoundsAssumption
    <3>11. QED BY <3>1, <3>2, <3>3, <3>4, <3>5, <3>6, <3>7, <3>8, <3>9, <3>10
  <2>2. WhoRuns'  BY <1>38, <1>0 DEF Phases
  <2>3. Applied'  BY <1>38, <1>0 DEF Containers
  <2>4. SucceededIsTarget'  BY <1>38, <1>0 DEF SucceededIsTarget, Containers
  <2>5. ASSUME ~unrecorded' PROVE Recorded' /\ Knowing'
    <3>u. ~unrecorded  BY <1>38, <1>0, <2>5
    <3>v. Recorded /\ Knowing  BY <1>0, <3>u
    <3>1. Recorded'  BY <1>38, <1>0, <2>5, <3>u, <3>v DEF Recorded, Knowing, AsWas, OnlyWhat
    <3>2. Knowing'  BY <1>38, <1>0, <2>5, <3>u, <3>v DEF Recorded, Knowing, AsWas, OnlyWhat
    <3>3. QED BY <3>1, <3>2
  <2>6. QED BY <2>1, <2>2, <2>3, <2>4, <2>5 DEF UpdateInv
<1>39. CASE OldAuthUp
  <2> USE DEF OldAuthUp, OldImage, Ok, Fail, journal, files, volumes, rest, old, Goto, NoManifest
  <2>1. TypeOK'
    BY <1>39, <1>0, NoManifestTyped, RepairAssumption, BoundsAssumption DEF PCs, Phases, Containers
  <2>2. WhoRuns'  BY <1>39, <1>0 DEF Phases
  <2>3. Applied'  BY <1>39, <1>0 DEF Containers
  <2>4. SucceededIsTarget'  BY <1>39, <1>0 DEF SucceededIsTarget, Containers
  <2>5. ASSUME ~unrecorded' PROVE Recorded' /\ Knowing'
    <3>u. ~unrecorded  BY <1>39, <1>0, <2>5
    <3>v. Recorded /\ Knowing  BY <1>0, <3>u
    <3>1. Recorded'  BY <1>39, <1>0, <2>5, <3>u, <3>v DEF Recorded, Knowing, AsWas, OnlyWhat
    <3>2. Knowing'  BY <1>39, <1>0, <2>5, <3>u, <3>v DEF Recorded, Knowing, AsWas, OnlyWhat
    <3>3. QED BY <3>1, <3>2
  <2>6. QED BY <2>1, <2>2, <2>3, <2>4, <2>5 DEF UpdateInv
<1>40. CASE OldServerUp
  <2> USE DEF OldServerUp, OldImage, Ok, Fail, journal, files, volumes, rest, old, Goto, NoManifest
  <2>1. TypeOK'
    BY <1>40, <1>0, NoManifestTyped, RepairAssumption, BoundsAssumption DEF PCs, Phases, Containers
  <2>2. WhoRuns'  BY <1>40, <1>0 DEF Phases
  <2>3. Applied'  BY <1>40, <1>0 DEF Containers
  <2>4. SucceededIsTarget'  BY <1>40, <1>0 DEF SucceededIsTarget, Containers
  <2>5. ASSUME ~unrecorded' PROVE Recorded' /\ Knowing'
    <3>u. ~unrecorded  BY <1>40, <1>0, <2>5
    <3>v. Recorded /\ Knowing  BY <1>0, <3>u
    <3>1. Recorded'  BY <1>40, <1>0, <2>5, <3>u, <3>v DEF Recorded, Knowing, AsWas, OnlyWhat
    <3>2. Knowing'  BY <1>40, <1>0, <2>5, <3>u, <3>v DEF Recorded, Knowing, AsWas, OnlyWhat
    <3>3. QED BY <3>1, <3>2
  <2>6. QED BY <2>1, <2>2, <2>3, <2>4, <2>5 DEF UpdateInv
<1>41. CASE RestoreOldState
  <2> USE DEF RestoreOldState, Ok, Stop, journal, files, volumes, old, Fail, Goto, NoManifest
  <2>1. TypeOK'
    <3>1. (need \in [uses: BOOLEAN, auth: BOOLEAN, server: BOOLEAN])'
      BY <1>41, <1>0, RepairAssumption, BoundsAssumption
    <3>2. (pc \in PCs)'  BY <1>41, <1>0, RepairAssumption, BoundsAssumption DEF PCs
    <3>3. (mode \in {"none", "apply", "boot", "repair"})'
      BY <1>41, <1>0, RepairAssumption, BoundsAssumption
    <3>4. (mem \in Manifest)'  BY <1>41, <1>0, RepairAssumption, BoundsAssumption DEF Manifest
    <3>5. (status \in [phase: Phases, attempts: 0..RepairLimit, was: BOOLEAN])'
      BY <1>41, <1>0, RepairAssumption, BoundsAssumption DEF Phases
    <3>6. (man \in Manifest)'  BY <1>41, <1>0, RepairAssumption, BoundsAssumption DEF Manifest
    <3>7. (env \in {"orig", "target", "pinned"} /\ control \in {"orig", "mixed", "target"})'
      BY <1>41, <1>0, RepairAssumption, BoundsAssumption
    <3>8. (mods \in [active: {"none", "orig", "target"}, backup: {"none", "orig", "target"}, aside: {"none", "orig", "target"}])'
      BY <1>41, <1>0, RepairAssumption, BoundsAssumption
    <3>9. (server \in Containers /\ auth \in Containers)'
      BY <1>41, <1>0, RepairAssumption, BoundsAssumption DEF Containers
    <3>10. (session \in {"orig", "used", "lost"} /\ snapshot \in {"none", "empty", "full"})'
      BY <1>41, <1>0, RepairAssumption, BoundsAssumption
    <3>11. (images \subseteq {"server", "auth"})'
      BY <1>41, <1>0, RepairAssumption, BoundsAssumption
    <3>12. (db \in BOOLEAN /\ asked \in {"no", "up", "down"})'
      BY <1>41, <1>0, RepairAssumption, BoundsAssumption
    <3>13. (checked \in BOOLEAN /\ panel \in BOOLEAN /\ unrecorded \in BOOLEAN)'
      BY <1>41, <1>0, RepairAssumption, BoundsAssumption
    <3>14. (faults \in 0..MaxFaults /\ crashes \in 0..MaxCrashes)'
      <4>1. (faults' = faults \/ (faults < MaxFaults /\ faults' = faults + 1)) /\ crashes' = crashes
        BY <1>41 DEF RestoreOldState, Ok, Stop, journal, files, volumes, old, Fail, Goto, NoManifest
      <4>2. QED BY <1>0, <4>1, BoundsAssumption
    <3>15. QED BY <3>1, <3>2, <3>3, <3>4, <3>5, <3>6, <3>7, <3>8, <3>9, <3>10, <3>11, <3>12, <3>13,
         <3>14 DEF TypeOK
  <2>2. WhoRuns'  BY <1>41, <1>0 DEF Phases
  <2>3. Applied'  BY <1>41, <1>0 DEF Containers
  <2>4. SucceededIsTarget'  BY <1>41, <1>0 DEF SucceededIsTarget, Containers
  <2>5. ASSUME ~unrecorded' PROVE Recorded' /\ Knowing'
    <3>u. ~unrecorded  BY <1>41, <1>0, <2>5
    <3>v. Recorded /\ Knowing  BY <1>0, <3>u
    <3>1. Recorded'  BY <1>41, <1>0, <2>5, <3>u, <3>v DEF Recorded, Knowing, AsWas, OnlyWhat
    <3>2. Knowing'  BY <1>41, <1>0, <2>5, <3>u, <3>v DEF Recorded, Knowing, AsWas, OnlyWhat
    <3>3. QED BY <3>1, <3>2
  <2>6. QED BY <2>1, <2>2, <2>3, <2>4, <2>5 DEF UpdateInv
<1>42. CASE Unpin
  <2> USE DEF Unpin, Ok, Fail, journal, docker, rest, old, volumes, Goto, NoManifest
  <2>1. TypeOK'
    BY <1>42, <1>0, NoManifestTyped, RepairAssumption, BoundsAssumption DEF PCs, Phases, Containers
  <2>2. WhoRuns'  BY <1>42, <1>0 DEF Phases
  <2>3. Applied'  BY <1>42, <1>0 DEF Containers
  <2>4. SucceededIsTarget'  BY <1>42, <1>0 DEF SucceededIsTarget, Containers
  <2>5. ASSUME ~unrecorded' PROVE Recorded' /\ Knowing'
    <3>u. ~unrecorded  BY <1>42, <1>0, <2>5
    <3>v. Recorded /\ Knowing  BY <1>0, <3>u
    <3>1. Recorded'  BY <1>42, <1>0, <2>5, <3>u, <3>v DEF Recorded, Knowing, AsWas, OnlyWhat
    <3>2. Knowing'  BY <1>42, <1>0, <2>5, <3>u, <3>v DEF Recorded, Knowing, AsWas, OnlyWhat
    <3>3. QED BY <3>1, <3>2
  <2>6. QED BY <2>1, <2>2, <2>3, <2>4, <2>5 DEF UpdateInv
<1>43. CASE RollbackFailed
  <2> USE DEF RollbackFailed, Ok, Phase, Fail, docker, rest, old, volumes, Goto, NoManifest
  <2>1. TypeOK'
    <3>1. WorldTyped'  BY <1>43, <1>0 DEF PCs, Phases, Containers
    <3>2. (mem \in Manifest)'
      <4>1. mem' = mem \/ mem' = NoManifest
        BY <1>43, <1>0 DEF RollbackFailed, Ok, Phase, Fail, docker, rest, old, volumes, Goto, NoManifest
      <4>9. QED BY <1>0, <4>1, NoManifestTyped
    <3>3. (status \in [phase: Phases, attempts: 0..RepairLimit, was: BOOLEAN])'
      BY <1>43, <1>0, RepairAssumption, BoundsAssumption DEF Phases
    <3>4. (man \in Manifest)'  BY <1>43, <1>0, RepairAssumption, BoundsAssumption DEF Manifest
    <3>5. (faults \in 0..MaxFaults /\ crashes \in 0..MaxCrashes)'
      BY <1>43, <1>0, RepairAssumption, BoundsAssumption
    <3>6. QED BY <3>1, <3>2, <3>3, <3>4, <3>5
  <2>2. WhoRuns'  BY <1>43, <1>0 DEF Phases
  <2>3. Applied'  BY <1>43, <1>0 DEF Containers
  <2>4. SucceededIsTarget'  BY <1>43, <1>0 DEF SucceededIsTarget, Containers
  <2>5. ASSUME ~unrecorded' PROVE Recorded' /\ Knowing'
    <3>u. ~unrecorded  BY <1>43, <1>0, <2>5
    <3>v. Recorded /\ Knowing  BY <1>0, <3>u
    <3>1. Recorded'  BY <1>43, <1>0, <2>5, <3>u, <3>v DEF Recorded, Knowing, AsWas, OnlyWhat
    <3>2. Knowing'  BY <1>43, <1>0, <2>5, <3>u, <3>v DEF Recorded, Knowing, AsWas, OnlyWhat
    <3>3. QED BY <3>1, <3>2
  <2>6. QED BY <2>1, <2>2, <2>3, <2>4, <2>5 DEF UpdateInv
<1>44. CASE RolledBack
  <2> USE DEF RolledBack, Ok, Phase, Fail, files, docker, rest, old, volumes, Goto, NoManifest
  <2>1. TypeOK'
    <3>1. WorldTyped'  BY <1>44, <1>0 DEF PCs, Phases, Containers
    <3>2. (mem \in Manifest)'
      <4>1. mem' = mem \/ mem' = NoManifest
        BY <1>44, <1>0 DEF RolledBack, Ok, Phase, Fail, files, docker, rest, old, volumes, Goto, NoManifest
      <4>9. QED BY <1>0, <4>1, NoManifestTyped
    <3>3. (status \in [phase: Phases, attempts: 0..RepairLimit, was: BOOLEAN])'
      BY <1>44, <1>0, RepairAssumption, BoundsAssumption DEF Phases
    <3>4. (man \in Manifest)'  BY <1>44, <1>0, RepairAssumption, BoundsAssumption DEF Manifest
    <3>5. (faults \in 0..MaxFaults /\ crashes \in 0..MaxCrashes)'
      BY <1>44, <1>0, RepairAssumption, BoundsAssumption
    <3>6. QED BY <3>1, <3>2, <3>3, <3>4, <3>5
  <2>2. WhoRuns'  BY <1>44, <1>0 DEF Phases
  <2>3. Applied'  BY <1>44, <1>0 DEF Containers
  <2>4. SucceededIsTarget'  BY <1>44, <1>0 DEF SucceededIsTarget, Containers
  <2>5. ASSUME ~unrecorded' PROVE Recorded' /\ Knowing'
    <3>u. ~unrecorded  BY <1>44, <1>0, <2>5
    <3>v. Recorded /\ Knowing  BY <1>0, <3>u
    <3>1. Recorded'  BY <1>44, <1>0, <2>5, <3>u, <3>v DEF Recorded, Knowing, AsWas, OnlyWhat
    <3>2. Knowing'  BY <1>44, <1>0, <2>5, <3>u, <3>v DEF Recorded, Knowing, AsWas, OnlyWhat
    <3>3. QED BY <3>1, <3>2
  <2>6. QED BY <2>1, <2>2, <2>3, <2>4, <2>5 DEF UpdateInv
<1>45. CASE CleanRolledBack
  <2> USE DEF CleanRolledBack, Ok, Fail, journal, files, rest, old, Goto, NoManifest
  <2>1. TypeOK'
    BY <1>45, <1>0, NoManifestTyped, RepairAssumption, BoundsAssumption DEF PCs, Phases, Containers
  <2>2. WhoRuns'  BY <1>45, <1>0 DEF Phases
  <2>3. Applied'  BY <1>45, <1>0 DEF Containers
  <2>4. SucceededIsTarget'  BY <1>45, <1>0 DEF SucceededIsTarget, Containers
  <2>5. ASSUME ~unrecorded' PROVE Recorded' /\ Knowing'
    <3>u. ~unrecorded  BY <1>45, <1>0, <2>5
    <3>v. Recorded /\ Knowing  BY <1>0, <3>u
    <3>1. Recorded'  BY <1>45, <1>0, <2>5, <3>u, <3>v DEF Recorded, Knowing, AsWas, OnlyWhat
    <3>2. Knowing'  BY <1>45, <1>0, <2>5, <3>u, <3>v DEF Recorded, Knowing, AsWas, OnlyWhat
    <3>3. QED BY <3>1, <3>2
  <2>6. QED BY <2>1, <2>2, <2>3, <2>4, <2>5 DEF UpdateInv
<1>46. CASE CleanRepaired
  <2> USE DEF CleanRepaired, Ok, Finish, files, rest, old, Fail, Phase, Goto, NoManifest
  <2>1. TypeOK'
    <3>1. WorldTyped'  BY <1>46, <1>0 DEF PCs, Phases, Containers
    <3>2. (mem \in Manifest)'
      <4>1. mem' = mem \/ mem' = NoManifest
        BY <1>46, <1>0 DEF CleanRepaired, Ok, Finish, files, rest, old, Fail, Phase, Goto, NoManifest
      <4>9. QED BY <1>0, <4>1, NoManifestTyped
    <3>3. (status \in [phase: Phases, attempts: 0..RepairLimit, was: BOOLEAN])'
      BY <1>46, <1>0, RepairAssumption, BoundsAssumption DEF Phases
    <3>4. (man \in Manifest)'  BY <1>46, <1>0, RepairAssumption, BoundsAssumption DEF Manifest
    <3>5. (faults \in 0..MaxFaults /\ crashes \in 0..MaxCrashes)'
      BY <1>46, <1>0, RepairAssumption, BoundsAssumption
    <3>6. QED BY <3>1, <3>2, <3>3, <3>4, <3>5
  <2>2. WhoRuns'  BY <1>46, <1>0 DEF Phases
  <2>3. Applied'  BY <1>46, <1>0 DEF Containers
  <2>4. SucceededIsTarget'  BY <1>46, <1>0 DEF SucceededIsTarget, Containers
  <2>5. ASSUME ~unrecorded' PROVE Recorded' /\ Knowing'
    <3>u. ~unrecorded  BY <1>46, <1>0, <2>5
    <3>v. Recorded /\ Knowing  BY <1>0, <3>u
    <3>1. Recorded'  BY <1>46, <1>0, <2>5, <3>u, <3>v DEF Recorded, Knowing, AsWas, OnlyWhat
    <3>2. Knowing'  BY <1>46, <1>0, <2>5, <3>u, <3>v DEF Recorded, Knowing, AsWas, OnlyWhat
    <3>3. QED BY <3>1, <3>2
  <2>6. QED BY <2>1, <2>2, <2>3, <2>4, <2>5 DEF UpdateInv
<1>47. CASE DiscardRepaired
  <2> USE DEF DiscardRepaired, Ok, Forget, Finish, docker, rest, old, volumes, Fail, Phase, Goto,
     NoManifest
  <2>1. TypeOK'
    <3>1. /\ (need \in [uses: BOOLEAN, auth: BOOLEAN, server: BOOLEAN])'
          /\ (env \in {"orig", "target", "pinned"} /\ control \in {"orig", "mixed", "target"})'
          /\ (session \in {"orig", "used", "lost"} /\ snapshot \in {"none", "empty", "full"})'
          /\ (images \subseteq {"server", "auth"})'
          /\ (db \in BOOLEAN /\ asked \in {"no", "up", "down"})'
      BY <1>47, <1>0 DEF PCs, Phases, Containers
    <3>2. (pc \in PCs)'  BY <1>47, <1>0, RepairAssumption, BoundsAssumption DEF PCs
    <3>3. (mode \in {"none", "apply", "boot", "repair"})'
      BY <1>47, <1>0, RepairAssumption, BoundsAssumption
    <3>4. (mem \in Manifest)'
      <4>1. mem' = mem \/ mem' = NoManifest
        BY <1>47, <1>0 DEF DiscardRepaired, Ok, Forget, Finish, docker, rest, old, volumes, Fail, Phase, Goto,
           NoManifest
      <4>9. QED BY <1>0, <4>1, NoManifestTyped
    <3>5. (status \in [phase: Phases, attempts: 0..RepairLimit, was: BOOLEAN])'
      BY <1>47, <1>0, RepairAssumption, BoundsAssumption DEF Phases
    <3>6. (man \in Manifest)'
      <4>1. man' = man \/ man' = NoManifest \/ man' = [man EXCEPT !.dir = "torn"]
        BY <1>47, <1>0 DEF DiscardRepaired, Ok, Forget, Finish, docker, rest, old, volumes, Fail, Phase, Goto,
           NoManifest
      <4>2. [man EXCEPT !.dir = "torn"] \in Manifest
        BY <1>0, NoManifestTyped DEF Manifest, NoManifest
      <4>9. QED BY <1>0, <4>1, NoManifestTyped, <4>2
    <3>7. (mods \in [active: {"none", "orig", "target"}, backup: {"none", "orig", "target"}, aside: {"none", "orig", "target"}])'
      BY <1>47, <1>0, RepairAssumption, BoundsAssumption
    <3>8. (server \in Containers /\ auth \in Containers)'
      BY <1>47, <1>0, RepairAssumption, BoundsAssumption DEF Containers
    <3>9. (checked \in BOOLEAN /\ panel \in BOOLEAN /\ unrecorded \in BOOLEAN)'
      BY <1>47, <1>0, RepairAssumption, BoundsAssumption
    <3>10. (faults \in 0..MaxFaults /\ crashes \in 0..MaxCrashes)'
      BY <1>47, <1>0, RepairAssumption, BoundsAssumption
    <3>11. QED BY <3>1, <3>2, <3>3, <3>4, <3>5, <3>6, <3>7, <3>8, <3>9, <3>10
  <2>2. WhoRuns'  BY <1>47, <1>0 DEF Phases
  <2>3. Applied'  BY <1>47, <1>0 DEF Containers
  <2>4. SucceededIsTarget'  BY <1>47, <1>0 DEF SucceededIsTarget, Containers
  <2>5. ASSUME ~unrecorded' PROVE Recorded' /\ Knowing'
    <3>u. ~unrecorded
      BY <1>47, <1>0, <2>5 DEF DiscardRepaired, Ok, Forget, Finish, docker, rest, old, volumes, Fail, Phase, Goto,
         NoManifest
    <3>v. Recorded /\ Knowing  BY <1>0, <3>u
    <3>1. /\ pc = "rdir" /\ AsWas /\ status.phase \notin Final \cup {"none"}
      BY <1>47, <1>0, <3>v DEF Recorded, Knowing, Unbegun, Untouched, BeforeMod, LastSteps, Verified, Written,
         Modded, Forwarding, Restoring, AfterUndo, Rolling, BootSteps, DiscardRepaired
    <3>2. /\ UNCHANGED <<env, control, server, auth, session, need>>
          /\ mods'.active = mods.active /\ mods'.backup \in {"none", mods.backup}
          /\ \/ pc' = "rdir" /\ status' = status /\ man' = [man EXCEPT !.dir = "torn"]
             \/ pc' = "retry" /\ status' = status /\ man' = NoManifest
             \/ pc' = "idle" /\ man' = man /\ (status' = status \/ status'.phase = "rollback_failed")
      BY <1>47, <1>0 DEF DiscardRepaired, Ok, Forget, Finish, docker, rest, old, volumes, Fail, Phase, Goto,
         NoManifest
    <3>3. AsWas'  BY <3>1, <3>2 DEF AsWas
    <3>4. man'.dir = "whole" => man' = man /\ man.dir = "whole"
      BY <1>0, <3>2 DEF NoManifest, Manifest
    <3>5. man'.dir = "whole" => OnlyWhat(man)'
      <4>1. man.dir = "whole" => OnlyWhat(man)  BY <3>v, <3>1 DEF Recorded
      <4>2. QED BY <3>2, <3>3, <3>4, <4>1, <3>1 DEF OnlyWhat, AsWas
    <3>6. Recorded'  BY <3>3, <3>5 DEF Recorded
    <3>7. QED
      BY <3>2, <3>3, <3>6 DEF Knowing, NoManifest, Unbegun, Untouched, BeforeMod, LastSteps,
         Verified, Written, Modded, Forwarding, Restoring, AfterUndo, Rolling, BootSteps
  <2>6. QED BY <2>1, <2>2, <2>3, <2>4, <2>5 DEF UpdateInv
<1>48. CASE Retry
  <2> USE DEF Retry, NoManifest, Phase, Finish, files, docker, rest, old, volumes, Fail, Goto
  <2>1. TypeOK'
    <3>1. WorldTyped'  BY <1>48, <1>0 DEF PCs, Phases, Containers
    <3>2. (mem \in Manifest)'
      <4>1. mem' = mem \/ mem' = NoManifest
        BY <1>48, <1>0 DEF Retry, NoManifest, Phase, Finish, files, docker, rest, old, volumes, Fail, Goto
      <4>9. QED BY <1>0, <4>1, NoManifestTyped
    <3>3. (status \in [phase: Phases, attempts: 0..RepairLimit, was: BOOLEAN])'
      BY <1>48, <1>0, RepairAssumption, BoundsAssumption DEF Phases
    <3>4. (man \in Manifest)'  BY <1>48, <1>0, RepairAssumption, BoundsAssumption DEF Manifest
    <3>5. (faults \in 0..MaxFaults /\ crashes \in 0..MaxCrashes)'
      BY <1>48, <1>0, RepairAssumption, BoundsAssumption
    <3>6. QED BY <3>1, <3>2, <3>3, <3>4, <3>5
  <2>2. WhoRuns'  BY <1>48, <1>0 DEF Phases
  <2>3. Applied'  BY <1>48, <1>0 DEF Containers
  <2>4. SucceededIsTarget'  BY <1>48, <1>0 DEF SucceededIsTarget, Containers
  <2>5. ASSUME ~unrecorded' PROVE Recorded' /\ Knowing'
    <3>u. ~unrecorded  BY <1>48, <1>0, <2>5
    <3>v. Recorded /\ Knowing  BY <1>0, <3>u
    <3>1. Recorded'  BY <1>48, <1>0, <2>5, <3>u, <3>v DEF Recorded, Knowing, AsWas, OnlyWhat
    <3>2. Knowing'  BY <1>48, <1>0, <2>5, <3>u, <3>v DEF Recorded, Knowing, AsWas, OnlyWhat
    <3>3. QED BY <3>1, <3>2
  <2>6. QED BY <2>1, <2>2, <2>3, <2>4, <2>5 DEF UpdateInv
<1>49. CASE BootSettles
  <2> USE DEF BootSettles, InFlight, Early, BeforeChange, Uncertain, job, volumes, old, Phase,
     Forget, journal, NoManifest, Terminal, Final
  <2>1. TypeOK'
    <3>1. (need \in [uses: BOOLEAN, auth: BOOLEAN, server: BOOLEAN])'
      BY <1>49, <1>0, RepairAssumption, BoundsAssumption
    <3>2. (pc \in PCs)'  BY <1>49, <1>0, RepairAssumption, BoundsAssumption DEF PCs
    <3>3. (mode \in {"none", "apply", "boot", "repair"})'
      BY <1>49, <1>0, RepairAssumption, BoundsAssumption
    <3>4. (mem \in Manifest)'  BY <1>49, <1>0, RepairAssumption, BoundsAssumption DEF Manifest
    <3>5. (status \in [phase: Phases, attempts: 0..RepairLimit, was: BOOLEAN])'
      BY <1>49, <1>0, RepairAssumption, BoundsAssumption DEF Phases
    <3>6. (man \in Manifest)'
      <4>1. man' = man \/ man' = NoManifest
        BY <1>49, <1>0 DEF BootSettles, BeforeChange, Uncertain, job, volumes, old, Phase, Forget, journal,
           NoManifest
      <4>9. QED BY <1>0, <4>1, NoManifestTyped
    <3>7. (env \in {"orig", "target", "pinned"} /\ control \in {"orig", "mixed", "target"})'
      BY <1>49, <1>0, RepairAssumption, BoundsAssumption
    <3>8. (mods \in [active: {"none", "orig", "target"}, backup: {"none", "orig", "target"}, aside: {"none", "orig", "target"}])'
      BY <1>49, <1>0, RepairAssumption, BoundsAssumption
    <3>9. (server \in Containers /\ auth \in Containers)'
      BY <1>49, <1>0, RepairAssumption, BoundsAssumption DEF Containers
    <3>10. (session \in {"orig", "used", "lost"} /\ snapshot \in {"none", "empty", "full"})'
      BY <1>49, <1>0, RepairAssumption, BoundsAssumption
    <3>11. (images \subseteq {"server", "auth"})'
      BY <1>49, <1>0, RepairAssumption, BoundsAssumption
    <3>12. (db \in BOOLEAN /\ asked \in {"no", "up", "down"})'
      BY <1>49, <1>0, RepairAssumption, BoundsAssumption
    <3>13. (checked \in BOOLEAN /\ panel \in BOOLEAN /\ unrecorded \in BOOLEAN)'
      BY <1>49, <1>0, RepairAssumption, BoundsAssumption
    <3>14. (faults \in 0..MaxFaults /\ crashes \in 0..MaxCrashes)'
      BY <1>49, <1>0, RepairAssumption, BoundsAssumption
    <3>15. QED BY <3>1, <3>2, <3>3, <3>4, <3>5, <3>6, <3>7, <3>8, <3>9, <3>10, <3>11, <3>12, <3>13,
         <3>14 DEF TypeOK
  <2>2. WhoRuns'  BY <1>49, <1>0 DEF Phases
  <2>3. Applied'  BY <1>49, <1>0 DEF Containers
  <2>4. SucceededIsTarget'  BY <1>49, <1>0 DEF SucceededIsTarget, Containers
  <2>5. ASSUME ~unrecorded' PROVE Recorded' /\ Knowing'
    <3>u. ~unrecorded  BY <1>49, <1>0, <2>5
    <3>v. Recorded /\ Knowing  BY <1>0, <3>u
    <3>1. Recorded'
      BY ZenonT(60), <1>49, <1>0, <2>5, <3>u, <3>v DEF Recorded, Knowing, AsWas, OnlyWhat
    <3>2. Knowing'  BY <1>49, <1>0, <2>5, <3>u, <3>v DEF Recorded, Knowing, AsWas, OnlyWhat
    <3>3. QED BY <3>1, <3>2
  <2>6. QED BY <2>1, <2>2, <2>3, <2>4, <2>5 DEF UpdateInv
<1>50. CASE BootRollsBack
  <2> USE DEF BootRollsBack, InFlight, job, journal, files, docker, old, volumes, Terminal, Final
  <2>1. TypeOK'
    BY <1>50, <1>0, NoManifestTyped, RepairAssumption, BoundsAssumption DEF PCs, Phases, Containers
  <2>2. WhoRuns'  BY <1>50, <1>0 DEF Phases
  <2>3. Applied'  BY <1>50, <1>0 DEF Containers
  <2>4. SucceededIsTarget'  BY <1>50, <1>0 DEF SucceededIsTarget, Containers
  <2>5. ASSUME ~unrecorded' PROVE Recorded' /\ Knowing'
    <3>u. ~unrecorded  BY <1>50, <1>0, <2>5
    <3>v. Recorded /\ Knowing  BY <1>0, <3>u
    <3>1. Recorded'
      BY <1>50, <1>0, <2>5, <3>u, <3>v DEF Recorded, Knowing, AsWas, OnlyWhat, NoManifest
    <3>2. Knowing'
      BY <1>50, <1>0, <2>5, <3>u, <3>v DEF Recorded, Knowing, AsWas, OnlyWhat, NoManifest
    <3>3. QED BY <3>1, <3>2
  <2>6. QED BY <2>1, <2>2, <2>3, <2>4, <2>5 DEF UpdateInv
<1>51. CASE BootCleans
  <2> USE DEF BootCleans, InFlight, Final, Forget, job, old, NoManifest, Terminal
  <2>1. TypeOK'
    <3>1. /\ (need \in [uses: BOOLEAN, auth: BOOLEAN, server: BOOLEAN])'
          /\ (env \in {"orig", "target", "pinned"} /\ control \in {"orig", "mixed", "target"})'
          /\ (session \in {"orig", "used", "lost"} /\ snapshot \in {"none", "empty", "full"})'
          /\ (images \subseteq {"server", "auth"})'
          /\ (db \in BOOLEAN /\ asked \in {"no", "up", "down"})'
      BY <1>51, <1>0 DEF PCs, Phases, Containers
    <3>2. (pc \in PCs)'  BY <1>51, <1>0, RepairAssumption, BoundsAssumption DEF PCs
    <3>3. (mode \in {"none", "apply", "boot", "repair"})'
      BY <1>51, <1>0, RepairAssumption, BoundsAssumption
    <3>4. (mem \in Manifest)'  BY <1>51, <1>0, RepairAssumption, BoundsAssumption DEF Manifest
    <3>5. (status \in [phase: Phases, attempts: 0..RepairLimit, was: BOOLEAN])'
      BY <1>51, <1>0, RepairAssumption, BoundsAssumption DEF Phases
    <3>6. (man \in Manifest)'
      <4>1. man' = man \/ man' = NoManifest
        BY <1>51, <1>0 DEF BootCleans, Forget, job, old, NoManifest
      <4>9. QED BY <1>0, <4>1, NoManifestTyped
    <3>7. (mods \in [active: {"none", "orig", "target"}, backup: {"none", "orig", "target"}, aside: {"none", "orig", "target"}])'
      BY <1>51, <1>0, RepairAssumption, BoundsAssumption
    <3>8. (server \in Containers /\ auth \in Containers)'
      BY <1>51, <1>0, RepairAssumption, BoundsAssumption DEF Containers
    <3>9. (checked \in BOOLEAN /\ panel \in BOOLEAN /\ unrecorded \in BOOLEAN)'
      BY <1>51, <1>0, RepairAssumption, BoundsAssumption
    <3>10. (faults \in 0..MaxFaults /\ crashes \in 0..MaxCrashes)'
      BY <1>51, <1>0, RepairAssumption, BoundsAssumption
    <3>11. QED BY <3>1, <3>2, <3>3, <3>4, <3>5, <3>6, <3>7, <3>8, <3>9, <3>10
  <2>2. WhoRuns'  BY <1>51, <1>0 DEF Phases
  <2>3. Applied'  BY <1>51, <1>0 DEF Containers
  <2>4. SucceededIsTarget'  BY <1>51, <1>0 DEF SucceededIsTarget, Containers
  <2>5. ASSUME ~unrecorded' PROVE Recorded' /\ Knowing'
    <3>u. ~unrecorded  BY <1>51, <1>0, <2>5
    <3>v. Recorded /\ Knowing  BY <1>0, <3>u
    <3>1. Recorded'
      <4>1. (status.phase \in {"none", "rolled_back"} => AsWas)'
        BY <1>51, <1>0, <2>5, <3>u, <3>v DEF Recorded, Knowing, AsWas, OnlyWhat
      <4>2. (status.phase \notin Final \cup {"none"} => IF man.dir = "whole" THEN OnlyWhat(man) ELSE AsWas)'
        BY <1>51, <1>0, <2>5, <3>u, <3>v DEF Recorded, Knowing, AsWas, OnlyWhat
      <4>3. QED BY <4>1, <4>2 DEF Recorded
    <3>2. Knowing'  BY <1>51, <1>0, <2>5, <3>u, <3>v DEF Recorded, Knowing, AsWas, OnlyWhat
    <3>3. QED BY <3>1, <3>2
  <2>6. QED BY <2>1, <2>2, <2>3, <2>4, <2>5 DEF UpdateInv
<1>52. CASE DryRun
  <2> USE DEF DryRun, Free, job, journal, files, docker, old, volumes
  <2>1. TypeOK'
    BY <1>52, <1>0, NoManifestTyped, RepairAssumption, BoundsAssumption DEF PCs, Phases, Containers
  <2>2. WhoRuns'  BY <1>52, <1>0 DEF Phases
  <2>3. Applied'  BY <1>52, <1>0 DEF Containers
  <2>4. SucceededIsTarget'  BY <1>52, <1>0 DEF SucceededIsTarget, Containers
  <2>5. ASSUME ~unrecorded' PROVE Recorded' /\ Knowing'
    <3>u. ~unrecorded  BY <1>52, <1>0, <2>5
    <3>v. Recorded /\ Knowing  BY <1>0, <3>u
    <3>1. Recorded'
      BY <1>52, <1>0, <2>5, <3>u, <3>v DEF Recorded, Knowing, AsWas, OnlyWhat, NoManifest
    <3>2. Knowing'
      BY <1>52, <1>0, <2>5, <3>u, <3>v DEF Recorded, Knowing, AsWas, OnlyWhat, NoManifest
    <3>3. QED BY <3>1, <3>2
  <2>6. QED BY <2>1, <2>2, <2>3, <2>4, <2>5 DEF UpdateInv
<1>53. CASE Ask
  <2> USE DEF Ask, Free, job, journal, files, docker, old, volumes
  <2>1. TypeOK'
    BY <1>53, <1>0, NoManifestTyped, RepairAssumption, BoundsAssumption DEF PCs, Phases, Containers
  <2>2. WhoRuns'  BY <1>53, <1>0 DEF Phases
  <2>3. Applied'  BY <1>53, <1>0 DEF Containers
  <2>4. SucceededIsTarget'  BY <1>53, <1>0 DEF SucceededIsTarget, Containers
  <2>5. ASSUME ~unrecorded' PROVE Recorded' /\ Knowing'
    <3>u. ~unrecorded  BY <1>53, <1>0, <2>5
    <3>v. Recorded /\ Knowing  BY <1>0, <3>u
    <3>1. Recorded'
      BY <1>53, <1>0, <2>5, <3>u, <3>v DEF Recorded, Knowing, AsWas, OnlyWhat, NoManifest
    <3>2. Knowing'
      BY <1>53, <1>0, <2>5, <3>u, <3>v DEF Recorded, Knowing, AsWas, OnlyWhat, NoManifest
    <3>3. QED BY <3>1, <3>2
  <2>6. QED BY <2>1, <2>2, <2>3, <2>4, <2>5 DEF UpdateInv
<1>54. CASE StartApply
  <2> USE DEF StartApply, Free, Launch, NoManifest, NewDirectory, InFlight, Terminal, Final,
     Forget, job
  <2>1. TypeOK'
    <3>1. /\ (need \in [uses: BOOLEAN, auth: BOOLEAN, server: BOOLEAN])'
          /\ (env \in {"orig", "target", "pinned"} /\ control \in {"orig", "mixed", "target"})'
          /\ (session \in {"orig", "used", "lost"} /\ snapshot \in {"none", "empty", "full"})'
          /\ (images \subseteq {"server", "auth"})'
          /\ (db \in BOOLEAN /\ asked \in {"no", "up", "down"})'
      BY <1>54, <1>0 DEF PCs, Phases, Containers
    <3>2. (pc \in PCs)'  BY <1>54, <1>0, RepairAssumption, BoundsAssumption DEF PCs
    <3>3. (mode \in {"none", "apply", "boot", "repair"})'
      BY <1>54, <1>0, RepairAssumption, BoundsAssumption
    <3>4. (mem \in Manifest)'
      <4>1. mem' = mem \/ mem' = NoManifest
        BY <1>54, <1>0 DEF StartApply, Free, Launch, NoManifest, NewDirectory, Forget, job
      <4>9. QED BY <1>0, <4>1, NoManifestTyped
    <3>5. (status \in [phase: Phases, attempts: 0..RepairLimit, was: BOOLEAN])'
      <4>1. status' = status \/ (status' = [phase |-> "preparing", attempts |-> 0, was |-> (asked = "up")] /\ TRUE)
        BY <1>54 DEF StartApply, Free, Launch, NoManifest, NewDirectory, Forget, job
      <4>2. status \in [phase: Phases, attempts: 0..RepairLimit, was: BOOLEAN] /\ (asked = "up") \in BOOLEAN
        BY <1>0
      <4>3. TRUE => 0 \in 0..RepairLimit  BY <4>2, RepairAssumption
      <4>4. \A n \in 0..RepairLimit, b \in BOOLEAN :
               [phase |-> "preparing", attempts |-> n, was |-> b] \in [phase: Phases, attempts: 0..RepairLimit, was: BOOLEAN]
        BY DEF Phases
      <4>5. QED BY <4>1, <4>2, <4>3, <4>4
    <3>6. (man \in Manifest)'
      <4>1. man' = man \/ man' = NoManifest
        BY <1>54, <1>0 DEF StartApply, Free, Launch, NoManifest, NewDirectory, Forget, job
      <4>9. QED BY <1>0, <4>1, NoManifestTyped
    <3>7. (mods \in [active: {"none", "orig", "target"}, backup: {"none", "orig", "target"}, aside: {"none", "orig", "target"}])'
      BY <1>54, <1>0, RepairAssumption, BoundsAssumption
    <3>8. (server \in Containers /\ auth \in Containers)'
      BY <1>54, <1>0, RepairAssumption, BoundsAssumption DEF Containers
    <3>9. (checked \in BOOLEAN /\ panel \in BOOLEAN /\ unrecorded \in BOOLEAN)'
      BY <1>54, <1>0, RepairAssumption, BoundsAssumption
    <3>10. (faults \in 0..MaxFaults /\ crashes \in 0..MaxCrashes)'
      BY <1>54, <1>0, RepairAssumption, BoundsAssumption
    <3>11. QED BY <3>1, <3>2, <3>3, <3>4, <3>5, <3>6, <3>7, <3>8, <3>9, <3>10
  <2>2. WhoRuns'  BY <1>54, <1>0 DEF Phases
  <2>3. Applied'  BY <1>54, <1>0 DEF Containers
  <2>4. SucceededIsTarget'  BY <1>54, <1>0 DEF SucceededIsTarget, Containers
  <2>5. ASSUME ~unrecorded' PROVE Recorded' /\ Knowing'
    <3>u. ~unrecorded
      BY <1>54, <1>0, <2>5 DEF StartApply, Free, Launch, NoManifest, NewDirectory, Forget, job
    <3>v. Recorded /\ Knowing  BY <1>0, <3>u
    <3>0. pc' # "idle" => ~InFlight  BY <1>54, <2>5 DEF StartApply
    <3>1. /\ pc = "idle"
          /\ UNCHANGED <<env, control, server, auth, session, need>>
          /\ \/ UNCHANGED <<status, man, mods, pc, mem>>
             \/ /\ pc' = "prepare" /\ man' = NoManifest /\ status'.phase \in Early /\ mods' = [mods EXCEPT !.backup = "none", !.aside = "none"]
                /\ env = "orig" /\ status.phase # "rollback_failed" /\ ~InFlight
      BY <1>54, <3>0 DEF StartApply, Free, Launch, NoManifest, NewDirectory, Forget, job
    <3>2. CASE UNCHANGED <<status, man, mods, pc, mem>>
      BY <3>1, <3>2, <3>v DEF Recorded, Knowing, AsWas, OnlyWhat, Unbegun, Untouched, BeforeMod,
         LastSteps, Verified, Written, Modded, Forwarding, Restoring, AfterUndo, Rolling, BootSteps
    <3>3. CASE /\ pc' = "prepare" /\ man' = NoManifest /\ status'.phase \in Early /\ mods' = [mods EXCEPT !.backup = "none", !.aside = "none"]
               /\ env = "orig" /\ status.phase # "rollback_failed" /\ ~InFlight
      <4>1. status.phase \in {"none", "rolled_back"}
        BY <1>0, <3>3, <3>u DEF SucceededIsTarget, Phases
      <4>2. AsWas  BY <3>v, <4>1 DEF Recorded
      <4>3. mods'.active = mods.active /\ mods'.backup = "none"  BY <1>0, <3>3
      <4>4. AsWas'  BY <3>1, <4>2, <4>3 DEF AsWas
      <4>5. QED
        BY <3>3, <4>4 DEF Recorded, Knowing, NoManifest, Unbegun, Untouched, BeforeMod, LastSteps, Verified,
           Written, Modded, Forwarding, Restoring, AfterUndo, Rolling, BootSteps
    <3>4. QED BY <3>1, <3>2, <3>3
  <2>6. QED BY <2>1, <2>2, <2>3, <2>4, <2>5 DEF UpdateInv
<1>55. CASE StartRepair
  <2> USE DEF StartRepair, Free, Launch, files, docker, old, volumes, job
  <2>1. TypeOK'
    <3>1. WorldTyped'  BY <1>55, <1>0 DEF PCs, Phases, Containers
    <3>2. (mem \in Manifest)'
      BY <1>55, <1>0, RepairAssumption, BoundsAssumption DEF Manifest, NoManifest
    <3>3. (status \in [phase: Phases, attempts: 0..RepairLimit, was: BOOLEAN])'
      <4>1. status' = status \/ (status' = [status EXCEPT !.phase = "rolling_back", !.attempts = @ + 1] /\ status.attempts < RepairLimit)
        BY <1>55 DEF StartRepair, Free, Launch, files, docker, old, volumes, job
      <4>2. status \in [phase: Phases, attempts: 0..RepairLimit, was: BOOLEAN]  BY <1>0
      <4>3. status.attempts < RepairLimit => status.attempts + 1 \in 0..RepairLimit
        BY <4>2, RepairAssumption
      <4>4. \A n \in 0..RepairLimit :
               [status EXCEPT !.phase = "rolling_back", !.attempts = n] \in [phase: Phases, attempts: 0..RepairLimit, was: BOOLEAN]
        BY <4>2 DEF Phases
      <4>5. QED BY <4>1, <4>2, <4>3, <4>4
    <3>4. (man \in Manifest)'
      BY <1>55, <1>0, RepairAssumption, BoundsAssumption DEF Manifest, NoManifest
    <3>5. (faults \in 0..MaxFaults /\ crashes \in 0..MaxCrashes)'
      BY <1>55, <1>0, RepairAssumption, BoundsAssumption
    <3>6. QED BY <3>1, <3>2, <3>3, <3>4, <3>5
  <2>2. WhoRuns'  BY <1>55, <1>0 DEF Phases
  <2>3. Applied'  BY <1>55, <1>0 DEF Containers
  <2>4. SucceededIsTarget'
    <3>1. status.phase = "rollback_failed" /\ (status' = status \/ status'.phase = "rolling_back")
      BY <1>55, <1>0 DEF StartRepair, Free, Launch, files, docker, old, volumes, job
    <3>2. QED BY <3>1 DEF SucceededIsTarget
  <2>5. ASSUME ~unrecorded' PROVE Recorded' /\ Knowing'
    <3>u. ~unrecorded  BY <1>55, <1>0, <2>5
    <3>v. Recorded /\ Knowing  BY <1>0, <3>u
    <3>1. Recorded'
      BY ZenonT(60), <1>55, <1>0, <2>5, <3>u, <3>v DEF Recorded, Knowing, AsWas, OnlyWhat, NoManifest
    <3>2. Knowing'
      BY <1>55, <1>0, <2>5, <3>u, <3>v DEF Recorded, Knowing, AsWas, OnlyWhat, NoManifest
    <3>3. QED BY <3>1, <3>2
  <2>6. QED BY <2>1, <2>2, <2>3, <2>4, <2>5 DEF UpdateInv
<1>56. CASE StartRetry
  <2> USE DEF StartRetry, Free, Launch, NoManifest, NewDirectory, old, Forget, job
  <2>1. TypeOK'
    <3>1. /\ (need \in [uses: BOOLEAN, auth: BOOLEAN, server: BOOLEAN])'
          /\ (env \in {"orig", "target", "pinned"} /\ control \in {"orig", "mixed", "target"})'
          /\ (session \in {"orig", "used", "lost"} /\ snapshot \in {"none", "empty", "full"})'
          /\ (images \subseteq {"server", "auth"})'
          /\ (db \in BOOLEAN /\ asked \in {"no", "up", "down"})'
      BY <1>56, <1>0 DEF PCs, Phases, Containers
    <3>2. (pc \in PCs)'  BY <1>56, <1>0, RepairAssumption, BoundsAssumption DEF PCs
    <3>3. (mode \in {"none", "apply", "boot", "repair"})'
      BY <1>56, <1>0, RepairAssumption, BoundsAssumption
    <3>4. (mem \in Manifest)'
      <4>1. mem' = mem \/ mem' = NoManifest
        BY <1>56, <1>0 DEF StartRetry, Free, Launch, NoManifest, NewDirectory, old, Forget, job
      <4>9. QED BY <1>0, <4>1, NoManifestTyped
    <3>5. (status \in [phase: Phases, attempts: 0..RepairLimit, was: BOOLEAN])'
      <4>1. status' = status \/ (status' = [phase |-> "resuming", attempts |-> status.attempts + 1, was |-> (asked = "up")] /\ status.attempts < RepairLimit)
        BY <1>56 DEF StartRetry, Free, Launch, NoManifest, NewDirectory, old, Forget, job
      <4>2. status \in [phase: Phases, attempts: 0..RepairLimit, was: BOOLEAN] /\ (asked = "up") \in BOOLEAN
        BY <1>0
      <4>3. status.attempts < RepairLimit => status.attempts + 1 \in 0..RepairLimit
        BY <4>2, RepairAssumption
      <4>4. \A n \in 0..RepairLimit, b \in BOOLEAN :
               [phase |-> "resuming", attempts |-> n, was |-> b] \in [phase: Phases, attempts: 0..RepairLimit, was: BOOLEAN]
        BY DEF Phases
      <4>5. QED BY <4>1, <4>2, <4>3, <4>4
    <3>6. (man \in Manifest)'
      <4>1. man' = man \/ man' = NoManifest
        BY <1>56, <1>0 DEF StartRetry, Free, Launch, NoManifest, NewDirectory, old, Forget, job
      <4>9. QED BY <1>0, <4>1, NoManifestTyped
    <3>7. (mods \in [active: {"none", "orig", "target"}, backup: {"none", "orig", "target"}, aside: {"none", "orig", "target"}])'
      BY <1>56, <1>0, RepairAssumption, BoundsAssumption
    <3>8. (server \in Containers /\ auth \in Containers)'
      BY <1>56, <1>0, RepairAssumption, BoundsAssumption DEF Containers
    <3>9. (checked \in BOOLEAN /\ panel \in BOOLEAN /\ unrecorded \in BOOLEAN)'
      BY <1>56, <1>0, RepairAssumption, BoundsAssumption
    <3>10. (faults \in 0..MaxFaults /\ crashes \in 0..MaxCrashes)'
      BY <1>56, <1>0, RepairAssumption, BoundsAssumption
    <3>11. QED BY <3>1, <3>2, <3>3, <3>4, <3>5, <3>6, <3>7, <3>8, <3>9, <3>10
  <2>2. WhoRuns'  BY <1>56, <1>0 DEF Phases
  <2>3. Applied'  BY <1>56, <1>0 DEF Containers
  <2>4. SucceededIsTarget'  BY <1>56, <1>0 DEF SucceededIsTarget, Containers
  <2>5. ASSUME ~unrecorded' PROVE Recorded' /\ Knowing'
    <3>u. ~unrecorded
      BY <1>56, <1>0, <2>5 DEF StartRetry, Free, Launch, NoManifest, NewDirectory, old, Forget, job
    <3>v. Recorded /\ Knowing  BY <1>0, <3>u
    <3>1. /\ pc = "idle"
          /\ UNCHANGED <<env, control, server, auth, session, need>>
          /\ \/ UNCHANGED <<status, man, mods, pc, mem>>
             \/ /\ pc' = "retry" /\ man' = NoManifest /\ status'.phase \in Early /\ mods' = [mods EXCEPT !.backup = "none", !.aside = "none"]
                /\ status.phase = "rolled_back"
      BY <1>56, <1>0, <2>5 DEF StartRetry, Free, Launch, NoManifest, NewDirectory, old, Forget, job
    <3>2. CASE UNCHANGED <<status, man, mods, pc, mem>>
      BY <3>1, <3>2, <3>v DEF Recorded, Knowing, AsWas, OnlyWhat, Unbegun, Untouched, BeforeMod,
         LastSteps, Verified, Written, Modded, Forwarding, Restoring, AfterUndo, Rolling, BootSteps
    <3>3. CASE /\ pc' = "retry" /\ man' = NoManifest /\ status'.phase \in Early /\ mods' = [mods EXCEPT !.backup = "none", !.aside = "none"]
               /\ status.phase = "rolled_back"
      <4>1. status.phase \in {"none", "rolled_back"}
        BY <1>0, <3>3, <3>u DEF SucceededIsTarget, Phases
      <4>2. AsWas  BY <3>v, <4>1 DEF Recorded
      <4>3. mods'.active = mods.active /\ mods'.backup = "none"  BY <1>0, <3>3
      <4>4. AsWas'  BY <3>1, <4>2, <4>3 DEF AsWas
      <4>5. QED
        BY <3>3, <4>4 DEF Recorded, Knowing, NoManifest, Unbegun, Untouched, BeforeMod, LastSteps, Verified,
           Written, Modded, Forwarding, Restoring, AfterUndo, Rolling, BootSteps
    <3>4. QED BY <3>1, <3>2, <3>3
  <2>6. QED BY <2>1, <2>2, <2>3, <2>4, <2>5 DEF UpdateInv
<1>57. CASE UserStart
  <2> USE DEF UserStart, Free, Image, Final, job, journal, files
  <2>1. TypeOK'
    BY <1>57, <1>0, NoManifestTyped, RepairAssumption, BoundsAssumption DEF PCs, Phases, Containers
  <2>2. WhoRuns'  BY <1>57, <1>0 DEF Phases
  <2>3. Applied'  BY <1>57, <1>0 DEF Containers
  <2>4. SucceededIsTarget'  BY <1>57, <1>0 DEF SucceededIsTarget, Containers
  <2>5. ASSUME ~unrecorded' PROVE Recorded' /\ Knowing'
    <3>u. ~unrecorded  BY <1>57, <1>0, <2>5
    <3>v. Recorded /\ Knowing  BY <1>0, <3>u
    <3>1. Recorded'
      BY <1>57, <1>0, <2>5, <3>u, <3>v DEF Recorded, Knowing, AsWas, OnlyWhat, NoManifest
    <3>2. Knowing'
      BY <1>57, <1>0, <2>5, <3>u, <3>v DEF Recorded, Knowing, AsWas, OnlyWhat, NoManifest
    <3>3. QED BY <3>1, <3>2
  <2>6. QED BY <2>1, <2>2, <2>3, <2>4, <2>5 DEF UpdateInv
<1>58. CASE UserStop
  <2> USE DEF UserStop, Free, job, journal, files, volumes, old
  <2>1. TypeOK'
    <3>1. /\ (need \in [uses: BOOLEAN, auth: BOOLEAN, server: BOOLEAN])'
          /\ (env \in {"orig", "target", "pinned"} /\ control \in {"orig", "mixed", "target"})'
          /\ (session \in {"orig", "used", "lost"} /\ snapshot \in {"none", "empty", "full"})'
          /\ (images \subseteq {"server", "auth"})'
          /\ (db \in BOOLEAN /\ asked \in {"no", "up", "down"})'
      BY <1>58, <1>0 DEF PCs, Phases, Containers
    <3>2. (pc \in PCs)'  BY <1>58, <1>0, RepairAssumption, BoundsAssumption DEF PCs
    <3>3. (mode \in {"none", "apply", "boot", "repair"})'
      BY <1>58, <1>0, RepairAssumption, BoundsAssumption
    <3>4. (mem \in Manifest)'
      BY <1>58, <1>0, RepairAssumption, BoundsAssumption DEF Manifest, NoManifest
    <3>5. (status \in [phase: Phases, attempts: 0..RepairLimit, was: BOOLEAN])'
      BY <1>58, <1>0, RepairAssumption, BoundsAssumption DEF Phases
    <3>6. (man \in Manifest)'
      BY <1>58, <1>0, RepairAssumption, BoundsAssumption DEF Manifest, NoManifest
    <3>7. (mods \in [active: {"none", "orig", "target"}, backup: {"none", "orig", "target"}, aside: {"none", "orig", "target"}])'
      BY <1>58, <1>0, RepairAssumption, BoundsAssumption
    <3>8. (server \in Containers /\ auth \in Containers)'
      BY <1>58, <1>0, RepairAssumption, BoundsAssumption DEF Containers
    <3>9. (checked \in BOOLEAN /\ panel \in BOOLEAN /\ unrecorded \in BOOLEAN)'
      BY <1>58, <1>0, RepairAssumption, BoundsAssumption
    <3>10. (faults \in 0..MaxFaults /\ crashes \in 0..MaxCrashes)'
      BY <1>58, <1>0, RepairAssumption, BoundsAssumption
    <3>11. QED BY <3>1, <3>2, <3>3, <3>4, <3>5, <3>6, <3>7, <3>8, <3>9, <3>10
  <2>2. WhoRuns'  BY <1>58, <1>0 DEF Phases
  <2>3. Applied'  BY <1>58, <1>0 DEF Containers
  <2>4. SucceededIsTarget'  BY <1>58, <1>0 DEF SucceededIsTarget, Containers
  <2>5. ASSUME ~unrecorded' PROVE Recorded' /\ Knowing'
    <3>u. ~unrecorded  BY <1>58, <1>0, <2>5
    <3>v. Recorded /\ Knowing  BY <1>0, <3>u
    <3>1. Recorded'
      BY <1>58, <1>0, <2>5, <3>u, <3>v DEF Recorded, Knowing, AsWas, OnlyWhat, NoManifest
    <3>2. Knowing'
      BY <1>58, <1>0, <2>5, <3>u, <3>v DEF Recorded, Knowing, AsWas, OnlyWhat, NoManifest
    <3>3. QED BY <3>1, <3>2
  <2>6. QED BY <2>1, <2>2, <2>3, <2>4, <2>5 DEF UpdateInv
<1>59. CASE Crash
  <2> USE DEF Crash, Goto, NoManifest, journal, files, docker, old, volumes
  <2>1. TypeOK'
    <3>1. /\ (need \in [uses: BOOLEAN, auth: BOOLEAN, server: BOOLEAN])'
          /\ (env \in {"orig", "target", "pinned"} /\ control \in {"orig", "mixed", "target"})'
          /\ (session \in {"orig", "used", "lost"} /\ snapshot \in {"none", "empty", "full"})'
          /\ (images \subseteq {"server", "auth"})'
          /\ (db \in BOOLEAN /\ asked \in {"no", "up", "down"})'
      BY <1>59, <1>0 DEF PCs, Phases, Containers
    <3>2. (pc \in PCs)'  BY <1>59, <1>0, RepairAssumption, BoundsAssumption DEF PCs
    <3>3. (mode \in {"none", "apply", "boot", "repair"})'
      BY <1>59, <1>0, RepairAssumption, BoundsAssumption
    <3>4. (mem \in Manifest)'  BY <1>59, <1>0, RepairAssumption, BoundsAssumption DEF Manifest
    <3>5. (status \in [phase: Phases, attempts: 0..RepairLimit, was: BOOLEAN])'
      BY <1>59, <1>0, RepairAssumption, BoundsAssumption DEF Phases
    <3>6. (man \in Manifest)'  BY <1>59, <1>0, RepairAssumption, BoundsAssumption DEF Manifest
    <3>7. (mods \in [active: {"none", "orig", "target"}, backup: {"none", "orig", "target"}, aside: {"none", "orig", "target"}])'
      BY <1>59, <1>0, RepairAssumption, BoundsAssumption
    <3>8. (server \in Containers /\ auth \in Containers)'
      BY <1>59, <1>0, RepairAssumption, BoundsAssumption DEF Containers
    <3>9. (checked \in BOOLEAN /\ panel \in BOOLEAN /\ unrecorded \in BOOLEAN)'
      BY <1>59, <1>0, RepairAssumption, BoundsAssumption
    <3>10. (faults \in 0..MaxFaults /\ crashes \in 0..MaxCrashes)'
      BY <1>59, <1>0, RepairAssumption, BoundsAssumption
    <3>11. QED BY <3>1, <3>2, <3>3, <3>4, <3>5, <3>6, <3>7, <3>8, <3>9, <3>10
  <2>2. WhoRuns'  BY <1>59, <1>0 DEF Phases
  <2>3. Applied'  BY <1>59, <1>0 DEF Containers
  <2>4. SucceededIsTarget'  BY <1>59, <1>0 DEF SucceededIsTarget, Containers
  <2>5. ASSUME ~unrecorded' PROVE Recorded' /\ Knowing'
    <3>u. ~unrecorded  BY <1>59, <1>0, <2>5
    <3>v. Recorded /\ Knowing  BY <1>0, <3>u
    <3>1. Recorded'  BY <1>59, <1>0, <2>5, <3>u, <3>v DEF Recorded, Knowing, AsWas, OnlyWhat
    <3>2. Knowing'  BY <1>59, <1>0, <2>5, <3>u, <3>v DEF Recorded, Knowing, AsWas, OnlyWhat
    <3>3. QED BY <3>1, <3>2
  <2>6. QED BY <2>1, <2>2, <2>3, <2>4, <2>5 DEF UpdateInv
<1>60. QED
  BY <1>1, <1>2, <1>3, <1>4, <1>5, <1>6, <1>7, <1>8, <1>9, <1>10, <1>11, <1>12, <1>13, <1>14,
     <1>15, <1>16, <1>17, <1>18, <1>19, <1>20, <1>21, <1>22, <1>23, <1>24, <1>25, <1>26, <1>27,
        <1>28, <1>29, <1>30, <1>31, <1>32, <1>33, <1>34, <1>35, <1>36, <1>37, <1>38, <1>39, <1>40,
           <1>41, <1>42, <1>43, <1>44, <1>45, <1>46, <1>47, <1>48, <1>49, <1>50, <1>51, <1>52,
              <1>53, <1>54, <1>55, <1>56, <1>57, <1>58, <1>59 DEF Next, Runner, Apply, Rollback,
                 Repair, Boot, User

LEMMA UpdateStarts == Init => UpdateInv
<1> SUFFICES ASSUME Init PROVE UpdateInv
  OBVIOUS
<1>1. TypeOK
  <2>1. need \in [uses: BOOLEAN, auth: BOOLEAN, server: BOOLEAN]  BY DEF Init
  <2>2. mem \in Manifest /\ man \in Manifest  BY NoManifestTyped DEF Init
  <2>3. status \in [phase: Phases, attempts: 0..RepairLimit, was: BOOLEAN]
    BY RepairAssumption DEF Init, Phases
  <2>4. mods \in [active: {"none", "orig", "target"}, backup: {"none", "orig", "target"}, aside: {"none", "orig", "target"}]
    BY DEF Init
  <2>5. faults \in 0..MaxFaults /\ crashes \in 0..MaxCrashes  BY BoundsAssumption DEF Init
  <2>6. server \in Containers /\ auth \in Containers /\ pc \in PCs  BY DEF Init, Containers, PCs
  <2>7. QED BY <2>1, <2>2, <2>3, <2>4, <2>5, <2>6 DEF Init, TypeOK
<1>2. AsWas  BY DEF Init, AsWas
<1>3. WhoRuns  BY DEF Init, WhoRuns, InFlight, BootSteps
<1>4. Applied
  BY DEF Init, Applied, Untouched, BeforeMod, LastSteps, Verified, Written, Modded, Forwarding
<1>5. SucceededIsTarget  BY DEF Init, SucceededIsTarget
<1>6. Recorded  BY <1>2 DEF Init, Recorded
<1>7. Knowing
  BY <1>2 DEF Init, Knowing, Unbegun, Untouched, BeforeMod, LastSteps, Verified, Written, Modded,
     Forwarding, Restoring, AfterUndo, Rolling
<1>8. QED BY <1>1, <1>3, <1>4, <1>5, <1>6, <1>7 DEF UpdateInv

LEMMA UpdateRests == UpdateInv /\ UNCHANGED vars => UpdateInv'
<1> SUFFICES ASSUME UpdateInv, UNCHANGED vars PROVE UpdateInv'
  OBVIOUS
<1> USE DEF vars, job, journal, files, volumes, docker, old, rest
<1>1. TypeOK'  BY DEF UpdateInv, TypeOK
<1>2. WhoRuns'  BY DEF UpdateInv, WhoRuns, InFlight
<1>3. Applied'  BY DEF UpdateInv, Applied
<1>4. SucceededIsTarget'  BY DEF UpdateInv, SucceededIsTarget
<1>5. ASSUME ~unrecorded' PROVE Recorded' /\ Knowing'
  <2>1. Recorded /\ Knowing  BY <1>5 DEF UpdateInv
  <2>2. QED BY <2>1 DEF Recorded, Knowing, AsWas, OnlyWhat
<1>6. QED BY <1>1, <1>2, <1>3, <1>4, <1>5 DEF UpdateInv

\* The invariant of an update of the runtime, its rollback, a repair and a retry: what
\* the job knows, the manifest says and files and containers are, at every step of any
\* of them, whatever fails and wherever the panel stops.
THEOREM UpdateInvariant == Spec => []UpdateInv
<1>1. UpdateInv /\ [Next]_vars => UpdateInv'  BY UpdateStep, UpdateRests
<1>2. QED BY UpdateStarts, <1>1, PTL DEF Spec

\* Type correctness.
THEOREM UpdateTypes == Spec => []TypeOK
<1>1. UpdateInv => TypeOK  BY DEF UpdateInv
<1>2. QED BY UpdateInvariant, <1>1, PTL

\* An update that ends says what it left, for any number of repairs, failing steps and
\* stops: rolled back is the original, a success is the whole of the target, and a
\* rollback that failed has its materials while something is still changed.
THEOREM OutcomeTrueHolds == Spec => []OutcomeTrue
<1>1. UpdateInv => OutcomeTrue
  <2> SUFFICES ASSUME UpdateInv PROVE OutcomeTrue
    OBVIOUS
  <2>1. RolledBackIsOriginal  BY DEF UpdateInv, RolledBackIsOriginal, Recorded, AsWas
  <2>2. SucceededIsTarget  BY DEF UpdateInv
  <2>3. FailedKeepsMaterials
    <3> SUFFICES ASSUME status.phase = "rollback_failed", ~unrecorded, ~AsWas
                 PROVE man.dir = "whole" /\ man.mutated
      BY DEF FailedKeepsMaterials, AsWas
    <3>1. IF man.dir = "whole" THEN OnlyWhat(man) ELSE AsWas  BY DEF UpdateInv, Recorded, Final
    <3>2. QED BY <3>1 DEF OnlyWhat
  <2>4. QED BY <2>1, <2>2, <2>3 DEF OutcomeTrue
<1>2. QED BY UpdateInvariant, <1>1, PTL

\* Resolving an interrupted update at boot starts no container, neither the old one nor
\* the new.
THEOREM BootNeverStartsHolds == Spec => BootNeverStarts
<1> DEFINE Quiet == (mode = "boot" \/ ~panel) =>
                       server' \in {server, "down"} /\ auth' \in {auth, "down"}
<1>1. UpdateInv /\ [Next]_vars => [Quiet]_vars
  <2> SUFFICES ASSUME UpdateInv, Next, mode = "boot" \/ ~panel PROVE server' \in {server, "down"} /\ auth' \in {auth, "down"}
    OBVIOUS
  <2>0. (panel => pc \in BootSteps) /\ (~panel => pc = "idle") /\ (mode = "boot" => pc # "idle")
    BY DEF UpdateInv, WhoRuns, BootSteps
  <2>1. CASE Prepare
    BY <2>1, <2>0 DEF BootSteps, Prepare, Ok, Finish, files, docker, rest, old, volumes, Fail,
       Phase, Goto, NoManifest
  <2>2. CASE Backup
    BY <2>2, <2>0 DEF BootSteps, Backup, NoManifest, Goto, Finish, files, docker, rest, old,
       volumes, Fail, Phase
  <2>3. CASE Reload
    BY <2>3, <2>0 DEF BootSteps, Reload, Ok, StopsServer, StopsAuth, journal, Finish, Forget,
       docker, rest, old, volumes, NoManifest, Fail, Phase, Goto
  <2>4. CASE StopPhase
    BY <2>4, <2>0 DEF BootSteps, StopPhase, Announce, Ok, Phase, Fail, files, docker, rest, old,
       volumes, Goto, NoManifest
  <2>5. CASE StopIntent
    BY <2>5, <2>0 DEF BootSteps, StopIntent, Goto, Finish, Forget, docker, rest, old, volumes,
       NoManifest, Fail, Phase
  <2>6. CASE StopOld
    BY <2>6, <2>0 DEF BootSteps, StopOld, Stop, StopsServer, StopsAuth, journal, files, volumes,
       old, Ok, Fail, Goto, NoManifest
  <2>7. CASE ControlIntent
    BY <2>7, <2>0 DEF BootSteps, ControlIntent, Intend, Record, files, docker, volumes, Goto,
       NoManifest
  <2>8. CASE InstallControl
    BY <2>8, <2>0 DEF BootSteps, InstallControl, Ok, Fail, journal, docker, rest, old, volumes,
       Goto, NoManifest
  <2>9. CASE SnapshotIntent
    BY <2>9, <2>0 DEF BootSteps, SnapshotIntent, Intend, Record, files, docker, volumes, Goto,
       NoManifest
  <2>10. CASE CreateSnapshot
    BY <2>10, <2>0 DEF BootSteps, CreateSnapshot, Ok, Fail, journal, files, rest, old, Goto,
       NoManifest
  <2>11. CASE CloneSession
    BY <2>11, <2>0 DEF BootSteps, CloneSession, Ok, Fail, journal, files, rest, old, Goto,
       NoManifest
  <2>12. CASE SnapshotDone
    BY <2>12, <2>0 DEF BootSteps, SnapshotDone, Intend, Record, files, docker, volumes, Goto,
       NoManifest
  <2>13. CASE ConfigPhase
    BY <2>13, <2>0 DEF BootSteps, ConfigPhase, Announce, Ok, Phase, Fail, files, docker, rest,
       old, volumes, Goto, NoManifest
  <2>14. CASE ModIntent
    BY <2>14, <2>0 DEF BootSteps, ModIntent, Intend, Record, files, docker, volumes, Goto,
       NoManifest
  <2>15. CASE MoveModOut
    BY <2>15, <2>0 DEF BootSteps, MoveModOut, Ok, Fail, journal, docker, rest, old, volumes, Goto,
       NoManifest
  <2>16. CASE MoveModIn
    BY <2>16, <2>0 DEF BootSteps, MoveModIn, Ok, Fail, journal, docker, rest, old, volumes, Goto,
       NoManifest
  <2>17. CASE WriteConfig
    BY <2>17, <2>0 DEF BootSteps, WriteConfig, Ok, Fail, journal, docker, rest, old, volumes,
       Goto, NoManifest
  <2>18. CASE AuthPhase
    BY <2>18, <2>0 DEF BootSteps, AuthPhase, Announce, Ok, Phase, Fail, files, docker, rest, old,
       volumes, Goto, NoManifest
  <2>19. CASE AuthIntent
    BY <2>19, <2>0 DEF BootSteps, AuthIntent, Intend, Record, files, docker, volumes, Goto,
       NoManifest
  <2>20. CASE AuthUp
    BY <2>20, <2>0 DEF BootSteps, AuthUp, Ok, Fail, journal, files, rest, old, Goto, NoManifest
  <2>21. CASE ServerPhase
    BY <2>21, <2>0 DEF BootSteps, ServerPhase, Announce, Ok, Phase, Fail, files, docker, rest,
       old, volumes, Goto, NoManifest
  <2>22. CASE ServerIntent
    BY <2>22, <2>0 DEF BootSteps, ServerIntent, Intend, Record, files, docker, volumes, Goto,
       NoManifest
  <2>23. CASE ServerUp
    BY <2>23, <2>0 DEF BootSteps, ServerUp, Ok, Fail, journal, files, volumes, rest, old, Goto,
       NoManifest
  <2>24. CASE RestoreState
    BY <2>24, <2>0 DEF BootSteps, RestoreState, Ok, Stop, journal, files, volumes, old, Fail,
       Goto, NoManifest
  <2>25. CASE RemoveSnapshot
    BY <2>25, <2>0 DEF BootSteps, RemoveSnapshot, Ok, Fail, journal, files, rest, old, Goto,
       NoManifest
  <2>26. CASE RemoveImages
    BY <2>26, <2>0 DEF BootSteps, RemoveImages, Ok, Replaced, Fail, journal, files, volumes, rest,
       old, Goto, NoManifest
  <2>27. CASE Succeed
    BY <2>27, <2>0 DEF BootSteps, Succeed, Ok, Phase, Fail, files, docker, rest, old, volumes,
       Goto, NoManifest
  <2>28. CASE Discard
    BY <2>28, <2>0 DEF BootSteps, Discard, Ok, Forget, Fail, docker, rest, old, volumes, Goto,
       NoManifest
  <2>29. CASE Undo
    BY <2>29, <2>0 DEF BootSteps, Undo, Ok, Phase, Fail, files, docker, rest, old, volumes, Goto,
       NoManifest
  <2>30. CASE StopNew
    BY <2>30, <2>0 DEF BootSteps, StopNew, Stop, journal, files, volumes, rest, old, Ok, Fail,
       Goto, NoManifest
  <2>31. CASE RestoreEnv
    BY <2>31, <2>0 DEF BootSteps, RestoreEnv, Ok, ModRestored, Fail, journal, docker, rest, old,
       volumes, Goto, NoManifest, FilesRestored
  <2>32. CASE MoveModAside
    BY <2>32, <2>0 DEF BootSteps, MoveModAside, Ok, ModRestored, Fail, journal, docker, rest, old,
       volumes, Goto, NoManifest, FilesRestored
  <2>33. CASE MoveModBack
    BY <2>33, <2>0 DEF BootSteps, MoveModBack, Ok, ModRestored, Fail, journal, docker, rest, old,
       volumes, Goto, NoManifest, FilesRestored
  <2>34. CASE RestoreControl
    BY <2>34, <2>0 DEF BootSteps, RestoreControl, Ok, FilesRestored, Fail, journal, docker, rest,
       old, volumes, Goto, NoManifest
  <2>35. CASE EnsureMod
    BY <2>35, <2>0 DEF BootSteps, EnsureMod, Ok, OldImage, Fail, journal, docker, rest, old,
       volumes, Goto, NoManifest
  <2>36. CASE PinImages
    BY <2>36, <2>0 DEF BootSteps, PinImages, Ok, Fail, journal, docker, rest, old, volumes, Goto,
       NoManifest
  <2>37. CASE RestoreSession
    BY <2>37, <2>0 DEF BootSteps, RestoreSession, OldImage, Ok, SessionRestoredNext, volumes,
       Fail, journal, files, rest, old, Goto, NoManifest
  <2>38. CASE KeepStopped
    BY <2>38, <2>0 DEF BootSteps, KeepStopped, Stop, journal, files, volumes, old, Ok, Fail, Goto,
       NoManifest
  <2>39. CASE OldAuthUp
    BY <2>39, <2>0 DEF BootSteps, OldAuthUp, OldImage, Ok, Fail, journal, files, volumes, rest,
       old, Goto, NoManifest
  <2>40. CASE OldServerUp
    BY <2>40, <2>0 DEF BootSteps, OldServerUp, OldImage, Ok, Fail, journal, files, volumes, rest,
       old, Goto, NoManifest
  <2>41. CASE RestoreOldState
    BY <2>41, <2>0 DEF BootSteps, RestoreOldState, Ok, Stop, journal, files, volumes, old, Fail,
       Goto, NoManifest
  <2>42. CASE Unpin
    BY <2>42, <2>0 DEF BootSteps, Unpin, Ok, Fail, journal, docker, rest, old, volumes, Goto,
       NoManifest
  <2>43. CASE RollbackFailed
    BY <2>43, <2>0 DEF BootSteps, RollbackFailed, Ok, Phase, Fail, docker, rest, old, volumes,
       Goto, NoManifest
  <2>44. CASE RolledBack
    BY <2>44, <2>0 DEF BootSteps, RolledBack, Ok, Phase, Fail, files, docker, rest, old, volumes,
       Goto, NoManifest
  <2>45. CASE CleanRolledBack
    BY <2>45, <2>0 DEF BootSteps, CleanRolledBack, Ok, Fail, journal, files, rest, old, Goto,
       NoManifest
  <2>46. CASE CleanRepaired
    BY <2>46, <2>0 DEF BootSteps, CleanRepaired, Ok, Finish, files, rest, old, Fail, Phase, Goto,
       NoManifest
  <2>47. CASE DiscardRepaired
    BY <2>47, <2>0 DEF BootSteps, DiscardRepaired, Ok, Forget, Finish, docker, rest, old, volumes,
       Fail, Phase, Goto, NoManifest
  <2>48. CASE Retry
    BY <2>48, <2>0 DEF BootSteps, Retry, NoManifest, Phase, Finish, files, docker, rest, old,
       volumes, Fail, Goto
  <2>49. CASE BootSettles
    BY <2>49, <2>0 DEF BootSteps, BootSettles, InFlight, Early, BeforeChange, Uncertain, job,
       volumes, old, Phase, Forget, journal, NoManifest, Terminal, Final
  <2>50. CASE BootRollsBack
    BY <2>50, <2>0 DEF BootSteps, BootRollsBack, InFlight, job, journal, files, docker, old,
       volumes, Terminal, Final
  <2>51. CASE BootCleans
    BY <2>51, <2>0 DEF BootSteps, BootCleans, InFlight, Final, Forget, job, old, NoManifest,
       Terminal
  <2>52. CASE DryRun
    BY <2>52, <2>0 DEF BootSteps, DryRun, Free, job, journal, files, docker, old, volumes
  <2>53. CASE Ask
    BY <2>53, <2>0 DEF BootSteps, Ask, Free, job, journal, files, docker, old, volumes
  <2>54. CASE StartApply
    BY <2>54, <2>0 DEF BootSteps, StartApply, Free, Launch, NoManifest, NewDirectory, InFlight,
       Terminal, Final, Forget, job
  <2>55. CASE StartRepair
    BY <2>55, <2>0 DEF BootSteps, StartRepair, Free, Launch, files, docker, old, volumes, job
  <2>56. CASE StartRetry
    BY <2>56, <2>0 DEF BootSteps, StartRetry, Free, Launch, NoManifest, NewDirectory, old, Forget,
       job
  <2>57. CASE UserStart
    BY <2>57, <2>0 DEF BootSteps, UserStart, Free, Image, Final, job, journal, files
  <2>58. CASE UserStop
    BY <2>58, <2>0 DEF BootSteps, UserStop, Free, job, journal, files, volumes, old
  <2>59. CASE Crash
    BY <2>59, <2>0 DEF BootSteps, Crash, Goto, NoManifest, journal, files, docker, old, volumes
  <2>60. QED
    BY <2>1, <2>2, <2>3, <2>4, <2>5, <2>6, <2>7, <2>8, <2>9, <2>10, <2>11, <2>12, <2>13, <2>14,
       <2>15, <2>16, <2>17, <2>18, <2>19, <2>20, <2>21, <2>22, <2>23, <2>24, <2>25, <2>26, <2>27,
          <2>28, <2>29, <2>30, <2>31, <2>32, <2>33, <2>34, <2>35, <2>36, <2>37, <2>38, <2>39,
             <2>40, <2>41, <2>42, <2>43, <2>44, <2>45, <2>46, <2>47, <2>48, <2>49, <2>50, <2>51,
                <2>52, <2>53, <2>54, <2>55, <2>56, <2>57, <2>58, <2>59 DEF Next, Runner, Apply,
                   Rollback, Repair, Boot, User
<1>2. QED BY UpdateInvariant, <1>1, PTL DEF Spec, BootNeverStarts

==========================================================================
