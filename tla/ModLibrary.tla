----------------------------- MODULE ModLibrary -----------------------------
(***************************************************************************)
(* The Mods of one instance (mods.go, mod_profiles.go, mod_relationships.go,*)
(* farm_dependencies.go, remote_install.go, nexus_install.go and the Mod     *)
(* handlers).                                                               *)
(*                                                                         *)
(* A Mod is a folder in mods/ or in mods-disabled/.  Every save has a        *)
(* profile that says which Mods it wants; a start moves the folders to match *)
(* the profile of the selected save.  All that writes here holds             *)
(* runtimeUpdateMu with the server down, and nothing else looks meanwhile,   *)
(* so an operation is one step: it has the outcome of its success, or one    *)
(* that a step of it that fails, or the death of the panel, leaves behind.   *)
(***************************************************************************)
EXTENDS Naturals, FiniteSets

CONSTANTS ModRequests,   \* bound: requests
          ModFaults,     \* bound: steps that fail
          ModStops       \* bound: deaths of the panel

ASSUME ModAssumption == {ModRequests, ModFaults, ModStops} \subseteq Nat

\* The packages of the instance: pack needs lib, and twin is from the Nexus page of pack.
Mods == {"lib", "pack", "twin"}
Needs(m) == IF m = "pack" THEN {"lib"} ELSE {}
Page(m)  == IF m = "lib" THEN 1 ELSE 2
Slots    == {"a", "b"}
Bundled  == {"console", "backup"}   \* SMAPI's own Mods

VARIABLES
    place,       \* by Mod: on (in mods/), off (in mods-disabled/) or none
    aside,       \* Mods with a copy in a .mod-update-backup- directory
    duplicates,  \* old copies of SMAPI's own Mods in mods/
    profile,     \* mod-profiles.json: by save
    selected,    \* the save the next start loads
    run,         \* what the running server has loaded, and how it came up
    creating,    \* a new game that has yet to write its profile
    modRequests, modFaults, modStops,
    owed,        \* Mods that were installed, and that nobody asked to delete
    spilled,     \* owed Mods that went with the undoing of a batch they were not in
    unlucky      \* owed Mods whose update failed and could not be undone

modVars == <<place, aside, duplicates, profile, selected, run, creating, modRequests, modFaults, modStops, owed, spilled, unlucky>>

NoProfile == [has |-> FALSE, default |-> TRUE, mods |-> [m \in Mods |-> "unset"]]
Down      == [up |-> FALSE, save |-> "a", mods |-> {}, by |-> "start"]

ModInit ==
    /\ place \in [Mods -> {"none", "on"}] /\ aside = {} /\ duplicates \in SUBSET Bundled
    /\ profile = [s \in Slots |-> NoProfile] /\ selected = "a" /\ run = Down /\ creating = FALSE
    /\ modRequests = 0 /\ modFaults = 0 /\ modStops = 0
    /\ owed = {m \in Mods : place[m] # "none"} /\ spilled = {} /\ unlucky = {}

Installed == {m \in Mods : place[m] # "none"}
Active    == {m \in Mods : place[m] = "on"}

-----------------------------------------------------------------------------
(* Relationships                                                            *)

\* walk: what is reached from a Mod
Walk(m, edges) ==
    LET Closed(S) == m \in S /\ \A e \in edges : e[1] \in S => e[2] \in S IN
    CHOOSE S \in SUBSET Installed : Closed(S) /\ \A T \in SUBSET Installed : Closed(T) => S \subseteq T
Bundle(m) == {n \in Installed : Page(n) = Page(m)}
Edges(next) == {e \in Installed \X Installed : e[2] \in next[e[1]] \cup Bundle(e[1])}
EnableClosure(m)  == Walk(m, Edges([n \in Mods |-> Needs(n)]))
DisableClosure(m) == Walk(m, Edges([n \in Mods |-> {d \in Mods : n \in Needs(d)}]))

-----------------------------------------------------------------------------
(* Moving folders                                                           *)

Moved(to, done) == [m \in Mods |-> IF m \in done /\ place[m] # "none" THEN to[m] ELSE place[m]]
Desired(p, m) == IF p.mods[m] = "unset" THEN p.default ELSE p.mods[m] = "on"
\* Mutant: a Mod without an entry is taken for one that is wanted.
WantedUnlessOff(p) == IF p.has THEN [m \in Mods |-> IF p.mods[m] = "off" THEN "off" ELSE "on"] ELSE place

Wanted(p) == IF p.has THEN [m \in Mods |-> IF Desired(p, m) THEN "on" ELSE "off"] ELSE place
\* what an operation that fails or is cut short leaves
Partway(to) == {Moved(to, done) : done \in SUBSET Mods}

Fault == modFaults < ModFaults /\ modFaults' = modFaults + 1 /\ UNCHANGED modStops
Stop == modStops < ModStops /\ modStops' = modStops + 1 /\ UNCHANGED modFaults
Fails == Fault \/ (Stop /\ UNCHANGED run)
Fine  == UNCHANGED <<modFaults, modStops>>

ModRequest == modRequests < ModRequests /\ modRequests' = modRequests + 1
\* withStardewOfflineMutation
ModsOffline == ModRequest /\ ~run.up /\ ~creating

\* applyModProfileLocked with the profile p of a save
ApplyProfile(p) ==
    \/ place' = Moved(Wanted(p), Mods) /\ Fine
    \/ Fails /\ place' \in Partway(Wanted(p))

Marked(p, mods, on) ==
    [has |-> TRUE, default |-> p.default,
     mods |-> [m \in Mods |-> IF m \in mods THEN (IF on THEN "on" ELSE "off") ELSE p.mods[m]]]
WriteProfile(s, p) ==
    \/ profile' = [profile EXCEPT ![s] = p] /\ ApplyProfile(p)
    \/ Fails /\ UNCHANGED <<profile, place>>

-----------------------------------------------------------------------------
(* Profiles                                                                 *)

Idle == UNCHANGED <<aside, duplicates, run, creating, owed, spilled, unlucky>>

\* SetModEnabledForSaveCascade and SetAllModsEnabledForSave, of a save selected or not
SetModEnabled(s, m, on) ==
    /\ ModsOffline /\ m \in Installed
    /\ WriteProfile(s, Marked(profile[s], IF on THEN EnableClosure(m) ELSE DisableClosure(m), on))
    /\ Idle /\ UNCHANGED selected
SetAllModsEnabled(s, on) ==
    /\ ModsOffline /\ WriteProfile(s, Marked(profile[s], Installed, on)) /\ Idle /\ UNCHANGED selected
\* handleSaveSelect
SelectSlot(s) ==
    /\ ModsOffline /\ selected' = s /\ ApplyProfile(profile[s]) /\ Idle /\ UNCHANGED profile

\* PrepareNewGameMods: what the farm of pack needs, or a rollback
PrepareNewGameMods ==
    LET to == [m \in Mods |-> IF m \in EnableClosure("pack") THEN "on" ELSE place[m]] IN
    /\ ModsOffline /\ Needs("pack") \cup {"pack"} \subseteq Installed
    /\ \/ place' = to /\ Fine
       \/ Fault /\ UNCHANGED place
       \/ Stop /\ place' \in Partway(to)
    /\ Idle /\ UNCHANGED <<profile, selected>>

-----------------------------------------------------------------------------
(* Installing and deleting                                                  *)

With(new) == [m \in Mods |-> IF m \in new THEN "on" ELSE place[m]]
Without(gone) == [m \in Mods |-> IF m \in gone THEN "none" ELSE place[m]]
\* DeleteMod of each Mod of the earlier archives, with what is from its Nexus page
RollbackImported(done, at) ==
    LET gone == {m \in Mods : \E d \in done : Page(d) = Page(m)} IN
    /\ place' = [m \in Mods |-> IF m \in gone THEN "none" ELSE at[m]]
    /\ spilled' = spilled \cup (owed \cap gone)

\* MarkImportedModsEnabledForSave: what came is wanted by the selected save, and its profile applied
Adopted(new) == Marked(profile[selected], new, TRUE)
Adopt(new)   == [m \in Mods |-> IF With(new)[m] = "none" THEN "none"
                                ELSE IF Desired(Adopted(new), m) THEN "on" ELSE "off"]
Arrives(new) == /\ place' = Adopt(new) /\ profile' = [profile EXCEPT ![selected] = Adopted(new)]
                /\ owed' = owed \cup new
\* what is there when it stops in between: some of them, and the profile perhaps applied in part
Halfway(new) == /\ profile' \in {profile, [profile EXCEPT ![selected] = Adopted(new)]}
                /\ \E done \in SUBSET new, moved \in SUBSET Installed :
                      place' = [m \in Mods |-> IF m \in moved /\ profile' # profile THEN Adopt(new)[m] ELSE With(done)[m]]

\* what validateModZip, detectModDirs and the look at the installed Mods let through
Acceptable(new) == new # {} /\ new \cap Installed = {}

\* handleModsUpload: some archives, of which the last may be refused
UploadMods(new, refused) ==
    /\ ModsOffline /\ Acceptable(new)
    /\ \/ ~refused /\ Arrives(new) /\ Fine /\ UNCHANGED spilled
       \* the archive itself takes back what it brought, and the batch the archives before it
       \/ refused /\ RollbackImported(new, place) /\ Fine /\ UNCHANGED <<profile, owed>>
       \/ Fault /\ (\E done \in SUBSET new : RollbackImported(done, place)) /\ UNCHANGED <<profile, owed>>
       \/ Fault /\ profile' = [profile EXCEPT ![selected] = Adopted(new)] /\ UNCHANGED owed
                /\ \E half \in Partway(Adopt(new)) : RollbackImported(new, half)
       \/ Stop /\ Halfway(new) /\ UNCHANGED <<owed, spilled, unlucky>>
    /\ UNCHANGED <<aside, duplicates, run, creating, selected, unlucky>>

\* the jobs of handleModNexusInstall and handleModRemoteInstall: what is there already is passed
\* over, and the profile is not insisted on
InstallFetched(new) ==
    LET fresh == new \ Installed IN
    /\ ModsOffline /\ fresh # {}
    /\ \/ Arrives(fresh) /\ Fine
       \/ Fault /\ UNCHANGED <<place, profile, owed>>
       \/ Fault /\ Halfway(fresh) /\ (\A m \in fresh : place'[m] # "none") /\ owed' = owed \cup fresh
       \/ Stop /\ Halfway(fresh) /\ UNCHANGED owed
    /\ UNCHANGED <<aside, duplicates, run, creating, selected, spilled, unlucky>>

\* DeleteMod: a Mod goes with all that came from its Nexus page
DeleteMod(m) ==
    /\ ModsOffline /\ m \in Installed
    /\ \/ place' = Without(Bundle(m)) /\ Fine
       \/ Fails /\ \E gone \in SUBSET Bundle(m) : place' = Without(gone)
    /\ owed' = owed \ Bundle(m)
    /\ UNCHANGED <<aside, duplicates, profile, run, creating, selected, spilled, unlucky>>

-----------------------------------------------------------------------------
(* UpdateRemoteMod: the old folder is set aside, the new one takes its      *)
(* place and is recorded, and a failure puts the old one back.              *)

\* Mutant: the old folder is not put back when the new one cannot be recorded.
UpdateForgets(m) ==
    /\ ModsOffline /\ m \in Installed
    /\ \/ UNCHANGED place /\ Fine
       \/ Fault /\ place' = Without({m})
    /\ UNCHANGED <<aside, duplicates, profile, run, creating, selected, owed, spilled, unlucky>>

UpdateMod(m) ==
    /\ ModsOffline /\ m \in Installed
    /\ \/ UNCHANGED <<place, aside, unlucky>> /\ (Fine \/ Fault)
       \* the old one cannot be put back, and its directory is removed all the same
       \/ /\ modFaults + 2 <= ModFaults /\ modFaults' = modFaults + 2 /\ UNCHANGED modStops
          /\ place' = Without({m}) /\ unlucky' = unlucky \cup {m} /\ UNCHANGED aside
       \/ /\ Stop /\ aside' = aside \cup {m} /\ UNCHANGED unlucky
          /\ place' \in {place, Without({m})}
    /\ UNCHANGED <<duplicates, profile, run, creating, selected, owed, spilled>>

-----------------------------------------------------------------------------
(* The server                                                               *)

\* QuarantineSMAPIBundledDuplicates: all of them, or a rollback
Quarantine(ok) ==
    \/ duplicates' = {} /\ Fine /\ ok
    \/ Fault /\ UNCHANGED <<duplicates, run>>
    \/ Stop /\ duplicates' \in SUBSET duplicates /\ UNCHANGED run
Up(save, mods, by) == run' = [up |-> TRUE, save |-> save, mods |-> mods, by |-> by]

\* doStart, of the selected save
StartWithProfile ==
    /\ ModsOffline
    /\ \/ place' = Moved(Wanted(profile[selected]), Mods) /\ Quarantine(Up(selected, {m \in Mods : place'[m] = "on"}, "start"))
       \/ Fails /\ place' \in Partway(Wanted(profile[selected])) /\ UNCHANGED <<duplicates, run>>
    /\ UNCHANGED <<aside, profile, creating, selected, owed, spilled, unlucky>>
\* doRestart, of a server that is up or not
RestartAsIs ==
    /\ ModRequest /\ ~creating
    /\ Quarantine(Up(selected, Active, "restart"))
    /\ UNCHANGED <<place, aside, profile, creating, selected, owed, spilled, unlucky>>
StopRun ==
    /\ run.up /\ ~creating /\ run' = Down
    /\ UNCHANGED <<place, aside, duplicates, profile, creating, selected, modRequests, modFaults, modStops, owed, spilled, unlucky>>

\* A new game starts with its own set of Mods, none or those of its farm, and writes the profile of
\* its save when the save is there.
NewGameMods(farm) ==
    LET own == IF farm THEN EnableClosure("pack") ELSE {} IN
    /\ ModsOffline /\ ~profile["b"].has
    /\ farm => Needs("pack") \cup {"pack"} \subseteq Installed
    /\ place' = [m \in Mods |-> IF place[m] = "none" THEN "none" ELSE IF m \in own THEN "on" ELSE "off"]
    /\ selected' = "b" /\ Up("b", {m \in own : place[m] # "none"}, "start") /\ creating' = TRUE
    /\ UNCHANGED <<aside, duplicates, profile, modFaults, modStops, owed, spilled, unlucky>>
EnsureNewSaveModProfile ==
    /\ creating /\ creating' = FALSE
    /\ profile' = [profile EXCEPT !["b"] =
          [has |-> TRUE, default |-> FALSE,
           mods |-> [m \in Mods |-> IF place[m] = "none" THEN "unset" ELSE place[m]]]]
    /\ UNCHANGED <<place, aside, duplicates, selected, run, modRequests, modFaults, modStops, owed, spilled, unlucky>>

ModNext ==
    \/ \E s \in Slots, on \in BOOLEAN :
          SetAllModsEnabled(s, on) \/ \E m \in Mods : SetModEnabled(s, m, on)
    \/ \E s \in Slots : SelectSlot(s)
    \/ PrepareNewGameMods \/ StartWithProfile \/ RestartAsIs \/ StopRun \/ EnsureNewSaveModProfile
    \/ \E new \in SUBSET Mods : InstallFetched(new) \/ \E refused \in BOOLEAN : UploadMods(new, refused)
    \/ \E m \in Mods : DeleteMod(m) \/ UpdateMod(m)
    \/ \E farm \in BOOLEAN : NewGameMods(farm)

ModSpec == ModInit /\ [][ModNext]_modVars

-----------------------------------------------------------------------------
\* Every variable has its type.
ModTypeOK ==
    /\ place \in [Mods -> {"none", "on", "off"}] /\ aside \subseteq Mods /\ duplicates \subseteq Bundled
    /\ \A s \in Slots : profile[s].mods \in [Mods -> {"unset", "on", "off"}]
    /\ selected \in Slots /\ run.mods \subseteq Mods /\ creating \in BOOLEAN
    /\ owed \cup spilled \cup unlucky \subseteq Mods

\* A Mod that was installed and that nobody asked to delete is in one of the two directories or,
\* after the panel died in its update, in the directory that was to protect it; the undoing of a
\* batch and an update that fails twice are the exceptions.
ModsKept == owed \subseteq Installed \cup aside \cup spilled \cup unlucky

\* A server brought up by a start runs exactly the Mods the profile of its save wants.
StartsAsProfiled ==
    run.up /\ run.by = "start" /\ profile[run.save].has =>
        run.mods = {m \in Installed : Desired(profile[run.save], m)}

\* Undoing a batch of uploads removes nothing but what the batch brought.
RollbackKeepsOthers == spilled = {}
=============================================================================
