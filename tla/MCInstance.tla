------------------------------ MODULE MCInstance ------------------------------
(***************************************************************************)
(* What happens on one instance, checked in one run: its jobs, its new game,*)
(* its saves, its Mods and the commands of its game.                        *)
(* Each module looks at one of them and takes the others as its             *)
(* surroundings, so the run picks the one that moves.                       *)
(***************************************************************************)
EXTENDS InstanceAdmission, NewGameTransaction, SaveLibrary, ModLibrary, ControlCommands

VARIABLE focus   \* the component that moves

InstanceInit ==
    /\ Init /\ NewGameInit /\ LibraryInit /\ ModInit /\ CommandInit
    /\ focus \in {"jobs", "newgame", "saves", "mods", "commands"}
    /\ focus # "jobs" => state = "stopped"
    /\ focus # "commands" => ways = [c \in Commands |-> "plain"]
    /\ focus # "mods" => place = [m \in Mods |-> "none"] /\ duplicates = {}

InstanceNext ==
    \/ focus = "jobs" /\ Next /\ UNCHANGED <<focus, newGameVars, libraryVars, modVars, commandVars>>
    \/ focus = "newgame" /\ NewGameNext /\ UNCHANGED <<focus, vars, libraryVars, modVars, commandVars>>
    \/ focus = "saves" /\ LibraryNext /\ UNCHANGED <<focus, vars, newGameVars, modVars, commandVars>>
    \/ focus = "mods" /\ ModNext /\ UNCHANGED <<focus, vars, newGameVars, libraryVars, commandVars>>
    \/ focus = "commands" /\ CommandNext /\ UNCHANGED <<focus, vars, newGameVars, libraryVars, modVars>>

InstanceSpec == InstanceInit /\ [][InstanceNext]_<<focus, vars, newGameVars, libraryVars, modVars, commandVars>>

\* Every variable of the component that moves has its type; those of the others have their first value.
InstanceTypesOK ==
    /\ focus = "jobs" => TypeOK
    /\ focus = "newgame" => NewGameTypeOK
    /\ focus = "saves" => LibraryTypeOK
    /\ focus = "mods" => ModTypeOK
    /\ focus = "commands" => CommandTypeOK

=============================================================================
