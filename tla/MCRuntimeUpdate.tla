-------------------------- MODULE MCRuntimeUpdate --------------------------
(***************************************************************************)
(* What puts the game and its runtime into an instance, checked in one     *)
(* run: its installation and the two updates, that of Junimo and that of   *)
(* SMAPI.  Each refuses to begin beside another, and a boot resolves them  *)
(* one after the other, so one of them moves.                              *)
(***************************************************************************)
EXTENDS RuntimeUpdate, SmapiUpdate, Installer

VARIABLE focus   \* what moves

UpdatesInit == /\ Init /\ SmapiInit /\ InstallerInit /\ focus \in {"junimo", "smapi", "install"}
               /\ (focus # "junimo" => need = [uses |-> FALSE, auth |-> FALSE, server |-> FALSE])
               /\ (focus # "junimo" => server = "down" /\ mods.active = "orig")
               /\ (focus # "smapi" => archive = "good" /\ ~game.up)
               /\ (focus # "install" => base = "new")

JunimoMoves(A) == focus = "junimo" /\ A /\ UNCHANGED <<focus, smapiVars, installerVars>>
UpdatesNext == \/ JunimoMoves(Next)
               \/ focus = "smapi" /\ SmapiNext /\ UNCHANGED <<focus, vars, installerVars>>
               \/ focus = "install" /\ InstallerNext /\ UNCHANGED <<focus, vars, smapiVars>>

UpdatesSpec == /\ UpdatesInit /\ [][UpdatesNext]_<<focus, vars, smapiVars, installerVars>>
               /\ WF_vars(JunimoMoves(Runner)) /\ WF_vars(JunimoMoves(Boot))

\* Every variable of what moves has its type; those of the others have their first value.
UpdatesTypeOK ==
    /\ focus = "junimo" => TypeOK
    /\ focus = "smapi" => SmapiTypeOK
    /\ focus = "install" => InstallerTypeOK
=============================================================================
