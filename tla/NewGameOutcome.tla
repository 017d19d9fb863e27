--------------------------- MODULE NewGameOutcome ---------------------------
(***************************************************************************)
(* What a new-game transaction promises to the rest of the panel, without  *)
(* its journal, its steps or its game: once the instance is free again the *)
(* world is the old one or the new one, and how it ended does not change.  *)
(***************************************************************************)

VARIABLES
    world,   \* "old", "new", or "between" the two
    outcome, \* "none", "open", "kept" or "undone"
    held     \* the instance is reserved for the transaction

vars == <<world, outcome, held>>

Init == world = "old" /\ outcome = "none" /\ held = FALSE

Claim == /\ outcome = "none" /\ ~held
         /\ held' = TRUE
         /\ UNCHANGED <<world, outcome>>

Begin == /\ outcome = "none" /\ held
         /\ outcome' = "open"
         /\ UNCHANGED <<world, held>>

\* Files, saves and the game change while nothing is decided.
Work == /\ outcome = "open" /\ held
        /\ world' \in {"old", "between", "new"}
        /\ UNCHANGED <<outcome, held>>

Keep == /\ outcome = "open" /\ held /\ world = "new"
        /\ outcome' = "kept"
        /\ UNCHANGED <<world, held>>

Restore == /\ outcome = "open" /\ held /\ world = "old"
           /\ outcome' = "undone"
           /\ UNCHANGED <<world, held>>

Free == /\ outcome \in {"kept", "undone"} /\ held
        /\ held' = FALSE
        /\ UNCHANGED <<world, outcome>>

Next == Claim \/ Begin \/ Work \/ Keep \/ Restore \/ Free

Spec == Init /\ [][Next]_vars
=============================================================================
