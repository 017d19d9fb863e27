-------------------------- MODULE MCPanelOperations --------------------------
(***************************************************************************)
(* The operations of the panel that keep a record of their own, its        *)
(* accounts, the passwords of the players' roles and the daily             *)
(* maintenance, in one run.  They share no record and no resource, and the *)
(* admission rules of InstanceAdmission keep one from starting inside      *)
(* another, so the run picks one of them and lets the others rest: every   *)
(* behaviour of each is a behaviour of the run.                            *)
(***************************************************************************)
EXTENDS SaveImport, InstanceLifetime, GroupUpgrade, PanelUpgrade, Accounts, RestartScheduler, RoleCredentials

VARIABLE focus   \* the component that moves

Init == /\ ImportInit /\ LifetimeInit /\ GroupInit /\ UpgradeInit /\ AccountInit /\ ScheduleInit /\ CredentialInit
        /\ focus \in {"import", "lifetime", "group", "upgrade", "accounts", "schedule", "passwords"}
        /\ focus # "import" => ~swap /\ first = "none"
        /\ focus # "group" => kind = [m \in Members |-> "cold"]
        /\ focus # "schedule" => plan = [on |-> TRUE, shut |-> 0, start |-> 0]
        /\ focus # "passwords" => authEnv.key = 0
        /\ oldRoles \in {{}, {CHOOSE r \in PlayerRoles : TRUE}}

Next == \/ focus = "import"   /\ ImportNext   /\ UNCHANGED <<focus, lifetimeVars, groupVars, upgradeVars, accountVars, scheduleVars, credentialVars>>
        \/ focus = "lifetime" /\ LifetimeNext /\ UNCHANGED <<focus, importVars, groupVars, upgradeVars, accountVars, scheduleVars, credentialVars>>
        \/ focus = "group"    /\ GroupNext    /\ UNCHANGED <<focus, importVars, lifetimeVars, upgradeVars, accountVars, scheduleVars, credentialVars>>
        \/ focus = "upgrade"  /\ UpgradeNext  /\ UNCHANGED <<focus, importVars, lifetimeVars, groupVars, accountVars, scheduleVars, credentialVars>>
        \/ focus = "accounts" /\ AccountNext  /\ UNCHANGED <<focus, importVars, lifetimeVars, groupVars, upgradeVars, scheduleVars, credentialVars>>
        \/ focus = "schedule" /\ ScheduleNext /\ UNCHANGED <<focus, importVars, lifetimeVars, groupVars, upgradeVars, accountVars, credentialVars>>
        \/ focus = "passwords" /\ CredentialNext /\ UNCHANGED <<focus, importVars, lifetimeVars, groupVars, upgradeVars, accountVars, scheduleVars>>

Spec == Init /\ [][Next]_<<focus, importVars, lifetimeVars, groupVars, upgradeVars, accountVars, scheduleVars, credentialVars>>

\* Every variable of the component that moves has its type; those of the others have their first value.
TypesOK ==
    /\ focus = "import" => ImportTypeOK
    /\ focus = "lifetime" => LifetimeTypeOK
    /\ focus = "group" => GroupTypeOK
    /\ focus = "upgrade" => UpgradeTypeOK
    /\ focus = "accounts" => AccountTypeOK
    /\ focus = "schedule" => ScheduleTypeOK
    /\ focus = "passwords" => CredentialTypeOK
=============================================================================
