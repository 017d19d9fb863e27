------------------------------ MODULE Accounts ------------------------------
(***************************************************************************)
(* The panel's accounts: the set-up of the first administrator, sign-in,    *)
(* and the administration of users (storage/auth.go, instance_state.go,     *)
(* web/auth_handlers.go, users_handlers.go, middleware.go).                 *)
(*                                                                         *)
(* A request is let in on a session and a user read before its body is      *)
(* decoded and a password hashed; what it then does is one transaction, one *)
(* after the other, since the store has a single connection.  Between the    *)
(* two, other requests do what they like with the same accounts.            *)
(*                                                                         *)
(* A name stands for the row it belongs to.  The code looks a row up by its *)
(* id, so a request about a deleted user finds nothing even when the name   *)
(* has been given away again; here it finds the new one, which allows more. *)
(***************************************************************************)
EXTENDS Naturals, FiniteSets

CONSTANTS Names,        \* user names
          Requests      \* requests under way at the same time

VARIABLES
    users,      \* the table users
    signedIn,   \* names with a session that is neither revoked nor expired
    ready,      \* the panel's flag initialized
    requests,   \* what each request has read, and what it is for
    legacy,     \* instance_state of the default instance
    world       \* its row in instances

accountVars == <<users, signedIn, ready, requests, legacy, world>>

NoUser   == [role |-> "none", first |-> FALSE, active |-> FALSE]
NoRequest == [step |-> "none", actor |-> {}, first |-> FALSE]
Roles    == {"admin", "user"}

Known(u) == users[u].role # "none"
ActiveAdmins == {u \in Names : users[u].role = "admin" /\ users[u].active}
FirstAdmins  == {u \in ActiveAdmins : users[u].first}

\* An installed panel that nobody has set up
AccountInit ==
    /\ users = [u \in Names |-> NoUser] /\ signedIn = {} /\ ready = FALSE
    /\ requests = [q \in Requests |-> NoRequest] /\ legacy = "uninitialized" /\ world = "uninitialized"

Is(q, step) == requests[q].step = step
Becomes(q, step) == requests' = [requests EXCEPT ![q].step = step]
Ends(q) == requests' = [requests EXCEPT ![q] = NoRequest]

-----------------------------------------------------------------------------
(* Set-up                                                                   *)

\* handleSetupAdmin: nobody has been set up yet, and the password is hashed
SetupBegins(q) ==
    /\ Is(q, "none") /\ ~ready /\ Becomes(q, "setup")
    /\ UNCHANGED <<users, signedIn, ready, legacy, world>>

\* CreateFirstAdminWithSession
MayFound == ActiveAdmins = {}
CreateFirstAdmin(q, u) ==
    /\ Is(q, "setup")
    /\ \/ MayFound /\ ~Known(u) /\ Becomes(q, "founded")
          /\ users' = [users EXCEPT ![u] = [role |-> "admin", first |-> TRUE, active |-> TRUE]]
          /\ signedIn' = signedIn \cup {u}
       \/ ~(MayFound /\ ~Known(u)) /\ Ends(q) /\ UNCHANGED <<users, signedIn>>
    /\ UNCHANGED <<ready, legacy, world>>
PublishReady(q) ==
    /\ Is(q, "founded") /\ ready' = TRUE /\ Becomes(q, "published")
    /\ UNCHANGED <<users, signedIn, legacy, world>>

\* SetInstanceState: by the table of transitions
AdminCreated(state) == state \in {"uninitialized", "admin_created"}
SetLegacyState(q) ==
    /\ Is(q, "published")
    /\ \/ AdminCreated(legacy) /\ legacy' = "admin_created" /\ Becomes(q, "noted")
       \/ Ends(q) /\ UNCHANGED legacy    \* refused, or a write fails
    /\ UNCHANGED <<users, signedIn, ready, world>>
\* UpdateInstanceState, whatever the row says
SetWorldState(q) ==
    /\ Is(q, "noted") /\ Ends(q) /\ world' \in {"admin_created", world}
    /\ UNCHANGED <<users, signedIn, ready, legacy>>

-----------------------------------------------------------------------------
(* Sessions                                                                 *)

\* handleLogin: the user is read and the password verified ...
LoginReads(q, u) ==
    /\ Is(q, "none") /\ ready /\ Known(u) /\ users[u].active
    /\ requests' = [requests EXCEPT ![q] = [NoRequest EXCEPT !.step = "login", !.actor = {u}]]
    /\ UNCHANGED <<users, signedIn, ready, legacy, world>>
\* ... before the session is created, for a user that still exists
LoginSession(q) ==
    /\ Is(q, "login") /\ Ends(q)
    /\ signedIn' = signedIn \cup {u \in requests[q].actor : Known(u)}
    /\ UNCHANGED <<users, ready, legacy, world>>
\* handleLogout of the last session, or its seven days are over
SessionEnds(u) ==
    /\ u \in signedIn /\ signedIn' = signedIn \ {u} /\ UNCHANGED <<users, ready, requests, legacy, world>>

-----------------------------------------------------------------------------
(* Administration                                                           *)

\* requireAdmin
RequireAdmin(q, u) ==
    /\ Is(q, "none") /\ ready /\ u \in signedIn \cap ActiveAdmins
    /\ requests' = [requests EXCEPT ![q] = [step |-> "admin", actor |-> {u}, first |-> users[u].first]]
    /\ UNCHANGED <<users, signedIn, ready, legacy, world>>

\* Mutant: every administrator may make another.
MayCreateAny(q, role) == TRUE
\* handleCreateUser: by the session it was let in with
MayCreate(q, role) == role = "admin" => requests[q].first
CreateUser(q, u, role) ==
    /\ Is(q, "admin") /\ Ends(q) /\ ~Known(u) /\ MayCreate(q, role)
    /\ users' = [users EXCEPT ![u] = [role |-> role, first |-> FALSE, active |-> TRUE]]
    /\ UNCHANGED <<signedIn, ready, legacy, world>>

\* ensureNotLastSuperAdminTx, ensureNotLastAdminTx
Spared(u) == (users[u].first => Cardinality(FirstAdmins) > 1) /\ Cardinality(ActiveAdmins) > 1
\* Mutant: a demotion may hit anybody.
MayUpdateAny(a, u, role, active) ==
    /\ users[u].role = "admin" /\ u # a => users[a].first
    /\ role # users[u].role => users[a].first
    /\ users[u].active /\ ~active => a # u /\ (users[u].role = "admin" => Spared(u))
\* UpdateUser: by the actor's row of now
MayUpdate(a, u, role, active) ==
    /\ users[u].role = "admin" /\ u # a => users[a].first
    /\ role # users[u].role => users[a].first
    /\ users[u].role = "admin" /\ role # "admin" => Spared(u)
    /\ users[u].active /\ ~active => a # u /\ (users[u].role = "admin" => Spared(u))
\* Role, activity and password in any combination; DisableUser is one of them.
UpdateUser(q, a, u, role, active, key) ==
    /\ Is(q, "admin") /\ requests[q].actor = {a} /\ Known(a) /\ Known(u) /\ Ends(q)
    /\ MayUpdate(a, u, role, active)
    /\ users' = [users EXCEPT ![u] = [role |-> role, first |-> @.first /\ role = "admin", active |-> active]]
    /\ signedIn' = IF ~active \/ key THEN signedIn \ {u} ELSE signedIn
    /\ UNCHANGED <<ready, legacy, world>>

\* DeleteUser; its sessions go with it
DeleteUser(q, a, u) ==
    /\ Is(q, "admin") /\ requests[q].actor = {a} /\ Known(a) /\ Known(u) /\ Ends(q)
    /\ a # u
    /\ users[u].role = "admin" => users[a].first
    /\ u \in ActiveAdmins => Spared(u)
    /\ users' = [users EXCEPT ![u] = NoUser] /\ signedIn' = signedIn \ {u}
    /\ UNCHANGED <<ready, legacy, world>>

\* Refused, invalid, or it only reads
RequestEnds(q) == Is(q, "admin") /\ Ends(q) /\ UNCHANGED <<users, signedIn, ready, legacy, world>>

\* The panel dies and boots: NewHandler reads the flag off the table.
PanelReboots ==
    /\ requests' = [q \in Requests |-> NoRequest] /\ ready' = (ActiveAdmins # {})
    /\ UNCHANGED <<users, signedIn, legacy, world>>

Setup(q) == SetupBegins(q) \/ (\E u \in Names : CreateFirstAdmin(q, u)) \/ PublishReady(q) \/ SetLegacyState(q) \/ SetWorldState(q)
Administer(q) ==
    \/ \E u \in Names : RequireAdmin(q, u)
    \/ \E u \in Names, role \in Roles : CreateUser(q, u, role)
    \/ \E a, u \in Names, role \in Roles, active, key \in BOOLEAN : UpdateUser(q, a, u, role, active, key)
    \/ \E a, u \in Names : DeleteUser(q, a, u)
    \/ RequestEnds(q)
AccountNext ==
    \/ \E q \in Requests : Setup(q) \/ (\E u \in Names : LoginReads(q, u)) \/ LoginSession(q) \/ Administer(q)
    \/ \E u \in Names : SessionEnds(u)
    \/ PanelReboots

AccountSpec == AccountInit /\ [][AccountNext]_accountVars

-----------------------------------------------------------------------------
(* Properties                                                               *)

\* Every variable has its type.
AccountTypeOK ==
    /\ users \in [Names -> [role : Roles \cup {"none"}, first : BOOLEAN, active : BOOLEAN]]
    /\ signedIn \subseteq Names /\ ready \in BOOLEAN
    /\ requests \in [Requests -> [step : {"none", "setup", "founded", "published", "noted", "login", "admin"},
                                  actor : SUBSET Names, first : BOOLEAN]]
    /\ {legacy, world} \subseteq {"uninitialized", "admin_created"}

\* Whoever asks for what at the same time, a panel has no account at all or
\* exactly one first administrator, active; and it is set up if it says so.
Administered ==
    /\ (\E u \in Names : Known(u)) => Cardinality({u \in Names : users[u].first}) = 1 /\ FirstAdmins # {}
    /\ ready => FirstAdmins # {}

\* An administrator is made by set-up or by one who is the first administrator
\* at that moment, however old the session is that let the request in.
AdminsGranted ==
    [][\A u \in Names : users[u].role # "admin" /\ users'[u].role = "admin" =>
          \/ \A v \in Names : ~Known(v)
          \/ \E q \in Requests : /\ Is(q, "admin") /\ ~(Is(q, "admin"))'
                                 /\ requests[q].actor \subseteq FirstAdmins]_accountVars
=============================================================================
