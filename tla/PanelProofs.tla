---------------------------- MODULE PanelProofs ----------------------------
(***************************************************************************)
(* Proofs about what the panel keeps beside the game: who may use the      *)
(* panel and the farm, for any names, roles, keys and numbers of requests, *)
(* failing writes and deaths, the worlds, for any number of them, their    *)
(* daily maintenance, for days of any length, and its own upgrade with the *)
(* operation on all worlds after it, for any number of failures and deaths.*)
(*                                                                         *)
(* The accounts: the first administrator, once there is one, never loses   *)
(* what makes it so, for it is the only one, and the check for the last of *)
(* its kind always refuses.  Whatever a request has read of it therefore   *)
(* stays true, however long the request takes.                             *)
(*                                                                         *)
(* The passwords of the roles: the key in .env opens every password there  *)
(* is until an update could not be undone, and no password is lost but to  *)
(* the administrator who cleared it, until a process is robbed of its      *)
(* turn.  The first holds because of an order: a new key is in .env before *)
(* the records made with it, and leaves .env only when they are gone.  The *)
(* second rests on the lock, and on what its holder has read.              *)
(*                                                                         *)
(* The upgrade: three processes write the same files, and only the helper  *)
(* outlives the panel.  Its step says what it has done; the coordinator,   *)
(* who starts anew from the files, is at work only where they say that the *)
(* operation was confirmed and the panel is the confirmed one; and of each *)
(* group only the newest operation that began it is ever gone on with.     *)
(***************************************************************************)
EXTENDS Accounts, RoleCredentials, InstanceLifetime, RestartScheduler, PanelUpgrade,
        FiniteSetTheorems, TLAPS

-----------------------------------------------------------------------------
(* The accounts                                                            *)

First(u) == users[u].first
Founded  == \E u \in Names : First(u)

\* The types the argument uses.
Tables ==
    /\ users \in [Names -> [role : Roles \cup {"none"}, first : BOOLEAN, active : BOOLEAN]]
    /\ requests \in [Requests -> [step : {"none", "setup", "founded", "published", "noted", "login", "admin"},
                                  actor : SUBSET Names, first : BOOLEAN]]
\* There is one first administrator at most, and it is an active one.
OnlyFirst   == \A u, v \in Names : First(u) /\ First(v) => u = v
FirstActive == \A u \in Names : First(u) => users[u].role = "admin" /\ users[u].active
\* Nothing goes on before there is one.
FoundedFirst ==
    /\ \A u \in Names : Known(u) => Founded
    /\ ready => Founded
    /\ \A q \in Requests : ~Is(q, "none") /\ ~Is(q, "setup") => Founded
\* What a request was let in with is still so.
ActorsStand == \A q \in Requests : Is(q, "admin") /\ requests[q].first => \A u \in requests[q].actor : First(u)

AccountInv == Tables /\ OnlyFirst /\ FirstActive /\ FoundedFirst /\ ActorsStand

\* The first administrators are those with the mark.
LEMMA TheFirst == ASSUME FirstActive PROVE FirstAdmins = {u \in Names : First(u)}
BY DEF FirstActive, FirstAdmins, ActiveAdmins, First

\* The check for the last one refuses whatever would take the first away.
LEMMA NeverSpared ==
    ASSUME OnlyFirst, FirstActive, NEW u \in Names, First(u)
    PROVE  ~Spared(u)
<1>1. FirstAdmins = {u}  BY TheFirst DEF OnlyFirst
<1>2. Cardinality({u}) = 1  BY FS_Singleton
<1> QED BY <1>1, <1>2 DEF Spared, First

-----------------------------------------------------------------------------
(* Steps                                                                    *)

\* What a step does to the users ...
Founds  == \E q \in Requests, u \in Names :
              /\ Is(q, "setup") /\ MayFound /\ ~Known(u)
              /\ users' = [users EXCEPT ![u] = [role |-> "admin", first |-> TRUE, active |-> TRUE]]
Creates == \E q \in Requests, u \in Names, role \in Roles :
              /\ Is(q, "admin") /\ Ends(q) /\ ~Known(u) /\ MayCreate(q, role)
              /\ users' = [users EXCEPT ![u] = [role |-> role, first |-> FALSE, active |-> TRUE]]
Entry(u, role, active) == [role |-> role, first |-> users[u].first /\ role = "admin", active |-> active]
Reassigns == \E q \in Requests, a, u \in Names, role \in Roles, active \in BOOLEAN :
              /\ Is(q, "admin") /\ requests[q].actor = {a} /\ Ends(q) /\ Known(u)
              /\ MayUpdate(a, u, role, active)
              /\ users' = [users EXCEPT ![u] = Entry(u, role, active)]
Deletes == \E u \in Names :
              /\ u \in ActiveAdmins => Spared(u)
              /\ users' = [users EXCEPT ![u] = NoUser]
UsersStep == users' = users \/ Founds \/ Creates \/ Reassigns \/ Deletes

\* ... and to the requests: one goes on, is let in, or is over, or all are.
RequestsStep ==
    \/ requests' = requests
    \/ \E q \in Requests : Ends(q)
    \/ \E q \in Requests : Becomes(q, "setup")
    \/ \E q \in Requests : Founds /\ Becomes(q, "founded")
    \/ \E q \in Requests, to \in {"published", "noted"} : Founded /\ Becomes(q, to)
    \/ \E q \in Requests, u \in Names :
          Founded /\ requests' = [requests EXCEPT ![q] = [NoRequest EXCEPT !.step = "login", !.actor = {u}]]
    \/ \E q \in Requests, u \in Names :
          Founded /\ requests' = [requests EXCEPT ![q] = [step |-> "admin", actor |-> {u}, first |-> users[u].first]]
    \/ requests' = [q \in Requests |-> NoRequest]

ReadyStep == ready' = ready \/ (ready' = TRUE /\ Founded) \/ ready' = (ActiveAdmins # {})

\* Every step is of these kinds.
LEMMA Kinds ==
    ASSUME AccountInv, [AccountNext]_accountVars
    PROVE  UsersStep /\ RequestsStep /\ ReadyStep
<1> USE DEF UsersStep, RequestsStep, ReadyStep
<1>1. CASE UNCHANGED accountVars  BY <1>1 DEF accountVars
<1>2. CASE PanelReboots  BY <1>2 DEF PanelReboots
<1>3. ASSUME NEW u \in Names, SessionEnds(u) PROVE UsersStep /\ RequestsStep /\ ReadyStep
  BY <1>3 DEF SessionEnds
<1>4. ASSUME NEW q \in Requests, SetupBegins(q) PROVE UsersStep /\ RequestsStep /\ ReadyStep
  BY <1>4 DEF SetupBegins
<1>5. ASSUME NEW q \in Requests, NEW u \in Names, CreateFirstAdmin(q, u) PROVE UsersStep /\ RequestsStep /\ ReadyStep
  <2>1. ready' = ready  BY <1>5 DEF CreateFirstAdmin
  <2>2. CASE Founds /\ Becomes(q, "founded")  BY <2>1, <2>2
  <2>3. CASE Ends(q) /\ UNCHANGED users  BY <2>1, <2>3
  <2> QED BY <1>5, <2>2, <2>3 DEF CreateFirstAdmin, Founds
<1>6. ASSUME NEW q \in Requests, PublishReady(q) PROVE UsersStep /\ RequestsStep /\ ReadyStep
  <2>1. Founded  BY <1>6 DEF PublishReady, AccountInv, FoundedFirst, Is
  <2> QED BY <1>6, <2>1 DEF PublishReady
<1>7. ASSUME NEW q \in Requests, SetLegacyState(q) PROVE UsersStep /\ RequestsStep /\ ReadyStep
  <2>1. Founded  BY <1>7 DEF SetLegacyState, AccountInv, FoundedFirst, Is
  <2> QED BY <1>7, <2>1 DEF SetLegacyState
<1>8. ASSUME NEW q \in Requests, SetWorldState(q) PROVE UsersStep /\ RequestsStep /\ ReadyStep
  BY <1>8 DEF SetWorldState
<1>9. ASSUME NEW q \in Requests, NEW u \in Names, LoginReads(q, u) PROVE UsersStep /\ RequestsStep /\ ReadyStep
  <2>1. Founded  BY <1>9 DEF LoginReads, AccountInv, FoundedFirst
  <2> QED BY <1>9, <2>1 DEF LoginReads
<1>10. ASSUME NEW q \in Requests, LoginSession(q) PROVE UsersStep /\ RequestsStep /\ ReadyStep
  BY <1>10 DEF LoginSession
<1>11. ASSUME NEW q \in Requests, NEW u \in Names, RequireAdmin(q, u) PROVE UsersStep /\ RequestsStep /\ ReadyStep
  <2>1. Founded  BY <1>11 DEF RequireAdmin, AccountInv, FoundedFirst
  <2> QED BY <1>11, <2>1 DEF RequireAdmin
<1>12. ASSUME NEW q \in Requests, NEW u \in Names, NEW role \in Roles, CreateUser(q, u, role)
       PROVE  UsersStep /\ RequestsStep /\ ReadyStep
  <2>1. Creates  BY <1>12 DEF CreateUser, Creates
  <2> QED BY <1>12, <2>1 DEF CreateUser
<1>13. ASSUME NEW q \in Requests, NEW a \in Names, NEW u \in Names, NEW role \in Roles, NEW active \in BOOLEAN,
              NEW key \in BOOLEAN, UpdateUser(q, a, u, role, active, key)
       PROVE  UsersStep /\ RequestsStep /\ ReadyStep
  <2>1. Reassigns  BY ZenonT(60), <1>13 DEF UpdateUser, Reassigns, Entry
  <2> QED BY <1>13, <2>1 DEF UpdateUser
<1>14. ASSUME NEW q \in Requests, NEW a \in Names, NEW u \in Names, DeleteUser(q, a, u)
       PROVE  UsersStep /\ RequestsStep /\ ReadyStep
  <2>1. Deletes  BY <1>14 DEF DeleteUser, Deletes
  <2> QED BY <1>14, <2>1 DEF DeleteUser
<1>15. ASSUME NEW q \in Requests, RequestEnds(q) PROVE UsersStep /\ RequestsStep /\ ReadyStep
  BY <1>15 DEF RequestEnds
<1> QED
  BY <1>1, <1>2, <1>3, <1>4, <1>5, <1>6, <1>7, <1>8, <1>9, <1>10, <1>11, <1>12, <1>13, <1>14, <1>15
  DEF AccountNext, Setup, Administer

\* An administrator who may be spared is not the first one, and so the first one stays.
LEMMA FirstStays ==
    ASSUME AccountInv, UsersStep
    PROVE  /\ \A u \in Names : First(u) => First(u)'
           /\ users' \in [Names -> [role : Roles \cup {"none"}, first : BOOLEAN, active : BOOLEAN]]
           /\ (OnlyFirst /\ FirstActive)'
           /\ (\A u \in Names : Known(u) => Founded)'
<1> USE DEF AccountInv
<1> DEFINE Goal == /\ \A u \in Names : First(u) => First(u)'
                   /\ users' \in [Names -> [role : Roles \cup {"none"}, first : BOOLEAN, active : BOOLEAN]]
                   /\ (OnlyFirst /\ FirstActive)'
                   /\ (\A u \in Names : Known(u) => Founded)'
<1>1. CASE users' = users
  BY <1>1 DEF Tables, OnlyFirst, FirstActive, FoundedFirst, First, Known, Founded
<1>2. CASE Founds
  <2>1. PICK u \in Names : /\ MayFound /\ ~Known(u)
                           /\ users' = [users EXCEPT ![u] = [role |-> "admin", first |-> TRUE, active |-> TRUE]]
    BY <1>2 DEF Founds
  <2>2. \A v \in Names : ~First(v)  BY <2>1 DEF MayFound, FirstActive, ActiveAdmins, First
  <2>3. \A v \in Names : users'[v] = IF v = u THEN [role |-> "admin", first |-> TRUE, active |-> TRUE] ELSE users[v]
    BY <2>1 DEF Tables
  <2>4. \A v \in Names : users'[v].first <=> v = u  BY <2>2, <2>3 DEF First, Tables
  <2>5. users' \in [Names -> [role : Roles \cup {"none"}, first : BOOLEAN, active : BOOLEAN]]
    BY <2>1 DEF Tables, Roles
  <2> QED BY <2>2, <2>3, <2>4, <2>5 DEF OnlyFirst, FirstActive, First, Known, Founded
<1>3. CASE Creates
  <2>1. PICK q \in Requests, u \in Names, role \in Roles :
               /\ Is(q, "admin") /\ ~Known(u)
               /\ users' = [users EXCEPT ![u] = [role |-> role, first |-> FALSE, active |-> TRUE]]
    BY <1>3 DEF Creates
  <2>2. Founded /\ ~First(u)  BY <2>1 DEF FoundedFirst, FirstActive, Is, First, Known
  <2>3. \A v \in Names : users'[v] = IF v = u THEN [role |-> role, first |-> FALSE, active |-> TRUE] ELSE users[v]
    BY <2>1 DEF Tables
  <2>4. users' \in [Names -> [role : Roles \cup {"none"}, first : BOOLEAN, active : BOOLEAN]]
    BY <2>1 DEF Tables, Roles
  <2> QED BY <2>2, <2>3, <2>4 DEF OnlyFirst, FirstActive, First, Known, Founded
<1>4. CASE Reassigns
  <2>1. PICK q \in Requests, a \in Names, u \in Names, role \in Roles, active \in BOOLEAN :
               /\ Known(u) /\ MayUpdate(a, u, role, active)
               /\ users' = [users EXCEPT ![u] = Entry(u, role, active)]
    BY <1>4 DEF Reassigns
  <2>2. Founded  BY <2>1 DEF FoundedFirst
  <2>3. \A v \in Names : users'[v] = IF v = u THEN Entry(u, role, active) ELSE users[v]
    BY <2>1 DEF Tables
  <2>4. First(u) => role = "admin" /\ active
    BY <2>1, NeverSpared DEF MayUpdate, FirstActive, First
  <2>5. users' \in [Names -> [role : Roles \cup {"none"}, first : BOOLEAN, active : BOOLEAN]]
    <3>1. Entry(u, role, active) \in [role : Roles \cup {"none"}, first : BOOLEAN, active : BOOLEAN]
      BY DEF Entry, Roles
    <3> QED BY <2>1, <3>1 DEF Tables
  <2>6. /\ Entry(u, role, active).role = role /\ Entry(u, role, active).active = active
        /\ Entry(u, role, active).first <=> First(u) /\ role = "admin"
    BY DEF Entry, First
  <2>7. \A v \in Names : users'[v].first <=> First(v)  BY <2>3, <2>4, <2>6 DEF First
  <2> QED
    BY <2>2, <2>3, <2>4, <2>5, <2>6, <2>7 DEF OnlyFirst, FirstActive, First, Known, Founded, Tables
<1>5. CASE Deletes
  <2>1. PICK u \in Names : (u \in ActiveAdmins => Spared(u)) /\ users' = [users EXCEPT ![u] = NoUser]
    BY <1>5 DEF Deletes
  <2>2. ~First(u)  BY <2>1, NeverSpared DEF FirstActive, First, ActiveAdmins
  <2>3. \A v \in Names : users'[v] = IF v = u THEN NoUser ELSE users[v]  BY <2>1 DEF Tables
  <2>4. users' \in [Names -> [role : Roles \cup {"none"}, first : BOOLEAN, active : BOOLEAN]]
    BY <2>1 DEF Tables, NoUser
  <2> QED
    BY <2>2, <2>3, <2>4 DEF OnlyFirst, FirstActive, FoundedFirst, First, Known, Founded, NoUser
<1> QED BY <1>1, <1>2, <1>3, <1>4, <1>5 DEF UsersStep

\* What requests have read stays true, and the flag tells the truth.
LEMMA RequestsStand ==
    ASSUME AccountInv, UsersStep, RequestsStep, ReadyStep, \A u \in Names : First(u) => First(u)'
    PROVE  /\ requests' \in [Requests -> [step : {"none", "setup", "founded", "published", "noted", "login", "admin"},
                                          actor : SUBSET Names, first : BOOLEAN]]
           /\ (\A q \in Requests : ~Is(q, "none") /\ ~Is(q, "setup") => Founded)'
           /\ ActorsStand'
           /\ (ready => Founded)'
<1>1. Founded => Founded'  BY DEF Founded
<1>2. (ready => Founded)'
  <2>1. ActiveAdmins # {} => Founded  BY DEF AccountInv, FoundedFirst, ActiveAdmins, Known
  <2> QED BY <1>1, <2>1 DEF ReadyStep, AccountInv, FoundedFirst
<1> DEFINE Request == [step : {"none", "setup", "founded", "published", "noted", "login", "admin"},
                       actor : SUBSET Names, first : BOOLEAN]
           Good(r, up) == /\ r \in Request
                          /\ r.step \notin {"none", "setup"} => up
                          /\ r.step = "admin" /\ r.first => \A u \in r.actor : First(u)'
<1>3. \A q \in Requests : Good(requests[q], Founded')
  BY <1>1 DEF AccountInv, Tables, FoundedFirst, ActorsStand, Is
<1>4. Good(NoRequest, Founded')  BY DEF NoRequest
<1>5. requests \in [Requests -> Request]  BY DEF AccountInv, Tables
<1>6. requests' \in [Requests -> Request] /\ \A q \in Requests : Good(requests'[q], Founded')
  <2>1. CASE requests' = requests  BY <2>1, <1>3, <1>5
  <2>2. CASE \E q \in Requests : Ends(q)  BY <2>2, <1>3, <1>4, <1>5 DEF Ends
  <2>3. CASE requests' = [q \in Requests |-> NoRequest]  BY <2>3, <1>4
  <2>4. ASSUME NEW q \in Requests, NEW r \in Request, requests' = [requests EXCEPT ![q] = r], Good(r, Founded')
        PROVE  requests' \in [Requests -> Request] /\ \A p \in Requests : Good(requests'[p], Founded')
    BY <2>4, <1>3, <1>5
  <2>5. ASSUME NEW q \in Requests, NEW to \in {"setup", "founded", "published", "noted"}, Becomes(q, to),
               to = "setup" \/ Founded'
        PROVE  requests' \in [Requests -> Request] /\ \A p \in Requests : Good(requests'[p], Founded')
    <3>1. requests' = [requests EXCEPT ![q] = [requests[q] EXCEPT !.step = to]]
      BY <2>5 DEF Becomes
    <3>2. [requests[q] EXCEPT !.step = to] \in Request /\ [requests[q] EXCEPT !.step = to].step = to
      BY <1>5
    <3>3. Good([requests[q] EXCEPT !.step = to], Founded')  BY <3>2, <2>5
    <3> QED BY <2>4, <3>1, <3>2, <3>3
  <2>6. CASE \E q \in Requests : Becomes(q, "setup")  BY <2>5, <2>6
  <2>7. CASE \E q \in Requests : Founds /\ Becomes(q, "founded")
    <3>1. Founded'  BY <2>7 DEF Founds, Founded, First, AccountInv, Tables
    <3> QED BY <2>5, <2>7, <3>1
  <2>8. CASE \E q \in Requests, to \in {"published", "noted"} : Founded /\ Becomes(q, to)
    BY <2>5, <2>8, <1>1
  <2>9. ASSUME NEW q \in Requests, NEW u \in Names, Founded,
               requests' = [requests EXCEPT ![q] = [NoRequest EXCEPT !.step = "login", !.actor = {u}]]
        PROVE  requests' \in [Requests -> Request] /\ \A p \in Requests : Good(requests'[p], Founded')
    <3>1. [NoRequest EXCEPT !.step = "login", !.actor = {u}].step = "login"  BY DEF NoRequest
    <3>2. [NoRequest EXCEPT !.step = "login", !.actor = {u}] \in Request  BY DEF NoRequest
    <3> QED BY <1>1, <2>4, <2>9, <3>1, <3>2
  <2>10. ASSUME NEW q \in Requests, NEW u \in Names, Founded,
                requests' = [requests EXCEPT ![q] = [step |-> "admin", actor |-> {u}, first |-> users[u].first]]
         PROVE  requests' \in [Requests -> Request] /\ \A p \in Requests : Good(requests'[p], Founded')
    <3>1. users[u].first \in BOOLEAN  BY DEF AccountInv, Tables
    <3>2. Good([step |-> "admin", actor |-> {u}, first |-> users[u].first], Founded')
      BY <1>1, <2>10, <3>1 DEF First
    <3> QED BY <2>4, <2>10, <3>1, <3>2
  <2> QED BY <2>1, <2>2, <2>3, <2>6, <2>7, <2>8, <2>9, <2>10 DEF RequestsStep
<1> QED BY <1>2, <1>6 DEF ActorsStand, Is

-----------------------------------------------------------------------------
(* Theorems                                                                 *)

\* There is one first administrator at most, it stays, and what requests have
\* read of it stays true.
THEOREM AccountInvariant == AccountSpec => []AccountInv
<1>1. AccountInit => AccountInv
  BY DEF AccountInit, AccountInv, Tables, OnlyFirst, FirstActive, FoundedFirst, ActorsStand, NoUser, NoRequest,
         First, Known, Is
<1>2. AccountInv /\ [AccountNext]_accountVars => AccountInv'
  <2> SUFFICES ASSUME AccountInv, [AccountNext]_accountVars PROVE AccountInv'
    OBVIOUS
  <2>1. UsersStep /\ RequestsStep /\ ReadyStep  BY Kinds
  <2>2. /\ \A u \in Names : First(u) => First(u)'
        /\ users' \in [Names -> [role : Roles \cup {"none"}, first : BOOLEAN, active : BOOLEAN]]
        /\ (OnlyFirst /\ FirstActive)'
        /\ (\A u \in Names : Known(u) => Founded)'
    BY <2>1, FirstStays
  <2>3. /\ requests' \in [Requests -> [step : {"none", "setup", "founded", "published", "noted", "login", "admin"},
                                       actor : SUBSET Names, first : BOOLEAN]]
        /\ (\A q \in Requests : ~Is(q, "none") /\ ~Is(q, "setup") => Founded)'
        /\ ActorsStand'
        /\ (ready => Founded)'
    BY <2>1, <2>2, RequestsStand
  <2> QED BY <2>2, <2>3 DEF AccountInv, Tables, FoundedFirst
<1> QED BY <1>1, <1>2, PTL DEF AccountSpec

\* Every variable of the accounts has its type, whatever fails.
THEOREM AccountTypes == AccountSpec => []AccountTypeOK
<1> DEFINE Rest == /\ signedIn \subseteq Names /\ ready \in BOOLEAN
                   /\ {legacy, world} \subseteq {"uninitialized", "admin_created"}
<1>1. AccountInit => Rest  BY DEF AccountInit
<1>2. AccountInv /\ Rest /\ [AccountNext]_accountVars => Rest'
  <2> SUFFICES ASSUME AccountInv, Rest, [AccountNext]_accountVars PROVE Rest'
    OBVIOUS
  <2>1. CASE UNCHANGED accountVars  BY <2>1 DEF accountVars
  <2>2. ASSUME NEW q \in Requests, Setup(q) PROVE Rest'
    BY <2>2 DEF Setup, SetupBegins, CreateFirstAdmin, PublishReady, SetLegacyState, SetWorldState
  <2>3. ASSUME NEW q \in Requests, LoginSession(q) \/ \E u \in Names : LoginReads(q, u) PROVE Rest'
    BY <2>3 DEF LoginSession, LoginReads, AccountInv, Tables
  <2>4. ASSUME NEW q \in Requests, Administer(q) PROVE Rest'
    BY <2>4 DEF Administer, RequireAdmin, CreateUser, UpdateUser, DeleteUser, RequestEnds
  <2>5. ASSUME NEW u \in Names, SessionEnds(u) PROVE Rest'
    BY <2>5 DEF SessionEnds
  <2>6. CASE PanelReboots  BY <2>6 DEF PanelReboots
  <2> QED BY <2>1, <2>2, <2>3, <2>4, <2>5, <2>6 DEF AccountNext
<1>3. AccountInv /\ Rest => AccountTypeOK  BY DEF AccountInv, Tables, AccountTypeOK
<1> QED BY <1>1, <1>2, <1>3, AccountInvariant, PTL DEF AccountSpec

\* However requests overlap, a panel with accounts has exactly one first
\* administrator, an active one, and it is set up if it says so.
THEOREM AdministeredHolds == AccountSpec => []Administered
<1>1. AccountInv => Administered
  <2> SUFFICES ASSUME AccountInv PROVE Administered
    OBVIOUS
  <2>1. ASSUME NEW u \in Names, First(u)
        PROVE  Cardinality({v \in Names : users[v].first}) = 1 /\ FirstAdmins # {}
    <3>1. {v \in Names : users[v].first} = {u}  BY <2>1 DEF AccountInv, OnlyFirst, First
    <3>2. Cardinality({u}) = 1  BY FS_Singleton
    <3>3. u \in FirstAdmins  BY <2>1, TheFirst DEF AccountInv
    <3> QED BY <3>1, <3>2, <3>3
  <2> QED BY <2>1 DEF AccountInv, FoundedFirst, Founded, Administered
<1> QED BY <1>1, AccountInvariant, PTL

\* An administrator is made by the set-up of a panel that knows nobody, or by
\* one who is the first administrator when it happens, not only when it asked.
THEOREM AdminsGrantedHolds == AccountSpec => AdminsGranted
<1> DEFINE Granted == \A u \in Names : users[u].role # "admin" /\ users'[u].role = "admin" =>
                         \/ \A v \in Names : ~Known(v)
                         \/ \E q \in Requests : /\ Is(q, "admin") /\ ~(Is(q, "admin"))'
                                                /\ requests[q].actor \subseteq FirstAdmins
<1>1. ASSUME AccountInv, [AccountNext]_accountVars PROVE Granted
  <2>1. UsersStep  BY <1>1, Kinds
  <2>2. ASSUME NEW q \in Requests, Ends(q), Is(q, "admin") PROVE ~(Is(q, "admin"))'
    BY <1>1, <2>2 DEF Ends, Is, NoRequest, AccountInv, Tables
  <2>3. CASE users' = users  BY <2>3
  <2>4. CASE Founds
    <3>1. \A v \in Names : ~First(v)
      BY <2>4, <1>1 DEF Founds, MayFound, AccountInv, FirstActive, ActiveAdmins, First
    <3> QED BY <3>1, <1>1 DEF AccountInv, FoundedFirst, Founded
  <2>5. CASE Creates
    <3>1. PICK q \in Requests, u \in Names, role \in Roles :
                 /\ Is(q, "admin") /\ Ends(q) /\ MayCreate(q, role)
                 /\ users' = [users EXCEPT ![u] = [role |-> role, first |-> FALSE, active |-> TRUE]]
      BY <2>5 DEF Creates
    <3>2. ASSUME role = "admin" PROVE requests[q].actor \subseteq FirstAdmins
      BY <3>1, <3>2, <1>1, TheFirst DEF MayCreate, AccountInv, ActorsStand, Tables
    <3>3. \A v \in Names : v # u => users'[v] = users[v]  BY <3>1
    <3>4. users'[u].role = role  BY <3>1, <1>1 DEF AccountInv, Tables
    <3> QED BY <3>1, <3>2, <3>3, <3>4, <2>2
  <2>6. CASE Reassigns
    <3>1. PICK q \in Requests, a \in Names, u \in Names, role \in Roles, active \in BOOLEAN :
                 /\ Is(q, "admin") /\ requests[q].actor = {a} /\ Ends(q) /\ Known(u)
                 /\ MayUpdate(a, u, role, active)
                 /\ users' = [users EXCEPT ![u] = Entry(u, role, active)]
      BY <2>6 DEF Reassigns
    <3>2. ASSUME role # users[u].role PROVE requests[q].actor \subseteq FirstAdmins
      BY <3>1, <3>2, <1>1, TheFirst DEF MayUpdate, AccountInv, First
    <3>3. \A v \in Names : v # u => users'[v] = users[v]  BY <3>1
    <3>4. users'[u].role = role  BY <3>1, <1>1 DEF AccountInv, Tables, Entry
    <3> QED BY <3>1, <3>2, <3>3, <3>4, <2>2
  <2>7. CASE Deletes  BY <2>7, <1>1 DEF Deletes, NoUser, AccountInv, Tables
  <2> QED BY <2>1, <2>3, <2>4, <2>5, <2>6, <2>7 DEF UsersStep
<1> QED BY <1>1, AccountInvariant, PTL DEF AccountSpec, AdminsGranted

-----------------------------------------------------------------------------
(* The passwords of the roles                                              *)

Keys    == 0..RoleKeys
Env     == [mode : {"other", "role"}, key : Keys]
Records == [PlayerRoles -> Keys]
Files   == [there : BOOLEAN, by : Records]
RolePlaces  == {"idle", "stage", "lock", "aged", "load", "write", "move", "commit", "undo", "unmark",
            "release", "settle", "told"}
Ways    == {"none", "ok", "no", "refused", "undone"}
Accesses == [step : RolePlaces, read : Files, next : Records, end : Ways]
Updates == [mode : {"other", "role"}, key : Keys, set : SUBSET PlayerRoles, cleared : SUBSET PlayerRoles,
            commit : BOOLEAN, staged : BOOLEAN, was : Env]

Typed ==
    /\ authEnv \in Env /\ box \in Env
    /\ store \in Files /\ marker \in BOOLEAN
    /\ access \in [Processes -> Accesses]
    /\ update \in Updates
    /\ oldRoles \subseteq PlayerRoles /\ player \subseteq PlayerRoles
    /\ roleLock \in {"free", "dead", "old"} \cup Processes /\ gameAuth \in {"down", "open", "closed"}
    /\ lastKey \in Keys /\ cfaults \in Nat
    /\ robbed \in BOOLEAN /\ stuck \in BOOLEAN

panelAt == access["panel"].step
gameAt  == access["game"].step
Rewrites == update.set \cup update.cleared # {}

\* Every record opens with the key in .env; there is none.
Opens(by)   == \A r \in PlayerRoles : by[r] # NoRecord => by[r] = authEnv.key
Nothing(by) == \A r \in PlayerRoles : by[r] = NoRecord

\* What the game runs with.
GameHasKey ==
    /\ authEnv.mode = "role" => authEnv.key # 0
    /\ box.mode = "role" => box.key = authEnv.key /\ box.key # 0
    /\ gameAuth # "down" => box.mode = "role"
    /\ gameAt # "idle" => gameAuth # "down"
    /\ gameAt \in {"write", "move"} => Opens(access["game"].next)

\* What the panel is about to write opens with the key that is in .env by then.
PanelHasKey ==
    /\ update.mode = "role" => update.key # 0
    /\ update.was.mode = "role" => update.was.key # 0
    /\ panelAt \in {"lock", "aged", "load", "write", "move", "undo", "unmark"} => update.key = authEnv.key /\ Rewrites
    /\ panelAt = "commit" /\ Rewrites => update.key = authEnv.key
    /\ panelAt \in {"write", "move"} => Opens(access["panel"].next)
    /\ panelAt \in {"write", "move", "commit", "undo"} /\ Rewrites => Opens(access["panel"].read.by)

\* Where a key is new, nobody has a password, and the game asks for none, until the panel has
\* written; and again when that is undone.
NewKey ==
    /\ panelAt = "stage" => update.staged /\ authEnv.key = 0
    /\ panelAt # "idle" /\ update.staged =>
          /\ Rewrites
          /\ box.mode # "role" /\ oldRoles = {} /\ update.was.key = 0
          /\ panelAt \in {"stage", "lock", "aged", "load", "write", "move", "unmark"} => Nothing(store.by)
          /\ panelAt \in {"write", "move", "commit", "undo"} => Nothing(access["panel"].read.by)
          /\ panelAt \in {"release", "settle"} /\ access["panel"].end # "ok" => Nothing(store.by)
    /\ panelAt = "commit" /\ ~Rewrites /\ update.key # authEnv.key =>
          box.mode # "role" /\ oldRoles = {} /\ Nothing(store.by)

KeyInv ==
    /\ Opens(store.by) /\ (~store.there => Nothing(store.by))
    /\ oldRoles # {} => authEnv.key = 1
    /\ GameHasKey /\ PanelHasKey /\ NewKey

\* The store that a holder has read is the store there is.
Holds(a) ==
    \/ access[a].step \in {"load", "write", "move", "undo", "unmark"}
    \/ a = "panel" /\ panelAt = "commit" /\ Rewrites
GameKeeps ==
    gameAt \in {"write", "move"} =>
        \A r \in PlayerRoles : Credentials[r] # NoRecord => access["game"].next[r] # NoRecord
\* What the panel has found of each role.
Found == Migrated(access["panel"].read)
PanelKeeps ==
    /\ panelAt \in {"write", "move"} =>
          \A r \in PlayerRoles :
              /\ Credentials[r] # NoRecord /\ r \notin update.cleared => access["panel"].next[r] # NoRecord
              /\ access["panel"].next[r] # NoRecord /\ r \notin update.set => Found[r] # NoRecord
    /\ (panelAt \in {"write", "move", "undo"} \/ (panelAt = "commit" /\ Rewrites)) =>
          \A r \in PlayerRoles : Credentials[r] # NoRecord /\ r \notin update.set => Found[r] # NoRecord
LockInv ==
    /\ \A a \in Processes : Holds(a) => roleLock = a
    /\ GameKeeps /\ PanelKeeps

IInv == Typed /\ (update.set # {} => update.key # 0)
              /\ (stuck \/ KeyInv) /\ (robbed \/ LockInv)

-----------------------------------------------------------------------------

\* The keys are numbers; one that is not the last has a successor.
LEMMA KeysKnown ==
    Keys \subseteq Nat /\ 0 \in Keys /\ 1 \in Keys /\ (\A k \in Keys : k < RoleKeys => k + 1 \in Keys)
BY CredentialAssumption DEF Keys

\* The invariant holds of a new installation and of one taken over from an older panel.
LEMMA Starts == CredentialInit => IInv
<1> SUFFICES ASSUME CredentialInit PROVE IInv OBVIOUS
<1>1. NoStore.by \in Records /\ (\A r \in PlayerRoles : NoStore.by[r] = 0) /\ NoStore \in Files
  BY KeysKnown DEF NoStore, Records, Files, NoRecord
<1>2. NoWork \in Accesses /\ NoWork.step = "idle"
  BY <1>1 DEF NoWork, Accesses, RolePlaces, Ways
<1>3. NoUpdate \in Updates /\ NoUpdate.was \in Env /\ NoUpdate.was.mode = "other"
      /\ NoUpdate.set = {} /\ NoUpdate.mode = "other"
  BY KeysKnown DEF NoUpdate, Updates, Env
<1>4. authEnv \in Env /\ lastKey \in Keys /\ oldRoles \subseteq PlayerRoles
      /\ (oldRoles # {} => authEnv.key = 1) /\ (authEnv.mode = "role" => authEnv.key # 0)
  BY KeysKnown DEF CredentialInit, Env
<1>5. store = NoStore /\ access = [a \in Processes |-> NoWork] /\ update = NoUpdate
      /\ box = NoUpdate.was /\ gameAuth = "down"
  BY DEF CredentialInit
<1>6. access["panel"] = NoWork /\ access["game"] = NoWork  BY <1>5 DEF Processes
<1>7. Typed  BY <1>1, <1>2, <1>3, <1>4, <1>5 DEF CredentialInit, Typed
<1>8. KeyInv
  BY <1>1, <1>2, <1>3, <1>4, <1>5, <1>6 DEF KeyInv, GameHasKey, PanelHasKey, NewKey, panelAt, gameAt, Opens, Nothing, NoRecord
<1>9. LockInv
  BY <1>2, <1>5, <1>6 DEF LockInv, Holds, GameKeeps, PanelKeeps, panelAt, gameAt, Processes
<1> QED BY <1>3, <1>5, <1>7, <1>8, <1>9 DEF IInv

-----------------------------------------------------------------------------
(* What the two ways to move a process do                                   *)

\* A step of a process changes where it is, and nothing else of it.
LEMMA Proceeded ==
    ASSUME access \in [Processes -> Accesses], NEW a \in Processes, NEW s \in RolePlaces, Proceeds(a, s)
    PROVE  /\ access' \in [Processes -> Accesses]
           /\ access'[a].step = s /\ access'[a].read = access[a].read
           /\ access'[a].next = access[a].next /\ access'[a].end = access[a].end
           /\ \A b \in Processes : b # a => access'[b] = access[b]
<1>1. access[a] \in Accesses OBVIOUS
<1>2. access' = [access EXCEPT ![a] = [access[a] EXCEPT !.step = s]]  BY DEF Proceeds
<1>3. [access[a] EXCEPT !.step = s] \in Accesses  BY <1>1 DEF Accesses
<1>4. access'[a] = [access[a] EXCEPT !.step = s]  BY <1>2
<1> QED BY <1>1, <1>2, <1>3, <1>4 DEF Accesses

\* A process that concludes changes where it is and how it ends.
LEMMA ConcludeEffect ==
    ASSUME access \in [Processes -> Accesses], NEW a \in Processes, NEW s \in RolePlaces, NEW e \in Ways, Concludes(a, s, e)
    PROVE  /\ access' \in [Processes -> Accesses]
           /\ access'[a].step = s /\ access'[a].read = access[a].read
           /\ access'[a].next = access[a].next /\ access'[a].end = e
           /\ \A b \in Processes : b # a => access'[b] = access[b]
<1>1. access[a] \in Accesses OBVIOUS
<1>2. access' = [access EXCEPT ![a] = [access[a] EXCEPT !.step = s, !.end = e]]
  BY DEF Concludes
<1>3. [access[a] EXCEPT !.step = s, !.end = e] \in Accesses  BY <1>1 DEF Accesses
<1>4. access'[a] = [access[a] EXCEPT !.step = s, !.end = e]  BY <1>2
<1> QED BY <1>1, <1>2, <1>3, <1>4 DEF Accesses

\* A process is given other work.
LEMMA Given ==
    ASSUME access \in [Processes -> Accesses], NEW a \in Processes, NEW w \in Accesses, access' = [access EXCEPT ![a] = w]
    PROVE  access' \in [Processes -> Accesses] /\ access'[a] = w
           /\ \A b \in Processes : b # a => access'[b] = access[b]
OBVIOUS

\* What nobody has and nobody does has its type.
LEMMA Blank ==
    /\ NoStore \in Files /\ NoWork \in Accesses /\ NoUpdate \in Updates /\ NoUpdate.was \in Env
    /\ NoWork.step = "idle" /\ NoWork.end = "none" /\ NoStore.there = FALSE /\ NoStore.by \in Records
    /\ \A r \in PlayerRoles : NoStore.by[r] = NoRecord
    /\ NoUpdate.set = {} /\ NoUpdate.cleared = {} /\ NoUpdate.mode = "other" /\ NoUpdate.was.mode = "other"
    /\ NoUpdate.was.key = 0 /\ NoUpdate.staged = FALSE
<1>1. NoStore.by \in Records /\ NoStore \in Files /\ (\A r \in PlayerRoles : NoStore.by[r] = NoRecord)
      /\ NoStore.there = FALSE
  BY KeysKnown DEF NoStore, Records, Files, NoRecord
<1>2. NoWork \in Accesses /\ NoWork.step = "idle" /\ NoWork.end = "none"
  BY <1>1 DEF NoWork, Accesses, RolePlaces, Ways
<1>3. NoUpdate \in Updates /\ NoUpdate.was \in Env  BY KeysKnown DEF NoUpdate, Updates, Env
<1> QED BY <1>1, <1>2, <1>3 DEF NoUpdate

\* What an older panel left is a record for every role.
LEMMA Legacy ==
    ASSUME NEW file \in Files, oldRoles \subseteq PlayerRoles
    PROVE  Migrated(file) \in Records
BY KeysKnown DEF Migrated, Files, Records, NoRecord

-----------------------------------------------------------------------------
(* Types                                                                    *)

\* Every step keeps the types.
LEMMA TypedStep ==
    ASSUME Typed, [CredentialNext]_credentialVars
    PROVE  Typed'
<1> USE Blank DEF Typed
<1>1. ASSUME NEW mode \in {"other", "role"}, NEW set \in SUBSET PlayerRoles, NEW cleared \in SUBSET PlayerRoles,
             NEW tuned \in BOOLEAN, UpdatePlayerAuth(mode, set, cleared, tuned)
      PROVE  Typed'
  <2> DEFINE s == access'["panel"].step
  <2>1. \E t \in RolePlaces : Proceeds("panel", t)  BY <1>1 DEF UpdatePlayerAuth, RolePlaces
  <2>2. access' \in [Processes -> Accesses]  BY <2>1, Proceeded DEF Processes
  <2>3. lastKey' \in Keys /\ update' \in Updates
    BY <1>1, KeysKnown DEF UpdatePlayerAuth, Updates, KeyFirst, Env
  <2> QED BY <1>1, <2>2, <2>3 DEF UpdatePlayerAuth, gameSide, history
<1>2. CASE StageKey
  <2>1. access' \in [Processes -> Accesses]
    BY <1>2, Proceeded, ConcludeEffect DEF StageKey, Processes, RolePlaces, Ways
  <2>2. authEnv' \in Env /\ cfaults' \in Nat
    BY <1>2 DEF StageKey, EnvWritten, EnvKept, Faulty, Env, Updates
  <2> QED BY <1>2, <2>1, <2>2 DEF StageKey, gameSide, history
<1>3. CASE PanelLoads
  <2>1. Changed(Migrated(store)) \in Records  BY Legacy DEF Changed, Records, Updates, NoRecord
  <2>2. access["panel"] \in Accesses  BY DEF Processes
  <2>3. [step |-> "write", read |-> store, next |-> Changed(Migrated(store)), end |-> "none"] \in Accesses
    BY <2>1 DEF Accesses, RolePlaces, Ways
  <2>4. [access["panel"] EXCEPT !.step = "release", !.end = "refused"] \in Accesses
    BY <2>2 DEF Accesses, RolePlaces, Ways
  <2>5. access' \in [Processes -> Accesses]
    BY <1>3, <2>3, <2>4, Given DEF PanelLoads, Processes
  <2> QED BY <1>3, <2>5 DEF PanelLoads, envSide, gameSide, history
<1>4. CASE CommitEnv
  <2>1. access' \in [Processes -> Accesses]
    BY <1>4, Proceeded, ConcludeEffect DEF CommitEnv, Processes, RolePlaces, Ways
  <2>2. authEnv' \in Env /\ cfaults' \in Nat
    BY <1>4 DEF CommitEnv, EnvWritten, EnvKept, Faulty, Env, Updates
  <2> QED BY <1>4, <2>1, <2>2 DEF CommitEnv, gameSide, history
<1>5. CASE UndoStore
  <2>1. access' \in [Processes -> Accesses]
    BY <1>5, Proceeded, ConcludeEffect DEF UndoStore, Processes, RolePlaces, Ways
  <2>2. access["panel"].read \in Files  BY DEF Processes, Accesses
  <2>3. store' \in Files  BY <1>5, <2>2 DEF UndoStore
  <2>4. marker' \in BOOLEAN  BY <1>5 DEF UndoStore
  <2>5. cfaults' \in Nat  BY <1>5 DEF UndoStore, Faulty
  <2>6. stuck' \in BOOLEAN  BY <1>5 DEF UndoStore
  <2> QED BY <1>5, <2>1, <2>3, <2>4, <2>5, <2>6 DEF UndoStore, envSide, gameSide
<1>6. CASE RestoreStaged
  <2>1. access' \in [Processes -> Accesses]
    BY <1>6, Proceeded, ConcludeEffect DEF RestoreStaged, Processes, RolePlaces, Ways
  <2>2. authEnv' \in Env /\ cfaults' \in Nat /\ stuck' \in BOOLEAN
    BY <1>6 DEF RestoreStaged, Faulty, Updates
  <2> QED BY <1>6, <2>1, <2>2 DEF RestoreStaged, gameSide
<1>7. CASE PanelAnswers  BY <1>7, Given DEF PanelAnswers, Processes, envSide, gameSide, history
<1>8. ASSUME NEW cfg \in {authEnv, box}, GameBoots(cfg) PROVE Typed'
  BY <1>8 DEF GameBoots, envSide, history
<1>9. CASE GameStops  BY <1>9 DEF GameStops, envSide, history
<1>10. CASE LockAges  BY <1>10 DEF LockAges, envSide, gameSide, history
<1>11. ASSUME NEW r \in PlayerRoles, LogsIn(r) PROVE Typed'
  <2>1. access' \in [Processes -> Accesses]
    BY <1>11, Proceeded DEF LogsIn, Processes, RolePlaces
  <2> QED BY <1>11, <2>1 DEF LogsIn, envSide, history
<1>12. ASSUME NEW r \in PlayerRoles, GameLoads(r) PROVE Typed'
  <2> DEFINE by == Migrated(store)
  <2>1. by \in Records  BY Legacy
  <2>2. [by EXCEPT ![r] = box.key] \in Records  BY <2>1 DEF Records, Env
  <2>3. ASSUME NEW fresh \in Records PROVE [NoWork EXCEPT !.step = "write", !.next = fresh] \in Accesses
    BY <2>3 DEF Accesses, RolePlaces
  <2>4. access' \in [Processes -> Accesses]
    <3> HIDE DEF by
    <3> QED BY <1>12, <2>1, <2>2, <2>3, Given, ConcludeEffect DEF GameLoads, by, Processes, RolePlaces, Ways
  <2> QED BY <1>12, <2>4 DEF GameLoads, envSide, gameSide, history
<1>13. ASSUME NEW a \in Processes, Acquire(a) PROVE Typed'
  <2>1. access' \in [Processes -> Accesses] /\ robbed' \in BOOLEAN
    BY <1>13, Proceeded DEF Acquire, Locked, SeesOld, Breaks, RolePlaces
  <2>2. roleLock' \in {"free", "dead", "old"} \cup Processes
    BY <1>13 DEF Acquire, Locked, SeesOld, Breaks
  <2> QED BY <1>13, <2>1, <2>2 DEF Acquire, envSide, gameSide
<1>14. ASSUME NEW a \in Processes, ReleaseStore(a) PROVE Typed'
  <2>1. [NoWork EXCEPT !.step = "settle", !.end = access[a].end] \in Accesses
    BY DEF Accesses, RolePlaces
  <2>2. access' \in [Processes -> Accesses]  BY <1>14, <2>1, Given DEF ReleaseStore, Released
  <2> QED BY <1>14, <2>2 DEF ReleaseStore, envSide, history
<1>15. ASSUME NEW a \in Processes, GivesUpTurn(a) PROVE Typed'
  <2>1. access' \in [Processes -> Accesses]
    BY <1>15, ConcludeEffect DEF GivesUpTurn, RolePlaces, Ways
  <2> QED BY <1>15, <2>1 DEF GivesUpTurn, envSide, gameSide, history
<1>16. ASSUME NEW a \in Processes, WriteMarker(a) PROVE Typed'
  <2>1. access' \in [Processes -> Accesses]
    BY <1>16, Proceeded, ConcludeEffect DEF WriteMarker, WriteFails, RolePlaces, Ways
  <2>2. marker' \in BOOLEAN  BY <1>16 DEF WriteMarker
  <2>3. cfaults' \in Nat
    <3>1. UNCHANGED cfaults \/ Faulty  BY <1>16 DEF WriteMarker, WriteFails
    <3> QED BY <3>1 DEF Faulty
  <2> QED BY <1>16, <2>1, <2>2, <2>3 DEF WriteMarker, envSide, gameSide, history
<1>17. ASSUME NEW a \in Processes, PublishStore(a) PROVE Typed'
  <2>1. access' \in [Processes -> Accesses] /\ cfaults' \in Nat
    BY <1>17, Proceeded, ConcludeEffect DEF PublishStore, WriteFails, Faulty, RolePlaces, Ways
  <2>2. [there |-> TRUE, by |-> access[a].next] \in Files  BY DEF Accesses, Files
  <2>3. store' \in Files  BY <1>17, <2>2 DEF PublishStore
  <2> QED BY <1>17, <2>1, <2>3 DEF PublishStore, envSide, gameSide, history
<1>18. ASSUME NEW a \in Processes, Dies(a) PROVE Typed'
  <2>1. access' \in [Processes -> Accesses] /\ cfaults' \in Nat
    BY <1>18, Given DEF Dies, Faulty
  <2>2. update' \in Updates  BY <1>18 DEF Dies
  <2> QED BY <1>18, <2>1, <2>2 DEF Dies, envSide, history
<1>19. CASE UNCHANGED credentialVars  BY <1>19 DEF credentialVars
<1> QED
  BY <1>1, <1>2, <1>3, <1>4, <1>5, <1>6, <1>7, <1>8, <1>9, <1>10, <1>11, <1>12, <1>13, <1>14, <1>15, <1>16, <1>17,
     <1>18, <1>19 DEF CredentialNext, SetServerPassword, PanelStep, StoreStep

-----------------------------------------------------------------------------
(* The key                                                                  *)

\* Where every record of the store opens, every password does, those in .env included.
LEMMA CredentialsOpen ==
    ASSUME Typed, Opens(store.by), oldRoles # {} => authEnv.key = 1
    PROVE  Credentials \in Records /\ Opens(Credentials)
<1>1. Credentials \in Records  BY Legacy DEF Credentials, Typed
<1>2. Opens(Credentials)  BY DEF Opens, Credentials, Migrated, NoRecord, Typed
<1> QED BY <1>1, <1>2

\* Where no role has a password there is no record.
LEMMA NoneThere ==
    ASSUME Typed, KeyInv, \A r \in PlayerRoles : Credentials[r] = NoRecord
    PROVE  Nothing(store.by)
BY DEF KeyInv, Nothing, Credentials, Migrated

\* No step makes a record that the key in .env does not open, unless an update could not be undone.
LEMMA KeyStep ==
    ASSUME Typed, Typed', update.set # {} => update.key # 0, KeyInv, ~stuck', [CredentialNext]_credentialVars
    PROVE  KeyInv'
<1> USE DEF Opens, Nothing, Rewrites
<1> USE DEF KeyInv, GameHasKey, PanelHasKey, NewKey, panelAt, gameAt, At
<1>0. access \in [Processes -> Accesses] /\ access["panel"] \in Accesses /\ access["game"] \in Accesses
      /\ "panel" \in Processes /\ "game" \in Processes
  BY DEF Typed, Processes
<1>1. ASSUME NEW mode \in {"other", "role"}, NEW set \in SUBSET PlayerRoles, NEW cleared \in SUBSET PlayerRoles,
             NEW tuned \in BOOLEAN, UpdatePlayerAuth(mode, set, cleared, tuned)
      PROVE  KeyInv'
  <2> DEFINE wanted == authEnv.key = 0 /\ (mode = "role" \/ set # {})
             key    == IF wanted THEN lastKey + 1 ELSE authEnv.key
             creds  == set \cup cleared # {}
             commit == tuned \/ mode # authEnv.mode \/ key # authEnv.key
             staged == KeyFirst(creds, authEnv.key, key)
             to   == IF staged THEN "stage" ELSE IF creds THEN "lock" ELSE IF commit THEN "commit" ELSE "idle"
  <2>1. UNCHANGED <<authEnv, oldRoles, store, box, gameAuth>> /\ panelAt = "idle" /\ Proceeds("panel", to)
    BY <1>1 DEF UpdatePlayerAuth, gameSide
  <2>2. /\ update'.mode = mode /\ update'.key = key /\ update'.set = set /\ update'.cleared = cleared
        /\ update'.staged = staged /\ update'.was = authEnv
    BY <1>1 DEF UpdatePlayerAuth
  <2>3. access'["panel"].step = to /\ access'["game"] = access["game"]
    BY <2>1, <1>0, Proceeded DEF RolePlaces
  <2>4. wanted => Nothing(store.by) /\ oldRoles = {} /\ box.mode # "role"
    BY <1>1, NoneThere DEF UpdatePlayerAuth
  <2>5. key \in Nat /\ (key # authEnv.key => wanted) /\ (mode = "role" => key # 0) /\ (set # {} => key # 0)
    <3>1. lastKey \in Nat /\ authEnv.key \in Nat  BY KeysKnown DEF Typed, Env
    <3> QED BY <3>1
  <2>6. (staged => creds /\ authEnv.key = 0 /\ wanted) /\ (creds /\ ~staged => key = authEnv.key)
    BY <2>5 DEF KeyFirst
  <2>7. Opens(store.by)' /\ GameHasKey'  BY <2>1, <2>3
  <2>8. Rewrites' = creds  BY <2>2
  <2> HIDE DEF wanted, key, creds, commit, staged
  <2>9. PanelHasKey'  BY <2>1, <2>2, <2>3, <2>5, <2>6, <2>8
  <2>10. NewKey'  BY <2>1, <2>2, <2>3, <2>4, <2>5, <2>6, <2>8
  <2> QED BY <2>1, <2>7, <2>9, <2>10
<1>2. CASE StageKey
  <2>1. update.staged /\ authEnv.key = 0 /\ Nothing(store.by) /\ box.mode # "role" /\ oldRoles = {} /\ Rewrites
        /\ gameAt = "idle" /\ authEnv.mode # "role" /\ panelAt = "stage"
    BY <1>2 DEF StageKey
  <2>2. UNCHANGED <<oldRoles, store, update, box, gameAuth>> /\ authEnv'.mode = authEnv.mode
    BY <1>2 DEF StageKey, EnvWritten, EnvKept, gameSide, Typed, Env
  <2>3. \/ Proceeds("panel", "lock") /\ authEnv'.key = update.key
        \/ Concludes("panel", "settle", "refused") /\ UNCHANGED authEnv
    BY <1>2 DEF StageKey, EnvWritten, EnvKept, Typed, Env
  <2>4. access'["game"] = access["game"]
        /\ (\/ access'["panel"].step = "lock" /\ authEnv'.key = update.key
            \/ access'["panel"].step = "settle" /\ access'["panel"].end = "refused" /\ UNCHANGED authEnv)
    BY <2>3, <1>0, Proceeded, ConcludeEffect DEF RolePlaces, Ways
  <2> QED BY <2>1, <2>2, <2>4
<1>3. CASE PanelLoads
  <2>1. UNCHANGED <<authEnv, oldRoles, store, update, box, gameAuth>> /\ panelAt = "load"
    BY <1>3 DEF PanelLoads, envSide, gameSide
  <2>2. Credentials \in Records /\ Opens(Credentials)  BY CredentialsOpen
  <2>3. Opens(Changed(Credentials))  BY <2>1, <2>2 DEF Changed, NoRecord
  <2>4. access'["game"] = access["game"]
        /\ (\/ /\ access'["panel"].step = "write" /\ access'["panel"].read = store
               /\ access'["panel"].next = Changed(Credentials)
            \/ access'["panel"].step = "release" /\ access'["panel"].end = "refused")
    BY <1>0, <1>3 DEF PanelLoads, Credentials, Accesses
  <2>5. Opens(store.by)' /\ GameHasKey'  BY <2>1, <2>4
  <2>6. PanelHasKey'  BY <2>1, <2>3, <2>4
  <2>7. NewKey'  BY <2>1, <2>4
  <2> QED BY <2>1, <2>5, <2>6, <2>7
<1>4. CASE CommitEnv
  <2>1. UNCHANGED <<oldRoles, store, update, box, gameAuth>> /\ panelAt = "commit"
    BY <1>4 DEF CommitEnv, gameSide
  <2>2. access'["panel"].read = access["panel"].read /\ access'["game"] = access["game"]
        /\ (\/ /\ authEnv' = [mode |-> update.mode, key |-> update.key] /\ access'["panel"].end = "ok"
               /\ access'["panel"].step = IF Rewrites THEN "release" ELSE "settle"
            \/ /\ UNCHANGED authEnv /\ ~Rewrites /\ access'["panel"].step = "settle" /\ access'["panel"].end = "no"
            \/ UNCHANGED authEnv /\ Rewrites /\ access'["panel"].step = "undo")
    BY <1>0, <1>4, Proceeded, ConcludeEffect DEF CommitEnv, EnvWritten, EnvKept, RolePlaces, Ways
  <2>3. CASE authEnv' = [mode |-> update.mode, key |-> update.key] /\ access'["panel"].end = "ok"
             /\ access'["panel"].step = IF Rewrites THEN "release" ELSE "settle"
    <3>1. authEnv'.mode = update.mode /\ authEnv'.key = update.key  BY <2>3
    <3>2. update.key = authEnv.key \/ (box.mode # "role" /\ oldRoles = {} /\ Nothing(store.by))
      BY <2>1
    <3>3. Opens(store.by)'  BY <2>1, <3>1, <3>2
    <3>4. gameAt \in {"write", "move"} => UNCHANGED authEnv.key  BY <3>1, <3>2
    <3>5. GameHasKey'  BY <2>1, <2>2, <3>1, <3>2, <3>4
    <3>6. PanelHasKey' /\ NewKey'  BY <2>1, <2>2, <2>3
    <3> QED BY <2>1, <3>1, <3>2, <3>3, <3>5, <3>6
  <2>4. CASE UNCHANGED authEnv /\ ~Rewrites /\ access'["panel"].step = "settle" /\ access'["panel"].end = "no"
    BY <2>1, <2>2, <2>4
  <2>5. CASE UNCHANGED authEnv /\ Rewrites /\ access'["panel"].step = "undo"
    BY <2>1, <2>2, <2>5
  <2> QED BY <2>2, <2>3, <2>4, <2>5
<1>5. CASE UndoStore
  <2>1. UNCHANGED <<authEnv, oldRoles, update, box, gameAuth>> /\ panelAt \in {"undo", "unmark"}
    BY <1>5 DEF UndoStore, envSide, gameSide
  <2>2. access'["panel"].end # "undone"  BY <1>5 DEF UndoStore
  <2>3. access'["game"] = access["game"]
        /\ (\/ panelAt = "undo" /\ store' = access["panel"].read /\ access["panel"].read.there
               /\ access'["panel"].step = "release"
            \/ panelAt = "undo" /\ store' = NoStore /\ access'["panel"].step = "unmark"
            \/ panelAt = "unmark" /\ store' = store /\ access'["panel"].step = "release")
    BY <1>0, <1>5, <2>2, Proceeded, ConcludeEffect DEF UndoStore, RolePlaces, Ways
  <2>4. Rewrites /\ (panelAt = "undo" => Opens(access["panel"].read.by))
        /\ (panelAt = "undo" /\ update.staged => Nothing(access["panel"].read.by))
    BY <2>1
  <2>5. Opens(NoStore.by) /\ Nothing(NoStore.by)  BY Blank
  <2>6. Opens(store'.by) /\ (~store'.there => Nothing(store'.by)) /\ (update.staged => Nothing(store'.by))
    BY <2>1, <2>3, <2>4, <2>5
  <2>7. GameHasKey'  BY <2>1, <2>3
  <2>8. PanelHasKey'  BY <2>1, <2>3
  <2>9. NewKey'  BY <2>1, <2>3, <2>6
  <2> QED BY <2>1, <2>6, <2>7, <2>8, <2>9
<1>6. CASE RestoreStaged
  <2>1. UNCHANGED <<oldRoles, store, update, box, gameAuth>> /\ panelAt = "settle"
    BY <1>6 DEF RestoreStaged, gameSide
  <2>2. access'["panel"].end # "undone" \/ access["panel"].end = "undone"
    BY <1>6 DEF RestoreStaged
  <2>3. access'["game"] = access["game"] /\ access'["panel"].step = "told"
        /\ (authEnv' = authEnv \/ (authEnv' = update.was /\ access["panel"].end # "ok" /\ update.staged))
    BY <1>0, <1>6, Proceeded, ConcludeEffect DEF RestoreStaged, RolePlaces, Ways
  <2>4. CASE authEnv' = authEnv  BY <2>1, <2>3, <2>4
  <2>5. CASE authEnv' = update.was /\ access["panel"].end # "ok" /\ update.staged
    <3>1. Nothing(store.by) /\ box.mode # "role" /\ oldRoles = {} /\ gameAt = "idle"
          /\ (update.was.mode = "role" => update.was.key # 0) /\ update.was.key = 0
      BY <2>1, <2>5
    <3>2. Opens(store.by)'  BY <2>1, <3>1
    <3>3. GameHasKey'  BY <2>1, <2>3, <2>5, <3>1
    <3>4. PanelHasKey' /\ NewKey'  BY <2>1, <2>3, <3>1
    <3> QED BY <2>1, <3>1, <3>2, <3>3, <3>4
  <2> QED BY <2>3, <2>4, <2>5
<1>7. CASE PanelAnswers
  <2>1. UNCHANGED <<authEnv, oldRoles, store, box, gameAuth>> /\ update' = NoUpdate
    BY <1>7 DEF PanelAnswers, envSide, gameSide
  <2>2. access'["game"] = access["game"] /\ access'["panel"].step = "idle"
    BY <1>0, <1>7, Blank, Given DEF PanelAnswers
  <2> QED BY <2>1, <2>2, Blank
<1>8. ASSUME NEW cfg \in {authEnv, box}, GameBoots(cfg) PROVE KeyInv'
  <2>1. UNCHANGED <<authEnv, oldRoles, store, access, update>> /\ gameAuth = "down" /\ cfg.mode = "role"
        /\ box' = cfg /\ (cfg # box => panelAt = "idle")
    BY <1>8 DEF GameBoots, envSide
  <2>2. GameHasKey'  BY <2>1
  <2>3. PanelHasKey'  BY <2>1
  <2>4. NewKey'  BY <2>1
  <2> QED BY <2>1, <2>2, <2>3, <2>4
<1>9. CASE GameStops  BY <1>9 DEF GameStops, envSide
<1>10. CASE LockAges  BY <1>10 DEF LockAges, envSide, gameSide
<1>11. ASSUME NEW r \in PlayerRoles, LogsIn(r) PROVE KeyInv'
  <2>1. UNCHANGED <<authEnv, oldRoles, store, update, box, gameAuth>> /\ gameAuth = "open"
    BY <1>11 DEF LogsIn, envSide
  <2>2. access'["panel"] = access["panel"] /\ access'["game"].step = "lock"
    BY <1>0, <1>11, Proceeded DEF LogsIn, RolePlaces
  <2> QED BY <2>1, <2>2
<1>12. ASSUME NEW r \in PlayerRoles, GameLoads(r) PROVE KeyInv'
  <2>1. UNCHANGED <<authEnv, oldRoles, store, update, box, gameAuth>> /\ gameAt = "load"
    BY <1>12 DEF GameLoads, envSide, gameSide
  <2>2. Credentials \in Records /\ Opens(Credentials)  BY CredentialsOpen
  <2>3. box.key = authEnv.key  BY <2>1
  <2>4. Opens([Credentials EXCEPT ![r] = box.key]) /\ [Credentials EXCEPT ![r] = box.key] \in Records
    BY <2>2, <2>3 DEF Records, Typed, Env
  <2>5. ASSUME NEW fresh \in Records
        PROVE  LET w == [NoWork EXCEPT !.step = "write", !.next = fresh]
               IN  w \in Accesses /\ w.step = "write" /\ w.next = fresh
    BY <2>5, Blank DEF NoWork, Accesses, RolePlaces
  <2>6. \/ \E fresh \in Records : Opens(fresh)
                /\ access' = [access EXCEPT !["game"] = [NoWork EXCEPT !.step = "write", !.next = fresh]]
        \/ \E end \in Ways : Concludes("game", "release", end)
    BY <1>12, <2>2, <2>4 DEF GameLoads, Credentials, Ways
  <2>7. access'["panel"] = access["panel"]
        /\ (access'["game"].step = "release" \/ (access'["game"].step = "write" /\ Opens(access'["game"].next)))
    <3>1. ASSUME NEW fresh \in Records, Opens(fresh),
                 access' = [access EXCEPT !["game"] = [NoWork EXCEPT !.step = "write", !.next = fresh]]
          PROVE  access'["panel"] = access["panel"] /\ access'["game"].step = "write" /\ access'["game"].next = fresh
      <4> DEFINE w == [NoWork EXCEPT !.step = "write", !.next = fresh]
      <4>1. w \in Accesses /\ w.step = "write" /\ w.next = fresh  BY <2>5
      <4> HIDE DEF w
      <4> QED BY <1>0, <3>1, <4>1, Given DEF w
    <3>2. ASSUME NEW end \in Ways, Concludes("game", "release", end)
          PROVE  access'["panel"] = access["panel"] /\ access'["game"].step = "release"
      BY <1>0, <3>2, ConcludeEffect DEF RolePlaces
    <3> QED BY <2>6, <3>1, <3>2
  <2>8. GameHasKey'  BY <2>1, <2>7
  <2>9. PanelHasKey'  BY <2>1, <2>7
  <2>10. NewKey'  BY <2>1, <2>7
  <2> QED BY <2>1, <2>8, <2>9, <2>10
<1>13. ASSUME NEW a \in Processes, Acquire(a) PROVE KeyInv'
  <2>1. UNCHANGED <<authEnv, oldRoles, store, update, box, gameAuth>>
    BY <1>13 DEF Acquire, envSide, gameSide
  <2>2. PICK s \in {"load", "lock", "aged"} : Proceeds(a, s) /\ access[a].step \in {"lock", "aged"}
    BY <1>13 DEF Acquire, Locked, SeesOld, Breaks
  <2>3. /\ access'[a].step = s /\ access'[a].read = access[a].read /\ access'[a].next = access[a].next
        /\ \A b \in Processes : b # a => access'[b] = access[b]
    BY <2>2, <1>0, Proceeded DEF RolePlaces
  <2>4. CASE a = "panel"  BY <1>0, <2>1, <2>2, <2>3, <2>4
  <2>5. CASE a = "game"  BY <1>0, <2>1, <2>2, <2>3, <2>5
  <2> QED BY <2>4, <2>5 DEF Processes
<1>14. ASSUME NEW a \in Processes, ReleaseStore(a) PROVE KeyInv'
  <2>1. UNCHANGED <<authEnv, oldRoles, store, update, box, gameAuth>> /\ access[a].step = "release"
    BY <1>14 DEF ReleaseStore, envSide
  <2>2. CASE a = "panel"
    <3>1. [NoWork EXCEPT !.step = "settle", !.end = access["panel"].end] \in Accesses
      BY <1>0, Blank DEF Accesses, RolePlaces
    <3>2. access' = [access EXCEPT !["panel"] = [NoWork EXCEPT !.step = "settle", !.end = access["panel"].end]]
      BY <1>14, <2>2 DEF ReleaseStore, Released
    <3>3. access'["game"] = access["game"] /\ access'["panel"].step = "settle"
          /\ access'["panel"].end = access["panel"].end
      BY <1>0, <3>1, <3>2, Given DEF NoWork
    <3> QED BY <2>1, <2>2, <3>3
  <2>3. CASE a = "game"
    <3>1. access' = [access EXCEPT !["game"] = NoWork]
      BY <1>14, <2>3 DEF ReleaseStore, Released
    <3>2. access'["panel"] = access["panel"] /\ access'["game"].step = "idle"
      BY <1>0, <3>1, Blank, Given
    <3> QED BY <2>1, <3>2
  <2> QED BY <2>2, <2>3 DEF Processes
<1>15. ASSUME NEW a \in Processes, GivesUpTurn(a) PROVE KeyInv'
  <2>1. UNCHANGED <<authEnv, oldRoles, store, update, box, gameAuth>> /\ access[a].step = "lock"
    BY <1>15 DEF GivesUpTurn, envSide, gameSide
  <2>2. access'[a].step = "release" /\ \A b \in Processes : b # a => access'[b] = access[b]
    BY <1>0, <1>15, ConcludeEffect DEF GivesUpTurn, RolePlaces, Ways
  <2>3. CASE a = "panel"  BY <1>0, <2>1, <2>2, <2>3
  <2>4. CASE a = "game"  BY <1>0, <2>1, <2>2, <2>4
  <2> QED BY <2>3, <2>4 DEF Processes
<1>16. ASSUME NEW a \in Processes, WriteMarker(a) PROVE KeyInv'
  <2>1. UNCHANGED <<authEnv, oldRoles, store, update, box, gameAuth>> /\ access[a].step = "write"
    BY <1>16 DEF WriteMarker, envSide, gameSide
  <2>2. /\ access'[a].read = access[a].read /\ access'[a].next = access[a].next
        /\ access'[a].step = "move" \/ (IF a = "panel" THEN access'[a].step = "undo" ELSE access'[a].step = "release")
        /\ \A b \in Processes : b # a => access'[b] = access[b]
    BY <1>0, <1>16, Proceeded, ConcludeEffect DEF WriteMarker, WriteFails, RolePlaces, Ways
  <2>3. CASE a = "panel"  BY <1>0, <2>1, <2>2, <2>3
  <2>4. CASE a = "game"  BY <1>0, <2>1, <2>2, <2>4
  <2> QED BY <2>3, <2>4 DEF Processes
<1>17. ASSUME NEW a \in Processes, PublishStore(a) PROVE KeyInv'
  <2>1. UNCHANGED <<authEnv, oldRoles, update, box, gameAuth>> /\ access[a].step = "move"
    BY <1>17 DEF PublishStore, envSide, gameSide
  <2>2. /\ access'[a].read = access[a].read /\ access'[a].next = access[a].next
        /\ \A b \in Processes : b # a => access'[b] = access[b]
        /\ \/ /\ store'.there /\ store'.by = access[a].next
              /\ \/ a = "panel" /\ access'[a].step = "commit"
                 \/ access'[a].step = "release" /\ access'[a].end = "ok"
           \/ store' = store /\ (IF a = "panel" THEN access'[a].step = "undo" ELSE access'[a].step = "release")
    BY <1>0, <1>17, Proceeded, ConcludeEffect DEF PublishStore, WriteFails, RolePlaces, Ways
  <2>3. Opens(access[a].next)  BY <2>1 DEF Processes
  <2>4. Opens(store.by)' /\ (~store.there => Nothing(store.by))'  BY <2>1, <2>2, <2>3
  <2>5. CASE a = "panel"
    <3>1. access'["game"] = access["game"]  BY <1>0, <2>2, <2>5
    <3>2. GameHasKey'  BY <2>1, <3>1
    <3>3. PanelHasKey'  BY <2>1, <2>2, <2>5
    <3>4. NewKey'  BY <2>1, <2>2, <2>5
    <3> QED BY <2>1, <2>4, <3>2, <3>3, <3>4
  <2>6. CASE a = "game"
    <3>1. access'["panel"] = access["panel"]  BY <1>0, <2>2, <2>6
    <3>2. box.mode = "role"  BY <2>1, <2>6
    <3>3. GameHasKey'  BY <2>1, <2>2, <2>6
    <3>4. PanelHasKey'  BY <2>1, <3>1
    <3>5. NewKey'  BY <2>1, <3>1, <3>2
    <3> QED BY <2>1, <2>4, <3>3, <3>4, <3>5
  <2> QED BY <2>5, <2>6 DEF Processes
<1>18. ASSUME NEW a \in Processes, Dies(a) PROVE KeyInv'
  <2>1. UNCHANGED <<authEnv, oldRoles, store, box>>  BY <1>18 DEF Dies, envSide
  <2>2. access'[a].step = "idle" /\ \A b \in Processes : b # a => access'[b] = access[b]
    BY <1>0, <1>18, Blank, Given DEF Dies
  <2>3. CASE a = "panel"
    <3>1. update' = NoUpdate /\ gameAuth' = gameAuth /\ access'["game"] = access["game"]
      BY <1>0, <1>18, <2>2, <2>3 DEF Dies
    <3> QED BY <2>1, <2>2, <2>3, <3>1, Blank
  <2>4. CASE a = "game"
    <3>1. update' = update /\ gameAuth' = "down" /\ access'["panel"] = access["panel"]
      BY <1>0, <1>18, <2>2, <2>4 DEF Dies
    <3> QED BY <2>1, <2>2, <2>4, <3>1
  <2> QED BY <2>3, <2>4 DEF Processes
<1>19. CASE UNCHANGED credentialVars  BY <1>19 DEF credentialVars
<1> QED
  BY <1>1, <1>2, <1>3, <1>4, <1>5, <1>6, <1>7, <1>8, <1>9, <1>10, <1>11, <1>12, <1>13, <1>14, <1>15, <1>16, <1>17,
     <1>18, <1>19 DEF CredentialNext, SetServerPassword, PanelStep, StoreStep

-----------------------------------------------------------------------------
(* The lock                                                                 *)

\* A step that leaves the store leaves the passwords, and the panel knows what it has read.
LEMMA Remembered ==
    ASSUME UNCHANGED oldRoles
    PROVE  /\ UNCHANGED store => Credentials' = Credentials
           /\ access'["panel"].read = access["panel"].read => Found' = Found
BY DEF Credentials, Migrated, Found

\* Who works on the store has the lock, and what it has read is what is there.
LEMMA LockStep ==
    ASSUME Typed, Typed', update.set # {} => update.key # 0, LockInv, ~robbed', [CredentialNext]_credentialVars
    PROVE  LockInv'
<1> USE DEF Processes
<1> USE DEF LockInv, Holds, GameKeeps, PanelKeeps, panelAt, gameAt, At
<1>0. access \in [Processes -> Accesses] /\ access["panel"] \in Accesses /\ access["game"] \in Accesses
      /\ "panel" \in Processes /\ "game" \in Processes
      /\ access' \in [Processes -> Accesses]
  BY DEF Typed
<1>1. ASSUME NEW mode \in {"other", "role"}, NEW set \in SUBSET PlayerRoles, NEW cleared \in SUBSET PlayerRoles,
             NEW tuned \in BOOLEAN, UpdatePlayerAuth(mode, set, cleared, tuned)
      PROVE  LockInv'
  <2>1. UNCHANGED <<oldRoles, store, roleLock>> /\ update'.set = set /\ update'.cleared = cleared
    BY <1>1 DEF UpdatePlayerAuth
  <2>2. \E s \in {"stage", "lock", "commit", "idle"} :
            Proceeds("panel", s) /\ (s = "commit" => set \cup cleared = {})
    BY <1>1 DEF UpdatePlayerAuth
  <2>3. access'["panel"].step \in {"stage", "lock", "commit", "idle"} /\ access'["game"] = access["game"]
        /\ (access'["panel"].step = "commit" => set \cup cleared = {})
    BY <1>0, <2>2, Proceeded DEF RolePlaces
  <2> QED BY <2>1, <2>3, Remembered DEF Rewrites
<1>2. CASE StageKey
  <2>1. UNCHANGED <<oldRoles, store, roleLock>>  BY <1>2 DEF StageKey
  <2>2. access'["panel"].step \in {"lock", "settle"} /\ access'["game"] = access["game"]
    BY <1>0, <1>2, Proceeded, ConcludeEffect DEF StageKey, RolePlaces, Ways
  <2> QED BY <2>1, <2>2, Remembered
<1>3. CASE PanelLoads
  <2>1. UNCHANGED <<oldRoles, store, roleLock, update>> /\ panelAt = "load"
    BY <1>3 DEF PanelLoads, envSide
  <2>2. access'["game"] = access["game"]
        /\ (\/ /\ access'["panel"].step = "write" /\ access'["panel"].read = store
               /\ access'["panel"].next = Changed(Credentials)
            \/ access'["panel"].step = "release")
    BY <1>0, <1>3 DEF PanelLoads, Credentials, Accesses
  <2>3. CASE access'["panel"].step = "release"  BY <2>1, <2>2, <2>3, Remembered
  <2>4. CASE access'["panel"].step = "write" /\ access'["panel"].read = store
             /\ access'["panel"].next = Changed(Credentials)
    <3>1. Found' = Credentials /\ Credentials' = Credentials
      BY <2>1, <2>4 DEF Found, Credentials, Migrated
    <3>2. \A r \in PlayerRoles :
              /\ Credentials[r] # NoRecord /\ r \notin update.cleared => Changed(Credentials)[r] # NoRecord
              /\ Changed(Credentials)[r] # NoRecord /\ r \notin update.set => Credentials[r] # NoRecord
      BY DEF Changed, NoRecord
    <3>3. PanelKeeps'  BY <2>1, <2>4, <3>1, <3>2
    <3> QED BY <2>1, <2>2, <2>4, <3>1, <3>3
  <2> QED BY <2>2, <2>3, <2>4
<1>4. CASE CommitEnv
  <2>1. UNCHANGED <<oldRoles, store, roleLock, update>> /\ panelAt = "commit"
    BY <1>4 DEF CommitEnv
  <2>2. access'["panel"].read = access["panel"].read /\ access'["game"] = access["game"]
        /\ access'["panel"].step \in {"release", "settle", "undo"}
        /\ (access'["panel"].step = "undo" => Rewrites)
    BY <1>0, <1>4, Proceeded, ConcludeEffect DEF CommitEnv, Rewrites, RolePlaces, Ways
  <2> QED BY <2>1, <2>2, Remembered
<1>5. CASE UndoStore
  <2>1. UNCHANGED <<oldRoles, roleLock, update>> /\ panelAt \in {"undo", "unmark"}
    BY <1>5 DEF UndoStore, envSide
  <2>2. access'["panel"].step \in {"release", "unmark"} /\ access'["game"] = access["game"]
    BY <1>0, <1>5, Proceeded, ConcludeEffect DEF UndoStore, RolePlaces, Ways
  <2>3. gameAt \notin {"write", "move"} /\ roleLock = "panel" /\ ~Holds("game")  BY <2>1
  <2> QED BY <2>1, <2>2, <2>3
<1>6. CASE RestoreStaged
  <2>1. UNCHANGED <<oldRoles, store, roleLock>>  BY <1>6 DEF RestoreStaged
  <2>2. access'["panel"].step = "told" /\ access'["game"] = access["game"]
    BY <1>0, <1>6, Proceeded, ConcludeEffect DEF RestoreStaged, RolePlaces, Ways
  <2> QED BY <2>1, <2>2, Remembered
<1>7. CASE PanelAnswers
  <2>1. UNCHANGED <<oldRoles, store, roleLock>>  BY <1>7 DEF PanelAnswers, envSide
  <2>2. access'["panel"].step = "idle" /\ access'["game"] = access["game"]
    BY <1>0, <1>7, Blank, Given DEF PanelAnswers
  <2> QED BY <2>1, <2>2, Remembered
<1>8. ASSUME NEW cfg \in {authEnv, box}, GameBoots(cfg) PROVE LockInv'
  BY <1>8, Remembered DEF GameBoots, envSide, Rewrites
<1>9. CASE GameStops  BY <1>9, Remembered DEF GameStops, envSide, Rewrites
<1>10. CASE LockAges  BY <1>10, Remembered DEF LockAges, envSide, Rewrites
<1>11. ASSUME NEW r \in PlayerRoles, LogsIn(r) PROVE LockInv'
  <2>1. UNCHANGED <<oldRoles, store, roleLock, update>>  BY <1>11 DEF LogsIn, envSide
  <2>2. access'["panel"] = access["panel"] /\ access'["game"].step = "lock"
    BY <1>0, <1>11, Proceeded DEF LogsIn, RolePlaces
  <2> QED BY <2>1, <2>2, Remembered DEF Rewrites
<1>12. ASSUME NEW r \in PlayerRoles, GameLoads(r) PROVE LockInv'
  <2>1. UNCHANGED <<oldRoles, store, roleLock, update>> /\ gameAt = "load"
    BY <1>12 DEF GameLoads, envSide
  <2>2. Credentials \in Records  BY Legacy DEF Credentials, Typed
  <2>3. [Credentials EXCEPT ![r] = box.key] \in Records  BY <2>2 DEF Records, Typed, Env
  <2>4. Enrolls(r, Credentials) =>
            \A x \in PlayerRoles : Credentials[x] # NoRecord => [Credentials EXCEPT ![r] = box.key][x] # NoRecord
    BY <2>2 DEF Enrolls, Records
  <2>5. \/ \E fresh \in Records : (\A x \in PlayerRoles : Credentials[x] # NoRecord => fresh[x] # NoRecord)
                /\ access' = [access EXCEPT !["game"] = [NoWork EXCEPT !.step = "write", !.next = fresh]]
        \/ \E end \in Ways : Concludes("game", "release", end)
    BY <1>12, <2>2, <2>3, <2>4 DEF GameLoads, Credentials, Ways
  <2>6. access'["panel"] = access["panel"]
        /\ (\/ access'["game"].step = "release"
            \/ /\ access'["game"].step = "write"
               /\ \A x \in PlayerRoles : Credentials[x] # NoRecord => access'["game"].next[x] # NoRecord)
    <3>1. ASSUME NEW fresh \in Records, \A x \in PlayerRoles : Credentials[x] # NoRecord => fresh[x] # NoRecord,
                 access' = [access EXCEPT !["game"] = [NoWork EXCEPT !.step = "write", !.next = fresh]]
          PROVE  access'["panel"] = access["panel"] /\ access'["game"].step = "write" /\ access'["game"].next = fresh
      <4> DEFINE w == [NoWork EXCEPT !.step = "write", !.next = fresh]
      <4>1. w \in Accesses /\ w.step = "write" /\ w.next = fresh
        BY Blank DEF NoWork, Accesses, RolePlaces
      <4> HIDE DEF w
      <4> QED BY <1>0, <3>1, <4>1, Given DEF w
    <3>2. ASSUME NEW end \in Ways, Concludes("game", "release", end)
          PROVE  access'["panel"] = access["panel"] /\ access'["game"].step = "release"
      BY <1>0, <3>2, ConcludeEffect DEF RolePlaces
    <3> QED BY <2>5, <3>1, <3>2
  <2> QED BY <2>1, <2>6, Remembered DEF Rewrites
<1>13. ASSUME NEW a \in Processes, Acquire(a) PROVE LockInv'
  <2>1. UNCHANGED <<oldRoles, store, update>>  BY <1>13 DEF Acquire, envSide
  <2>2. PICK s \in {"load", "lock", "aged"} :
            /\ Proceeds(a, s) /\ access[a].step \in {"lock", "aged"}
            /\ \/ s = "load" /\ roleLock = "free" /\ roleLock' = a
               \/ s = "aged" /\ UNCHANGED roleLock
               \/ s = "lock" /\ roleLock \notin Processes
    BY <1>13 DEF Acquire, Locked, SeesOld, Breaks
  <2>3. /\ access'[a].step = s /\ access'[a].read = access[a].read
        /\ \A b \in Processes : b # a => access'[b] = access[b]
    BY <1>0, <2>2, Proceeded DEF RolePlaces
  <2>4. CASE a = "panel"  BY <1>0, <2>1, <2>2, <2>3, <2>4, Remembered DEF Rewrites
  <2>5. CASE a = "game"  BY <1>0, <2>1, <2>2, <2>3, <2>5, Remembered DEF Rewrites
  <2> QED BY <2>4, <2>5
<1>14. ASSUME NEW a \in Processes, ReleaseStore(a) PROVE LockInv'
  <2>1. UNCHANGED <<oldRoles, store, update>> /\ roleLock' = (IF roleLock = a THEN "free" ELSE roleLock)
    BY <1>14 DEF ReleaseStore, envSide
  <2>2. access'[a].step \in {"settle", "idle"} /\ \A b \in Processes : b # a => access'[b] = access[b]
    BY <1>0, <1>14, Blank DEF ReleaseStore, Released, NoWork
  <2>3. CASE a = "panel"  BY <1>0, <2>1, <2>2, <2>3, Remembered DEF Rewrites
  <2>4. CASE a = "game"  BY <1>0, <2>1, <2>2, <2>4, Remembered DEF Rewrites
  <2> QED BY <2>3, <2>4
<1>15. ASSUME NEW a \in Processes, GivesUpTurn(a) PROVE LockInv'
  <2>1. UNCHANGED <<oldRoles, store, update, roleLock>>  BY <1>15 DEF GivesUpTurn, envSide
  <2>2. access'[a].step = "release" /\ \A b \in Processes : b # a => access'[b] = access[b]
    BY <1>0, <1>15, ConcludeEffect DEF GivesUpTurn, RolePlaces, Ways
  <2>3. CASE a = "panel"  BY <1>0, <2>1, <2>2, <2>3, Remembered DEF Rewrites
  <2>4. CASE a = "game"  BY <1>0, <2>1, <2>2, <2>4, Remembered DEF Rewrites
  <2> QED BY <2>3, <2>4
<1>16. ASSUME NEW a \in Processes, WriteMarker(a) PROVE LockInv'
  <2>1. UNCHANGED <<oldRoles, store, update, roleLock>> /\ access[a].step = "write"
    BY <1>16 DEF WriteMarker, envSide
  <2>2. /\ access'[a].read = access[a].read /\ access'[a].next = access[a].next
        /\ access'[a].step = "move" \/ (IF a = "panel" THEN access'[a].step = "undo" ELSE access'[a].step = "release")
        /\ \A b \in Processes : b # a => access'[b] = access[b]
    BY <1>0, <1>16, Proceeded, ConcludeEffect DEF WriteMarker, WriteFails, RolePlaces, Ways
  <2>3. CASE a = "panel"  BY <1>0, <2>1, <2>2, <2>3, Remembered DEF Rewrites
  <2>4. CASE a = "game"  BY <1>0, <2>1, <2>2, <2>4, Remembered DEF Rewrites
  <2> QED BY <2>3, <2>4
<1>17. ASSUME NEW a \in Processes, PublishStore(a) PROVE LockInv'
  <2>1. UNCHANGED <<oldRoles, update, roleLock>> /\ access[a].step = "move" /\ roleLock = a
    BY <1>17 DEF PublishStore, envSide
  <2>2. /\ access'[a].read = access[a].read
        /\ \A b \in Processes : b # a => access'[b] = access[b] /\ ~Holds(b)
        /\ \/ /\ store'.there /\ store'.by = access[a].next
              /\ (a = "panel" /\ access'[a].step = "commit") \/ access'[a].step = "release"
           \/ store' = store /\ (IF a = "panel" THEN access'[a].step = "undo" ELSE access'[a].step = "release")
    BY <1>0, <1>17, <2>1, Proceeded, ConcludeEffect DEF PublishStore, WriteFails, RolePlaces, Ways
  <2>3. store'.there /\ store'.by = access[a].next => Credentials' = access[a].next
    BY DEF Credentials, Migrated
  <2>4. CASE a = "panel"
    <3>1. Found' = Found /\ access'["game"] = access["game"] /\ ~Holds("game")
      BY <1>0, <2>1, <2>2, <2>4, Remembered
    <3>2. PanelKeeps'  BY <2>1, <2>2, <2>3, <2>4, <3>1, Remembered DEF Rewrites
    <3>3. GameKeeps'  BY <3>1
    <3> QED BY <2>1, <2>4, <3>1, <3>2, <3>3
  <2>5. CASE a = "game"
    <3>1. access'["panel"] = access["panel"] /\ ~Holds("panel") /\ access'["game"].step = "release"
      BY <1>0, <2>1, <2>2, <2>5
    <3>2. PanelKeeps'  BY <2>1, <3>1 DEF Rewrites
    <3> QED BY <2>1, <3>1, <3>2 DEF Rewrites
  <2> QED BY <2>4, <2>5
<1>18. ASSUME NEW a \in Processes, Dies(a) PROVE LockInv'
  <2>1. UNCHANGED <<oldRoles, store>> /\ roleLock' = (IF roleLock = a THEN "dead" ELSE roleLock)
    BY <1>18 DEF Dies, envSide
  <2>2. access'[a].step = "idle" /\ \A b \in Processes : b # a => access'[b] = access[b]
    BY <1>0, <1>18, Blank, Given DEF Dies
  <2>3. CASE a = "panel"  BY <1>0, <2>1, <2>2, <2>3, Remembered
  <2>4. CASE a = "game"
    <3>1. update' = update  BY <1>18, <2>4 DEF Dies
    <3> QED BY <1>0, <2>1, <2>2, <2>4, <3>1, Remembered DEF Rewrites
  <2> QED BY <2>3, <2>4
<1>19. CASE UNCHANGED credentialVars  BY <1>19, Remembered DEF credentialVars, Rewrites
<1> QED
  BY <1>1, <1>2, <1>3, <1>4, <1>5, <1>6, <1>7, <1>8, <1>9, <1>10, <1>11, <1>12, <1>13, <1>14, <1>15, <1>16, <1>17,
     <1>18, <1>19 DEF CredentialNext, SetServerPassword, PanelStep, StoreStep

-----------------------------------------------------------------------------
(* What an update has done                                                  *)

panelEnd == access["panel"].end
Read     == access["panel"].read
Settled  == update.commit => authEnv = [mode |-> update.mode, key |-> update.key]
Written  == [there |-> TRUE, by |-> Changed(Migrated(Read))]

\* What the panel has done to .env by the time it answers.
AnswerInv ==
    /\ panelAt = "stage" => update.staged /\ authEnv = update.was
    /\ panelAt \notin {"idle", "told"} /\ ~update.staged /\ (panelAt \in {"release", "settle"} => panelEnd # "ok") =>
          authEnv = update.was
    /\ panelAt \in {"release", "settle", "told"} /\ panelEnd = "ok" => Settled
    /\ panelAt = "told" /\ panelEnd # "ok" => panelEnd = "undone" \/ authEnv = update.was

\* What it has done to the store while it is its turn.
TurnInv ==
    /\ panelAt \in {"write", "move"} => store = Read /\ access["panel"].next = Changed(Migrated(Read))
    /\ panelAt = "commit" /\ Rewrites => store = Written
    /\ panelAt \in {"write", "move", "undo", "unmark"} \/ (panelAt = "commit" /\ Rewrites) =>
          Read.there \/ Read = NoStore
    /\ panelAt = "unmark" => store = NoStore /\ Read = NoStore
    /\ panelAt = "release" /\ panelEnd \in {"no", "ok"} => roleLock = "panel"
    /\ panelAt = "release" /\ panelEnd = "no" => store = Read /\ Readable
    /\ panelAt = "release" /\ panelEnd = "ok" => store = Written

WholeInv == AnswerInv /\ (robbed \/ TurnInv)

\* What a step leaves of the panel where it is leaves what it has done to .env.
LEMMA AnswerKept ==
    ASSUME AnswerInv, access'["panel"] = access["panel"], UNCHANGED <<authEnv, update>>
    PROVE  AnswerInv'
BY DEF AnswerInv, Settled, panelAt, panelEnd

\* Every step keeps .env as the answer will say.
LEMMA AnswerStep ==
    ASSUME Typed, AnswerInv, [CredentialNext]_credentialVars
    PROVE  AnswerInv'
<1> USE DEF AnswerInv, panelAt, panelEnd, At
<1>0. access \in [Processes -> Accesses] /\ access["panel"] \in Accesses /\ "panel" \in Processes /\ "game" \in Processes
  BY DEF Typed, Processes
<1>1. ASSUME NEW mode \in {"other", "role"}, NEW set \in SUBSET PlayerRoles, NEW cleared \in SUBSET PlayerRoles,
             NEW tuned \in BOOLEAN, UpdatePlayerAuth(mode, set, cleared, tuned)
      PROVE  AnswerInv'
  <2> DEFINE staged == update'.staged
  <2>1. authEnv' = authEnv /\ update'.was = authEnv  BY <1>1 DEF UpdatePlayerAuth
  <2>2. \E s \in {"stage", "lock", "commit", "idle"} : Proceeds("panel", s) /\ (s = "stage" => staged)
    BY <1>1 DEF UpdatePlayerAuth
  <2>3. access'["panel"].step \in {"stage", "lock", "commit", "idle"} /\ (access'["panel"].step = "stage" => staged)
    BY <1>0, <2>2, Proceeded DEF RolePlaces
  <2> QED BY <2>1, <2>3
<1>2. CASE StageKey
  <2>1. update' = update /\ panelAt = "stage"  BY <1>2 DEF StageKey
  <2>2. \/ access'["panel"].step = "lock"
        \/ access'["panel"].step = "settle" /\ access'["panel"].end = "refused" /\ authEnv' = authEnv
    BY <1>0, <1>2, Proceeded, ConcludeEffect DEF StageKey, EnvKept, RolePlaces, Ways
  <2> QED BY <2>1, <2>2
<1>3. CASE PanelLoads
  <2>1. UNCHANGED <<authEnv, update>> /\ panelAt = "load"  BY <1>3 DEF PanelLoads, envSide
  <2>2. \/ access'["panel"].step = "write"
        \/ access'["panel"].step = "release" /\ access'["panel"].end = "refused"
    BY <1>0, <1>3 DEF PanelLoads, Accesses
  <2> QED BY <2>1, <2>2
<1>4. CASE CommitEnv
  <2>1. update' = update /\ panelAt = "commit"  BY <1>4 DEF CommitEnv
  <2>2. \/ /\ authEnv' = [mode |-> update.mode, key |-> update.key]
           /\ access'["panel"].step \in {"release", "settle"} /\ access'["panel"].end = "ok"
        \/ /\ authEnv' = authEnv
           /\ access'["panel"].step = "undo" \/ (access'["panel"].step = "settle" /\ access'["panel"].end = "no")
    BY <1>0, <1>4, Proceeded, ConcludeEffect DEF CommitEnv, EnvWritten, EnvKept, RolePlaces, Ways
  <2> QED BY <2>1, <2>2 DEF Settled
<1>5. CASE UndoStore
  <2>1. UNCHANGED <<authEnv, update>> /\ panelAt \in {"undo", "unmark"}
    BY <1>5 DEF UndoStore, envSide
  <2>2. \/ access'["panel"].step = "unmark"
        \/ access'["panel"].step = "release" /\ access'["panel"].end \in {"no", "undone"}
    BY <1>0, <1>5, Proceeded, ConcludeEffect DEF UndoStore, RolePlaces, Ways
  <2> QED BY <2>1, <2>2
<1>6. CASE RestoreStaged
  <2>1. update' = update /\ panelAt = "settle"  BY <1>6 DEF RestoreStaged
  <2>2. access'["panel"].step = "told"
        /\ \/ panelEnd # "ok" /\ authEnv' = update.was /\ access'["panel"].end = panelEnd
           \/ panelEnd # "ok" /\ access'["panel"].end = "undone"
           \/ authEnv' = authEnv /\ access'["panel"].end = panelEnd /\ (panelEnd = "ok" \/ ~update.staged)
    BY <1>0, <1>6, Proceeded, ConcludeEffect DEF RestoreStaged, RolePlaces, Ways
  <2> QED BY <2>1, <2>2 DEF Settled
<1>7. CASE PanelAnswers
  <2>1. access'["panel"].step = "idle"  BY <1>0, <1>7, Blank, Given DEF PanelAnswers
  <2> QED BY <2>1
<1>8. ASSUME NEW cfg \in {authEnv, box}, GameBoots(cfg) PROVE AnswerInv'
  BY <1>8, AnswerKept DEF GameBoots, envSide
<1>9. CASE GameStops \/ LockAges  BY <1>9, AnswerKept DEF GameStops, LockAges, envSide
<1>10. ASSUME NEW r \in PlayerRoles, LogsIn(r) PROVE AnswerInv'
  <2>1. access'["panel"] = access["panel"]  BY <1>0, <1>10, Proceeded DEF LogsIn, RolePlaces
  <2> QED BY <1>10, <2>1, AnswerKept DEF LogsIn, envSide
<1>11. ASSUME NEW r \in PlayerRoles, GameLoads(r) PROVE AnswerInv'
  <2>1. access'["panel"] = access["panel"]  BY <1>0, <1>11 DEF GameLoads, Concludes
  <2> QED BY <1>11, <2>1, AnswerKept DEF GameLoads, envSide
<1>12. ASSUME NEW a \in Processes, Acquire(a) PROVE AnswerInv'
  <2>1. UNCHANGED <<authEnv, update>>  BY <1>12 DEF Acquire, envSide
  <2>2. PICK s \in {"load", "lock", "aged"} : Proceeds(a, s) /\ access[a].step \in {"lock", "aged"}
    BY <1>12 DEF Acquire, Locked, SeesOld, Breaks
  <2>3. access'[a].step = s /\ \A b \in Processes : b # a => access'[b] = access[b]
    BY <1>0, <2>2, Proceeded DEF RolePlaces
  <2>4. CASE a = "panel"  BY <2>1, <2>2, <2>3, <2>4
  <2>5. CASE a = "game"  BY <1>0, <2>1, <2>3, <2>5, AnswerKept
  <2> QED BY <2>4, <2>5 DEF Processes
<1>13. ASSUME NEW a \in Processes, ReleaseStore(a) PROVE AnswerInv'
  <2>1. UNCHANGED <<authEnv, update>> /\ access[a].step = "release"
    BY <1>13 DEF ReleaseStore, envSide
  <2>2. CASE a = "panel"
    <3>1. access'["panel"].step = "settle" /\ access'["panel"].end = panelEnd
      BY <1>0, <1>13, <2>2 DEF ReleaseStore, Released, NoWork
    <3> QED BY <2>1, <2>2, <3>1 DEF Settled
  <2>3. CASE a = "game"
    <3>1. access'["panel"] = access["panel"]  BY <1>0, <1>13, <2>3 DEF ReleaseStore, Released
    <3> QED BY <2>1, <3>1, AnswerKept
  <2> QED BY <2>2, <2>3 DEF Processes
<1>14. ASSUME NEW a \in Processes, GivesUpTurn(a) PROVE AnswerInv'
  <2>1. UNCHANGED <<authEnv, update>> /\ access[a].step = "lock"
    BY <1>14 DEF GivesUpTurn, envSide
  <2>2. access'[a].step = "release" /\ access'[a].end = "refused" /\ \A b \in Processes : b # a => access'[b] = access[b]
    BY <1>0, <1>14, ConcludeEffect DEF GivesUpTurn, RolePlaces, Ways
  <2>3. CASE a = "panel"  BY <2>1, <2>2, <2>3
  <2>4. CASE a = "game"  BY <1>0, <2>1, <2>2, <2>4, AnswerKept
  <2> QED BY <2>3, <2>4 DEF Processes
<1>15. ASSUME NEW a \in Processes, WriteMarker(a) PROVE AnswerInv'
  <2>1. UNCHANGED <<authEnv, update>> /\ access[a].step = "write"
    BY <1>15 DEF WriteMarker, envSide
  <2>2. /\ \A b \in Processes : b # a => access'[b] = access[b]
        /\ a = "panel" => access'[a].step \in {"move", "undo"}
    BY <1>0, <1>15, Proceeded, ConcludeEffect DEF WriteMarker, WriteFails, RolePlaces, Ways
  <2>3. CASE a = "panel"  BY <2>1, <2>2, <2>3
  <2>4. CASE a = "game"  BY <1>0, <2>1, <2>2, <2>4, AnswerKept
  <2> QED BY <2>3, <2>4 DEF Processes
<1>16. ASSUME NEW a \in Processes, PublishStore(a) PROVE AnswerInv'
  <2>1. UNCHANGED <<authEnv, update>> /\ access[a].step = "move"
    BY <1>16 DEF PublishStore, envSide
  <2>2. /\ \A b \in Processes : b # a => access'[b] = access[b]
        /\ a = "panel" => \/ access'[a].step \in {"commit", "undo"}
                          \/ access'[a].step = "release" /\ access'[a].end = "ok" /\ ~update.commit
    BY <1>0, <1>16, Proceeded, ConcludeEffect DEF PublishStore, WriteFails, RolePlaces, Ways
  <2>3. CASE a = "panel"  BY <2>1, <2>2, <2>3 DEF Settled
  <2>4. CASE a = "game"  BY <1>0, <2>1, <2>2, <2>4, AnswerKept
  <2> QED BY <2>3, <2>4 DEF Processes
<1>17. ASSUME NEW a \in Processes, Dies(a) PROVE AnswerInv'
  <2>1. access'[a].step = "idle" /\ \A b \in Processes : b # a => access'[b] = access[b]
    BY <1>0, <1>17, Blank, Given DEF Dies
  <2>2. CASE a = "panel"  BY <2>1, <2>2
  <2>3. CASE a = "game"  BY <1>0, <1>17, <2>1, <2>3, AnswerKept DEF Dies, envSide
  <2> QED BY <2>2, <2>3 DEF Processes
<1>18. CASE UNCHANGED credentialVars  BY <1>18, AnswerKept DEF credentialVars
<1> QED
  BY <1>1, <1>2, <1>3, <1>4, <1>5, <1>6, <1>7, <1>8, <1>9, <1>10, <1>11, <1>12, <1>13, <1>14, <1>15, <1>16, <1>17, <1>18
  DEF CredentialNext, SetServerPassword, PanelStep, StoreStep

\* An empty store is the store there is when there is none.
LEMMA EmptyStore ==
    ASSUME store \in Files, ~store.there, Nothing(store.by)
    PROVE  store = NoStore
<1>1. store.by = NoStore.by  BY DEF Files, Records, Nothing, NoStore
<1> QED BY <1>1 DEF Files, NoStore

\* What leaves the panel and the store leaves what it has done to the store.
LEMMA TurnKept ==
    ASSUME TurnInv, access'["panel"] = access["panel"],
           UNCHANGED <<oldRoles, update, store>>,
           panelAt = "release" /\ panelEnd \in {"no", "ok"} => UNCHANGED <<roleLock, marker>>
    PROVE  TurnInv'
BY DEF TurnInv, panelAt, panelEnd, Read, Written, Changed, Migrated, Rewrites, Readable

\* While it has the lock, nobody but the panel changes the store.
LEMMA TurnStep ==
    ASSUME Typed, Typed', KeyInv, LockInv, TurnInv, ~robbed', [CredentialNext]_credentialVars
    PROVE  TurnInv'
<1> USE DEF TurnInv
<1> USE DEF panelAt, panelEnd, At
<1>0. access \in [Processes -> Accesses] /\ access["panel"] \in Accesses /\ "panel" \in Processes /\ "game" \in Processes
  BY DEF Typed, Processes
<1>1. ASSUME NEW mode \in {"other", "role"}, NEW set \in SUBSET PlayerRoles, NEW cleared \in SUBSET PlayerRoles,
             NEW tuned \in BOOLEAN, UpdatePlayerAuth(mode, set, cleared, tuned)
      PROVE  TurnInv'
  <2>1. update'.set = set /\ update'.cleared = cleared  BY <1>1 DEF UpdatePlayerAuth
  <2>2. \E s \in {"stage", "lock", "commit", "idle"} : Proceeds("panel", s) /\ (s = "commit" => set \cup cleared = {})
    BY <1>1 DEF UpdatePlayerAuth
  <2>3. access'["panel"].step \in {"stage", "lock", "commit", "idle"}
        /\ (access'["panel"].step = "commit" => set \cup cleared = {})
    BY <1>0, <2>2, Proceeded DEF RolePlaces
  <2> QED BY <2>1, <2>3 DEF Rewrites
<1>2. CASE StageKey
  <2>1. access'["panel"].step \in {"lock", "settle"}
    BY <1>0, <1>2, Proceeded, ConcludeEffect DEF StageKey, RolePlaces, Ways
  <2> QED BY <2>1
<1>3. CASE PanelLoads
  <2>1. UNCHANGED <<oldRoles, store, update>> /\ panelAt = "load"
    BY <1>3 DEF PanelLoads, envSide
  <2>2. \/ /\ access'["panel"].step = "write" /\ access'["panel"].read = store
           /\ access'["panel"].next = Changed(Migrated(store))
        \/ access'["panel"].step = "release" /\ access'["panel"].end = "refused"
    BY <1>0, <1>3 DEF PanelLoads, Accesses
  <2>3. store.there \/ store = NoStore  BY EmptyStore DEF KeyInv, Typed
  <2> QED BY <2>1, <2>2, <2>3 DEF Read, Changed, Migrated
<1>4. CASE CommitEnv
  <2>1. UNCHANGED <<oldRoles, store, roleLock, update, marker>> /\ panelAt = "commit"
    BY <1>4 DEF CommitEnv
  <2>2. /\ access'["panel"].read = Read
        /\ \/ access'["panel"].step = "release" /\ access'["panel"].end = "ok" /\ Rewrites
           \/ access'["panel"].step = "settle"
           \/ access'["panel"].step = "undo" /\ Rewrites
    BY <1>0, <1>4, Proceeded, ConcludeEffect DEF CommitEnv, Rewrites, Read, RolePlaces, Ways
  <2>3. Rewrites => roleLock = "panel"  BY <1>0, <2>1 DEF LockInv, Holds
  <2>4. Written' = Written /\ Read' = Read  BY <2>1, <2>2 DEF Written, Read, Changed, Migrated
  <2> QED BY <2>1, <2>2, <2>3, <2>4
<1>5. CASE UndoStore
  <2>1. UNCHANGED <<oldRoles, roleLock, update>> /\ panelAt \in {"undo", "unmark"} /\ roleLock = "panel"
    BY <1>0, <1>5 DEF UndoStore, envSide, LockInv, Holds
  <2>2. /\ access'["panel"].read = Read
        /\ \/ access'["panel"].step = "release" /\ access'["panel"].end = "no" /\ store' = Read /\ marker' = TRUE /\ Read.there
           \/ access'["panel"].step = "unmark" /\ store' = NoStore /\ Read = NoStore
           \/ access'["panel"].step = "release" /\ access'["panel"].end = "no" /\ marker' = FALSE
              /\ store' = Read /\ Read = NoStore
           \/ access'["panel"].step = "release" /\ access'["panel"].end = "undone"
    <3>1. CASE panelAt = "undo" /\ Read.there /\ store' = Read /\ marker' = TRUE /\ Concludes("panel", "release", "no")
      BY <1>0, <3>1, ConcludeEffect DEF Read, RolePlaces, Ways
    <3>2. CASE panelAt = "undo" /\ ~Read.there /\ store' = NoStore /\ Proceeds("panel", "unmark")
      BY <1>0, <3>2, Proceeded DEF Read, RolePlaces
    <3>3. CASE panelAt = "unmark" /\ marker' = FALSE /\ Concludes("panel", "release", "no") /\ UNCHANGED store
      BY <1>0, <3>3, ConcludeEffect DEF Read, RolePlaces, Ways
    <3>4. CASE Concludes("panel", "release", "undone")
      BY <1>0, <3>4, ConcludeEffect DEF Read, RolePlaces, Ways
    <3> QED BY <1>5, <3>1, <3>2, <3>3, <3>4 DEF UndoStore, Read
  <2>3. Read' = Read /\ NoStore.there = FALSE  BY <2>2, Blank DEF Read
  <2> QED BY <2>1, <2>2, <2>3 DEF Readable
<1>6. CASE RestoreStaged
  <2>1. access'["panel"].step = "told"
    BY <1>0, <1>6, Proceeded, ConcludeEffect DEF RestoreStaged, RolePlaces, Ways
  <2> QED BY <2>1
<1>7. CASE PanelAnswers
  <2>1. access'["panel"].step = "idle"  BY <1>0, <1>7, Blank, Given DEF PanelAnswers
  <2> QED BY <2>1
<1>8. ASSUME NEW cfg \in {authEnv, box}, GameBoots(cfg) PROVE TurnInv'
  BY <1>8, TurnKept DEF GameBoots, envSide
<1>9. CASE GameStops  BY <1>9, TurnKept DEF GameStops, envSide
<1>10. CASE LockAges
  <2>1. ~(panelAt = "release" /\ panelEnd \in {"no", "ok"})  BY <1>10 DEF LockAges
  <2> QED BY <1>10, <2>1, TurnKept DEF LockAges, envSide
<1>11. ASSUME NEW r \in PlayerRoles, LogsIn(r) PROVE TurnInv'
  <2>1. access'["panel"] = access["panel"]  BY <1>0, <1>11, Proceeded DEF LogsIn, RolePlaces
  <2> QED BY <1>11, <2>1, TurnKept DEF LogsIn, envSide
<1>12. ASSUME NEW r \in PlayerRoles, GameLoads(r) PROVE TurnInv'
  <2>1. access'["panel"] = access["panel"]  BY <1>0, <1>12 DEF GameLoads, Concludes
  <2> QED BY <1>12, <2>1, TurnKept DEF GameLoads, envSide
<1>13. ASSUME NEW a \in Processes, Acquire(a) PROVE TurnInv'
  <2>1. UNCHANGED <<oldRoles, store, marker, update>>  BY <1>13 DEF Acquire, envSide
  <2>2. PICK s \in {"load", "lock", "aged"} :
            /\ Proceeds(a, s) /\ access[a].step \in {"lock", "aged"}
            /\ \/ roleLock = "free"
               \/ UNCHANGED roleLock
               \/ roleLock \notin Processes
    BY <1>13 DEF Acquire, Locked, SeesOld, Breaks
  <2>3. access'[a].step = s /\ \A b \in Processes : b # a => access'[b] = access[b]
    BY <1>0, <2>2, Proceeded DEF RolePlaces
  <2>4. CASE a = "panel"  BY <2>3, <2>4
  <2>5. CASE a = "game"
    <3>1. panelAt = "release" /\ panelEnd \in {"no", "ok"} => UNCHANGED roleLock
      BY <2>2 DEF Processes
    <3> QED BY <1>0, <2>1, <2>3, <2>5, <3>1, TurnKept
  <2> QED BY <2>4, <2>5 DEF Processes
<1>14. ASSUME NEW a \in Processes, ReleaseStore(a) PROVE TurnInv'
  <2>1. UNCHANGED <<oldRoles, store, marker, update>> /\ roleLock' = (IF roleLock = a THEN "free" ELSE roleLock)
    BY <1>14 DEF ReleaseStore, envSide
  <2>2. CASE a = "panel"
    <3>1. access'["panel"].step = "settle"
      BY <1>0, <1>14, <2>2 DEF ReleaseStore, Released, NoWork
    <3> QED BY <3>1
  <2>3. CASE a = "game"
    <3>1. access'["panel"] = access["panel"]  BY <1>0, <1>14, <2>3 DEF ReleaseStore, Released
    <3>2. panelAt = "release" /\ panelEnd \in {"no", "ok"} => UNCHANGED roleLock  BY <2>1, <2>3
    <3> QED BY <2>1, <3>1, <3>2, TurnKept
  <2> QED BY <2>2, <2>3 DEF Processes
<1>15. ASSUME NEW a \in Processes, GivesUpTurn(a) PROVE TurnInv'
  <2>1. UNCHANGED <<oldRoles, store, marker, update, roleLock>>
    BY <1>15 DEF GivesUpTurn, envSide
  <2>2. access'[a].step = "release" /\ access'[a].end = "refused" /\ \A b \in Processes : b # a => access'[b] = access[b]
    BY <1>0, <1>15, ConcludeEffect DEF GivesUpTurn, RolePlaces, Ways
  <2>3. CASE a = "panel"  BY <2>2, <2>3
  <2>4. CASE a = "game"  BY <1>0, <2>1, <2>2, <2>4, TurnKept
  <2> QED BY <2>3, <2>4 DEF Processes
<1>16. ASSUME NEW a \in Processes, WriteMarker(a) PROVE TurnInv'
  <2>1. UNCHANGED <<oldRoles, store, update, roleLock>> /\ access[a].step = "write" /\ roleLock = a
    BY <1>16 DEF WriteMarker, envSide, LockInv, Holds
  <2>2. /\ \A b \in Processes : b # a => access'[b] = access[b]
        /\ access'[a].read = access[a].read /\ access'[a].next = access[a].next
        /\ a = "panel" => access'[a].step \in {"move", "undo"}
    BY <1>0, <1>16, Proceeded, ConcludeEffect DEF WriteMarker, WriteFails, RolePlaces, Ways
  <2>3. CASE a = "panel"
    <3>1. Read' = Read /\ Changed(Migrated(Read))' = Changed(Migrated(Read))
      BY <2>1, <2>2, <2>3 DEF Read, Changed, Migrated
    <3> QED BY <2>1, <2>2, <2>3, <3>1
  <2>4. CASE a = "game"
    <3>1. ~(panelAt = "release" /\ panelEnd \in {"no", "ok"})  BY <2>1, <2>4
    <3> QED BY <1>0, <2>1, <2>2, <2>4, <3>1, TurnKept
  <2> QED BY <2>3, <2>4 DEF Processes
<1>17. ASSUME NEW a \in Processes, PublishStore(a) PROVE TurnInv'
  <2>1. UNCHANGED <<oldRoles, marker, update, roleLock>> /\ access[a].step = "move" /\ roleLock = a
    BY <1>17 DEF PublishStore, envSide, LockInv, Holds
  <2>2. \A b \in Processes : b # a => access'[b] = access[b]
    BY <1>0, <1>17, Proceeded, ConcludeEffect DEF PublishStore, WriteFails, RolePlaces, Ways
  <2>3. CASE a = "panel"
    <3>1. /\ access'["panel"].read = Read
          /\ \/ /\ store' = [there |-> TRUE, by |-> access["panel"].next]
                /\ access'["panel"].step = "commit" \/ (access'["panel"].step = "release" /\ access'["panel"].end = "ok")
             \/ store' = store /\ access'["panel"].step = "undo"
      BY <1>0, <1>17, <2>3, Proceeded, ConcludeEffect DEF PublishStore, WriteFails, Read, RolePlaces, Ways
    <3>2. Read' = Read /\ Written' = Written  BY <2>1, <3>1 DEF Read, Written, Changed, Migrated
    <3>3. Written = [there |-> TRUE, by |-> access["panel"].next]  BY <2>1, <2>3 DEF Written
    <3> QED BY <2>1, <2>3, <3>1, <3>2, <3>3
  <2>4. CASE a = "game"
    <3>1. ~Holds("panel") /\ ~(panelAt = "release" /\ panelEnd \in {"no", "ok"})
      BY <1>0, <2>1, <2>4 DEF LockInv
    <3>2. access'["panel"] = access["panel"]  BY <1>0, <2>2, <2>4
    <3> QED BY <2>1, <3>1, <3>2 DEF Holds, Rewrites
  <2> QED BY <2>3, <2>4 DEF Processes
<1>18. ASSUME NEW a \in Processes, Dies(a) PROVE TurnInv'
  <2>1. access'[a].step = "idle" /\ \A b \in Processes : b # a => access'[b] = access[b]
    BY <1>0, <1>18, Blank, Given DEF Dies
  <2>2. UNCHANGED <<oldRoles, store, marker>> /\ roleLock' = (IF roleLock = a THEN "dead" ELSE roleLock)
    BY <1>18 DEF Dies, envSide
  <2>3. CASE a = "panel"  BY <2>1, <2>3
  <2>4. CASE a = "game"
    <3>1. update' = update  BY <1>18, <2>4 DEF Dies
    <3>2. panelAt = "release" /\ panelEnd \in {"no", "ok"} => UNCHANGED roleLock  BY <2>2, <2>4
    <3> QED BY <1>0, <2>1, <2>2, <2>4, <3>1, <3>2, TurnKept
  <2> QED BY <2>3, <2>4 DEF Processes
<1>19. CASE UNCHANGED credentialVars  BY <1>19, TurnKept DEF credentialVars
<1> QED
  BY <1>1, <1>2, <1>3, <1>4, <1>5, <1>6, <1>7, <1>8, <1>9, <1>10, <1>11, <1>12, <1>13, <1>14, <1>15, <1>16, <1>17,
     <1>18, <1>19 DEF CredentialNext, SetServerPassword, PanelStep, StoreStep

-----------------------------------------------------------------------------
(* Every step, and the theorems                                             *)

\* A password that an update sets is made with a key.
LEMMA SetStep ==
    ASSUME Typed, update.set # {} => update.key # 0, [CredentialNext]_credentialVars
    PROVE  (update.set # {} => update.key # 0)'
<1>1. ASSUME NEW mode \in {"other", "role"}, NEW set \in SUBSET PlayerRoles, NEW cleared \in SUBSET PlayerRoles,
             NEW tuned \in BOOLEAN, UpdatePlayerAuth(mode, set, cleared, tuned)
      PROVE  (update.set # {} => update.key # 0)'
  BY <1>1, KeysKnown DEF UpdatePlayerAuth, Typed, Env
<1>2. CASE PanelStep
  BY <1>2, Blank DEF PanelStep, StageKey, PanelLoads, CommitEnv, UndoStore, RestoreStaged, PanelAnswers
<1>3. ASSUME NEW a \in Processes, StoreStep(a) \/ Dies(a) PROVE (update.set # {} => update.key # 0)'
  BY <1>3, Blank DEF StoreStep, Acquire, ReleaseStore, GivesUpTurn, WriteMarker, PublishStore, Dies
<1>4. CASE (\E cfg \in {authEnv, box} : GameBoots(cfg)) \/ GameStops \/ LockAges
           \/ (\E r \in PlayerRoles : LogsIn(r) \/ GameLoads(r))
  BY <1>4 DEF GameBoots, GameStops, LockAges, LogsIn, GameLoads, gameSide
<1>5. CASE UNCHANGED credentialVars  BY <1>5 DEF credentialVars
<1> QED BY <1>1, <1>2, <1>3, <1>4, <1>5 DEF CredentialNext, SetServerPassword

\* What happened stays so.
LEMMA Preserved ==
    ASSUME [CredentialNext]_credentialVars
    PROVE  (stuck => stuck') /\ (robbed => robbed') /\ oldRoles' = oldRoles
<1> USE DEF envSide, history
<1> DEFINE Unmoved == oldRoles' = oldRoles /\ stuck' = stuck /\ robbed' = robbed
           Goal == (stuck => stuck') /\ (robbed => robbed') /\ oldRoles' = oldRoles
<1>0. Unmoved => Goal  OBVIOUS
<1>1. ASSUME NEW mode \in {"other", "role"}, NEW set \in SUBSET PlayerRoles, NEW cleared \in SUBSET PlayerRoles,
             NEW tuned \in BOOLEAN, UpdatePlayerAuth(mode, set, cleared, tuned)
      PROVE  Unmoved
  BY <1>1 DEF UpdatePlayerAuth
<1>2. CASE PanelStep
  <2>1. CASE StageKey \/ PanelLoads \/ CommitEnv \/ PanelAnswers
    BY <2>1 DEF StageKey, PanelLoads, CommitEnv, PanelAnswers
  <2>2. CASE UndoStore  BY <2>2 DEF UndoStore
  <2>3. CASE RestoreStaged  BY <2>3 DEF RestoreStaged
  <2> QED BY <1>2, <2>1, <2>2, <2>3 DEF PanelStep
<1>3. ASSUME NEW a \in Processes, StoreStep(a) \/ Dies(a) PROVE Goal
  <2>1. CASE Acquire(a)
    <3>1. oldRoles' = oldRoles /\ stuck' = stuck  BY <2>1 DEF Acquire
    <3>2. robbed' = robbed \/ Breaks(a)  BY <2>1 DEF Acquire, Locked, SeesOld
    <3>3. Breaks(a) => (robbed => robbed')  BY DEF Breaks
    <3> QED BY <3>1, <3>2, <3>3
  <2>2. CASE ReleaseStore(a) \/ GivesUpTurn(a)  BY <2>2 DEF ReleaseStore, GivesUpTurn
  <2>3. CASE WriteMarker(a)  BY <2>3 DEF WriteMarker
  <2>4. CASE PublishStore(a)  BY <2>4 DEF PublishStore
  <2>5. CASE Dies(a)  BY <2>5 DEF Dies
  <2> QED BY <1>3, <2>1, <2>2, <2>3, <2>4, <2>5 DEF StoreStep
<1>4. CASE (\E cfg \in {authEnv, box} : GameBoots(cfg)) \/ GameStops \/ LockAges
  BY <1>4 DEF GameBoots, GameStops, LockAges
<1>6. ASSUME NEW r \in PlayerRoles, LogsIn(r) \/ GameLoads(r) PROVE Unmoved
  <2>1. CASE LogsIn(r)  BY <2>1 DEF LogsIn
  <2>2. CASE GameLoads(r)  BY <2>2 DEF GameLoads
  <2> QED BY <1>6, <2>1, <2>2
<1>5. CASE UNCHANGED credentialVars  BY <1>5 DEF credentialVars
<1> HIDE DEF Unmoved
<1> QED BY <1>0, <1>1, <1>2, <1>3, <1>4, <1>5, <1>6 DEF CredentialNext, SetServerPassword

\* Every step keeps the invariant.
LEMMA InvStep ==
    ASSUME IInv, [CredentialNext]_credentialVars
    PROVE  IInv'
<1>1. Typed'  BY TypedStep DEF IInv
<1>2. (update.set # {} => update.key # 0)'  BY SetStep DEF IInv
<1>3. (stuck \/ KeyInv)'  BY <1>1, Preserved, KeyStep DEF IInv
<1>4. (robbed \/ LockInv)'  BY <1>1, Preserved, LockStep DEF IInv
<1> QED BY <1>1, <1>2, <1>3, <1>4 DEF IInv

\* The invariant holds in every reachable state.
THEOREM CredentialInvariant == CredentialSpec => []IInv
<1>1. IInv /\ [CredentialNext]_credentialVars => IInv'  BY InvStep
<1> QED BY <1>1, Starts, PTL DEF CredentialSpec

\* Every variable has its type; no key is used that was not generated.
THEOREM CredentialTypes == CredentialSpec => []CredentialTypeOK
<1>1. IInv => CredentialTypeOK
  <2> SUFFICES ASSUME IInv PROVE CredentialTypeOK
    OBVIOUS
  <2>1. Typed  BY DEF IInv
  <2>2. \A a \in Processes : access[a].step \in RolePlaces /\ access[a].end \in Ways
    BY <2>1 DEF Typed, Accesses
  <2>3. authEnv \in Env /\ box \in Env /\ store \in Files  BY <2>1 DEF Typed
  <2>4. {oldRoles, player, update.set, update.cleared} \subseteq SUBSET PlayerRoles
    BY <2>1 DEF Typed, Updates
  <2> QED BY <2>1, <2>2, <2>3, <2>4 DEF CredentialTypeOK, Typed, Env, Files, Records, Keys, RolePlaces, Ways
<1> QED BY <1>1, CredentialInvariant, PTL

\* Wherever a write fails, the panel dies or the game dies, the key in .env opens every password
\* that the store or an older panel's .env holds (UpdatePlayerAuthConfig stages a new key), as
\* long as no update has failed to be undone.
THEOREM KeyOpensAllHolds == CredentialSpec => [](stuck \/ KeyOpensAll)
<1>1. IInv => stuck \/ KeyOpensAll  BY CredentialsOpen DEF IInv, KeyInv, Opens, KeyOpensAll
<1> QED BY <1>1, CredentialInvariant, PTL

\* Between them the panel and the game never hold the store at once, unless one was robbed of its
\* lock (acquireRoleCredentialStoreLock, AcquireLock).
THEOREM StoreIsHeldByOne == CredentialSpec => [](robbed \/ ~(Holds("panel") /\ Holds("game")))
<1>1. IInv => robbed \/ ~(Holds("panel") /\ Holds("game"))  BY DEF IInv, LockInv, Processes
<1> QED BY <1>1, CredentialInvariant, PTL

\* A role's password is lost only to an administrator who clears it, or with the update that set it
\* (mutateRoleCredentialStoreAndCommit, TryAuthenticateOrEnroll), until a process is robbed.
THEOREM NeverReopenedHolds == CredentialSpec => NeverReopened
<1> DEFINE Kept == \A r \in PlayerRoles :
                      Credentials[r] # NoRecord /\ Credentials'[r] = NoRecord =>
                         \/ robbed
                         \/ r \in update.cleared
                         \/ r \in update.set /\ At("panel", "undo")
<1>1. ASSUME IInv, [CredentialNext]_credentialVars PROVE [Kept]_credentialVars
  <2> SUFFICES ASSUME ~robbed, NEW r \in PlayerRoles, Credentials[r] # NoRecord, Credentials'[r] = NoRecord
               PROVE  r \in update.cleared \/ (r \in update.set /\ At("panel", "undo"))
    OBVIOUS
  <2>1. LockInv /\ UNCHANGED oldRoles  BY <1>1, Preserved DEF IInv
  <2>2. Credentials' = Credentials \/ (\E a \in Processes : PublishStore(a)) \/ UndoStore
    <3>1. UNCHANGED store \/ (\E a \in Processes : PublishStore(a)) \/ UndoStore
      BY ZenonT(60), <1>1 DEF CredentialNext, SetServerPassword, UpdatePlayerAuth, PanelStep, StageKey, PanelLoads, CommitEnv,
         RestoreStaged, PanelAnswers, GameBoots, GameStops, LockAges, LogsIn, GameLoads, StoreStep, Acquire,
         ReleaseStore, GivesUpTurn, WriteMarker, Dies, credentialVars
    <3> QED BY <2>1, <3>1, Remembered
  <2>3. ASSUME NEW a \in Processes, PublishStore(a) PROVE r \in update.cleared
    <3>1. Credentials' = Credentials \/ Credentials' = access[a].next
      BY <2>1, <2>3, Remembered DEF PublishStore, Credentials, Migrated
    <3>2. access[a].step = "move"  BY <2>3 DEF PublishStore, At
    <3> QED BY <2>1, <3>1, <3>2 DEF LockInv, GameKeeps, PanelKeeps, panelAt, gameAt, Processes
  <2>4. CASE UndoStore
    <3>1. Credentials' = Credentials \/ (panelAt = "undo" /\ Credentials' = Found)
      BY <2>1, <2>4, Remembered, Blank DEF UndoStore, At, panelAt, Credentials, Found, Migrated, NoStore, NoRecord
    <3> QED BY <2>1, <3>1 DEF LockInv, PanelKeeps, panelAt, At
  <2> QED BY <2>2, <2>3, <2>4
<1>2. NeverReopened <=> [][Kept]_credentialVars  BY DEF NeverReopened
<1> QED BY <1>1, <1>2, CredentialInvariant, PTL DEF CredentialSpec

\* An update leaves .env and the store as it found them or does all of it, the key opens every
\* password, and a role is shown as the game treats it (UpdatePlayerAuthConfig,
\* mutateRoleCredentialStoreAndCommit, buildPlayerAuthConfigResult), for any faults: until an update
\* could not be undone, or, but for the key, a process was robbed.
THEOREM FilesAgreeHolds == CredentialSpec => []FilesAgree
<1> DEFINE Inv == IInv /\ (stuck \/ WholeInv)
<1>1. CredentialInit => Inv
  <2> SUFFICES ASSUME CredentialInit PROVE WholeInv
    BY Starts
  <2>1. access["panel"].step = "idle"  BY Blank DEF CredentialInit, Processes
  <2> QED BY <2>1 DEF WholeInv, AnswerInv, TurnInv, panelAt
<1>2. Inv /\ [CredentialNext]_credentialVars => Inv'
  <2> SUFFICES ASSUME Inv, [CredentialNext]_credentialVars PROVE Inv'
    OBVIOUS
  <2>1. IInv'  BY InvStep
  <2>2. (stuck \/ WholeInv)'
    <3> SUFFICES ASSUME ~stuck' PROVE WholeInv'
      OBVIOUS
    <3>1. ~stuck  BY Preserved
    <3>2. AnswerInv'  BY <3>1, AnswerStep DEF IInv, WholeInv
    <3>3. (robbed \/ TurnInv)'  BY <2>1, <3>1, Preserved, TurnStep DEF IInv, WholeInv
    <3> QED BY <3>2, <3>3 DEF WholeInv
  <2> QED BY <2>1, <2>2
<1>3. Inv => FilesAgree
  <2> SUFFICES ASSUME Inv, ~stuck PROVE KeyOpensAll /\ (robbed \/ (UpdatedWhole /\ ShownIsPlayed))
    BY DEF FilesAgree
  <2>1. KeyOpensAll /\ KeyInv  BY CredentialsOpen DEF IInv, KeyInv, Opens, KeyOpensAll
  <2>2. robbed \/ UpdatedWhole
    BY DEF WholeInv, AnswerInv, TurnInv, UpdatedWhole, panelAt, panelEnd, At, Settled, Written, Read
  <2>3. ShownIsPlayed
    BY <2>1 DEF KeyInv, GameHasKey, KeyOpensAll, ShownIsPlayed, RoleStatus, Enrolls, IInv, Typed
  <2> QED BY <2>1, <2>2, <2>3
<1> QED BY <1>1, <1>2, <1>3, PTL DEF CredentialSpec
(***************************************************************************)
(* Creation and deletion.  The invariant says of every world which row     *)
(* goes with which resources, of the world at hand how far its creation,   *)
(* its taking back or its deletion has come, and which jobs may run beside *)
(* them.                                                                   *)
(***************************************************************************)
Rows      == [row: {"none", "provisioning", "ready", "failed", "deleting"}, claim: BOOLEAN,
              tomb: {"none", "plan", "done"}, box: BOOLEAN, vol: BOOLEAN, up: BOOLEAN]
Resources == [stage: {"none", "empty", "owner"},
              dir: {"none", "empty", "owned", "full", "torn", "foreign"},
              vol: {"none", "own", "foreign"}, copied: BOOLEAN, copier: BOOLEAN,
              box: {"none", "stopped", "running"}]

\* Nothing of the world's own, resp. all that it consists of.
NothingOwn(r) == /\ r.dir \in {"none", "foreign"} /\ r.vol \in {"none", "foreign"}
                 /\ ~r.copier /\ r.stage = "none" /\ r.box = "none"
WholeWorld(r)  == /\ r.dir = "full" /\ r.vol = "own" /\ r.copied
                  /\ ~r.copier /\ r.stage = "none"

\* What a row says of the resources.
Sound(d, r) ==
    /\ d.row = "none" => ~d.claim /\ NothingOwn(r)
    /\ d.row = "provisioning" /\ ~d.claim => NothingOwn(r)
    /\ d.row = "failed" /\ ~d.claim => NothingOwn(r) \/ WholeWorld(r)
    /\ d.row = "ready" => ~d.claim /\ WholeWorld(r)
    /\ d.row = "deleting" => ~d.claim /\ d.vol /\ ~r.copier /\ r.stage = "none"
    /\ d.claim => r.box = "none"
    /\ d.tomb = "plan" <=> d.row = "deleting"
    /\ d.tomb = "done" => d.row = "none"

\* What is known of the world at hand at each step.
Made     == {"volume", "mkvolume", "verifyvolume", "copy", "copying", "verifycopy", "unstage", "finish"}
Claiming == {"template", "mkstage", "owner", "publish", "moveowner", "prepare"} \cup Made
Taking   == {"uncopy", "unvolume", "undir", "undone", "unstaging", "forget"}
Deleting == {"apply", "rmbox", "rmvol", "remains", "rmdir", "complete"}
Position(p, d, r) ==
    /\ p \in {"gate", "begin"} => d.row = "provisioning" /\ ~d.claim
    /\ p \in Claiming \cup Taking => d.claim
    /\ p = "moveowner" => r.dir = "empty"
    /\ p = "prepare" => r.dir = "owned"
    /\ p \in Made => r.dir = "full"
    /\ p \in {"copy", "copying", "verifycopy", "unstage", "finish"} => r.vol = "own"
    /\ p \in {"verifycopy", "unstage", "finish"} => ~r.copier
    /\ p \in {"unstage", "finish"} => r.copied
    /\ p = "finish" => r.stage = "none"
    /\ p \in {"unvolume", "undir", "undone", "unstaging", "forget"} => ~r.copier
    /\ p \in {"undir", "undone", "unstaging", "forget"} => r.vol # "own"
    /\ p = "undone" => r.dir \in {"owned", "full", "torn"}
    /\ p \in {"unstaging", "forget"} => r.dir \in {"none", "foreign"}
    /\ p = "forget" => r.stage = "none"
    /\ p \in {"unwind", "release", "uncleaned"} => d.row # "deleting"
    /\ p = "release" => ~d.claim
    /\ p = "record" => d.row \in {"ready", "failed"} /\ ~d.claim /\ r.dir = "full"
    /\ p \in Deleting => d.row = "deleting"
    /\ p \in {"rmvol", "remains", "rmdir", "complete"} => r.box = "none"
    /\ p \in {"rmdir", "complete"} => r.vol # "own"
    /\ p = "complete" => r.dir \in {"none", "foreign"}

Worldly == \A i \in Ids : Sound(db[i], res[i])
\* A lifecycle job works on a world that has everything.
Served  == alive => \A i \in Ids : <<i, "lifecycle">> \in jobs =>
              db[i].row \in {"ready", "failed"} /\ WholeWorld(res[i])
\* An ordinal that was not given has no row.
Unused  == \A i \in Ids : i >= next => db[i].row = "none" /\ db[i].tomb = "none"
LiveAtWork == step # "idle" => alive

LInv == /\ LifetimeTypeOK /\ Worldly /\ Position(step, db[who], res[who])
        /\ ClaimsExcludeJobs /\ Served /\ Unused /\ LiveAtWork

\* The world being worked on is a sound one.
LEMMA WellTyped == ASSUME LInv PROVE D \in Rows /\ R \in Resources /\ who \in Ids /\ Sound(D, R)
BY DEF LInv, LifetimeTypeOK, Worldly, D, R, Rows, Resources

\* No job runs beside what is done to a world that has a claim or is being deleted.
LEMMA JobsKeptOff ==
    ASSUME LInv, step \in Claiming \cup Taking \cup Deleting
    PROVE  <<who, "lifecycle">> \notin jobs
<1>1. alive /\ who \in Ids
  BY DEF LInv, LiveAtWork, LifetimeTypeOK, Claiming, Taking, Deleting, Made
<1>2. CASE step \in Claiming \cup Taking
  <2>1. D.claim  BY <1>2 DEF LInv, Position, D
  <2>2. Claimed(who)  BY <2>1, <1>1 DEF Claimed, D
  <2> QED BY <2>2, <1>1 DEF LInv, ClaimsExcludeJobs
<1>3. CASE step \in Deleting
  <2>1. D.row = "deleting"  BY <1>3 DEF LInv, Position, D
  <2>2. db[who].tomb = "plan"  BY <2>1, WellTyped DEF Sound, D
  <2> QED BY <2>2, <1>1 DEF LInv, ClaimsExcludeJobs
<1> QED BY <1>2, <1>3

\* What the holder of the mutex does to the world at hand keeps the invariant if it
\* keeps the row true, arrives at the next step with what that step counts on, takes
\* no job by surprise and gives no row to an ordinal that was not given.
LEMMA Holder ==
    ASSUME LInv, step \notin {"idle", "boot"},
           NEW d2 \in Rows, NEW r2 \in Resources,
           db' = [db EXCEPT ![who] = d2], res' = [res EXCEPT ![who] = r2], UNCHANGED others,
           step' \in Steps, slips' \in 0..LifetimeFaults,
           Sound(d2, r2), Position(step', d2, r2),
           d2.claim /\ ~D.claim => ~Busy({who, Template}),
           d2.tomb = "plan" /\ D.tomb # "plan" => ~Busy({who}),
           <<who, "lifecycle">> \in jobs => d2.row \in {"ready", "failed"} /\ WholeWorld(r2),
           D.row = "none" /\ D.tomb = "none" => d2.row = "none" /\ d2.tomb = "none"
    PROVE  LInv'
<1> USE DEF others
<1>1. who \in Ids /\ db \in [Ids -> Rows] /\ res \in [Ids -> Resources] /\ alive
  BY DEF LInv, LifetimeTypeOK, Rows, Resources, LiveAtWork
<1>2. /\ db' \in [Ids -> Rows] /\ res' \in [Ids -> Resources]
      /\ db'[who] = d2 /\ res'[who] = r2
      /\ \A i \in Ids : i # who => db'[i] = db[i] /\ res'[i] = res[i]
      /\ who' = who /\ jobs' = jobs /\ alive' = alive /\ next' = next
  BY <1>1
<1>3. LifetimeTypeOK'  BY <1>2 DEF LInv, LifetimeTypeOK, Rows, Resources
<1>4. Worldly'  BY <1>1, <1>2 DEF LInv, Worldly
<1>5. Position(step', db'[who'], res'[who'])  BY <1>2
<1>6. ClaimsExcludeJobs'
  <2> SUFFICES ASSUME NEW j \in jobs
               PROVE  /\ ~Claimed(j[1])'
                      /\ \A i \in Ids : db'[i].tomb = "plan" => j[1] \notin {i, Global}
    BY <1>2 DEF ClaimsExcludeJobs
  <2>0. /\ ~Claimed(j[1])
        /\ \A i \in Ids : db[i].tomb = "plan" => j[1] \notin {i, Global}
    BY <1>1 DEF LInv, ClaimsExcludeJobs
  <2>1. ASSUME NEW i \in Ids, db'[i].claim, j[1] \in {i, Template, Global}
        PROVE  FALSE
    <3>1. CASE db[i].claim  BY <2>0, <2>1, <3>1 DEF Claimed
    <3>2. CASE ~db[i].claim
      <4>1. i = who /\ d2.claim /\ ~D.claim  BY <1>2, <2>1, <3>2 DEF D
      <4>2. ~Busy({who, Template})  BY <4>1
      <4> QED BY <4>1, <4>2, <2>1 DEF Busy
    <3> QED BY <3>1, <3>2
  <2>2. ~Claimed(j[1])'  BY <2>1 DEF Claimed
  <2>3. ASSUME NEW i \in Ids, db'[i].tomb = "plan"
        PROVE  j[1] \notin {i, Global}
    <3>1. CASE db[i].tomb = "plan"  BY <2>0, <3>1
    <3>2. CASE db[i].tomb # "plan"
      <4>1. i = who /\ d2.tomb = "plan" /\ D.tomb # "plan"  BY <1>2, <2>3, <3>2 DEF D
      <4>2. ~Busy({who})  BY <4>1
      <4> QED BY <4>1, <4>2 DEF Busy
    <3> QED BY <3>1, <3>2
  <2> QED BY <2>2, <2>3
<1>7. Served'  BY <1>1, <1>2 DEF LInv, Served
<1>8. Unused'  BY <1>1, <1>2 DEF LInv, Unused, D
<1>9. LiveAtWork'  BY <1>1, <1>2 DEF LiveAtWork
<1> QED BY <1>3, <1>4, <1>5, <1>6, <1>7, <1>8, <1>9 DEF LInv

\* Its three forms: a step on the resources, on the row, or on neither.
Turns == step' \in Steps /\ (UNCHANGED slips \/ (slips < LifetimeFaults /\ slips' = slips + 1))

\* Every step of an operation counts its failure, if it has one.
LEMMA Moved ==
    ASSUME LInv, Turns
    PROVE  step' \in Steps /\ slips' \in 0..LifetimeFaults
BY LifetimeAssumption DEF LInv, LifetimeTypeOK, Turns

\* A step on the resources of the world.
LEMMA OnResources ==
    ASSUME LInv, step \in Claiming \cup Taking \cup Deleting,
           Turns, NEW r2 \in Resources, With(r2),
           Sound(D, r2), Position(step', D, r2)
    PROVE  LInv'
<1>1. D \in Rows /\ db \in [Ids -> Rows] /\ who \in Ids
  BY WellTyped DEF LInv, LifetimeTypeOK, Rows
<1>2. db' = [db EXCEPT ![who] = D] /\ res' = [res EXCEPT ![who] = r2] /\ UNCHANGED others
  BY <1>1 DEF With, D
<1>3. step \notin {"idle", "boot"}  BY DEF Claiming, Taking, Deleting, Made
<1> QED BY <1>1, <1>2, <1>3, JobsKeptOff, Moved, Holder

\* A step on its row: a claim and a tombstone are written while no job is on it.
LEMMA OnRow ==
    ASSUME LInv, step \notin {"idle", "boot"},
           Turns, NEW d2 \in Rows, Write(d2),
           Sound(d2, R), Position(step', d2, R),
           d2.claim /\ ~D.claim => ~Busy({who, Template}),
           d2.tomb = "plan" /\ D.tomb # "plan" => ~Busy({who}),
           <<who, "lifecycle">> \in jobs => d2.row \in {"ready", "failed"} /\ WholeWorld(R),
           D.row = "none" /\ D.tomb = "none" => d2.row = "none" /\ d2.tomb = "none"
    PROVE  LInv'
<1>1. R \in Resources /\ res \in [Ids -> Resources] /\ who \in Ids
  BY WellTyped DEF LInv, LifetimeTypeOK, Resources
<1>2. res' = [res EXCEPT ![who] = R] /\ db' = [db EXCEPT ![who] = d2] /\ UNCHANGED others
  BY <1>1 DEF Write, R
<1> QED BY <1>1, <1>2, Moved, Holder

\* A step on neither.
LEMMA OnNeither ==
    ASSUME LInv, step \notin {"idle", "boot"},
           Turns, Same, Position(step', D, R)
    PROVE  LInv'
<1>1. D \in Rows /\ R \in Resources /\ who \in Ids /\ Sound(D, R)  BY WellTyped
<1>2. res' = [res EXCEPT ![who] = R] /\ db' = [db EXCEPT ![who] = D] /\ UNCHANGED others
  BY <1>1 DEF Same, R, D, LInv, LifetimeTypeOK
<1>3. <<who, "lifecycle">> \in jobs => D.row \in {"ready", "failed"} /\ WholeWorld(R)
  BY <1>1 DEF LInv, Served, LiveAtWork, D, R
<1> QED BY <1>1, <1>2, <1>3, Moved, Holder


\* A step that only looks: what it found is what the next step counts on.
LEMMA Looks ==
    ASSUME LInv, Gate \/ VerifyTemplate \/ CheckVolume \/ VerifyVolume \/ CopierReturns \/ VerifyCopy \/ Unwind \/ Apply \/ Remains
    PROVE  LInv'
<1> USE DEF Sound, Rows, Resources
<1> USE DEF Works, Slips, Turns, Steps, Position, Made, Claiming, Taking, Deleting, NothingOwn, WholeWorld
<1>1. D \in Rows /\ R \in Resources /\ Sound(D, R) /\ Position(step, D, R)
  BY WellTyped DEF LInv, D, R
<1>2. CASE Gate  BY <1>1, <1>2, OnNeither DEF Gate
<1>3. CASE VerifyTemplate  BY <1>1, <1>3, OnNeither DEF VerifyTemplate
<1>4. CASE CheckVolume  BY <1>1, <1>4, OnNeither DEF CheckVolume
<1>5. CASE VerifyVolume  BY <1>1, <1>5, OnNeither DEF VerifyVolume
<1>6. CASE CopierReturns  BY <1>1, <1>6, OnNeither DEF CopierReturns
<1>7. CASE VerifyCopy  BY <1>1, <1>7, OnNeither DEF VerifyCopy
<1>8. CASE Unwind  BY <1>1, <1>8, OnNeither DEF Unwind
<1>9. CASE Apply  BY <1>1, <1>9, OnNeither DEF Apply
<1>10. CASE Remains  BY <1>1, <1>10, OnNeither DEF Remains
<1> QED BY <1>2, <1>3, <1>4, <1>5, <1>6, <1>7, <1>8, <1>9, <1>10

\* A step on the resources: what it made or removed is what the next step counts on,
\* and the row stays true.
LEMMA Handles ==
    ASSUME LInv, MakeStage \/ WriteOwner \/ PublishDirectory \/ MoveOwner \/ PrepareWorld \/ MakeVolume \/ StartCopier \/ DropStage \/ RemoveCopier \/ RemoveVolume \/ RemoveOwned \/ RemovedOwned \/ RemoveStage \/ RemoveBox \/ DeleteVolume \/ RemoveWorld
    PROVE  LInv'
<1> USE DEF Sound, Rows, Resources
<1> USE DEF Works, Slips, Turns, Steps, Position, Made, Claiming, Taking, Deleting, NothingOwn, WholeWorld
<1>1. D \in Rows /\ R \in Resources /\ Sound(D, R) /\ Position(step, D, R)
  BY WellTyped DEF LInv, D, R
<1>2. CASE MakeStage  BY <1>1, <1>2, OnNeither, OnResources DEF MakeStage
<1>3. CASE WriteOwner  BY <1>1, <1>3, OnNeither, OnResources DEF WriteOwner
<1>4. CASE PublishDirectory  BY <1>1, <1>4, OnNeither, OnResources DEF PublishDirectory
<1>5. CASE MoveOwner  BY <1>1, <1>5, OnNeither, OnResources DEF MoveOwner
<1>6. CASE PrepareWorld  BY <1>1, <1>6, OnNeither, OnResources DEF PrepareWorld
<1>7. CASE MakeVolume  BY <1>1, <1>7, OnNeither, OnResources DEF MakeVolume
<1>8. CASE StartCopier  BY <1>1, <1>8, OnNeither, OnResources DEF StartCopier
<1>9. CASE DropStage  BY <1>1, <1>9, OnNeither, OnResources DEF DropStage
<1>10. CASE RemoveCopier  BY <1>1, <1>10, OnNeither, OnResources DEF RemoveCopier
<1>11. CASE RemoveVolume  BY <1>1, <1>11, OnNeither, OnResources DEF RemoveVolume
<1>12. CASE RemoveOwned  BY <1>1, <1>12, OnNeither, OnResources DEF RemoveOwned
<1>13. CASE RemovedOwned  BY <1>1, <1>13, OnNeither, OnResources DEF RemovedOwned
<1>14. CASE RemoveStage  BY <1>1, <1>14, OnNeither, OnResources DEF RemoveStage
<1>15. CASE RemoveBox  BY <1>1, <1>15, OnNeither, OnResources DEF RemoveBox
<1>16. CASE DeleteVolume  BY <1>1, <1>16, OnNeither, OnResources DEF DeleteVolume
<1>17. CASE RemoveWorld  BY <1>1, <1>17, OnNeither, OnResources DEF RemoveWorld
<1> QED
  BY <1>2, <1>3, <1>4, <1>5, <1>6, <1>7, <1>8, <1>9, <1>10, <1>11, <1>12, <1>13, <1>14, <1>15, <1>16, <1>17

\* A step on the row: the claim and the plan take no job by surprise, and a row is
\* published, dropped or marked only with the resources it stands for.
LEMMA Writes ==
    ASSUME LInv, Begin \/ Finish \/ Forget \/ Release \/ Uncleaned \/ RecordDeletion \/ CompleteDeletion
    PROVE  LInv'
<1> USE DEF Sound, Rows, Resources, Done
<1> USE DEF Works, Slips, Turns, Steps, Position, Made, Claiming, Taking, Deleting, NothingOwn, WholeWorld
<1>1. D \in Rows /\ R \in Resources /\ Sound(D, R) /\ Position(step, D, R)
  BY WellTyped DEF LInv, D, R
<1>2. <<who, "lifecycle">> \in jobs => (step # "idle" => D.row \in {"ready", "failed"} /\ WholeWorld(R))
  BY WellTyped DEF LInv, Served, LiveAtWork, D, R
<1>3. step \in Claiming \cup Taking \cup Deleting => <<who, "lifecycle">> \notin jobs
  BY JobsKeptOff
<1>4. <<who, "lifecycle">> \in jobs => Busy({who})  BY DEF Busy
<1>5. CASE Begin  BY <1>1, <1>2, <1>3, <1>4, <1>5, OnNeither, OnRow DEF Begin
<1>6. CASE Finish  BY <1>1, <1>2, <1>3, <1>4, <1>6, OnNeither, OnRow DEF Finish
<1>7. CASE Forget  BY <1>1, <1>2, <1>3, <1>4, <1>7, OnNeither, OnRow DEF Forget
<1>8. CASE Release  BY <1>1, <1>2, <1>3, <1>4, <1>8, OnNeither, OnRow DEF Release
<1>9. CASE Uncleaned  BY <1>1, <1>2, <1>3, <1>4, <1>9, OnNeither, OnRow DEF Uncleaned
<1>10. CASE RecordDeletion
  BY <1>1, <1>2, <1>3, <1>4, <1>10, OnNeither, OnRow DEF RecordDeletion
<1>11. CASE CompleteDeletion
  BY <1>1, <1>2, <1>3, <1>4, <1>11, OnNeither, OnRow DEF CompleteDeletion
<1> QED BY <1>5, <1>6, <1>7, <1>8, <1>9, <1>10, <1>11

\* A change to one world, whoever makes it.
LEMMA OneWorld ==
    ASSUME LInv, NEW i \in Ids, NEW d2 \in Rows, NEW r2 \in Resources,
           db' = [db EXCEPT ![i] = d2], res' = [res EXCEPT ![i] = r2], Sound(d2, r2)
    PROVE  /\ db' \in [Ids -> Rows] /\ res' \in [Ids -> Resources]
           /\ db'[i] = d2 /\ res'[i] = r2
           /\ \A k \in Ids : k # i => db'[k] = db[k] /\ res'[k] = res[k]
           /\ Worldly'
<1>1. db \in [Ids -> Rows] /\ res \in [Ids -> Resources]
  BY DEF LInv, LifetimeTypeOK, Rows, Resources
<1> QED BY <1>1 DEF LInv, Worldly

\* What happens to the server, the copier or the names of one world takes nothing from
\* the row, nor from the step at hand.
LEMMA StandsElsewhere ==
    ASSUME LInv, NEW i \in Ids, NEW d2 \in Rows, NEW r2 \in Resources,
           db' = [db EXCEPT ![i] = d2], res' = [res EXCEPT ![i] = r2], Sound(d2, r2),
           UNCHANGED <<jobs, next, step, who, cause, todo, alive, stops>>,
           slips' \in 0..LifetimeFaults,
           d2.row = db[i].row, d2.claim = db[i].claim, d2.tomb = db[i].tomb,
           WholeWorld(res[i]) => WholeWorld(r2),
           i = who => Position(step, d2, r2)
    PROVE  LInv'
<1>1. /\ db' \in [Ids -> Rows] /\ res' \in [Ids -> Resources]
      /\ db'[i] = d2 /\ res'[i] = r2
      /\ \A k \in Ids : k # i => db'[k] = db[k] /\ res'[k] = res[k]
      /\ Worldly'
  BY OneWorld
<1>2. who' = who /\ who \in Ids /\ step' = step /\ jobs' = jobs /\ alive' = alive /\ next' = next
  BY DEF LInv, LifetimeTypeOK
<1>3. LifetimeTypeOK'  BY <1>1, <1>2 DEF LInv, LifetimeTypeOK, Rows, Resources
<1>4. Position(step', db'[who'], res'[who'])
  <2>1. CASE i = who  BY <1>1, <1>2, <2>1
  <2>2. CASE i # who  BY <1>1, <1>2, <2>2 DEF LInv
  <2> QED BY <2>1, <2>2
<1>5. \A k \in Ids : db'[k].row = db[k].row /\ db'[k].claim = db[k].claim /\ db'[k].tomb = db[k].tomb
  BY <1>1
<1>6. ClaimsExcludeJobs'  BY <1>2, <1>5 DEF LInv, ClaimsExcludeJobs, Claimed
<1>7. Served'  BY <1>1, <1>2, <1>5 DEF LInv, Served
<1>8. Unused' /\ LiveAtWork'  BY <1>2, <1>5 DEF LInv, Unused, LiveAtWork
<1> QED BY <1>1, <1>3, <1>4, <1>6, <1>7, <1>8 DEF LInv

\* The server of a world: it is started and stopped by a lifecycle job, exits, or is found out.
LEMMA ServerStep ==
    ASSUME LInv, NEW i \in Ids, Server(i) \/ WorldServerExits(i) \/ StateReconciled(i)
    PROVE  LInv'
<1>1. /\ db \in [Ids -> Rows] /\ res \in [Ids -> Resources] /\ who \in Ids
      /\ db[i] \in Rows /\ res[i] \in Resources /\ slips \in 0..LifetimeFaults
  BY DEF LInv, LifetimeTypeOK, Rows, Resources
<1>2. Sound(db[i], res[i]) /\ (i = who => Position(step, db[i], res[i]))  BY DEF LInv, Worldly
<1>3. ASSUME Server(i) PROVE LInv'
  <2>1. PICK on \in BOOLEAN :
          /\ db' = [db EXCEPT ![i].up = on]
          /\ res' = [res EXCEPT ![i].box = IF on THEN "running" ELSE IF @ = "none" THEN @ ELSE "stopped"]
    BY <1>3 DEF Server
  <2> DEFINE d2 == [db[i] EXCEPT !.up = on]
             r2 == [res[i] EXCEPT !.box = IF on THEN "running" ELSE IF @ = "none" THEN @ ELSE "stopped"]
  <2>2. db' = [db EXCEPT ![i] = d2] /\ res' = [res EXCEPT ![i] = r2]  BY <2>1, <1>1
  <2>3. d2 \in Rows /\ r2 \in Resources  BY <1>1 DEF Rows, Resources
  <2>4. /\ d2.row = db[i].row /\ d2.claim = db[i].claim /\ d2.tomb = db[i].tomb /\ d2.vol = db[i].vol
        /\ r2.dir = res[i].dir /\ r2.vol = res[i].vol /\ r2.copied = res[i].copied
        /\ r2.copier = res[i].copier /\ r2.stage = res[i].stage
    BY <1>1 DEF Rows, Resources
  <2> HIDE DEF d2, r2
  <2>5. /\ db[i].row \in {"ready", "failed"} /\ WholeWorld(res[i]) /\ ~db[i].claim /\ db[i].tomb # "plan"
    BY <1>3 DEF Server, LInv, Served, ClaimsExcludeJobs, Claimed
  <2>6. Sound(d2, r2)  BY <2>4, <2>5, <1>2 DEF Sound, WholeWorld
  <2>7. i = who => Position(step, d2, r2)  BY <2>4, <2>5, <1>2 DEF Position, Deleting
  <2> QED BY <1>1, <1>3, <2>2, <2>3, <2>4, <2>6, <2>7, StandsElsewhere DEF Server, WholeWorld
<1>4. ASSUME WorldServerExits(i) PROVE LInv'
  <2> DEFINE r2 == [res[i] EXCEPT !.box = "stopped"]
  <2>1. db' = [db EXCEPT ![i] = db[i]] /\ res' = [res EXCEPT ![i] = r2]
    BY <1>4, <1>1 DEF WorldServerExits
  <2>2. r2 \in Resources  BY <1>1 DEF Resources
  <2>3. /\ r2.dir = res[i].dir /\ r2.vol = res[i].vol /\ r2.copied = res[i].copied
        /\ r2.copier = res[i].copier /\ r2.stage = res[i].stage
    BY <1>1 DEF Resources
  <2>4. res[i].box = "running"  BY <1>4 DEF WorldServerExits
  <2> HIDE DEF r2
  <2>5. Sound(db[i], r2)  BY <2>3, <2>4, <1>2 DEF Sound, WholeWorld, NothingOwn
  <2>6. i = who => Position(step, db[i], r2)  BY <2>3, <2>4, <1>2 DEF Position
  <2> QED
    BY <1>1, <1>4, <2>1, <2>2, <2>3, <2>5, <2>6, StandsElsewhere DEF WorldServerExits, WholeWorld
<1>5. ASSUME StateReconciled(i) PROVE LInv'
  <2> DEFINE d2 == [db[i] EXCEPT !.up = (res[i].box = "running")]
  <2>1. db' = [db EXCEPT ![i] = d2] /\ res' = [res EXCEPT ![i] = res[i]]
    BY <1>5, <1>1 DEF StateReconciled
  <2>2. d2 \in Rows  BY <1>1 DEF Rows
  <2>3. d2.row = db[i].row /\ d2.claim = db[i].claim /\ d2.tomb = db[i].tomb /\ d2.vol = db[i].vol
    BY <1>1 DEF Rows
  <2> HIDE DEF d2
  <2>4. Sound(d2, res[i]) /\ (i = who => Position(step, d2, res[i]))
    BY <2>3, <1>2 DEF Sound, Position
  <2> QED BY <1>1, <1>5, <2>1, <2>2, <2>3, <2>4, StandsElsewhere DEF StateReconciled
<1> QED BY <1>3, <1>4, <1>5

\* The copier and the outsiders.
LEMMA Intrudes ==
    ASSUME LInv, NEW i \in Ids, CopierEnds(i) \/ Outsider(i)
    PROVE  LInv'
<1>1. /\ db \in [Ids -> Rows] /\ res \in [Ids -> Resources] /\ who \in Ids
      /\ db[i] \in Rows /\ res[i] \in Resources /\ slips \in 0..LifetimeFaults
  BY DEF LInv, LifetimeTypeOK, Rows, Resources
<1>2. Sound(db[i], res[i]) /\ (i = who => Position(step, db[i], res[i]))  BY DEF LInv, Worldly
<1>3. db' = [db EXCEPT ![i] = db[i]] /\ UNCHANGED <<jobs, next, step, who, cause, todo, alive, stops>>
  BY <1>1 DEF CopierEnds, Outsider
<1>4. ASSUME CopierEnds(i) PROVE LInv'
  <2>1. PICK ok \in BOOLEAN : res' = [res EXCEPT ![i].copier = FALSE, ![i].copied = ok]
    BY <1>4 DEF CopierEnds
  <2> DEFINE r2 == [res[i] EXCEPT !.copier = FALSE, !.copied = ok]
  <2>2. res' = [res EXCEPT ![i] = r2]  BY <2>1, <1>1
  <2>3. r2 \in Resources  BY <1>1 DEF Resources
  <2>4. /\ r2.dir = res[i].dir /\ r2.vol = res[i].vol /\ r2.box = res[i].box
        /\ ~r2.copier /\ r2.stage = res[i].stage
    BY <1>1 DEF Resources
  <2>5. res[i].copier /\ slips' = slips  BY <1>4 DEF CopierEnds
  <2> HIDE DEF r2
  <2>6. Sound(db[i], r2)  BY <2>4, <2>5, <1>2 DEF Sound, WholeWorld, NothingOwn
  <2>7. i = who => Position(step, db[i], r2)  BY <2>4, <2>5, <1>2 DEF Position
  <2>8. WholeWorld(res[i]) => WholeWorld(r2)  BY <2>5 DEF WholeWorld
  <2> QED BY <1>1, <1>3, <2>2, <2>3, <2>5, <2>6, <2>7, <2>8, StandsElsewhere
<1>5. ASSUME Outsider(i) PROVE LInv'
  <2>0. slips' \in 0..LifetimeFaults  BY <1>1, <1>5, LifetimeAssumption DEF Outsider
  <2>1. ASSUME res[i].vol = "none", res' = [res EXCEPT ![i].vol = "foreign"]
        PROVE  LInv'
    <3> DEFINE r2 == [res[i] EXCEPT !.vol = "foreign"]
    <3>1. res' = [res EXCEPT ![i] = r2]  BY <2>1, <1>1
    <3>2. r2 \in Resources  BY <1>1 DEF Resources
    <3>3. /\ r2.dir = res[i].dir /\ r2.vol = "foreign" /\ r2.box = res[i].box
          /\ r2.copier = res[i].copier /\ r2.stage = res[i].stage /\ r2.copied = res[i].copied
      BY <1>1 DEF Resources
    <3> HIDE DEF r2
    <3>4. Sound(db[i], r2)  BY <3>3, <2>1, <1>2 DEF Sound, WholeWorld, NothingOwn
    <3>5. i = who => Position(step, db[i], r2)  BY <3>3, <2>1, <1>2 DEF Position
    <3>6. WholeWorld(res[i]) => WholeWorld(r2)  BY <2>1 DEF WholeWorld
    <3> QED BY <1>1, <1>3, <2>0, <3>1, <3>2, <3>4, <3>5, <3>6, StandsElsewhere
  <2>2. ASSUME res[i].dir = "none", res' = [res EXCEPT ![i].dir = "foreign"]
        PROVE  LInv'
    <3> DEFINE r2 == [res[i] EXCEPT !.dir = "foreign"]
    <3>1. res' = [res EXCEPT ![i] = r2]  BY <2>2, <1>1
    <3>2. r2 \in Resources  BY <1>1 DEF Resources
    <3>3. /\ r2.dir = "foreign" /\ r2.vol = res[i].vol /\ r2.box = res[i].box
          /\ r2.copier = res[i].copier /\ r2.stage = res[i].stage /\ r2.copied = res[i].copied
      BY <1>1 DEF Resources
    <3> HIDE DEF r2
    <3>4. Sound(db[i], r2)  BY <3>3, <2>2, <1>2 DEF Sound, WholeWorld, NothingOwn
    <3>5. i = who => Position(step, db[i], r2)  BY <3>3, <2>2, <1>2 DEF Position, Made
    <3>6. WholeWorld(res[i]) => WholeWorld(r2)  BY <2>2 DEF WholeWorld
    <3> QED BY <1>1, <1>3, <2>0, <3>1, <3>2, <3>4, <3>5, <3>6, StandsElsewhere
  <2> QED BY <1>5, <2>1, <2>2 DEF Outsider
<1> QED BY <1>4, <1>5

\* The type of the state, by its parts.
LEMMA Types ==
    LifetimeTypeOK <=>
        /\ db \in [Ids -> Rows] /\ res \in [Ids -> Resources]
        /\ jobs \subseteq Targets \X {"lifecycle", "other"}
        /\ next \in 1..(Worlds + 1) /\ step \in Steps /\ who \in Ids
        /\ cause \in {"create", "delete", "boot"} /\ todo \subseteq Ids /\ alive \in BOOLEAN
        /\ slips \in 0..LifetimeFaults /\ stops \in 0..LifetimeStops
BY DEF LifetimeTypeOK, Rows, Resources

\* The same of the next state.
LEMMA TypesAfter ==
    LifetimeTypeOK' <=>
        /\ db' \in [Ids -> Rows] /\ res' \in [Ids -> Resources]
        /\ jobs' \subseteq Targets \X {"lifecycle", "other"}
        /\ next' \in 1..(Worlds + 1) /\ step' \in Steps /\ who' \in Ids
        /\ cause' \in {"create", "delete", "boot"} /\ todo' \subseteq Ids /\ alive' \in BOOLEAN
        /\ slips' \in 0..LifetimeFaults /\ stops' \in 0..LifetimeStops
BY DEF LifetimeTypeOK, Rows, Resources

\* The requests to delete, the stops and boots of the panel, and the jobs.
LEMMA Around ==
    ASSUME LInv,
           \/ \E i \in Ids : Delete(i)
           \/ PanelStops \/ PanelBoots \/ BootEnds
           \/ \E t \in Targets, k \in {"lifecycle", "other"} : JobStarts(t, k)
           \/ \E j \in jobs : JobEnds(j)
    PROVE  LInv'
<1> USE DEF LInv, Worldly, Sound, NothingOwn, WholeWorld, LiveAtWork
<1> USE LifetimeAssumption DEF Works, Slips, Same, others, Template, Global, Targets
<1>1. ASSUME NEW i \in Ids, Delete(i)
      PROVE  LInv'
  <2>1. LifetimeTypeOK'  BY <1>1, Types, TypesAfter DEF Delete, Steps
  <2>2. Worldly'  BY <1>1, Types DEF Delete, Position, Served, Unused
  <2>3. Position(step', db'[who'], res'[who'])
    BY <1>1, Types DEF Delete, Position, Made, Claiming, Taking, Deleting, Fresh
  <2>4. ClaimsExcludeJobs'  BY <1>1, Types DEF Delete, ClaimsExcludeJobs, Claimed, Buried
  <2>5. Served'  BY <1>1, Types DEF Delete, Served, ClaimsExcludeJobs, Claimed
  <2>6. Unused'  BY <1>1, Types DEF Delete, Unused
  <2>7. LiveAtWork'  BY <1>1, Types DEF Delete
  <2> QED BY <2>1, <2>2, <2>3, <2>4, <2>5, <2>6, <2>7
<1>2. CASE PanelStops
  <2>0. stops' \in 0..LifetimeStops  BY <1>2 DEF LifetimeTypeOK, PanelStops
  <2>1. LifetimeTypeOK'
    <3>1. db' = db /\ res' = res /\ jobs' = jobs /\ next' = next /\ who' = who /\ cause' = cause /\ slips' = slips
      BY <1>2 DEF PanelStops
    <3>2. step' \in Steps /\ alive' \in BOOLEAN /\ todo' = {}  BY <1>2 DEF PanelStops, Steps
    <3> QED BY <2>0, <3>1, <3>2, Types, TypesAfter
  <2>2. Worldly'  BY <1>2, Types DEF PanelStops, Position, Served, Unused
  <2>3. Position(step', db'[who'], res'[who'])
    BY <1>2, Types DEF PanelStops, Position, Made, Claiming, Taking, Deleting, Fresh
  <2>4. ClaimsExcludeJobs'  BY <1>2, Types DEF PanelStops, ClaimsExcludeJobs, Claimed, Buried
  <2>5. Served'  BY <1>2, Types DEF PanelStops, Served, ClaimsExcludeJobs, Claimed
  <2>6. Unused'  BY <1>2, Types DEF PanelStops, Unused
  <2>7. LiveAtWork'  BY <1>2, Types DEF PanelStops
  <2> QED BY <2>1, <2>2, <2>3, <2>4, <2>5, <2>6, <2>7
<1>3. CASE PanelBoots
  <2>1. LifetimeTypeOK'  BY <1>3, Types, TypesAfter DEF PanelBoots, Steps
  <2>2. Worldly'  BY <1>3, Types DEF PanelBoots, Position, Served, Unused
  <2>3. Position(step', db'[who'], res'[who'])
    BY <1>3, Types DEF PanelBoots, Position, Made, Claiming, Taking, Deleting, Fresh
  <2>4. ClaimsExcludeJobs'  BY <1>3, Types DEF PanelBoots, ClaimsExcludeJobs, Claimed, Buried
  <2>5. Served'  BY <1>3, Types DEF PanelBoots, Served, ClaimsExcludeJobs, Claimed
  <2>6. Unused'  BY <1>3, Types DEF PanelBoots, Unused
  <2>7. LiveAtWork'  BY <1>3, Types DEF PanelBoots
  <2> QED BY <2>1, <2>2, <2>3, <2>4, <2>5, <2>6, <2>7
<1>4. CASE BootEnds
  <2>1. LifetimeTypeOK'  BY <1>4, Types, TypesAfter DEF BootEnds, Steps
  <2>2. Worldly'  BY <1>4, Types DEF BootEnds, Position, Served, Unused
  <2>3. Position(step', db'[who'], res'[who'])
    BY <1>4, Types DEF BootEnds, Position, Made, Claiming, Taking, Deleting, Fresh
  <2>4. ClaimsExcludeJobs'  BY <1>4, Types DEF BootEnds, ClaimsExcludeJobs, Claimed, Buried
  <2>5. Served'  BY <1>4, Types DEF BootEnds, Served, ClaimsExcludeJobs, Claimed
  <2>6. Unused'  BY <1>4, Types DEF BootEnds, Unused
  <2>7. LiveAtWork'  BY <1>4, Types DEF BootEnds
  <2> QED BY <2>1, <2>2, <2>3, <2>4, <2>5, <2>6, <2>7
<1>5. ASSUME NEW t \in Targets, NEW k \in {"lifecycle", "other"}, JobStarts(t, k)
      PROVE  LInv'
  <2>1. LifetimeTypeOK'  BY <1>5, Types, TypesAfter DEF JobStarts, Steps
  <2>2. Worldly'  BY <1>5, Types DEF JobStarts, Position, Served, Unused
  <2>3. Position(step', db'[who'], res'[who'])
    BY <1>5, Types DEF JobStarts, Position, Made, Claiming, Taking, Deleting, Fresh
  <2>4. ClaimsExcludeJobs'  BY <1>5, Types DEF JobStarts, ClaimsExcludeJobs, Claimed, Buried
  <2>5. Served'  BY <1>5, Types DEF JobStarts, Served, ClaimsExcludeJobs, Claimed
  <2>6. Unused'  BY <1>5, Types DEF JobStarts, Unused
  <2>7. LiveAtWork'  BY <1>5, Types DEF JobStarts
  <2> QED BY <2>1, <2>2, <2>3, <2>4, <2>5, <2>6, <2>7
<1>6. ASSUME NEW j \in jobs, JobEnds(j)
      PROVE  LInv'
  <2>1. LifetimeTypeOK'  BY <1>6, Types, TypesAfter DEF JobEnds, Steps
  <2>2. Worldly'  BY <1>6, Types DEF JobEnds, Position, Served, Unused
  <2>3. Position(step', db'[who'], res'[who'])
    BY <1>6, Types DEF JobEnds, Position, Made, Claiming, Taking, Deleting, Fresh
  <2>4. ClaimsExcludeJobs'  BY <1>6, Types DEF JobEnds, ClaimsExcludeJobs, Claimed, Buried
  <2>5. Served'  BY <1>6, Types DEF JobEnds, Served, ClaimsExcludeJobs, Claimed
  <2>6. Unused'  BY <1>6, Types DEF JobEnds, Unused
  <2>7. LiveAtWork'  BY <1>6, Types DEF JobEnds
  <2> QED BY <2>1, <2>2, <2>3, <2>4, <2>5, <2>6, <2>7
<1> QED BY <1>1, <1>2, <1>3, <1>4, <1>5, <1>6

\* A world is given the next ordinal.
LEMMA Reserves ==
    ASSUME LInv, Reserve
    PROVE  LInv'
<1> USE LifetimeAssumption
<1>0. /\ db \in [Ids -> Rows] /\ res \in [Ids -> Resources] /\ next \in Ids /\ next \in Nat
      /\ alive /\ step = "idle" /\ next' = next + 1 /\ next' \in 1..(Worlds + 1)
      /\ UNCHANGED <<res, jobs, todo, alive, slips, stops>>
  BY Types DEF LInv, Reserve, Ids
<1>1. db[next] \in Rows /\ res[next] \in Resources /\ Sound(db[next], res[next])
      /\ db[next].row = "none" /\ db[next].tomb = "none" /\ who \in Ids
  BY <1>0, Types DEF LInv, Unused, Worldly, Ids
<1>2. CASE res[next].dir = "none"
  <2> DEFINE d2 == [db[next] EXCEPT !.row = "provisioning"]
  <2>1. /\ db' = [db EXCEPT ![next] = d2] /\ res' = [res EXCEPT ![next] = res[next]]
        /\ step' = "gate" /\ who' = next /\ cause' = "create"
    BY <1>0, <1>2 DEF Reserve
  <2>2. /\ d2 \in Rows /\ d2.row = "provisioning" /\ d2.claim = db[next].claim
        /\ d2.tomb = "none" /\ d2.vol = db[next].vol
    BY <1>1 DEF Rows
  <2> HIDE DEF d2
  <2>3. Sound(d2, res[next]) /\ Position("gate", d2, res[next])
    BY <1>1, <2>2 DEF Sound, Position, Made, Claiming, Taking, Deleting
  <2>4. /\ db' \in [Ids -> Rows] /\ db'[next] = d2 /\ res' = res
        /\ \A k \in Ids : k # next => db'[k] = db[k]
        /\ Worldly'
    BY <1>0, <1>1, <2>1, <2>2, <2>3, OneWorld
  <2>5. LifetimeTypeOK'  BY <1>0, <2>1, <2>4, Types, TypesAfter DEF LInv, Steps
  <2>6. Position(step', db'[who'], res'[who'])  BY <2>1, <2>3, <2>4
  <2>7. \A k \in Ids : db'[k].claim = db[k].claim /\ db'[k].tomb = db[k].tomb
    BY <1>1, <2>2, <2>4
  <2>8. ClaimsExcludeJobs'  BY <1>0, <2>7 DEF LInv, ClaimsExcludeJobs, Claimed
  <2>9. Served'  BY <1>0, <1>1, <2>4 DEF LInv, Served
  <2>10. Unused'  BY <1>0, <2>4 DEF LInv, Unused, Ids
  <2>11. LiveAtWork'  BY <1>0 DEF LiveAtWork
  <2> QED BY <2>4, <2>5, <2>6, <2>8, <2>9, <2>10, <2>11 DEF LInv
<1>3. CASE res[next].dir # "none"
  <2>1. db' = db /\ step' = step /\ who' = who /\ cause' = cause  BY <1>3 DEF Reserve
  <2>2. LifetimeTypeOK'  BY <1>0, <2>1, Types, TypesAfter DEF LInv
  <2>3. Unused'  BY <1>0, <2>1 DEF LInv, Unused, Ids
  <2> QED
    BY <1>0, <2>1, <2>2, <2>3
       DEF LInv, Worldly, ClaimsExcludeJobs, Claimed, Served, LiveAtWork
<1> QED BY <1>2, <1>3

\* The boot looks at one world.
LEMMA Recovers ==
    ASSUME LInv, NEW i \in Ids, RecoverCreation(i)
    PROVE  LInv'
<1>0. /\ db \in [Ids -> Rows] /\ res \in [Ids -> Resources] /\ db[i] \in Rows /\ res[i] \in Resources
      /\ Sound(db[i], res[i]) /\ slips' \in 0..LifetimeFaults
      /\ step = "boot" /\ alive /\ who' = i /\ todo' \subseteq Ids /\ step' \in {"uncopy", "boot"}
      /\ UNCHANGED <<res, jobs, next, cause, alive, stops>>
  BY Types, LifetimeAssumption DEF LInv, Worldly, LiveAtWork, RecoverCreation, Works, Slips
<1>1. CASE UNCHANGED db
  <2>1. step' = "uncopy" => db[i].claim  BY <1>0 DEF RecoverCreation, Works, Slips
  <2>2. LifetimeTypeOK'  BY <1>0, <1>1, Types, TypesAfter DEF LInv, Steps
  <2>3. Position(step', db'[who'], res'[who'])
    BY <1>0, <1>1, <2>1 DEF Position, Made, Claiming, Taking, Deleting
  <2> QED
    BY <1>0, <1>1, <2>2, <2>3
       DEF LInv, Worldly, ClaimsExcludeJobs, Claimed, Served, Unused, LiveAtWork
<1>2. CASE ~UNCHANGED db
  <2> DEFINE d2 == [db[i] EXCEPT !.row = IF res[i].dir = "none" THEN "none" ELSE "failed"]
  <2>1. /\ db' = [db EXCEPT ![i] = d2] /\ res' = [res EXCEPT ![i] = res[i]] /\ step' = "boot"
        /\ ~db[i].claim /\ db[i].row = "provisioning"
    BY <1>0, <1>2 DEF RecoverCreation, Works
  <2>2. /\ d2 \in Rows /\ d2.row \in {"none", "failed"} /\ d2.claim = db[i].claim
        /\ d2.tomb = db[i].tomb /\ d2.vol = db[i].vol
    BY <1>0 DEF Rows
  <2> HIDE DEF d2
  <2>3. Sound(d2, res[i]) /\ Position("boot", d2, res[i])
    BY <1>0, <2>1, <2>2 DEF Sound, Position, Made, Claiming, Taking, Deleting
  <2>4. /\ db' \in [Ids -> Rows] /\ db'[i] = d2 /\ res' = res
        /\ \A k \in Ids : k # i => db'[k] = db[k]
        /\ Worldly'
    BY <1>0, <2>1, <2>2, <2>3, OneWorld
  <2>5. LifetimeTypeOK'  BY <1>0, <2>1, <2>4, Types, TypesAfter DEF LInv, Steps
  <2>6. Position(step', db'[who'], res'[who'])  BY <1>0, <2>1, <2>3, <2>4
  <2>7. \A k \in Ids : db'[k].claim = db[k].claim /\ db'[k].tomb = db[k].tomb  BY <2>2, <2>4
  <2>8. ClaimsExcludeJobs'  BY <1>0, <2>7 DEF LInv, ClaimsExcludeJobs, Claimed
  <2>9. Served'  BY <1>0, <2>1, <2>4 DEF LInv, Served
  <2>10. Unused'  BY <1>0, <2>1, <2>4 DEF LInv, Unused
  <2>11. LiveAtWork'  BY <1>0 DEF LiveAtWork
  <2> QED BY <2>4, <2>5, <2>6, <2>8, <2>9, <2>10, <2>11 DEF LInv
<1> QED BY <1>1, <1>2

\* Before anything is created the invariant holds.
LEMMA FirstWorlds == ASSUME LifetimeInit PROVE LInv
<1> USE LifetimeAssumption
<1>1. NoRow \in Rows /\ NoResource \in Resources /\ Sound(NoRow, NoResource)
  BY DEF NoRow, NoResource, Rows, Resources, Sound, NothingOwn, WholeWorld
<1>2. 1 \in Ids /\ 1 \in 1..(Worlds + 1) /\ db[1] = NoRow /\ res[1] = NoResource
  BY DEF LifetimeInit, Ids
<1>3. Position(step, db[who], res[who])
  BY DEF LifetimeInit, Position, Made, Claiming, Taking, Deleting
<1>4. LifetimeTypeOK
  <2>1. db \in [Ids -> Rows] /\ res \in [Ids -> Resources]  BY <1>1 DEF LifetimeInit
  <2> QED BY <1>2, <2>1, Types DEF LifetimeInit, Steps
<1>5. Worldly  BY <1>1 DEF LifetimeInit, Worldly
<1>6. ClaimsExcludeJobs /\ Served /\ Unused /\ LiveAtWork
  BY DEF LifetimeInit, ClaimsExcludeJobs, Served, Unused, LiveAtWork, NoRow
<1> QED BY <1>3, <1>4, <1>5, <1>6 DEF LInv

\* A stutter keeps it.
LEMMA NothingMoves == ASSUME LInv, UNCHANGED lifetimeVars PROVE LInv'
<1>1. LifetimeTypeOK'  BY Types, TypesAfter DEF LInv, lifetimeVars
<1> QED
  BY <1>1 DEF LInv, lifetimeVars, Worldly, ClaimsExcludeJobs, Claimed, Served, Unused, LiveAtWork

\* The invariant of the creation and the deletion of worlds: what each row says of its
\* resources, what each step counts on, and which jobs may run beside them.
THEOREM LifetimeInvariant == LifetimeSpec => []LInv
<1>1. LifetimeInit => LInv  BY FirstWorlds
<1>2. LInv /\ [LifetimeNext]_lifetimeVars => LInv'
  <2> SUFFICES ASSUME LInv, [LifetimeNext]_lifetimeVars PROVE LInv'
    OBVIOUS
  <2>1. CASE Provision  BY <2>1, Looks, Handles, Writes, Reserves DEF Provision
  <2>2. CASE TakeBack  BY <2>2, Looks, Handles, Writes DEF TakeBack
  <2>3. CASE Deletion  BY <2>3, Looks, Handles, Writes, Around DEF Deletion
  <2>4. CASE Booting  BY <2>4, Around, Recovers DEF Booting
  <2>5. CASE Surroundings  BY <2>5, Around, ServerStep, Intrudes DEF Surroundings
  <2>6. CASE UNCHANGED lifetimeVars  BY <2>6, NothingMoves
  <2> QED BY <2>1, <2>2, <2>3, <2>4, <2>5, <2>6 DEF LifetimeNext
<1> QED BY <1>1, <1>2, PTL DEF LifetimeSpec

\* Every variable of the creation and the deletion of worlds keeps its type.
THEOREM LifetimeTypes == LifetimeSpec => []LifetimeTypeOK
<1>1. LInv => LifetimeTypeOK  BY DEF LInv
<1> QED BY <1>1, LifetimeInvariant, PTL

\* A world is listed as ready only with everything it consists of, and one that is gone
\* has left nothing of its own, whatever failed, whoever interfered and wherever the
\* panel stopped.
THEOREM WholeOrNothingHolds == LifetimeSpec => []WholeOrNothing
<1>1. LInv => WholeOrNothing
  BY DEF LInv, Worldly, Sound, NothingOwn, WholeWorld, WholeOrNothing
<1> QED BY <1>1, LifetimeInvariant, PTL

\* No job runs on either side of a copy, nor on a world that is being deleted.
THEOREM ClaimsExcludeJobsHolds == LifetimeSpec => []ClaimsExcludeJobs
<1>1. LInv => ClaimsExcludeJobs  BY DEF LInv
<1> QED BY <1>1, LifetimeInvariant, PTL


\* What is another's stays in a step on the resources of the world at hand; only the
\* last step of a recorded deletion removes a directory as it is.
LEMMA HandlesKeep ==
    ASSUME LInv, MakeStage \/ WriteOwner \/ PublishDirectory \/ MoveOwner \/ PrepareWorld \/ MakeVolume \/ StartCopier \/ DropStage \/ RemoveCopier \/ RemoveVolume \/ RemoveOwned \/ RemovedOwned \/ RemoveStage \/ RemoveBox \/ DeleteVolume \/ RemoveWorld, NEW i \in Ids
    PROVE  /\ res[i].vol = "foreign" => res'[i].vol = "foreign"
           /\ res[i].dir = "foreign" => res'[i].dir = "foreign" \/ db[i].tomb = "plan"
<1> USE DEF Resources, Sound
<1> USE DEF Works, Slips, Position, Made, Claiming, Taking, Deleting
<1>1. R \in Resources /\ Sound(D, R) /\ Position(step, D, R)  BY WellTyped DEF LInv, R, D
<1> DEFINE Spares(r2) == /\ R.vol = "foreign" => r2.vol = "foreign"
                         /\ R.dir = "foreign" => r2.dir = "foreign" \/ D.tomb = "plan"
<1>a. SUFFICES ASSUME ~Same, \A r2 : With(r2) => ~Spares(r2)
      PROVE  FALSE
  <2>1. Same => res' = res  BY DEF Same
  <2>2. ASSUME NEW r2, With(r2), Spares(r2)
        PROVE  /\ res[i].vol = "foreign" => res'[i].vol = "foreign"
               /\ res[i].dir = "foreign" => res'[i].dir = "foreign" \/ db[i].tomb = "plan"
    <3>1. res'[who] = r2 /\ \A k \in Ids : k # who => res'[k] = res[k]
      BY <2>2, WellTyped DEF With, LInv, LifetimeTypeOK
    <3> QED BY <2>2, <3>1 DEF R, D
  <2> QED BY <2>1, <2>2
<1>2. CASE MakeStage  BY <1>1, <1>a, <1>2 DEF MakeStage
<1>3. CASE WriteOwner  BY <1>1, <1>a, <1>3 DEF WriteOwner
<1>4. CASE PublishDirectory  BY <1>1, <1>a, <1>4 DEF PublishDirectory
<1>5. CASE MoveOwner  BY <1>1, <1>a, <1>5 DEF MoveOwner
<1>6. CASE PrepareWorld  BY <1>1, <1>a, <1>6 DEF PrepareWorld
<1>7. CASE MakeVolume  BY <1>1, <1>a, <1>7 DEF MakeVolume
<1>8. CASE StartCopier  BY <1>1, <1>a, <1>8 DEF StartCopier
<1>9. CASE DropStage  BY <1>1, <1>a, <1>9 DEF DropStage
<1>10. CASE RemoveCopier  BY <1>1, <1>a, <1>10 DEF RemoveCopier
<1>11. CASE RemoveVolume
  <2>1. R.vol = "own" /\ With([R EXCEPT !.vol = "none", !.copied = FALSE])
    BY <1>a, <1>11 DEF RemoveVolume, Same
  <2>2. Spares([R EXCEPT !.vol = "none", !.copied = FALSE])  BY <1>1, <2>1
  <2> QED BY <1>a, <2>1, <2>2
<1>12. CASE RemoveOwned  BY <1>1, <1>a, <1>12 DEF RemoveOwned
<1>13. CASE RemovedOwned  BY <1>1, <1>a, <1>13 DEF RemovedOwned
<1>14. CASE RemoveStage  BY <1>1, <1>a, <1>14 DEF RemoveStage
<1>15. CASE RemoveBox  BY <1>1, <1>a, <1>15 DEF RemoveBox
<1>16. CASE DeleteVolume  BY <1>1, <1>a, <1>16 DEF DeleteVolume
<1>17. CASE RemoveWorld  BY <1>1, <1>a, <1>17 DEF RemoveWorld
<1> QED
  BY <1>2, <1>3, <1>4, <1>5, <1>6, <1>7, <1>8, <1>9, <1>10, <1>11, <1>12, <1>13, <1>14, <1>15, <1>16, <1>17

\* The steps that do not touch the resources.
LEMMA LeavesResources ==
    ASSUME \/ Gate \/ VerifyTemplate \/ CheckVolume \/ VerifyVolume \/ CopierReturns \/ VerifyCopy \/ Unwind \/ Apply \/ Remains
           \/ Begin \/ Finish \/ Forget \/ Release \/ Uncleaned \/ RecordDeletion \/ CompleteDeletion
           \/ Reserve \/ BootEnds \/ PanelStops \/ PanelBoots
           \/ \E i \in Ids : Delete(i) \/ RecoverCreation(i) \/ StateReconciled(i)
           \/ \E t \in Targets, k \in {"lifecycle", "other"} : JobStarts(t, k)
           \/ \E j \in jobs : JobEnds(j)
    PROVE  res' = res
<1> USE DEF Same, Write, others
<1>1. CASE Gate  BY <1>1 DEF Gate
<1>2. CASE VerifyTemplate  BY <1>2 DEF VerifyTemplate
<1>3. CASE CheckVolume  BY <1>3 DEF CheckVolume
<1>4. CASE VerifyVolume  BY <1>4 DEF VerifyVolume
<1>5. CASE CopierReturns  BY <1>5 DEF CopierReturns
<1>6. CASE VerifyCopy  BY <1>6 DEF VerifyCopy
<1>7. CASE Unwind  BY <1>7 DEF Unwind
<1>8. CASE Apply  BY <1>8 DEF Apply
<1>9. CASE Remains  BY <1>9 DEF Remains
<1>10. CASE Begin  BY <1>10 DEF Begin
<1>11. CASE Finish  BY <1>11 DEF Finish
<1>12. CASE Forget  BY <1>12 DEF Forget
<1>13. CASE Release  BY <1>13 DEF Release
<1>14. CASE Uncleaned  BY <1>14 DEF Uncleaned
<1>15. CASE RecordDeletion  BY <1>15 DEF RecordDeletion
<1>16. CASE CompleteDeletion  BY <1>16 DEF CompleteDeletion
<1>17. CASE Reserve  BY <1>17 DEF Reserve
<1>18. CASE BootEnds  BY <1>18 DEF BootEnds
<1>19. CASE PanelStops  BY <1>19 DEF PanelStops
<1>20. CASE PanelBoots  BY <1>20 DEF PanelBoots
<1>21. CASE \E i \in Ids : Delete(i) \/ RecoverCreation(i) \/ StateReconciled(i)
  BY <1>21 DEF Delete, RecoverCreation, StateReconciled
<1>22. CASE \E t \in Targets, k \in {"lifecycle", "other"} : JobStarts(t, k)
  BY <1>22 DEF JobStarts
<1>23. CASE \E j \in jobs : JobEnds(j)  BY <1>23 DEF JobEnds
<1> QED
  BY <1>1, <1>2, <1>3, <1>4, <1>5, <1>6, <1>7, <1>8, <1>9, <1>10, <1>11, <1>12, <1>13, <1>14, <1>15, <1>16, <1>17, <1>18, <1>19, <1>20, <1>21, <1>22, <1>23

\* The server, the copier and the outsiders remove nothing.
LEMMA OutsideKeeps ==
    ASSUME LInv, NEW k \in Ids, Server(k) \/ WorldServerExits(k) \/ CopierEnds(k) \/ Outsider(k), NEW i \in Ids
    PROVE  /\ res[i].vol = "foreign" => res'[i].vol = "foreign"
           /\ res[i].dir = "foreign" => res'[i].dir = "foreign"
<1>1. res \in [Ids -> Resources] /\ res[k] \in Resources  BY Types DEF LInv
<1>2. CASE Server(k)  BY <1>1, <1>2 DEF Server, Resources
<1>3. CASE WorldServerExits(k)  BY <1>1, <1>3 DEF WorldServerExits, Resources
<1>4. CASE CopierEnds(k)
  <2>1. PICK ok \in BOOLEAN : res' = [res EXCEPT ![k].copier = FALSE, ![k].copied = ok]
    BY <1>4 DEF CopierEnds
  <2>2. res' = [res EXCEPT ![k] = [res[k] EXCEPT !.copier = FALSE, !.copied = ok]]
    BY <1>1, <2>1
  <2> QED BY <1>1, <2>2 DEF Resources
<1>5. CASE Outsider(k)  BY <1>1, <1>5 DEF Outsider, Resources
<1> QED BY <1>2, <1>3, <1>4, <1>5

\* Neither a creation, nor its taking back, nor a deletion removes what it did not make,
\* except that a recorded deletion removes the directory at the world's path as it is.
THEOREM OthersKeptHolds == LifetimeSpec => OthersKept
<1> DEFINE Kept == \A i \in Ids :
                     /\ res[i].vol = "foreign" => res'[i].vol = "foreign"
                     /\ res[i].dir = "foreign" => res'[i].dir = "foreign" \/ db[i].tomb = "plan"
<1>1. LInv /\ [LifetimeNext]_lifetimeVars => [Kept]_lifetimeVars
  <2> SUFFICES ASSUME LInv, LifetimeNext PROVE Kept
    OBVIOUS
  <2>1. CASE Provision  BY <2>1, HandlesKeep, LeavesResources DEF Provision
  <2>2. CASE TakeBack  BY <2>2, HandlesKeep, LeavesResources DEF TakeBack
  <2>3. CASE Deletion  BY <2>3, HandlesKeep, LeavesResources DEF Deletion
  <2>4. CASE Booting  BY <2>4, LeavesResources DEF Booting
  <2>5. CASE Surroundings  BY <2>5, OutsideKeeps, LeavesResources DEF Surroundings
  <2> QED BY <2>1, <2>2, <2>3, <2>4, <2>5 DEF LifetimeNext
<1> QED BY <1>1, LifetimeInvariant, PTL DEF LifetimeSpec, OthersKept

(***************************************************************************)
(* The daily maintenance, for any two times, any grace and any number of   *)
(* disturbances.                                                           *)
(***************************************************************************)
Columns == [shut : 0..(Horizon + Day), start : 0..(Horizon + Day)]
TickParts == {"none", "listed", "shutdown", "startup", "stop", "shut", "start"}
Ticks == [step : TickParts, at : 0..Horizon, plan : Schedules(BOOLEAN), marks : Columns,
          seen : {"running", "stopped", "starting"}]
ScheduleTyped ==
    /\ clock \in Day..Horizon /\ plan \in Schedules(BOOLEAN) /\ marks \in Columns /\ tick \in Ticks
    /\ ticked \in 0..Horizon /\ awake \in BOOLEAN /\ warned \subseteq 0..(Horizon + Day)
    /\ host \in {"running", "stopping", "stopped", "starting"}
    /\ closed \subseteq 0..Horizon /\ maintained \in [start : Int, alone : BOOLEAN]
    /\ disturbed \in 0..Disturbances

\* A tick works on the marks as they are, for nobody else writes them, and on a day
\* that is not over.
TickKnows ==
    tick.step # "none" =>
        /\ awake /\ Day <= tick.at /\ tick.at <= clock /\ tick.at = ticked
        /\ tick.marks = marks /\ tick.plan.on
        /\ tick.step \in {"shutdown", "stop", "shut"} => tick.at < StartupAt /\ marks.shut < ShutdownAt
        /\ tick.step \in {"startup", "start"} => StartupAt <= tick.at
\* A startup is marked when it is due, and no shutdown is ever marked twice.
MarksPast == marks.start <= clock /\ \A s \in closed : s <= marks.shut

\* In a window nothing has disturbed ...
Window == maintained.alone /\ plan.shut # plan.start
\* ... the startup is the next thing that comes,
StartupAhead ==
    Window /\ clock <= maintained.start =>
        \A t \in clock..maintained.start : StartupAfter(plan, CurrentShutdown(plan, t)) = maintained.start
\* a tick looks at the window as it is,
Prompt == Window => awake /\ plan.on /\ (tick.step # "none" => tick.at = clock /\ tick.plan = plan /\ ticked = clock)
\* and the server is down until the startup is due, is started by the tick of that very
\* moment, and stays up.
Down == host \in {"stopping", "stopped"} /\ tick.step \notin {"startup", "start"}
Due0 ==
    /\ host = "stopped" /\ marks.start < maintained.start
    /\ ticked = clock => \/ tick.step = "listed"
                         \/ tick.step = "startup" /\ tick.seen = "stopped"
ServesWindow ==
    Window =>
        /\ clock < maintained.start => Down /\ marks.start < maintained.start
        /\ clock = maintained.start => Due0 \/ host \in {"starting", "running"}
        /\ clock > maintained.start => host \in {"starting", "running"}

SInv == ScheduleTyped /\ TickKnows /\ MarksPast /\ StartupAhead /\ Prompt /\ ServesWindow

\* The one remainder of a division.
LEMMA Remainder ==
    ASSUME NEW d \in Nat \ {0}, NEW q \in Int, NEW r \in Int, 0 <= r, r < d
    PROVE  (d * q + r) % d = r
<1> DEFINE x == d * q + r
<1>0. x \in Int  OBVIOUS
<1> HIDE DEF x
<1>1. x % d \in 0..(d - 1) /\ x = d * (x \div d) + (x % d) /\ x \div d \in Int  BY <1>0
<1> DEFINE k == x \div d
           m == x % d
<1>2. k \in Int /\ m \in Int /\ 0 <= m /\ m < d /\ d * q + r = d * k + m  BY <1>1 DEF x
<1> HIDE DEF k, m
<1>3. d * (q - k) = m - r  BY <1>2
<1>4. q - k = 0
  <2>1. CASE q - k >= 1
    <3>1. d * (q - k) >= d  BY <2>1, <1>2
    <3> QED BY <3>1, <1>2, <1>3
  <2>2. CASE q - k <= -1
    <3>1. d * (q - k) <= -d  BY <2>2, <1>2
    <3> QED BY <3>1, <1>2, <1>3
  <2> QED BY <2>1, <2>2, <1>2
<1> QED BY <1>2, <1>3, <1>4 DEF m, x

\* Every moment lies in a day, at an offset into it.
LEMMA Division ==
    ASSUME NEW d \in Nat \ {0}, NEW x \in Int
    PROVE  \E q \in Int : x = d * q + (x % d) /\ x % d \in 0..(d - 1)
<1>1. x \div d \in Int /\ x = d * (x \div d) + (x % d) /\ x % d \in 0..(d - 1)  OBVIOUS
<1> QED BY <1>1

\* The last shutdown is at most a day ago, and the startup after it at most a day later.
LEMMA Near ==
    ASSUME NEW p \in Schedules(BOOLEAN), NEW t \in Int
    PROVE  LET s == CurrentShutdown(p, t) IN
           /\ s \in Int /\ s <= t /\ t < s + Day
           /\ StartupAfter(p, s) \in Int /\ s < StartupAfter(p, s) /\ StartupAfter(p, s) <= s + Day
<1>0. Day \in Nat \ {0} /\ p.shut \in Int /\ p.start \in Int
  BY ScheduleAssumption DEF Schedules
<1> DEFINE a == t - p.shut
           b == p.start - p.shut - 1
<1>1. a \in Int /\ b \in Int  BY <1>0
<1> HIDE DEF a, b
<1>2. a % Day \in 0..(Day - 1) /\ b % Day \in 0..(Day - 1)  BY <1>0, <1>1, Division
<1>3. CurrentShutdown(p, t) = t - (a % Day) /\ \A s : StartupAfter(p, s) = s + 1 + (b % Day)
  BY DEF CurrentShutdown, StartupAfter, a, b
<1> QED BY <1>0, <1>2, <1>3

\* Between a shutdown and its startup, when the two times differ, there is no other.
LEMMA Between ==
    ASSUME NEW p \in Schedules(BOOLEAN), p.shut # p.start, NEW t \in Int, NEW u \in Int,
           t <= u, u <= StartupAfter(p, CurrentShutdown(p, t))
    PROVE  CurrentShutdown(p, u) = CurrentShutdown(p, t)
<1>0. /\ Day \in Nat \ {0} /\ Day \in Int /\ Day > 0 /\ p.shut \in 0..(Day - 1) /\ p.start \in 0..(Day - 1)
      /\ p.shut \in Int /\ p.start \in Int
  BY ScheduleAssumption DEF Schedules
<1> DEFINE s == CurrentShutdown(p, t)
           a == p.start - p.shut - 1
           e == t - p.shut
<1>a. a \in Int /\ e \in Int /\ a + 1 < Day /\ a + 1 > -Day /\ a + 1 # 0  BY <1>0
<1>b. s = t - (e % Day) /\ \A v : StartupAfter(p, v) = v + 1 + (a % Day)
  BY DEF CurrentShutdown, StartupAfter
<1>c. s \in Int /\ s <= t  BY Near
<1> HIDE DEF a, e, s
<1>1. a % Day < Day - 1
  <2>1. PICK q \in Int : a = Day * q + (a % Day) /\ a % Day \in 0..(Day - 1)
    BY <1>0, <1>a, Division
  <2>2. CASE a % Day = Day - 1
    <3>1. a = Day * (q + 1) - 1  BY <2>1, <2>2, <1>0
    <3>2. a + 1 = Day * (q + 1)  BY <3>1, <1>0, <1>a
    <3>3. CASE q + 1 >= 1
      <4>1. Day * (q + 1) >= Day  BY <3>3, <1>0
      <4> QED BY <4>1, <3>2, <1>0, <1>a
    <3>4. CASE q + 1 <= -1
      <4>1. Day * (q + 1) <= -Day  BY <3>4, <1>0
      <4> QED BY <4>1, <3>2, <1>0, <1>a
    <3>5. CASE q + 1 = 0  BY <3>2, <3>5, <1>0, <1>a
    <3> QED BY <3>3, <3>4, <3>5
  <2> QED BY <2>1, <2>2, <1>0, <1>a
<1>2. StartupAfter(p, s) < s + Day
  <2>1. a % Day \in Int  BY Division, <1>0, <1>a
  <2> QED BY <1>0, <1>1, <1>b, <1>c, <2>1
<1>3. PICK q \in Int : e = Day * q + (e % Day) /\ e % Day \in 0..(Day - 1)
  BY <1>0, <1>a, Division
<1>4. s = p.shut + Day * q /\ u < s + Day /\ u >= s
  <2>1. u <= StartupAfter(p, s)  BY DEF s
  <2>2. StartupAfter(p, s) \in Int  BY <1>b, <1>c, Division, <1>0, <1>a
  <2> QED BY <1>0, <1>2, <1>3, <1>b, <1>c, <2>1, <2>2 DEF e
<1>5. u - p.shut = Day * q + (u - s)  BY <1>0, <1>4, <1>c
<1>6. (u - p.shut) % Day = u - s
  <2> DEFINE r == u - s
  <2>1. r \in Int /\ 0 <= r /\ r < Day  BY <1>0, <1>4, <1>c
  <2> HIDE DEF r
  <2>2. (Day * q + r) % Day = r  BY <1>0, <2>1, Remainder
  <2> QED BY <1>5, <2>2 DEF r
<1> QED BY <1>0, <1>c, <1>6 DEF CurrentShutdown, s

\* What a tick computes with are numbers, and its shutdown is before its startup, a day away at most.
LEMMA Values ==
    ASSUME ScheduleTyped
    PROVE  /\ clock \in Int /\ tick.at \in Int /\ marks.shut \in Int /\ marks.start \in Int
           /\ ticked \in Int /\ maintained.start \in Int /\ tick.plan \in Schedules(BOOLEAN)
           /\ tick.marks \in Columns /\ tick \in Ticks
           /\ ShutdownAt \in Int /\ StartupAt \in Int
           /\ ShutdownAt <= tick.at /\ tick.at < ShutdownAt + Day
           /\ ShutdownAt < StartupAt /\ StartupAt <= ShutdownAt + Day
           /\ Day \in Nat \ {0} /\ Horizon \in Nat /\ Grace \in Nat /\ Day <= Horizon /\ Disturbances \in Nat
<1>1. /\ Day \in Nat \ {0} /\ Horizon \in Nat /\ Grace \in Nat /\ Day <= Horizon /\ Disturbances \in Nat
  BY ScheduleAssumption
<1>2. /\ clock \in Int /\ tick.at \in Int /\ marks.shut \in Int /\ marks.start \in Int
      /\ ticked \in Int /\ maintained.start \in Int /\ tick.plan \in Schedules(BOOLEAN)
      /\ tick.marks \in Columns /\ tick \in Ticks
  BY <1>1 DEF ScheduleTyped, Ticks, Columns
<1> QED BY <1>1, <1>2, Near DEF ShutdownAt, StartupAt

\* The invariant holds before the first tick.
LEMMA ScheduleBegins == ASSUME ScheduleInit PROVE SInv
<1>1. Day \in Nat \ {0} /\ Horizon \in Nat /\ Grace \in Nat /\ Day <= Horizon /\ Disturbances \in Nat
  BY ScheduleAssumption
<1>2. ScheduleTyped
  <2>1. NoTick \in Ticks  BY <1>1 DEF NoTick, Ticks, TickParts, Columns, Schedules, Never
  <2>2. [shut |-> Never, start |-> Never] \in Columns  BY <1>1 DEF Columns, Never
  <2>3. \A p \in Schedules({TRUE}) : p \in Schedules(BOOLEAN)  BY DEF Schedules
  <2>4. [start |-> 0, alone |-> FALSE] \in [start : Int, alone : BOOLEAN]  OBVIOUS
  <2> QED BY <1>1, <2>1, <2>2, <2>3, <2>4 DEF ScheduleInit, ScheduleTyped, Never
<1>3. TickKnows  BY DEF ScheduleInit, TickKnows, NoTick
<1>4. MarksPast  BY <1>1 DEF ScheduleInit, MarksPast, Never
<1>5. ~Window  BY DEF ScheduleInit, Window
<1> QED BY <1>2, <1>3, <1>4, <1>5 DEF SInv, StartupAhead, Prompt, ServesWindow


\* A disturbance closes the window, and nothing else touches it.
LEMMA Calm ==
    ASSUME ScheduleTyped
    PROVE  /\ Disturb => ~Window' /\ disturbed' \in 0..Disturbances /\ maintained' \in [start : Int, alone : BOOLEAN]
           /\ Undisturbed => maintained' = maintained /\ disturbed' = disturbed
<1>1. Disturb => disturbed' \in 0..Disturbances
  BY ScheduleAssumption DEF ScheduleTyped, Disturb
<1> QED BY <1>1 DEF ScheduleTyped, Disturb, Undisturbed, Window

\* A tick that goes on to another step is otherwise the same.
LEMMA TickOn ==
    ASSUME ScheduleTyped, NEW s \in TickParts, TickTo(s)
    PROVE  /\ tick' \in Ticks /\ tick'.step = s /\ tick'.at = tick.at /\ tick'.plan = tick.plan
           /\ tick'.marks = tick.marks /\ tick'.seen = tick.seen
BY DEF ScheduleTyped, TickTo, Ticks

\* No tick is a tick.
LEMMA NoTickTyped == NoTick \in Ticks /\ NoTick.step = "none"
<1>1. Day \in Nat \ {0} /\ Horizon \in Nat  BY ScheduleAssumption
<1> QED BY <1>1 DEF NoTick, Ticks, TickParts, Columns, Schedules, Never

\* What a tick that looks at its window finds due.
LEMMA DueFacts ==
    ASSUME ScheduleTyped, NEW seen
    PROVE  /\ Due(tick.at, seen) \in {"none", "shutdown", "startup"}
           /\ Due(tick.at, seen) = "shutdown" => tick.at < StartupAt /\ tick.marks.shut < ShutdownAt
           /\ Due(tick.at, seen) = "startup" => StartupAt <= tick.at /\ tick.marks.start < StartupAt
           /\ tick.at = StartupAt /\ tick.marks.start < StartupAt => Due(tick.at, seen) = "startup"
BY Values DEF Due, ShouldRun, ShutdownAt, StartupAt

\* Every step keeps the invariant.
LEMMA ScheduleStep ==
    ASSUME SInv, ScheduleNext
    PROVE  SInv'
<1> USE DEF TickParts, Window
<1>1. ScheduleTyped /\ TickKnows /\ MarksPast /\ StartupAhead /\ Prompt /\ ServesWindow
  BY DEF SInv
<1> USE Values, Calm, NoTickTyped DEF On
<1>2. CASE ListSchedules
  <2>1. ScheduleTyped'
    <3>1. clock \in 0..Horizon /\ ticked' \in 0..Horizon
      BY <1>1, <1>2 DEF ScheduleTyped, ListSchedules
    <3>2. [step |-> "listed", at |-> clock, plan |-> plan, marks |-> marks, seen |-> "stopped"] \in Ticks
      BY <1>1, <3>1 DEF ScheduleTyped, Ticks
    <3>3. tick' \in Ticks  BY <1>2, <3>2 DEF ListSchedules
    <3> QED BY <1>1, <1>2, <3>1, <3>3 DEF ScheduleTyped, ListSchedules
  <2>2. TickKnows'
    <3>1. CASE plan.on
      <4>1. /\ tick'.step = "listed" /\ tick'.at = clock /\ tick'.plan = plan /\ tick'.marks = marks
        BY <1>2, <3>1 DEF ListSchedules
      <4>2. /\ awake' /\ clock' = clock /\ ticked' = clock /\ marks' = marks /\ Day <= clock /\ clock <= clock
        BY <1>1, <1>2 DEF ListSchedules, ScheduleTyped
      <4> QED BY <3>1, <4>1, <4>2 DEF TickKnows
    <3>2. CASE ~plan.on  BY <1>2, <3>2 DEF ListSchedules, TickKnows
    <3> QED BY <3>1, <3>2
  <2>3. MarksPast'  BY <1>1, <1>2 DEF MarksPast, ListSchedules, NoTick
  <2>4. StartupAhead'  BY <1>1, <1>2 DEF StartupAhead, ListSchedules, NoTick
  <2>5. Prompt'  BY <1>1, <1>2, TickOn DEF Prompt, ListSchedules, NoTick
  <2>6. ServesWindow'
    BY <1>1, <1>2, TickOn DEF ServesWindow, Down, Due0, StartupAhead, Prompt, ListSchedules, NoTick
  <2> QED BY <2>1, <2>2, <2>3, <2>4, <2>5, <2>6 DEF SInv
<1>3. ASSUME NEW seen \in {"running", "stopped", "starting"}, ProcessSchedule(seen)
      PROVE  SInv'
  <2>1. ScheduleTyped'
    <3>1. warned' \subseteq 0..(Horizon + Day)
      <4>1. NextShutdown(tick.plan, tick.at) \in 0..(Horizon + Day)
        BY <1>1, <1>3 DEF NextShutdown, ShutdownAt, ProcessSchedule, TickKnows, ScheduleTyped
      <4> QED BY <1>1, <1>3, <4>1 DEF ProcessSchedule, ScheduleTyped
    <3>2. tick' \in Ticks
      <4>1. CASE Due(tick.at, seen) = "none"  BY <1>3, <4>1 DEF ProcessSchedule
      <4>2. CASE Due(tick.at, seen) # "none"
        <5>1. /\ tick' = [tick EXCEPT !.step = Due(tick.at, seen), !.seen = seen]
              /\ Due(tick.at, seen) \in {"shutdown", "startup"}
          BY <1>3, <4>2, DueFacts, <1>1 DEF ProcessSchedule
        <5> QED BY <1>1, <1>3, <5>1 DEF Ticks
      <4> QED BY <4>1, <4>2
    <3> QED BY <1>1, <1>3, <3>1, <3>2 DEF ScheduleTyped, ProcessSchedule
  <2>2. TickKnows'
    <3>1. CASE Due(tick.at, seen) = "none"  BY <1>1, <1>3, <3>1 DEF ProcessSchedule, TickKnows
    <3>2. CASE Due(tick.at, seen) # "none"
      <4>1. /\ tick' = [tick EXCEPT !.step = Due(tick.at, seen), !.seen = seen]
            /\ Due(tick.at, seen) \in {"shutdown", "startup"}
        BY <1>3, <3>2, DueFacts, <1>1 DEF ProcessSchedule
      <4>2. /\ tick' \in Ticks /\ tick'.step = Due(tick.at, seen) /\ tick'.seen = seen /\ tick'.at = tick.at
            /\ tick'.plan = tick.plan /\ tick'.marks = tick.marks
        BY <1>1, <1>3, <4>1 DEF Ticks
      <4>3. UNCHANGED <<clock, plan, marks, ticked, awake, host, closed, maintained>> /\ tick.step = "listed" /\ awake
        BY <1>1, <1>3 DEF ProcessSchedule
      <4>4. StartupAt' = StartupAt /\ ShutdownAt' = ShutdownAt
        BY <4>2 DEF StartupAt, ShutdownAt
      <4> QED BY <1>1, <4>1, <4>2, <4>3, <4>4, DueFacts DEF TickKnows
    <3> QED BY <3>1, <3>2
  <2>3. MarksPast'  BY <1>1, <1>3 DEF MarksPast, ProcessSchedule, NoTick, Due, Shown
  <2>4. StartupAhead'  BY <1>1, <1>3 DEF StartupAhead, ProcessSchedule, NoTick, Due, Shown
  <2>5. Prompt'  BY <1>1, <1>3, TickOn DEF Prompt, ProcessSchedule, NoTick, Due, Shown
  <2>6. ServesWindow'
    <3>0. Window /\ clock <= maintained.start => /\ tick.at = clock /\ StartupAt = maintained.start
      <4> SUFFICES ASSUME Window, clock <= maintained.start PROVE tick.at = clock /\ StartupAt = maintained.start
        OBVIOUS
      <4>1. tick.at = clock /\ tick.plan = plan  BY <1>1, <1>3 DEF Prompt, ProcessSchedule
      <4>2. clock \in clock..maintained.start  BY <1>1
      <4> QED BY <1>1, <4>1, <4>2 DEF StartupAhead, StartupAt, ShutdownAt
    <3>1. CASE Due(tick.at, seen) = "none"
      BY <1>1, <1>3, <3>0, <3>1, DueFacts DEF ProcessSchedule, ServesWindow, Down, Due0, StartupAhead, Prompt,
         TickKnows
    <3>2. CASE Due(tick.at, seen) # "none"
      <4>1. /\ tick' = [tick EXCEPT !.step = Due(tick.at, seen), !.seen = seen]
            /\ Due(tick.at, seen) \in {"shutdown", "startup"}
        BY <1>3, <3>2, DueFacts, <1>1 DEF ProcessSchedule
      <4>2. /\ tick' \in Ticks /\ tick'.step = Due(tick.at, seen) /\ tick'.seen = seen /\ tick'.at = tick.at
            /\ tick'.plan = tick.plan /\ tick'.marks = tick.marks
        BY <1>1, <1>3, <4>1 DEF Ticks
      <4>3. UNCHANGED <<clock, plan, marks, ticked, awake, host, closed, maintained>> /\ tick.step = "listed" /\ awake
        BY <1>1, <1>3 DEF ProcessSchedule
      <4>4. host = "stopped" => seen = "stopped"  BY <1>3 DEF ProcessSchedule, Shown
      <4> QED BY <1>1, <3>0, <4>1, <4>2, <4>3, <4>4, DueFacts DEF ServesWindow, Down, Due0
    <3> QED BY <3>1, <3>2
  <2> QED BY <2>1, <2>2, <2>3, <2>4, <2>5, <2>6 DEF SInv
<1>4. CASE ProcessFails
  <2>1. ScheduleTyped'  BY <1>1, <1>4, TickOn DEF ScheduleTyped, ProcessFails, NoTick, OnlyTick
  <2>2. TickKnows'
    BY <1>1, <1>4, TickOn DEF TickKnows, StartupAt, ShutdownAt, ProcessFails, NoTick, OnlyTick
  <2>3. MarksPast'  BY <1>1, <1>4 DEF MarksPast, ProcessFails, NoTick, OnlyTick
  <2>4. StartupAhead'  BY <1>1, <1>4 DEF StartupAhead, ProcessFails, NoTick, OnlyTick
  <2>5. Prompt'  BY <1>1, <1>4, TickOn DEF Prompt, ProcessFails, NoTick, OnlyTick
  <2>6. ServesWindow'
    BY <1>1, <1>4, TickOn DEF ServesWindow, Down, Due0, StartupAhead, Prompt, ProcessFails, NoTick, OnlyTick
  <2> QED BY <2>1, <2>2, <2>3, <2>4, <2>5, <2>6 DEF SInv
<1>5. CASE ShutdownBlocked
  <2>1. ScheduleTyped'
    BY <1>1, <1>5, TickOn DEF ScheduleTyped, ShutdownBlocked, OnlyTick, JobActive
  <2>2. TickKnows'
    BY <1>1, <1>5, TickOn DEF TickKnows, StartupAt, ShutdownAt, ShutdownBlocked, OnlyTick, JobActive
  <2>3. MarksPast'  BY <1>1, <1>5 DEF MarksPast, ShutdownBlocked, OnlyTick, JobActive
  <2>4. StartupAhead'  BY <1>1, <1>5 DEF StartupAhead, ShutdownBlocked, OnlyTick, JobActive
  <2>5. Prompt'  BY <1>1, <1>5, TickOn DEF Prompt, ShutdownBlocked, OnlyTick, JobActive
  <2>6. ServesWindow'
    BY <1>1, <1>5, TickOn DEF ServesWindow, Down, Due0, StartupAhead, Prompt, ShutdownBlocked, OnlyTick, JobActive
  <2> QED BY <2>1, <2>2, <2>3, <2>4, <2>5, <2>6 DEF SInv
<1>6. CASE NothingToStop
  <2>1. ScheduleTyped'
    BY <1>1, <1>6, TickOn DEF ScheduleTyped, NothingToStop, OnlyTick, JobActive
  <2>2. TickKnows'
    BY <1>1, <1>6, TickOn DEF TickKnows, StartupAt, ShutdownAt, NothingToStop, OnlyTick, JobActive
  <2>3. MarksPast'  BY <1>1, <1>6 DEF MarksPast, NothingToStop, OnlyTick, JobActive
  <2>4. StartupAhead'  BY <1>1, <1>6 DEF StartupAhead, NothingToStop, OnlyTick, JobActive
  <2>5. Prompt'  BY <1>1, <1>6, TickOn DEF Prompt, NothingToStop, OnlyTick, JobActive
  <2>6. ServesWindow'
    BY <1>1, <1>6, TickOn DEF ServesWindow, Down, Due0, StartupAhead, Prompt, NothingToStop, OnlyTick, JobActive
  <2> QED BY <2>1, <2>2, <2>3, <2>4, <2>5, <2>6 DEF SInv
<1>7. CASE ShutdownSkipped
  <2>1. ScheduleTyped'
    BY <1>1, <1>7, TickOn DEF ScheduleTyped, ShutdownSkipped, OnlyTick, JobActive
  <2>2. TickKnows'
    BY <1>1, <1>7, TickOn DEF TickKnows, StartupAt, ShutdownAt, ShutdownSkipped, OnlyTick, JobActive
  <2>3. MarksPast'  BY <1>1, <1>7 DEF MarksPast, ShutdownSkipped, OnlyTick, JobActive
  <2>4. StartupAhead'  BY <1>1, <1>7 DEF StartupAhead, ShutdownSkipped, OnlyTick, JobActive
  <2>5. Prompt'  BY <1>1, <1>7, TickOn DEF Prompt, ShutdownSkipped, OnlyTick, JobActive
  <2>6. ServesWindow'
    BY <1>1, <1>7, TickOn DEF ServesWindow, Down, Due0, StartupAhead, Prompt, ShutdownSkipped, OnlyTick, JobActive
  <2> QED BY <2>1, <2>2, <2>3, <2>4, <2>5, <2>6 DEF SInv
<1>8. CASE ReadyToStop
  <2>1. ScheduleTyped'
    BY <1>1, <1>8, TickOn DEF ScheduleTyped, ReadyToStop, OnlyTick, JobActive
  <2>2. TickKnows'
    BY <1>1, <1>8, TickOn DEF TickKnows, StartupAt, ShutdownAt, ReadyToStop, OnlyTick, JobActive
  <2>3. MarksPast'  BY <1>1, <1>8 DEF MarksPast, ReadyToStop, OnlyTick, JobActive
  <2>4. StartupAhead'  BY <1>1, <1>8 DEF StartupAhead, ReadyToStop, OnlyTick, JobActive
  <2>5. Prompt'  BY <1>1, <1>8, TickOn DEF Prompt, ReadyToStop, OnlyTick, JobActive
  <2>6. ServesWindow'
    BY <1>1, <1>8, TickOn DEF ServesWindow, Down, Due0, StartupAhead, Prompt, ReadyToStop, OnlyTick, JobActive
  <2> QED BY <2>1, <2>2, <2>3, <2>4, <2>5, <2>6 DEF SInv
<1>9. CASE SubmitStop
  <2>1. ScheduleTyped'  BY <1>1, <1>9, TickOn DEF ScheduleTyped, SubmitStop
  <2>2. TickKnows'  BY <1>1, <1>9, TickOn DEF TickKnows, StartupAt, ShutdownAt, SubmitStop
  <2>3. MarksPast'  BY <1>1, <1>9 DEF MarksPast, SubmitStop
  <2>4. StartupAhead'
    <3>1. /\ tick'.at = tick.at /\ tick'.plan = tick.plan /\ tick'.step = "shut" /\ tick.step = "stop" /\ tick' \in Ticks
          /\ host' = "stopping" /\ UNCHANGED <<clock, plan, marks, ticked, awake>> /\ awake
          /\ maintained'.start = StartupAt /\ (maintained'.alone <=> plan = tick.plan /\ clock = tick.at /\ host = "running")
      BY <1>1, <1>9, TickOn DEF SubmitStop
    <3>2. tick.at < StartupAt /\ tick.at = ticked /\ tick.plan.on  BY <1>1, <3>1 DEF TickKnows
    <3>3. ASSUME Window', NEW t \in clock..StartupAt
          PROVE  StartupAfter(plan, CurrentShutdown(plan, t)) = StartupAt
      <4>1. plan = tick.plan /\ clock = tick.at /\ plan.shut # plan.start  BY <3>1, <3>3
      <4>2. CurrentShutdown(plan, t) = CurrentShutdown(plan, tick.at)
        BY <1>1, <3>3, <4>1, Between DEF StartupAt, ShutdownAt
      <4> QED BY <4>1, <4>2 DEF StartupAt, ShutdownAt
    <3> QED BY <3>1, <3>3 DEF StartupAhead
  <2>5. Prompt'
    <3>1. /\ tick'.at = tick.at /\ tick'.plan = tick.plan /\ tick'.step = "shut" /\ tick.step = "stop" /\ tick' \in Ticks
          /\ host' = "stopping" /\ UNCHANGED <<clock, plan, marks, ticked, awake>> /\ awake
          /\ maintained'.start = StartupAt /\ (maintained'.alone <=> plan = tick.plan /\ clock = tick.at /\ host = "running")
      BY <1>1, <1>9, TickOn DEF SubmitStop
    <3>2. tick.at < StartupAt /\ tick.at = ticked /\ tick.plan.on  BY <1>1, <3>1 DEF TickKnows
    <3> QED BY <3>1, <3>2 DEF Prompt
  <2>6. ServesWindow'
    <3>1. /\ tick'.at = tick.at /\ tick'.plan = tick.plan /\ tick'.step = "shut" /\ tick.step = "stop" /\ tick' \in Ticks
          /\ host' = "stopping" /\ UNCHANGED <<clock, plan, marks, ticked, awake>> /\ awake
          /\ maintained'.start = StartupAt /\ (maintained'.alone <=> plan = tick.plan /\ clock = tick.at /\ host = "running")
      BY <1>1, <1>9, TickOn DEF SubmitStop
    <3>2. tick.at < StartupAt /\ tick.at = ticked /\ tick.plan.on  BY <1>1, <3>1 DEF TickKnows
    <3>3. Window' => clock = tick.at  BY <3>1
    <3> QED BY <1>1, <3>1, <3>2, <3>3 DEF ServesWindow, Down, MarksPast
  <2> QED BY <2>1, <2>2, <2>3, <2>4, <2>5, <2>6 DEF SInv
<1>10. CASE StopRefused
  <2>1. ScheduleTyped'  BY <1>1, <1>10, TickOn DEF ScheduleTyped, StopRefused, OnlyTick
  <2>2. TickKnows'
    BY <1>1, <1>10, TickOn DEF TickKnows, StartupAt, ShutdownAt, StopRefused, OnlyTick
  <2>3. MarksPast'  BY <1>1, <1>10 DEF MarksPast, StopRefused, OnlyTick
  <2>4. StartupAhead'  BY <1>1, <1>10 DEF StartupAhead, StopRefused, OnlyTick
  <2>5. Prompt'  BY <1>1, <1>10, TickOn DEF Prompt, StopRefused, OnlyTick
  <2>6. ServesWindow'
    BY <1>1, <1>10, TickOn DEF ServesWindow, Down, Due0, StartupAhead, Prompt, StopRefused, OnlyTick
  <2> QED BY <2>1, <2>2, <2>3, <2>4, <2>5, <2>6 DEF SInv
<1>11. CASE StartupSkipped
  <2>1. ScheduleTyped'  BY <1>1, <1>11, TickOn DEF ScheduleTyped, StartupSkipped, OnlyTick
  <2>2. TickKnows'
    BY <1>1, <1>11, TickOn DEF TickKnows, StartupAt, ShutdownAt, StartupSkipped, OnlyTick
  <2>3. MarksPast'  BY <1>1, <1>11 DEF MarksPast, StartupSkipped, OnlyTick
  <2>4. StartupAhead'  BY <1>1, <1>11 DEF StartupAhead, StartupSkipped, OnlyTick
  <2>5. Prompt'  BY <1>1, <1>11, TickOn DEF Prompt, StartupSkipped, OnlyTick
  <2>6. ServesWindow'
    BY <1>1, <1>11, TickOn DEF ServesWindow, Down, Due0, StartupAhead, Prompt, StartupSkipped, OnlyTick
  <2> QED BY <2>1, <2>2, <2>3, <2>4, <2>5, <2>6 DEF SInv
<1>12. CASE SubmitStart
  <2>1. ScheduleTyped'  BY <1>1, <1>12, TickOn DEF ScheduleTyped, SubmitStart
  <2>2. TickKnows'  BY <1>1, <1>12, TickOn DEF TickKnows, StartupAt, ShutdownAt, SubmitStart
  <2>3. MarksPast'  BY <1>1, <1>12 DEF MarksPast, SubmitStart
  <2>4. StartupAhead'  BY <1>1, <1>12 DEF StartupAhead, SubmitStart
  <2>5. Prompt'  BY <1>1, <1>12, TickOn DEF Prompt, SubmitStart
  <2>6. ServesWindow'
    BY <1>1, <1>12, TickOn DEF ServesWindow, Down, Due0, StartupAhead, Prompt, SubmitStart
  <2> QED BY <2>1, <2>2, <2>3, <2>4, <2>5, <2>6 DEF SInv
<1>13. ASSUME NEW action \in {"shut", "start"}, MarkAction(action)
      PROVE  SInv'
  <2>1. ScheduleTyped'
    <3>1. StartupAt \in 0..(Horizon + Day) /\ ShutdownAt \in 0..(Horizon + Day) /\ ShutdownAt \in 0..Horizon
      BY <1>1, <1>13 DEF MarkAction, TickKnows, ScheduleTyped
    <3>2. marks' \in Columns
      BY <1>1, <1>13, <3>1 DEF MarkAction, MarkedAt, ScheduleTyped, Columns
    <3>3. closed' \subseteq 0..Horizon  BY <1>1, <1>13, <3>1 DEF MarkAction, ScheduleTyped
    <3> QED BY <1>1, <1>13, <3>2, <3>3 DEF MarkAction, ScheduleTyped
  <2>2. TickKnows'
    BY <1>1, <1>13, TickOn DEF TickKnows, StartupAt, ShutdownAt, MarkAction, MarkedAt, NoTick
  <2>3. MarksPast'
    <3>1. CASE UNCHANGED <<marks, closed>>  BY <1>1, <1>13, <3>1 DEF MarkAction, MarksPast
    <3>2. CASE /\ marks' = [marks EXCEPT ![action] = MarkedAt(action)]
               /\ closed' = IF action = "shut" THEN closed \cup {ShutdownAt} ELSE closed
      <4>1. clock' = clock /\ tick.step = action /\ marks \in Columns /\ closed \subseteq Int
        BY <1>1, <1>13 DEF MarkAction, ScheduleTyped
      <4>2. CASE action = "shut"
        <5>1. marks'.shut = ShutdownAt /\ marks'.start = marks.start /\ closed' = closed \cup {ShutdownAt} /\ marks.shut < ShutdownAt
          BY <1>1, <3>2, <4>1, <4>2 DEF Columns, MarkedAt, TickKnows
        <5>2. ShutdownAt \in Int /\ marks.shut \in Int
          BY <1>1, <1>13, <4>1, <4>2 DEF MarkAction, TickKnows, ScheduleTyped, Columns
        <5>3. marks.start <= clock /\ \A s \in closed : s <= marks.shut  BY <1>1 DEF MarksPast
        <5>4. marks'.start <= clock'  BY <4>1, <5>1, <5>3
        <5>5. \A s \in closed' : s <= marks'.shut  BY <4>1, <5>1, <5>2, <5>3
        <5> QED BY <5>4, <5>5 DEF MarksPast
      <4>3. CASE action = "start"
        <5>1. marks'.start = StartupAt /\ marks'.shut = marks.shut /\ closed' = closed /\ StartupAt <= tick.at /\ tick.at <= clock
          BY <1>1, <3>2, <4>1, <4>3 DEF Columns, MarkedAt, TickKnows
        <5>2. StartupAt \in Int /\ tick.at \in Int /\ clock \in Int
          BY <1>1, <1>13, <4>1, <4>3 DEF TickKnows, ScheduleTyped, Ticks, StartupAt
        <5>3. marks'.start <= clock'  BY <4>1, <5>1, <5>2
        <5>4. \A s \in closed' : s <= marks'.shut  BY <1>1, <5>1 DEF MarksPast
        <5> QED BY <5>3, <5>4 DEF MarksPast
      <4> QED BY <1>13, <4>2, <4>3
    <3> QED BY <1>13, <3>1, <3>2 DEF MarkAction
  <2>4. StartupAhead'  BY <1>1, <1>13 DEF StartupAhead, MarkAction, MarkedAt, NoTick
  <2>5. Prompt'  BY <1>1, <1>13, TickOn DEF Prompt, MarkAction, MarkedAt, NoTick
  <2>6. ServesWindow'
    <3>1. CASE Disturb  BY <1>1, <3>1 DEF ServesWindow
    <3>2. CASE Undisturbed
      <4>1. /\ tick.step = action /\ tick' = NoTick /\ marks' = [marks EXCEPT ![action] = MarkedAt(action)]
            /\ UNCHANGED <<clock, plan, ticked, awake, host, maintained>>
        BY <1>1, <1>13, <3>2 DEF MarkAction, Disturb, Undisturbed
      <4>2. action = "shut" => marks'.start = marks.start
        BY <1>1, <4>1 DEF ScheduleTyped, Columns
      <4> QED BY <1>1, <1>13, <4>1, <4>2 DEF ServesWindow, Prompt, Down, Due0, NoTick
    <3> QED BY <1>13, <3>1, <3>2 DEF MarkAction
  <2> QED BY <2>1, <2>2, <2>3, <2>4, <2>5, <2>6 DEF SInv
<1>14. ASSUME NEW p \in Schedules(BOOLEAN), PutSchedule(p)
      PROVE  SInv'
  <2>1. ScheduleTyped'  BY <1>1, <1>14, TickOn DEF ScheduleTyped, PutSchedule, Upsert
  <2>2. TickKnows'
    BY <1>1, <1>14, TickOn DEF TickKnows, StartupAt, ShutdownAt, PutSchedule, Upsert
  <2>3. MarksPast'  BY <1>1, <1>14 DEF MarksPast, PutSchedule, Upsert
  <2>4. StartupAhead'  BY <1>1, <1>14 DEF StartupAhead, PutSchedule, Upsert
  <2>5. Prompt'  BY <1>1, <1>14, TickOn DEF Prompt, PutSchedule, Upsert
  <2>6. ServesWindow'
    BY <1>1, <1>14, TickOn DEF ServesWindow, Down, Due0, StartupAhead, Prompt, PutSchedule, Upsert
  <2> QED BY <2>1, <2>2, <2>3, <2>4, <2>5, <2>6 DEF SInv
<1>15. CASE JobFinishes
  <2>1. ScheduleTyped'  BY <1>1, <1>15, TickOn DEF ScheduleTyped, JobFinishes, JobActive
  <2>2. TickKnows'
    BY <1>1, <1>15, TickOn DEF TickKnows, StartupAt, ShutdownAt, JobFinishes, JobActive
  <2>3. MarksPast'  BY <1>1, <1>15 DEF MarksPast, JobFinishes, JobActive
  <2>4. StartupAhead'  BY <1>1, <1>15 DEF StartupAhead, JobFinishes, JobActive
  <2>5. Prompt'  BY <1>1, <1>15, TickOn DEF Prompt, JobFinishes, JobActive
  <2>6. ServesWindow'
    BY <1>1, <1>15, TickOn DEF ServesWindow, Down, Due0, StartupAhead, Prompt, JobFinishes, JobActive
  <2> QED BY <2>1, <2>2, <2>3, <2>4, <2>5, <2>6 DEF SInv
<1>16. CASE UserActs
  <2>1. ScheduleTyped'  BY <1>1, <1>16, TickOn DEF ScheduleTyped, UserActs, JobActive
  <2>2. TickKnows'
    BY <1>1, <1>16, TickOn DEF TickKnows, StartupAt, ShutdownAt, UserActs, JobActive
  <2>3. MarksPast'  BY <1>1, <1>16 DEF MarksPast, UserActs, JobActive
  <2>4. StartupAhead'  BY <1>1, <1>16 DEF StartupAhead, UserActs, JobActive
  <2>5. Prompt'  BY <1>1, <1>16, TickOn DEF Prompt, UserActs, JobActive
  <2>6. ServesWindow'
    BY <1>1, <1>16, TickOn DEF ServesWindow, Down, Due0, StartupAhead, Prompt, UserActs, JobActive
  <2> QED BY <2>1, <2>2, <2>3, <2>4, <2>5, <2>6 DEF SInv
<1>17. CASE SchedulerDies
  <2>1. ScheduleTyped'
    <3>1. host' \in {"running", "stopping", "stopped", "starting"}
      BY <1>1, <1>17 DEF ScheduleTyped, SchedulerDies
    <3>2. ticked' \in 0..Horizon /\ warned' = {} /\ awake' = FALSE
      BY <1>1, <1>17 DEF SchedulerDies, Never
    <3> QED BY <1>1, <1>17, <3>1, <3>2 DEF ScheduleTyped, SchedulerDies
  <2>2. TickKnows'
    BY <1>1, <1>17, TickOn DEF TickKnows, StartupAt, ShutdownAt, SchedulerDies, JobActive, NoTick, Never
  <2>3. MarksPast'  BY <1>1, <1>17 DEF MarksPast, SchedulerDies, JobActive, NoTick, Never
  <2>4. StartupAhead'  BY <1>1, <1>17 DEF StartupAhead, SchedulerDies, JobActive, NoTick, Never
  <2>5. Prompt'  BY <1>1, <1>17, TickOn DEF Prompt, SchedulerDies, JobActive, NoTick, Never
  <2>6. ServesWindow'
    BY <1>1, <1>17, TickOn DEF ServesWindow, Down, Due0, StartupAhead, Prompt, SchedulerDies, JobActive, NoTick,
       Never
  <2> QED BY <2>1, <2>2, <2>3, <2>4, <2>5, <2>6 DEF SInv
<1>18. CASE SchedulerBoots
  <2>1. ScheduleTyped'  BY <1>1, <1>18, TickOn DEF ScheduleTyped, SchedulerBoots
  <2>2. TickKnows'  BY <1>1, <1>18, TickOn DEF TickKnows, StartupAt, ShutdownAt, SchedulerBoots
  <2>3. MarksPast'  BY <1>1, <1>18 DEF MarksPast, SchedulerBoots
  <2>4. StartupAhead'  BY <1>1, <1>18 DEF StartupAhead, SchedulerBoots
  <2>5. Prompt'  BY <1>1, <1>18, TickOn DEF Prompt, SchedulerBoots
  <2>6. ServesWindow'
    BY <1>1, <1>18, TickOn DEF ServesWindow, Down, Due0, StartupAhead, Prompt, SchedulerBoots
  <2> QED BY <2>1, <2>2, <2>3, <2>4, <2>5, <2>6 DEF SInv
<1>19. CASE TimePasses
  <2>1. ScheduleTyped'  BY <1>1, <1>19, TickOn DEF ScheduleTyped, TimePasses, NoTick
  <2>2. TickKnows'
    BY <1>1, <1>19, TickOn DEF TickKnows, StartupAt, ShutdownAt, TimePasses, NoTick
  <2>3. MarksPast'  BY <1>1, <1>19 DEF MarksPast, TimePasses, NoTick
  <2>4. StartupAhead'  BY <1>1, <1>19 DEF StartupAhead, TimePasses, NoTick
  <2>5. Prompt'  BY <1>1, <1>19, TickOn DEF Prompt, TimePasses, NoTick
  <2>6. ServesWindow'
    BY <1>1, <1>19, TickOn DEF ServesWindow, Down, Due0, StartupAhead, Prompt, TimePasses, NoTick
  <2> QED BY <2>1, <2>2, <2>3, <2>4, <2>5, <2>6 DEF SInv
<1> QED
  BY <1>2, <1>3, <1>4, <1>5, <1>6, <1>7, <1>8, <1>9, <1>10, <1>11, <1>12, <1>13, <1>14, <1>15, <1>16, <1>17, <1>18, <1>19 DEF ScheduleNext

\* The invariant of the daily maintenance: a tick knows the marks, the marks only rise, and
\* in a window nothing has disturbed the tick at the startup finds the server down and it due.
THEOREM ScheduleInvariant == ScheduleSpec => []SInv
<1>1. ScheduleInit => SInv  BY ScheduleBegins
<1>2. SInv /\ [ScheduleNext]_scheduleVars => SInv'
  <2> SUFFICES ASSUME SInv, [ScheduleNext]_scheduleVars PROVE SInv'
    OBVIOUS
  <2>1. CASE ScheduleNext  BY <2>1, ScheduleStep
  <2>2. CASE UNCHANGED scheduleVars
    BY <2>2 DEF scheduleVars, SInv, ScheduleTyped, TickKnows, MarksPast, StartupAhead, Prompt, ServesWindow, Down, Due0, Window,
       StartupAt, ShutdownAt
  <2> QED BY <2>1, <2>2
<1> QED BY <1>1, <1>2, PTL DEF ScheduleSpec

\* Every variable of the daily maintenance keeps its type.
THEOREM ScheduleTypes == ScheduleSpec => []ScheduleTypeOK
<1>1. SInv => ScheduleTypeOK
  BY DEF SInv, ScheduleTyped, ScheduleTypeOK, Columns, Ticks, TickParts
<1> QED BY <1>1, ScheduleInvariant, PTL

\* A server the schedule has taken down in a window nothing disturbed is started again by
\* the tick at which the startup is due and stays up, and a shutdown that was answered is
\* never submitted again, whatever is reconfigured and whenever the panel stops.
THEOREM ScheduleKeptHolds == ScheduleSpec => []ScheduleKept
<1>1. SInv => AnsweredOnce
  <2> SUFFICES ASSUME SInv, On("stop"), ShutdownAt \in closed PROVE FALSE
    BY DEF AnsweredOnce
  <2> QED BY Values DEF SInv, TickKnows, MarksPast, On
<1>2. SInv => ComesBack  BY Values DEF SInv, ServesWindow, Window, ComesBack
<1> QED BY <1>1, <1>2, ScheduleInvariant, PTL DEF ScheduleKept

-----------------------------------------------------------------------------
(* The panel's own upgrade, and the operation that goes on to the groups    *)

\* The types the argument uses.
Parts      == {"none", "prepared", "applying", "active", "succeeded", "failed_rolled_back", "rollback_failed", "unchanged"}
Stages140  == FullStackTerminal \cup {"none", "preparing", "awaiting_confirmation", "waiting_panel", "migrating",
                                   "verifying_remaining", "recovering", "scope_changed"}
GroupLoop  == {"next", "validate", "mark", "wait", "receipt", "keep"}
Operations == [id : 0..Plans, phase : Stages140, auth : BOOLEAN, cont : BOOLEAN, pid : BOOLEAN,
               target : {"new", "alt"}, scope : SUBSET Groups, part : [Groups -> Parts], cancelled : BOOLEAN]
Coordinators == [at : GroupLoop \cup {"idle", "panel", "started", "refused", "verifying", "remaining", "final", "recover"},
                 g : Groups, todo : SUBSET Groups, part : [Groups -> Parts],
                 end : {"none", "failed_safe", "manual_action"}]
HelperAt   == {"off", "backup", "pull", "env", "config", "up", "health", "cleanup", "rollback", "stop",
               "db", "files", "oldUp", "oldHealth"}
PanelTyped ==
    /\ panelImage \in {"old", "new", "alt", "none"} /\ process \in {"up", "boot", "stopped"}
    /\ env \in {"old", "new", "alt"} /\ panelDB \in {"old", "new"}
    /\ apply \in [phase : {"none", "active", "succeeded", "failed_rolled_back", "rollback_failed"},
                  by : 0..Plans, sel : {"none", "new", "alt"}]
    /\ helper \in HelperAt
Flagged == launch \in BOOLEAN /\ tried \in BOOLEAN /\ check \in BOOLEAN /\ expired \in BOOLEAN
Counted == ufaults \in 0..UpgradeFaults /\ ustops \in 0..UpgradeStops
StackTyped == stack \in Operations /\ coord \in Coordinators
GroupsTyped ==
    /\ txn140 \in [1..Plans -> [Groups -> {"none", "open", "committed", "rolled_back", "claim_failed"}]]
    /\ told \in [Groups -> [by : 0..Plans, phase : {"none", "active", "succeeded", "failed_rolled_back", "rollback_failed"}]]
    /\ leased \in [Groups -> BOOLEAN]
    /\ job140 \in [Groups -> {"off", "run", "publish", "release"}]
    /\ receipt \in [Groups -> [by : 0..Plans, outcome : {"none", "committed", "rolled_back", "untouched"}]]
UpgradeTyped == PanelTyped /\ Flagged /\ Counted /\ StackTyped /\ GroupsTyped

\* Only a running panel has something in memory, and only a helper or a launch is active.
Awake ==
    /\ launch \/ check \/ coord.at # "idle" \/ (\E g \in Groups : job140[g] # "off") => PanelUp
    /\ panelImage = "none" => process = "stopped"
    /\ launch => ActiveApply /\ helper = "off" /\ panelImage = "old" /\ apply.sel = "none"
    /\ helper # "off" => ActiveApply

\* What the helper has done to the deployment when it comes to a step, and what it reports.
Deployed ==
    /\ panelImage = "old" => panelDB = "old"
    /\ helper \in {"backup", "pull", "env", "config"} => panelImage = "old" /\ ~tried
    /\ helper \in {"backup", "pull", "env"} => env = "old"
    /\ helper = "backup" => apply.sel = "none"
    /\ helper \in {"env", "config", "up", "health", "cleanup"} => apply.sel # "none"
    /\ helper \in {"config", "up", "health", "cleanup"} => env = apply.sel
    /\ helper \in {"health", "cleanup"} => panelImage = apply.sel
    /\ helper \in {"up", "health", "stop", "db", "oldUp"} => tried
    /\ helper \in {"rollback", "files"} /\ ~tried => panelImage = "old"
    /\ helper \in {"db", "oldUp"} \/ (helper = "files" /\ tried) => process = "stopped"
    /\ helper = "oldUp" \/ (helper = "files" /\ tried) => panelDB = "old"
    /\ helper \in {"oldUp", "oldHealth"} => env = "old"
    /\ helper = "oldHealth" => panelImage = "old"
    /\ apply.phase = "succeeded" => apply.sel # "none"

\* What the coordinator may rely on where it is: the operation is confirmed and at work.
Consented ==
    /\ check => stack.phase = "preparing" /\ coord.at = "idle"
    /\ stack.phase \in {"none", "preparing"} => ~stack.auth
    /\ stack.auth => stack.id # 0
    /\ stack.id = 0 => stack.phase = "none"
    /\ coord.at # "idle" => stack.auth /\ stack.phase \notin FullStackTerminal
    /\ coord.at \in GroupLoop \cup {"verifying"} => stack.phase = "migrating"
    /\ coord.at \in GroupLoop => panelImage = stack.target /\ PanelProven
    /\ coord.at = "remaining" => stack.phase = "verifying_remaining"
    /\ coord.at \in {"verifying", "remaining"} => coord.end = "failed_safe"
    /\ coord.at = "final" => coord.end # "none"
    /\ coord.at = "recover" => stack.phase = "recovering"
    /\ coord.at \in GroupLoop \ {"next"} => coord.g \in stack.scope

\* The newest operation that began a group, and what its transaction, its status, its
\* leases and its job say of one another.
Newest(n, g) == txn140[n][g] # "none" /\ \A m \in 1..Plans : txn140[m][g] # "none" => m <= n
Grouped ==
    /\ \A n \in 1..Plans, g \in Groups : txn140[n][g] # "none" =>
          n <= stack.id /\ \E l \in 1..Plans : Newest(l, g)
    /\ \A g \in Groups : job140[g] # "off" =>
          leased[g] /\ \E l \in 1..Plans : Newest(l, g) /\ told[g].by = l
    /\ \A g \in Groups, l \in 1..Plans : Newest(l, g) =>
          /\ job140[g] = "run" => txn140[l][g] = "open"
          /\ job140[g] \in {"publish", "release"} => txn140[l][g] \in {"committed", "rolled_back"}
    /\ \A g \in stack.scope : job140[g] # "off" => txn140[stack.id][g] # "none"
    /\ \A g \in Groups, n \in 1..Plans :
          told[g].by = n /\ told[g].phase = "succeeded" => txn140[n][g] = "committed"
    /\ \A g \in stack.scope : txn140[stack.id][g] = "committed" => told[g].by = stack.id
    /\ stack.phase \in {"none", "preparing"} => stack.scope = {}

\* What the operation says of its groups, on disk and in memory, is so.
GroupProven(g) ==
    /\ Phase(g) # "open" /\ ~leased[g]
    /\ receipt[g] = [by |-> stack.id, outcome |-> IF Phase(g) \in {"committed", "rolled_back"} THEN Phase(g) ELSE "untouched"]
PartsTold ==
    /\ \A g \in stack.scope : stack.part[g] = "succeeded" \/ coord.part[g] = "succeeded" => Phase(g) = "committed"
    /\ coord.at = "idle" => \A g \in Groups : coord.part[g] # "succeeded"
    /\ stack.phase \in {"none", "preparing"} => \A g \in Groups : stack.part[g] # "succeeded"
CoordTold ==
    /\ coord.at = "validate" => told[coord.g].by # stack.id
    /\ coord.at \in {"mark", "wait", "receipt", "keep"} => told[coord.g].by = stack.id
    /\ coord.at = "keep" => Phase(coord.g) = "committed"
    /\ coord.at \in {"remaining", "recover"} => coord.todo \subseteq stack.scope /\ \A g \in stack.scope \ coord.todo : GroupProven(g)
    /\ coord.at = "final" /\ coord.end = "failed_safe" => \A g \in stack.scope : GroupProven(g)

UpgradeInv == UpgradeTyped /\ Awake /\ Deployed /\ Consented /\ Grouped /\ PartsTold /\ CoordTold /\ ReportsTrue

-----------------------------------------------------------------------------
(* What the steps leave alone                                              *)

\* A panel whose container is stopped or replaced forgets what it had in memory.
Forgotten == launch' = FALSE /\ check' = FALSE /\ coord' = Idle /\ job140' = [g \in Groups |-> "off"]
Launches  == AdminApply \/ AbortBeforeHelper \/ ApplyUnwritten \/ StartApplyHelper
Requests140 == PrepareFullStack \/ Preflight \/ Confirm140 \/ CancelPrepared \/ Expire \/ RequestRecovery
JobSteps  == \E g \in Groups : GroupEnds(g) \/ GroupTells(g) \/ GroupReleases(g)

\* A launch touches nothing but its status, and answers the tick that waits for it.
LEMMA LaunchEffect ==
    ASSUME Launches
    PROVE  /\ PanelUp /\ UNCHANGED <<panelVars, stackVars, groupFiles, check, job140, ustops>>
           /\ coord' = coord \/ \E r \in {"started", "refused"} :
                                   coord.at = "panel" /\ coord' = [coord EXCEPT !.at = r]
<1>1. CASE AdminApply BY <1>1 DEF AdminApply, BeginApply, Launching
<1>2. CASE AbortBeforeHelper BY <1>2 DEF AbortBeforeHelper, Returns, Launching
<1>3. CASE ApplyUnwritten BY <1>3 DEF ApplyUnwritten, Returns, Launching
<1>4. CASE StartApplyHelper BY <1>4 DEF StartApplyHelper, Returns, Launching
<1> QED BY <1>1, <1>2, <1>3, <1>4 DEF Launches

\* A container is as it was, with the panel's memory, or the panel has forgotten.
LEMMA ContainerEffect ==
    ASSUME NEW i, NEW p, Container(i, p)
    PROVE  /\ UNCHANGED <<stackVars, groupFiles>>
           /\ \/ UNCHANGED <<panelImage, process, memory>> /\ panelImage = i /\ process = p
              \/ panelImage' = i /\ process' = p /\ Forgotten
BY DEF Container, Forgotten

LEMMA HalfEffect ==
    ASSUME NEW i, HalfRecreated(i)
    PROVE  /\ UNCHANGED <<stackVars, groupFiles>>
           /\ UNCHANGED <<panelImage, process, memory>> \/ Forgotten
           /\ \/ UNCHANGED <<panelImage, process>>
              \/ panelImage' = "none" /\ process' = "stopped"
              \/ panelImage' = i /\ process' \in {"stopped", "boot"}
<1>1. PICK c \in {<<panelImage, process>>, <<"none", "stopped">>, <<i, "stopped">>, <<i, "boot">>} :
         Container(c[1], c[2])
  BY DEF HalfRecreated
<1>2. CASE c = <<panelImage, process>>  BY <1>1, <1>2, ContainerEffect
<1>3. CASE c = <<"none", "stopped">>  BY <1>1, <1>3, ContainerEffect
<1>4. CASE c = <<i, "stopped">>  BY <1>1, <1>4, ContainerEffect
<1>5. CASE c = <<i, "boot">>  BY <1>1, <1>5, ContainerEffect
<1> QED BY <1>1, <1>2, <1>3, <1>4, <1>5

\* The helper and a stop of the panel change no file of the operation or of the groups.
LEMMA HelperEffect ==
    ASSUME HelperSteps \/ PanelStopped
    PROVE  /\ UNCHANGED <<stackVars, groupFiles>>
           /\ UNCHANGED <<panelImage, process, memory>> \/ Forgotten
<1>1. CASE RecreatePanel \/ RecreateOld
  BY <1>1, ContainerEffect, HalfEffect DEF RecreatePanel, RecreateOld, Recreated
<1>2. CASE StopPanel \/ PanelStopped  BY <1>2, ContainerEffect DEF StopPanel, PanelStopped
<1>3. CASE BackUpDeployment \/ SelectImage \/ UpdateEnvImage \/ CheckConfig \/ WaitForPanel \/ CleanUpImages
  BY <1>3 DEF BackUpDeployment, SelectImage, UpdateEnvImage, CheckConfig, WaitForPanel, CleanUpImages, Apart, panelVars
<1>4. CASE BeginRollback \/ RestoreDatabase \/ RestoreDeployment \/ WaitForOldPanel
  BY <1>4 DEF BeginRollback, RestoreDatabase, RestoreDeployment, WaitForOldPanel, Apart, panelVars
<1> QED BY <1>1, <1>2, <1>3, <1>4 DEF HelperSteps

\* Whatever the coordinator, a request or a job does, the containers and the files of
\* the panel's own upgrade stay; but a tick may begin one.
LEMMA StackEffect ==
    ASSUME Requests140 \/ TickSteps \/ RunnerSteps \/ RecoverGroups \/ JobSteps
    PROVE  /\ PanelUp \/ Expire
           /\ UNCHANGED <<panelVars, helper, tried, ustops>>
           /\ UNCHANGED <<apply, launch>> \/ StartPanel
<1> USE DEF Quiet140, helperVars
<1>1. CASE Requests140
  BY <1>1 DEF Requests140, PrepareFullStack, Preflight, Confirm140, CancelPrepared, Expire, RequestRecovery, Ticked
<1>2. CASE TickSteps
  <2> USE DEF Waiting, Tick, WriteTick, Ticked, Pause, Elsewhere, OnTarget
  <2>1. CASE PreflightInterrupted \/ PanelGaveUp \/ PanelOnItsWay
    BY <2>1 DEF PreflightInterrupted, PanelGaveUp, PanelOnItsWay
  <2>2. CASE ResumeRecovery \/ Lapse \/ StartGroups
    BY <2>2 DEF ResumeRecovery, Lapse, StartGroups
  <2>3. CASE TargetChanged \/ StartPanel \/ PanelStarted \/ PanelRefused
    BY <2>3 DEF TargetChanged, StartPanel, PanelStarted, PanelRefused
  <2> QED BY <1>2, <2>1, <2>2, <2>3 DEF TickSteps
<1>3. CASE RunnerSteps \/ RecoverGroups
  BY <1>3 DEF RunnerSteps, RecoverGroups, NextGroup, ScopeChanged, StartGroup, MarkApplying, PollFails, Polled,
     WriteCompatibility, KeepGroup, VerifyRemaining, Remaining, FinishFailure, Coord
<1>4. CASE JobSteps  BY <1>4 DEF JobSteps, GroupEnds, GroupTells, GroupReleases, Job
<1> QED BY <1>1, <1>2, <1>3, <1>4

\* Only a request prepares an operation or lets it expire.
LEMMA RestEffect ==
    ASSUME TickSteps \/ RunnerSteps \/ RecoverGroups \/ JobSteps
    PROVE  UNCHANGED <<check, expired>>
<1>1. CASE TickSteps
  <2> USE DEF WriteTick, Ticked, Pause, stackVars
  <2>1. CASE PreflightInterrupted \/ PanelGaveUp \/ PanelOnItsWay
    BY <2>1 DEF PreflightInterrupted, PanelGaveUp, PanelOnItsWay
  <2>2. CASE ResumeRecovery \/ Lapse \/ StartGroups
    BY <2>2 DEF ResumeRecovery, Lapse, StartGroups
  <2>3. CASE TargetChanged \/ StartPanel \/ PanelStarted \/ PanelRefused
    BY <2>3 DEF TargetChanged, StartPanel, PanelStarted, PanelRefused
  <2> QED BY <1>1, <2>1, <2>2, <2>3 DEF TickSteps
<1>2. CASE RunnerSteps \/ RecoverGroups
  BY <1>2 DEF RunnerSteps, RecoverGroups, NextGroup, ScopeChanged, StartGroup, MarkApplying, PollFails, Polled,
     WriteCompatibility, KeepGroup, VerifyRemaining, Remaining, FinishFailure, Coord
<1>3. CASE JobSteps  BY <1>3 DEF JobSteps, GroupEnds, GroupTells, GroupReleases, Job, stackVars
<1> QED BY <1>1, <1>2, <1>3

\* Every step is of one of these kinds.
LEMMA Kinds140 ==
    ASSUME UpgradeNext
    PROVE  \/ Launches \/ HelperSteps \/ PanelStopped \/ PanelStarts
           \/ Requests140 \/ TickSteps \/ RunnerSteps \/ RecoverGroups \/ JobSteps
BY DEF UpgradeNext, Launches, Requests140, JobSteps

-----------------------------------------------------------------------------
(* Types                                                                   *)

LEMMA LeastOf ==
    ASSUME NEW s \in SUBSET Groups, s # {}
    PROVE  Least(s) \in s
<1>1. \E g \in s : \A h \in s : g <= h
  <2>1. CASE 1 \in s BY <2>1 DEF Groups
  <2>2. CASE 1 \notin s
    <3>1. 2 \in s /\ \A h \in s : h = 2
      <4>1. s \subseteq {1, 2}  BY DEF Groups
      <4> QED BY <2>2, <4>1
    <3> QED BY <3>1
  <2> QED BY <2>1, <2>2
<1> QED BY <1>1 DEF Least

\* The number of an operation that began a group last is that operation's.
LEMMA OwnerIs ==
    ASSUME NEW g, NEW l \in 1..Plans, Newest(l, g)
    PROVE  Owner140(g) = l
<1>1. \A n \in 1..Plans : Newest(n, g) => n = l  BY DEF Newest
<1>2. Owner140(g) = CHOOSE n \in 1..Plans : Newest(n, g)  BY DEF Owner140, Newest
<1> QED BY <1>1, <1>2

LEMMA IdleTyped == Idle \in Coordinators /\ NoStack \in Operations
<1>1. [g \in Groups |-> "prepared"] \in [Groups -> Parts]  BY DEF Parts
<1>2. 1 \in Groups /\ {} \in SUBSET Groups /\ 0 \in 0..Plans  BY UpgradeAssumption DEF Groups
<1> HIDE DEF Groups
<1>3. Idle \in Coordinators  BY <1>1, <1>2 DEF Idle, Coordinators
<1>4. NoStack \in Operations  BY <1>1, <1>2 DEF NoStack, Operations, Stages140
<1> QED BY <1>3, <1>4

\* Changing a field of the coordinator to a value of its type.
LEMMA CoordinatorTyped ==
    ASSUME NEW c \in Coordinators, NEW a \in GroupLoop \cup {"idle", "panel", "started", "refused", "verifying", "remaining", "final", "recover"},
           NEW q \in [Groups -> Parts], NEW s \in SUBSET Groups, NEW g \in Groups, NEW e \in {"failed_safe", "manual_action"}
    PROVE  /\ [c EXCEPT !.at = a] \in Coordinators /\ [c EXCEPT !.at = a, !.part = q] \in Coordinators
           /\ [c EXCEPT !.at = a, !.todo = s, !.part = q] \in Coordinators /\ [c EXCEPT !.at = a, !.todo = s] \in Coordinators
           /\ [c EXCEPT !.g = g, !.at = a] \in Coordinators /\ [c EXCEPT !.at = a, !.end = e] \in Coordinators
BY DEF Coordinators

\* Every step keeps the types.
LEMMA PanelTypedStep ==
    ASSUME PanelTyped, StackTyped, Deployed, UpgradeNext
    PROVE  PanelTyped'
<1> USE DEF Goes, Undo, HelperEnds, UndoFails, memory, Apart
<1> USE UpgradeAssumption DEF PanelTyped, panelVars, stackVars, helperVars, HelperAt
<1>1. CASE AdminApply  BY <1>1 DEF AdminApply, BeginApply, Returns, Launching
<1>2. CASE AbortBeforeHelper  BY <1>2 DEF AbortBeforeHelper, BeginApply, Returns, Launching
<1>3. CASE ApplyUnwritten  BY <1>3 DEF ApplyUnwritten, BeginApply, Returns, Launching
<1>4. CASE StartApplyHelper  BY <1>4 DEF StartApplyHelper, BeginApply, Returns, Launching
<1>5. CASE BackUpDeployment  BY <1>5 DEF BackUpDeployment
<1>6. CASE SelectImage  BY <1>6 DEF SelectImage
<1>7. CASE UpdateEnvImage  BY <1>7 DEF UpdateEnvImage, Deployed
<1>8. CASE CheckConfig  BY <1>8 DEF CheckConfig
<1>10. CASE WaitForPanel  BY <1>10 DEF WaitForPanel
<1>11. CASE CleanUpImages  BY <1>11 DEF CleanUpImages
<1>12. CASE BeginRollback  BY <1>12 DEF BeginRollback
<1>13. CASE StopPanel  BY <1>13 DEF StopPanel, Container
<1>14. CASE RestoreDatabase  BY <1>14 DEF RestoreDatabase
<1>15. CASE RestoreDeployment  BY <1>15 DEF RestoreDeployment
<1>17. CASE WaitForOldPanel  BY <1>17 DEF WaitForOldPanel
<1>18. CASE PanelStopped  BY <1>18 DEF PanelStopped, Container
<1>19. CASE RecreatePanel \/ RecreateOld
  <2> USE DEF RecreatePanel, RecreateOld, Goes, Undo, HelperEnds, UndoFails, Recreated
  <2>1. panelImage' \in {"old", "new", "alt", "none"} /\ process' \in {"up", "boot", "stopped"}
    BY <1>19, ContainerEffect, HalfEffect DEF Deployed
  <2>2. apply' = apply \/ apply' = [apply EXCEPT !.phase = "rollback_failed"]  BY <1>19
  <2>3. helper' \in HelperAt /\ env' = env /\ panelDB' = panelDB  BY <1>19
  <2> QED BY <2>1, <2>2, <2>3
<1>20. CASE PanelStarts  BY <1>20 DEF PanelStarts
<1>21. CASE Requests140 \/ TickSteps \/ RunnerSteps \/ RecoverGroups \/ JobSteps
  <2>1. apply' = apply \/ apply' = [phase |-> "active", by |-> stack.id, sel |-> "none"]
    BY <1>21, StackEffect DEF StartPanel, BeginApply
  <2>2. stack.id \in 0..Plans  BY DEF StackTyped, Operations
  <2> QED BY <1>21, <2>1, <2>2, StackEffect
<1> QED BY Kinds140, <1>1, <1>2, <1>3, <1>4, <1>5, <1>6, <1>7, <1>8, <1>10, <1>11, <1>12, <1>13, <1>14, <1>15,
           <1>17, <1>18, <1>19, <1>20, <1>21 DEF Launches, HelperSteps

LEMMA FlaggedStep ==
    ASSUME Flagged, UpgradeNext
    PROVE  Flagged'
<1> USE DEF Flagged, helperVars, stackVars, memory
<1>1. CASE Launches
  <2>1. launch' \in BOOLEAN
    BY <1>1, Zenon DEF Launches, AdminApply, AbortBeforeHelper, ApplyUnwritten, StartApplyHelper, BeginApply, Returns
  <2>2. tried' \in BOOLEAN
    BY <1>1, Zenon DEF Launches, AdminApply, AbortBeforeHelper, ApplyUnwritten, StartApplyHelper
  <2> QED BY <1>1, <2>1, <2>2, LaunchEffect
<1>2. CASE HelperSteps \/ PanelStopped
  <2>1. launch' \in BOOLEAN /\ check' \in BOOLEAN /\ expired' = expired
    BY <1>2, HelperEffect DEF Forgotten
  <2>2. tried' \in BOOLEAN
    BY <1>2, Zenon DEF HelperSteps, PanelStopped, BackUpDeployment, SelectImage, UpdateEnvImage, CheckConfig, RecreatePanel,
       WaitForPanel, CleanUpImages, BeginRollback, StopPanel, RestoreDatabase, RestoreDeployment, RecreateOld, WaitForOldPanel
  <2> QED BY <2>1, <2>2
<1>3. CASE PanelStarts  BY <1>3, Zenon DEF PanelStarts
<1>4. CASE Requests140 \/ TickSteps \/ RunnerSteps \/ RecoverGroups \/ JobSteps
  <2>1. launch' \in BOOLEAN  BY <1>4, StackEffect, Zenon DEF StartPanel, BeginApply
  <2>2. tried' = tried  BY <1>4, StackEffect
  <2>3. CASE Requests140
    BY <2>1, <2>2, <2>3, Zenon DEF Requests140, PrepareFullStack, Preflight, Confirm140, CancelPrepared, Expire, RequestRecovery,
       WriteStack, Ticked
  <2>4. CASE TickSteps \/ RunnerSteps \/ RecoverGroups \/ JobSteps
    <3>1. UNCHANGED <<check, expired>>  BY <2>4, RestEffect
    <3> QED BY <2>1, <2>2, <3>1
  <2> QED BY <1>4, <2>3, <2>4
<1> QED BY Kinds140, <1>1, <1>2, <1>3, <1>4

\* A step uses up a fault, or a stop of the panel, or neither.
LEMMA CountedStep ==
    ASSUME Counted, UpgradeNext
    PROVE  Counted'
<1>1. (ufaults' = ufaults \/ UFault) /\ (ustops' = ustops \/ PanelStopped)
  <2>1. CASE Launches
    BY <2>1 DEF Launches, AdminApply, AbortBeforeHelper, ApplyUnwritten, StartApplyHelper, BeginApply, Launching
  <2>2. CASE HelperSteps \/ PanelStopped
    <3>1. CASE BackUpDeployment \/ SelectImage \/ UpdateEnvImage \/ CheckConfig \/ RecreatePanel \/ WaitForPanel \/ CleanUpImages
      BY <3>1 DEF BackUpDeployment, SelectImage, UpdateEnvImage, CheckConfig, RecreatePanel, WaitForPanel, CleanUpImages,
         Goes, Undo, Apart
    <3>2. CASE BeginRollback \/ StopPanel \/ RestoreDatabase \/ RestoreDeployment \/ RecreateOld \/ WaitForOldPanel
      BY <3>2 DEF BeginRollback, StopPanel, RestoreDatabase, RestoreDeployment, RecreateOld, WaitForOldPanel,
         Goes, Undo, UndoFails, Apart
    <3>3. CASE PanelStopped  BY <3>3 DEF PanelStopped
    <3> QED BY <2>2, <3>1, <3>2, <3>3 DEF HelperSteps
  <2>3. CASE PanelStarts  BY <2>3 DEF PanelStarts
  <2>4. CASE Requests140
    BY <2>4, StackEffect DEF Requests140, PrepareFullStack, Preflight, Confirm140, CancelPrepared, Expire, RequestRecovery,
       WriteStack
  <2>5. CASE TickSteps
    <3> USE DEF WriteTick, Pause, WriteStack
    <3>1. CASE PreflightInterrupted \/ PanelGaveUp \/ PanelOnItsWay \/ ResumeRecovery \/ Lapse
      BY <2>5, <3>1, StackEffect DEF PreflightInterrupted, PanelGaveUp, PanelOnItsWay, ResumeRecovery, Lapse
    <3>2. CASE StartGroups \/ TargetChanged \/ StartPanel \/ PanelStarted \/ PanelRefused
      BY <2>5, <3>2, StackEffect DEF StartGroups, TargetChanged, StartPanel, PanelStarted, PanelRefused, BeginApply
    <3> QED BY <2>5, <3>1, <3>2 DEF TickSteps
  <2>6. CASE RunnerSteps \/ RecoverGroups
    <3> USE DEF Store, WriteStack, Only
    <3>1. CASE NextGroup \/ ScopeChanged \/ StartGroup \/ MarkApplying \/ PollFails \/ Polled \/ KeepGroup
      BY <2>6, <3>1, StackEffect DEF NextGroup, ScopeChanged, StartGroup, MarkApplying, PollFails, Polled, KeepGroup
    <3>2. CASE WriteCompatibility \/ VerifyRemaining \/ Remaining \/ FinishFailure \/ RecoverGroups
      BY <2>6, <3>2, StackEffect DEF WriteCompatibility, VerifyRemaining, Remaining, FinishFailure, RecoverGroups,
         Receipts, TerminalCompatibility
    <3> QED BY <2>6, <3>1, <3>2 DEF RunnerSteps
  <2>7. CASE JobSteps  BY <2>7, StackEffect DEF JobSteps, GroupEnds, GroupTells, GroupReleases
  <2> QED BY Kinds140, <2>1, <2>2, <2>3, <2>4, <2>5, <2>6, <2>7
<1>2. PanelStopped => ustops' = ustops + 1 /\ ustops < UpgradeStops /\ ufaults' = ufaults
  BY DEF PanelStopped
<1>3. UFault => ufaults' = ufaults + 1 /\ ufaults + ustops < UpgradeFaults  BY DEF UFault
<1> QED BY <1>1, <1>2, <1>3, UpgradeAssumption DEF Counted

LEMMA StackTypedStep ==
    ASSUME StackTyped, GroupsTyped, PanelTyped, Awake, UpgradeNext
    PROVE  StackTyped'
<1> USE DEF WriteStack
<1> USE DEF StackTyped
<1>0. /\ stack.id \in 0..Plans /\ stack.part \in [Groups -> Parts] /\ stack.scope \in SUBSET Groups
      /\ coord.g \in Groups /\ coord.todo \in SUBSET Groups /\ coord.part \in [Groups -> Parts]
      /\ coord.at \in GroupLoop \cup {"idle", "panel", "started", "refused", "verifying", "remaining", "final", "recover"}
      /\ coord.end \in {"none", "failed_safe", "manual_action"}
  BY DEF Operations, Coordinators
<1>s. Seen \in Operations
  <2>1. [stack EXCEPT !.pid = TRUE] \in Operations  BY DEF Operations
  <2> QED BY <2>1 DEF Seen
<1>1. CASE Launches  BY <1>0, <1>1, LaunchEffect, CoordinatorTyped DEF stackVars
<1>2. CASE HelperSteps \/ PanelStopped
  BY <1>2, HelperEffect, IdleTyped DEF Forgotten, stackVars, memory
<1>3. CASE PanelStarts  BY <1>3 DEF PanelStarts, stackVars, memory
<1>4. CASE JobSteps  BY <1>4 DEF JobSteps, GroupEnds, GroupTells, GroupReleases, Job, stackVars
<1>6. CASE Confirm140
  <2>1. stack' \in {stack, [stack EXCEPT !.phase = "waiting_panel", !.auth = TRUE]}
    BY <1>6 DEF Confirm140, Quiet140
  <2>2. coord' \in {coord}  BY <1>6 DEF Confirm140, Quiet140
  <2>3. [stack EXCEPT !.phase = "waiting_panel", !.auth = TRUE] \in Operations
    BY <1>0, <1>s DEF Operations, Stages140, FullStackTerminal
  <2> QED BY <2>1, <2>2, IdleTyped, <1>s, <2>3
<1>7. CASE CancelPrepared
  <2>1. stack' \in {stack, [stack EXCEPT !.phase = "failed_safe", !.cancelled = TRUE]}
    BY <1>7 DEF CancelPrepared, Quiet140
  <2>2. coord' \in {coord}  BY <1>7 DEF CancelPrepared, Quiet140
  <2>3. [stack EXCEPT !.phase = "failed_safe", !.cancelled = TRUE] \in Operations
    BY <1>0, <1>s DEF Operations, Stages140, FullStackTerminal
  <2> QED BY <2>1, <2>2, IdleTyped, <1>s, <2>3
<1>8. CASE Expire
  <2>1. stack' \in {stack}  BY <1>8 DEF Expire, Quiet140
  <2>2. coord' \in {coord}  BY <1>8 DEF Expire, Quiet140
  <2> QED BY <2>1, <2>2, IdleTyped, <1>s
<1>9. CASE RequestRecovery
  <2>1. stack' \in {stack, [stack EXCEPT !.phase = "recovering", !.cancelled = FALSE]}
    BY <1>9 DEF RequestRecovery, Quiet140, Ticked
  <2>2. coord' \in {coord, Idle, [Idle EXCEPT !.at = "recover", !.todo = stack.scope, !.part = stack.part]}
    BY <1>9 DEF RequestRecovery, Quiet140, Ticked
  <2>3. [stack EXCEPT !.phase = "recovering", !.cancelled = FALSE] \in Operations
    BY <1>0, <1>s DEF Operations, Stages140, FullStackTerminal
  <2>4. [Idle EXCEPT !.at = "recover", !.todo = stack.scope, !.part = stack.part] \in Coordinators
    BY <1>0, IdleTyped DEF Coordinators, GroupLoop
  <2> QED BY <2>1, <2>2, IdleTyped, <1>s, <2>3, <2>4
<1>10. CASE PreflightInterrupted
  <2>1. stack' \in {stack, [stack EXCEPT !.phase = "preflight_failed"]}
    BY <1>10 DEF PreflightInterrupted, WriteTick, Ticked, Quiet140
  <2>2. coord' \in {coord, Idle}  BY <1>10 DEF PreflightInterrupted, WriteTick, Ticked, Quiet140
  <2>3. [stack EXCEPT !.phase = "preflight_failed"] \in Operations
    BY <1>0, <1>s DEF Operations, Stages140, FullStackTerminal
  <2> QED BY <2>1, <2>2, IdleTyped, <1>s, <2>3
<1>11. CASE PanelGaveUp
  <2>1. stack' \in {stack, [Seen EXCEPT !.phase = "manual_action"], [Seen EXCEPT !.phase = "panel_failed_rolled_back"]}
    BY <1>11 DEF PanelGaveUp, WriteTick, Ticked, Quiet140
  <2>2. coord' \in {coord, Idle}  BY <1>11 DEF PanelGaveUp, WriteTick, Ticked, Quiet140
  <2>3. [Seen EXCEPT !.phase = "manual_action"] \in Operations /\ [Seen EXCEPT !.phase = "panel_failed_rolled_back"] \in Operations
    BY <1>0, <1>s DEF Operations, Stages140, FullStackTerminal
  <2> QED BY <2>1, <2>2, IdleTyped, <1>s, <2>3
<1>12. CASE PanelOnItsWay
  <2>1. stack' \in {stack, Seen}  BY <1>12 DEF PanelOnItsWay, WriteTick, Ticked, Quiet140
  <2>2. coord' \in {coord, Idle}  BY <1>12 DEF PanelOnItsWay, WriteTick, Ticked, Quiet140
  <2>3. Seen \in Operations  BY <1>0, <1>s DEF Operations, Stages140, FullStackTerminal
  <2> QED BY <2>1, <2>2, IdleTyped, <1>s, <2>3
<1>13. CASE ResumeRecovery
  <2>1. stack' \in {stack}  BY <1>13 DEF ResumeRecovery, Ticked, Quiet140
  <2>2. coord' \in {coord, [Idle EXCEPT !.at = "recover", !.todo = stack.scope, !.part = stack.part]}
    BY <1>13 DEF ResumeRecovery, Ticked, Quiet140
  <2>4. [Idle EXCEPT !.at = "recover", !.todo = stack.scope, !.part = stack.part] \in Coordinators
    BY <1>0, IdleTyped DEF Coordinators, GroupLoop
  <2> QED BY <2>1, <2>2, IdleTyped, <1>s, <2>4
<1>14. CASE Lapse
  <2>1. stack' \in {stack, [Seen EXCEPT !.phase = "scope_changed"]}
    BY <1>14 DEF Lapse, WriteTick, Ticked, Quiet140, Pause
  <2>2. coord' \in {coord, Idle}  BY <1>14 DEF Lapse, WriteTick, Ticked, Quiet140, Pause
  <2>3. [Seen EXCEPT !.phase = "scope_changed"] \in Operations
    BY <1>0, <1>s DEF Operations, Stages140, FullStackTerminal
  <2> QED BY <2>1, <2>2, IdleTyped, <1>s, <2>3
<1>15. CASE StartGroups
  <2>1. stack' \in {stack, [Seen EXCEPT !.phase = "migrating"]}
    BY <1>15 DEF StartGroups, WriteTick, Ticked, Quiet140
  <2>2. coord' \in {coord, Idle, [Idle EXCEPT !.at = "next", !.part = stack.part]}
    BY <1>15 DEF StartGroups, WriteTick, Ticked, Quiet140
  <2>3. [Seen EXCEPT !.phase = "migrating"] \in Operations
    BY <1>0, <1>s DEF Operations, Stages140, FullStackTerminal
  <2>4. [Idle EXCEPT !.at = "next", !.part = stack.part] \in Coordinators
    BY <1>0, IdleTyped DEF Coordinators, GroupLoop
  <2> QED BY <2>1, <2>2, IdleTyped, <1>s, <2>3, <2>4
<1>16. CASE TargetChanged
  <2>1. stack' \in {stack, [Seen EXCEPT !.phase = "scope_changed"]}
    BY <1>16 DEF TargetChanged, WriteTick, Ticked, Quiet140, Pause
  <2>2. coord' \in {coord, Idle}  BY <1>16 DEF TargetChanged, WriteTick, Ticked, Quiet140, Pause
  <2>3. [Seen EXCEPT !.phase = "scope_changed"] \in Operations
    BY <1>0, <1>s DEF Operations, Stages140, FullStackTerminal
  <2> QED BY <2>1, <2>2, IdleTyped, <1>s, <2>3
<1>17. CASE StartPanel
  <2>1. stack' \in {stack}  BY <1>17 DEF StartPanel, BeginApply, stackVars
  <2>2. coord' \in {coord, [Idle EXCEPT !.at = "panel"], [Idle EXCEPT !.at = "refused"]}
    BY <1>17 DEF StartPanel, BeginApply, stackVars
  <2>4. [Idle EXCEPT !.at = "panel"] \in Coordinators /\ [Idle EXCEPT !.at = "refused"] \in Coordinators
    BY <1>0, IdleTyped DEF Coordinators, GroupLoop
  <2> QED BY <2>1, <2>2, IdleTyped, <1>s, <2>4
<1>18. CASE PanelStarted
  <2>1. stack' \in {stack, [stack EXCEPT !.pid = TRUE]}
    BY <1>18 DEF PanelStarted, WriteTick, Ticked, Quiet140
  <2>2. coord' \in {coord, Idle}  BY <1>18 DEF PanelStarted, WriteTick, Ticked, Quiet140
  <2>3. [stack EXCEPT !.pid = TRUE] \in Operations
    BY <1>0, <1>s DEF Operations, Stages140, FullStackTerminal
  <2> QED BY <2>1, <2>2, IdleTyped, <1>s, <2>3
<1>19. CASE PanelRefused
  <2>1. stack' \in {stack, [Seen EXCEPT !.phase = "scope_changed"]}
    BY <1>19 DEF PanelRefused, WriteTick, Ticked, Quiet140, Pause
  <2>2. coord' \in {coord, Idle}  BY <1>19 DEF PanelRefused, WriteTick, Ticked, Quiet140, Pause
  <2>3. [Seen EXCEPT !.phase = "scope_changed"] \in Operations
    BY <1>0, <1>s DEF Operations, Stages140, FullStackTerminal
  <2> QED BY <2>1, <2>2, IdleTyped, <1>s, <2>3
<1>20. CASE ScopeChanged
  <2>1. stack' \in {stack, [stack EXCEPT !.phase = "scope_changed", !.part = coord.part]}
    BY <1>20 DEF ScopeChanged, Store, Coord
  <2>2. coord' \in {coord, Idle}  BY <1>20 DEF ScopeChanged, Store, Coord
  <2>3. [stack EXCEPT !.phase = "scope_changed", !.part = coord.part] \in Operations
    BY <1>0, <1>s DEF Operations, Stages140, FullStackTerminal
  <2> QED BY <2>1, <2>2, IdleTyped, <1>s, <2>3
<1>21. CASE StartGroup
  <2>1. stack' \in {stack}  BY <1>21 DEF StartGroup, Store, Coord, AdvanceHelper, FinishStack
  <2>2. coord' \in {coord, [coord EXCEPT !.at = "mark"], [coord EXCEPT !.at = "verifying", !.end = "failed_safe"]}
    BY <1>21 DEF StartGroup, Store, Coord, AdvanceHelper, FinishStack
  <2>4. [coord EXCEPT !.at = "mark"] \in Coordinators /\ [coord EXCEPT !.at = "verifying", !.end = "failed_safe"] \in Coordinators
    BY <1>0, IdleTyped DEF Coordinators, GroupLoop
  <2> QED BY <2>1, <2>2, IdleTyped, <1>s, <2>4
<1>22. CASE MarkApplying
  <2>0. [coord.part EXCEPT ![coord.g] = "applying"] \in [Groups -> Parts]  BY <1>0 DEF Parts
  <2>1. stack' \in {stack, [stack EXCEPT !.part = [coord.part EXCEPT ![coord.g] = "applying"]]}
    BY <1>22 DEF MarkApplying, Store, Coord, PartNow
  <2>2. coord' \in {coord, Idle, [coord EXCEPT !.at = "wait", !.part = [coord.part EXCEPT ![coord.g] = "applying"]]}
    BY <1>22 DEF MarkApplying, Store, Coord, PartNow
  <2>3. [stack EXCEPT !.part = [coord.part EXCEPT ![coord.g] = "applying"]] \in Operations
    BY <1>0, <1>s, <2>0 DEF Operations, Stages140, FullStackTerminal
  <2>4. [coord EXCEPT !.at = "wait", !.part = [coord.part EXCEPT ![coord.g] = "applying"]] \in Coordinators
    BY <1>0, IdleTyped, <2>0 DEF Coordinators, GroupLoop
  <2> QED BY <2>1, <2>2, IdleTyped, <1>s, <2>3, <2>4
<1>23. CASE PollFails
  <2>1. stack' \in {stack}  BY <1>23 DEF PollFails, Store, Coord
  <2>2. coord' \in {coord, Idle}  BY <1>23 DEF PollFails, Store, Coord
  <2> QED BY <2>1, <2>2, IdleTyped, <1>s
<1>25. CASE WriteCompatibility
  <2>1. stack' \in {stack}
    BY <1>25 DEF WriteCompatibility, Store, Coord, AdvanceHelper, FinishStack, Receipts
  <2>2. coord' \in {coord, [coord EXCEPT !.at = "keep"], [coord EXCEPT !.at = "verifying", !.end = "failed_safe"], [coord EXCEPT !.at = "final", !.end = "manual_action"]}
    BY <1>25 DEF WriteCompatibility, Store, Coord, AdvanceHelper, FinishStack, Receipts
  <2>4. [coord EXCEPT !.at = "keep"] \in Coordinators /\ [coord EXCEPT !.at = "verifying", !.end = "failed_safe"] \in Coordinators /\ [coord EXCEPT !.at = "final", !.end = "manual_action"] \in Coordinators
    BY <1>0, IdleTyped DEF Coordinators, GroupLoop
  <2> QED BY <2>1, <2>2, IdleTyped, <1>s, <2>4
<1>26. CASE KeepGroup
  <2>0. [coord.part EXCEPT ![coord.g] = "succeeded"] \in [Groups -> Parts]  BY <1>0 DEF Parts
  <2>1. stack' \in {stack, [stack EXCEPT !.part = [coord.part EXCEPT ![coord.g] = "succeeded"]]}
    BY <1>26 DEF KeepGroup, Store, Coord, PartNow
  <2>2. coord' \in {coord, Idle, [coord EXCEPT !.at = "next", !.part = [coord.part EXCEPT ![coord.g] = "succeeded"]]}
    BY <1>26 DEF KeepGroup, Store, Coord, PartNow
  <2>3. [stack EXCEPT !.part = [coord.part EXCEPT ![coord.g] = "succeeded"]] \in Operations
    BY <1>0, <1>s, <2>0 DEF Operations, Stages140, FullStackTerminal
  <2>4. [coord EXCEPT !.at = "next", !.part = [coord.part EXCEPT ![coord.g] = "succeeded"]] \in Coordinators
    BY <1>0, IdleTyped, <2>0 DEF Coordinators, GroupLoop
  <2> QED BY <2>1, <2>2, IdleTyped, <1>s, <2>3, <2>4
<1>27. CASE VerifyRemaining
  <2>1. stack' \in {stack, [stack EXCEPT !.phase = "verifying_remaining", !.part = coord.part]}
    BY <1>27 DEF VerifyRemaining, Store, Coord
  <2>2. coord' \in {coord, Idle, [coord EXCEPT !.at = "remaining", !.todo = stack.scope]}
    BY <1>27 DEF VerifyRemaining, Store, Coord
  <2>3. [stack EXCEPT !.phase = "verifying_remaining", !.part = coord.part] \in Operations
    BY <1>0, <1>s DEF Operations, Stages140, FullStackTerminal
  <2>4. [coord EXCEPT !.at = "remaining", !.todo = stack.scope] \in Coordinators
    BY <1>0, IdleTyped DEF Coordinators, GroupLoop
  <2> QED BY <2>1, <2>2, IdleTyped, <1>s, <2>3, <2>4
<1>29. CASE FinishFailure
  <2>1. stack' \in {stack, [stack EXCEPT !.phase = coord.end, !.part = coord.part]}
    BY <1>29 DEF FinishFailure, Store, Coord
  <2>2. coord' \in {coord, Idle}  BY <1>29 DEF FinishFailure, Store, Coord
  <2>3. [stack EXCEPT !.phase = coord.end, !.part = coord.part] \in Operations
    BY <1>0, <1>s DEF Operations, Stages140, FullStackTerminal
  <2> QED BY <2>1, <2>2, IdleTyped, <1>s, <2>3
<1>30. CASE PrepareFullStack
  <2> DEFINE new == [NoStack EXCEPT !.id = stack.id + 1, !.phase = "preparing", !.target = Pin, !.cont = (panelImage # "old")]
  <2>1. stack' \in {stack, new} /\ coord' = coord  BY <1>30 DEF PrepareFullStack, Quiet140
  <2>2. stack.id + 1 \in 0..Plans /\ Pin \in {"new", "alt"} /\ (panelImage # "old") \in BOOLEAN
    BY <1>0, <1>30, UpgradeAssumption DEF PrepareFullStack, Pin, PanelTyped, Awake, PanelUp
  <2>3. \A n \in 0..Plans, t \in {"new", "alt"}, b \in BOOLEAN :
           [NoStack EXCEPT !.id = n, !.phase = "preparing", !.target = t, !.cont = b] \in Operations
    BY IdleTyped DEF Operations, Stages140
  <2>4. new \in Operations  BY <2>2, <2>3
  <2> QED BY <2>1, <2>4
<1>31. CASE Preflight
  <2>1. coord' = coord /\ \/ stack' \in {stack, [stack EXCEPT !.phase = "preflight_failed"]}
                          \/ \E s \in SUBSET Groups, p \in {"succeeded", "awaiting_confirmation"} :
                                stack' = [stack EXCEPT !.phase = p, !.scope = s]
    BY <1>31 DEF Preflight, Quiet140
  <2>2. \A s \in SUBSET Groups, p \in Stages140 :
           [stack EXCEPT !.phase = p, !.scope = s] \in Operations /\ [stack EXCEPT !.phase = p] \in Operations
    BY DEF Operations
  <2> QED BY <2>1, <2>2 DEF Stages140, FullStackTerminal
<1>32. CASE NextGroup
  <2> DEFINE rest == {g \in stack.scope : coord.part[g] # "succeeded"}
  <2>1. stack' \in {stack, [stack EXCEPT !.phase = "succeeded", !.part = coord.part]}
    BY <1>32 DEF NextGroup, Store, Only
  <2>2. \/ coord' = Idle
        \/ rest # {} /\ \E a \in {"mark", "validate"} : coord' = [coord EXCEPT !.g = Least(rest), !.at = a]
    BY <1>32, Zenon DEF NextGroup, Store, Only
  <2>3. rest # {} => Least(rest) \in Groups  BY <1>0, LeastOf
  <2>4. \A g \in Groups, a \in {"mark", "validate"} : [coord EXCEPT !.g = g, !.at = a] \in Coordinators
    BY DEF Coordinators, GroupLoop
  <2>5. [stack EXCEPT !.phase = "succeeded", !.part = coord.part] \in Operations
    BY <1>0 DEF Operations, Stages140, FullStackTerminal
  <2>6. coord' \in Coordinators
    <3>1. CASE coord' = Idle  BY <3>1, IdleTyped
    <3>2. ASSUME rest # {}, NEW a \in {"mark", "validate"}, coord' = [coord EXCEPT !.g = Least(rest), !.at = a]
          PROVE  coord' \in Coordinators
      <4>1. [coord EXCEPT !.g = Least(rest), !.at = a] \in Coordinators  BY <2>3, <2>4, <3>2
      <4> QED BY <3>2, <4>1
    <3> QED BY <2>2, <3>1, <3>2
  <2> QED BY <2>1, <2>5, <2>6
<1>33. CASE Polled
  <2> DEFINE known == [coord EXCEPT !.part = [coord.part EXCEPT ![coord.g] = told[coord.g].phase]]
  <2>1. stack' = stack /\ coord' \in {[known EXCEPT !.at = "receipt"], [known EXCEPT !.at = "final", !.end = "manual_action"]}
    BY <1>33 DEF Polled, Only, PartNow
  <2>2. [coord.part EXCEPT ![coord.g] = told[coord.g].phase] \in [Groups -> Parts]
    BY <1>0 DEF GroupsTyped, Parts
  <2>3. known \in Coordinators  BY <2>2 DEF Coordinators
  <2> HIDE DEF known
  <2>4. [known EXCEPT !.at = "receipt"] \in Coordinators
        /\ [known EXCEPT !.at = "final", !.end = "manual_action"] \in Coordinators
    BY <2>3 DEF Coordinators, GroupLoop
  <2> QED BY <2>1, <2>4
<1>d. ASSUME NEW goal \in {"remaining", "recover"}, coord.todo # {}, Done140(goal) PROVE coord' \in Coordinators
  <2>1. Least(coord.todo) \in Groups /\ coord.todo \ {Least(coord.todo)} \in SUBSET Groups
    BY <1>0, <1>d, LeastOf
  <2>2. PartProven(Least(coord.todo)) \in Parts  BY DEF PartProven, Parts
  <2>3. [coord.part EXCEPT ![Least(coord.todo)] = PartProven(Least(coord.todo))] \in [Groups -> Parts]
    BY <1>0, <2>1, <2>2
  <2>4. coord' = [coord EXCEPT !.todo = coord.todo \ {Least(coord.todo)}, !.at = goal,
                               !.part = [coord.part EXCEPT ![Least(coord.todo)] = PartProven(Least(coord.todo))]]
    BY <1>d, Zenon DEF Done140
  <2> QED BY <2>1, <2>3, <2>4 DEF Coordinators, GroupLoop
<1>e. FinishStack("manual_action") => coord' \in Coordinators
  <2>1. [coord EXCEPT !.at = "final", !.end = "manual_action"] \in Coordinators
    BY DEF Coordinators
  <2> QED BY <2>1 DEF FinishStack
<1>34. CASE Remaining
  <2>1. [coord EXCEPT !.at = "final"] \in Coordinators  BY DEF Coordinators
  <2>2. stack' = stack  BY <1>34 DEF Remaining
  <2>3. coord' \in Coordinators
    BY <1>34, <1>d, <1>e, <2>1 DEF Remaining, AdvanceHelper, TerminalCompatibility, Receipts
  <2> QED BY <2>2, <2>3
<1>35. CASE RecoverGroups
  <2>1. \A p \in {"succeeded", "failed_safe"} : [stack EXCEPT !.part = coord.part, !.phase = p] \in Operations
    BY <1>0 DEF Operations, Stages140, FullStackTerminal
  <2>2. stack' = stack \/ \E p \in {"succeeded", "failed_safe"} : stack' = [stack EXCEPT !.part = coord.part, !.phase = p]
    BY <1>35 DEF RecoverGroups, Store
  <2>3. coord' \in Coordinators
    BY <1>35, <1>d, <1>e, IdleTyped DEF RecoverGroups, TerminalCompatibility, Receipts, Store
  <2> QED BY <2>1, <2>2, <2>3
<1> QED BY Kinds140, <1>1, <1>2, <1>3, <1>4, <1>6, <1>7, <1>8, <1>9, <1>10, <1>11, <1>12, <1>13, <1>14, <1>15, <1>16, <1>17, <1>18, <1>19, <1>20, <1>21, <1>22, <1>23, <1>25, <1>26, <1>27, <1>29, <1>30, <1>31, <1>32, <1>33, <1>34, <1>35 DEF Requests140, TickSteps, RunnerSteps

-----------------------------------------------------------------------------
(* The groups                                                              *)

\* What a recovery of some groups leaves of their files.
LotBack(lot) ==
    \A n \in 1..Plans, g \in Groups :
       \/ txn140'[n][g] = txn140[n][g]
       \/ leased[g] /\ g \in lot /\ txn140[n][g] = "open" /\ txn140'[n][g] = "rolled_back"
Retold(lot) ==
    \A g \in Groups :
       \/ told'[g] = told[g]
       \/ leased[g] /\ g \in lot /\ \E n \in 1..Plans : Newest(n, g) /\ told'[g].by = n
             /\ (told'[g].phase = "succeeded" => txn140'[n][g] = "committed")
Freed(lot) == \A g \in Groups : (leased'[g] => leased[g]) /\ (leased[g] => leased'[g] \/ g \in lot)

\* A recovery rolls back what is open of the newest operation that began a group, and
\* tells how that operation ended; it touches no group without leases.
LEMMA RecoverEffect ==
    ASSUME GroupsTyped, Grouped, NEW lot \in SUBSET Groups, NEW broken \in SUBSET Groups, Recover140(lot, broken),
           broken \subseteq lot, \A g \in broken : leased[g]
    PROVE  /\ txn140' \in [1..Plans -> [Groups -> {"none", "open", "committed", "rolled_back", "claim_failed"}]]
           /\ told' \in [Groups -> [by : 0..Plans, phase : {"none", "active", "succeeded", "failed_rolled_back", "rollback_failed"}]]
           /\ leased' \in [Groups -> BOOLEAN]
           /\ LotBack(lot) /\ Retold(lot) /\ Freed(lot)
<1> DEFINE freed == {g \in lot : leased[g]} \ broken
           begun == {g \in Groups : \E n \in 1..Plans : txn140[n][g] # "none"}
           ended == freed \cap begun
           After(g) == IF Ended140(txn140[Owner140(g)][g]) THEN txn140[Owner140(g)][g] ELSE "rolled_back"
<1>1. /\ txn140' = [n \in 1..Plans |-> [g \in Groups |->
                       IF g \in ended /\ n = Owner140(g) THEN After(g) ELSE txn140[n][g]]]
      /\ told' = [g \in Groups |->
                    IF g \in ended THEN [by |-> Owner140(g), phase |-> Outcome140(After(g))]
                    ELSE IF g \in broken \cap begun THEN [by |-> Owner140(g), phase |-> "rollback_failed"] ELSE told[g]]
      /\ leased' = [g \in Groups |-> leased[g] /\ g \notin freed]
  BY Zenon DEF Recover140
<1>2. \A g \in begun : Owner140(g) \in 1..Plans /\ Newest(Owner140(g), g)
  <2> SUFFICES ASSUME NEW g \in begun PROVE Owner140(g) \in 1..Plans /\ Newest(Owner140(g), g)
    OBVIOUS
  <2>1. PICK l \in 1..Plans : Newest(l, g)  BY DEF Grouped
  <2> QED BY <2>1, OwnerIs
<1>3. \A g \in begun : /\ After(g) \in {"committed", "rolled_back", "claim_failed"}
                       /\ \/ After(g) = txn140[Owner140(g)][g]
                          \/ txn140[Owner140(g)][g] = "open" /\ After(g) = "rolled_back"
  <2> SUFFICES ASSUME NEW g \in begun
               PROVE  /\ After(g) \in {"committed", "rolled_back", "claim_failed"}
                      /\ \/ After(g) = txn140[Owner140(g)][g]
                         \/ txn140[Owner140(g)][g] = "open" /\ After(g) = "rolled_back"
    OBVIOUS
  <2>1. txn140[Owner140(g)][g] \in {"open", "committed", "rolled_back", "claim_failed"}
    BY <1>2 DEF Newest, GroupsTyped
  <2> QED BY <2>1 DEF Ended140
<1>4. freed \subseteq lot /\ ended \subseteq begun /\ ended \subseteq lot /\ begun \subseteq Groups /\ \A g \in ended : leased[g]
  OBVIOUS
<1>5. \A g \in begun : Outcome140(After(g)) \in {"succeeded", "failed_rolled_back"}
                       /\ (Outcome140(After(g)) = "succeeded" => After(g) = "committed")
  BY DEF Outcome140
<1> HIDE DEF freed, begun, ended, After
<1>6. txn140' \in [1..Plans -> [Groups -> {"none", "open", "committed", "rolled_back", "claim_failed"}]]
  BY <1>1, <1>3, <1>4 DEF GroupsTyped
<1>7. \A g \in Groups : told'[g] \in [by : 0..Plans, phase : {"none", "active", "succeeded", "failed_rolled_back", "rollback_failed"}]
  BY <1>1, <1>2, <1>4, <1>5 DEF GroupsTyped
<1>8. leased' \in [Groups -> BOOLEAN] /\ \A g \in Groups : (leased'[g] => leased[g]) /\ (leased[g] => leased'[g] \/ g \in freed)
  BY <1>1, Zenon DEF GroupsTyped
<1>9. \A n \in 1..Plans, g \in Groups :
         \/ txn140'[n][g] = txn140[n][g]
         \/ leased[g] /\ g \in lot /\ txn140[n][g] = "open" /\ txn140'[n][g] = "rolled_back"
  BY <1>1, <1>3, <1>4
<1>10. \A g \in ended : txn140'[Owner140(g)][g] = After(g)  BY <1>1, <1>2, <1>4
<1>11. \A g \in Groups :
         \/ told'[g] = told[g]
         \/ leased[g] /\ g \in lot /\ \E n \in 1..Plans : Newest(n, g) /\ told'[g].by = n
                    /\ (told'[g].phase = "succeeded" => txn140'[n][g] = "committed")
  <2> SUFFICES ASSUME NEW g \in Groups, told'[g] # told[g]
               PROVE  leased[g] /\ g \in lot /\ \E n \in 1..Plans : Newest(n, g) /\ told'[g].by = n
                    /\ (told'[g].phase = "succeeded" => txn140'[n][g] = "committed")
    OBVIOUS
  <2>1. g \in ended \/ g \in broken \cap begun  BY <1>1
  <2>2. told'[g].by = Owner140(g) /\ (told'[g].phase = "succeeded" => g \in ended /\ Outcome140(After(g)) = "succeeded")
    BY <1>1, <2>1
  <2> QED BY <1>2, <1>4, <1>5, <1>10, <2>1, <2>2
<1>12. told' = [g \in Groups |-> told'[g]]  BY <1>1
<1>13. LotBack(lot) /\ Retold(lot) /\ Freed(lot)
  BY <1>4, <1>8, <1>9, <1>11 DEF LotBack, Retold, Freed
<1> QED BY <1>6, <1>7, <1>8, <1>12, <1>13

\* The files of the groups change when the panel starts, when a group is started or
\* recovered, and by its job; the receipts by the coordinator alone.
LEMMA FilesEffect ==
    ASSUME UpgradeNext
    PROVE  /\ PanelStarts \/ StartGroup \/ RecoverGroups \/ JobSteps \/ UNCHANGED groupFiles
           /\ WriteCompatibility \/ Remaining \/ RecoverGroups \/ UNCHANGED receipt
           /\ StartGroup \/ JobSteps \/ UNCHANGED job140 \/ Forgotten
           /\ PanelStarts => UNCHANGED <<stackVars, memory>>
<1>0. PanelStarts => UNCHANGED <<stackVars, memory>>  BY DEF PanelStarts
<1>1. CASE Launches  BY <1>0, <1>1, LaunchEffect DEF stackVars, PanelStarts, PanelUp
<1>2. CASE HelperSteps \/ PanelStopped  BY <1>0, <1>2, HelperEffect DEF stackVars, memory
<1>3. CASE PanelStarts  BY <1>0, <1>3 DEF stackVars, memory
<1>4. CASE Requests140
  BY <1>0, <1>4 DEF Requests140, PrepareFullStack, Preflight, Confirm140, CancelPrepared, Expire, RequestRecovery, Quiet140, Ticked
<1>5. CASE TickSteps
  <2> USE DEF WriteTick, Ticked, Pause, Quiet140, stackVars
  <2>1. CASE PreflightInterrupted \/ PanelGaveUp \/ PanelOnItsWay \/ ResumeRecovery \/ Lapse
    BY <1>0, <2>1 DEF PreflightInterrupted, PanelGaveUp, PanelOnItsWay, ResumeRecovery, Lapse
  <2>2. CASE StartGroups \/ TargetChanged \/ StartPanel \/ PanelStarted \/ PanelRefused
    BY <1>0, <2>2 DEF StartGroups, TargetChanged, StartPanel, PanelStarted, PanelRefused
  <2> QED BY <1>5, <2>1, <2>2 DEF TickSteps
<1>6. CASE RunnerSteps
  <2> USE DEF Store, Only
  <2>1. CASE NextGroup \/ ScopeChanged \/ MarkApplying \/ PollFails \/ Polled \/ KeepGroup
    BY <1>0, <2>1 DEF NextGroup, ScopeChanged, MarkApplying, PollFails, Polled, KeepGroup
  <2>2. CASE StartGroup \/ WriteCompatibility \/ VerifyRemaining \/ Remaining \/ FinishFailure
    BY <1>0, <2>2 DEF StartGroup, WriteCompatibility, VerifyRemaining, Remaining, FinishFailure
  <2> QED BY <1>6, <2>1, <2>2 DEF RunnerSteps
<1>7. CASE RecoverGroups  BY <1>0, <1>7 DEF RecoverGroups, Store
<1>8. CASE JobSteps
  BY <1>0, <1>8 DEF JobSteps, GroupEnds, GroupTells, GroupReleases, Job, stackVars
<1> QED BY Kinds140, <1>1, <1>2, <1>3, <1>4, <1>5, <1>6, <1>7, <1>8

\* What a group is started as.
LEMMA StartEffect ==
    ASSUME StartGroup
    PROVE  /\ ~leased[coord.g] /\ coord.at = "validate" /\ UNCHANGED <<stack, receipt, panelImage, apply>>
           /\ \/ txn140' = txn140
              \/ Phase(coord.g) = "none" /\ \E p \in {"none", "open", "claim_failed"} : txn140' = [txn140 EXCEPT ![stack.id][coord.g] = p]
           /\ \/ told' = told
              \/ \E p \in {"active", "failed_rolled_back"} : told' = [told EXCEPT ![coord.g] = [by |-> stack.id, phase |-> p]]
           /\ leased' \in {leased, [leased EXCEPT ![coord.g] = TRUE]}
           /\ \/ /\ Phase(coord.g) = "none" /\ txn140' = [txn140 EXCEPT ![stack.id][coord.g] = "open"]
                 /\ told' = [told EXCEPT ![coord.g] = [by |-> stack.id, phase |-> "active"]]
                 /\ leased' = [leased EXCEPT ![coord.g] = TRUE] /\ job140' = [job140 EXCEPT ![coord.g] = "run"]
                 /\ coord' = [coord EXCEPT !.at = "mark"]
              \/ coord' = [coord EXCEPT !.at = "verifying", !.end = "failed_safe"] /\ UNCHANGED job140
<1>1. ~leased[coord.g] /\ coord.at = "validate" /\ UNCHANGED <<stack, receipt, panelImage, apply>>
  BY DEF StartGroup, Coord, panelVars, helperVars
<1> DEFINE ToldAs(p) == [told EXCEPT ![coord.g] = [by |-> stack.id, phase |-> p]]
           Begun  == /\ Phase(coord.g) = "none"
                     /\ txn140' = [txn140 EXCEPT ![stack.id][coord.g] = "open"] /\ told' = ToldAs("active")
                     /\ leased' = [leased EXCEPT ![coord.g] = TRUE] /\ job140' = [job140 EXCEPT ![coord.g] = "run"]
                     /\ AdvanceHelper("mark") /\ UNCHANGED ufaults
           Failed == /\ Phase(coord.g) = "none" /\ UFault
                     /\ \E phase \in {"none", "open", "claim_failed"} :
                           /\ txn140' = [txn140 EXCEPT ![stack.id][coord.g] = phase]
                           /\ \/ told' = told
                              \/ phase # "none" /\ told' = ToldAs("active")
                              \/ phase # "open" /\ told' = ToldAs("failed_rolled_back")
                     /\ leased' \in {leased, [leased EXCEPT ![coord.g] = TRUE]}
                     /\ FinishStack("failed_safe") /\ UNCHANGED job140
<1>2. Begun \/ Failed \/ (FinishStack("failed_safe") /\ UNCHANGED <<groupFiles, job140>>)
  BY Zenon DEF StartGroup
<1>3. ASSUME Begun PROVE txn140' = [txn140 EXCEPT ![stack.id][coord.g] = "open"] /\ coord' = [coord EXCEPT !.at = "mark"]
                         /\ leased' \in {leased, [leased EXCEPT ![coord.g] = TRUE]}
  BY <1>3, Zenon DEF AdvanceHelper
<1>4. FinishStack("failed_safe") => coord' = [coord EXCEPT !.at = "verifying", !.end = "failed_safe"]
  BY DEF FinishStack
<1>5. ASSUME Failed
      PROVE  /\ Phase(coord.g) = "none" /\ \E p \in {"none", "open", "claim_failed"} : txn140' = [txn140 EXCEPT ![stack.id][coord.g] = p]
             /\ told' = told \/ \E p \in {"active", "failed_rolled_back"} : told' = ToldAs(p)
             /\ leased' \in {leased, [leased EXCEPT ![coord.g] = TRUE]} /\ UNCHANGED job140
             /\ coord' = [coord EXCEPT !.at = "verifying", !.end = "failed_safe"]
  <2>1. told' = told \/ told' = ToldAs("active") \/ told' = ToldAs("failed_rolled_back")
    BY <1>5, Zenon
  <2>2. told' = told \/ \E p \in {"active", "failed_rolled_back"} : told' = ToldAs(p)  BY <2>1
  <2> HIDE DEF ToldAs
  <2> QED BY <1>4, <1>5, <2>2, Zenon
<1>6. CASE Begun  BY <1>1, <1>3, <1>6
<1>7. CASE Failed
  <2> HIDE DEF Failed, Begun
  <2> QED BY <1>1, <1>5, <1>7
<1>8. CASE FinishStack("failed_safe") /\ UNCHANGED <<groupFiles, job140>>
  BY <1>1, <1>4, <1>8 DEF groupFiles
<1> QED BY <1>2, <1>6, <1>7, <1>8

\* Every step keeps the types of the groups.
LEMMA GroupsTypedStep ==
    ASSUME GroupsTyped, Grouped, StackTyped, Consented, UpgradeNext
    PROVE  GroupsTyped'
<1> USE DEF GroupsTyped
<1>0. stack.id \in 0..Plans /\ coord.g \in Groups /\ coord.todo \in SUBSET Groups
  BY DEF StackTyped, Operations, Coordinators
<1>1. txn140' \in [1..Plans -> [Groups -> {"none", "open", "committed", "rolled_back", "claim_failed"}]]
      /\ told' \in [Groups -> [by : 0..Plans, phase : {"none", "active", "succeeded", "failed_rolled_back", "rollback_failed"}]]
      /\ leased' \in [Groups -> BOOLEAN]
  <2>1. CASE UNCHANGED groupFiles  BY <2>1 DEF groupFiles
  <2>2. CASE PanelStarts
    <3>1. PICK broken \in SUBSET Groups : (\A g \in broken : leased[g]) /\ Recover140(Groups, broken)
      <4>1. ASSUME NEW g \in Groups, leased[g], Recover140(Groups, {g})
            PROVE  \E broken \in SUBSET Groups : (\A h \in broken : leased[h]) /\ Recover140(Groups, broken)
        <5>1. {g} \in SUBSET Groups /\ \A h \in {g} : leased[h]  BY <4>1
        <5> QED BY <4>1, <5>1
      <4>2. {} \in SUBSET Groups /\ \A h \in {} : leased[h]  OBVIOUS
      <4> QED BY <2>2, <4>1, <4>2 DEF PanelStarts
    <3> HIDE DEF GroupsTyped
    <3> QED BY <3>1, RecoverEffect
  <2>3. CASE StartGroup
    <3>1. ASSUME NEW p \in {"none", "open", "claim_failed"}, txn140' = [txn140 EXCEPT ![stack.id][coord.g] = p]
          PROVE  txn140' \in [1..Plans -> [Groups -> {"none", "open", "committed", "rolled_back", "claim_failed"}]]
      BY <1>0, <3>1
    <3>2. txn140' \in [1..Plans -> [Groups -> {"none", "open", "committed", "rolled_back", "claim_failed"}]]
      BY <2>3, <3>1, StartEffect
    <3>3. ASSUME NEW p \in {"active", "failed_rolled_back"}, told' = [told EXCEPT ![coord.g] = [by |-> stack.id, phase |-> p]]
          PROVE  told' \in [Groups -> [by : 0..Plans, phase : {"none", "active", "succeeded", "failed_rolled_back", "rollback_failed"}]]
      <4>1. [by |-> stack.id, phase |-> p]
              \in [by : 0..Plans, phase : {"none", "active", "succeeded", "failed_rolled_back", "rollback_failed"}]
        BY <1>0
      <4> QED BY <1>0, <3>3, <4>1
    <3>4. told' \in [Groups -> [by : 0..Plans, phase : {"none", "active", "succeeded", "failed_rolled_back", "rollback_failed"}]]
      BY <2>3, <3>3, StartEffect
    <3>5. leased' \in [Groups -> BOOLEAN]  BY <2>3, StartEffect, Zenon
    <3> QED BY <3>2, <3>4, <3>5
  <2>4. CASE RecoverGroups
    <3>1. \/ UNCHANGED groupFiles
          \/ coord.todo # {} /\ Recover140({Least(coord.todo)}, {})
      BY <2>4 DEF RecoverGroups, Store
    <3>2. coord.todo # {} => Least(coord.todo) \in Groups  BY <1>0, LeastOf
    <3>3. ASSUME coord.todo # {}, Recover140({Least(coord.todo)}, {})
          PROVE  /\ txn140' \in [1..Plans -> [Groups -> {"none", "open", "committed", "rolled_back", "claim_failed"}]]
                 /\ told' \in [Groups -> [by : 0..Plans, phase : {"none", "active", "succeeded", "failed_rolled_back", "rollback_failed"}]]
                 /\ leased' \in [Groups -> BOOLEAN]
      <4>1. {Least(coord.todo)} \in SUBSET Groups /\ {} \in SUBSET Groups /\ {} \subseteq {Least(coord.todo)} /\ \A g \in {} : leased[g]
        BY <3>2, <3>3
      <4> HIDE DEF GroupsTyped
      <4> QED BY <3>3, <4>1, RecoverEffect
    <3> QED BY <2>1, <3>1, <3>3
  <2>5. CASE JobSteps
    <3>1. PICK g \in Groups : GroupEnds(g) \/ GroupTells(g) \/ GroupReleases(g)
      BY <2>5 DEF JobSteps
    <3>2. txn140' = txn140 \/ \E p \in {"committed", "rolled_back"} : txn140' = [txn140 EXCEPT ![Owner140(g)][g] = p]
      BY <3>1 DEF GroupEnds, GroupTells, GroupReleases
    <3>3. told' = told \/ \E p \in {"succeeded", "failed_rolled_back", "rollback_failed"} : told' = [told EXCEPT ![g].phase = p]
      BY <3>1 DEF GroupEnds, GroupTells, GroupReleases, Outcome140
    <3>4. leased' = leased \/ leased' = [leased EXCEPT ![g] = FALSE]
      BY <3>1 DEF GroupEnds, GroupTells, GroupReleases
    <3>5. txn140' \in [1..Plans -> [Groups -> {"none", "open", "committed", "rolled_back", "claim_failed"}]]
      <4>1. ASSUME NEW p \in {"committed", "rolled_back"}, txn140' = [txn140 EXCEPT ![Owner140(g)][g] = p]
            PROVE  txn140' \in [1..Plans -> [Groups -> {"none", "open", "committed", "rolled_back", "claim_failed"}]]
        BY <4>1
      <4> QED BY <3>2, <4>1
    <3>6. told' \in [Groups -> [by : 0..Plans, phase : {"none", "active", "succeeded", "failed_rolled_back", "rollback_failed"}]]
      <4>1. ASSUME NEW p \in {"succeeded", "failed_rolled_back", "rollback_failed"}, told' = [told EXCEPT ![g].phase = p]
            PROVE  told' \in [Groups -> [by : 0..Plans, phase : {"none", "active", "succeeded", "failed_rolled_back", "rollback_failed"}]]
        BY <4>1
      <4> QED BY <3>3, <4>1
    <3>7. leased' \in [Groups -> BOOLEAN]  BY <3>4, Zenon
    <3> QED BY <3>5, <3>6, <3>7
  <2> QED BY FilesEffect, <2>1, <2>2, <2>3, <2>4, <2>5
<1>2. job140' \in [Groups -> {"off", "run", "publish", "release"}]
  <2>1. CASE StartGroup  BY <1>0, <2>1, StartEffect
  <2>2. CASE JobSteps  BY <2>2 DEF JobSteps, GroupEnds, GroupTells, GroupReleases, Moves
  <2> QED BY FilesEffect, <2>1, <2>2 DEF Forgotten
<1>3. receipt' \in [Groups -> [by : 0..Plans, outcome : {"none", "committed", "rolled_back", "untouched"}]]
  <2>1. \A g \in Groups, o \in {"committed", "rolled_back", "untouched"} :
           [receipt EXCEPT ![g] = [by |-> stack.id, outcome |-> o]]
              \in [Groups -> [by : 0..Plans, outcome : {"none", "committed", "rolled_back", "untouched"}]]
    BY <1>0
  <2>2. receipt' = receipt \/ \E g \in Groups, o \in {"committed", "rolled_back", "untouched"} :
                                 receipt' = [receipt EXCEPT ![g] = [by |-> stack.id, outcome |-> o]]
    <3>1. CASE WriteCompatibility  BY <1>0, <3>1 DEF WriteCompatibility, Receipts
    <3>2. CASE Remaining  BY <1>0, <3>2, LeastOf DEF Remaining, TerminalCompatibility, Receipts
    <3>3. CASE RecoverGroups
      BY <1>0, <3>3, LeastOf DEF RecoverGroups, TerminalCompatibility, Receipts, Store
    <3> QED BY FilesEffect, <3>1, <3>2, <3>3
  <2>3. ASSUME NEW g \in Groups, NEW o \in {"committed", "rolled_back", "untouched"},
               receipt' = [receipt EXCEPT ![g] = [by |-> stack.id, outcome |-> o]]
        PROVE  receipt' \in [Groups -> [by : 0..Plans, outcome : {"none", "committed", "rolled_back", "untouched"}]]
    BY <2>1, <2>3
  <2> QED BY <2>2, <2>3
<1> QED BY <1>1, <1>2, <1>3

-----------------------------------------------------------------------------
(* The panel and its helper                                                *)

\* What an active apply needs stays where neither the containers nor the apply change.
LEMMA AwakeKept ==
    ASSUME Awake, UNCHANGED <<panelImage, process, apply, helper>>, launch' = launch \/ ~launch', PanelUp \/ UNCHANGED memory
    PROVE  Awake'
<1>1. PanelUp' = PanelUp /\ ActiveApply' = ActiveApply  BY DEF PanelUp, ActiveApply
<1>2. CASE PanelUp  BY <1>1, <1>2 DEF Awake
<1>3. CASE UNCHANGED memory  BY <1>1, <1>3 DEF Awake, memory
<1> QED BY <1>2, <1>3

LEMMA AwakeStep ==
    ASSUME UpgradeTyped, Awake, Deployed, UpgradeNext
    PROVE  Awake'
<1>1. CASE Launches
  <2>1. PanelUp /\ UNCHANGED panelVars  BY <1>1, LaunchEffect
  <2>2. CASE AdminApply
    BY <2>1, <2>2 DEF AdminApply, BeginApply, Awake, ActiveApply, PanelUp, panelVars
  <2>3. CASE AbortBeforeHelper \/ ApplyUnwritten \/ StartApplyHelper
    <3>1. launch /\ ~launch'
      BY <2>3 DEF AbortBeforeHelper, ApplyUnwritten, StartApplyHelper, Returns
    <3>2. helper' # "off" => apply' = apply
      BY <2>3, <3>1 DEF AbortBeforeHelper, ApplyUnwritten, StartApplyHelper, Awake, helperVars
    <3> QED BY <2>1, <3>1, <3>2 DEF Awake, ActiveApply, PanelUp, panelVars
  <2> QED BY <1>1, <2>2, <2>3 DEF Launches
<1>2. CASE HelperSteps
  <2>1. helper # "off"
    BY <1>2 DEF HelperSteps, BackUpDeployment, SelectImage, UpdateEnvImage, CheckConfig, RecreatePanel, WaitForPanel, CleanUpImages,
       BeginRollback, StopPanel, RestoreDatabase, RestoreDeployment, RecreateOld, WaitForOldPanel
  <2>2. ActiveApply /\ ~launch  BY <2>1 DEF Awake
  <2>3. helper' # "off" => ActiveApply'
    <3>1. helper' = "off" \/ apply' = apply \/ \E i \in {"new", "alt"} : apply' = [apply EXCEPT !.sel = i]
      <4> USE DEF Goes, Undo, HelperEnds, UndoFails
      <4>1. CASE BackUpDeployment \/ SelectImage \/ UpdateEnvImage \/ CheckConfig \/ RecreatePanel
        BY <4>1 DEF BackUpDeployment, SelectImage, UpdateEnvImage, CheckConfig, RecreatePanel
      <4>2. CASE WaitForPanel \/ CleanUpImages \/ BeginRollback \/ StopPanel
        BY <4>2 DEF WaitForPanel, CleanUpImages, BeginRollback, StopPanel
      <4>3. CASE RestoreDatabase \/ RestoreDeployment \/ RecreateOld \/ WaitForOldPanel
        BY <4>3 DEF RestoreDatabase, RestoreDeployment, RecreateOld, WaitForOldPanel
      <4> QED BY <1>2, <4>1, <4>2, <4>3 DEF HelperSteps
    <3> QED BY <2>2, <3>1 DEF ActiveApply, UpgradeTyped, PanelTyped
  <2>4. panelImage' = "none" => process' = "stopped"
    <3>1. CASE RecreatePanel \/ RecreateOld
      BY <3>1, ContainerEffect, HalfEffect DEF RecreatePanel, RecreateOld, Recreated, Awake, Deployed
    <3>2. CASE StopPanel  BY <3>2, ContainerEffect DEF StopPanel, Awake
    <3>3. CASE UNCHANGED panelVars  BY <3>3 DEF panelVars, Awake
    <3>4. CASE UpdateEnvImage \/ RestoreDatabase \/ RestoreDeployment
      BY <3>4 DEF UpdateEnvImage, RestoreDatabase, RestoreDeployment, Awake
    <3> QED BY <1>2, <3>1, <3>2, <3>3, <3>4 DEF HelperSteps, BackUpDeployment, SelectImage, CheckConfig, WaitForPanel,
               CleanUpImages, BeginRollback, WaitForOldPanel
  <2>5. launch' \/ check' \/ coord'.at # "idle" \/ (\E g \in Groups : job140'[g] # "off") => process' = "up"
    <3>1. UNCHANGED <<process, memory>> \/ Forgotten  BY <1>2, HelperEffect
    <3> QED BY <3>1 DEF Forgotten, Idle, Awake, PanelUp, memory
  <2>6. ~launch'  BY <1>2, <2>2, HelperEffect DEF Forgotten, memory
  <2> QED BY <2>3, <2>4, <2>5, <2>6 DEF Awake, PanelUp
<1>3. CASE PanelStopped
  <2>1. panelImage' = panelImage /\ process' = "boot" /\ Forgotten /\ UNCHANGED helperVars /\ PanelUp
    BY <1>3, ContainerEffect DEF PanelStopped, PanelUp
  <2>2. ~launch' /\ ~check' /\ coord'.at = "idle" /\ \A g \in Groups : job140'[g] = "off"
    BY <2>1 DEF Forgotten, Idle
  <2> QED BY <2>1, <2>2 DEF Awake, PanelUp, ActiveApply, helperVars
<1>4. CASE PanelStarts  BY <1>4 DEF PanelStarts, Awake, PanelUp, ActiveApply, helperVars, memory
<1>5. CASE Expire
  BY <1>5, StackEffect, AwakeKept DEF Expire, Quiet140, panelVars, helperVars, memory, Requests140
<1>6. CASE StartPanel
  BY <1>6 DEF StartPanel, Elsewhere, Waiting, Tick, BeginApply, Awake, PanelUp, ActiveApply, panelVars
<1>7. ASSUME Requests140 \/ TickSteps \/ RunnerSteps \/ RecoverGroups \/ JobSteps, ~Expire, ~StartPanel PROVE Awake'
  BY <1>7, StackEffect, AwakeKept DEF panelVars
<1> QED BY Kinds140, <1>1, <1>2, <1>3, <1>4, <1>5, <1>6, <1>7

LEMMA DeployedStep ==
    ASSUME UpgradeTyped, Awake, Deployed, PanelReportTrue, UpgradeNext
    PROVE  Deployed' /\ PanelReportTrue'
<1> USE DEF Deployed, PanelReportTrue, PanelUp
<1> USE DEF UpgradeTyped, PanelTyped, HelperAt
<1>1. CASE UNCHANGED <<panelVars, helperVars>>  BY <1>1 DEF panelVars, helperVars
<1>2. CASE Launches
  <2>1. UNCHANGED panelVars  BY <1>2, LaunchEffect
  <2>2. CASE AdminApply  BY <2>1, <2>2 DEF AdminApply, BeginApply, panelVars, Awake, ActiveApply
  <2>3. CASE AbortBeforeHelper \/ ApplyUnwritten
    BY <2>1, <2>3 DEF AbortBeforeHelper, ApplyUnwritten, panelVars, helperVars, Awake, ActiveApply
  <2>4. CASE StartApplyHelper  BY <2>1, <2>4 DEF StartApplyHelper, panelVars, Awake, ActiveApply
  <2> QED BY <1>2, <2>2, <2>3, <2>4 DEF Launches
<1>3. CASE HelperSteps
  <2> USE DEF Goes, Undo, HelperEnds, UndoFails, panelVars, PanelUp, Awake, ActiveApply
  <2>1. CASE BackUpDeployment \/ SelectImage  BY <2>1 DEF BackUpDeployment, SelectImage
  <2>2. CASE UpdateEnvImage  BY <2>2 DEF UpdateEnvImage
  <2>3. CASE CheckConfig  BY <2>3 DEF CheckConfig
  <2>4. CASE RecreatePanel  BY <2>4, ContainerEffect, HalfEffect DEF RecreatePanel, Recreated
  <2>5. CASE WaitForPanel  BY <2>5 DEF WaitForPanel
  <2>6. CASE CleanUpImages  BY <2>6 DEF CleanUpImages
  <2>7. CASE BeginRollback  BY <2>7 DEF BeginRollback
  <2>8. CASE StopPanel  BY <2>8, ContainerEffect DEF StopPanel
  <2>9. CASE RestoreDatabase  BY <2>9 DEF RestoreDatabase
  <2>10. CASE RestoreDeployment  BY <2>10 DEF RestoreDeployment
  <2>11. CASE RecreateOld  BY <2>11, ContainerEffect, HalfEffect DEF RecreateOld, Recreated
  <2>12. CASE WaitForOldPanel  BY <2>12 DEF WaitForOldPanel
  <2> QED BY <1>3, <2>1, <2>2, <2>3, <2>4, <2>5, <2>6, <2>7, <2>8, <2>9, <2>10, <2>11, <2>12 DEF HelperSteps
<1>4. CASE PanelStopped  BY <1>4, ContainerEffect DEF PanelStopped, helperVars, panelVars
<1>5. CASE PanelStarts  BY <1>5 DEF PanelStarts, helperVars
<1>6. CASE StartPanel  BY <1>6 DEF StartPanel, BeginApply, panelVars, Awake, ActiveApply
<1>7. ASSUME Requests140 \/ TickSteps \/ RunnerSteps \/ RecoverGroups \/ JobSteps, ~StartPanel PROVE Deployed' /\ PanelReportTrue'
  BY <1>1, <1>7, StackEffect DEF helperVars
<1> QED BY Kinds140, <1>2, <1>3, <1>4, <1>5, <1>6, <1>7

-----------------------------------------------------------------------------
(* The consent                                                             *)

LEMMA HelperRuns ==
    ASSUME HelperSteps
    PROVE  helper # "off"
BY DEF HelperSteps, BackUpDeployment, SelectImage, UpdateEnvImage, CheckConfig, RecreatePanel, WaitForPanel, CleanUpImages,
   BeginRollback, StopPanel, RestoreDatabase, RestoreDeployment, RecreateOld, WaitForOldPanel

\* A coordinator at work needs a confirmed operation, and in the loop over the groups the
\* confirmed panel, which no step of a launch or of the helper takes from it.
LEMMA ConsentedStep ==
    ASSUME StackTyped, PanelTyped, Awake, Consented, UpgradeNext
    PROVE  Consented'
<1> USE DEF WriteStack
<1>0. /\ stack.id \in 0..Plans /\ stack.target \in {"new", "alt"} /\ stack.phase \in Stages140
      /\ coord.at \in GroupLoop \cup {"idle", "panel", "started", "refused", "verifying", "remaining", "final", "recover"}
      /\ coord.end \in {"none", "failed_safe", "manual_action"}
      /\ DOMAIN stack = {"id", "phase", "auth", "cont", "pid", "target", "scope", "part", "cancelled"}
      /\ DOMAIN coord = {"at", "g", "todo", "part", "end"}
  BY DEF StackTyped, Operations, Coordinators
<1>s. Seen.id = stack.id /\ Seen.phase = stack.phase /\ Seen.auth = stack.auth /\ Seen.target = stack.target
      /\ Seen.cont = stack.cont /\ Seen.scope = stack.scope /\ Seen \in Operations
  BY DEF Seen, StackTyped, Operations
<1>c. check' => stack'.phase = "preparing" /\ coord'.at = "idle"
  <2>1. ASSUME UNCHANGED <<check, stack, coord>> PROVE check' => stack'.phase = "preparing" /\ coord'.at = "idle"
    BY <2>1 DEF Consented
  <2>2. CASE Launches
    <3>1. UNCHANGED <<check, stack>> /\ (coord.at = "panel" \/ UNCHANGED coord)
      BY <2>2, LaunchEffect DEF stackVars
    <3> QED BY <2>1, <3>1 DEF Consented
  <2>3. CASE HelperSteps \/ PanelStopped
    <3>1. ~check' \/ UNCHANGED <<check, stack, coord>>
      BY <2>3, HelperEffect DEF Forgotten, stackVars, memory
    <3> QED BY <2>1, <3>1
  <2>4. CASE PanelStarts  BY <2>1, <2>4, FilesEffect DEF stackVars, memory
  <2>5. CASE Requests140
    <3>1. CASE PrepareFullStack  BY <3>1 DEF PrepareFullStack, NoStack
    <3>2. CASE Preflight  BY <3>2 DEF Preflight
    <3>3. CASE Expire  BY <2>1, <3>3 DEF Expire
    <3>4. CASE Confirm140 \/ CancelPrepared \/ RequestRecovery
      <4>1. check' = check  BY <3>4 DEF Confirm140, CancelPrepared, RequestRecovery, Ticked
      <4>2. stack.auth \/ stack.phase # "preparing"
        BY <3>4 DEF Confirm140, CancelPrepared, RequestRecovery
      <4> QED BY <4>1, <4>2 DEF Consented
    <3> QED BY <2>5, <3>1, <3>2, <3>3, <3>4 DEF Requests140
  <2>6. CASE TickSteps \/ RunnerSteps \/ RecoverGroups
    <3>1. check' = check  BY <2>6, RestEffect
    <3>2. stack.auth \/ ~check \/ coord.at # "idle"
      <4>1. CASE RunnerSteps \/ RecoverGroups
        BY <4>1 DEF RunnerSteps, RecoverGroups, NextGroup, ScopeChanged, StartGroup, MarkApplying, PollFails, Polled,
           WriteCompatibility, KeepGroup, VerifyRemaining, Remaining, FinishFailure, Coord
      <4>2. CASE TickSteps
        BY <4>2 DEF TickSteps, PreflightInterrupted, PanelGaveUp, PanelOnItsWay, ResumeRecovery, Lapse, StartGroups,
           TargetChanged, StartPanel, PanelStarted, PanelRefused, OnTarget, Elsewhere, Waiting
      <4> QED BY <2>6, <4>1, <4>2
    <3> QED BY <3>1, <3>2 DEF Consented
  <2>7. CASE JobSteps
    BY <2>1, <2>7, RestEffect DEF JobSteps, GroupEnds, GroupTells, GroupReleases, Job, stackVars
  <2> QED BY Kinds140, <2>2, <2>3, <2>4, <2>5, <2>6, <2>7
<1> DEFINE Rest ==
      /\ stack.phase \in {"none", "preparing"} => ~stack.auth
      /\ stack.auth => stack.id # 0
      /\ stack.id = 0 => stack.phase = "none"
      /\ coord.at # "idle" => stack.auth /\ stack.phase \notin FullStackTerminal
      /\ coord.at \in GroupLoop \cup {"verifying"} => stack.phase = "migrating"
      /\ coord.at \in GroupLoop => panelImage = stack.target /\ PanelProven
      /\ coord.at = "remaining" => stack.phase = "verifying_remaining"
      /\ coord.at \in {"verifying", "remaining"} => coord.end = "failed_safe"
      /\ coord.at = "final" => coord.end # "none"
      /\ coord.at = "recover" => stack.phase = "recovering"
      /\ coord.at \in GroupLoop \ {"next"} => coord.g \in stack.scope
<1>r. Rest  BY DEF Consented
<1>i. Idle.at = "idle"  BY DEF Idle
\* what a step of the operation leaves of the panel
<1>p. ASSUME UNCHANGED <<panelImage, apply>>, stack'.id = stack.id, stack'.cont = stack.cont, stack'.target = stack.target, PanelProven
      PROVE  PanelProven'
  BY <1>p DEF PanelProven, Owned
<1> SUFFICES Rest'  BY <1>c DEF Consented
<1> USE DEF GroupLoop, FullStackTerminal
<1>1. CASE UNCHANGED <<panelImage, apply, stack, coord>>
  <2>1. PanelProven => PanelProven'  BY <1>1, <1>p
  <2> QED BY <1>1, <1>r, <2>1
<1>2. CASE Launches
  <2>1. panelImage = "old" /\ UNCHANGED <<panelImage, stack>>
    <3>1. CASE AdminApply
      BY <1>2, <3>1, LaunchEffect DEF AdminApply, BeginApply, panelVars, stackVars
    <3>2. CASE ~AdminApply
      BY <1>2, <3>2, LaunchEffect DEF Launches, AbortBeforeHelper, ApplyUnwritten, StartApplyHelper, Awake, panelVars, stackVars
    <3> QED BY <3>1, <3>2
  <2>2. coord.at \notin GroupLoop  BY <1>0, <1>r, <2>1
  <2>3. coord' = coord \/ \E r \in {"started", "refused"} : coord.at = "panel" /\ coord' = [coord EXCEPT !.at = r]
    BY <1>2, LaunchEffect
  <2>4. coord' = coord \/ (coord.at = "panel" /\ coord'.at \in {"started", "refused"})
    BY <1>0, <2>3
  <2> QED BY <1>r, <2>1, <2>2, <2>4
<1>3. CASE HelperSteps \/ PanelStopped
  <2>1. UNCHANGED stack /\ (UNCHANGED <<panelImage, coord>> \/ coord' = Idle)
    BY <1>3, HelperEffect DEF stackVars, memory, Forgotten
  <2>2. CASE coord' = Idle  BY <1>i, <1>r, <2>1, <2>2
  <2>3. CASE PanelStopped  BY <1>1, <2>1, <2>2, <2>3 DEF PanelStopped, helperVars
  <2>4. ASSUME HelperSteps, UNCHANGED <<panelImage, coord>> PROVE Rest'
    <3>1. ActiveApply  BY <2>4, HelperRuns DEF Awake
    <3>2. PanelProven => stack.cont  BY <3>1 DEF PanelProven, ActiveApply
    <3>3. PanelProven => PanelProven'  BY <2>1, <3>2 DEF PanelProven
    <3> QED BY <1>r, <2>1, <2>4, <3>3
  <2> QED BY <1>3, <2>1, <2>2, <2>3, <2>4
<1>4. CASE PanelStarts  BY <1>1, <1>4 DEF PanelStarts, stackVars, memory, helperVars
<1>5. CASE JobSteps
  BY <1>1, <1>5 DEF JobSteps, GroupEnds, GroupTells, GroupReleases, Job, stackVars, panelVars, helperVars
<1>6. CASE StartPanel
  <2>1. UNCHANGED <<stack, panelImage>> /\ coord' \in {[Idle EXCEPT !.at = "panel"], [Idle EXCEPT !.at = "refused"]}
        /\ stack.auth /\ stack.phase \notin FullStackTerminal
    BY <1>6 DEF StartPanel, Elsewhere, Waiting, Tick, BeginApply, stackVars, panelVars
  <2>2. coord'.at \in {"panel", "refused"}  BY <2>1 DEF Idle
  <2> QED BY <1>r, <2>1, <2>2
<1>10. CASE Confirm140
  <2>1. UNCHANGED <<panelImage, apply>> /\ stack.phase = "awaiting_confirmation" /\ coord.at = "idle"
    BY <1>10 DEF Confirm140, Quiet140, panelVars, helperVars
  <2>2. \/ stack' \in {stack, [stack EXCEPT !.phase = "waiting_panel", !.auth = TRUE]} /\ coord' = coord
    BY <1>10 DEF Confirm140, Quiet140
  <2> QED BY ZenonT(60), <1>0, <1>i, <1>p, <1>r, <1>s, <2>1, <2>2 DEF Idle, StackTyped, Operations, Coordinators
<1>11. CASE CancelPrepared
  <2>1. UNCHANGED <<panelImage, apply>> /\ coord.at = "idle" /\ stack.id # 0 /\ stack.phase # "preparing"
    BY <1>11 DEF CancelPrepared, Quiet140, panelVars, helperVars
  <2>2. \/ stack' \in {stack, [stack EXCEPT !.phase = "failed_safe", !.cancelled = TRUE]} /\ coord' = coord
    BY <1>11 DEF CancelPrepared, Quiet140
  <2> QED BY <1>0, <1>i, <1>p, <1>r, <1>s, <2>1, <2>2 DEF Idle, StackTyped, Operations, Coordinators
<1>12. CASE Expire
  <2>1. UNCHANGED <<panelImage, apply>>  BY <1>12 DEF Expire, Quiet140, panelVars, helperVars
  <2>2. \/ stack' = stack /\ coord' = coord  BY <1>12 DEF Expire, Quiet140
  <2> QED BY <1>0, <1>i, <1>p, <1>r, <1>s, <2>1, <2>2 DEF Idle, StackTyped, Operations, Coordinators
<1>13. CASE RequestRecovery
  <2>1. UNCHANGED <<panelImage, apply>> /\ stack.auth
    BY <1>13 DEF RequestRecovery, Quiet140, Ticked, panelVars, helperVars
  <2>2. \/ stack' = [stack EXCEPT !.phase = "recovering", !.cancelled = FALSE] /\ coord' = [Idle EXCEPT !.at = "recover", !.todo = stack.scope, !.part = stack.part]
        \/ stack' \in {stack, [stack EXCEPT !.phase = "recovering", !.cancelled = FALSE]} /\ coord' = Idle
    BY <1>13 DEF RequestRecovery, Quiet140, Ticked
  <2>a. [Idle EXCEPT !.at = "recover", !.todo = stack.scope, !.part = stack.part].at = "recover"
    BY DEF Idle
  <2>b. [stack EXCEPT !.phase = "recovering", !.cancelled = FALSE].id = stack.id /\ [stack EXCEPT !.phase = "recovering", !.cancelled = FALSE].auth = stack.auth /\ [stack EXCEPT !.phase = "recovering", !.cancelled = FALSE].cont = stack.cont /\ [stack EXCEPT !.phase = "recovering", !.cancelled = FALSE].target = stack.target /\ [stack EXCEPT !.phase = "recovering", !.cancelled = FALSE].phase = "recovering"
    BY <1>0, <1>s DEF StackTyped, Operations
  <2>3. stack'.id = stack.id /\ stack'.auth = stack.auth /\ stack'.cont = stack.cont /\ stack'.target = stack.target
        /\ ((stack'.phase = stack.phase /\ coord'.at = "idle") \/ (stack'.phase = "recovering" /\ coord'.at \in {"idle", "recover"}))
    BY <1>i, <2>2, <2>a, <2>b
  <2>4. PanelProven => PanelProven'  BY <1>p, <2>1, <2>3
  <2> QED BY <1>r, <2>1, <2>3, <2>4
<1>14. CASE PreflightInterrupted
  <2>1. UNCHANGED <<panelImage, apply>> /\ ~stack.auth /\ stack.id # 0
    BY <1>14 DEF PreflightInterrupted, WriteTick, Ticked, Quiet140, Tick, panelVars, helperVars
  <2>2. \/ stack' \in {stack, [stack EXCEPT !.phase = "preflight_failed"]} /\ coord' = Idle
    BY <1>14 DEF PreflightInterrupted, WriteTick, Ticked, Quiet140, Tick
  <2> QED BY <1>0, <1>i, <1>p, <1>r, <1>s, <2>1, <2>2 DEF Idle, StackTyped, Operations, Coordinators
<1>15. CASE PanelGaveUp
  <2>1. UNCHANGED <<panelImage, apply>> /\ stack.auth
    BY <1>15 DEF PanelGaveUp, WriteTick, Ticked, Quiet140, Waiting, panelVars, helperVars
  <2>2. \/ stack' \in {stack, [Seen EXCEPT !.phase = "manual_action"], [Seen EXCEPT !.phase = "panel_failed_rolled_back"]} /\ coord' = Idle
    BY <1>15 DEF PanelGaveUp, WriteTick, Ticked, Quiet140, Waiting
  <2> QED BY <1>0, <1>i, <1>p, <1>r, <1>s, <2>1, <2>2 DEF Idle, StackTyped, Operations, Coordinators
<1>16. CASE PanelOnItsWay
  <2>1. UNCHANGED <<panelImage, apply>> /\ stack.auth
    BY <1>16 DEF PanelOnItsWay, WriteTick, Ticked, Quiet140, Waiting, panelVars, helperVars
  <2>2. \/ stack' \in {stack, Seen} /\ coord' = Idle
    BY <1>16 DEF PanelOnItsWay, WriteTick, Ticked, Quiet140, Waiting
  <2> QED BY <1>0, <1>i, <1>p, <1>r, <1>s, <2>1, <2>2 DEF Idle, StackTyped, Operations, Coordinators
<1>17. CASE ResumeRecovery
  <2>1. UNCHANGED <<panelImage, apply>> /\ OnTarget /\ stack.auth /\ stack.phase = "recovering"
    BY <1>17 DEF ResumeRecovery, OnTarget, Waiting, Ticked, Quiet140, panelVars, helperVars
  <2>2. \/ stack' = stack /\ coord' = [Idle EXCEPT !.at = "recover", !.todo = stack.scope, !.part = stack.part]
    BY <1>17 DEF ResumeRecovery, OnTarget, Waiting, Ticked, Quiet140
  <2> QED BY ZenonT(60), <1>0, <1>i, <1>p, <1>r, <1>s, <2>1, <2>2 DEF Idle, StackTyped, Operations, Coordinators
<1>18. CASE Lapse
  <2>1. UNCHANGED <<panelImage, apply>> /\ stack.auth
    BY <1>18 DEF Lapse, Pause, OnTarget, Waiting, WriteTick, Ticked, Quiet140, panelVars, helperVars
  <2>2. \/ stack' \in {stack, [Seen EXCEPT !.phase = "scope_changed"]} /\ coord' = Idle
    BY <1>18 DEF Lapse, Pause, OnTarget, Waiting, WriteTick, Ticked, Quiet140
  <2> QED BY <1>0, <1>i, <1>p, <1>r, <1>s, <2>1, <2>2 DEF Idle, StackTyped, Operations, Coordinators
<1>19. CASE StartGroups
  <2>1. UNCHANGED <<panelImage, apply>> /\ stack.auth /\ panelImage = stack.target /\ PanelProven
    BY <1>19 DEF StartGroups, OnTarget, Waiting, WriteTick, Ticked, Quiet140, panelVars, helperVars
  <2>2. \/ stack' = [Seen EXCEPT !.phase = "migrating"] /\ coord' = [Idle EXCEPT !.at = "next", !.part = stack.part]
        \/ stack' \in {stack, [Seen EXCEPT !.phase = "migrating"]} /\ coord' = Idle
    BY <1>19 DEF StartGroups, OnTarget, Waiting, WriteTick, Ticked, Quiet140
  <2>a. [Idle EXCEPT !.at = "next", !.part = stack.part].at = "next"  BY DEF Idle
  <2>b. [Seen EXCEPT !.phase = "migrating"].id = stack.id /\ [Seen EXCEPT !.phase = "migrating"].auth = stack.auth /\ [Seen EXCEPT !.phase = "migrating"].cont = stack.cont /\ [Seen EXCEPT !.phase = "migrating"].target = stack.target /\ [Seen EXCEPT !.phase = "migrating"].phase = "migrating"
    BY <1>0, <1>s DEF StackTyped, Operations
  <2>3. stack'.id = stack.id /\ stack'.auth = stack.auth /\ stack'.cont = stack.cont /\ stack'.target = stack.target
        /\ ((stack'.phase = stack.phase /\ coord'.at = "idle") \/ (stack'.phase = "migrating" /\ coord'.at \in {"idle", "next"}))
    BY <1>i, <2>2, <2>a, <2>b
  <2>4. PanelProven => PanelProven'  BY <1>p, <2>1, <2>3
  <2> QED BY <1>r, <2>1, <2>3, <2>4
<1>20. CASE TargetChanged
  <2>1. UNCHANGED <<panelImage, apply>> /\ stack.auth
    BY <1>20 DEF TargetChanged, Pause, Elsewhere, Waiting, WriteTick, Ticked, Quiet140, panelVars, helperVars
  <2>2. \/ stack' \in {stack, [Seen EXCEPT !.phase = "scope_changed"]} /\ coord' = Idle
    BY <1>20 DEF TargetChanged, Pause, Elsewhere, Waiting, WriteTick, Ticked, Quiet140
  <2> QED BY <1>0, <1>i, <1>p, <1>r, <1>s, <2>1, <2>2 DEF Idle, StackTyped, Operations, Coordinators
<1>21. CASE PanelStarted
  <2>1. UNCHANGED <<panelImage, apply>> /\ coord.at = "started"
    BY <1>21 DEF PanelStarted, WriteTick, Ticked, Quiet140, panelVars, helperVars
  <2>2. \/ stack' \in {stack, [stack EXCEPT !.pid = TRUE]} /\ coord' = Idle
    BY <1>21 DEF PanelStarted, WriteTick, Ticked, Quiet140
  <2> QED BY <1>0, <1>i, <1>p, <1>r, <1>s, <2>1, <2>2 DEF Idle, StackTyped, Operations, Coordinators
<1>22. CASE PanelRefused
  <2>1. UNCHANGED <<panelImage, apply>> /\ coord.at = "refused"
    BY <1>22 DEF PanelRefused, Pause, WriteTick, Ticked, Quiet140, panelVars, helperVars
  <2>2. \/ stack' \in {stack, [Seen EXCEPT !.phase = "scope_changed"]} /\ coord' = Idle
    BY <1>22 DEF PanelRefused, Pause, WriteTick, Ticked, Quiet140
  <2> QED BY <1>0, <1>i, <1>p, <1>r, <1>s, <2>1, <2>2 DEF Idle, StackTyped, Operations, Coordinators
<1>23. CASE ScopeChanged
  <2>1. UNCHANGED <<panelImage, apply>> /\ coord.at = "validate"
    BY <1>23 DEF ScopeChanged, Coord, Store, panelVars, helperVars
  <2>2. \/ stack' \in {stack, [stack EXCEPT !.phase = "scope_changed", !.part = coord.part]} /\ coord' = Idle
    BY <1>23 DEF ScopeChanged, Coord, Store
  <2> QED BY ZenonT(60), <1>0, <1>i, <1>p, <1>r, <1>s, <2>1, <2>2 DEF Idle, StackTyped, Operations, Coordinators
<1>24. CASE StartGroup
  <2>1. UNCHANGED <<panelImage, apply>> /\ coord.at = "validate"
    BY <1>24 DEF StartGroup, Coord, Store, AdvanceHelper, FinishStack, panelVars, helperVars
  <2>2. \/ stack' = stack /\ coord' \in {[coord EXCEPT !.at = "mark"], [coord EXCEPT !.at = "verifying", !.end = "failed_safe"]}
    BY <1>24 DEF StartGroup, Coord, Store, AdvanceHelper, FinishStack
  <2> QED BY ZenonT(60), <1>0, <1>i, <1>p, <1>r, <1>s, <2>1, <2>2 DEF Idle, StackTyped, Operations, Coordinators
<1>25. CASE MarkApplying
  <2>1. UNCHANGED <<panelImage, apply>> /\ coord.at = "mark"
    BY <1>25 DEF MarkApplying, Coord, Store, PartNow, panelVars, helperVars
  <2>2. \/ stack' = [stack EXCEPT !.part = [coord.part EXCEPT ![coord.g] = "applying"]] /\ coord' = [coord EXCEPT !.at = "wait", !.part = [coord.part EXCEPT ![coord.g] = "applying"]]
        \/ stack' \in {stack, [stack EXCEPT !.part = [coord.part EXCEPT ![coord.g] = "applying"]]} /\ coord' = Idle
    BY <1>25 DEF MarkApplying, Coord, Store, PartNow
  <2> QED BY ZenonT(60), <1>0, <1>i, <1>p, <1>r, <1>s, <2>1, <2>2 DEF Idle, StackTyped, Operations, Coordinators
<1>26. CASE PollFails
  <2>1. UNCHANGED <<panelImage, apply>> /\ coord.at = "wait"
    BY <1>26 DEF PollFails, Coord, Store, panelVars, helperVars
  <2>2. \/ stack' = stack /\ coord' = Idle  BY <1>26 DEF PollFails, Coord, Store
  <2> QED BY <1>0, <1>i, <1>p, <1>r, <1>s, <2>1, <2>2 DEF Idle, StackTyped, Operations, Coordinators
<1>27. CASE Polled
  <2>1. UNCHANGED <<panelImage, apply>> /\ coord.at = "wait"
    BY <1>27 DEF Polled, Coord, Store, Only, panelVars, helperVars
  <2>2. \/ stack' = stack /\ \E q : coord' \in {[[coord EXCEPT !.part = q] EXCEPT !.at = "receipt"], [[coord EXCEPT !.part = q] EXCEPT !.at = "final", !.end = "manual_action"]}
    BY <1>27 DEF Polled, Coord, Store, Only
  <2> QED BY ZenonT(60), <1>0, <1>i, <1>p, <1>r, <1>s, <2>1, <2>2 DEF Idle, StackTyped, Operations, Coordinators
<1>28. CASE WriteCompatibility
  <2>1. UNCHANGED <<panelImage, apply>> /\ coord.at = "receipt"
    BY <1>28 DEF WriteCompatibility, Coord, Store, AdvanceHelper, FinishStack, Receipts, panelVars, helperVars
  <2>2. \/ stack' = stack /\ coord' \in {[coord EXCEPT !.at = "keep"], [coord EXCEPT !.at = "verifying", !.end = "failed_safe"], [coord EXCEPT !.at = "final", !.end = "manual_action"]}
    BY <1>28 DEF WriteCompatibility, Coord, Store, AdvanceHelper, FinishStack, Receipts
  <2> QED BY ZenonT(60), <1>0, <1>i, <1>p, <1>r, <1>s, <2>1, <2>2 DEF Idle, StackTyped, Operations, Coordinators
<1>29. CASE KeepGroup
  <2>1. UNCHANGED <<panelImage, apply>> /\ coord.at = "keep"
    BY <1>29 DEF KeepGroup, Coord, Store, PartNow, panelVars, helperVars
  <2>2. \/ stack' = [stack EXCEPT !.part = [coord.part EXCEPT ![coord.g] = "succeeded"]] /\ coord' = [coord EXCEPT !.at = "next", !.part = [coord.part EXCEPT ![coord.g] = "succeeded"]]
        \/ stack' \in {stack, [stack EXCEPT !.part = [coord.part EXCEPT ![coord.g] = "succeeded"]]} /\ coord' = Idle
    BY <1>29 DEF KeepGroup, Coord, Store, PartNow
  <2> QED BY ZenonT(60), <1>0, <1>i, <1>p, <1>r, <1>s, <2>1, <2>2 DEF Idle, StackTyped, Operations, Coordinators
<1>30. CASE VerifyRemaining
  <2>1. UNCHANGED <<panelImage, apply>> /\ coord.at = "verifying"
    BY <1>30 DEF VerifyRemaining, Coord, Store, panelVars, helperVars
  <2>2. \/ stack' = [stack EXCEPT !.phase = "verifying_remaining", !.part = coord.part] /\ coord' = [coord EXCEPT !.at = "remaining", !.todo = stack.scope]
        \/ stack' \in {stack, [stack EXCEPT !.phase = "verifying_remaining", !.part = coord.part]} /\ coord' = Idle
    BY <1>30 DEF VerifyRemaining, Coord, Store
  <2> QED BY ZenonT(60), <1>0, <1>i, <1>p, <1>r, <1>s, <2>1, <2>2 DEF Idle, StackTyped, Operations, Coordinators
<1>31. CASE FinishFailure
  <2>1. UNCHANGED <<panelImage, apply>> /\ coord.at = "final"
    BY <1>31 DEF FinishFailure, Coord, Store, panelVars, helperVars
  <2>2. \/ stack' \in {stack, [stack EXCEPT !.phase = coord.end, !.part = coord.part]} /\ coord' = Idle
    BY <1>31 DEF FinishFailure, Coord, Store
  <2> QED BY <1>0, <1>i, <1>p, <1>r, <1>s, <2>1, <2>2 DEF Idle, StackTyped, Operations, Coordinators
<1>d. ASSUME NEW goal \in {"remaining", "recover"}, Done140(goal)
      PROVE  coord'.at = goal /\ coord'.end = coord.end
  <2>1. PICK t, q : coord' = [coord EXCEPT !.todo = t, !.at = goal, !.part = q]
    BY <1>d, Zenon DEF Done140
  <2> QED BY <1>0, <2>1
<1>e. FinishStack("manual_action") => coord'.at = "final" /\ coord'.end = "manual_action"
  BY <1>0 DEF FinishStack
<1>32. CASE Remaining
  <2>1. UNCHANGED <<panelImage, apply, stack>> /\ coord.at = "remaining"
    BY <1>32 DEF Remaining, Coord, panelVars, helperVars
  <2>2. (coord'.at \in {"final", "remaining"} /\ coord'.end = coord.end) \/ (coord'.at = "final" /\ coord'.end = "manual_action")
    <3>1. AdvanceHelper("final") \/ Done140("remaining") \/ FinishStack("manual_action")
      BY <1>32 DEF Remaining, TerminalCompatibility, Receipts
    <3> QED BY <1>0, <1>d, <1>e, <3>1 DEF AdvanceHelper
  <2> QED BY <1>r, <2>1, <2>2
<1>33. CASE RecoverGroups
  <2>1. UNCHANGED <<panelImage, apply>> /\ coord.at = "recover"
    BY <1>33 DEF RecoverGroups, Coord, panelVars, helperVars
  <2>2. \/ coord' = Idle /\ (stack' = stack \/ \E p \in {"succeeded", "failed_safe"} : stack' = [stack EXCEPT !.part = coord.part, !.phase = p])
        \/ stack' = stack /\ (coord' = coord \/ Done140("recover") \/ FinishStack("manual_action"))
    BY <1>33 DEF RecoverGroups, TerminalCompatibility, Receipts, Store
  <2>3. CASE coord' = Idle
    <3>1. stack'.id = stack.id /\ stack'.auth = stack.auth /\ stack'.phase \notin {"none", "preparing"}
      BY <1>0, <1>r, <2>1, <2>2, <2>3 DEF StackTyped, Operations, Idle
    <3> QED BY <1>i, <1>r, <2>1, <2>3, <3>1
  <2>4. CASE stack' = stack /\ (coord' = coord \/ Done140("recover") \/ FinishStack("manual_action"))
    <3>1. coord' = coord \/ coord'.at = "recover" \/ (coord'.at = "final" /\ coord'.end = "manual_action")
      BY <1>d, <1>e, <2>4
    <3> QED BY <1>1, <1>r, <2>1, <2>4, <3>1
  <2> QED BY <2>2, <2>3, <2>4
<1>34. CASE PrepareFullStack
  <2>1. stack' = stack \/ (stack'.phase = "preparing" /\ ~stack'.auth /\ stack'.id = stack.id + 1)
    BY <1>34 DEF PrepareFullStack, NoStack
  <2>2. coord' = coord /\ coord.at = "idle" /\ UNCHANGED <<panelImage, apply>>
    BY <1>34 DEF PrepareFullStack, Quiet140, panelVars, helperVars
  <2> QED BY <1>0, <1>r, <2>1, <2>2
<1>35. CASE Preflight
  <2>1. stack' = stack \/ \E s, p : p # "none" /\ p # "preparing" /\ stack' \in {[stack EXCEPT !.phase = p, !.scope = s], [stack EXCEPT !.phase = p]}
    BY <1>35 DEF Preflight
  <2>2. coord' = coord /\ check /\ UNCHANGED <<panelImage, apply>>
    BY <1>35 DEF Preflight, Quiet140, panelVars, helperVars
  <2>3. stack' = stack \/ (stack'.auth = stack.auth /\ stack'.id = stack.id /\ stack'.phase \notin {"none", "preparing"})
    BY <1>0, <2>1
  <2> QED BY <1>0, <1>r, <2>2, <2>3 DEF Consented
<1>36. CASE NextGroup
  <2> DEFINE rest == {g \in stack.scope : coord.part[g] # "succeeded"}
  <2>1. UNCHANGED <<panelImage, apply>> /\ coord.at = "next"
    BY <1>36 DEF NextGroup, Coord, panelVars, helperVars
  <2>2. \/ coord' = Idle /\ stack' \in {stack, [stack EXCEPT !.phase = "succeeded", !.part = coord.part]}
        \/ rest # {} /\ stack' = stack /\ \E a \in {"mark", "validate"} : coord' = [coord EXCEPT !.g = Least(rest), !.at = a]
    BY <1>36, Zenon DEF NextGroup, Store, Only
  <2>3. CASE coord' = Idle /\ stack' \in {stack, [stack EXCEPT !.phase = "succeeded", !.part = coord.part]}
    BY <1>0, <1>i, <1>r, <2>1, <2>3
  <2>4. CASE rest # {} /\ stack' = stack /\ \E a \in {"mark", "validate"} : coord' = [coord EXCEPT !.g = Least(rest), !.at = a]
    <3>1. Least(rest) \in rest  BY <2>4, LeastOf DEF StackTyped, Operations
    <3>2. coord'.g \in stack.scope /\ coord'.at \in {"mark", "validate"}  BY <1>0, <2>4, <3>1
    <3> QED BY <1>1, <1>p, <1>r, <2>1, <2>4, <3>2
  <2> QED BY <2>2, <2>3, <2>4
<1> QED BY Kinds140, <1>1, <1>2, <1>3, <1>4, <1>5, <1>6, <1>10, <1>11, <1>12, <1>13, <1>14, <1>15, <1>16, <1>17, <1>18, <1>19, <1>20, <1>21, <1>22, <1>23, <1>24, <1>25, <1>26, <1>27, <1>28, <1>29, <1>30, <1>31, <1>32, <1>33, <1>34, <1>35, <1>36 DEF Requests140, TickSteps, RunnerSteps

-----------------------------------------------------------------------------
(* The operation                                                           *)

\* What most steps leave of the operation and of the coordinator's parts; the steps
\* that end it, begin it or record a group are looked at one by one.
Recording == Polled \/ MarkApplying \/ KeepGroup \/ Remaining \/ RecoverGroups
Deciding  == PrepareFullStack \/ Preflight \/ CancelPrepared \/ RequestRecovery \/ NextGroup \/ FinishFailure
LEMMA OperationEffect ==
    ASSUME StackTyped, UpgradeNext
    PROVE  \/ Recording \/ Deciding
           \/ /\ stack'.id = stack.id /\ stack'.scope = stack.scope /\ stack'.cancelled = stack.cancelled
              /\ stack'.phase = stack.phase \/ stack'.phase \notin {"none", "preparing", "succeeded", "failed_safe"}
              /\ stack'.part \in {stack.part, coord.part}
              /\ coord'.part \in {stack.part, coord.part, Idle.part}
<1> USE DEF WriteStack, Quiet140, WriteTick, Ticked
<1> DEFINE Kept ==
              /\ stack'.id = stack.id /\ stack'.scope = stack.scope /\ stack'.cancelled = stack.cancelled
              /\ stack'.phase = stack.phase \/ stack'.phase \notin {"none", "preparing", "succeeded", "failed_safe"}
              /\ stack'.part \in {stack.part, coord.part}
              /\ coord'.part \in {stack.part, coord.part, Idle.part}
<1> SUFFICES ASSUME ~Recording, ~Deciding PROVE Kept
  OBVIOUS
<1>0. /\ DOMAIN stack = {"id", "phase", "auth", "cont", "pid", "target", "scope", "part", "cancelled"}
      /\ DOMAIN coord = {"at", "g", "todo", "part", "end"}
  BY DEF StackTyped, Operations, Coordinators
<1>s. /\ Seen.id = stack.id /\ Seen.scope = stack.scope /\ Seen.cancelled = stack.cancelled
      /\ Seen.phase = stack.phase /\ Seen.part = stack.part
      /\ DOMAIN Seen = {"id", "phase", "auth", "cont", "pid", "target", "scope", "part", "cancelled"}
  BY DEF Seen, StackTyped, Operations
<1>i. DOMAIN Idle = {"at", "g", "todo", "part", "end"}  BY DEF Idle
<1>1. CASE Launches  BY <1>0, <1>1, LaunchEffect DEF stackVars
<1>2. CASE HelperSteps \/ PanelStopped  BY <1>2, HelperEffect DEF stackVars, memory, Forgotten
<1>3. CASE PanelStarts  BY <1>3 DEF PanelStarts, stackVars, memory
<1>4. CASE JobSteps  BY <1>4 DEF JobSteps, GroupEnds, GroupTells, GroupReleases, Job, stackVars
<1>5. CASE Confirm140
  <2>1. stack' \in {stack, [stack EXCEPT !.phase = "waiting_panel", !.auth = TRUE]}
    BY <1>5 DEF Confirm140
  <2>2. coord' \in {coord}  BY <1>5 DEF Confirm140
  <2> QED BY <1>0, <1>i, <1>s, <2>1, <2>2
<1>6. CASE Expire
  <2>1. stack' \in {stack}  BY <1>6 DEF Expire
  <2>2. coord' \in {coord}  BY <1>6 DEF Expire
  <2> QED BY <1>0, <1>i, <1>s, <2>1, <2>2
<1>7. CASE PreflightInterrupted
  <2>1. stack' \in {stack, [stack EXCEPT !.phase = "preflight_failed"]}
    BY <1>7 DEF PreflightInterrupted
  <2>2. coord' \in {coord, Idle}  BY <1>7 DEF PreflightInterrupted
  <2> QED BY <1>0, <1>i, <1>s, <2>1, <2>2
<1>8. CASE PanelGaveUp
  <2>1. stack' \in {stack, [Seen EXCEPT !.phase = "manual_action"], [Seen EXCEPT !.phase = "panel_failed_rolled_back"]}
    BY <1>8 DEF PanelGaveUp
  <2>2. coord' \in {coord, Idle}  BY <1>8 DEF PanelGaveUp
  <2> QED BY <1>0, <1>i, <1>s, <2>1, <2>2
<1>9. CASE PanelOnItsWay
  <2>1. stack' \in {stack, Seen}  BY <1>9 DEF PanelOnItsWay
  <2>2. coord' \in {coord, Idle}  BY <1>9 DEF PanelOnItsWay
  <2> QED BY <1>0, <1>i, <1>s, <2>1, <2>2
<1>10. CASE ResumeRecovery
  <2>1. stack' \in {stack}  BY <1>10 DEF ResumeRecovery
  <2>2. coord' \in {coord, [Idle EXCEPT !.at = "recover", !.todo = stack.scope, !.part = stack.part]}
    BY <1>10 DEF ResumeRecovery
  <2> QED BY <1>0, <1>i, <1>s, <2>1, <2>2
<1>11. CASE Lapse
  <2>1. stack' \in {stack, [Seen EXCEPT !.phase = "scope_changed"]}  BY <1>11 DEF Lapse, Pause
  <2>2. coord' \in {coord, Idle}  BY <1>11 DEF Lapse, Pause
  <2> QED BY <1>0, <1>i, <1>s, <2>1, <2>2
<1>12. CASE StartGroups
  <2>1. stack' \in {stack, [Seen EXCEPT !.phase = "migrating"]}  BY <1>12 DEF StartGroups
  <2>2. coord' \in {coord, Idle, [Idle EXCEPT !.at = "next", !.part = stack.part]}
    BY <1>12 DEF StartGroups
  <2> QED BY <1>0, <1>i, <1>s, <2>1, <2>2
<1>13. CASE TargetChanged
  <2>1. stack' \in {stack, [Seen EXCEPT !.phase = "scope_changed"]}
    BY <1>13 DEF TargetChanged, Pause
  <2>2. coord' \in {coord, Idle}  BY <1>13 DEF TargetChanged, Pause
  <2> QED BY <1>0, <1>i, <1>s, <2>1, <2>2
<1>14. CASE StartPanel
  <2>1. stack' \in {stack}  BY <1>14 DEF StartPanel, BeginApply, stackVars
  <2>2. coord' \in {coord, [Idle EXCEPT !.at = "panel"], [Idle EXCEPT !.at = "refused"]}
    BY <1>14 DEF StartPanel, BeginApply, stackVars
  <2> QED BY <1>0, <1>i, <1>s, <2>1, <2>2
<1>15. CASE PanelStarted
  <2>1. stack' \in {stack, [stack EXCEPT !.pid = TRUE]}  BY <1>15 DEF PanelStarted
  <2>2. coord' \in {coord, Idle}  BY <1>15 DEF PanelStarted
  <2> QED BY <1>0, <1>i, <1>s, <2>1, <2>2
<1>16. CASE PanelRefused
  <2>1. stack' \in {stack, [Seen EXCEPT !.phase = "scope_changed"]}
    BY <1>16 DEF PanelRefused, Pause
  <2>2. coord' \in {coord, Idle}  BY <1>16 DEF PanelRefused, Pause
  <2> QED BY <1>0, <1>i, <1>s, <2>1, <2>2
<1>17. CASE ScopeChanged
  <2>1. stack' \in {stack, [stack EXCEPT !.phase = "scope_changed", !.part = coord.part]}
    BY <1>17 DEF ScopeChanged, Store, Coord
  <2>2. coord' \in {coord, Idle}  BY <1>17 DEF ScopeChanged, Store, Coord
  <2> QED BY <1>0, <1>i, <1>s, <2>1, <2>2
<1>18. CASE StartGroup
  <2>1. stack' \in {stack}  BY <1>18 DEF StartGroup, Store, Coord, AdvanceHelper, FinishStack
  <2>2. coord' \in {coord, [coord EXCEPT !.at = "mark"], [coord EXCEPT !.at = "verifying", !.end = "failed_safe"]}
    BY <1>18 DEF StartGroup, Store, Coord, AdvanceHelper, FinishStack
  <2> QED BY <1>0, <1>i, <1>s, <2>1, <2>2
<1>19. CASE PollFails
  <2>1. stack' \in {stack}  BY <1>19 DEF PollFails, Store, Coord
  <2>2. coord' \in {coord, Idle}  BY <1>19 DEF PollFails, Store, Coord
  <2> QED BY <1>0, <1>i, <1>s, <2>1, <2>2
<1>20. CASE WriteCompatibility
  <2>1. stack' \in {stack}
    BY <1>20 DEF WriteCompatibility, Store, Coord, AdvanceHelper, FinishStack, Receipts
  <2>2. coord' \in {coord, [coord EXCEPT !.at = "keep"], [coord EXCEPT !.at = "verifying", !.end = "failed_safe"], [coord EXCEPT !.at = "final", !.end = "manual_action"]}
    BY <1>20 DEF WriteCompatibility, Store, Coord, AdvanceHelper, FinishStack, Receipts
  <2> QED BY <1>0, <1>i, <1>s, <2>1, <2>2
<1>21. CASE VerifyRemaining
  <2>1. stack' \in {stack, [stack EXCEPT !.phase = "verifying_remaining", !.part = coord.part]}
    BY <1>21 DEF VerifyRemaining, Store, Coord
  <2>2. coord' \in {coord, Idle, [coord EXCEPT !.at = "remaining", !.todo = stack.scope]}
    BY <1>21 DEF VerifyRemaining, Store, Coord
  <2> QED BY <1>0, <1>i, <1>s, <2>1, <2>2
<1> HIDE DEF Kept
<1> QED BY Kinds140, <1>1, <1>2, <1>3, <1>4, <1>5, <1>6, <1>7, <1>8, <1>9, <1>10, <1>11, <1>12, <1>13, <1>14, <1>15, <1>16, <1>17, <1>18, <1>19, <1>20, <1>21 DEF Requests140, TickSteps, RunnerSteps, Recording, Deciding

\* The scope is chosen once, of groups without leases, and the number of an operation is new.
LEMMA ScopeEffect ==
    ASSUME StackTyped, Consented, UpgradeNext
    PROVE  \/ /\ stack'.id = stack.id /\ stack'.scope = stack.scope
              /\ stack'.phase = stack.phase \/ stack'.phase \notin {"none", "preparing"}
           \/ PrepareFullStack /\ stack'.id = stack.id + 1 /\ stack'.scope = {}
           \/ /\ Preflight /\ stack'.id = stack.id /\ stack'.scope \subseteq Groups
              /\ \A g \in stack'.scope : ~leased[g] /\ \A n \in 1..Plans : txn140[n][g] # "committed"
              /\ stack'.phase \notin {"none", "preparing"}
<1> DEFINE Kept == /\ stack'.id = stack.id /\ stack'.scope = stack.scope
                   /\ stack'.phase = stack.phase \/ stack'.phase \notin {"none", "preparing"}
<1>0. DOMAIN stack = {"id", "phase", "auth", "cont", "pid", "target", "scope", "part", "cancelled"}
  BY DEF StackTyped, Operations
<1>1. CASE Recording
  <2>1. \/ stack' = stack \/ (\E q : stack' = [stack EXCEPT !.part = q])
        \/ \E q, p : p \in {"succeeded", "failed_safe"} /\ stack' = [stack EXCEPT !.part = q, !.phase = p]
    BY <1>1 DEF Recording, Polled, MarkApplying, KeepGroup, Remaining, RecoverGroups, Only, Store, WriteStack
  <2> QED BY <1>0, <2>1
<1>2. CASE PrepareFullStack
  <2>1. stack' = stack \/ (stack'.id = stack.id + 1 /\ stack'.scope = {})
    BY <1>2 DEF PrepareFullStack, WriteStack, NoStack
  <2> QED BY <1>2, <2>1
<1>3. CASE Preflight
  <2> DEFINE scope == {g \in Groups : \A n \in 1..Plans : txn140[n][g] # "committed"}
  <2>1. \/ stack' = stack \/ stack' = [stack EXCEPT !.phase = "preflight_failed"]
        \/ /\ \A g \in scope : ~leased[g]
           /\ \E p \in {"succeeded", "awaiting_confirmation"} : stack' = [stack EXCEPT !.phase = p, !.scope = scope]
    BY <1>3 DEF Preflight, WriteStack
  <2> HIDE DEF scope
  <2>2. CASE (\A g \in scope : ~leased[g])
             /\ \E p \in {"succeeded", "awaiting_confirmation"} : stack' = [stack EXCEPT !.phase = p, !.scope = scope]
    <3>1. stack'.id = stack.id /\ stack'.scope = scope /\ stack'.phase \notin {"none", "preparing"}
      BY <1>0, <2>2
    <3> QED BY <1>3, <2>2, <3>1 DEF scope
  <2> QED BY <1>0, <2>1, <2>2
<1>4. CASE CancelPrepared \/ RequestRecovery \/ NextGroup \/ FinishFailure
  <2>1. \/ stack' = stack
        \/ stack' = [stack EXCEPT !.phase = "failed_safe", !.cancelled = TRUE]
        \/ stack' = [stack EXCEPT !.phase = "recovering", !.cancelled = FALSE]
        \/ stack' = [stack EXCEPT !.phase = "succeeded", !.part = coord.part]
        \/ coord.at = "final" /\ stack' = [stack EXCEPT !.phase = coord.end, !.part = coord.part]
    <3>1. CASE CancelPrepared \/ RequestRecovery
      BY <3>1 DEF CancelPrepared, RequestRecovery, WriteStack
    <3>2. CASE NextGroup \/ FinishFailure
      BY <3>2 DEF NextGroup, FinishFailure, Only, Store, WriteStack, Coord
    <3> QED BY <1>4, <3>1, <3>2
  <2>2. coord.at = "final" => coord.end \notin {"none", "preparing"}
    BY DEF Consented, StackTyped, Coordinators
  <2> QED BY <1>0, <2>1, <2>2
<1>5. CASE ~Recording /\ ~Deciding  BY <1>5, OperationEffect
<1> QED BY <1>1, <1>2, <1>3, <1>4, <1>5 DEF Deciding

-----------------------------------------------------------------------------
(* The transactions                                                        *)

\* Who recovers: a panel that starts, all groups; the coordinator, the next of its groups.
LEMMA RecoverCases ==
    ASSUME StackTyped, GroupsTyped, Awake, PanelStarts \/ RecoverGroups
    PROVE  \/ UNCHANGED <<groupFiles, job140>>
           \/ \E lot, broken \in SUBSET Groups :
                 /\ Recover140(lot, broken) /\ broken \subseteq lot /\ \A g \in broken : leased[g]
                 /\ \A g \in lot : job140[g] = "off"
                 /\ UNCHANGED <<stack, receipt, coord, job140>>
                 /\ RecoverGroups => coord.at = "recover" /\ coord.todo # {} /\ lot = {Least(coord.todo)}
<1>1. CASE PanelStarts
  <2>1. UNCHANGED <<stack, receipt, coord, job140>> /\ ~RecoverGroups /\ \A g \in Groups : job140[g] = "off"
    BY <1>1 DEF PanelStarts, stackVars, memory, RecoverGroups, Coord, Awake, PanelUp
  <2>2. CASE Recover140(Groups, {})
    <3>1. Groups \in SUBSET Groups /\ {} \in SUBSET Groups /\ {} \subseteq Groups /\ \A g \in {} : leased[g]
      OBVIOUS
    <3> QED BY <2>1, <2>2, <3>1, Zenon
  <2>3. ASSUME NEW g \in Groups, leased[g], Recover140(Groups, {g})
        PROVE  \E lot, broken \in SUBSET Groups :
                 /\ Recover140(lot, broken) /\ broken \subseteq lot /\ \A h \in broken : leased[h]
                 /\ \A h \in lot : job140[h] = "off"
                 /\ UNCHANGED <<stack, receipt, coord, job140>>
                 /\ RecoverGroups => coord.at = "recover" /\ coord.todo # {} /\ lot = {Least(coord.todo)}
    <3>1. Groups \in SUBSET Groups /\ {g} \in SUBSET Groups /\ {g} \subseteq Groups /\ \A h \in {g} : leased[h]
      BY <2>3
    <3> QED BY <2>1, <2>3, <3>1, Zenon
  <2> QED BY <1>1, <2>2, <2>3, Zenon DEF PanelStarts
<1>2. CASE RecoverGroups
  <2>1. CASE UNCHANGED <<groupFiles, job140>>  BY <2>1
  <2>2. CASE coord.todo # {} /\ job140[Least(coord.todo)] = "off" /\ Recover140({Least(coord.todo)}, {})
             /\ UNCHANGED <<stack, receipt, coord, job140>>
    <3>1. Least(coord.todo) \in Groups
      <4>1. coord.todo \in SUBSET Groups  BY DEF StackTyped, Coordinators
      <4> QED BY <2>2, <4>1, LeastOf
    <3>2. {Least(coord.todo)} \in SUBSET Groups /\ {} \in SUBSET Groups /\ {} \subseteq {Least(coord.todo)}
          /\ (\A g \in {} : leased[g]) /\ \A g \in {Least(coord.todo)} : job140[g] = "off"
      BY <2>2, <3>1
    <3>3. coord.at = "recover"  BY <1>2 DEF RecoverGroups, Coord
    <3> QED BY <2>2, <3>2, <3>3, Zenon
  <2> QED BY <1>2, <2>1, <2>2 DEF RecoverGroups, Store
<1> QED BY <1>1, <1>2

\* A job is at the newest operation that began its group.
LEMMA JobEffect ==
    ASSUME GroupsTyped, Grouped, JobSteps
    PROVE  \E g \in Groups, l \in 1..Plans :
             /\ Newest(l, g) /\ leased[g] /\ told[g].by = l /\ job140[g] # "off"
             /\ UNCHANGED <<stack, receipt, coord>>
             /\ \/ /\ txn140[l][g] = "open" /\ leased' = leased
                   /\ \/ /\ \E p \in {"committed", "rolled_back"} : txn140' = [txn140 EXCEPT ![l][g] = p]
                         /\ told' = told /\ job140' = [job140 EXCEPT ![g] = "publish"]
                      \/ /\ txn140' = txn140 /\ told' = [told EXCEPT ![g].phase = "rollback_failed"]
                         /\ job140' = [job140 EXCEPT ![g] = "off"]
                \/ /\ txn140[l][g] \in {"committed", "rolled_back"} /\ txn140' = txn140
                   /\ leased' = leased \/ (leased' = [leased EXCEPT ![g] = FALSE] /\ job140' = [job140 EXCEPT ![g] = "off"])
                   /\ \/ told' = told \/ told' = [told EXCEPT ![g].phase = "rollback_failed"]
                      \/ told' = [told EXCEPT ![g].phase = Outcome140(txn140[l][g])]
                   /\ job140' \in {[job140 EXCEPT ![g] = "release"], [job140 EXCEPT ![g] = "off"]}
<1>1. PICK g \in Groups : GroupEnds(g) \/ GroupTells(g) \/ GroupReleases(g)  BY DEF JobSteps
<1>2. job140[g] \in {"run", "publish", "release"} /\ UNCHANGED <<stack, receipt, coord>>
  BY <1>1 DEF GroupEnds, GroupTells, GroupReleases, Job, stackVars
<1>3. PICK l \in 1..Plans : Newest(l, g) /\ told[g].by = l /\ leased[g]  BY <1>2 DEF Grouped
<1>4. Owner140(g) = l  BY <1>3, OwnerIs
<1>5. CASE GroupEnds(g)
  <2>1. txn140[l][g] = "open"  BY <1>3, <1>5 DEF Grouped, GroupEnds, Job
  <2> QED BY <1>2, <1>3, <1>4, <1>5, <2>1, Zenon DEF GroupEnds, Moves
<1>6. CASE GroupTells(g)
  <2>1. txn140[l][g] \in {"committed", "rolled_back"}
    BY <1>3, <1>6 DEF Grouped, GroupTells, Job
  <2>2. /\ \/ told' = told \/ told' = [told EXCEPT ![g].phase = "rollback_failed"]
           \/ told' = [told EXCEPT ![g].phase = Outcome140(txn140[l][g])]
        /\ job140' \in {[job140 EXCEPT ![g] = "release"], [job140 EXCEPT ![g] = "off"]}
        /\ txn140' = txn140 /\ leased' = leased
    BY <1>4, <1>6 DEF GroupTells, Moves
  <2> QED BY <1>2, <1>3, <2>1, <2>2, Zenon
<1>7. CASE GroupReleases(g)
  <2>1. txn140[l][g] \in {"committed", "rolled_back"}
    BY <1>3, <1>7 DEF Grouped, GroupReleases, Job
  <2>2. job140' = [job140 EXCEPT ![g] = "off"] /\ txn140' = txn140 /\ told' = told
        /\ leased' \in {leased, [leased EXCEPT ![g] = FALSE]}
    BY <1>7, Zenon DEF GroupReleases, Moves
  <2>3. job140' \in {[job140 EXCEPT ![g] = "release"], [job140 EXCEPT ![g] = "off"]}  BY <2>2
  <2>4. leased' = leased \/ (leased' = [leased EXCEPT ![g] = FALSE] /\ job140' = [job140 EXCEPT ![g] = "off"])
    BY <2>2, Zenon
  <2> QED BY <1>2, <1>3, <2>1, <2>2, <2>3, <2>4, Zenon
<1> QED BY <1>1, <1>5, <1>6, <1>7

\* A transaction is begun by the coordinator alone, and ends only while it holds its leases.
LEMMA TxnEffect ==
    ASSUME StackTyped, GroupsTyped, Awake, Grouped, UpgradeNext
    PROVE  /\ \A n \in 1..Plans, g \in Groups :
                 \/ txn140'[n][g] = txn140[n][g]
                 \/ txn140[n][g] = "open" /\ txn140'[n][g] \in {"committed", "rolled_back"} /\ leased[g]
                 \/ StartGroup /\ n = stack.id /\ g = coord.g /\ txn140[n][g] = "none"
           /\ \A g \in Groups : leased'[g] => leased[g] \/ (StartGroup /\ g = coord.g)
<1>0. stack.id \in 0..Plans /\ coord.g \in Groups  BY DEF StackTyped, Operations, Coordinators
<1>1. CASE UNCHANGED groupFiles  BY <1>1 DEF groupFiles
<1>2. CASE PanelStarts \/ RecoverGroups
  <2>1. UNCHANGED groupFiles \/ \E lot, broken \in SUBSET Groups :
           Recover140(lot, broken) /\ broken \subseteq lot /\ \A g \in broken : leased[g]
    BY <1>2, RecoverCases
  <2>2. ASSUME NEW lot \in SUBSET Groups, NEW broken \in SUBSET Groups, Recover140(lot, broken), broken \subseteq lot,
               \A g \in broken : leased[g]
        PROVE  /\ \A n \in 1..Plans, g \in Groups :
                     \/ txn140'[n][g] = txn140[n][g]
                     \/ txn140[n][g] = "open" /\ txn140'[n][g] \in {"committed", "rolled_back"} /\ leased[g]
               /\ \A g \in Groups : leased'[g] => leased[g]
    <3>1. LotBack(lot) /\ Freed(lot)  BY <2>2, RecoverEffect
    <3> QED BY <3>1 DEF LotBack, Freed
  <2> QED BY <1>1, <2>1, <2>2
<1>3. CASE StartGroup
  <2>1. \A n \in 1..Plans, g \in Groups : txn140'[n][g] = txn140[n][g] \/ (n = stack.id /\ g = coord.g /\ txn140[n][g] = "none")
    <3>1. ASSUME Phase(coord.g) = "none", NEW p, txn140' = [txn140 EXCEPT ![stack.id][coord.g] = p],
                 NEW n \in 1..Plans, NEW g \in Groups
          PROVE  txn140'[n][g] = txn140[n][g] \/ (n = stack.id /\ g = coord.g /\ txn140[n][g] = "none")
      BY <3>1 DEF GroupsTyped, Phase
    <3> QED BY <1>3, <3>1, StartEffect
  <2>2. \A g \in Groups : leased'[g] => leased[g] \/ g = coord.g
    BY <1>3, StartEffect, Zenon DEF GroupsTyped
  <2> QED BY <1>3, <2>1, <2>2
<1>4. CASE JobSteps
  <2>1. PICK g \in Groups, l \in 1..Plans :
           /\ leased[g] /\ (leased' = leased \/ leased' = [leased EXCEPT ![g] = FALSE])
           /\ txn140' = txn140 \/ (txn140[l][g] = "open" /\ \E p \in {"committed", "rolled_back"} : txn140' = [txn140 EXCEPT ![l][g] = p])
    BY <1>4, JobEffect
  <2>2. \A h \in Groups : leased'[h] => leased[h]  BY <2>1, Zenon DEF GroupsTyped
  <2>3. ASSUME NEW p \in {"committed", "rolled_back"}, txn140[l][g] = "open", txn140' = [txn140 EXCEPT ![l][g] = p],
               NEW n \in 1..Plans, NEW h \in Groups
        PROVE  txn140'[n][h] = txn140[n][h] \/ (txn140[n][h] = "open" /\ txn140'[n][h] \in {"committed", "rolled_back"} /\ leased[h])
    BY <2>1, <2>3 DEF GroupsTyped
  <2> QED BY <2>1, <2>2, <2>3
<1> QED BY FilesEffect, <1>1, <1>2, <1>3, <1>4

\* Where no transaction begins, the newest operation of a group stays the newest.
LEMMA NewestKept ==
    ASSUME \A n \in 1..Plans, g \in Groups : txn140'[n][g] = "none" <=> txn140[n][g] = "none"
    PROVE  \A n \in 1..Plans, g \in Groups : Newest(n, g)' <=> Newest(n, g)
BY DEF Newest

LEMMA GroupedRecovers ==
    ASSUME StackTyped, Consented, GroupsTyped, Grouped, NEW lot \in SUBSET Groups, NEW broken \in SUBSET Groups, Recover140(lot, broken),
           broken \subseteq lot, \A g \in broken : leased[g], \A g \in lot : job140[g] = "off",
           UNCHANGED <<stack, job140>>
    PROVE  Grouped'
<1>0. stack.scope \subseteq Groups /\ (stack.scope # {} => stack.id \in 1..Plans)
  BY DEF StackTyped, Operations, Consented, Grouped
<1>1. /\ \A n \in 1..Plans, g \in Groups :
            txn140'[n][g] = txn140[n][g] \/ (g \in lot /\ txn140[n][g] = "open" /\ txn140'[n][g] = "rolled_back")
      /\ \A g \in Groups :
            \/ told'[g] = told[g]
            \/ g \in lot /\ \E n \in 1..Plans : Newest(n, g) /\ told'[g].by = n
                    /\ (told'[g].phase = "succeeded" => txn140'[n][g] = "committed")
      /\ \A g \in Groups : leased[g] => leased'[g] \/ g \in lot
  <2>1. LotBack(lot) /\ Retold(lot) /\ Freed(lot)  BY RecoverEffect
  <2> QED BY <2>1 DEF LotBack, Retold, Freed
<1>2. \A n \in 1..Plans, g \in Groups : Newest(n, g)' <=> Newest(n, g)  BY <1>1, NewestKept
<1>g. \A g \in Groups : job140[g] # "off" => g \notin lot  OBVIOUS
<1>3. \A n \in 1..Plans, g \in Groups : txn140'[n][g] # "none" =>
         n <= stack'.id /\ \E l \in 1..Plans : Newest(l, g)'
  BY <1>1, <1>2 DEF Grouped
<1>4. \A g \in Groups : job140'[g] # "off" =>
         leased'[g] /\ \E l \in 1..Plans : Newest(l, g)' /\ told'[g].by = l
  BY <1>1, <1>2, <1>g DEF Grouped
<1>5. \A g \in Groups, l \in 1..Plans : Newest(l, g)' =>
         /\ job140'[g] = "run" => txn140'[l][g] = "open"
         /\ job140'[g] \in {"publish", "release"} => txn140'[l][g] \in {"committed", "rolled_back"}
  BY <1>1, <1>2, <1>g DEF Grouped
<1>6. \A g \in stack'.scope : job140'[g] # "off" => txn140'[stack'.id][g] # "none"
  BY <1>0, <1>1, <1>g DEF Grouped
<1>7. \A g \in Groups, n \in 1..Plans :
         told'[g].by = n /\ told'[g].phase = "succeeded" => txn140'[n][g] = "committed"
  <2> SUFFICES ASSUME NEW g \in Groups, NEW n \in 1..Plans, told'[g].by = n, told'[g].phase = "succeeded"
               PROVE  txn140'[n][g] = "committed"
    OBVIOUS
  <2>1. CASE told'[g] = told[g]
    <3>1. txn140[n][g] = "committed"  BY <2>1 DEF Grouped
    <3> QED BY <1>1, <3>1
  <2> QED BY <1>1, <2>1
<1>8. \A g \in stack'.scope : txn140'[stack'.id][g] = "committed" => told'[g].by = stack'.id
  <2> SUFFICES ASSUME NEW g \in stack.scope, txn140'[stack.id][g] = "committed"
               PROVE  told'[g].by = stack.id
    OBVIOUS
  <2>1. g \in Groups /\ stack.id \in 1..Plans  BY <1>0
  <2>2. txn140[stack.id][g] = "committed" /\ told[g].by = stack.id  BY <1>1, <2>1 DEF Grouped
  <2>3. ASSUME NEW n \in 1..Plans, Newest(n, g) PROVE n = stack.id
    BY <2>1, <2>2, <2>3 DEF Newest, Grouped
  <2> QED BY <1>1, <2>1, <2>2, <2>3
<1>9. stack'.phase \in {"none", "preparing"} => stack'.scope = {}  BY DEF Grouped
<1> QED BY <1>3, <1>4, <1>5, <1>6, <1>7, <1>8, <1>9 DEF Grouped

LEMMA GroupedStarts ==
    ASSUME StackTyped, GroupsTyped, Consented, CoordTold, Grouped, StartGroup
    PROVE  Grouped'
<1>0. /\ stack.scope \subseteq Groups /\ coord.g \in stack.scope /\ coord.g \in Groups /\ stack.id \in 1..Plans
      /\ told[coord.g].by # stack.id /\ coord.at = "validate"
  <2>1. coord.at = "validate"  BY StartEffect
  <2> QED BY <2>1 DEF StackTyped, Operations, Coordinators, Consented, CoordTold, GroupLoop
<1>1. ~leased[coord.g] /\ UNCHANGED stack  BY StartEffect
<1>p. PICK c \in Groups : c = coord.g  BY <1>0
<1>2. \A n \in 1..Plans, g \in Groups : g # coord.g \/ n # stack.id => txn140'[n][g] = txn140[n][g]
  <2>1. ASSUME NEW p, txn140' = [txn140 EXCEPT ![stack.id][coord.g] = p], NEW n \in 1..Plans, NEW g \in Groups, g # coord.g \/ n # stack.id
        PROVE  txn140'[n][g] = txn140[n][g]
    BY <2>1 DEF GroupsTyped
  <2> QED BY <2>1, StartEffect
<1>3. txn140'[stack.id][coord.g] \in {"none", "open", "claim_failed"} \/ txn140' = txn140
  <2>1. ASSUME NEW p \in {"none", "open", "claim_failed"}, txn140' = [txn140 EXCEPT ![stack.id][coord.g] = p]
        PROVE  txn140'[stack.id][coord.g] = p
    BY <1>0, <2>1 DEF GroupsTyped
  <2> QED BY <2>1, StartEffect
<1>4. txn140[stack.id][coord.g] # "committed"  BY <1>0 DEF Grouped
<1>5. \A g \in Groups : told'[g] = told[g] \/ (g = coord.g /\ told'[g].by = stack.id /\ told'[g].phase # "succeeded")
  <2>1. ASSUME NEW p \in {"active", "failed_rolled_back"}, told' = [told EXCEPT ![coord.g] = [by |-> stack.id, phase |-> p]],
               NEW g \in Groups
        PROVE  told'[g] = told[g] \/ (g = coord.g /\ told'[g].by = stack.id /\ told'[g].phase # "succeeded")
    BY <1>0, <2>1 DEF GroupsTyped
  <2> QED BY <2>1, StartEffect
<1>6. \A g \in Groups : leased[g] => leased'[g]
  BY <1>0, <1>1, StartEffect, Zenon DEF GroupsTyped
<1>7. job140[coord.g] = "off"  BY <1>0, <1>1 DEF Grouped
<1>8. \A g \in Groups : \/ job140'[g] = job140[g]
                        \/ /\ g = coord.g /\ job140'[g] = "run" /\ leased'[g] /\ txn140'[stack.id][g] = "open" /\ told'[g].by = stack.id
  <2>1. CASE UNCHANGED job140  BY <2>1
  <2>2. CASE /\ txn140' = [txn140 EXCEPT ![stack.id][coord.g] = "open"]
             /\ told' = [told EXCEPT ![coord.g] = [by |-> stack.id, phase |-> "active"]]
             /\ leased' = [leased EXCEPT ![coord.g] = TRUE] /\ job140' = [job140 EXCEPT ![coord.g] = "run"]
    <3>1. leased'[coord.g]  BY <1>0, <2>2, Zenon DEF GroupsTyped
    <3> QED BY <1>0, <2>2, <3>1 DEF GroupsTyped
  <2> QED BY <2>1, <2>2, StartEffect
\* the newest operation of the group is the current one as soon as it has a record
<1>9. \A g \in Groups : g # coord.g => \A n \in 1..Plans : Newest(n, g)' <=> Newest(n, g)
  BY <1>2 DEF Newest
<1>10. txn140'[stack.id][coord.g] # "none" => \A n \in 1..Plans : Newest(n, c)' <=> n = stack.id
  <2>1. \A n \in 1..Plans : txn140'[n][coord.g] # "none" => n <= stack.id
    BY <1>0, <1>2 DEF Grouped
  <2> QED BY <1>0, <1>p, <2>1 DEF Newest
<1>11. txn140[stack.id][coord.g] # "none" => txn140'[stack.id][coord.g] # "none"
  BY <1>0, StartEffect DEF Phase
<1>12. txn140'[stack.id][coord.g] = "none" => \A n \in 1..Plans : txn140'[n][coord.g] = txn140[n][coord.g]
  BY <1>0, <1>2, <1>11
<1>13. txn140'[stack.id][coord.g] = "none" => \A n \in 1..Plans : Newest(n, c)' <=> Newest(n, c)
  BY <1>0, <1>p, <1>12 DEF Newest
<1>a. \A n \in 1..Plans, g \in Groups : txn140'[n][g] # "none" =>
         n <= stack'.id /\ \E l \in 1..Plans : Newest(l, g)'
  <2> SUFFICES ASSUME NEW n \in 1..Plans, NEW g \in Groups, txn140'[n][g] # "none"
               PROVE  n <= stack.id /\ \E l \in 1..Plans : Newest(l, g)'
    BY <1>1
  <2>1. CASE g # coord.g  BY <1>2, <1>9, <2>1 DEF Grouped
  <2>2. CASE g = coord.g /\ txn140'[stack.id][coord.g] # "none"
    <3>1. n <= stack.id  BY <1>0, <1>2, <2>2 DEF Grouped
    <3> QED BY <1>0, <1>p, <1>10, <2>2, <3>1
  <2>3. CASE g = coord.g /\ txn140'[stack.id][coord.g] = "none"
    BY <1>p, <1>12, <1>13, <2>3 DEF Grouped
  <2> QED BY <2>1, <2>2, <2>3
<1>b. \A g \in Groups : job140'[g] # "off" =>
         leased'[g] /\ \E l \in 1..Plans : Newest(l, g)' /\ told'[g].by = l
  <2> SUFFICES ASSUME NEW g \in Groups, job140'[g] # "off"
               PROVE  leased'[g] /\ \E l \in 1..Plans : Newest(l, g)' /\ told'[g].by = l
    OBVIOUS
  <2>1. CASE g # coord.g
    <3>1. job140[g] # "off" /\ told'[g] = told[g]  BY <1>5, <1>8, <2>1
    <3> QED BY <1>6, <1>9, <2>1, <3>1 DEF Grouped
  <2>2. CASE g = coord.g  BY <1>0, <1>p, <1>7, <1>8, <1>10, <2>2
  <2> QED BY <2>1, <2>2
<1>c. \A g \in Groups, l \in 1..Plans : Newest(l, g)' =>
         /\ job140'[g] = "run" => txn140'[l][g] = "open"
         /\ job140'[g] \in {"publish", "release"} => txn140'[l][g] \in {"committed", "rolled_back"}
  <2> SUFFICES ASSUME NEW g \in Groups, NEW l \in 1..Plans, Newest(l, g)'
               PROVE  /\ job140'[g] = "run" => txn140'[l][g] = "open"
                      /\ job140'[g] \in {"publish", "release"} => txn140'[l][g] \in {"committed", "rolled_back"}
    OBVIOUS
  <2>1. CASE g # coord.g  BY <1>2, <1>8, <1>9, <2>1 DEF Grouped
  <2>2. CASE g = coord.g  BY <1>0, <1>p, <1>7, <1>8, <1>10, <2>2
  <2> QED BY <2>1, <2>2
<1>d. \A g \in stack'.scope : job140'[g] # "off" => txn140'[stack'.id][g] # "none"
  <2> SUFFICES ASSUME NEW g \in stack.scope, job140'[g] # "off" PROVE txn140'[stack.id][g] # "none"
    BY <1>1
  <2>1. CASE g # coord.g  BY <1>0, <1>2, <1>8, <2>1 DEF Grouped
  <2>2. CASE g = coord.g  BY <1>0, <1>7, <1>8, <2>2
  <2> QED BY <2>1, <2>2
<1>e. \A g \in Groups, n \in 1..Plans :
         told'[g].by = n /\ told'[g].phase = "succeeded" => txn140'[n][g] = "committed"
  <2> SUFFICES ASSUME NEW g \in Groups, NEW n \in 1..Plans, told'[g].by = n, told'[g].phase = "succeeded"
               PROVE  txn140'[n][g] = "committed"
    OBVIOUS
  <2>1. told'[g] = told[g] /\ txn140[n][g] = "committed"  BY <1>5 DEF Grouped
  <2> QED BY <1>2, <1>4, <2>1
<1>f. \A g \in stack'.scope : txn140'[stack'.id][g] = "committed" => told'[g].by = stack'.id
  <2> SUFFICES ASSUME NEW g \in stack.scope, txn140'[stack.id][g] = "committed" PROVE told'[g].by = stack.id
    BY <1>1
  <2>1. g # coord.g  BY <1>3, <1>4
  <2> QED BY <1>0, <1>2, <1>5, <2>1 DEF Grouped
<1>g. stack'.phase \in {"none", "preparing"} => stack'.scope = {}  BY <1>1 DEF Grouped
<1> QED BY <1>a, <1>b, <1>c, <1>d, <1>e, <1>f, <1>g DEF Grouped

LEMMA GroupedJobs ==
    ASSUME StackTyped, Consented, GroupsTyped, Grouped, JobSteps
    PROVE  Grouped'
<1>0. stack.scope \subseteq Groups /\ (stack.scope # {} => stack.id \in 1..Plans)
  BY DEF StackTyped, Operations, Consented, Grouped
<1>1. PICK g \in Groups, l \in 1..Plans :
         /\ Newest(l, g) /\ leased[g] /\ told[g].by = l /\ job140[g] # "off"
         /\ UNCHANGED <<stack, receipt, coord>>
         /\ \/ /\ txn140[l][g] = "open" /\ leased' = leased
               /\ \/ /\ \E p \in {"committed", "rolled_back"} : txn140' = [txn140 EXCEPT ![l][g] = p]
                     /\ told' = told /\ job140' = [job140 EXCEPT ![g] = "publish"]
                  \/ /\ txn140' = txn140 /\ told' = [told EXCEPT ![g].phase = "rollback_failed"]
                     /\ job140' = [job140 EXCEPT ![g] = "off"]
            \/ /\ txn140[l][g] \in {"committed", "rolled_back"} /\ txn140' = txn140
               /\ leased' = leased \/ (leased' = [leased EXCEPT ![g] = FALSE] /\ job140' = [job140 EXCEPT ![g] = "off"])
               /\ \/ told' = told \/ told' = [told EXCEPT ![g].phase = "rollback_failed"]
                  \/ told' = [told EXCEPT ![g].phase = Outcome140(txn140[l][g])]
               /\ job140' \in {[job140 EXCEPT ![g] = "release"], [job140 EXCEPT ![g] = "off"]}
  BY JobEffect
<1>2. \A n \in 1..Plans, h \in Groups :
         txn140'[n][h] = txn140[n][h] \/ (n = l /\ h = g /\ txn140[n][h] = "open" /\ txn140'[n][h] \in {"committed", "rolled_back"})
  <2>1. ASSUME NEW p \in {"committed", "rolled_back"}, txn140[l][g] = "open", txn140' = [txn140 EXCEPT ![l][g] = p],
               NEW n \in 1..Plans, NEW h \in Groups
        PROVE  txn140'[n][h] = txn140[n][h] \/ (n = l /\ h = g /\ txn140[n][h] = "open" /\ txn140'[n][h] \in {"committed", "rolled_back"})
    BY <2>1 DEF GroupsTyped
  <2> QED BY <1>1, <2>1
<1>3. \A n \in 1..Plans, h \in Groups : Newest(n, h)' <=> Newest(n, h)  BY <1>2, NewestKept
<1>4. \A h \in Groups : /\ told'[h].by = told[h].by
                        /\ told'[h] = told[h] \/ (h = g /\ (told'[h].phase = "succeeded" => txn140[l][g] = "committed"))
  <2>1. \A p : told' = [told EXCEPT ![g].phase = p] =>
           \A h \in Groups : told'[h].by = told[h].by /\ (told'[h] = told[h] \/ (h = g /\ told'[h].phase = p))
    BY DEF GroupsTyped
  <2>2. Outcome140(txn140[l][g]) = "succeeded" => txn140[l][g] = "committed"  BY DEF Outcome140
  <2> QED BY <1>1, <2>1, <2>2
<1>5. \A h \in Groups : job140'[h] # "off" => (leased'[h] = leased[h] /\ job140[h] # "off") \/ (h = g /\ leased'[h])
  <2>1. CASE leased' = leased  BY <1>1, <2>1 DEF GroupsTyped
  <2>2. CASE leased' = [leased EXCEPT ![g] = FALSE] /\ job140' = [job140 EXCEPT ![g] = "off"]
    <3>1. \A h \in Groups : h # g => leased'[h] = leased[h]  BY <2>2, Zenon DEF GroupsTyped
    <3>2. \A h \in Groups : job140'[h] # "off" => h # g /\ job140[h] # "off"
      BY <2>2 DEF GroupsTyped
    <3> QED BY <3>1, <3>2
  <2> QED BY <1>1, <2>1, <2>2
<1>6. \A h \in Groups : h # g => job140'[h] = job140[h]  BY <1>1 DEF GroupsTyped
<1>7. job140'[g] # "run" /\ (job140'[g] # "off" => txn140'[l][g] \in {"committed", "rolled_back"})
  <2>1. ASSUME NEW p \in {"committed", "rolled_back"}, txn140' = [txn140 EXCEPT ![l][g] = p] PROVE txn140'[l][g] = p
    BY <2>1 DEF GroupsTyped
  <2> QED BY <1>1, <2>1 DEF GroupsTyped
<1>a. \A n \in 1..Plans, h \in Groups : txn140'[n][h] # "none" =>
         n <= stack'.id /\ \E m \in 1..Plans : Newest(m, h)'
  BY <1>1, <1>2, <1>3 DEF Grouped
<1>b. \A h \in Groups : job140'[h] # "off" =>
         leased'[h] /\ \E m \in 1..Plans : Newest(m, h)' /\ told'[h].by = m
  BY <1>1, <1>3, <1>4, <1>5 DEF Grouped
<1>c. \A h \in Groups, m \in 1..Plans : Newest(m, h)' =>
         /\ job140'[h] = "run" => txn140'[m][h] = "open"
         /\ job140'[h] \in {"publish", "release"} => txn140'[m][h] \in {"committed", "rolled_back"}
  <2> SUFFICES ASSUME NEW h \in Groups, NEW m \in 1..Plans, Newest(m, h)'
               PROVE  /\ job140'[h] = "run" => txn140'[m][h] = "open"
                      /\ job140'[h] \in {"publish", "release"} => txn140'[m][h] \in {"committed", "rolled_back"}
    OBVIOUS
  <2>1. Newest(m, h)  BY <1>3
  <2>2. CASE h = g
    <3>1. m = l  BY <1>1, <2>1, <2>2 DEF Newest
    <3> QED BY <1>7, <2>2, <3>1
  <2>3. CASE h # g  BY <1>2, <1>6, <2>1, <2>3 DEF Grouped
  <2> QED BY <2>2, <2>3
<1>d. \A h \in stack'.scope : job140'[h] # "off" => txn140'[stack'.id][h] # "none"
  <2> SUFFICES ASSUME NEW h \in stack.scope, job140'[h] # "off" PROVE txn140'[stack.id][h] # "none"
    BY <1>1
  <2>0. h \in Groups /\ stack.id \in 1..Plans  BY <1>0
  <2>1. job140[h] # "off"
    <3>1. h = g => job140[g] # "off"  BY <1>1
    <3> QED BY <1>6, <2>0, <3>1
  <2> QED BY <1>2, <2>0, <2>1 DEF Grouped
<1>e. \A h \in Groups, n \in 1..Plans :
         told'[h].by = n /\ told'[h].phase = "succeeded" => txn140'[n][h] = "committed"
  <2> SUFFICES ASSUME NEW h \in Groups, NEW n \in 1..Plans, told'[h].by = n, told'[h].phase = "succeeded"
               PROVE  txn140'[n][h] = "committed"
    OBVIOUS
  <2>1. txn140[n][h] = "committed"  BY <1>1, <1>4 DEF Grouped
  <2> QED BY <1>2, <2>1
<1>f. \A h \in stack'.scope : txn140'[stack'.id][h] = "committed" => told'[h].by = stack'.id
  <2> SUFFICES ASSUME NEW h \in stack.scope, txn140'[stack.id][h] = "committed" PROVE told'[h].by = stack.id
    BY <1>1
  <2>1. h \in Groups /\ stack.id \in 1..Plans  BY <1>0
  <2>2. CASE txn140'[stack.id][h] = txn140[stack.id][h]  BY <1>4, <2>1, <2>2 DEF Grouped
  <2>3. CASE stack.id = l /\ h = g  BY <1>1, <1>4, <2>1, <2>3
  <2> QED BY <1>2, <2>1, <2>2, <2>3
<1>g. stack'.phase \in {"none", "preparing"} => stack'.scope = {}  BY <1>1 DEF Grouped
<1> QED BY <1>a, <1>b, <1>c, <1>d, <1>e, <1>f, <1>g DEF Grouped

LEMMA GroupedStep ==
    ASSUME StackTyped, GroupsTyped, Awake, Consented, Grouped, CoordTold, UpgradeNext
    PROVE  Grouped'
<1>1. CASE UNCHANGED groupFiles /\ (UNCHANGED job140 \/ Forgotten)
  <2>0. stack.id \in 0..Plans /\ stack.scope \subseteq Groups  BY DEF StackTyped, Operations
  <2>1. \A g \in Groups : job140'[g] # "off" => job140'[g] = job140[g]  BY <1>1 DEF Forgotten
  <2>2. UNCHANGED <<txn140, told, leased>>  BY <1>1 DEF groupFiles
  <2>3. \A n \in 1..Plans, g \in Groups : Newest(n, g)' <=> Newest(n, g)  BY <2>2, NewestKept
  <2>s. stack'.id \in {stack.id, stack.id + 1} /\ stack'.scope \subseteq Groups
    BY <2>0, ScopeEffect
  <2>4. \A n \in 1..Plans, g \in Groups : txn140'[n][g] # "none" =>
           n <= stack'.id /\ \E l \in 1..Plans : Newest(l, g)'
    <3> SUFFICES ASSUME NEW n \in 1..Plans, NEW g \in Groups, txn140'[n][g] # "none"
                 PROVE  n <= stack'.id /\ \E l \in 1..Plans : Newest(l, g)'
      OBVIOUS
    <3>1. n <= stack.id /\ \E l \in 1..Plans : Newest(l, g)  BY <2>2 DEF Grouped
    <3> QED BY <2>0, <2>3, <2>s, <3>1
  <2>5. \A g \in Groups : job140'[g] # "off" =>
           leased'[g] /\ \E l \in 1..Plans : Newest(l, g)' /\ told'[g].by = l
    BY <2>1, <2>2, <2>3 DEF Grouped
  <2>6. \A g \in Groups, l \in 1..Plans : Newest(l, g)' =>
           /\ job140'[g] = "run" => txn140'[l][g] = "open"
           /\ job140'[g] \in {"publish", "release"} => txn140'[l][g] \in {"committed", "rolled_back"}
    BY <2>1, <2>2, <2>3 DEF Grouped
  <2>7. \A g \in Groups, n \in 1..Plans :
           told'[g].by = n /\ told'[g].phase = "succeeded" => txn140'[n][g] = "committed"
    BY <2>2 DEF Grouped
  <2>8. /\ \A g \in stack'.scope : job140'[g] # "off" => txn140'[stack'.id][g] # "none"
        /\ \A g \in stack'.scope : txn140'[stack'.id][g] = "committed" => told'[g].by = stack'.id
        /\ stack'.phase \in {"none", "preparing"} => stack'.scope = {}
    <3>1. CASE /\ stack'.id = stack.id /\ stack'.scope = stack.scope
               /\ stack'.phase = stack.phase \/ stack'.phase \notin {"none", "preparing"}
      BY <2>0, <2>1, <2>2, <3>1 DEF Grouped
    <3>2. CASE stack'.scope = {}  BY <3>2
    <3>3. CASE /\ Preflight /\ stack'.id = stack.id /\ stack'.scope \subseteq Groups
               /\ \A g \in stack'.scope : ~leased[g] /\ \A n \in 1..Plans : txn140[n][g] # "committed"
               /\ stack'.phase \notin {"none", "preparing"}
      <4>1. \A g \in stack'.scope : job140'[g] = "off"  BY <2>1, <3>3 DEF Grouped
      <4>2. stack.id \in 1..Plans  BY <2>0, <3>3 DEF Preflight, Consented
      <4> QED BY <2>2, <3>3, <4>1, <4>2
    <3> QED BY ScopeEffect, <3>1, <3>2, <3>3
  <2> QED BY <2>4, <2>5, <2>6, <2>7, <2>8 DEF Grouped
<1>2. CASE PanelStarts \/ RecoverGroups
  <2>1. CASE UNCHANGED <<groupFiles, job140>>  BY <1>1, <2>1
  <2>2. ASSUME NEW lot \in SUBSET Groups, NEW broken \in SUBSET Groups, Recover140(lot, broken), broken \subseteq lot,
               \A g \in broken : leased[g], \A g \in lot : job140[g] = "off", UNCHANGED <<stack, job140>>
        PROVE  Grouped'
    BY <2>2, GroupedRecovers
  <2> QED BY <1>2, <2>1, <2>2, RecoverCases
<1>3. CASE StartGroup  BY <1>3, GroupedStarts
<1>4. CASE JobSteps  BY <1>4, GroupedJobs
<1> QED BY FilesEffect, <1>1, <1>2, <1>3, <1>4

-----------------------------------------------------------------------------
(* What the operation says of its groups                                   *)

\* A group that is committed stays so.
LEMMA CommittedKept ==
    ASSUME StackTyped, GroupsTyped, Awake, Consented, Grouped, UpgradeNext, stack'.id = stack.id, NEW g \in stack.scope,
           Phase(g) = "committed"
    PROVE  Phase(g)' = "committed"
<1>1. g \in Groups /\ stack.id \in 1..Plans  BY DEF StackTyped, Operations, Consented, Grouped
<1> QED BY <1>1, TxnEffect DEF Phase

\* Where a part of the operation may become "succeeded".
LEMMA PartsEffect ==
    ASSUME StackTyped, GroupsTyped, UpgradeNext, ~PrepareFullStack, ~Preflight, NEW g \in Groups,
           stack'.part[g] = "succeeded" \/ coord'.part[g] = "succeeded"
    PROVE  \/ stack.part[g] = "succeeded" \/ coord.part[g] = "succeeded" \/ Phase(g) = "committed"
           \/ g = coord.g /\ coord.at = "wait" /\ told[g].phase = "succeeded"
           \/ g = coord.g /\ coord.at = "keep"
<1>0. /\ DOMAIN stack = {"id", "phase", "auth", "cont", "pid", "target", "scope", "part", "cancelled"}
      /\ DOMAIN coord = {"at", "g", "todo", "part", "end"} /\ coord.part \in [Groups -> Parts] /\ coord.g \in Groups
      /\ coord.todo \in SUBSET Groups
  BY DEF StackTyped, Operations, Coordinators
<1>i. Idle.part[g] = "prepared" /\ DOMAIN Idle = {"at", "g", "todo", "part", "end"}  BY DEF Idle
<1>1. CASE ~Recording /\ ~Deciding  BY <1>1, <1>i, OperationEffect
<1>2. CASE CancelPrepared
  <2>1. coord' = coord /\ stack' \in {stack, [stack EXCEPT !.phase = "failed_safe", !.cancelled = TRUE]}
    BY <1>2 DEF CancelPrepared, WriteStack
  <2> QED BY <1>0, <2>1
<1>3. CASE RequestRecovery
  <2>1. coord' \in {Idle, [Idle EXCEPT !.at = "recover", !.todo = stack.scope, !.part = stack.part]}
        /\ stack' \in {stack, [stack EXCEPT !.phase = "recovering", !.cancelled = FALSE]}
    BY <1>3 DEF RequestRecovery, WriteStack
  <2>2. [Idle EXCEPT !.at = "recover", !.todo = stack.scope, !.part = stack.part].part = stack.part
    BY DEF Idle
  <2>3. stack'.part = stack.part  BY <1>0, <2>1
  <2> QED BY <1>i, <2>1, <2>2, <2>3
<1>4. CASE NextGroup
  <2>1. \/ coord' = Idle \/ \E h, a : coord' = [coord EXCEPT !.g = h, !.at = a]
    BY <1>4 DEF NextGroup, Store, WriteStack
  <2>2. stack' \in {stack, [stack EXCEPT !.phase = "succeeded", !.part = coord.part]}
    BY <1>4 DEF NextGroup, Store, WriteStack, Only
  <2> QED BY <1>0, <1>i, <2>1, <2>2
<1>5. CASE FinishFailure
  <2>1. coord' = Idle /\ stack' \in {stack, [stack EXCEPT !.phase = coord.end, !.part = coord.part]}
    BY <1>5 DEF FinishFailure, Store, WriteStack
  <2> QED BY <1>0, <1>i, <2>1
<1>6. CASE Polled
  <2>1. coord.at = "wait" /\ stack' = stack
        /\ \E a, e : \/ coord' = [[coord EXCEPT !.part = [coord.part EXCEPT ![coord.g] = told[coord.g].phase]] EXCEPT !.at = a]
                     \/ coord' = [[coord EXCEPT !.part = [coord.part EXCEPT ![coord.g] = told[coord.g].phase]] EXCEPT !.at = a, !.end = e]
    BY <1>6 DEF Polled, Only, PartNow, Coord
  <2>2. coord'.part = [coord.part EXCEPT ![coord.g] = told[coord.g].phase]  BY <1>0, <2>1
  <2> QED BY <1>0, <2>1, <2>2
<1>7. CASE MarkApplying
  <2> DEFINE part == [coord.part EXCEPT ![coord.g] = "applying"]
  <2>1. coord' \in {Idle, [coord EXCEPT !.at = "wait", !.part = part]} /\ stack' \in {stack, [stack EXCEPT !.part = part]}
    BY <1>7 DEF MarkApplying, Store, WriteStack, PartNow
  <2>2. part[g] = "succeeded" => coord.part[g] = "succeeded"  BY <1>0
  <2> HIDE DEF part
  <2> QED BY <1>0, <1>i, <2>1, <2>2
<1>8. CASE KeepGroup
  <2> DEFINE part == [coord.part EXCEPT ![coord.g] = "succeeded"]
  <2>1. coord' \in {Idle, [coord EXCEPT !.at = "next", !.part = part]} /\ stack' \in {stack, [stack EXCEPT !.part = part]}
        /\ coord.at = "keep"
    BY <1>8 DEF KeepGroup, Store, WriteStack, PartNow, Coord
  <2>2. part[g] = "succeeded" => coord.part[g] = "succeeded" \/ g = coord.g  BY <1>0
  <2> HIDE DEF part
  <2> QED BY <1>0, <1>i, <2>1, <2>2
<1>d. ASSUME NEW goal, coord.todo # {}, Done140(goal), coord'.part[g] = "succeeded"
      PROVE  coord.part[g] = "succeeded" \/ Phase(g) = "committed"
  <2>1. Least(coord.todo) \in Groups  BY <1>0, <1>d, LeastOf
  <2>2. coord'.part = [coord.part EXCEPT ![Least(coord.todo)] = PartProven(Least(coord.todo))]
    <3>1. coord' = [coord EXCEPT !.todo = coord.todo \ {Least(coord.todo)}, !.at = goal,
                               !.part = [coord.part EXCEPT ![Least(coord.todo)] = PartProven(Least(coord.todo))]]
      BY <1>d, Zenon DEF Done140
    <3> QED BY <1>0, <3>1
  <2>3. \A h : PartProven(h) = "succeeded" => Phase(h) = "committed"  BY DEF PartProven
  <2> QED BY <1>0, <1>d, <2>1, <2>2, <2>3
<1>e. FinishStack("manual_action") \/ AdvanceHelper("final") => coord'.part = coord.part
  BY <1>0 DEF FinishStack, AdvanceHelper
<1>9. CASE Remaining
  <2>1. stack' = stack /\ (AdvanceHelper("final") \/ (coord.todo # {} /\ Done140("remaining")) \/ FinishStack("manual_action"))
    BY <1>9 DEF Remaining, TerminalCompatibility, Receipts
  <2> QED BY <1>d, <1>e, <2>1
<1>10. CASE RecoverGroups
  <2>1. \/ coord' = Idle /\ (stack' = stack \/ \E p : stack' = [stack EXCEPT !.part = coord.part, !.phase = p])
        \/ stack' = stack /\ (coord' = coord \/ (coord.todo # {} /\ Done140("recover")) \/ FinishStack("manual_action"))
    BY <1>10 DEF RecoverGroups, TerminalCompatibility, Receipts, Store, WriteStack
  <2> QED BY <1>0, <1>d, <1>e, <1>i, <2>1
<1> QED BY <1>1, <1>2, <1>3, <1>4, <1>5, <1>6, <1>7, <1>8, <1>9, <1>10 DEF Recording, Deciding

\* The coordinator has nothing to tell while it is idle.
LEMMA IdleEffect ==
    ASSUME StackTyped, UpgradeNext
    PROVE  coord'.at = "idle" => coord' = Idle \/ (coord' = coord /\ coord.at = "idle")
<1>0. DOMAIN coord = {"at", "g", "todo", "part", "end"}  BY DEF StackTyped, Coordinators
<1>i. DOMAIN Idle = {"at", "g", "todo", "part", "end"}  BY DEF Idle
<1>1. CASE Launches
  <2>1. coord' = coord \/ coord'.at \in {"started", "refused"}  BY <1>0, <1>1, LaunchEffect
  <2> QED BY <2>1
<1>2. CASE HelperSteps \/ PanelStopped  BY <1>2, HelperEffect DEF memory, Forgotten
<1>3. CASE PanelStarts  BY <1>3 DEF PanelStarts, memory
<1>4. CASE JobSteps  BY <1>4 DEF JobSteps, GroupEnds, GroupTells, GroupReleases, Job
<1>5. CASE Requests140
  <2>1. coord' = coord \/ coord' = Idle \/ coord' = [Idle EXCEPT !.at = "recover", !.todo = stack.scope, !.part = stack.part]
    BY <1>5 DEF Requests140, PrepareFullStack, Preflight, Confirm140, CancelPrepared, Expire, RequestRecovery, WriteStack
  <2> QED BY <1>i, <2>1
<1>6. CASE TickSteps
  <2> USE DEF WriteTick, Pause, WriteStack
  <2>1. CASE PreflightInterrupted \/ PanelGaveUp \/ PanelOnItsWay \/ Lapse
    BY <2>1 DEF PreflightInterrupted, PanelGaveUp, PanelOnItsWay, Lapse
  <2>2. CASE ResumeRecovery  BY <1>i, <2>2 DEF ResumeRecovery
  <2>3. CASE StartGroups \/ StartPanel  BY <1>i, <2>3 DEF StartGroups, StartPanel, BeginApply
  <2>4. CASE TargetChanged \/ PanelStarted \/ PanelRefused
    BY <2>4 DEF TargetChanged, PanelStarted, PanelRefused
  <2> QED BY <1>6, <2>1, <2>2, <2>3, <2>4 DEF TickSteps
<1>7. CASE RunnerSteps \/ RecoverGroups
  <2> USE DEF Store, WriteStack
  <2>f. (\E p : FinishStack(p)) \/ (\E a \in {"keep", "mark", "final"} : AdvanceHelper(a)) => coord'.at # "idle"
    BY <1>0 DEF FinishStack, AdvanceHelper
  <2>d. ASSUME NEW goal \in {"remaining", "recover"}, Done140(goal) PROVE coord'.at # "idle"
    <3>1. PICK t, q : coord' = [coord EXCEPT !.todo = t, !.at = goal, !.part = q]
      BY <2>d, Zenon DEF Done140
    <3> QED BY <1>0, <3>1
  <2>1. CASE NextGroup \/ ScopeChanged \/ PollFails
    BY <1>0, <2>1 DEF NextGroup, ScopeChanged, PollFails
  <2>2. CASE StartGroup  BY <1>0, <2>2, StartEffect
  <2>3. CASE MarkApplying \/ KeepGroup  BY <1>0, <2>3 DEF MarkApplying, KeepGroup
  <2>4. CASE Polled  BY <1>0, <2>4 DEF Polled
  <2>5. CASE VerifyRemaining \/ FinishFailure  BY <1>0, <2>5 DEF VerifyRemaining, FinishFailure
  <2>6. CASE WriteCompatibility  BY <2>f, <2>6 DEF WriteCompatibility, Receipts
  <2>7. CASE Remaining  BY <2>d, <2>f, <2>7 DEF Remaining, TerminalCompatibility, Receipts
  <2>8. CASE RecoverGroups
    BY <2>d, <2>f, <2>8 DEF RecoverGroups, TerminalCompatibility, Receipts
  <2> QED BY <1>7, <2>1, <2>2, <2>3, <2>4, <2>5, <2>6, <2>7, <2>8 DEF RunnerSteps
<1> QED BY Kinds140, <1>1, <1>2, <1>3, <1>4, <1>5, <1>6, <1>7

LEMMA PartsToldStep ==
    ASSUME StackTyped, GroupsTyped, Awake, Consented, Grouped, PartsTold, CoordTold, UpgradeNext
    PROVE  PartsTold'
<1>0. stack.scope \subseteq Groups /\ (stack.scope # {} => stack.id \in 1..Plans)
  BY DEF StackTyped, Operations, Consented, Grouped
<1>1. coord'.at = "idle" => \A g \in Groups : coord'.part[g] # "succeeded"
  BY IdleEffect DEF Idle, PartsTold
<1>2. CASE PrepareFullStack
  <2>1. coord' = coord /\ coord.at = "idle" /\ (stack' = stack \/ (stack'.scope = {} /\ \A g \in Groups : stack'.part[g] = "prepared"))
    <3> DEFINE new == [NoStack EXCEPT !.id = stack.id + 1, !.phase = "preparing", !.target = Pin, !.cont = (panelImage # "old")]
    <3>1. coord' = coord /\ coord.at = "idle" /\ stack' \in {stack, new}
      BY <1>2 DEF PrepareFullStack, WriteStack
    <3>2. new.scope = {} /\ new.part = [g \in Groups |-> "prepared"]  BY DEF NoStack
    <3> HIDE DEF new
    <3> QED BY <3>1, <3>2
  <2>2. CASE stack' = stack
    <3>1. \A g \in stack.scope : Phase(g) = "committed" => Phase(g)' = "committed"
      BY <2>2, CommittedKept
    <3> QED BY <1>1, <2>1, <2>2, <3>1 DEF PartsTold
  <2> QED BY <1>1, <2>1, <2>2 DEF PartsTold
<1>3. CASE Preflight
  <2>1. coord' = coord /\ coord.at = "idle" /\ stack.phase = "preparing"
    BY <1>3 DEF Preflight, Consented
  <2>2. \/ stack' = stack \/ stack' = [stack EXCEPT !.phase = "preflight_failed"]
        \/ \E p, s : stack' = [stack EXCEPT !.phase = p, !.scope = s]
    BY <1>3 DEF Preflight, WriteStack
  <2>3. stack'.part = stack.part  BY <2>2 DEF StackTyped, Operations
  <2>4. stack'.scope \subseteq Groups  BY <1>0, ScopeEffect
  <2> QED BY <1>1, <2>1, <2>3, <2>4 DEF PartsTold
<1>4. CASE ~PrepareFullStack /\ ~Preflight
  <2>1. stack'.id = stack.id /\ stack'.scope = stack.scope
        /\ (stack'.phase = stack.phase \/ stack'.phase \notin {"none", "preparing"})
    BY <1>4, ScopeEffect
  <2>2. \A g \in stack'.scope : stack'.part[g] = "succeeded" \/ coord'.part[g] = "succeeded" => Phase(g)' = "committed"
    <3> SUFFICES ASSUME NEW g \in stack.scope, stack'.part[g] = "succeeded" \/ coord'.part[g] = "succeeded"
                 PROVE  Phase(g)' = "committed"
      BY <2>1
    <3>1. g \in Groups /\ stack.id \in 1..Plans  BY <1>0
    <3>2. \/ stack.part[g] = "succeeded" \/ coord.part[g] = "succeeded" \/ Phase(g) = "committed"
          \/ g = coord.g /\ coord.at = "wait" /\ told[g].phase = "succeeded"
          \/ g = coord.g /\ coord.at = "keep"
      BY <1>4, <3>1, PartsEffect
    <3>3. Phase(g) = "committed"  BY <3>1, <3>2 DEF PartsTold, CoordTold, Grouped, Phase
    <3> QED BY <2>1, <3>3, CommittedKept
  <2>3. stack'.phase \in {"none", "preparing"} => \A g \in Groups : stack'.part[g] # "succeeded"
    <3> SUFFICES ASSUME stack'.phase \in {"none", "preparing"}, NEW g \in Groups, stack'.part[g] = "succeeded" PROVE FALSE
      OBVIOUS
    <3>1. stack.phase \in {"none", "preparing"}  BY <2>1
    <3>2. coord.at = "idle"  BY <3>1 DEF Consented
    <3>3. CancelPrepared => stack'.part = stack.part
      BY DEF CancelPrepared, WriteStack, StackTyped, Operations
    <3>4. ~CancelPrepared => stack'.part \in {stack.part, coord.part}
      <4>1. ~Recording
        BY <3>2 DEF Recording, Polled, MarkApplying, KeepGroup, Remaining, RecoverGroups, Coord
      <4>2. ~RequestRecovery  BY <3>1 DEF RequestRecovery, Consented
      <4>3. ~NextGroup /\ ~FinishFailure  BY <3>2 DEF NextGroup, FinishFailure, Coord
      <4> QED BY <1>4, <4>1, <4>2, <4>3, OperationEffect DEF Deciding
    <3> QED BY <3>1, <3>2, <3>3, <3>4 DEF PartsTold
  <2> QED BY <1>1, <2>2, <2>3 DEF PartsTold
<1> QED BY <1>2, <1>3, <1>4

\* A group that has its proof keeps it while its receipt stays and no upgrade of it begins.
LEMMA ProvenKept ==
    ASSUME StackTyped, GroupsTyped, Awake, Consented, Grouped, UpgradeNext, ~StartGroup, stack'.id = stack.id,
           NEW g \in stack.scope, GroupProven(g), receipt'[g] = receipt[g]
    PROVE  GroupProven(g)'
<1>1. g \in Groups /\ stack.id \in 1..Plans  BY DEF StackTyped, Operations, Consented, Grouped
<1>2. txn140[stack.id][g] # "open" /\ ~leased[g]  BY DEF GroupProven, Phase
<1>3. txn140'[stack.id][g] = txn140[stack.id][g]  BY <1>1, <1>2, TxnEffect
<1>4. ~leased'[g]  BY <1>1, <1>2, TxnEffect
<1>5. Phase(g)' = Phase(g)  BY <1>3 DEF Phase
<1> QED BY <1>2, <1>4, <1>5 DEF GroupProven

\* Whose status is public of a group changes where an upgrade begins or is recovered.
LEMMA ToldEffect ==
    ASSUME GroupsTyped, Grouped, UpgradeNext, ~StartGroup, ~PanelStarts, ~RecoverGroups, NEW g \in Groups
    PROVE  told'[g].by = told[g].by
<1>1. CASE UNCHANGED groupFiles  BY <1>1 DEF groupFiles
<1>2. CASE JobSteps
  <2>1. PICK h \in Groups : told' = told \/ \E p : told' = [told EXCEPT ![h].phase = p]
    BY <1>2, JobEffect
  <2>2. ASSUME NEW p, told' = [told EXCEPT ![h].phase = p] PROVE told'[g].by = told[g].by
    BY <2>2 DEF GroupsTyped
  <2> QED BY <2>1, <2>2
<1> QED BY <1>1, <1>2, FilesEffect

\* Most steps leave the coordinator where it is, or take it to a place that tells nothing.
LEMMA CoordEffect ==
    ASSUME StackTyped, UpgradeNext, ~RunnerSteps, ~RecoverGroups
    PROVE  \/ coord' = coord \/ coord'.at \in {"idle", "panel", "started", "refused", "next"}
           \/ coord' = [Idle EXCEPT !.at = "recover", !.todo = stack.scope, !.part = stack.part]
<1>0. DOMAIN coord = {"at", "g", "todo", "part", "end"}  BY DEF StackTyped, Coordinators
<1>i. DOMAIN Idle = {"at", "g", "todo", "part", "end"} /\ Idle.at = "idle"  BY DEF Idle
<1>1. CASE Launches  BY <1>0, <1>1, LaunchEffect
<1>2. CASE HelperSteps \/ PanelStopped  BY <1>i, <1>2, HelperEffect DEF memory, Forgotten
<1>3. CASE PanelStarts  BY <1>3 DEF PanelStarts, memory
<1>4. CASE JobSteps  BY <1>4 DEF JobSteps, GroupEnds, GroupTells, GroupReleases, Job
<1>5. CASE Requests140
  BY <1>i, <1>5 DEF Requests140, PrepareFullStack, Preflight, Confirm140, CancelPrepared, Expire, RequestRecovery, WriteStack
<1>6. CASE TickSteps
  <2> USE DEF WriteTick, Pause, WriteStack
  <2>1. CASE PreflightInterrupted \/ PanelGaveUp \/ PanelOnItsWay \/ Lapse
    BY <1>i, <2>1 DEF PreflightInterrupted, PanelGaveUp, PanelOnItsWay, Lapse
  <2>2. CASE ResumeRecovery  BY <2>2 DEF ResumeRecovery
  <2>3. CASE StartGroups \/ StartPanel  BY <1>i, <2>3 DEF StartGroups, StartPanel, BeginApply
  <2>4. CASE TargetChanged \/ PanelStarted \/ PanelRefused
    BY <1>i, <2>4 DEF TargetChanged, PanelStarted, PanelRefused
  <2> QED BY <1>6, <2>1, <2>2, <2>3, <2>4 DEF TickSteps
<1> QED BY Kinds140, <1>1, <1>2, <1>3, <1>4, <1>5, <1>6

\* A receipt that is written names how its group ended, and the group holds no lease.
LEMMA ReceiptEffect ==
    ASSUME GroupsTyped, NEW g \in Groups, NEW o, ~leased[g], receipt' = [receipt EXCEPT ![g] = [by |-> stack.id, outcome |-> o]]
    PROVE  receipt'[g] = [by |-> stack.id, outcome |-> o] /\ \A h \in Groups : h # g => receipt'[h] = receipt[h]
BY DEF GroupsTyped

\* The next group of a list gets its proof, or the operation is for the administrator.
LEMMA NextProven ==
    ASSUME StackTyped, GroupsTyped, Awake, Consented, Grouped, CoordTold, UpgradeNext, coord.at \in {"remaining", "recover"},
           UNCHANGED <<stack, groupFiles>>, coord.todo # {},
           NEW goal \in {"remaining", "recover"},
           NEW o, Phase(Least(coord.todo)) # "open",
           o = IF Phase(Least(coord.todo)) \in {"committed", "rolled_back"} THEN Phase(Least(coord.todo)) ELSE "untouched",
           Done140(goal), ~leased[Least(coord.todo)],
           receipt' = [receipt EXCEPT ![Least(coord.todo)] = [by |-> stack.id, outcome |-> o]]
    PROVE  CoordTold'
<1>0. /\ DOMAIN coord = {"at", "g", "todo", "part", "end"} /\ coord.todo \in SUBSET Groups /\ stack.scope \subseteq Groups
  BY DEF StackTyped, Operations, Coordinators
<1>1. PICK c \in coord.todo : c = Least(coord.todo)  BY <1>0, LeastOf
<1>2. coord'.at = goal /\ coord'.todo = coord.todo \ {c}
  <2>1. PICK q : coord' = [coord EXCEPT !.todo = coord.todo \ {c}, !.at = goal, !.part = q]
    BY <1>1, Zenon DEF Done140
  <2> QED BY <1>0, <2>1
<1>3. coord.todo \subseteq stack.scope /\ \A g \in stack.scope \ coord.todo : GroupProven(g)
  BY DEF CoordTold
<1>4. c \in Groups /\ c \in stack.scope  BY <1>0, <1>1, <1>3
<1>5. receipt'[c] = [by |-> stack.id, outcome |-> o] /\ \A h \in Groups : h # c => receipt'[h] = receipt[h]
  BY ZenonT(60), <1>1, <1>4, ReceiptEffect
<1>6. Phase(c)' = Phase(c) /\ leased' = leased  BY DEF Phase, groupFiles
<1>7. GroupProven(c)'  BY <1>1, <1>5, <1>6 DEF GroupProven
<1>8. ASSUME NEW g \in stack.scope \ coord.todo PROVE GroupProven(g)'
  <2>1. GroupProven(g) /\ g \in Groups /\ g # c  BY <1>0, <1>1, <1>3
  <2>2. receipt'[g] = receipt[g]  BY <1>5, <2>1
  <2>3. Phase(g)' = Phase(g)  BY DEF Phase, groupFiles
  <2> QED BY <1>6, <2>1, <2>2, <2>3 DEF GroupProven
<1>9. \A g \in stack'.scope \ coord'.todo : GroupProven(g)'  BY <1>2, <1>7, <1>8
<1> QED BY <1>2, <1>3, <1>9 DEF CoordTold

LEMMA CoordToldStep ==
    ASSUME StackTyped, GroupsTyped, Awake, Consented, Grouped, CoordTold, UpgradeNext
    PROVE  CoordTold'
<1> USE DEF CoordTold
<1>0. /\ DOMAIN coord = {"at", "g", "todo", "part", "end"} /\ coord.todo \in SUBSET Groups /\ coord.g \in Groups
      /\ stack.scope \subseteq Groups /\ (stack.scope # {} => stack.id \in 1..Plans)
      /\ DOMAIN stack = {"id", "phase", "auth", "cont", "pid", "target", "scope", "part", "cancelled"}
  BY DEF StackTyped, Operations, Coordinators, Consented, Grouped
<1>i. DOMAIN Idle = {"at", "g", "todo", "part", "end"} /\ Idle.at = "idle"  BY DEF Idle
<1>f. coord'.at \in {"idle", "panel", "started", "refused", "next", "verifying"} => CoordTold'
  OBVIOUS
<1>m. coord'.at = "final" /\ coord'.end = "manual_action" => CoordTold'  OBVIOUS
<1>e. FinishStack("manual_action") => CoordTold'
  <2>1. FinishStack("manual_action") => coord'.at = "final" /\ coord'.end = "manual_action"
    BY <1>0 DEF FinishStack
  <2> QED BY <1>m, <2>1
<1>v. FinishStack("failed_safe") => CoordTold'
  <2>1. FinishStack("failed_safe") => coord'.at = "verifying"  BY <1>0 DEF FinishStack
  <2> QED BY <1>f, <2>1
<1>r. coord' = [Idle EXCEPT !.at = "recover", !.todo = stack.scope, !.part = stack.part] /\ stack'.scope = stack.scope => CoordTold'
  <2>1. coord' = [Idle EXCEPT !.at = "recover", !.todo = stack.scope, !.part = stack.part]
           => coord'.at = "recover" /\ coord'.todo = stack.scope
    BY <1>i
  <2> QED BY <2>1
<1>p. CASE ~RunnerSteps /\ ~RecoverGroups
  <2>1. CASE coord' = [Idle EXCEPT !.at = "recover", !.todo = stack.scope, !.part = stack.part]
    <3>1. coord'.at = "recover"  BY <1>i, <2>1
    <3>2. stack'.scope = stack.scope
      <4>1. coord' # Idle  BY <1>i, <3>1
      <4>2. ~PrepareFullStack /\ (Preflight => coord' = coord /\ coord.at = "idle")
        <5>1. PrepareFullStack \/ Preflight => coord' = coord /\ coord.at = "idle"
          BY DEF PrepareFullStack, Preflight, Consented
        <5> QED BY <3>1, <5>1
      <4> QED BY <3>1, <4>2, ScopeEffect
    <3> QED BY <1>r, <2>1, <3>2
  <2>2. CASE coord' = coord /\ coord.at \notin {"idle", "panel", "started", "refused", "next"}
    <3>1. ~PrepareFullStack /\ ~Preflight /\ ~PanelStarts /\ ~StartGroup /\ ~WriteCompatibility /\ ~Remaining
      BY <1>p, <2>2 DEF PrepareFullStack, Preflight, PanelStarts, Consented, Awake, PanelUp, RunnerSteps
    <3>2. stack'.id = stack.id /\ stack'.scope = stack.scope  BY <3>1, ScopeEffect
    <3>3. receipt' = receipt  BY <1>p, <3>1, FilesEffect
    <3>4. \A g \in stack.scope : GroupProven(g) => GroupProven(g)'
      BY <3>1, <3>2, <3>3, ProvenKept
    <3>5. told'[coord.g].by = told[coord.g].by  BY <1>0, <1>p, <3>1, ToldEffect
    <3>6. coord.at = "keep" => Phase(coord.g)' = "committed"
      <4> SUFFICES ASSUME coord.at = "keep" PROVE txn140'[stack.id][coord.g] = "committed"
        BY <2>2, <3>2 DEF Phase
      <4>1. coord.g \in stack.scope /\ Phase(coord.g) = "committed"  BY DEF Consented, GroupLoop
      <4>2. PICK c \in stack.scope : c = coord.g  BY <4>1
      <4>3. Phase(c)' = "committed"  BY <3>2, <4>1, <4>2, CommittedKept
      <4> QED BY <3>2, <4>2, <4>3 DEF Phase
    <3>7. /\ coord'.at = "validate" => told'[coord'.g].by # stack'.id
          /\ coord'.at \in {"mark", "wait", "receipt", "keep"} => told'[coord'.g].by = stack'.id
      BY <2>2, <3>2, <3>5
    <3>8. coord'.at \in {"remaining", "recover"} =>
             coord'.todo \subseteq stack'.scope /\ \A g \in stack'.scope \ coord'.todo : GroupProven(g)'
      BY <2>2, <3>2, <3>4
    <3>9. coord'.at = "final" /\ coord'.end = "failed_safe" => \A g \in stack'.scope : GroupProven(g)'
      BY <2>2, <3>2, <3>4
    <3> QED BY <2>2, <3>6, <3>7, <3>8, <3>9
  <2> QED BY <1>f, <1>p, <2>1, <2>2, CoordEffect
<1>1. CASE NextGroup
  <2>1. coord' = Idle \/ (UNCHANGED <<stack, groupFiles>> /\
           \E h : coord' = [coord EXCEPT !.g = h, !.at = IF Mine(h) THEN "mark" ELSE "validate"])
    BY <1>1 DEF NextGroup, Store, WriteStack, Only
  <2>2. ASSUME NEW h, UNCHANGED <<stack, groupFiles>>, coord' = [coord EXCEPT !.g = h, !.at = IF Mine(h) THEN "mark" ELSE "validate"]
        PROVE  CoordTold'
    <3>1. coord'.g = h /\ coord'.at = IF Mine(h) THEN "mark" ELSE "validate"  BY <1>0, <2>2
    <3> QED BY <2>2, <3>1 DEF Mine, groupFiles
  <2> QED BY <1>f, <1>i, <2>1, <2>2
<1>2. CASE ScopeChanged \/ PollFails \/ FinishFailure
  <2>1. coord' = Idle  BY <1>2 DEF ScopeChanged, PollFails, FinishFailure, Store, WriteStack
  <2> QED BY <1>f, <1>i, <2>1
<1>3. CASE StartGroup
  <2>1. CASE FinishStack("failed_safe")  BY <1>v, <2>1
  <2>2. CASE AdvanceHelper("mark") /\ told' = [told EXCEPT ![coord.g] = [by |-> stack.id, phase |-> "active"]]
    <3>1. coord'.at = "mark" /\ coord'.g = coord.g  BY <1>0, <2>2 DEF AdvanceHelper
    <3>2. told'[coord.g].by = stack.id /\ stack' = stack
      BY <1>0, <1>3, <2>2 DEF GroupsTyped, StartGroup
    <3> QED BY <3>1, <3>2
  <2> QED BY <1>3, <2>1, <2>2 DEF StartGroup
<1>4. CASE MarkApplying
  <2>1. coord.at = "mark" /\ UNCHANGED groupFiles /\ (coord' = Idle \/ \E q : coord' = [coord EXCEPT !.at = "wait", !.part = q])
    BY <1>4 DEF MarkApplying, Coord, Store, WriteStack
  <2>2. stack'.id = stack.id
    <3>1. ~PrepareFullStack /\ ~Preflight  BY <2>1 DEF PrepareFullStack, Preflight, Consented
    <3> QED BY <3>1, ScopeEffect
  <2>3. coord'.at = "idle" \/ (coord'.at = "wait" /\ coord'.g = coord.g)  BY <1>0, <1>i, <2>1
  <2> QED BY <1>f, <2>1, <2>2, <2>3 DEF groupFiles
<1>5. CASE Polled
  <2>1. coord.at = "wait" /\ UNCHANGED <<stack, groupFiles>>
        /\ \E q : \/ coord' = [[coord EXCEPT !.part = q] EXCEPT !.at = "receipt"]
                  \/ coord' = [[coord EXCEPT !.part = q] EXCEPT !.at = "final", !.end = "manual_action"]
    BY <1>5 DEF Polled, Coord, Only
  <2>2. (coord'.at = "receipt" /\ coord'.g = coord.g) \/ (coord'.at = "final" /\ coord'.end = "manual_action")
    BY <1>0, <2>1
  <2> QED BY <1>m, <2>1, <2>2 DEF groupFiles
<1>6. CASE WriteCompatibility
  <2>1. coord.at = "receipt" /\ UNCHANGED <<stack, groupFiles>>
    BY <1>6 DEF WriteCompatibility, Coord
  <2>2. \/ FinishStack("manual_action") \/ FinishStack("failed_safe")
        \/ told[coord.g].phase = "succeeded" /\ AdvanceHelper("keep")
    BY <1>6 DEF WriteCompatibility, Receipts
  <2>3. CASE told[coord.g].phase = "succeeded" /\ AdvanceHelper("keep")
    <3>1. coord'.at = "keep" /\ coord'.g = coord.g  BY <1>0, <2>3 DEF AdvanceHelper
    <3>2. told[coord.g].by = stack.id /\ coord.g \in stack.scope
      BY <2>1 DEF Consented, GroupLoop
    <3>3. txn140[stack.id][coord.g] = "committed"  BY <1>0, <2>3, <3>2 DEF Grouped
    <3> QED BY <2>1, <3>1, <3>2, <3>3 DEF Phase, groupFiles
  <2> QED BY <1>e, <1>v, <2>2, <2>3
<1>7. CASE KeepGroup
  <2>1. coord' = Idle \/ \E q : coord' = [coord EXCEPT !.at = "next", !.part = q]
    BY <1>7 DEF KeepGroup, Store, WriteStack
  <2> QED BY <1>0, <1>f, <1>i, <2>1
<1>8. CASE VerifyRemaining
  <2>1. coord.at = "verifying" /\ (coord' = Idle \/ coord' = [coord EXCEPT !.at = "remaining", !.todo = stack.scope])
    BY <1>8 DEF VerifyRemaining, Coord, Store, WriteStack
  <2>2. stack'.scope = stack.scope
    <3>1. ~PrepareFullStack /\ ~Preflight  BY <2>1 DEF PrepareFullStack, Preflight, Consented
    <3> QED BY <3>1, ScopeEffect
  <2>3. coord'.at = "idle" \/ (coord'.at = "remaining" /\ coord'.todo = stack.scope)
    BY <1>0, <1>i, <2>1
  <2> QED BY <1>f, <2>2, <2>3
<1>t. ASSUME NEW goal \in {"remaining", "recover"}, coord.at \in {"remaining", "recover"}, UNCHANGED <<stack, groupFiles>>,
             coord.todo # {},
             TerminalCompatibility(Least(coord.todo), Done140(goal), FinishStack("manual_action"))
      PROVE  CoordTold'
  <2> DEFINE o == IF Phase(Least(coord.todo)) \in {"committed", "rolled_back"} THEN Phase(Least(coord.todo)) ELSE "untouched"
  <2>1. \/ FinishStack("manual_action")
        \/ /\ Phase(Least(coord.todo)) # "open" /\ Done140(goal) /\ ~leased[Least(coord.todo)]
           /\ receipt' = [receipt EXCEPT ![Least(coord.todo)] = [by |-> stack.id, outcome |-> o]]
    BY <1>t DEF TerminalCompatibility, Receipts
  <2>2. CASE /\ Phase(Least(coord.todo)) # "open" /\ Done140(goal) /\ ~leased[Least(coord.todo)]
             /\ receipt' = [receipt EXCEPT ![Least(coord.todo)] = [by |-> stack.id, outcome |-> o]]
    BY <1>t, <2>2, NextProven
  <2> QED BY <1>e, <2>1, <2>2
<1>9. CASE Remaining
  <2>1. coord.at = "remaining" /\ UNCHANGED <<stack, groupFiles>>  BY <1>9 DEF Remaining, Coord
  <2>2. CASE coord.todo = {}
    <3>1. AdvanceHelper("final") /\ UNCHANGED receipt  BY <1>9, <2>2 DEF Remaining
    <3>2. coord'.at = "final"  BY <1>0, <3>1 DEF AdvanceHelper
    <3>3. \A g \in stack.scope : GroupProven(g)  BY <2>1, <2>2
    <3>4. \A g \in stack'.scope : GroupProven(g)'
      BY <2>1, <3>1, <3>3 DEF GroupProven, Phase, groupFiles
    <3> QED BY <3>2, <3>4
  <2>3. CASE coord.todo # {}  BY <1>9, <1>t, <2>1, <2>3 DEF Remaining
  <2> QED BY <2>2, <2>3
<1>10. CASE RecoverGroups
  <2> DEFINE c == Least(coord.todo)
  <2>1. coord.at = "recover"  BY <1>10 DEF RecoverGroups, Coord
  <2>2. CASE coord' = Idle  BY <1>f, <1>i, <2>2
  <2>3. CASE FinishStack("manual_action")  BY <1>e, <2>3
  <2>4. CASE Recover140({Least(coord.todo)}, {}) /\ coord.todo # {} /\ UNCHANGED <<stack, receipt, coord>>
    <3>1. ~StartGroup  BY <2>1 DEF StartGroup, Coord
    <3>2. \A g \in stack.scope : GroupProven(g) => GroupProven(g)'  BY <2>4, <3>1, ProvenKept
    <3> QED BY <2>1, <2>4, <3>2
  <2>5. CASE coord.todo # {} /\ UNCHANGED <<stack, groupFiles>> /\
             TerminalCompatibility(Least(coord.todo), Done140("recover"), FinishStack("manual_action"))
    BY <1>t, <2>1, <2>5
  <2>6. CASE coord.todo # {} /\ UNCHANGED <<stack, groupFiles>> /\ Phase(Least(coord.todo)) \in {"committed", "rolled_back"} /\
             Receipts(Least(coord.todo), Phase(Least(coord.todo)), Done140("recover"), FinishStack("manual_action"))
    <3>1. TerminalCompatibility(Least(coord.todo), Done140("recover"), FinishStack("manual_action"))
      BY <2>6 DEF TerminalCompatibility
    <3> QED BY <1>t, <2>1, <2>6, <3>1
  <2>7. \/ coord' = Idle \/ FinishStack("manual_action")
        \/ Recover140({Least(coord.todo)}, {}) /\ coord.todo # {} /\ UNCHANGED <<stack, receipt, coord>>
        \/ coord.todo # {} /\ UNCHANGED <<stack, groupFiles>> /\
             TerminalCompatibility(Least(coord.todo), Done140("recover"), FinishStack("manual_action"))
        \/ coord.todo # {} /\ UNCHANGED <<stack, groupFiles>> /\ Phase(Least(coord.todo)) \in {"committed", "rolled_back"} /\
             Receipts(Least(coord.todo), Phase(Least(coord.todo)), Done140("recover"), FinishStack("manual_action"))
    BY <1>10, Zenon DEF RecoverGroups, Store, WriteStack
  <2> QED BY <2>2, <2>3, <2>4, <2>5, <2>6, <2>7
<1> QED BY <1>p, <1>1, <1>2, <1>3, <1>4, <1>5, <1>6, <1>7, <1>8, <1>9, <1>10 DEF RunnerSteps

\* Where the operation comes to report a success, or a safe failure.
LEMMA ReportEffect ==
    ASSUME StackTyped, Consented, UpgradeNext, ~PrepareFullStack
    PROVE  /\ stack'.phase = "succeeded" =>
                 \/ stack.phase = "succeeded"
                 \/ NextGroup /\ \A g \in stack.scope : coord.part[g] = "succeeded"
                 \/ Preflight /\ stack'.scope = {}
                 \/ RecoverGroups /\ \A g \in stack.scope : Phase(g) = "committed"
           /\ stack'.phase = "failed_safe" /\ ~stack'.cancelled =>
                 \/ stack.phase = "failed_safe" /\ ~stack.cancelled
                 \/ FinishFailure /\ coord.end = "failed_safe"
                 \/ RecoverGroups /\ coord.todo = {} /\ UNCHANGED receipt
<1>0. DOMAIN stack = {"id", "phase", "auth", "cont", "pid", "target", "scope", "part", "cancelled"}
      /\ coord.end \in {"none", "failed_safe", "manual_action"}
  BY DEF StackTyped, Operations, Coordinators
<1>1. CASE ~Recording /\ ~Deciding
  <2>1. stack'.phase \in {"succeeded", "failed_safe"} => stack'.phase = stack.phase
    BY <1>1, OperationEffect
  <2>2. ~stack'.cancelled => ~stack.cancelled  BY <1>1, OperationEffect, Zenon
  <2> QED BY <2>1, <2>2
<1>2. CASE Polled \/ Remaining
  <2>1. stack' = stack  BY <1>2 DEF Polled, Remaining, Only
  <2> QED BY <2>1
<1>3. CASE MarkApplying \/ KeepGroup
  <2>1. stack' = stack \/ \E q : stack' = [stack EXCEPT !.part = q]
    BY <1>3 DEF MarkApplying, KeepGroup, Store, WriteStack
  <2>2. stack'.phase = stack.phase /\ stack'.cancelled = stack.cancelled  BY <1>0, <2>1
  <2> QED BY <2>2
<1>4. CASE RecoverGroups
  <2> DEFINE p == IF \A h \in stack.scope : Phase(h) = "committed" THEN "succeeded" ELSE "failed_safe"
  <2>1. stack' = stack \/ (coord.todo = {} /\ UNCHANGED receipt /\ stack' = [stack EXCEPT !.part = coord.part, !.phase = p])
    BY <1>4 DEF RecoverGroups, Store, WriteStack
  <2>2. stack' = [stack EXCEPT !.part = coord.part, !.phase = p] => stack'.phase = p  BY <1>0
  <2> QED BY <1>4, <2>1, <2>2
<1>5. CASE Preflight
  <2> DEFINE scope == {g \in Groups : \A n \in 1..Plans : txn140[n][g] # "committed"}
  <2>1. \/ stack' = stack \/ stack' = [stack EXCEPT !.phase = "preflight_failed"]
        \/ stack' = [stack EXCEPT !.phase = "awaiting_confirmation", !.scope = scope]
        \/ scope = {} /\ stack' = [stack EXCEPT !.phase = "succeeded", !.scope = scope]
    BY <1>5 DEF Preflight, WriteStack
  <2> HIDE DEF scope
  <2>2. \/ stack' = stack \/ stack'.phase \notin {"succeeded", "failed_safe"} \/ (stack'.phase = "succeeded" /\ stack'.scope = {})
    BY <1>0, <2>1
  <2> QED BY <1>5, <2>2
<1>6. CASE CancelPrepared
  <2>1. stack' = stack \/ stack' = [stack EXCEPT !.phase = "failed_safe", !.cancelled = TRUE]
    BY <1>6 DEF CancelPrepared, WriteStack
  <2>2. stack' = stack \/ (stack'.phase = "failed_safe" /\ stack'.cancelled)  BY <1>0, <2>1
  <2> QED BY <2>2
<1>7. CASE RequestRecovery
  <2>1. stack' = stack \/ stack' = [stack EXCEPT !.phase = "recovering", !.cancelled = FALSE]
    BY <1>7 DEF RequestRecovery, WriteStack
  <2>2. stack' = stack \/ stack'.phase = "recovering"  BY <1>0, <2>1
  <2> QED BY <2>2
<1>8. CASE NextGroup
  <2>1. stack' = stack \/ ((\A g \in stack.scope : coord.part[g] = "succeeded") /\ stack' = [stack EXCEPT !.phase = "succeeded", !.part = coord.part])
    BY <1>8 DEF NextGroup, Store, WriteStack, Only
  <2>2. stack' = stack \/ ((\A g \in stack.scope : coord.part[g] = "succeeded") /\ stack'.phase = "succeeded")
    BY <1>0, <2>1
  <2> QED BY <1>8, <2>2
<1>9. CASE FinishFailure
  <2>1. stack' = stack \/ stack' = [stack EXCEPT !.phase = coord.end, !.part = coord.part]
    BY <1>9 DEF FinishFailure, Store, WriteStack
  <2>2. stack' = stack \/ stack'.phase = coord.end  BY <1>0, <2>1
  <2> QED BY <1>0, <1>9, <2>2
<1> QED BY <1>1, <1>2, <1>3, <1>4, <1>5, <1>6, <1>7, <1>8, <1>9 DEF Recording, Deciding

LEMMA StackReportStep ==
    ASSUME StackTyped, GroupsTyped, Awake, Consented, Grouped, PartsTold, CoordTold, StackReportTrue, UpgradeNext
    PROVE  StackReportTrue'
<1>0. DOMAIN stack = {"id", "phase", "auth", "cont", "pid", "target", "scope", "part", "cancelled"}
  BY DEF StackTyped, Operations
<1>p. StackReportTrue <=> /\ stack.phase = "succeeded" => \A g \in stack.scope : Phase(g) = "committed"
                          /\ stack.phase = "failed_safe" /\ ~stack.cancelled => \A g \in stack.scope : GroupProven(g)
  BY DEF StackReportTrue, GroupProven
<1>q. StackReportTrue' <=> /\ stack'.phase = "succeeded" => \A g \in stack'.scope : Phase(g)' = "committed"
                           /\ stack'.phase = "failed_safe" /\ ~stack'.cancelled => \A g \in stack'.scope : GroupProven(g)'
  BY DEF StackReportTrue, GroupProven
<1>1. CASE PrepareFullStack /\ stack' # stack
  <2>1. stack'.phase = "preparing"  BY <1>1 DEF PrepareFullStack, WriteStack, NoStack
  <2> QED BY <1>q, <2>1
<1>2. CASE Preflight /\ stack' # stack
  <2>1. stack.phase = "preparing"  BY <1>2 DEF Preflight, Consented
  <2>2. ~PrepareFullStack /\ ~NextGroup /\ ~RecoverGroups /\ ~FinishFailure
    BY <1>2, <2>1 DEF PrepareFullStack, Preflight, NextGroup, RecoverGroups, FinishFailure, Coord, Consented
  <2> QED BY <1>q, <2>1, <2>2, ReportEffect
<1>3. CASE stack' = stack \/ (~PrepareFullStack /\ ~Preflight)
  <2>1. stack'.id = stack.id /\ stack'.scope = stack.scope  BY <1>3, ScopeEffect
  <2>2. \A g \in stack.scope : Phase(g) = "committed" => Phase(g)' = "committed"
    BY <2>1, CommittedKept
  <2>3. stack'.phase = "succeeded" => \A g \in stack'.scope : Phase(g)' = "committed"
    <3> SUFFICES ASSUME stack'.phase = "succeeded" PROVE \A g \in stack.scope : Phase(g) = "committed"
      BY <2>1, <2>2
    <3>1. CASE stack.phase = "succeeded"  BY <1>p, <3>1
    <3>2. CASE stack' # stack  BY <1>3, <3>1, <3>2, ReportEffect DEF PartsTold
    <3> QED BY <3>1, <3>2
  <2>4. stack'.phase = "failed_safe" /\ ~stack'.cancelled => \A g \in stack'.scope : GroupProven(g)'
    <3> SUFFICES ASSUME stack'.phase = "failed_safe", ~stack'.cancelled PROVE \A g \in stack.scope : GroupProven(g)'
      BY <2>1
    <3>1. CASE stack.phase = "failed_safe" /\ ~stack.cancelled
      <4>1. coord.at = "idle"  BY <3>1 DEF Consented, FullStackTerminal
      <4>2. ~StartGroup /\ ~WriteCompatibility /\ ~Remaining /\ ~RecoverGroups
        BY <4>1 DEF StartGroup, WriteCompatibility, Remaining, RecoverGroups, Coord
      <4>3. receipt' = receipt  BY <4>2, FilesEffect
      <4>4. \A g \in stack.scope : GroupProven(g)  BY <1>p, <3>1
      <4> QED BY <2>1, <4>2, <4>3, <4>4, ProvenKept
    <3>2. CASE FinishFailure /\ coord.end = "failed_safe"
      <4>1. coord.at = "final" /\ receipt' = receipt /\ ~StartGroup
        BY <3>2 DEF FinishFailure, Coord, Store, StartGroup
      <4>2. \A g \in stack.scope : GroupProven(g)  BY <3>2, <4>1 DEF CoordTold
      <4> QED BY <2>1, <4>1, <4>2, ProvenKept
    <3>3. CASE RecoverGroups /\ coord.todo = {} /\ UNCHANGED receipt
      <4>1. coord.at = "recover" /\ ~StartGroup  BY <3>3 DEF RecoverGroups, Coord, StartGroup
      <4>2. \A g \in stack.scope : GroupProven(g)  BY <3>3, <4>1 DEF CoordTold
      <4> QED BY <2>1, <3>3, <4>1, <4>2, ProvenKept
    <3>4. CASE stack' = stack  BY <3>1, <3>4
    <3> QED BY <1>3, <3>1, <3>2, <3>3, <3>4, ReportEffect
  <2> QED BY <1>q, <2>3, <2>4
<1> QED BY <1>1, <1>2, <1>3

-----------------------------------------------------------------------------
(* The specification                                                       *)

UpgradeSpec == UpgradeInit /\ [][UpgradeNext]_upgradeVars

LEMMA UpgradeInitially == ASSUME UpgradeInit PROVE UpgradeInv
<1> USE DEF UpgradeInit
<1>0. Idle.at = "idle" /\ NoStack.id = 0 /\ NoStack.phase = "none" /\ NoStack.auth = FALSE /\ NoStack.scope = {}
      /\ \A g \in Groups : NoStack.part[g] = "prepared" /\ Idle.part[g] = "prepared"
  BY DEF Idle, NoStack
<1>1. PanelTyped /\ Counted  BY UpgradeAssumption DEF PanelTyped, HelperAt, Counted
<1>2. Flagged  BY Zenon DEF Flagged
<1>3. StackTyped  BY IdleTyped DEF StackTyped
<1>4. /\ \A n \in 1..Plans, g \in Groups : txn140[n][g] = "none"
      /\ \A g \in Groups : told[g].phase = "none" /\ job140[g] = "off"
  OBVIOUS
<1>5. GroupsTyped
  <2>1. [by |-> 0, phase |-> "none"] \in [by : 0..Plans, phase : {"none", "active", "succeeded", "failed_rolled_back", "rollback_failed"}]
        /\ [by |-> 0, outcome |-> "none"] \in [by : 0..Plans, outcome : {"none", "committed", "rolled_back", "untouched"}]
    BY UpgradeAssumption
  <2>2. leased \in [Groups -> BOOLEAN]  BY Zenon
  <2> QED BY <2>1, <2>2 DEF GroupsTyped
<1>6. Awake  BY <1>0, <1>4 DEF Awake
<1>7. Deployed  BY DEF Deployed
<1>8. Consented  BY <1>0 DEF Consented, GroupLoop
<1>9. Grouped  BY <1>0, <1>4 DEF Grouped, Newest
<1>10. PartsTold /\ CoordTold  BY <1>0 DEF PartsTold, CoordTold
<1>11. ReportsTrue  BY <1>0 DEF ReportsTrue, PanelReportTrue, StackReportTrue
<1> QED BY <1>1, <1>2, <1>3, <1>5, <1>6, <1>7, <1>8, <1>9, <1>10, <1>11 DEF UpgradeInv, UpgradeTyped

LEMMA UpgradeStep == ASSUME UpgradeInv, UpgradeNext PROVE UpgradeInv'
<1> USE DEF UpgradeInv, UpgradeTyped
<1>1. PanelTyped' /\ Flagged' /\ Counted'  BY PanelTypedStep, FlaggedStep, CountedStep
<1>2. StackTyped' /\ GroupsTyped'  BY StackTypedStep, GroupsTypedStep
<1>3. Awake' /\ Consented' /\ Grouped'  BY AwakeStep, ConsentedStep, GroupedStep
<1>4. Deployed' /\ PanelReportTrue'  BY DeployedStep DEF ReportsTrue
<1>5. PartsTold' /\ CoordTold'  BY PartsToldStep, CoordToldStep
<1>6. StackReportTrue'  BY StackReportStep DEF ReportsTrue
<1> QED BY <1>1, <1>2, <1>3, <1>4, <1>5, <1>6 DEF ReportsTrue

LEMMA UpgradeStutters == ASSUME UpgradeInv, UNCHANGED upgradeVars PROVE UpgradeInv'
<1> USE DEF upgradeVars, panelVars, helperVars, stackVars, groupFiles, memory
<1>1. UpgradeTyped'
  <2>1. Flagged'  BY Zenon DEF UpgradeInv, UpgradeTyped, Flagged
  <2>2. GroupsTyped'  BY DEF UpgradeInv, UpgradeTyped, GroupsTyped
  <2> QED BY <2>1, <2>2 DEF UpgradeInv, UpgradeTyped, PanelTyped, Counted, StackTyped
<1>2. Awake' /\ Deployed' /\ Consented'
  BY DEF UpgradeInv, Awake, Deployed, Consented, PanelUp, ActiveApply, PanelProven, Owned
<1>3. Grouped'  BY DEF UpgradeInv, Grouped, Newest
<1>4. PartsTold' /\ CoordTold' /\ ReportsTrue'
  BY DEF UpgradeInv, PartsTold, CoordTold, GroupProven, Phase, ReportsTrue, PanelReportTrue, StackReportTrue, PanelUp
<1> QED BY <1>1, <1>2, <1>3, <1>4 DEF UpgradeInv

\* The panel, its helper and the coordinator keep their files and their memory in step,
\* however they interleave and wherever a step fails or the panel dies.
THEOREM UpgradeInvariant == UpgradeSpec => []UpgradeInv
<1>1. UpgradeInit => UpgradeInv  BY UpgradeInitially
<1>2. UpgradeInv /\ [UpgradeNext]_upgradeVars => UpgradeInv'  BY UpgradeStep, UpgradeStutters
<1> QED BY <1>1, <1>2, PTL DEF UpgradeSpec

\* Every variable of the upgrade has its type.
THEOREM UpgradeTypes == UpgradeSpec => []UpgradeTypeOK
<1>1. UpgradeInv => UpgradeTypeOK
  BY DEF UpgradeInv, UpgradeTyped, PanelTyped, Flagged, Counted, StackTyped, GroupsTyped, Operations, UpgradeTypeOK
<1> QED BY <1>1, UpgradeInvariant, PTL

\* What a finished apply reports holds of the container, the deployment and the database; a
\* successful operation has committed every group, and a safe failure has a proof of each.
THEOREM UpgradeReportsTrue == UpgradeSpec => []ReportsTrue
<1>1. UpgradeInv => ReportsTrue  BY DEF UpgradeInv
<1> QED BY <1>1, UpgradeInvariant, PTL

\* No transaction of a group begins but for the confirmed operation at work, on the panel
\* that was confirmed.
THEOREM UpgradeNeedsConsent == UpgradeSpec => GroupsNeedConsent
<1> DEFINE Consent(n) == /\ stack.id = n /\ Owning /\ panelImage = stack.target
                         /\ stack.cont \/ (apply.phase = "succeeded" /\ apply.by = n)
           Begins(n, g) == txn140[n][g] = "none" /\ txn140'[n][g] # "none"
<1>1. UpgradeInv /\ [UpgradeNext]_upgradeVars =>
        [\A n \in 1..Plans, g \in Groups : Begins(n, g) => Consent(n)]_upgradeVars
  <2>1. CASE UNCHANGED upgradeVars  BY <2>1
  <2>2. ASSUME UpgradeInv, UpgradeNext, NEW n \in 1..Plans, NEW g \in Groups, Begins(n, g)
        PROVE  Consent(n)
    <3>1. StartGroup /\ n = stack.id  BY <2>2, TxnEffect DEF UpgradeInv, UpgradeTyped
    <3>2. coord.at = "validate"  BY <3>1, StartEffect
    <3>3. stack.auth /\ stack.phase = "migrating" /\ panelImage = stack.target /\ PanelProven
      BY <2>2, <3>2 DEF UpgradeInv, Consented, GroupLoop
    <3> QED BY <3>1, <3>3 DEF Owning, FullStackTerminal, PanelProven, Owned
  <2> QED BY <2>1, <2>2
<1> QED BY <1>1, UpgradeInvariant, PTL DEF UpgradeSpec, GroupsNeedConsent
=============================================================================
