---------------------------- MODULE DriversProofs ----------------------------
(***************************************************************************)
(* For any drivers, workers, addresses and overlapping requests: a driver  *)
(* whose data were erased claims no delivery, no name leads to two workers *)
(* and no worker is operator and manager.  The specification is the sum of *)
(* DriverDeliveries, DriverSessions and WorkerAccounts that the run checks:*)
(* it implements each of the three.                                        *)
(***************************************************************************)
EXTENDS MCDrivers, DriverDeliveriesProofs

-----------------------------------------------------------------------------
(* Driver sessions and erasure *)

\* A login that has got anywhere names its driver.
LoginsNamed == \A r \in Requests : login[r].done # "no" => login[r].driver \in SyncedDrivers

\* A login that the Data Module let through before the driver's row was anonymised may
\* yet make a session: its driver is excused.
LoginsExcused ==
  \A r \in Requests :
    login[r].done = "data_module" /\ login[r].driver \notin active
      => login[r].driver \in excused

\* An erasure past Redis has left no session, unless its driver is excused.
SessionsGone ==
  \A d \in SyncedDrivers \ active :
    d \in session /\ erasing[d] \in {"redis", "mongo", "minio"} => d \in excused

SessionsInv == Sessions!TypeOK /\ LoginsNamed /\ LoginsExcused /\ SessionsGone

\* Nobody is logged in and nothing is erased to begin with.
LEMMA SessionsInit ==
  ASSUME Sessions!SessionsAssumption
  PROVE Sessions!Init => SessionsInv
  BY DEF Sessions!SessionsAssumption, Sessions!Init, SessionsInv, Sessions!TypeOK, LoginsNamed,
     LoginsExcused, SessionsGone, Sessions!Idle, Sessions!NotSyncing, Sessions!Parts,
     Sessions!Stages

\* sync_users.py writes to Keycloak and remembers where it is, and no more.
LEMMA SyncKeeps ==
  ASSUME SessionsInv, Sessions!Sync
  PROVE SessionsInv'
<1> DEFINE UserTyped == user \in [SyncedDrivers -> SUBSET Sessions!Parts]
           SyncTyped == syncing \in [driver : SyncedDrivers \cup {None},
                                     next : {"password", "roles", "none"}]
<1> USE DEF SessionsInv, Sessions!TypeOK, Sessions!SyncVars, Sessions!NotSyncing, Sessions!Parts
<1>1. UNCHANGED Sessions!SyncVars
  BY DEF Sessions!Sync, Sessions!SyncCreate, Sessions!SyncPassword, Sessions!SyncRoles,
     Sessions!SyncAborts
<1>2. ASSUME NEW d \in SyncedDrivers, Sessions!SyncCreate(d) PROVE UserTyped' /\ SyncTyped'
  BY <1>2 DEF Sessions!SyncCreate
<1>3. CASE Sessions!SyncPassword
  BY <1>1, <1>3 DEF Sessions!SyncPassword, LoginsNamed, LoginsExcused, SessionsGone
<1>4. CASE Sessions!SyncRoles
  BY <1>1, <1>4 DEF Sessions!SyncRoles, LoginsNamed, LoginsExcused, SessionsGone
<1>5. CASE Sessions!SyncAborts
  BY <1>1, <1>5 DEF Sessions!SyncAborts, LoginsNamed, LoginsExcused, SessionsGone
<1>6. CASE \E d \in SyncedDrivers : Sessions!SyncCreate(d)
  BY <1>1, <1>2, <1>6 DEF LoginsNamed, LoginsExcused, SessionsGone
<1> QED
  BY <1>3, <1>4, <1>5, <1>6 DEF Sessions!Sync

\* A login makes a session only once the Data Module has let it through, which it does for
\* active drivers only.
LEMMA LoginKeeps ==
  ASSUME Sessions!SessionsAssumption, SessionsInv, NEW r \in Requests, Sessions!Login(r)
  PROVE SessionsInv'
<1> USE DEF SessionsInv, Sessions!TypeOK, Sessions!LoginVars, LoginsNamed, LoginsExcused
<1>1. ASSUME NEW d \in SyncedDrivers, Sessions!ExchangeCredentials(r, d) PROVE SessionsInv'
  <2>1. login' = [login EXCEPT ![r] = [driver |-> d, done |-> "keycloak"]]
        /\ UNCHANGED <<tokens, session, excused, Sessions!LoginVars>>
    BY <1>1 DEF Sessions!ExchangeCredentials
  <2> QED
    BY <2>1 DEF SessionsGone
<1>2. CASE Sessions!AuthenticateDriver(r)
  <2>1. /\ login[r].done = "keycloak" /\ login[r].driver \in active
        /\ login' = [login EXCEPT ![r].done = "data_module"]
        /\ UNCHANGED <<tokens, session, excused, Sessions!LoginVars>>
    BY <1>2 DEF Sessions!AuthenticateDriver, Sessions!Authentic
  <2> QED
    BY <2>1 DEF SessionsGone
<1>3. CASE Sessions!LoginWithoutSession(r)
  BY <1>3 DEF Sessions!LoginWithoutSession, Sessions!LoggedIn, Sessions!Idle, SessionsGone
<1>4. CASE Sessions!SetSession(r)
  <2> DEFINE d == login[r].driver
  <2>1. d \in SyncedDrivers /\ (d \in active \/ d \in excused)
    BY <1>4 DEF Sessions!SetSession
  <2>2. /\ login' = [login EXCEPT ![r] = Sessions!Idle]
        /\ tokens' \in [SyncedDrivers -> SUBSET {"access", "refresh"}]
        /\ session' \in {session, session \cup {d}}
        /\ UNCHANGED <<excused, Sessions!LoginVars>>
    BY <1>4 DEF Sessions!SetSession, Sessions!LoggedIn
  <2>3. SessionsGone'
    BY <2>1, <2>2 DEF SessionsGone
  <2> QED
    BY <2>1, <2>2, <2>3 DEF Sessions!Idle
<1> QED
  BY <1>1, <1>2, <1>3, <1>4 DEF Sessions!Login

\* A token makes no session.
LEMMA TokensKeep ==
  ASSUME SessionsInv, NEW d \in SyncedDrivers, Sessions!Tokens(d)
  PROVE SessionsInv'
<1> USE DEF SessionsInv, Sessions!TypeOK, Sessions!LoginVars
<1>1. /\ tokens' \in [SyncedDrivers -> SUBSET {"access", "refresh"}]
      /\ session' \subseteq session
      /\ UNCHANGED <<login, excused, Sessions!LoginVars>>
  BY DEF Sessions!Tokens, Sessions!Refresh, Sessions!LogoutOrExpire, Sessions!SessionExpires
<1> QED
  BY <1>1 DEF LoginsNamed, LoginsExcused, SessionsGone

\* The erasure excuses the driver whose login it finds ahead of it or whose session it
\* could not delete; from Redis on it changes neither.
LEMMA EraseKeeps ==
  ASSUME SessionsInv, NEW d \in SyncedDrivers, Sessions!Erase(d)
  PROVE SessionsInv'
<1> USE DEF SessionsInv, Sessions!TypeOK, Sessions!EraseVars, Sessions!Stages
<1>1. CASE Sessions!ErasePostgres(d)
  <2>1. /\ active' = active \ {d} /\ erasing' = [erasing EXCEPT ![d] = "postgres"]
        /\ collected' = [collected EXCEPT ![d] = images[d]]
        /\ excused \subseteq excused' /\ excused' \subseteq SyncedDrivers
        /\ UNCHANGED <<session, images, records, user, tokens, login, syncing>>
    BY <1>1 DEF Sessions!ErasePostgres
  <2>2. LoginsExcused'
    <3> SUFFICES ASSUME NEW r \in Requests, login[r].done = "data_module",
                        login[r].driver \notin active'
                 PROVE login[r].driver \in excused'
      BY <2>1 DEF LoginsExcused
    <3>1. CASE login[r].driver = d
      <4>1. login[r] = [driver |-> d, done |-> "data_module"]
        BY <3>1
      <4> QED
        BY <1>1, <3>1, <4>1 DEF Sessions!ErasePostgres, Sessions!Authenticated
    <3>2. CASE login[r].driver # d
      BY <2>1, <3>2 DEF LoginsExcused
    <3> QED
      BY <3>1, <3>2
  <2> QED
    BY <2>1, <2>2 DEF LoginsNamed, SessionsGone
<1>2. CASE Sessions!EraseRedis(d)
  BY <1>2 DEF Sessions!EraseRedis, LoginsNamed, LoginsExcused, SessionsGone
<1>3. CASE Sessions!EraseMongo(d)
  BY <1>3 DEF Sessions!EraseMongo, LoginsNamed, LoginsExcused, SessionsGone
<1>4. CASE Sessions!EraseMinio(d)
  <2>1. images' \in [SyncedDrivers -> SUBSET Images]
    BY <1>4 DEF Sessions!EraseMinio
  <2> QED
    BY <1>4, <2>1 DEF Sessions!EraseMinio, LoginsNamed, LoginsExcused, SessionsGone
<1>5. CASE Sessions!EraseAborts(d)
  BY <1>5 DEF Sessions!EraseAborts, LoginsNamed, LoginsExcused, SessionsGone
<1>6. CASE Sessions!NewRecord(d)
  <2>1. images' \in [SyncedDrivers -> SUBSET Images]
    BY <1>6 DEF Sessions!NewRecord
  <2> QED
    BY <1>6, <2>1 DEF Sessions!NewRecord, LoginsNamed, LoginsExcused, SessionsGone
<1> QED
  BY <1>1, <1>2, <1>3, <1>4, <1>5, <1>6 DEF Sessions!Erase

\* The invariant holds however logins, refreshes, synchronisation and erasures interleave.
THEOREM SessionsInvariant ==
  ASSUME Sessions!SessionsAssumption
  PROVE Sessions!Spec => []SessionsInv
<1>1. SessionsInv /\ [Sessions!Next]_(Sessions!vars) => SessionsInv'
  <2>1. CASE UNCHANGED Sessions!vars
    BY <2>1 DEF Sessions!vars, SessionsInv, Sessions!TypeOK, LoginsNamed, LoginsExcused,
       SessionsGone
  <2> QED
    BY <2>1, SyncKeeps, LoginKeeps, TokensKeep, EraseKeeps DEF Sessions!Next
<1> QED
  BY SessionsInit, <1>1, PTL DEF Sessions!Spec

\* Once the erasure of a driver is past Redis no route that asks for a session serves the
\* driver, whatever logins, refreshes and repeated erasures do, but for a login that had
\* been authenticated before or a session that Redis failed to delete (erase_driver,
\* login_driver, set_session, get_current_claims).
THEOREM ErasureEndsClaiming ==
  ASSUME Sessions!SessionsAssumption
  PROVE Sessions!Spec => []ErasedDriverClaimsNothing
<1>1. SessionsInv => ErasedDriverClaimsNothing
  BY DEF SessionsInv, SessionsGone, ErasedDriverClaimsNothing,
     Sessions!ErasedDriverClaimsNothing, Sessions!ServedBySession
<1> QED
  BY SessionsInvariant, <1>1, PTL

-----------------------------------------------------------------------------
(* Worker accounts *)

\* The unique key of worker.email, deactivated workers included.
EmailsUnique == \A v, w \in Workers : wEmail[v] # None /\ wEmail[v] = wEmail[w] => v = w

\* A command that is under way names a worker.
CommandsNamed == \A r \in Requests : wFlight[r].kind # "idle" => wFlight[r].worker \in Workers

AccountsInv == Accounts!TypeOK /\ CommandsNamed /\ EmailsUnique /\ Accounts!AtMostOneRole

\* There are no workers to begin with.
LEMMA AccountsInit ==
  ASSUME Accounts!AccountsAssumption
  PROVE Accounts!Init => AccountsInv
  BY DEF Accounts!AccountsAssumption, Accounts!Init, AccountsInv, Accounts!TypeOK,
     CommandsNamed, EmailsUnique, Accounts!AtMostOneRole, Accounts!Idle, Accounts!Roles

\* The commands as they commit or fail, and whatever happens in between, keep the types.
LEMMA AccountsTyped ==
  ASSUME Accounts!TypeOK, CommandsNamed, [Accounts!Next]_(Accounts!vars)
  PROVE Accounts!TypeOK'
<1> USE DEF Accounts!TypeOK
<1>1. ASSUME NEW r \in Requests, Accounts!CreateCheck(r) PROVE Accounts!TypeOK'
  BY <1>1 DEF Accounts!CreateCheck, Accounts!Check, Accounts!Roles
<1>2. ASSUME NEW r \in Requests, Accounts!EmailCheck(r) PROVE Accounts!TypeOK'
  BY <1>2 DEF Accounts!EmailCheck, Accounts!Check, Accounts!Roles
<1>3. ASSUME NEW r \in Requests, Accounts!PromoteCheck(r) PROVE Accounts!TypeOK'
  BY <1>3 DEF Accounts!PromoteCheck, Accounts!Check, Accounts!Roles
<1>4. ASSUME NEW r \in Requests, Accounts!CommitCreate(r) PROVE Accounts!TypeOK'
  BY <1>4 DEF CommandsNamed, Accounts!CommitCreate, Accounts!Committed, Accounts!Done,
     Accounts!Idle, Accounts!Tables, Accounts!Roles
<1>5. ASSUME NEW r \in Requests, Accounts!CommitEmail(r) PROVE Accounts!TypeOK'
  BY <1>5 DEF Accounts!CommitEmail, Accounts!Committed, Accounts!Done, Accounts!Idle
<1>6. ASSUME NEW r \in Requests, Accounts!CommitPromote(r) PROVE Accounts!TypeOK'
  BY <1>6 DEF Accounts!CommitPromote, Accounts!Committed, Accounts!Done, Accounts!Idle,
     Accounts!Promoted, Accounts!Roles
<1>7. ASSUME NEW r \in Requests, Accounts!CommitFails(r) PROVE Accounts!TypeOK'
  BY <1>7 DEF Accounts!CommitFails, Accounts!Done, Accounts!Idle
<1>8. ASSUME NEW w \in Workers, Accounts!Deactivate(w) PROVE Accounts!TypeOK'
  BY <1>8 DEF Accounts!Deactivate
<1>9. ASSUME NEW w \in Workers, Accounts!Login(w) PROVE Accounts!TypeOK'
  BY <1>9 DEF Accounts!Login, Accounts!Role, Accounts!Roles
<1>10. ASSUME NEW w \in Workers, Accounts!SessionExpires(w) PROVE Accounts!TypeOK'
  BY <1>10 DEF Accounts!SessionExpires
<1>11. ASSUME NEW w \in Workers, Accounts!SyncWorker(w) PROVE Accounts!TypeOK'
  BY <1>11 DEF Accounts!SyncWorker
<1>12. CASE UNCHANGED Accounts!vars
  BY <1>12 DEF Accounts!vars
<1> QED
  BY <1>1, <1>2, <1>3, <1>4, <1>5, <1>6, <1>7, <1>8, <1>9, <1>10, <1>11, <1>12 DEF Accounts!Next

\* Every check puts the worker it has looked at into the command.
LEMMA CommandsStayNamed ==
  ASSUME Accounts!TypeOK, CommandsNamed, [Accounts!Next]_(Accounts!vars)
  PROVE CommandsNamed'
<1>1. ASSUME NEW r \in Requests, NEW kind, NEW w \in Workers, NEW e, NEW role,
             Accounts!Check(r, kind, w, e, role)
      PROVE CommandsNamed'
  <2> SUFFICES ASSUME NEW s \in Requests, wFlight'[s].kind # "idle"
               PROVE wFlight'[s].worker \in Workers
    BY DEF CommandsNamed
  <2>1. CASE s = r
    BY <1>1, <2>1 DEF Accounts!Check, Accounts!TypeOK
  <2>2. CASE s # r
    BY <1>1, <2>2 DEF Accounts!Check, Accounts!TypeOK, CommandsNamed
  <2> QED
    BY <2>1, <2>2
<1>2. ASSUME NEW r \in Requests, Accounts!Done(r) PROVE CommandsNamed'
  <2> SUFFICES ASSUME NEW s \in Requests, wFlight'[s].kind # "idle"
               PROVE wFlight'[s].worker \in Workers
    BY DEF CommandsNamed
  <2>1. wFlight'[s] = IF s = r THEN Accounts!Idle ELSE wFlight[s]
    BY <1>2 DEF Accounts!Done, Accounts!TypeOK
  <2>2. wFlight'[s] = wFlight[s]
    BY <2>1 DEF Accounts!Idle
  <2> QED
    BY <2>2 DEF CommandsNamed
<1>3. CASE UNCHANGED wFlight
  BY <1>3 DEF CommandsNamed
<1>4. ASSUME NEW r \in Requests,
             Accounts!CreateCheck(r) \/ Accounts!EmailCheck(r) \/ Accounts!PromoteCheck(r)
      PROVE CommandsNamed'
  <2>1. CASE Accounts!CreateCheck(r)
    BY <1>1, <2>1 DEF Accounts!CreateCheck
  <2>2. CASE Accounts!EmailCheck(r)
    BY <1>1, <2>2 DEF Accounts!EmailCheck
  <2>3. CASE Accounts!PromoteCheck(r)
    BY <1>1, <2>3 DEF Accounts!PromoteCheck
  <2> QED
    BY <1>4, <2>1, <2>2, <2>3
<1> QED
  BY <1>2, <1>3, <1>4 DEF Accounts!Next, Accounts!vars, Accounts!CommitCreate,
     Accounts!CommitEmail, Accounts!CommitPromote, Accounts!CommitFails, Accounts!Committed,
     Accounts!Deactivate, Accounts!Login, Accounts!SessionExpires, Accounts!SyncWorker

\* Only a creation and a change of address write the column, both under its unique key.
LEMMA EmailsStayUnique ==
  ASSUME Accounts!TypeOK, EmailsUnique, [Accounts!Next]_(Accounts!vars)
  PROVE EmailsUnique'
<1>1. ASSUME NEW w, NEW e, Accounts!Free(e, w), wEmail' = [wEmail EXCEPT ![w] = e]
      PROVE EmailsUnique'
  BY <1>1 DEF Accounts!TypeOK, EmailsUnique, Accounts!Free, Accounts!EmailExists
<1>2. ASSUME NEW r \in Requests, Accounts!CommitCreate(r) \/ Accounts!CommitEmail(r)
      PROVE EmailsUnique'
  BY <1>1, <1>2 DEF Accounts!CommitCreate, Accounts!CommitEmail
<1>3. CASE UNCHANGED wEmail
  BY <1>3 DEF EmailsUnique
<1> QED
  BY <1>2, <1>3 DEF Accounts!Next, Accounts!vars, Accounts!CreateCheck, Accounts!EmailCheck,
     Accounts!PromoteCheck, Accounts!Check, Accounts!CommitPromote, Accounts!CommitFails,
     Accounts!Deactivate, Accounts!Login, Accounts!SessionExpires, Accounts!SyncWorker

\* A worker is created with one role at most; a promotion takes the other one away.
LEMMA RolesStayDisjoint ==
  ASSUME Accounts!TypeOK, Accounts!AtMostOneRole, [Accounts!Next]_(Accounts!vars)
  PROVE Accounts!AtMostOneRole'
<1>1. ASSUME NEW r \in Requests, Accounts!CommitCreate(r) PROVE Accounts!AtMostOneRole'
  BY <1>1 DEF Accounts!CommitCreate, Accounts!TypeOK, Accounts!AtMostOneRole, Accounts!Tables,
     Accounts!Roles
<1>2. ASSUME NEW r \in Requests, Accounts!CommitPromote(r) PROVE Accounts!AtMostOneRole'
  BY <1>2 DEF Accounts!CommitPromote, Accounts!TypeOK, Accounts!AtMostOneRole,
     Accounts!Promoted, Accounts!Roles
<1>3. CASE UNCHANGED wRoles
  BY <1>3 DEF Accounts!AtMostOneRole
<1> QED
  BY <1>1, <1>2, <1>3 DEF Accounts!Next, Accounts!vars, Accounts!CreateCheck,
     Accounts!EmailCheck, Accounts!PromoteCheck, Accounts!Check, Accounts!CommitEmail,
     Accounts!CommitFails, Accounts!Deactivate, Accounts!Login, Accounts!SessionExpires,
     Accounts!SyncWorker

\* The whole invariant holds however commands, logins and synchronisations interleave.
THEOREM AccountsInvariant ==
  ASSUME Accounts!AccountsAssumption
  PROVE Accounts!Spec => []AccountsInv
<1>1. Accounts!Init => AccountsInv
  BY AccountsInit
<1>2. AccountsInv /\ [Accounts!Next]_(Accounts!vars) => AccountsInv'
  BY AccountsTyped, CommandsStayNamed, EmailsStayUnique, RolesStayDisjoint DEF AccountsInv
<1> QED
  BY <1>1, <1>2, PTL DEF Accounts!Spec

\* No name leads to two workers (get_by_email_active), because the addresses of all rows,
\* deactivated ones included, differ.
THEOREM ProfilesAreUnique ==
  ASSUME Accounts!AccountsAssumption
  PROVE Accounts!Spec => []ProfileIsUnique
<1>1. AccountsInv => ProfileIsUnique
  BY DEF Accounts!AccountsAssumption, AccountsInv, EmailsUnique, ProfileIsUnique,
     Accounts!ProfileIsUnique, Accounts!Profile, Accounts!TypeOK
<1> QED
  BY AccountsInvariant, <1>1, PTL

\* No worker is operator and manager (sql_models.py:172), however promotions and creations
\* overlap.
THEOREM RolesAreDisjoint ==
  ASSUME Accounts!AccountsAssumption
  PROVE Accounts!Spec => []Accounts!AtMostOneRole
<1>1. AccountsInv => Accounts!AtMostOneRole
  BY DEF AccountsInv
<1> QED
  BY AccountsInvariant, <1>1, PTL
-----------------------------------------------------------------------------
(* The sum *)

\* Whichever part takes the steps, each of the three does what it does by itself.
THEOREM SumImplementsItsParts == SumSpec => Spec /\ Sessions!Spec /\ Accounts!Spec
<1>1. SumInit => Init /\ Sessions!Init /\ Accounts!Init
  BY DEF SumInit
<1>2. [SumNext]_<<part, vars, SessionVars, AccountVars>>
      => /\ [Next]_vars
         /\ [Sessions!Next]_(Sessions!vars)
         /\ [Accounts!Next]_(Accounts!vars)
  BY DEF SumNext, SessionVars, AccountVars, Sessions!vars, Accounts!vars
<1> QED
  BY <1>1, <1>2, PTL DEF SumSpec, Spec, Sessions!Spec, Accounts!Spec

\* All variables of the three keep their types, whatever their requests do.
THEOREM DriversTypeCorrect ==
  ASSUME DeliveriesAssumption, Sessions!SessionsAssumption, Accounts!AccountsAssumption
  PROVE SumSpec => []TypesOK
<1>1. SessionsInv /\ AccountsInv /\ TypeOK => TypesOK
  BY DEF SessionsInv, AccountsInv, TypesOK
<1> QED
  BY SumImplementsItsParts, DeliveriesTypeCorrect, SessionsInvariant, AccountsInvariant, <1>1,
     PTL

=============================================================================
