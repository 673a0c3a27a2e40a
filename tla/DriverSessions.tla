--------------------------- MODULE DriverSessions ---------------------------
(***************************************************************************)
(* A driver is known in three places: a row of PostgreSQL, a user of       *)
(* Keycloak, a session in Redis.  Logging in goes through all of them,     *)
(* sync_users.py copies the first to the second, and the erasure of a      *)
(* driver's data visits PostgreSQL, Redis, MongoDB and MinIO in turn.      *)
(***************************************************************************)
CONSTANTS
  Drivers,
  DefaultPassword,  \* drivers whose password hash is that of DEFAULT_DRIVER_PASSWORD
  Logins,           \* logins that may overlap
  Images,           \* images of alerts on a driver's appointments
  None

SessionsAssumption ==
  /\ DefaultPassword \subseteq Drivers
  /\ None \notin Drivers

VARIABLES
  active,     \* driver.active; erasing the row clears it
  user,       \* what Keycloak has of the driver
  tokens,     \* Keycloak tokens the app holds that are valid
  session,    \* Redis session:driver:{license}
  login,      \* login[r]: the driver and what is done already
  syncing,    \* the driver sync_users.py is at, and its next call
  erasing,    \* the last store that the erasure of a driver has finished with
  collected,  \* image URLs the erasure has read
  images,     \* alert images in MinIO
  records,    \* drivers with documents in MongoDB
  excused     \* history: drivers whose session deletion failed or a login outran

vars == <<active, user, tokens, session, login, syncing, erasing, collected, images,
          records, excused>>

Parts == {"user", "password", "role"}
Stages == {"no", "postgres", "redis", "mongo", "minio"}
Idle == [driver |-> None, done |-> "no"]

TypeOK ==
  /\ active \subseteq Drivers
  /\ user \in [Drivers -> SUBSET Parts]
  /\ tokens \in [Drivers -> SUBSET {"access", "refresh"}]
  /\ session \subseteq Drivers
  /\ login \in [Logins -> [driver : Drivers \cup {None}, done : {"no", "keycloak", "data_module"}]]
  /\ syncing \in [driver : Drivers \cup {None}, next : {"password", "roles", "none"}]
  /\ erasing \in [Drivers -> Stages]
  /\ collected \in [Drivers -> SUBSET Images]
  /\ images \in [Drivers -> SUBSET Images]
  /\ records \subseteq Drivers
  /\ excused \subseteq Drivers

NotSyncing == [driver |-> None, next |-> "none"]

\* Registered drivers, before the first run of sync_users.py.
Init ==
  /\ active = Drivers
  /\ user = [d \in Drivers |-> {}]
  /\ tokens = [d \in Drivers |-> {}]
  /\ session = {}
  /\ login = [r \in Logins |-> Idle]
  /\ syncing = NotSyncing
  /\ erasing = [d \in Drivers |-> "no"]
  /\ collected = [d \in Drivers |-> {}]
  /\ images = [d \in Drivers |-> {}]
  /\ records = {} /\ excused = {}

-----------------------------------------------------------------------------
(* sync_users.py *)

SyncVars == <<active, tokens, session, login, erasing, collected, images, records, excused>>

\* A user that exists is skipped, whatever became of its password and roles.
SyncCreate(d) ==
  /\ syncing = NotSyncing
  /\ d \in active /\ user[d] = {}
  /\ user' = [user EXCEPT ![d] = {"user"}]
  /\ syncing' = [driver |-> d, next |-> "password"]
  /\ UNCHANGED SyncVars

\* A refused password is logged and the roles are assigned all the same.
SyncPassword ==
  /\ syncing.next = "password"
  /\ \/ user' = [user EXCEPT ![syncing.driver] = @ \cup {"password"}]
     \/ UNCHANGED user
  /\ syncing' = [syncing EXCEPT !.next = "roles"]
  /\ UNCHANGED SyncVars

\* Nor is a refused assignment noticed.
SyncRoles ==
  /\ syncing.next = "roles"
  /\ \/ user' = [user EXCEPT ![syncing.driver] = @ \cup {"role"}]
     \/ UNCHANGED user
  /\ syncing' = NotSyncing
  /\ UNCHANGED SyncVars

\* A call raises, or the script is stopped.
SyncAborts ==
  /\ syncing # NotSyncing
  /\ syncing' = NotSyncing
  /\ UNCHANGED <<user, SyncVars>>

-----------------------------------------------------------------------------
(* POST /auth/drivers/login and the tokens *)

LoginVars == <<active, user, syncing, erasing, collected, images, records>>

\* The password the driver types is Keycloak's, the default one.
ExchangeCredentials(r, d) ==
  /\ login[r] = Idle
  /\ {"user", "password"} \subseteq user[d]
  /\ login' = [login EXCEPT ![r] = [driver |-> d, done |-> "keycloak"]]
  /\ UNCHANGED <<tokens, session, excused, LoginVars>>

LoggedIn(r) ==
  /\ login' = [login EXCEPT ![r] = Idle]
  /\ tokens' = [tokens EXCEPT ![login[r].driver] = {"access", "refresh"}]

Credible(d) == d \in DefaultPassword   \* mutant: active is not looked at
Authentic(d) == d \in active /\ d \in DefaultPassword

\* authenticate_driver in the Data Module, with the same password.
AuthenticateDriver(r) ==
  /\ login[r].done = "keycloak" /\ Authentic(login[r].driver)
  /\ login' = [login EXCEPT ![r].done = "data_module"]
  /\ UNCHANGED <<tokens, session, excused, LoginVars>>

\* A refusal or an unreachable Data Module is passed over: tokens without a session.
LoginWithoutSession(r) ==
  /\ login[r].done = "keycloak"
  /\ LoggedIn(r)
  /\ UNCHANGED <<session, excused, LoginVars>>

\* set_session swallows what Redis throws.
SetSession(r) ==
  /\ login[r].done = "data_module"
  /\ session' \in {session, session \cup {login[r].driver}}
  /\ LoggedIn(r)
  /\ UNCHANGED <<excused, LoginVars>>

Refresh(d) ==
  /\ "refresh" \in tokens[d]
  /\ tokens' = [tokens EXCEPT ![d] = {"access", "refresh"}]
  /\ UNCHANGED <<session, login, excused, LoginVars>>

\* Logging out revokes the refresh token, and no more; both tokens expire.
LogoutOrExpire(d) ==
  /\ \E t \in tokens[d] : tokens' = [tokens EXCEPT ![d] = @ \ {t}]
  /\ UNCHANGED <<session, login, excused, LoginVars>>

SessionExpires(d) ==
  /\ d \in session
  /\ session' = session \ {d}
  /\ UNCHANGED <<tokens, login, excused, LoginVars>>

\* Reporting a problem, reading by licence, moving a delivery on: a token with the role will
\* do, and no step of an erasure takes either away.
ServedByToken(d) == "access" \in tokens[d] /\ "role" \in user[d]

\* Claiming and the driver's own deliveries: the Data Module asks for the session too
\* (get_current_claims).
ServedBySession(d) == ServedByToken(d) /\ d \in session

-----------------------------------------------------------------------------
(* DELETE /drivers/{license}/erase *)

EraseVars == <<user, tokens, login, syncing>>
Authenticated(d) == \E r \in Logins : login[r] = [driver |-> d, done |-> "data_module"]

\* Image URLs are read and the row anonymised in one transaction.
ErasePostgres(d) ==
  /\ erasing[d] \in {"no", "minio"}
  /\ collected' = [collected EXCEPT ![d] = images[d]]
  /\ active' = active \ {d}
  /\ erasing' = [erasing EXCEPT ![d] = "postgres"]
  /\ excused' = IF Authenticated(d) THEN excused \cup {d} ELSE excused
  /\ UNCHANGED <<session, images, records, EraseVars>>

\* delete_session swallows what Redis throws; the summary says "evicted" either way.
EraseRedis(d) ==
  /\ erasing[d] = "postgres"
  /\ \/ session' = session \ {d} /\ UNCHANGED excused
     \/ d \in session /\ UNCHANGED session /\ excused' = excused \cup {d}
  /\ erasing' = [erasing EXCEPT ![d] = "redis"]
  /\ UNCHANGED <<active, collected, images, records, EraseVars>>

\* Failures are put in the summary and the next store is tried.
EraseMongo(d) ==
  /\ erasing[d] = "redis"
  /\ records' \in {records, records \ {d}}
  /\ erasing' = [erasing EXCEPT ![d] = "mongo"]
  /\ UNCHANGED <<active, session, collected, images, excused, EraseVars>>

EraseMinio(d) ==
  /\ erasing[d] = "mongo"
  /\ \E deleted \in SUBSET collected[d] : images' = [images EXCEPT ![d] = @ \ deleted]
  /\ erasing' = [erasing EXCEPT ![d] = "minio"]
  /\ UNCHANGED <<active, session, collected, records, excused, EraseVars>>

\* The Data Module stops; a manager may ask again.
EraseAborts(d) ==
  /\ erasing[d] \in {"postgres", "redis", "mongo"}
  /\ erasing' = [erasing EXCEPT ![d] = "no"]
  /\ UNCHANGED <<active, session, collected, images, records, excused, EraseVars>>

\* Detections, notifications and alerts on the driver's appointments.
NewRecord(d) ==
  /\ records' = records \cup {d}
  /\ \E new \in SUBSET Images : images' = [images EXCEPT ![d] = @ \cup new]
  /\ UNCHANGED <<active, session, erasing, collected, excused, EraseVars>>

Sync == (\E d \in Drivers : SyncCreate(d)) \/ SyncPassword \/ SyncRoles \/ SyncAborts
Login(r) == \/ \E d \in Drivers : ExchangeCredentials(r, d)
            \/ AuthenticateDriver(r) \/ LoginWithoutSession(r) \/ SetSession(r)
Tokens(d) == Refresh(d) \/ LogoutOrExpire(d) \/ SessionExpires(d)
Erase(d) == \/ ErasePostgres(d) \/ EraseRedis(d) \/ EraseMongo(d) \/ EraseMinio(d)
            \/ EraseAborts(d) \/ NewRecord(d)

Next ==
  \/ Sync
  \/ \E r \in Logins : Login(r)
  \/ \E d \in Drivers : Tokens(d) \/ Erase(d)

Spec == Init /\ [][Next]_vars

-----------------------------------------------------------------------------
(* Properties *)

\* Once the erasure is past Redis the driver can claim nothing and lists no deliveries of
\* his own, whatever logins, refreshes and repeated erasures do, unless Redis failed to
\* delete the session or a login had been authenticated before the row was anonymised.
\* ServedByToken is promised nothing: those routes go on as long as Keycloak refreshes.
ErasedDriverClaimsNothing ==
  \A d \in Drivers \ active :
    ServedBySession(d) /\ erasing[d] \in {"redis", "mongo", "minio"} => d \in excused

=============================================================================
