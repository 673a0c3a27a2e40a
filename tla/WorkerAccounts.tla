--------------------------- MODULE WorkerAccounts ---------------------------
(***************************************************************************)
(* Operators and managers: rows of worker, operator and manager, their     *)
(* sessions in Redis, and the users sync_users.py makes of them in         *)
(* Keycloak.  Each command checks and commits in a transaction of its own; *)
(* what two of them may not do together only constraints prevent.          *)
(***************************************************************************)
CONSTANTS
  Workers,   \* values of num_worker
  Emails,
  Requests,  \* commands that may overlap
  None

Roles == {"operator", "manager"}
AccountsAssumption == None \notin Emails \cup Workers

VARIABLES
  email,     \* worker.email, None when there is no row
  roles,     \* tables the worker has a row in
  active,    \* worker.active
  session,   \* Redis session:{role}:{num_worker}
  username,  \* name of the Keycloak user, the email of the day it was made
  flight     \* flight[r]: what command r has checked and not committed

vars == <<email, roles, active, session, username, flight>>

Idle == [kind |-> "idle", worker |-> None, email |-> None, role |-> None]

TypeOK ==
  /\ email \in [Workers -> Emails \cup {None}]
  /\ roles \in [Workers -> SUBSET Roles]
  /\ active \subseteq Workers
  /\ session \subseteq Roles \X Workers
  /\ username \in [Workers -> Emails \cup {None}]
  /\ flight \in [Requests -> [kind : {"idle", "create", "email", "promote"},
                               worker : Workers \cup {None},
                               email : Emails \cup {None},
                               role : Roles \cup {None}]]

Init ==
  /\ email = [w \in Workers |-> None]
  /\ roles = [w \in Workers |-> {}]
  /\ active = {} /\ session = {}
  /\ username = [w \in Workers |-> None]
  /\ flight = [r \in Requests |-> Idle]

Exists(w) == email[w] # None
EmailExists(e, besides) == \E w \in Workers \ besides : email[w] = e
\* The role a worker is shown with; neither row is "unknown".
Role(w) == IF "manager" \in roles[w] THEN "manager" ELSE "operator"

Check(r, kind, w, e, role) ==
  /\ flight[r] = Idle
  /\ flight' = [flight EXCEPT ![r] = [kind |-> kind, worker |-> w, email |-> e, role |-> role]]
  /\ UNCHANGED <<email, roles, active, session, username>>
Done(r) == flight' = [flight EXCEPT ![r] = Idle]

\* POST /workers.  A role that is neither makes a worker without one.
CreateCheck(r) == \E w \in Workers, e \in Emails, role \in Roles \cup {None} :
  /\ ~EmailExists(e, {}) /\ ~Exists(w)
  /\ Check(r, "create", w, e, role)

\* POST /workers/email, which needs a session; no login through the gateway makes one.
EmailCheck(r) == \E w \in Workers, e \in Emails :
  /\ <<Role(w), w>> \in session
  /\ ~EmailExists(e, {w})
  /\ Check(r, "email", w, e, None)

\* POST /workers/{num_worker}/promote, for anyone who is not a manager.
PromoteCheck(r) == \E w \in Workers :
  /\ Exists(w) /\ "manager" \notin roles[w]
  /\ Check(r, "promote", w, None, None)

\* Primary keys of worker and manager, unique key of email.
FreeToAll(e, w) == TRUE   \* mutant: no unique key
Free(e, w) == ~EmailExists(e, {w})
TablesAsAsked(role) == {role}   \* mutant
Tables(role) == {role} \cap Roles

Promoted(old) == (old \ {"operator"}) \cup {"manager"}

Committed(r, kind) == flight[r].kind = kind /\ Done(r)

CommitCreate(r) ==
  LET w == flight[r].worker IN
  /\ Committed(r, "create")
  /\ ~Exists(w) /\ Free(flight[r].email, w)
  /\ email' = [email EXCEPT ![w] = flight[r].email]
  /\ roles' = [roles EXCEPT ![w] = Tables(flight[r].role)]
  /\ active' = active \cup {w}
  /\ UNCHANGED <<session, username>>

CommitEmail(r) ==
  LET w == flight[r].worker IN
  /\ Committed(r, "email")
  /\ Free(flight[r].email, w)
  /\ email' = [email EXCEPT ![w] = flight[r].email]
  /\ UNCHANGED <<roles, active, session, username>>

CommitPromote(r) ==
  LET w == flight[r].worker IN
  /\ Committed(r, "promote")
  /\ "manager" \notin roles[w]
  /\ roles' = [roles EXCEPT ![w] = Promoted(@)]
  /\ UNCHANGED <<email, active, session, username>>

\* IntegrityError: 500.
CommitFails(r) ==
  LET f == flight[r] w == f.worker IN
  /\ f # Idle
  /\ CASE f.kind = "create" -> Exists(w) \/ ~Free(f.email, w)
       [] f.kind = "email" -> ~Free(f.email, w)
       [] f.kind = "promote" -> "manager" \in roles[w]
  /\ Done(r)
  /\ UNCHANGED <<email, roles, active, session, username>>

\* The row stays, and so do the session and the Keycloak user.
Deactivate(w) ==
  /\ w \in active
  /\ active' = active \ {w}
  /\ UNCHANGED <<email, roles, session, username, flight>>

\* POST /workers/login of the Data Module; a session is kept per role.
Login(w) ==
  /\ w \in active
  /\ session' = session \cup {<<Role(w), w>>}
  /\ UNCHANGED <<email, roles, active, username, flight>>

SessionExpires(w) ==
  /\ \E s \in session : s[2] = w /\ session' = session \ {s}
  /\ UNCHANGED <<email, roles, active, username, flight>>

\* sync_users.py: a user called as the worker's email, unless there is one already.
SyncWorker(w) ==
  /\ w \in active /\ \A v \in Workers : username[v] # email[w]
  /\ username[w] = None
  /\ username' = [username EXCEPT ![w] = email[w]]
  /\ UNCHANGED <<email, roles, active, session, flight>>

\* The worker behind a Keycloak name: GET /workers/by-email and both /me routes.
Profile(name) == {w \in active : email[w] = name}

Next ==
  \/ \E r \in Requests :
       \/ CreateCheck(r) \/ EmailCheck(r) \/ PromoteCheck(r)
       \/ CommitCreate(r) \/ CommitEmail(r) \/ CommitPromote(r) \/ CommitFails(r)
  \/ \E w \in Workers : Deactivate(w) \/ Login(w) \/ SessionExpires(w) \/ SyncWorker(w)

Spec == Init /\ [][Next]_vars

-----------------------------------------------------------------------------
(* Properties *)

\* No name leads to two workers, although creations and changes of email look for the
\* email long before they commit.
ProfileIsUnique == \A e \in Emails : \A v, w \in Profile(e) : v = w

\* The specialisation is disjoint (sql_models.py:172): no worker is operator and manager,
\* however promotions overlap with each other and with creations.
AtMostOneRole == \A w \in Workers : ~(Roles \subseteq roles[w])

=============================================================================
