------------------------------ MODULE Accounts ------------------------------
(***************************************************************************)
(* The account endpoints as they run: Register and Login                   *)
(* (internal/app/handlers.go) and the database half of the two OAuth       *)
(* callbacks, FindOrCreateSocialUser (internal/store/user.go), called      *)
(* concurrently on one pgx pool over Postgres at READ COMMITTED.           *)
(*                                                                         *)
(* A step is one round trip to the database, or the wait that precedes it. *)
(* users and identities hold the committed rows; row[h] and linked[h] are  *)
(* what h's open transaction has written.  The locks Postgres holds for a  *)
(* transaction (the unique index entry or row version of its e-mail, the   *)
(* unique index entry of its identity) and the pool's connections in use   *)
(* follow from pc, so they are operators.                                  *)
(***************************************************************************)
EXTENDS Naturals, FiniteSets

CONSTANTS
  Handlers, UserIds, Emails, Passwords, LongPasswords, Identities, EmailsOf,
  Faults, Null,
  MaxConns        \* POSTGRES_MAX_CONNS, the size of the pool

VARIABLES
  users,       \* the committed rows of table users
  identities,  \* the committed rows of table user_identities
  req,         \* req[h]: the request h serves, or served last
  answer,      \* answer[h]: what h answered to req[h]
  pc,          \* pc[h]: the call h is about to make
  row,         \* row[h]: the user row h's transaction upserted, or NoRow
  linked       \* linked[h]: h's transaction inserted an identity row

Directory == INSTANCE AccountDirectory
               WITH busy <- [h \in Handlers |-> pc[h] # "idle"]

vars == <<users, identities, req, answer, pc, row, linked>>
txVars == <<row, linked>>

ASSUME ParametersAssumption ==
  /\ EmailsOf \in [Identities -> SUBSET Emails]
  /\ Faults \in BOOLEAN
  /\ MaxConns \in Nat \ {0}
  /\ IsFiniteSet(Handlers)
  /\ Null \notin UserIds \cup Passwords \cup LongPasswords \cup Emails \cup Identities

NoRow == [id |-> Null, email |-> Null, hash |-> Null]

PCs == {"idle", "register", "insert", "login", "lookup",
        "begin", "upsert", "link", "commit"}

TypeOK ==
  /\ users \subseteq Directory!UserRows
  /\ identities \subseteq Directory!IdentityRows
  /\ req \in [Handlers -> Directory!Requests \cup {Directory!NoRequest}]
  /\ answer \in [Handlers -> Directory!Answers]
  /\ pc \in [Handlers -> PCs]
  /\ row \in [Handlers -> Directory!UserRows \cup {NoRow}]
  /\ linked \in [Handlers -> BOOLEAN]

-----------------------------------------------------------------------------
(* Locks and connections.                                                  *)

InTx(h) == pc[h] \in {"link", "commit"}

\* A writer of the e-mail waits for the transaction that inserted or updated it.
EmailLocked(e) == \E h \in Handlers : InTx(h) /\ row[h].email = e

\* An inserter of the identity waits for the transaction that inserted it.
IdentityLocked(i) ==
  \E h \in Handlers : pc[h] = "commit" /\ linked[h] /\ req[h].cred = i

\* Mutant: the lookup's row is not closed before Begin.
HoldsConnFromLookup(h) == pc[h] \in {"begin", "insert", "upsert", "link", "commit"}

\* A connection is held from Begin to the end of the transaction, and while
\* an INSERT waits; a SELECT never waits, so it needs a connection only for
\* its own step.
HoldsConn(h) == pc[h] \in {"insert", "upsert", "link", "commit"}
ConnFree == Cardinality({h \in Handlers : HoldsConn(h)}) < MaxConns

Fresh(id) ==
  /\ \A u \in users : u.id # id
  /\ \A h \in Handlers : InTx(h) => row[h].id # id

WithEmail(e) == {u \in users : u.email = e}
OwnerOf(i) == {x \in identities : x.ident = i}

-----------------------------------------------------------------------------
Init ==
  /\ users = {}
  /\ identities = {}
  /\ req = [h \in Handlers |-> Directory!NoRequest]
  /\ answer = [h \in Handlers |-> Directory!NoAnswer]
  /\ pc = [h \in Handlers |-> "idle"]
  /\ row = [h \in Handlers |-> NoRow]
  /\ linked = [h \in Handlers |-> FALSE]

Goto(h, l) == pc' = [pc EXCEPT ![h] = l]

Answer(h, a) ==
  /\ Goto(h, "idle")
  /\ answer' = [answer EXCEPT ![h] = a]
  /\ UNCHANGED req

\* The end of h's transaction, committed or rolled back.
EndTx(h) ==
  /\ row' = [row EXCEPT ![h] = NoRow]
  /\ linked' = [linked EXCEPT ![h] = FALSE]

\* The first call of the handler of a request.
FirstCall(r) ==
  IF r.kind = "register" THEN "register"
  ELSE IF r.kind = "login" THEN "login" ELSE "lookup"

\* A free handler is given a request with a valid body, or a callback whose
\* code exchange and profile fetch succeeded.
Receive(h, r) ==
  /\ pc[h] = "idle"
  /\ req' = [req EXCEPT ![h] = r]
  /\ answer' = [answer EXCEPT ![h] = Directory!NoAnswer]
  /\ Goto(h, FirstCall(r))
  /\ UNCHANGED <<users, identities, txVars>>

\* Mutant: CreateUser ignores the error of bcrypt.
HashPasswordUnchecked(h) ==
  /\ pc[h] = "register"
  /\ ConnFree
  /\ Goto(h, "insert")
  /\ UNCHANGED <<users, identities, req, answer, txVars>>

\* CreateUser: hash the password, then acquire a connection for the INSERT.
HashPassword(h) ==
  /\ pc[h] = "register"
  /\ \/ /\ req[h].cred \in LongPasswords
        /\ Answer(h, Directory!Conflict)
     \/ /\ req[h].cred \notin LongPasswords
        /\ ConnFree
        /\ Goto(h, "insert")
        /\ UNCHANGED <<req, answer>>
  /\ UNCHANGED <<users, identities, txVars>>

NewUser(h, id) == [id |-> id, email |-> req[h].email, hash |-> req[h].cred]

\* Mutant: the INSERT gives up on a locked e-mail, and Register calls it taken.
InsertUserNoWait(h) ==
  /\ pc[h] = "insert"
  /\ \/ /\ EmailLocked(req[h].email) \/ WithEmail(req[h].email) # {}
        /\ Answer(h, Directory!Conflict)
        /\ UNCHANGED users
     \/ /\ ~EmailLocked(req[h].email)
        /\ WithEmail(req[h].email) = {}
        /\ \E id \in UserIds :
             /\ Fresh(id)
             /\ users' = users \cup {NewUser(h, id)}
             /\ Answer(h, Directory!Created(id))
  /\ UNCHANGED <<identities, txVars>>

\* Mutant: registration upserts, as the social login does.
InsertOrUpdateUser(h) ==
  /\ pc[h] = "insert"
  /\ ~EmailLocked(req[h].email)
  /\ \/ \E u \in WithEmail(req[h].email) :
          /\ users' = (users \ {u}) \cup {NewUser(h, u.id)}
          /\ Answer(h, Directory!Created(u.id))
     \/ /\ WithEmail(req[h].email) = {}
        /\ \E id \in UserIds :
             /\ Fresh(id)
             /\ users' = users \cup {NewUser(h, id)}
             /\ Answer(h, Directory!Created(id))
  /\ UNCHANGED <<identities, txVars>>

\* The INSERT of CreateUser; whatever its error is, Register answers 409.
InsertUser(h) ==
  /\ pc[h] = "insert"
  /\ ~EmailLocked(req[h].email)
  /\ \/ /\ WithEmail(req[h].email) # {}
        /\ Answer(h, Directory!Conflict)
        /\ UNCHANGED users
     \/ /\ WithEmail(req[h].email) = {}
        /\ \E id \in UserIds :
             /\ Fresh(id)
             /\ users' = users \cup {NewUser(h, id)}
             /\ Answer(h, Directory!Created(id))
  /\ UNCHANGED <<identities, txVars>>

\* Login: a row without a password cannot be scanned, so it is a 401 as well.
Login(h) ==
  /\ pc[h] = "login"
  /\ ConnFree
  /\ \/ /\ \A u \in WithEmail(req[h].email) : u.hash # req[h].cred
        /\ Answer(h, Directory!Unauthorized)
     \/ \E u \in WithEmail(req[h].email) :
          /\ u.hash = req[h].cred
          /\ Answer(h, Directory!Token(u.id))
  /\ UNCHANGED <<users, identities, txVars>>

\* FindOrCreateSocialUser: the lookup by (provider, provider_id).
Lookup(h) ==
  /\ pc[h] = "lookup"
  /\ ConnFree
  /\ \/ \E x \in OwnerOf(req[h].cred) : Answer(h, Directory!Token(x.user))
     \/ /\ OwnerOf(req[h].cred) = {}
        /\ Goto(h, "begin")
        /\ UNCHANGED <<req, answer>>
  /\ UNCHANGED <<users, identities, txVars>>

Begin(h) ==
  /\ pc[h] = "begin"
  /\ ConnFree
  /\ Goto(h, "upsert")
  /\ UNCHANGED <<users, identities, req, answer, txVars>>

UpsertedRow(h, id) == [id |-> id, email |-> req[h].email, hash |-> Null]

\* Mutant: the upsert runs on the pool, outside the transaction.
UpsertOutsideTx(h) ==
  /\ pc[h] = "upsert"
  /\ ~EmailLocked(req[h].email)
  /\ \E u \in IF WithEmail(req[h].email) # {}
              THEN WithEmail(req[h].email)
              ELSE {UpsertedRow(h, id) : id \in {i \in UserIds : Fresh(i)}} :
       /\ users' = users \cup {u}
       /\ row' = [row EXCEPT ![h] = u]
  /\ Goto(h, "link")
  /\ UNCHANGED <<identities, req, answer, linked>>

\* Mutant: users.email is not UNIQUE, so that nothing conflicts.
UpsertWithoutUnique(h) ==
  /\ pc[h] = "upsert"
  /\ \E id \in UserIds :
       Fresh(id) /\ row' = [row EXCEPT ![h] = UpsertedRow(h, id)]
  /\ Goto(h, "link")
  /\ UNCHANGED <<users, identities, req, answer, linked>>

\* Mutant: the upsert is a SELECT, then an INSERT, without a lock.
UpsertWithoutLock(h) ==
  /\ pc[h] = "upsert"
  /\ \/ \E u \in WithEmail(req[h].email) : row' = [row EXCEPT ![h] = u]
     \/ /\ WithEmail(req[h].email) = {}
        /\ \E id \in UserIds :
             Fresh(id) /\ row' = [row EXCEPT ![h] = UpsertedRow(h, id)]
  /\ Goto(h, "link")
  /\ UNCHANGED <<users, identities, req, answer, linked>>

\* INSERT INTO users ... ON CONFLICT (email) DO UPDATE SET name.
UpsertUser(h) ==
  /\ pc[h] = "upsert"
  /\ ~EmailLocked(req[h].email)
  /\ \/ \E u \in WithEmail(req[h].email) : row' = [row EXCEPT ![h] = u]
     \/ /\ WithEmail(req[h].email) = {}
        /\ \E id \in UserIds :
             Fresh(id) /\ row' = [row EXCEPT ![h] = UpsertedRow(h, id)]
  /\ Goto(h, "link")
  /\ UNCHANGED <<users, identities, req, answer, linked>>

\* Mutant: only a user created here is linked.
LinkNewUsersOnly(h) ==
  /\ pc[h] = "link"
  /\ ~IdentityLocked(req[h].cred)
  /\ linked' = [linked EXCEPT ![h] =
                  OwnerOf(req[h].cred) = {} /\ row[h] \notin users]
  /\ Goto(h, "commit")
  /\ UNCHANGED <<users, identities, req, answer, row>>

\* INSERT INTO user_identities ... ON CONFLICT DO NOTHING.
LinkIdentity(h) ==
  /\ pc[h] = "link"
  /\ ~IdentityLocked(req[h].cred)
  /\ linked' = [linked EXCEPT ![h] = OwnerOf(req[h].cred) = {}]
  /\ Goto(h, "commit")
  /\ UNCHANGED <<users, identities, req, answer, row>>

\* Mutant: DO UPDATE sets every column, the password's too.
PublishErasingPassword(h) ==
  /\ users' = (users \ WithEmail(row[h].email))
                 \cup {[row[h] EXCEPT !.hash = Null]}
  /\ identities' = identities \cup
       (IF linked[h] THEN {[ident |-> req[h].cred, user |-> row[h].id]} ELSE {})
  /\ EndTx(h)

\* What a commit makes of the transaction.
Publish(h) ==
  /\ users' = users \cup {row[h]}
  /\ identities' = identities \cup
       (IF linked[h] THEN {[ident |-> req[h].cred, user |-> row[h].id]} ELSE {})
  /\ EndTx(h)

\* The commit; the token is for the user the upsert returned.
Commit(h) ==
  /\ pc[h] = "commit"
  /\ Publish(h)
  /\ Answer(h, Directory!Token(row[h].id))

-----------------------------------------------------------------------------
(* Faults: a call fails, its effect lost, or, of an INSERT outside a       *)
(* transaction and of a COMMIT, done but unacknowledged.                   *)

\* Register answers 409 to any failure of the INSERT.
InsertFails(h) ==
  /\ Faults
  /\ pc[h] \in {"register", "insert"}
  /\ Answer(h, Directory!Conflict)
  /\ UNCHANGED <<users, identities, txVars>>

InsertUnacknowledged(h) ==
  /\ Faults
  /\ pc[h] = "insert"
  /\ ~EmailLocked(req[h].email)
  /\ WithEmail(req[h].email) = {}
  /\ req[h].cred \in Passwords
  /\ \E id \in UserIds : Fresh(id) /\ users' = users \cup {NewUser(h, id)}
  /\ Answer(h, Directory!Conflict)
  /\ UNCHANGED <<identities, txVars>>

LoginFails(h) ==
  /\ Faults
  /\ pc[h] = "login"
  /\ Answer(h, Directory!Unauthorized)
  /\ UNCHANGED <<users, identities, txVars>>

\* Any error of the lookup is taken for "no such identity".
LookupFails(h) ==
  /\ Faults
  /\ pc[h] = "lookup"
  /\ Goto(h, "begin")
  /\ UNCHANGED <<users, identities, req, answer, txVars>>

\* Mutant: the error of Commit is ignored.
CommitErrorIgnored(h) ==
  /\ Faults
  /\ pc[h] \in {"begin", "upsert", "link", "commit"}
  /\ EndTx(h)
  /\ Answer(h, IF pc[h] = "commit" THEN Directory!Token(row[h].id)
                                 ELSE Directory!Failed)
  /\ UNCHANGED <<users, identities>>

\* An error in the transaction: the deferred Rollback, and a 500.
TxFails(h) ==
  /\ Faults
  /\ pc[h] \in {"begin", "upsert", "link", "commit"}
  /\ EndTx(h)
  /\ Answer(h, Directory!Failed)
  /\ UNCHANGED <<users, identities>>

CommitUnacknowledged(h) ==
  /\ Faults
  /\ pc[h] = "commit"
  /\ Publish(h)
  /\ Answer(h, Directory!Failed)

\* The server process ends and is started again: its requests go unanswered
\* and its open transactions are rolled back.
Restart ==
  /\ Faults
  /\ pc' = [h \in Handlers |-> "idle"]
  /\ row' = [h \in Handlers |-> NoRow]
  /\ linked' = [h \in Handlers |-> FALSE]
  /\ UNCHANGED <<users, identities, req, answer>>

-----------------------------------------------------------------------------
Serve(h) ==
  \/ HashPassword(h)
  \/ InsertUser(h)
  \/ Login(h)
  \/ Lookup(h)
  \/ Begin(h)
  \/ UpsertUser(h)
  \/ LinkIdentity(h)
  \/ Commit(h)

Fail(h) ==
  \/ InsertFails(h)
  \/ InsertUnacknowledged(h)
  \/ LoginFails(h)
  \/ LookupFails(h)
  \/ TxFails(h)
  \/ CommitUnacknowledged(h)

Next ==
  \/ \E h \in Handlers :
       \/ \E r \in Directory!Requests : Receive(h, r)
       \/ Serve(h)
       \/ Fail(h)
  \/ Restart

Spec == Init /\ [][Next]_vars

\* pgxpool hands out connections, and Postgres a contended row, in the order
\* they were asked for: a handler that can go on infinitely often does.
Fairness == \A h \in Handlers : SF_vars(Serve(h))

FairSpec == Spec /\ Fairness

-----------------------------------------------------------------------------
(* Properties.                                                             *)

\* A token issued to an OAuth callback names the user that owns the identity
\* the provider vouched for (user.go:83: "looks up a user by
\* provider+providerID"), whatever raced with the callback.
TokenMatchesIdentity ==
  \A h \in Handlers :
    answer[h].status = "token" /\ req[h].kind = "social"
      => [ident |-> req[h].cred, user |-> answer[h].sub] \in identities

\* Every account can be entered: a committed user has a password to log in
\* with or an identity that leads to it.  The transaction of
\* FindOrCreateSocialUser is there for it.
NoUnreachableUser ==
  \A u \in users :
    \/ u.hash # Null
    \/ \E x \in identities : x.user = u.id

\* 409 "email already registered" (handlers.go:432) is said of an e-mail that
\* is registered.
ConflictMeansTaken ==
  \A h \in Handlers :
    answer[h] = Directory!Conflict => WithEmail(req[h].email) # {}

\* The accounts at rest: one user per e-mail, one owner per identity, and the
\* owner exists and has an e-mail the provider reported.
DirectoryConsistent ==
  /\ \A u, v \in users : u.id = v.id \/ u.email = v.email => u = v
  /\ \A x, y \in identities : x.ident = y.ident => x = y
  /\ \A x \in identities :
       \E u \in users : u.id = x.user /\ u.email \in EmailsOf[x.ident]

\* What the row locks give an open transaction: the row it upserted is still
\* the only one of its e-mail, in the table and among the transactions; its
\* identity is owned or not as it was when it looked; and no two transactions
\* have linked one identity.
RowsCurrent ==
  \A h \in Handlers : InTx(h) =>
    /\ row[h].email = req[h].email
    /\ \/ row[h] \in users
       \/ /\ row[h].hash = Null
          /\ \A u \in users : u.id # row[h].id /\ u.email # row[h].email

RowsDisjoint ==
  \A g, h \in Handlers : g # h /\ InTx(g) /\ InTx(h) =>
    row[g].id # row[h].id /\ row[g].email # row[h].email

LinksCurrent ==
  \A h \in Handlers : pc[h] = "commit" =>
    (linked[h] <=> OwnerOf(req[h].cred) = {})

LinksDisjoint ==
  \A g, h \in Handlers :
    g # h /\ pc[g] = "commit" /\ pc[h] = "commit" /\ linked[g] /\ linked[h]
      => req[g].cred # req[h].cred

TxConsistent == RowsCurrent /\ RowsDisjoint /\ LinksCurrent /\ LinksDisjoint

\* Every request taken in is answered: the pool and the row locks never leave
\* handlers waiting on each other.
RequestsAnswered ==
  \A h \in Handlers : pc[h] # "idle" ~> pc[h] = "idle"

\* The handlers, their transactions and their races implement the directory
\* in which every request takes effect at once.
DirectorySpec == Directory!Spec
=============================================================================
