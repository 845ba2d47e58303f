-------------------------- MODULE AccountDirectory --------------------------
(***************************************************************************)
(* What the account endpoints of the API promise to their clients: every   *)
(* request of /auth/register, /auth/login and the two OAuth callbacks is   *)
(* answered, and takes effect, in ONE step.  The concurrent handlers and   *)
(* the database they share are in module Accounts, which is shown to       *)
(* implement this specification.                                           *)
(*                                                                         *)
(* A user row is [id, email, hash]; its name and created_at, which no      *)
(* decision of the code reads, are left out.  hash is the password itself  *)
(* (bcrypt accepts a password exactly when it is the one hashed) or Null   *)
(* for an account created by a social login.                               *)
(***************************************************************************)
EXTENDS Naturals, FiniteSets

CONSTANTS
  Handlers,       \* goroutines serving a request
  UserIds,        \* the values gen_random_uuid() may give users.id
  Emails,
  Passwords,      \* passwords bcrypt can hash
  LongPasswords,  \* passwords over 72 bytes, which bcrypt refuses to hash
  Identities,     \* (provider, provider_id) pairs
  EmailsOf,       \* the e-mails an identity's provider may report for it
  Faults,         \* whether a database call may fail and the server restart
  Null

\* A provider that never changes the e-mail it reports for an identity.
StableEmails ==
  \A i \in Identities : \A e, f \in EmailsOf[i] : e = f

UserRows == [id : UserIds, email : Emails, hash : Passwords \cup {Null}]
IdentityRows == [ident : Identities, user : UserIds]

Registrations ==
  [kind : {"register"}, email : Emails, cred : Passwords \cup LongPasswords]
Logins == [kind : {"login"}, email : Emails, cred : Passwords]
Callbacks ==
  {c \in [kind : {"social"}, email : Emails, cred : Identities] :
     c.email \in EmailsOf[c.cred]}
Requests == Registrations \cup Logins \cup Callbacks
NoRequest == [kind |-> "none", email |-> Null, cred |-> Null]

Created(id) == [status |-> "created", sub |-> id]   \* 201 with the user
Token(id) == [status |-> "token", sub |-> id]       \* a JWT whose sub is id
Conflict == [status |-> "conflict", sub |-> Null]   \* 409
Unauthorized == [status |-> "unauthorized", sub |-> Null]  \* 401
Failed == [status |-> "failed", sub |-> Null]       \* 500
NoAnswer == [status |-> "none", sub |-> Null]
Refusals == {Conflict, Unauthorized, Failed}
Answers == [status : {"created", "token"}, sub : UserIds]
             \cup Refusals \cup {NoAnswer}

VARIABLES
  users,       \* the rows of table users
  identities,  \* the rows of table user_identities
  req,         \* req[h]: the request h serves, or served last
  answer,      \* answer[h]: what h answered to req[h]
  busy         \* busy[h]: h has not answered yet

vars == <<users, identities, req, answer, busy>>

WithEmail(S, e) == {u \in S : u.email = e}
OwnerOf(i) == {x \in identities : x.ident = i}
Fresh(id) == \A u \in users : u.id # id

Init ==
  /\ users = {}
  /\ identities = {}
  /\ req = [h \in Handlers |-> NoRequest]
  /\ answer = [h \in Handlers |-> NoAnswer]
  /\ busy = [h \in Handlers |-> FALSE]

Request(h, r) ==
  /\ ~busy[h]
  /\ req' = [req EXCEPT ![h] = r]
  /\ answer' = [answer EXCEPT ![h] = NoAnswer]
  /\ busy' = [busy EXCEPT ![h] = TRUE]
  /\ UNCHANGED <<users, identities>>

Answer(h, a) ==
  /\ busy[h]
  /\ answer' = [answer EXCEPT ![h] = a]
  /\ busy' = [busy EXCEPT ![h] = FALSE]
  /\ UNCHANGED req

\* A registration takes a free e-mail and gives it a new user.
RegisterNew(h) ==
  /\ req[h].kind = "register"
  /\ WithEmail(users, req[h].email) = {}
  /\ \E id \in UserIds :
       /\ Fresh(id)
       /\ users' = users \cup
            {[id |-> id, email |-> req[h].email, hash |-> req[h].cred]}
       /\ \E a \in {Created(id)} \cup (IF Faults THEN {Conflict} ELSE {}) :
            Answer(h, a)
  /\ UNCHANGED identities

\* It is refused when the e-mail is taken, or the password cannot be stored.
RegisterRefused(h) ==
  /\ req[h].kind = "register"
  /\ \/ WithEmail(users, req[h].email) # {}
     \/ req[h].cred \in LongPasswords
  /\ Answer(h, Conflict)
  /\ UNCHANGED <<users, identities>>

\* A login gets a token for the user of that e-mail and password, if any.
LoginAnswered(h) ==
  /\ req[h].kind = "login"
  /\ LET matching == {u \in WithEmail(users, req[h].email) : u.hash = req[h].cred}
     IN  IF matching = {}
         THEN Answer(h, Unauthorized)
         ELSE \E u \in matching : Answer(h, Token(u.id))
  /\ UNCHANGED <<users, identities>>

\* A known identity gets a token for the user it belongs to.
SocialKnown(h) ==
  /\ req[h].kind = "social"
  /\ \E x \in OwnerOf(req[h].cred) : Answer(h, Token(x.user))
  /\ UNCHANGED <<users, identities>>

\* A new identity is attached to the user of its e-mail, created if needed,
\* and gets a token for that user.
SocialNew(h) ==
  /\ req[h].kind = "social"
  /\ OwnerOf(req[h].cred) = {}
  /\ \E u \in UserRows :
       /\ u.email = req[h].email
       /\ \/ u \in users
          \/ /\ WithEmail(users, u.email) = {}
             /\ Fresh(u.id)
             /\ u.hash = Null
       /\ users' = users \cup {u}
       /\ identities' = identities \cup {[ident |-> req[h].cred, user |-> u.id]}
       /\ \E a \in {Token(u.id)} \cup (IF Faults THEN {Failed} ELSE {}) :
            Answer(h, a)

\* A request may be refused without effect when a call of it fails.
Refused(h) ==
  /\ Faults
  /\ \E a \in Refusals : Answer(h, a)
  /\ UNCHANGED <<users, identities>>

\* A restart loses the requests being served and no row.
Restart ==
  /\ Faults
  /\ busy' = [h \in Handlers |-> FALSE]
  /\ UNCHANGED <<users, identities, req, answer>>

Next ==
  \/ Restart
  \/ \E h \in Handlers :
       \/ \E r \in Requests : Request(h, r)
       \/ RegisterNew(h)
       \/ RegisterRefused(h)
       \/ LoginAnswered(h)
       \/ SocialKnown(h)
       \/ SocialNew(h)
       \/ Refused(h)

Spec == Init /\ [][Next]_vars
=============================================================================
