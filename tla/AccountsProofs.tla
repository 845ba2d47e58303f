--------------------------- MODULE AccountsProofs ---------------------------
(***************************************************************************)
(* What module Accounts keeps true for every number of handlers, users,    *)
(* e-mails and identities, with or without faults.                         *)
(***************************************************************************)
EXTENDS Accounts, TLAPS

SocialPCs == {"lookup", "begin", "upsert", "link", "commit"}

\* Where a handler is tells what it serves; an open transaction has a row.
ControlOK ==
  \A h \in Handlers :
    /\ pc[h] = "register" => req[h] \in Directory!Registrations
    /\ pc[h] = "insert" =>
         /\ req[h] \in Directory!Registrations
         /\ req[h].cred \in Passwords
    /\ pc[h] = "login" => req[h] \in Directory!Logins
    /\ pc[h] \in SocialPCs => req[h] \in Directory!Callbacks
    /\ InTx(h) => row[h] \in Directory!UserRows

TypeInv == TypeOK /\ ControlOK

-----------------------------------------------------------------------------
(* The requests, the rows and the answers, as the proofs use them.         *)

\* What the kind of a request says of its fields.
LEMMA RequestFacts ==
  /\ \A r \in Directory!Registrations :
       /\ r \in Directory!Requests
       /\ r.kind = "register"
       /\ r.email \in Emails
       /\ r.cred \in Passwords \cup LongPasswords
  /\ \A r \in Directory!Logins :
       /\ r \in Directory!Requests
       /\ r.kind = "login"
       /\ r.email \in Emails
       /\ r.cred \in Passwords
  /\ \A r \in Directory!Callbacks :
       /\ r \in Directory!Requests
       /\ r.kind = "social"
       /\ r.email \in Emails
       /\ r.cred \in Identities
       /\ r.email \in EmailsOf[r.cred]
  /\ \A r \in Directory!Requests :
       \/ r \in Directory!Registrations
       \/ r \in Directory!Logins
       \/ r \in Directory!Callbacks
BY DEF Directory!Requests, Directory!Registrations, Directory!Logins,
       Directory!Callbacks

\* The answers the handlers give are answers.
LEMMA AnswerFacts ==
  /\ \A id \in UserIds : /\ Directory!Created(id) \in Directory!Answers
                         /\ Directory!Token(id) \in Directory!Answers
  /\ {Directory!Conflict, Directory!Unauthorized, Directory!Failed,
      Directory!NoAnswer} \subseteq Directory!Answers
BY DEF Directory!Answers, Directory!Refusals, Directory!Created,
       Directory!Token, Directory!Conflict, Directory!Unauthorized,
       Directory!Failed, Directory!NoAnswer

\* What Answer and Goto do to the handlers' own variables.
LEMMA AnswerStep ==
  ASSUME TypeInv, NEW h \in Handlers, NEW a \in Directory!Answers, Answer(h, a)
  PROVE  /\ req' = req
         /\ pc' = [pc EXCEPT ![h] = "idle"]
         /\ pc' \in [Handlers -> PCs]
         /\ answer' = [answer EXCEPT ![h] = a]
         /\ answer' \in [Handlers -> Directory!Answers]
         /\ pc'[h] = "idle"
         /\ answer'[h] = a
         /\ \A g \in Handlers \ {h} : pc'[g] = pc[g] /\ answer'[g] = answer[g]
BY DEF TypeInv, TypeOK, Answer, Goto, PCs

LEMMA GotoStep ==
  ASSUME TypeInv, NEW h \in Handlers, NEW l \in PCs, Goto(h, l)
  PROVE  /\ pc' \in [Handlers -> PCs]
         /\ pc'[h] = l
         /\ \A g \in Handlers \ {h} : pc'[g] = pc[g]
BY DEF TypeInv, TypeOK, Goto

\* A transaction that ends leaves no row and no link behind.
LEMMA EndTxStep ==
  ASSUME TypeInv, NEW h \in Handlers, EndTx(h)
  PROVE  /\ row' \in [Handlers -> Directory!UserRows \cup {NoRow}]
         /\ linked' \in [Handlers -> BOOLEAN]
         /\ \A g \in Handlers \ {h} : row'[g] = row[g] /\ linked'[g] = linked[g]
BY DEF TypeInv, TypeOK, EndTx

-----------------------------------------------------------------------------
\* Nothing is half-written at the start.
LEMMA TypeInvInit == Init => TypeInv
BY AnswerFacts
   DEF Init, TypeInv, TypeOK, ControlOK, InTx, PCs, SocialPCs

\* Answering h's request disturbs nothing the control invariant says, provided
\* the transaction variables of the other handlers are left alone.
LEMMA ControlAfterAnswer ==
  ASSUME TypeInv, NEW h \in Handlers, NEW a \in Directory!Answers, Answer(h, a),
         \A g \in Handlers \ {h} : row'[g] = row[g]
  PROVE  ControlOK'
<1>1. /\ req' = req
      /\ pc'[h] = "idle"
      /\ \A g \in Handlers \ {h} : pc'[g] = pc[g]
  BY AnswerStep
<1> QED BY <1>1 DEF TypeInv, ControlOK, InTx, SocialPCs

\* So does moving on, when the request fits the place h goes to.
LEMMA ControlAfterGoto ==
  ASSUME TypeInv, NEW h \in Handlers, NEW l \in PCs, Goto(h, l), UNCHANGED req,
         l = "insert" => /\ req[h] \in Directory!Registrations
                         /\ req[h].cred \in Passwords,
         l \notin {"register", "login"},
         l \in SocialPCs => req[h] \in Directory!Callbacks,
         l \in {"link", "commit"} => row'[h] \in Directory!UserRows,
         \A g \in Handlers \ {h} : row'[g] = row[g]
  PROVE  ControlOK'
<1>1. /\ pc'[h] = l
      /\ \A g \in Handlers \ {h} : pc'[g] = pc[g]
  BY GotoStep
<1> QED BY <1>1 DEF TypeInv, ControlOK, InTx, SocialPCs

\* Publishing the row and the link of a transaction keeps the tables typed.
LEMMA PublishTyped ==
  ASSUME TypeInv, NEW h \in Handlers, pc[h] = "commit", Publish(h)
  PROVE  /\ users' \subseteq Directory!UserRows
         /\ identities' \subseteq Directory!IdentityRows
<1>1. row[h] \in Directory!UserRows /\ req[h] \in Directory!Callbacks
  BY DEF TypeInv, ControlOK, InTx, SocialPCs
<1>2. row[h].id \in UserIds /\ req[h].cred \in Identities
  BY <1>1, RequestFacts DEF Directory!UserRows
<1>3. [ident |-> req[h].cred, user |-> row[h].id] \in Directory!IdentityRows
  BY <1>2 DEF Directory!IdentityRows
<1> QED BY <1>1, <1>3 DEF TypeInv, TypeOK, Publish

\* The row a registration inserts is a user row.
LEMMA NewUserTyped ==
  ASSUME TypeInv, NEW h \in Handlers, pc[h] = "insert", NEW id \in UserIds
  PROVE  NewUser(h, id) \in Directory!UserRows
<1>1. req[h].email \in Emails /\ req[h].cred \in Passwords
  BY RequestFacts DEF TypeInv, ControlOK
<1> QED BY <1>1 DEF NewUser, Directory!UserRows

LEMMA TypeInvServe ==
  ASSUME TypeInv, NEW h \in Handlers, Serve(h)
  PROVE  TypeInv'
<1>1. CASE HashPassword(h)
  <2>1. CASE Answer(h, Directory!Conflict)
    BY <1>1, <2>1, AnswerFacts, AnswerStep, ControlAfterAnswer
       DEF HashPassword, txVars, TypeInv, TypeOK
  <2>2. CASE /\ req[h].cred \notin LongPasswords
             /\ Goto(h, "insert")
             /\ UNCHANGED <<req, answer>>
    <3>1. req[h] \in Directory!Registrations /\ req[h].cred \in Passwords
      BY <1>1, <2>2, RequestFacts DEF HashPassword, TypeInv, ControlOK
    <3>2. ControlOK'
      BY <1>1, <2>2, <3>1, ControlAfterGoto
         DEF HashPassword, txVars, SocialPCs, PCs
    <3> QED BY <1>1, <2>2, <3>2, GotoStep
            DEF HashPassword, txVars, TypeInv, TypeOK, PCs
  <2> QED BY <1>1, <2>1, <2>2 DEF HashPassword
<1>2. CASE InsertUser(h)
  <2>1. PICK a \in Directory!Answers : Answer(h, a)
    BY <1>2, AnswerFacts DEF InsertUser
  <2>2. users' \subseteq Directory!UserRows
    BY <1>2, NewUserTyped DEF InsertUser, TypeInv, TypeOK
  <2>3. ControlOK'
    BY <1>2, <2>1, ControlAfterAnswer DEF InsertUser, txVars
  <2> QED BY <1>2, <2>1, <2>2, <2>3, AnswerStep
          DEF InsertUser, txVars, TypeInv, TypeOK
<1>3. CASE Login(h)
  <2>1. PICK a \in Directory!Answers : Answer(h, a)
    BY <1>3, AnswerFacts
       DEF Login, WithEmail, TypeInv, TypeOK, Directory!UserRows
  <2>2. ControlOK'
    BY <1>3, <2>1, ControlAfterAnswer DEF Login, txVars
  <2> QED BY <1>3, <2>1, <2>2, AnswerStep DEF Login, txVars, TypeInv, TypeOK
<1>4. CASE Lookup(h)
  <2>1. CASE \E x \in OwnerOf(req[h].cred) : Answer(h, Directory!Token(x.user))
    <3>1. PICK a \in Directory!Answers : Answer(h, a)
      BY <2>1, AnswerFacts
         DEF OwnerOf, TypeInv, TypeOK, Directory!IdentityRows
    <3>2. ControlOK'
      BY <1>4, <3>1, ControlAfterAnswer DEF Lookup, txVars
    <3> QED BY <1>4, <3>1, <3>2, AnswerStep DEF Lookup, txVars, TypeInv, TypeOK
  <2>2. CASE Goto(h, "begin") /\ UNCHANGED <<req, answer>>
    <3>1. req[h] \in Directory!Callbacks
      BY <1>4 DEF Lookup, TypeInv, ControlOK, SocialPCs
    <3>2. ControlOK'
      BY <1>4, <2>2, <3>1, ControlAfterGoto DEF Lookup, txVars, SocialPCs, PCs
    <3> QED BY <1>4, <2>2, <3>2, GotoStep
            DEF Lookup, txVars, TypeInv, TypeOK, PCs
  <2> QED BY <1>4, <2>1, <2>2 DEF Lookup
<1>5. CASE Begin(h)
  <2>1. req[h] \in Directory!Callbacks
    BY <1>5 DEF Begin, TypeInv, ControlOK, SocialPCs
  <2>2. ControlOK'
    BY <1>5, <2>1, ControlAfterGoto DEF Begin, txVars, SocialPCs, PCs
  <2> QED BY <1>5, <2>2, GotoStep DEF Begin, txVars, TypeInv, TypeOK, PCs
<1>6. CASE UpsertUser(h)
  <2>1. req[h] \in Directory!Callbacks
    BY <1>6 DEF UpsertUser, TypeInv, ControlOK, SocialPCs
  <2>2. PICK u \in Directory!UserRows : row' = [row EXCEPT ![h] = u]
    BY <1>6, <2>1, RequestFacts
       DEF UpsertUser, UpsertedRow, WithEmail, TypeInv, TypeOK,
           Directory!UserRows
  <2>3. /\ row'[h] \in Directory!UserRows
        /\ row' \in [Handlers -> Directory!UserRows \cup {NoRow}]
        /\ \A g \in Handlers \ {h} : row'[g] = row[g]
    BY <2>2 DEF TypeInv, TypeOK
  <2>4. ControlOK'
    BY <1>6, <2>1, <2>3, ControlAfterGoto DEF UpsertUser, SocialPCs, PCs
  <2> QED BY <1>6, <2>3, <2>4, GotoStep DEF UpsertUser, TypeInv, TypeOK, PCs
<1>7. CASE LinkIdentity(h)
  <2>1. req[h] \in Directory!Callbacks /\ row[h] \in Directory!UserRows
    BY <1>7 DEF LinkIdentity, TypeInv, ControlOK, InTx, SocialPCs
  <2>2. ControlOK'
    BY <1>7, <2>1, ControlAfterGoto DEF LinkIdentity, SocialPCs, PCs
  <2> QED BY <1>7, <2>2, GotoStep DEF LinkIdentity, TypeInv, TypeOK, PCs
<1>8. CASE Commit(h)
  <2>1. Directory!Token(row[h].id) \in Directory!Answers
    BY <1>8, AnswerFacts
       DEF Commit, TypeInv, ControlOK, InTx, Directory!UserRows
  <2>2. /\ row' \in [Handlers -> Directory!UserRows \cup {NoRow}]
        /\ linked' \in [Handlers -> BOOLEAN]
        /\ \A g \in Handlers \ {h} : row'[g] = row[g]
    BY <1>8, EndTxStep DEF Commit, Publish
  <2>3. ControlOK'
    BY <1>8, <2>1, <2>2, ControlAfterAnswer DEF Commit
  <2>4. answer' \in [Handlers -> Directory!Answers] /\ req' = req
    BY <1>8, <2>1, AnswerStep DEF Commit
  <2>5. pc' \in [Handlers -> PCs]
    BY <1>8, <2>1, AnswerStep DEF Commit
  <2> QED BY <1>8, <2>2, <2>3, <2>4, <2>5, PublishTyped
          DEF Commit, TypeInv, TypeOK
<1> QED BY <1>1, <1>2, <1>3, <1>4, <1>5, <1>6, <1>7, <1>8 DEF Serve

LEMMA TypeInvFail ==
  ASSUME TypeInv, NEW h \in Handlers, Fail(h)
  PROVE  TypeInv'
<1>1. CASE \/ InsertFails(h)
           \/ LoginFails(h)
  <2>1. PICK a \in Directory!Answers : Answer(h, a)
    BY <1>1, AnswerFacts DEF InsertFails, LoginFails
  <2>2. UNCHANGED <<users, identities, row, linked>>
    BY <1>1 DEF InsertFails, LoginFails, txVars
  <2>3. ControlOK'
    BY <2>1, <2>2, ControlAfterAnswer
  <2> QED BY <2>1, <2>2, <2>3, AnswerStep DEF TypeInv, TypeOK
<1>2. CASE InsertUnacknowledged(h)
  <2>1. Answer(h, Directory!Conflict) /\ UNCHANGED <<identities, row, linked>>
    BY <1>2 DEF InsertUnacknowledged, txVars
  <2>2. users' \subseteq Directory!UserRows
    BY <1>2, NewUserTyped DEF InsertUnacknowledged, TypeInv, TypeOK
  <2>3. ControlOK'
    BY <2>1, AnswerFacts, ControlAfterAnswer
  <2> QED BY <2>1, <2>2, <2>3, AnswerFacts, AnswerStep DEF TypeInv, TypeOK
<1>3. CASE LookupFails(h)
  <2>1. req[h] \in Directory!Callbacks
    BY <1>3 DEF LookupFails, TypeInv, ControlOK, SocialPCs
  <2>2. ControlOK'
    BY <1>3, <2>1, ControlAfterGoto DEF LookupFails, txVars, SocialPCs, PCs
  <2> QED BY <1>3, <2>2, GotoStep DEF LookupFails, txVars, TypeInv, TypeOK, PCs
<1>4. CASE TxFails(h)
  <2>1. Answer(h, Directory!Failed) /\ EndTx(h) /\ UNCHANGED <<users, identities>>
    BY <1>4 DEF TxFails
  <2>2. ControlOK'
    BY <2>1, AnswerFacts, EndTxStep, ControlAfterAnswer
  <2> QED BY <2>1, <2>2, AnswerFacts, AnswerStep, EndTxStep DEF TypeInv, TypeOK
<1>5. CASE CommitUnacknowledged(h)
  <2>1. Answer(h, Directory!Failed) /\ EndTx(h)
    BY <1>5 DEF CommitUnacknowledged, Publish
  <2>2. ControlOK'
    BY <2>1, AnswerFacts, EndTxStep, ControlAfterAnswer
  <2>3. /\ users' \subseteq Directory!UserRows
        /\ identities' \subseteq Directory!IdentityRows
    BY <1>5, PublishTyped DEF CommitUnacknowledged
  <2> QED BY <2>1, <2>2, <2>3, AnswerFacts, AnswerStep, EndTxStep
          DEF TypeInv, TypeOK
<1> QED BY <1>1, <1>2, <1>3, <1>4, <1>5 DEF Fail

LEMMA TypeInvReceive ==
  ASSUME TypeInv, NEW h \in Handlers, NEW r \in Directory!Requests, Receive(h, r)
  PROVE  TypeInv'
<1>1. \/ r \in Directory!Registrations /\ FirstCall(r) = "register"
      \/ r \in Directory!Logins /\ FirstCall(r) = "login"
      \/ r \in Directory!Callbacks /\ FirstCall(r) = "lookup"
  BY RequestFacts DEF FirstCall
<1>2. FirstCall(r) \in PCs /\ Goto(h, FirstCall(r))
  BY <1>1 DEF Receive, PCs
<1>3. /\ req' \in [Handlers -> Directory!Requests \cup {Directory!NoRequest}]
      /\ req'[h] = r
      /\ \A g \in Handlers \ {h} : req'[g] = req[g]
  BY DEF Receive, TypeInv, TypeOK
<1>4. answer' \in [Handlers -> Directory!Answers]
  BY AnswerFacts DEF Receive, TypeInv, TypeOK
<1>5. UNCHANGED <<users, identities, row, linked>>
  BY DEF Receive, txVars
<1>6. /\ pc' \in [Handlers -> PCs]
      /\ pc'[h] = FirstCall(r)
      /\ \A g \in Handlers \ {h} : pc'[g] = pc[g]
  BY <1>2, GotoStep
<1>7. ControlOK'
  BY <1>1, <1>3, <1>5, <1>6 DEF TypeInv, ControlOK, InTx, SocialPCs
<1> QED BY <1>3, <1>4, <1>5, <1>6, <1>7 DEF TypeInv, TypeOK

LEMMA TypeInvRestart ==
  TypeInv /\ Restart => TypeInv'
BY DEF Restart, TypeInv, TypeOK, ControlOK, InTx, PCs, SocialPCs

\* The type invariant is inductive with the control invariant.
LEMMA TypeInvStep == TypeInv /\ [Next]_vars => TypeInv'
<1> SUFFICES ASSUME TypeInv, [Next]_vars
             PROVE  TypeInv'
  OBVIOUS
<1>1. CASE UNCHANGED vars
  BY <1>1 DEF vars, txVars, TypeInv, TypeOK, ControlOK, InTx
<1>2. CASE Next
  BY <1>2, TypeInvServe, TypeInvFail, TypeInvReceive, TypeInvRestart DEF Next
<1> QED BY <1>1, <1>2

\* The tables, the requests in service, their answers and the open
\* transactions keep their types: in particular no password beyond bcrypt's
\* limit is ever stored, and no transaction commits without a user row.
THEOREM TypeCorrect == Spec => []TypeOK
<1>1. TypeInv => TypeOK
  BY DEF TypeInv
<1> QED BY <1>1, TypeInvInit, TypeInvStep, PTL DEF Spec

-----------------------------------------------------------------------------
(* Consistency of the tables and of the open transactions, for every kind  *)
(* of step: those that leave both alone, then the INSERT, the upsert, the  *)
(* link and the commit.                                                    *)

SafeInv == TypeInv /\ DirectoryConsistent /\ TxConsistent

\* A step that writes no row and opens no transaction.
Quiet ==
  /\ UNCHANGED <<users, identities>>
  /\ \A g \in Handlers : InTx(g)' =>
       /\ InTx(g)
       /\ pc'[g] = pc[g] /\ req'[g] = req[g]
       /\ row'[g] = row[g] /\ linked'[g] = linked[g]

\* Consistency is about the tables and the open transactions only.
LEMMA QuietStep ==
  ASSUME SafeInv, Quiet
  PROVE  DirectoryConsistent' /\ TxConsistent'
<1>1. DirectoryConsistent'
  BY DEF SafeInv, Quiet, DirectoryConsistent
<1>2. \A g \in Handlers : pc'[g] = "commit" => pc[g] = "commit"
  BY DEF Quiet, InTx
<1>3. TxConsistent'
  BY <1>2 DEF SafeInv, Quiet, TxConsistent, RowsCurrent, RowsDisjoint,
         LinksCurrent, LinksDisjoint, InTx, OwnerOf
<1> QED BY <1>1, <1>3

\* Answering, with the tables alone, is quiet.
LEMMA AnswerQuiet ==
  ASSUME TypeInv, NEW h \in Handlers, NEW a \in Directory!Answers, Answer(h, a),
         UNCHANGED <<users, identities>>,
         \A g \in Handlers \ {h} : row'[g] = row[g] /\ linked'[g] = linked[g]
  PROVE  Quiet
BY AnswerStep DEF Quiet, InTx

\* So is moving on to a call outside a transaction.
LEMMA GotoQuiet ==
  ASSUME TypeInv, NEW h \in Handlers, NEW l \in PCs \ {"link", "commit"},
         Goto(h, l),
         UNCHANGED <<users, identities, row, linked>>,
         \A g \in Handlers \ {h} : req'[g] = req[g]
  PROVE  Quiet
BY GotoStep DEF Quiet, InTx

\* Inserting a user of an e-mail that is free and locked by no transaction.
LEMMA InsertStep ==
  ASSUME SafeInv, NEW h \in Handlers, pc[h] = "insert",
         NEW a \in Directory!Answers, Answer(h, a),
         ~EmailLocked(req[h].email), WithEmail(req[h].email) = {},
         NEW id \in UserIds, Fresh(id), users' = users \cup {NewUser(h, id)},
         UNCHANGED <<identities, row, linked>>
  PROVE  DirectoryConsistent' /\ TxConsistent'
<1> DEFINE new == NewUser(h, id)
<1>1. /\ new.id = id /\ new.email = req[h].email
      /\ \A u \in users : u.id # new.id /\ u.email # new.email
      /\ \A g \in Handlers : InTx(g) =>
           row[g].id # new.id /\ row[g].email # new.email
  BY DEF NewUser, Fresh, WithEmail, EmailLocked
<1>2. \A g \in Handlers :
        InTx(g)' => InTx(g) /\ pc'[g] = pc[g] /\ req'[g] = req[g]
  BY AnswerStep DEF SafeInv, InTx
<1> HIDE DEF new
<1>3. DirectoryConsistent'
  BY <1>1 DEF SafeInv, DirectoryConsistent, new
<1>4. \A g \in Handlers : pc'[g] = "commit" => pc[g] = "commit"
  BY <1>2 DEF InTx
<1>5. TxConsistent'
  BY <1>1, <1>2, <1>4 DEF SafeInv, TxConsistent, RowsCurrent, RowsDisjoint,
         LinksCurrent, LinksDisjoint, InTx, OwnerOf, new
<1> QED BY <1>3, <1>5

\* Upserting a row: it is the e-mail's only one, in the table or outside it.
LEMMA UpsertStep ==
  ASSUME SafeInv, NEW h \in Handlers, UpsertUser(h)
  PROVE  DirectoryConsistent' /\ TxConsistent'
<1>1. /\ UNCHANGED <<users, identities, req, linked>>
      /\ pc[h] = "upsert" /\ pc'[h] = "link"
      /\ \A g \in Handlers \ {h} : pc'[g] = pc[g] /\ row'[g] = row[g]
  BY GotoStep DEF SafeInv, TypeInv, TypeOK, UpsertUser, PCs
<1>2. \A g \in Handlers : InTx(g) => row[g].email # req[h].email
  BY DEF UpsertUser, EmailLocked
<1>3. /\ row'[h].email = req[h].email
      /\ \/ row'[h] \in users
         \/ /\ row'[h].hash = Null
            /\ \A u \in users : u.id # row'[h].id /\ u.email # row'[h].email
      /\ \A g \in Handlers : InTx(g) => row[g].id # row'[h].id
  <2>1. CASE \E u \in WithEmail(req[h].email) : row' = [row EXCEPT ![h] = u]
    <3>1. row'[h] \in users /\ row'[h].email = req[h].email
      BY <2>1 DEF SafeInv, TypeInv, TypeOK, WithEmail
    <3>2. \A g \in Handlers : InTx(g) => row[g].id # row'[h].id
      BY <1>2, <3>1 DEF SafeInv, DirectoryConsistent, TxConsistent, RowsCurrent
    <3> QED BY <3>1, <3>2
  <2>2. CASE /\ WithEmail(req[h].email) = {}
             /\ \E id \in UserIds :
                  Fresh(id) /\ row' = [row EXCEPT ![h] = UpsertedRow(h, id)]
    BY <2>2 DEF UpsertedRow, SafeInv, TypeInv, TypeOK, WithEmail, Fresh
  <2> QED BY <2>1, <2>2 DEF UpsertUser
<1>4. DirectoryConsistent'
  BY <1>1 DEF SafeInv, DirectoryConsistent
<1>5. \A g \in Handlers :
        /\ InTx(g)' <=> InTx(g) \/ g = h
        /\ pc'[g] = "commit" <=> pc[g] = "commit"
  BY <1>1 DEF InTx
<1>6. TxConsistent'
  BY <1>1, <1>2, <1>3, <1>5 DEF SafeInv, TxConsistent, RowsCurrent, RowsDisjoint,
         LinksCurrent, LinksDisjoint, OwnerOf
<1> QED BY <1>4, <1>6

\* Linking: no other transaction has linked the same identity.
LEMMA LinkStep ==
  ASSUME SafeInv, NEW h \in Handlers, LinkIdentity(h)
  PROVE  DirectoryConsistent' /\ TxConsistent'
<1>1. /\ UNCHANGED <<users, identities, req, row>>
      /\ pc[h] = "link" /\ pc'[h] = "commit"
      /\ linked'[h] = (OwnerOf(req[h].cred) = {})
      /\ \A g \in Handlers \ {h} : pc'[g] = pc[g] /\ linked'[g] = linked[g]
  BY GotoStep DEF SafeInv, TypeInv, TypeOK, LinkIdentity, PCs
<1>2. \A g \in Handlers :
        pc[g] = "commit" /\ linked[g] => req[g].cred # req[h].cred
  BY DEF LinkIdentity, IdentityLocked
<1>3. DirectoryConsistent'
  BY <1>1 DEF SafeInv, DirectoryConsistent
<1>4. \A g \in Handlers :
        /\ InTx(g)' <=> InTx(g)
        /\ pc'[g] = "commit" <=> pc[g] = "commit" \/ g = h
  BY <1>1 DEF InTx
<1>5. RowsCurrent' /\ RowsDisjoint'
  BY <1>1, <1>4 DEF SafeInv, TxConsistent, RowsCurrent, RowsDisjoint
<1>6. LinksCurrent'
  <2> SUFFICES ASSUME NEW g \in Handlers, pc'[g] = "commit"
               PROVE  linked'[g] <=> OwnerOf(req[g].cred) = {}
    BY <1>1 DEF LinksCurrent, OwnerOf
  <2>1. CASE g = h
    BY <1>1, <2>1
  <2>2. CASE g # h
    BY <1>1, <1>4, <2>2 DEF SafeInv, TxConsistent, LinksCurrent
  <2> QED BY <2>1, <2>2
<1>7. LinksDisjoint'
  BY <1>1, <1>2, <1>4 DEF SafeInv, TxConsistent, LinksDisjoint
<1> QED BY <1>3, <1>5, <1>6, <1>7 DEF TxConsistent

\* Publishing: what h adds to the tables collides with no row and no link.
LEMMA PublishStep ==
  ASSUME SafeInv, NEW h \in Handlers, pc[h] = "commit", Publish(h),
         NEW a \in Directory!Answers, Answer(h, a)
  PROVE  DirectoryConsistent' /\ TxConsistent'
<1> DEFINE link == [ident |-> req[h].cred, user |-> row[h].id]
<1>1. /\ users' = users \cup {row[h]}
      /\ identities' = identities \cup (IF linked[h] THEN {link} ELSE {})
      /\ link.ident = req[h].cred /\ link.user = row[h].id
  BY DEF Publish
<1>2. /\ row[h].email = req[h].email
      /\ req[h].email \in EmailsOf[req[h].cred]
      /\ \/ row[h] \in users
         \/ \A u \in users : u.id # row[h].id /\ u.email # row[h].email
      /\ linked[h] <=> OwnerOf(req[h].cred) = {}
  BY RequestFacts
     DEF SafeInv, TypeInv, ControlOK, SocialPCs, TxConsistent, RowsCurrent,
         LinksCurrent, InTx
<1>3. \A g \in Handlers : InTx(g)' =>
        /\ g # h /\ InTx(g)
        /\ pc'[g] = pc[g] /\ req'[g] = req[g]
        /\ row'[g] = row[g] /\ linked'[g] = linked[g]
        /\ row[g].id # row[h].id /\ row[g].email # row[h].email
  BY AnswerStep, EndTxStep
     DEF SafeInv, TypeInv, TypeOK, Publish, InTx, TxConsistent, RowsDisjoint
<1>4. \A g \in Handlers : pc'[g] = "commit" => pc[g] = "commit" /\ InTx(g)'
  BY <1>3 DEF InTx
<1> HIDE DEF link
<1>5. DirectoryConsistent'
  <2>1. \A u, v \in users' : u.id = v.id \/ u.email = v.email => u = v
    BY <1>1, <1>2 DEF SafeInv, DirectoryConsistent
  <2>2. \A x, y \in identities' : x.ident = y.ident => x = y
    BY <1>1, <1>2 DEF SafeInv, DirectoryConsistent, OwnerOf
  <2>3. \A x \in identities' :
          \E u \in users' : u.id = x.user /\ u.email \in EmailsOf[x.ident]
    BY <1>1, <1>2 DEF SafeInv, DirectoryConsistent
  <2> QED BY <2>1, <2>2, <2>3 DEF DirectoryConsistent
<1>6. RowsCurrent'
  BY <1>1, <1>3 DEF SafeInv, TxConsistent, RowsCurrent
<1>7. RowsDisjoint'
  BY <1>3 DEF SafeInv, TxConsistent, RowsDisjoint
<1>8. LinksCurrent'
  <2> SUFFICES ASSUME NEW g \in Handlers, pc'[g] = "commit"
               PROVE  linked'[g] <=> {x \in identities' : x.ident = req'[g].cred} = {}
    BY DEF LinksCurrent, OwnerOf
  <2>1. /\ g # h /\ pc[g] = "commit" /\ req'[g] = req[g]
        /\ linked'[g] = linked[g]
        /\ linked[g] <=> OwnerOf(req[g].cred) = {}
        /\ linked[g] /\ linked[h] => req[g].cred # req[h].cred
    BY <1>3, <1>4
       DEF SafeInv, TxConsistent, LinksCurrent, LinksDisjoint
  <2>2. CASE linked[g]
    BY <1>1, <2>1, <2>2 DEF OwnerOf
  <2>3. CASE ~linked[g]
    BY <1>1, <2>1, <2>3 DEF OwnerOf
  <2> QED BY <2>2, <2>3
<1>9. LinksDisjoint'
  BY <1>3, <1>4 DEF SafeInv, TxConsistent, LinksDisjoint
<1> QED BY <1>5, <1>6, <1>7, <1>8, <1>9 DEF TxConsistent

LEMMA SafeInvServe ==
  ASSUME SafeInv, NEW h \in Handlers, Serve(h)
  PROVE  DirectoryConsistent' /\ TxConsistent'
<1> USE DEF SafeInv
<1>1. CASE HashPassword(h)
  BY <1>1, QuietStep, AnswerQuiet, GotoQuiet, AnswerFacts
     DEF HashPassword, txVars, PCs
<1>2. CASE InsertUser(h)
  <2>1. CASE Answer(h, Directory!Conflict) /\ UNCHANGED users
    BY <1>2, <2>1, QuietStep, AnswerQuiet, AnswerFacts DEF InsertUser, txVars
  <2>2. CASE /\ WithEmail(req[h].email) = {}
             /\ \E id \in UserIds :
                  /\ Fresh(id)
                  /\ users' = users \cup {NewUser(h, id)}
                  /\ Answer(h, Directory!Created(id))
    BY <1>2, <2>2, InsertStep, AnswerFacts DEF InsertUser, txVars
  <2> QED BY <1>2, <2>1, <2>2 DEF InsertUser
<1>3. CASE Login(h)
  <2>1. PICK a \in Directory!Answers : Answer(h, a)
    BY <1>3, AnswerFacts
       DEF Login, WithEmail, TypeInv, TypeOK, Directory!UserRows
  <2> QED BY <1>3, <2>1, QuietStep, AnswerQuiet DEF Login, txVars
<1>4. CASE Lookup(h)
  <2>1. CASE \E x \in OwnerOf(req[h].cred) : Answer(h, Directory!Token(x.user))
    <3>1. PICK a \in Directory!Answers : Answer(h, a)
      BY <2>1, AnswerFacts
         DEF OwnerOf, TypeInv, TypeOK, Directory!IdentityRows
    <3> QED BY <1>4, <3>1, QuietStep, AnswerQuiet DEF Lookup, txVars
  <2>2. CASE Goto(h, "begin") /\ UNCHANGED <<req, answer>>
    BY <1>4, <2>2, QuietStep, GotoQuiet DEF Lookup, txVars, PCs
  <2> QED BY <1>4, <2>1, <2>2 DEF Lookup
<1>5. CASE Begin(h)
  BY <1>5, QuietStep, GotoQuiet DEF Begin, txVars, PCs
<1>6. CASE UpsertUser(h)
  BY <1>6, UpsertStep
<1>7. CASE LinkIdentity(h)
  BY <1>7, LinkStep
<1>8. CASE Commit(h)
  <2>1. Directory!Token(row[h].id) \in Directory!Answers
    BY <1>8, AnswerFacts
       DEF Commit, TypeInv, ControlOK, InTx, Directory!UserRows
  <2> QED BY <1>8, <2>1, PublishStep DEF Commit
<1> QED BY <1>1, <1>2, <1>3, <1>4, <1>5, <1>6, <1>7, <1>8 DEF Serve

LEMMA SafeInvFail ==
  ASSUME SafeInv, NEW h \in Handlers, Fail(h)
  PROVE  DirectoryConsistent' /\ TxConsistent'
<1> USE DEF SafeInv
<1>1. CASE InsertFails(h) \/ LoginFails(h)
  BY <1>1, QuietStep, AnswerQuiet, AnswerFacts DEF InsertFails, LoginFails, txVars
<1>2. CASE InsertUnacknowledged(h)
  BY <1>2, InsertStep, AnswerFacts DEF InsertUnacknowledged, txVars
<1>3. CASE LookupFails(h)
  BY <1>3, QuietStep, GotoQuiet DEF LookupFails, txVars, PCs
<1>4. CASE TxFails(h)
  BY <1>4, QuietStep, AnswerQuiet, EndTxStep, AnswerFacts DEF TxFails
<1>5. CASE CommitUnacknowledged(h)
  BY <1>5, PublishStep, AnswerFacts DEF CommitUnacknowledged
<1> QED BY <1>1, <1>2, <1>3, <1>4, <1>5 DEF Fail

LEMMA SafeInvInit == Init => SafeInv
BY TypeInvInit
   DEF Init, SafeInv, DirectoryConsistent, TxConsistent, RowsCurrent,
       RowsDisjoint, LinksCurrent, LinksDisjoint, InTx

LEMMA SafeInvStep == SafeInv /\ [Next]_vars => SafeInv'
<1> SUFFICES ASSUME SafeInv, [Next]_vars
             PROVE  DirectoryConsistent' /\ TxConsistent'
  BY TypeInvStep DEF SafeInv
<1>1. CASE UNCHANGED vars
  BY <1>1, QuietStep DEF vars, txVars, Quiet, InTx
<1>2. CASE \E h \in Handlers : \E r \in Directory!Requests : Receive(h, r)
  <2>1. PICK h \in Handlers, r \in Directory!Requests : Receive(h, r)
    BY <1>2
  <2>2. FirstCall(r) \in PCs \ {"link", "commit"}
    BY DEF FirstCall, PCs
  <2>3. /\ Goto(h, FirstCall(r))
        /\ UNCHANGED <<users, identities, row, linked>>
        /\ \A g \in Handlers \ {h} : req'[g] = req[g]
    BY <2>1 DEF Receive, txVars, SafeInv, TypeInv, TypeOK
  <2> QED BY <2>2, <2>3, QuietStep, GotoQuiet DEF SafeInv
<1>3. CASE \E h \in Handlers : Serve(h) \/ Fail(h)
  BY <1>3, SafeInvServe, SafeInvFail
<1>4. CASE Restart
  BY <1>4, QuietStep DEF Restart, Quiet, InTx
<1> QED BY <1>1, <1>2, <1>3, <1>4 DEF Next

\* However the callbacks and registrations race, fail or are cut short by a
\* restart: one user per e-mail, one owner per identity, every owner exists
\* and has an e-mail its provider reported for the identity.
THEOREM DirectoryStaysConsistent == Spec => []DirectoryConsistent
<1>1. SafeInv => DirectoryConsistent
  BY DEF SafeInv
<1> QED BY <1>1, SafeInvInit, SafeInvStep, PTL DEF Spec

\* The row and the link an open transaction has written stay right until it
\* commits.
THEOREM TransactionsStayConsistent == Spec => []TxConsistent
<1>1. SafeInv => TxConsistent
  BY DEF SafeInv
<1> QED BY <1>1, SafeInvInit, SafeInvStep, PTL DEF Spec

-----------------------------------------------------------------------------
(* Tokens and reachability, when providers report stable e-mails.          *)

\* A transaction that linked nothing is about the identity's owner.
LEMMA UnlinkedIsOwner ==
  ASSUME Directory!StableEmails, SafeInv, NEW h \in Handlers,
         pc[h] = "commit", ~linked[h]
  PROVE  /\ row[h] \in users
         /\ [ident |-> req[h].cred, user |-> row[h].id] \in identities
<1>1. /\ req[h].cred \in Identities
      /\ row[h].email \in EmailsOf[req[h].cred]
      /\ row[h] \in users \/ \A u \in users : u.email # row[h].email
      /\ OwnerOf(req[h].cred) # {}
  BY RequestFacts
     DEF SafeInv, TypeInv, ControlOK, SocialPCs, TxConsistent, RowsCurrent,
         LinksCurrent, InTx
<1>2. PICK x \in identities : x.ident = req[h].cred
  BY <1>1 DEF OwnerOf
<1>3. PICK u \in users : u.id = x.user /\ u.email \in EmailsOf[req[h].cred]
  BY <1>2 DEF SafeInv, DirectoryConsistent
<1>4. u.email = row[h].email
  BY <1>1, <1>3 DEF Directory!StableEmails
<1>5. u = row[h]
  BY <1>1, <1>3, <1>4 DEF SafeInv, DirectoryConsistent
<1>6. x = [ident |-> req[h].cred, user |-> row[h].id]
  BY <1>2, <1>3, <1>5
     DEF SafeInv, TypeInv, TypeOK, Directory!IdentityRows
<1> QED BY <1>2, <1>3, <1>5, <1>6

\* What a step must respect: links stay, a new user can be entered, and an
\* answer that changes is not a token for somebody else's identity.
NewUsersReachable ==
  \A u \in users' \ users : \/ u.hash # Null
                            \/ \E x \in identities' : x.user = u.id

GoodAnswer(h) ==
  \/ answer'[h] = answer[h] /\ req'[h] = req[h]
  \/ answer'[h].status # "token"
  \/ req'[h].kind # "social"
  \/ [ident |-> req'[h].cred, user |-> answer'[h].sub] \in identities'

GoodStep ==
  /\ identities \subseteq identities'
  /\ NewUsersReachable
  /\ \A h \in Handlers : GoodAnswer(h)

LEMMA GoodStepSuffices ==
  ASSUME TokenMatchesIdentity, NoUnreachableUser, GoodStep
  PROVE  TokenMatchesIdentity' /\ NoUnreachableUser'
<1>1. TokenMatchesIdentity'
  BY DEF TokenMatchesIdentity, GoodStep, GoodAnswer
<1>2. NoUnreachableUser'
  BY DEF NoUnreachableUser, GoodStep, NewUsersReachable
<1> QED BY <1>1, <1>2

\* A refusal, or an answer to a request with a password, is never at fault.
LEMMA OtherAnswers ==
  ASSUME TypeInv, NEW h \in Handlers, NEW a \in Directory!Answers, Answer(h, a),
         \/ a.status # "token"
         \/ req[h].kind # "social"
         \/ [ident |-> req[h].cred, user |-> a.sub] \in identities'
  PROVE  \A g \in Handlers : GoodAnswer(g)
BY AnswerStep DEF GoodAnswer

LEMMA NoToken ==
  /\ Directory!Conflict.status # "token"
  /\ Directory!Unauthorized.status # "token"
  /\ Directory!Failed.status # "token"
  /\ Directory!NoAnswer.status # "token"
  /\ \A id : Directory!Created(id).status # "token"
  /\ \A id : Directory!Token(id).sub = id
BY DEF Directory!Conflict, Directory!Unauthorized, Directory!Failed,
       Directory!NoAnswer, Directory!Created, Directory!Token

\* A user inserted by a registration has a password.
LEMMA InsertReachable ==
  ASSUME TypeInv, NEW h \in Handlers, pc[h] = "insert",
         NEW id \in UserIds, users' = users \cup {NewUser(h, id)}
  PROVE  NewUsersReachable
<1>1. NewUser(h, id).hash \in Passwords
  BY DEF NewUser, TypeInv, ControlOK
<1>2. NewUser(h, id).hash # Null
  BY <1>1, ParametersAssumption
<1> QED BY <1>2 DEF NewUsersReachable

\* A user committed by a social login has the identity it logs in with, and
\* that identity is this user's.
LEMMA PublishGood ==
  ASSUME Directory!StableEmails, SafeInv, NEW h \in Handlers,
         pc[h] = "commit", Publish(h)
  PROVE  /\ identities \subseteq identities'
         /\ NewUsersReachable
         /\ [ident |-> req[h].cred, user |-> row[h].id] \in identities'
<1> DEFINE link == [ident |-> req[h].cred, user |-> row[h].id]
<1>1. CASE linked[h]
  <2>1. users' = users \cup {row[h]} /\ identities' = identities \cup {link}
    BY <1>1 DEF Publish
  <2>2. link.user = row[h].id
    OBVIOUS
  <2> HIDE DEF link
  <2>3. NewUsersReachable
    BY <2>1, <2>2 DEF NewUsersReachable
  <2> QED BY <2>1, <2>3 DEF link
<1>2. CASE ~linked[h]
  BY <1>2, UnlinkedIsOwner DEF Publish, NewUsersReachable
<1> QED BY <1>1, <1>2

LEMMA ServeGood ==
  ASSUME Directory!StableEmails, SafeInv, NEW h \in Handlers, Serve(h)
  PROVE  GoodStep
<1> USE DEF SafeInv
<1>1. CASE HashPassword(h)
  BY <1>1, AnswerFacts, OtherAnswers, NoToken
     DEF HashPassword, txVars, GoodStep, GoodAnswer, NewUsersReachable
<1>2. CASE InsertUser(h)
  <2>1. PICK a \in Directory!Answers : Answer(h, a) /\ a.status # "token"
    BY <1>2, AnswerFacts, NoToken DEF InsertUser
  <2>2. NewUsersReachable
    BY <1>2, InsertReachable DEF InsertUser, NewUsersReachable
  <2> QED BY <1>2, <2>1, <2>2, OtherAnswers DEF InsertUser, txVars, GoodStep
<1>3. CASE Login(h)
  <2>1. PICK a \in Directory!Answers : Answer(h, a)
    BY <1>3, AnswerFacts
       DEF Login, WithEmail, TypeInv, TypeOK, Directory!UserRows
  <2>2. req[h].kind # "social"
    BY <1>3, RequestFacts DEF Login, TypeInv, ControlOK
  <2> QED BY <1>3, <2>1, <2>2, OtherAnswers
          DEF Login, txVars, GoodStep, NewUsersReachable
<1>4. CASE Lookup(h)
  <2>1. CASE \E x \in OwnerOf(req[h].cred) : Answer(h, Directory!Token(x.user))
    <3>1. PICK x \in OwnerOf(req[h].cred) : Answer(h, Directory!Token(x.user))
      BY <2>1
    <3>2. /\ x \in identities
          /\ x = [ident |-> req[h].cred, user |-> x.user]
          /\ Directory!Token(x.user) \in Directory!Answers
      BY AnswerFacts DEF OwnerOf, TypeInv, TypeOK, Directory!IdentityRows
    <3>3. \A g \in Handlers : GoodAnswer(g)
      BY <1>4, <3>1, <3>2, OtherAnswers, NoToken DEF Lookup
    <3> QED BY <1>4, <3>3 DEF Lookup, GoodStep, NewUsersReachable
  <2>2. CASE UNCHANGED <<req, answer>>
    BY <1>4, <2>2 DEF Lookup, GoodStep, GoodAnswer, NewUsersReachable
  <2> QED BY <1>4, <2>1, <2>2 DEF Lookup
<1>5. CASE Begin(h) \/ UpsertUser(h) \/ LinkIdentity(h)
  BY <1>5 DEF Begin, UpsertUser, LinkIdentity, GoodStep, GoodAnswer,
              NewUsersReachable
<1>6. CASE Commit(h)
  <2>1. Directory!Token(row[h].id) \in Directory!Answers
    BY <1>6, AnswerFacts
       DEF Commit, TypeInv, ControlOK, InTx, Directory!UserRows
  <2>2. \A g \in Handlers : GoodAnswer(g)
    BY <1>6, <2>1, PublishGood, OtherAnswers, NoToken DEF Commit
  <2> QED BY <1>6, <2>2, PublishGood DEF Commit, GoodStep
<1> QED BY <1>1, <1>2, <1>3, <1>4, <1>5, <1>6 DEF Serve

LEMMA FailGood ==
  ASSUME Directory!StableEmails, SafeInv, NEW h \in Handlers, Fail(h)
  PROVE  GoodStep
<1> USE DEF SafeInv
<1>1. CASE InsertFails(h) \/ LoginFails(h) \/ TxFails(h)
  <2>1. PICK a \in Directory!Answers : Answer(h, a) /\ a.status # "token"
    BY <1>1, AnswerFacts, NoToken DEF InsertFails, LoginFails, TxFails
  <2> QED BY <1>1, <2>1, OtherAnswers
          DEF InsertFails, LoginFails, TxFails, GoodStep, NewUsersReachable
<1>2. CASE InsertUnacknowledged(h)
  BY <1>2, AnswerFacts, NoToken, OtherAnswers, InsertReachable
     DEF InsertUnacknowledged, GoodStep
<1>3. CASE LookupFails(h)
  BY <1>3 DEF LookupFails, GoodStep, GoodAnswer, NewUsersReachable
<1>4. CASE CommitUnacknowledged(h)
  BY <1>4, AnswerFacts, NoToken, OtherAnswers, PublishGood
     DEF CommitUnacknowledged, GoodStep
<1> QED BY <1>1, <1>2, <1>3, <1>4 DEF Fail

LEMMA NextGood ==
  ASSUME Directory!StableEmails, SafeInv, [Next]_vars
  PROVE  GoodStep
<1>1. CASE UNCHANGED vars \/ Restart
  BY <1>1 DEF vars, Restart, GoodStep, GoodAnswer, NewUsersReachable
<1>2. CASE \E h \in Handlers : \E r \in Directory!Requests : Receive(h, r)
  BY <1>2, NoToken DEF Receive, SafeInv, TypeInv, TypeOK, GoodStep, GoodAnswer,
                       NewUsersReachable
<1> QED BY <1>1, <1>2, ServeGood, FailGood DEF Next

TokenInv == SafeInv /\ TokenMatchesIdentity /\ NoUnreachableUser

LEMMA TokenInvInit == Init => TokenInv
BY SafeInvInit, NoToken
   DEF Init, TokenInv, TokenMatchesIdentity, NoUnreachableUser

LEMMA TokenInvStep ==
  Directory!StableEmails => (TokenInv /\ [Next]_vars => TokenInv')
BY SafeInvStep, NextGood, GoodStepSuffices DEF TokenInv

\* With providers that never change an identity's e-mail, a token issued to an
\* OAuth callback is the identity owner's, for any number of racing callbacks,
\* registrations, faults and restarts.
THEOREM TokensMatch ==
  Directory!StableEmails => (Spec => []TokenMatchesIdentity)
<1>1. TokenInv => TokenMatchesIdentity
  BY DEF TokenInv
<1>2. SUFFICES ASSUME Directory!StableEmails PROVE Spec => []TokenMatchesIdentity
  OBVIOUS
<1>3. TokenInv /\ [Next]_vars => TokenInv'
  BY <1>2, TokenInvStep
<1> QED BY <1>1, <1>3, TokenInvInit, PTL DEF Spec

\* And no account is ever committed that neither a password nor an identity
\* leads to.
THEOREM UsersReachable ==
  Directory!StableEmails => (Spec => []NoUnreachableUser)
<1>1. TokenInv => NoUnreachableUser
  BY DEF TokenInv
<1>2. SUFFICES ASSUME Directory!StableEmails PROVE Spec => []NoUnreachableUser
  OBVIOUS
<1>3. TokenInv /\ [Next]_vars => TokenInv'
  BY <1>2, TokenInvStep
<1> QED BY <1>1, <1>3, TokenInvInit, PTL DEF Spec

-----------------------------------------------------------------------------
(* What 409 says.  Users are never deleted, so an e-mail that was taken    *)
(* when the INSERT found it is taken as long as the answer stands.         *)

ConflictExplained ==
  \A h \in Handlers :
    answer[h] = Directory!Conflict =>
      WithEmail(req[h].email) # {} \/ req[h].cred \in LongPasswords

ConflictInv == TypeInv /\ ConflictExplained

\* A handler's answer and request as they were, or another answer, or an
\* explained 409.
ExplainedStep ==
  /\ users \subseteq users'
  /\ \A g \in Handlers :
       \/ answer'[g] = answer[g] /\ req'[g] = req[g]
       \/ answer'[g] # Directory!Conflict
       \/ WithEmail(req[g].email)' # {} \/ req'[g].cred \in LongPasswords

LEMMA ExplainedStepSuffices ==
  ASSUME ConflictExplained, ExplainedStep
  PROVE  ConflictExplained'
<1>1. \A e : WithEmail(e) \subseteq WithEmail(e)'
  BY DEF WithEmail, ExplainedStep
<1> SUFFICES ASSUME NEW h \in Handlers, answer'[h] = Directory!Conflict
             PROVE  WithEmail(req[h].email)' # {} \/ req'[h].cred \in LongPasswords
  BY DEF ConflictExplained
<1>2. CASE answer'[h] = answer[h] /\ req'[h] = req[h]
  BY <1>1, <1>2 DEF ConflictExplained, WithEmail
<1>3. CASE ~ (answer'[h] = answer[h] /\ req'[h] = req[h])
  BY <1>3 DEF ExplainedStep
<1> QED BY <1>2, <1>3

\* An answer other than 409, or a 409 that is explained.
LEMMA ExplainedAnswer ==
  ASSUME TypeInv, NEW h \in Handlers, NEW a \in Directory!Answers, Answer(h, a),
         users \subseteq users',
         \/ a # Directory!Conflict
         \/ WithEmail(req[h].email) # {}
         \/ req[h].cred \in LongPasswords
  PROVE  ExplainedStep
<1>1. /\ req' = req /\ answer'[h] = a
      /\ \A g \in Handlers \ {h} : answer'[g] = answer[g]
  BY AnswerStep
<1>2. WithEmail(req[h].email) \subseteq WithEmail(req[h].email)'
  BY <1>1 DEF WithEmail
<1> QED BY <1>1, <1>2 DEF ExplainedStep

LEMMA OtherThanConflict ==
  /\ Directory!Unauthorized # Directory!Conflict
  /\ Directory!NoAnswer # Directory!Conflict
  /\ \A id : /\ Directory!Created(id) # Directory!Conflict
             /\ Directory!Token(id) # Directory!Conflict
<1>1. /\ Directory!Conflict.status = "conflict"
      /\ Directory!Unauthorized.status = "unauthorized"
      /\ Directory!NoAnswer.status = "none"
      /\ \A id : /\ Directory!Created(id).status = "created"
                 /\ Directory!Token(id).status = "token"
  BY DEF Directory!Conflict, Directory!Unauthorized, Directory!NoAnswer,
         Directory!Created, Directory!Token
<1> QED BY <1>1

LEMMA ServeExplained ==
  ASSUME TypeInv, NEW h \in Handlers, Serve(h)
  PROVE  ExplainedStep
<1>1. CASE HashPassword(h)
  <2>1. users' = users
    BY <1>1 DEF HashPassword
  <2>2. CASE req[h].cred \in LongPasswords /\ Answer(h, Directory!Conflict)
    BY <2>1, <2>2, AnswerFacts, ExplainedAnswer
  <2>3. CASE UNCHANGED <<req, answer>>
    BY <2>1, <2>3 DEF ExplainedStep
  <2> QED BY <1>1, <2>2, <2>3 DEF HashPassword
<1>2. CASE InsertUser(h)
  <2>1. CASE WithEmail(req[h].email) # {}
    BY <1>2, <2>1, AnswerFacts, ExplainedAnswer DEF InsertUser
  <2>2. CASE WithEmail(req[h].email) = {}
    <3>1. PICK id \in UserIds : users' = users \cup {NewUser(h, id)}
                                /\ Answer(h, Directory!Created(id))
      BY <1>2, <2>2 DEF InsertUser
    <3> QED BY <3>1, AnswerFacts, OtherThanConflict, ExplainedAnswer
  <2> QED BY <2>1, <2>2
<1>3. CASE Login(h)
  <2>1. PICK a \in Directory!Answers : Answer(h, a) /\ a # Directory!Conflict
    BY <1>3, AnswerFacts, OtherThanConflict
       DEF Login, WithEmail, TypeInv, TypeOK, Directory!UserRows
  <2> QED BY <1>3, <2>1, ExplainedAnswer DEF Login
<1>4. CASE Lookup(h)
  <2>1. CASE \E x \in OwnerOf(req[h].cred) : Answer(h, Directory!Token(x.user))
    <3>1. PICK a \in Directory!Answers : Answer(h, a) /\ a # Directory!Conflict
      BY <2>1, AnswerFacts, OtherThanConflict
         DEF OwnerOf, TypeInv, TypeOK, Directory!IdentityRows
    <3> QED BY <1>4, <3>1, ExplainedAnswer DEF Lookup
  <2>2. CASE UNCHANGED <<req, answer>>
    BY <1>4, <2>2 DEF Lookup, ExplainedStep
  <2> QED BY <1>4, <2>1, <2>2 DEF Lookup
<1>5. CASE Begin(h) \/ UpsertUser(h) \/ LinkIdentity(h)
  BY <1>5 DEF Begin, UpsertUser, LinkIdentity, ExplainedStep
<1>6. CASE Commit(h)
  <2>1. Directory!Token(row[h].id) \in Directory!Answers
    BY <1>6, AnswerFacts
       DEF Commit, TypeInv, ControlOK, InTx, Directory!UserRows
  <2>2. users \subseteq users'
    BY <1>6 DEF Commit, Publish
  <2> QED BY <1>6, <2>1, <2>2, OtherThanConflict, ExplainedAnswer DEF Commit
<1> QED BY <1>1, <1>2, <1>3, <1>4, <1>5, <1>6 DEF Serve

LEMMA ConflictInvStep ==
  ~Faults => (ConflictInv /\ [Next]_vars => ConflictInv')
<1> SUFFICES ASSUME ~Faults, ConflictInv, [Next]_vars PROVE ConflictInv'
  OBVIOUS
<1>1. TypeInv /\ ConflictExplained /\ TypeInv'
  BY TypeInvStep DEF ConflictInv
<1>2. ExplainedStep
  <2>1. CASE UNCHANGED vars
    BY <2>1 DEF vars, ExplainedStep
  <2>2. ASSUME NEW h \in Handlers, NEW r \in Directory!Requests, Receive(h, r)
        PROVE  ExplainedStep
    BY <1>1, <2>2, OtherThanConflict DEF Receive, TypeInv, TypeOK, ExplainedStep
  <2>3. ASSUME NEW h \in Handlers PROVE ~Fail(h)
    BY DEF Fail, InsertFails, InsertUnacknowledged, LoginFails, LookupFails,
           TxFails, CommitUnacknowledged
  <2>4. ~Restart
    BY DEF Restart
  <2> QED BY <1>1, <2>1, <2>2, <2>3, <2>4, ServeExplained DEF Next
<1> QED BY <1>1, <1>2, ExplainedStepSuffices DEF ConflictInv

\* As long as no call fails, 409 "email already registered" is said of an
\* e-mail that is registered, however many registrations and social logins
\* race for it, but for the passwords that bcrypt refuses.
THEOREM ConflictsExplained == ~Faults => (Spec => []ConflictExplained)
<1>1. SUFFICES ASSUME ~Faults PROVE Spec => []ConflictExplained
  OBVIOUS
<1>2. Init => ConflictInv
  BY TypeInvInit, OtherThanConflict DEF Init, ConflictInv, ConflictExplained
<1>3. ConflictInv /\ [Next]_vars => ConflictInv'
  BY <1>1, ConflictInvStep
<1>4. ConflictInv => ConflictExplained
  BY DEF ConflictInv
<1> QED BY <1>2, <1>3, <1>4, PTL DEF Spec

\* Where no password is beyond bcrypt's limit, 409 is said of taken e-mails only.
THEOREM ConflictsTaken ==
  ~Faults /\ LongPasswords = {} => (Spec => []ConflictMeansTaken)
<1>1. SUFFICES ASSUME ~Faults, LongPasswords = {} PROVE Spec => []ConflictMeansTaken
  OBVIOUS
<1>2. ConflictExplained => ConflictMeansTaken
  BY <1>1 DEF ConflictExplained, ConflictMeansTaken
<1>3. Spec => []ConflictExplained
  BY <1>1, ConflictsExplained
<1> QED BY <1>2, <1>3, PTL

-----------------------------------------------------------------------------
(* The handlers implement the directory.  A request takes effect in the    *)
(* step that answers it: the commit, the INSERT or the SELECT; every other *)
(* step of a handler stutters.                                             *)

\* An answer is an answer of the directory.
LEMMA AnswerMaps ==
  ASSUME TypeInv, NEW h \in Handlers, NEW a \in Directory!Answers, Answer(h, a),
         pc[h] # "idle"
  PROVE  Directory!Answer(h, a)
BY AnswerStep DEF Directory!Answer

\* A handler that goes on without answering is invisible.
LEMMA GotoStutters ==
  ASSUME TypeInv, NEW h \in Handlers, NEW l \in PCs \ {"idle"}, Goto(h, l),
         pc[h] # "idle", UNCHANGED <<users, identities, req, answer>>
  PROVE  UNCHANGED Directory!vars
BY GotoStep DEF Directory!vars

\* A commit links a new identity, or answers for a known one.
LEMMA CommitMaps ==
  ASSUME Directory!StableEmails, SafeInv, NEW h \in Handlers,
         pc[h] = "commit", Publish(h), NEW a \in Directory!Answers, Answer(h, a),
         \/ a = Directory!Token(row[h].id)
         \/ Faults /\ a = Directory!Failed
  PROVE  Directory!Next
<1>1. /\ req[h].kind = "social"
      /\ row[h] \in Directory!UserRows
      /\ row[h].email = req[h].email
      /\ linked[h] <=> OwnerOf(req[h].cred) = {}
      /\ Directory!OwnerOf(req[h].cred) = OwnerOf(req[h].cred)
  BY RequestFacts
     DEF SafeInv, TypeInv, ControlOK, SocialPCs, TxConsistent, RowsCurrent,
         LinksCurrent, InTx, OwnerOf, Directory!OwnerOf
<1>2. Directory!Answer(h, a)
  BY AnswerMaps DEF SafeInv
<1>3. CASE linked[h]
  <2>1. \/ row[h] \in users
        \/ /\ Directory!WithEmail(users, row[h].email) = {}
           /\ Directory!Fresh(row[h].id)
           /\ row[h].hash = Null
    BY DEF SafeInv, TxConsistent, RowsCurrent, InTx, Directory!WithEmail,
           Directory!Fresh
  <2>2. /\ users' = users \cup {row[h]}
        /\ identities' = identities \cup
             {[ident |-> req[h].cred, user |-> row[h].id]}
    BY <1>3 DEF Publish
  <2>3. a \in {Directory!Token(row[h].id)} \cup
              (IF Faults THEN {Directory!Failed} ELSE {})
    OBVIOUS
  <2>4. Directory!SocialNew(h)
    BY <1>1, <1>2, <1>3, <2>1, <2>2, <2>3 DEF Directory!SocialNew
  <2> QED BY <2>4 DEF Directory!Next
<1>4. CASE ~linked[h]
  <2> DEFINE link == [ident |-> req[h].cred, user |-> row[h].id]
  <2>1. row[h] \in users /\ link \in identities
    BY <1>4, UnlinkedIsOwner
  <2>2. UNCHANGED <<users, identities>>
    BY <1>4, <2>1 DEF Publish
  <2>3. link \in Directory!OwnerOf(req[h].cred) /\ link.user = row[h].id
    BY <2>1 DEF Directory!OwnerOf
  <2> HIDE DEF link
  <2>4. CASE a = Directory!Token(row[h].id)
    <3>1. Directory!SocialKnown(h)
      BY <1>1, <1>2, <2>2, <2>3, <2>4 DEF Directory!SocialKnown
    <3> QED BY <3>1 DEF Directory!Next
  <2>5. CASE Faults /\ a = Directory!Failed
    <3>1. Directory!Refused(h)
      BY <1>2, <2>2, <2>5 DEF Directory!Refused, Directory!Refusals
    <3> QED BY <3>1 DEF Directory!Next
  <2> QED BY <2>4, <2>5
<1> QED BY <1>3, <1>4

\* An INSERT that goes through registers a new user.
LEMMA InsertMaps ==
  ASSUME TypeInv, NEW h \in Handlers, pc[h] = "insert",
         WithEmail(req[h].email) = {}, UNCHANGED identities,
         NEW id \in UserIds, Fresh(id), users' = users \cup {NewUser(h, id)},
         NEW a \in Directory!Answers, Answer(h, a),
         \/ a = Directory!Created(id)
         \/ Faults /\ a = Directory!Conflict
  PROVE  Directory!Next
<1>1. req[h].kind = "register"
  BY RequestFacts DEF TypeInv, ControlOK
<1>2. Directory!WithEmail(users, req[h].email) = {} /\ Directory!Fresh(id)
  BY DEF WithEmail, Fresh, Directory!WithEmail, Directory!Fresh
<1>3. Directory!Answer(h, a)
  BY AnswerMaps
<1>4. a \in {Directory!Created(id)} \cup
            (IF Faults THEN {Directory!Conflict} ELSE {})
  OBVIOUS
<1>5. Directory!RegisterNew(h)
  BY <1>1, <1>2, <1>3, <1>4 DEF NewUser, Directory!RegisterNew
<1> QED BY <1>5 DEF Directory!Next

LEMMA ServeMaps ==
  ASSUME Directory!StableEmails, SafeInv, NEW h \in Handlers, Serve(h)
  PROVE  Directory!Next \/ UNCHANGED Directory!vars
<1> USE DEF SafeInv
<1>1. CASE HashPassword(h)
  <2>1. CASE /\ req[h].cred \in LongPasswords
             /\ Answer(h, Directory!Conflict)
    <3>1. Directory!Answer(h, Directory!Conflict)
      BY <1>1, <2>1, AnswerMaps, AnswerFacts DEF HashPassword
    <3>2. Directory!RegisterRefused(h)
      BY <1>1, <2>1, <3>1, RequestFacts
         DEF HashPassword, TypeInv, ControlOK, Directory!RegisterRefused
    <3> QED BY <3>2 DEF Directory!Next
  <2>2. CASE Goto(h, "insert") /\ UNCHANGED <<req, answer>>
    BY <1>1, <2>2, GotoStutters DEF HashPassword, PCs
  <2> QED BY <1>1, <2>1, <2>2 DEF HashPassword
<1>2. CASE InsertUser(h)
  <2>1. CASE /\ WithEmail(req[h].email) # {}
             /\ Answer(h, Directory!Conflict)
             /\ UNCHANGED users
    <3>1. Directory!Answer(h, Directory!Conflict)
      BY <1>2, <2>1, AnswerMaps, AnswerFacts DEF InsertUser
    <3>2. Directory!RegisterRefused(h)
      BY <1>2, <2>1, <3>1, RequestFacts
         DEF InsertUser, TypeInv, ControlOK, WithEmail, Directory!WithEmail,
             Directory!RegisterRefused
    <3> QED BY <3>2 DEF Directory!Next
  <2>2. CASE /\ WithEmail(req[h].email) = {}
             /\ \E id \in UserIds :
                  /\ Fresh(id)
                  /\ users' = users \cup {NewUser(h, id)}
                  /\ Answer(h, Directory!Created(id))
    BY <1>2, <2>2, InsertMaps, AnswerFacts DEF InsertUser
  <2> QED BY <1>2, <2>1, <2>2 DEF InsertUser
<1>3. CASE Login(h)
  <2> DEFINE matching == {u \in Directory!WithEmail(users, req[h].email) :
                            u.hash = req[h].cred}
  <2>1. req[h].kind = "login"
    BY <1>3, RequestFacts DEF Login, TypeInv, ControlOK
  <2>2. CASE /\ \A u \in WithEmail(req[h].email) : u.hash # req[h].cred
             /\ Answer(h, Directory!Unauthorized)
    <3>1. matching = {}
      BY <2>2 DEF WithEmail, Directory!WithEmail
    <3>2. Directory!Answer(h, Directory!Unauthorized)
      BY <1>3, <2>2, AnswerMaps, AnswerFacts DEF Login
    <3>3. Directory!LoginAnswered(h)
      BY <1>3, <2>1, <3>1, <3>2 DEF Login, Directory!LoginAnswered
    <3> QED BY <3>3 DEF Directory!Next
  <2>3. CASE \E u \in WithEmail(req[h].email) :
               u.hash = req[h].cred /\ Answer(h, Directory!Token(u.id))
    <3>1. PICK u \in users : /\ u.email = req[h].email
                             /\ u.hash = req[h].cred
                             /\ Answer(h, Directory!Token(u.id))
      BY <2>3 DEF WithEmail
    <3>2. u \in matching
      BY <3>1 DEF Directory!WithEmail
    <3>3. Directory!Answer(h, Directory!Token(u.id))
      BY <1>3, <3>1, AnswerMaps, AnswerFacts
         DEF Login, TypeInv, TypeOK, Directory!UserRows
    <3>4. Directory!LoginAnswered(h)
      BY <1>3, <2>1, <3>2, <3>3 DEF Login, Directory!LoginAnswered
    <3> QED BY <3>4 DEF Directory!Next
  <2> QED BY <1>3, <2>2, <2>3 DEF Login
<1>4. CASE Lookup(h)
  <2>1. CASE \E x \in OwnerOf(req[h].cred) : Answer(h, Directory!Token(x.user))
    <3>1. PICK x \in OwnerOf(req[h].cred) : Answer(h, Directory!Token(x.user))
      BY <2>1
    <3>2. Directory!Answer(h, Directory!Token(x.user))
      BY <1>4, <3>1, AnswerMaps, AnswerFacts
         DEF Lookup, OwnerOf, TypeInv, TypeOK, Directory!IdentityRows
    <3>3. Directory!SocialKnown(h)
      BY <1>4, <3>1, <3>2, RequestFacts
         DEF Lookup, TypeInv, ControlOK, SocialPCs, OwnerOf, Directory!OwnerOf,
             Directory!SocialKnown
    <3> QED BY <3>3 DEF Directory!Next
  <2>2. CASE Goto(h, "begin") /\ UNCHANGED <<req, answer>>
    BY <1>4, <2>2, GotoStutters DEF Lookup, PCs
  <2> QED BY <1>4, <2>1, <2>2 DEF Lookup
<1>5. CASE Begin(h) \/ UpsertUser(h) \/ LinkIdentity(h)
  BY <1>5, GotoStutters DEF Begin, UpsertUser, LinkIdentity, PCs
<1>6. CASE Commit(h)
  <2>1. Directory!Token(row[h].id) \in Directory!Answers
    BY <1>6, AnswerFacts
       DEF Commit, TypeInv, ControlOK, InTx, Directory!UserRows
  <2> QED BY <1>6, <2>1, CommitMaps DEF Commit
<1> QED BY <1>1, <1>2, <1>3, <1>4, <1>5, <1>6 DEF Serve

LEMMA FailMaps ==
  ASSUME Directory!StableEmails, SafeInv, NEW h \in Handlers, Fail(h)
  PROVE  Directory!Next \/ UNCHANGED Directory!vars
<1> USE DEF SafeInv
<1>1. CASE InsertFails(h) \/ LoginFails(h) \/ TxFails(h)
  <2>1. PICK a \in Directory!Refusals : Answer(h, a)
    BY <1>1 DEF InsertFails, LoginFails, TxFails, Directory!Refusals
  <2>2. Directory!Answer(h, a)
    BY <1>1, <2>1, AnswerMaps
       DEF InsertFails, LoginFails, TxFails, Directory!Answers
  <2>3. Directory!Refused(h)
    BY <1>1, <2>2 DEF InsertFails, LoginFails, TxFails, Directory!Refused
  <2> QED BY <2>3 DEF Directory!Next
<1>2. CASE InsertUnacknowledged(h)
  BY <1>2, InsertMaps, AnswerFacts DEF InsertUnacknowledged
<1>3. CASE LookupFails(h)
  BY <1>3, GotoStutters DEF LookupFails, PCs
<1>4. CASE CommitUnacknowledged(h)
  BY <1>4, CommitMaps, AnswerFacts DEF CommitUnacknowledged
<1> QED BY <1>1, <1>2, <1>3, <1>4 DEF Fail

LEMMA NextMaps ==
  ASSUME Directory!StableEmails, SafeInv, [Next]_vars
  PROVE  [Directory!Next]_(Directory!vars)
<1>1. CASE UNCHANGED vars
  BY <1>1 DEF vars, Directory!vars
<1>2. CASE \E h \in Handlers : \E r \in Directory!Requests : Receive(h, r)
  <2>1. PICK h \in Handlers, r \in Directory!Requests : Receive(h, r)
    BY <1>2
  <2>2. /\ FirstCall(r) \in PCs \ {"idle"}
        /\ Goto(h, FirstCall(r))
    BY <2>1 DEF FirstCall, PCs, Receive
  <2>3. /\ pc'[h] # "idle"
        /\ \A g \in Handlers \ {h} : pc'[g] = pc[g]
    BY <2>2, GotoStep DEF SafeInv
  <2>4. Directory!Request(h, r)
    BY <2>1, <2>3 DEF Receive, Directory!Request
  <2> QED BY <2>4 DEF Directory!Next
<1>3. CASE Restart
  <2>1. Directory!Restart
    BY <1>3 DEF Restart, Directory!Restart
  <2> QED BY <2>1 DEF Directory!Next
<1> QED BY <1>1, <1>2, <1>3, ServeMaps, FailMaps DEF Next

\* The concurrent handlers implement the directory in which every request
\* takes effect in one step, whatever the number of handlers and connections.
THEOREM AccountsImplementDirectory ==
  Directory!StableEmails => (Spec => DirectorySpec)
<1>1. Init => Directory!Init
  BY DEF Init, Directory!Init
<1>2. SUFFICES ASSUME Directory!StableEmails PROVE Spec => DirectorySpec
  OBVIOUS
<1>3. SafeInv /\ [Next]_vars => [Directory!Next]_(Directory!vars)
  BY <1>2, NextMaps
<1> QED BY <1>1, <1>3, SafeInvInit, SafeInvStep, PTL
        DEF Spec, Directory!Spec, DirectorySpec

=============================================================================
