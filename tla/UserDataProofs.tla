--------------------------- MODULE UserDataProofs ---------------------------
(***************************************************************************)
(* What module UserData keeps true for any number of handlers, accounts,   *)
(* tokens and rows.                                                        *)
(***************************************************************************)
EXTENDS UserData, TLAPS

\* No identifier is given twice: every row has one that was drawn, and a list
\* that is deleted had one.
IdsDrawn ==
  /\ \A r \in users \cup lists : r.id \in used
  /\ \A u, v \in users : u.id = v.id => u = v
  /\ \A id \in Ids : deletions[id] > 0 => id \in used

IInv == TypeOK /\ IdsDrawn /\ RowsConsistent /\ AnswersAreOwn /\ DeletedForGood

-----------------------------------------------------------------------------
(* What the operations do, by the type invariant alone.                    *)

LEMMA AnswerFacts ==
  ASSUME TypeOK, NEW h \in Handlers, NEW a, Answer(h, a), NEW g \in Handlers
  PROVE  /\ pc'[g] = IF g = h THEN "idle" ELSE pc[g]
         /\ answer'[g] = IF g = h THEN a ELSE answer[g]
         /\ g # h \/ a.rows # {} => req'[g] = req[g]
         /\ tokens' = tokens
BY DEF TypeOK, Answer

\* A request that is being served has a token.
LEMMA Asked ==
  ASSUME TypeOK, NEW h \in Handlers, pc[h] = "statement"
  PROVE  req[h] \in Requests /\ req[h].token \in Tokens /\ UserId(h) \in Ids
<1>1. req[h] \in Requests
  BY DEF TypeOK
<1>2. \A r \in Requests : r.token \in Tokens
  BY DEF Requests, Ask
<1> QED BY <1>1, <1>2 DEF UserId, Tokens

\* The type of what an answer changes.
LEMMA AnswerType ==
  ASSUME TypeOK, NEW h \in Handlers, NEW a \in [status : Statuses, rows : SUBSET Rows],
         Answer(h, a)
  PROVE  /\ tokens' \subseteq Tokens
         /\ pc' \in [Handlers -> {"idle", "statement"}]
         /\ req' \in [Handlers -> Requests \cup {Null}]
         /\ answer' \in [Handlers -> [status : Statuses, rows : SUBSET Rows]]
         /\ \A g \in Handlers :
              pc'[g] = "statement" => req'[g] \in Requests /\ answer'[g].status = "none"
BY DEF TypeOK, Answer

-----------------------------------------------------------------------------
(* What a handler does with its statement: it answers with rows of its     *)
(* user, and changes nothing, or one table for its user.                   *)

Own(h, a) == \A r \in a.rows : UserId(h) = IF req[h].op = "me" THEN r.id ELSE r.user

Same == UNCHANGED <<tables, deletions>>
InsertsKey(h) == \E k \in KeyRows : InsertKey(h, k)
InsertsList(h) == \E w \in ListRows : InsertList(h, w)
Updates(h) == req[h].symbols \in Contents /\ \E w \in lists : UpdateRow(h, w)
Deletes(h) ==
  /\ DeleteRows(h)
  /\ \/ UNCHANGED deletions
     \/ OwnList(h) # {} /\ req[h].list \in Ids /\ Confirm(req[h].list)

Effect(h) == Same \/ InsertsKey(h) \/ InsertsList(h) \/ Updates(h) \/ Deletes(h)

Handled(h) ==
  /\ pc[h] = "statement"
  /\ Effect(h)
  /\ \E a \in [status : Statuses, rows : SUBSET Rows] : Answer(h, a) /\ Own(h, a)

LEMMA NoRows ==
  ASSUME NEW h \in Handlers, NEW st \in Statuses
  PROVE  Reply(st, {}) \in [status : Statuses, rows : SUBSET Rows] /\ Own(h, Reply(st, {}))
BY DEF Reply, Own

LEMMA OwnRows ==
  ASSUME NEW h \in Handlers, NEW rows \in SUBSET Rows,
         \A r \in rows : UserId(h) = IF req[h].op = "me" THEN r.id ELSE r.user
  PROVE  /\ Reply("ok", rows) \in [status : Statuses, rows : SUBSET Rows]
         /\ Own(h, Reply("ok", rows))
BY DEF Reply, Own, Statuses

LEMMA RequestFields ==
  ASSUME NEW r \in Requests
  PROVE  /\ r.op = "update_list" => r.symbols \in Contents
         /\ r.op \in {"update_list", "delete_list"} => r.list \in Ids
BY DEF Requests, Ask

LEMMA HandleEffects ==
  ASSUME TypeOK, NEW h \in Handlers, Handle(h)
  PROVE  Handled(h)
<1>0. {"ok", "not_found", "conflict", "failed", "unauthorized"} \subseteq Statuses
  BY DEF Statuses
<1>1. CASE Me(h)
  <2> DEFINE found == {u \in users : u.id = UserId(h)}
  <2>1. found \in SUBSET Rows
    BY DEF TypeOK, Rows
  <2>2. PICK a : a \in {Reply("not_found", {}), Reply("ok", found)} /\ Answer(h, a)
    BY <1>1 DEF Me
  <2>3. pc[h] = "statement" /\ req[h].op = "me" /\ Same
    BY <1>1 DEF Me, Serves, Same
  <2>4. \A r \in found : UserId(h) = IF req[h].op = "me" THEN r.id ELSE r.user
    BY <2>3
  <2> HIDE DEF found
  <2>5. a \in [status : Statuses, rows : SUBSET Rows] /\ Own(h, a)
    BY <1>0, <2>1, <2>2, <2>4, NoRows, OwnRows
  <2> QED BY <2>2, <2>3, <2>5 DEF Handled, Effect
<1>2. CASE ListWatchlists(h)
  <2>1. ListsOf(UserId(h)) \in SUBSET Rows
    BY DEF TypeOK, Rows, ListsOf
  <2>2. Answer(h, Reply("ok", ListsOf(UserId(h))))
    BY <1>2 DEF ListWatchlists
  <2>3. pc[h] = "statement" /\ req[h].op = "lists" /\ Same
    BY <1>2 DEF ListWatchlists, Serves, Same
  <2>4. \A r \in ListsOf(UserId(h)) : UserId(h) = IF req[h].op = "me" THEN r.id ELSE r.user
    BY <2>3 DEF ListsOf
  <2> QED BY <2>1, <2>2, <2>3, <2>4, OwnRows DEF Handled, Effect
<1>3. CASE ListAPIKeys(h)
  <2>1. KeysOf(UserId(h)) \in SUBSET Rows
    BY DEF TypeOK, Rows, KeysOf
  <2>2. Answer(h, Reply("ok", KeysOf(UserId(h))))
    BY <1>3 DEF ListAPIKeys
  <2>3. pc[h] = "statement" /\ req[h].op = "keys" /\ Same
    BY <1>3 DEF ListAPIKeys, Serves, Same
  <2>4. \A r \in KeysOf(UserId(h)) : UserId(h) = IF req[h].op = "me" THEN r.id ELSE r.user
    BY <2>3 DEF KeysOf
  <2> QED BY <2>1, <2>2, <2>3, <2>4, OwnRows DEF Handled, Effect
<1>4. CASE CreateAPIKey(h)
  <2>1. pc[h] = "statement" /\ req[h].op = "create_key"
    BY <1>4 DEF CreateAPIKey, Serves
  <2>2. CASE \E k \in KeyRows : InsertKey(h, k) /\ Answer(h, Reply("ok", {k}))
    <3>1. PICK k \in KeyRows : InsertKey(h, k) /\ Answer(h, Reply("ok", {k}))
      BY <2>2
    <3>2. {k} \in SUBSET Rows /\ k.user = UserId(h)
      BY <3>1 DEF Rows, InsertKey
    <3> QED BY <2>1, <3>1, <3>2, OwnRows DEF Handled, Effect, InsertsKey
  <2>3. CASE Answer(h, Reply("failed", {})) /\ Same
    BY <1>0, <2>1, <2>3, NoRows DEF Handled, Effect
  <2> QED BY <1>4, <2>2, <2>3 DEF CreateAPIKey, Same
<1>5. CASE CreateWatchlist(h)
  <2>1. pc[h] = "statement" /\ req[h].op = "create_list"
    BY <1>5 DEF CreateWatchlist, Serves
  <2>2. CASE \E w \in ListRows : InsertList(h, w) /\ Answer(h, Reply("ok", {w}))
    <3>1. PICK w \in ListRows : InsertList(h, w) /\ Answer(h, Reply("ok", {w}))
      BY <2>2
    <3>2. {w} \in SUBSET Rows /\ w.user = UserId(h)
      BY <3>1 DEF Rows, InsertList
    <3> QED BY <2>1, <3>1, <3>2, OwnRows DEF Handled, Effect, InsertsList
  <2>3. CASE Answer(h, Reply("conflict", {})) /\ Same
    BY <1>0, <2>1, <2>3, NoRows DEF Handled, Effect
  <2> QED BY <1>5, <2>2, <2>3 DEF CreateWatchlist, Same
<1>6. CASE UpdateWatchlist(h)
  <2>1. /\ pc[h] = "statement" /\ req[h].op = "update_list"
        /\ req[h].symbols \in Contents
    BY <1>6, Asked, RequestFields DEF UpdateWatchlist, Serves
  <2>2. CASE \E w \in lists : UpdateRow(h, w)
                 /\ Answer(h, Reply("ok", {[w EXCEPT !.symbols = req[h].symbols]}))
    <3>1. PICK w \in lists : UpdateRow(h, w)
                 /\ Answer(h, Reply("ok", {[w EXCEPT !.symbols = req[h].symbols]}))
      BY <2>2
    <3> DEFINE v == [w EXCEPT !.symbols = req[h].symbols]
    <3>2. v \in ListRows /\ v.user = UserId(h)
      BY <2>1, <3>1 DEF TypeOK, ListRows, UpdateRow, OwnList
    <3>3. {v} \in SUBSET Rows
      BY <3>2 DEF Rows
    <3>4. Answer(h, Reply("ok", {v}))
      BY <3>1
    <3> HIDE DEF v
    <3> QED BY <2>1, <3>1, <3>2, <3>3, <3>4, OwnRows DEF Handled, Effect, Updates
  <2>3. CASE Answer(h, Reply("not_found", {})) /\ Same
    BY <1>0, <2>1, <2>3, NoRows DEF Handled, Effect
  <2> QED BY <1>6, <2>2, <2>3 DEF UpdateWatchlist, Same
<1>7. CASE DeleteWatchlist(h)
  <2>1. pc[h] = "statement" /\ req[h].op = "delete_list" /\ req[h].list \in Ids
    BY <1>7, Asked, RequestFields DEF DeleteWatchlist, Serves
  <2>2. PICK st \in {"ok", "not_found"} : Answer(h, Reply(st, {})) /\ Deletes(h)
    BY <1>7, <2>1 DEF DeleteWatchlist, Deletes
  <2> QED BY <1>0, <2>1, <2>2, NoRows DEF Handled, Effect
<1>8. CASE StatementFails(h) \/ Unacknowledged(h)
  <2>1. pc[h] = "statement" /\ Answer(h, Reply(ErrorStatus(req[h].op), {}))
    BY <1>8 DEF StatementFails, Unacknowledged, Serves
  <2>2. ErrorStatus(req[h].op) \in Statuses
    BY DEF ErrorStatus, Statuses
  <2>3. Serves(h, "update_list") => req[h].symbols \in Contents
    BY <2>1, Asked, RequestFields DEF Serves
  <2>4. Effect(h)
    BY <1>8, <2>3 DEF StatementFails, Unacknowledged, Effect, Same, InsertsKey, InsertsList,
          Updates, Deletes
  <2> QED BY <2>1, <2>2, <2>4, NoRows DEF Handled
<1> QED
  BY <1>1, <1>2, <1>3, <1>4, <1>5, <1>6, <1>7, <1>8 DEF Handle

\* What an effect leaves alone, or changes of the rows of a user.
LEMMA EffectFacts ==
  ASSUME TypeOK, NEW h \in Handlers, pc[h] = "statement", Effect(h)
  PROVE  /\ users' = users
         /\ used \subseteq used' /\ used' \subseteq Ids
         /\ lists' \subseteq ListRows /\ keys' \subseteq KeyRows
         /\ \A w \in lists' \ lists : w.user = UserId(h)
         /\ \A w \in lists \ lists' : w.user = UserId(h)
         /\ \A k \in keys' \ keys : k.user = UserId(h)
         /\ keys \subseteq keys'
<1>1. CASE Same
  BY <1>1 DEF Same, tables, TypeOK
<1>2. CASE InsertsKey(h)
  BY <1>2 DEF InsertsKey, InsertKey, Draw, TypeOK, KeyRows
<1>3. CASE InsertsList(h)
  BY <1>3 DEF InsertsList, InsertList, Draw, TypeOK, ListRows
<1>4. CASE Updates(h)
  <2>1. PICK w \in lists : UpdateRow(h, w)
    BY <1>4 DEF Updates
  <2> DEFINE v == [w EXCEPT !.symbols = req[h].symbols]
  <2>2. v \in ListRows /\ v.user = UserId(h) /\ w.user = UserId(h)
    BY <1>4, <2>1 DEF TypeOK, ListRows, UpdateRow, OwnList, Updates
  <2>3. lists' = (lists \ {w}) \cup {v} /\ UNCHANGED <<users, keys, used>>
    BY <2>1 DEF UpdateRow
  <2> HIDE DEF v
  <2> QED BY <2>2, <2>3 DEF TypeOK
<1>5. CASE Deletes(h)
  BY <1>5 DEF Deletes, DeleteRows, OwnList, TypeOK
<1> QED BY <1>1, <1>2, <1>3, <1>4, <1>5 DEF Effect

\* The rows an effect leaves are those of existing users, each with an identifier
\* and a name of its own; and a deletion is confirmed when it happens.
LEMMA EffectKeepsRows ==
  ASSUME IInv, NEW h \in Handlers, pc[h] = "statement", Effect(h)
  PROVE  RowsConsistent' /\ IdsDrawn' /\ DeletedForGood' /\ deletions' \in [Ids -> Nat]
<1>0. TypeOK /\ RowsConsistent /\ IdsDrawn /\ DeletedForGood
  BY DEF IInv
<1>a. \A w \in lists : w.id \in Ids /\ w.id \in used
  BY <1>0 DEF TypeOK, ListRows, IdsDrawn
<1>1. CASE Same
  BY <1>0, <1>1 DEF Same, tables, RowsConsistent, UserExists, IdsDrawn, DeletedForGood, TypeOK
<1>2. CASE InsertsKey(h)
  <2>1. PICK k \in KeyRows : InsertKey(h, k)
    BY <1>2 DEF InsertsKey
  <2>2. /\ keys' = keys \cup {k} /\ UserExists(k.user)
        /\ used \subseteq used'
        /\ UNCHANGED <<users, lists, deletions>>
    BY <2>1 DEF InsertKey, Draw
  <2> QED BY <1>0, <2>2 DEF RowsConsistent, UserExists, IdsDrawn, DeletedForGood, TypeOK
<1>3. CASE InsertsList(h)
  <2>1. PICK w \in ListRows : InsertList(h, w)
    BY <1>3 DEF InsertsList
  <2>2. /\ lists' = lists \cup {w} /\ UserExists(w.user)
        /\ w.id \in Ids /\ w.id \notin used /\ used' = used \cup {w.id}
        /\ \A v \in lists : ~(v.user = w.user /\ v.name = w.name)
        /\ UNCHANGED <<users, keys, deletions>>
    BY <2>1 DEF InsertList, Draw, ListNamed, ListsOf, ListRows
  <2>3. \A v \in lists : v.id # w.id
    BY <1>a, <2>2
  <2>4. RowsConsistent'
    BY <1>0, <2>2, <2>3 DEF RowsConsistent, UserExists
  <2>5. IdsDrawn'
    BY <1>0, <2>2 DEF IdsDrawn
  <2>6. deletions[w.id] # 1
    BY <1>0, <2>2 DEF IdsDrawn
  <2> QED BY <1>0, <2>2, <2>4, <2>5, <2>6 DEF DeletedForGood, TypeOK
<1>4. CASE Updates(h)
  <2>1. PICK w \in lists : UpdateRow(h, w)
    BY <1>4 DEF Updates
  <2> DEFINE v == [w EXCEPT !.symbols = req[h].symbols]
  <2>2. v.id = w.id /\ v.user = w.user /\ v.name = w.name
    BY <1>0 DEF TypeOK, ListRows
  <2>3. lists' = (lists \ {w}) \cup {v} /\ UNCHANGED <<users, keys, used, deletions>>
    BY <2>1 DEF UpdateRow
  <2> HIDE DEF v
  <2>4. RowsConsistent'
    BY <1>0, <2>2, <2>3 DEF RowsConsistent, UserExists
  <2>5. IdsDrawn' /\ DeletedForGood'
    BY <1>0, <2>2, <2>3 DEF IdsDrawn, DeletedForGood
  <2> QED BY <1>0, <2>3, <2>4, <2>5 DEF TypeOK
<1>5. CASE Deletes(h)
  <2>1. lists' \subseteq lists /\ lists' = lists \ OwnList(h) /\ UNCHANGED <<users, keys, used>>
    BY <1>5 DEF Deletes, DeleteRows
  <2>2. RowsConsistent'
    BY <1>0, <2>1 DEF RowsConsistent, UserExists
  <2>3. CASE UNCHANGED deletions
    BY <1>0, <2>1, <2>2, <2>3 DEF IdsDrawn, DeletedForGood, TypeOK
  <2>4. CASE OwnList(h) # {} /\ req[h].list \in Ids /\ Confirm(req[h].list)
    <3> DEFINE id == req[h].list
    <3>1. PICK w \in lists : w.id = id /\ w.user = UserId(h)
      BY <2>4 DEF OwnList
    <3>2. deletions[id] = 0
      BY <1>0, <2>4, <3>1 DEF DeletedForGood, TypeOK
    <3>3. \A v \in lists' : v.id # id
      BY <1>0, <2>1, <3>1 DEF RowsConsistent, OwnList
    <3>4. \A i \in Ids : deletions'[i] = IF i = id THEN 1 ELSE deletions[i]
      BY <1>0, <2>4, <3>2 DEF Confirm, TypeOK
    <3>5. deletions' \in [Ids -> Nat]
      BY <1>0, <2>4 DEF Confirm, TypeOK
    <3>6. id \in used
      BY <1>a, <3>1
    <3> HIDE DEF id
    <3>7. IdsDrawn'
      BY <1>0, <2>1, <3>4, <3>6 DEF IdsDrawn
    <3>8. DeletedForGood'
      BY <1>0, <2>1, <3>3, <3>4 DEF DeletedForGood
    <3> QED BY <2>2, <3>5, <3>7, <3>8
  <2> QED BY <1>5, <2>3, <2>4 DEF Deletes
<1> QED BY <1>1, <1>2, <1>3, <1>4, <1>5 DEF Effect

-----------------------------------------------------------------------------
(* The invariant is inductive.                                             *)

LEMMA InvInit == Init => IInv
BY DEF Init, IInv, TypeOK, IdsDrawn, RowsConsistent, AnswersAreOwn, DeletedForGood, Reply,
       Statuses

LEMMA HandleKeepsInv ==
  ASSUME IInv, NEW h \in Handlers, Handle(h)
  PROVE  IInv'
<1>0. TypeOK /\ Handled(h)
  BY HandleEffects DEF IInv
<1>1. PICK a \in [status : Statuses, rows : SUBSET Rows] : Answer(h, a) /\ Own(h, a)
  BY <1>0 DEF Handled
<1>2. pc[h] = "statement" /\ Effect(h)
  BY <1>0 DEF Handled
<1>3. RowsConsistent' /\ IdsDrawn' /\ DeletedForGood' /\ deletions' \in [Ids -> Nat]
  BY <1>2, EffectKeepsRows
<1>4. TypeOK'
  BY <1>0, <1>1, <1>2, <1>3, AnswerType, EffectFacts DEF TypeOK
<1>5. AnswersAreOwn'
  <2> SUFFICES ASSUME NEW g \in Handlers, NEW r \in answer'[g].rows
               PROVE  UserId(g)' = IF req'[g].op = "me" THEN r.id ELSE r.user
    BY DEF AnswersAreOwn
  <2>1. req'[g] = req[g] /\ answer'[g] = IF g = h THEN a ELSE answer[g]
    BY <1>0, <1>1, AnswerFacts
  <2>2. UserId(g)' = UserId(g)
    BY <2>1 DEF UserId
  <2> QED BY <1>1, <2>1, <2>2 DEF IInv, AnswersAreOwn, Own
<1> QED BY <1>3, <1>4, <1>5 DEF IInv

LEMMA InvStep == IInv /\ [Next]_vars => IInv'
<1> SUFFICES ASSUME IInv, [Next]_vars
             PROVE  IInv'
  OBVIOUS
<1>0. TypeOK /\ IdsDrawn /\ RowsConsistent /\ AnswersAreOwn /\ DeletedForGood
  BY DEF IInv
<1> USE DEF IInv
<1>1. ASSUME NEW id \in Ids, NEW e \in Emails, SignUp(id, e)
      PROVE  IInv'
  <2>1. TypeOK'
    BY <1>0, <1>1 DEF TypeOK, SignUp, Draw, UserRows, Tokens
  <2>2. IdsDrawn' /\ RowsConsistent'
    BY <1>0, <1>1 DEF SignUp, Draw, IdsDrawn, RowsConsistent, UserExists
  <2>3. AnswersAreOwn' /\ DeletedForGood'
    BY <1>0, <1>1 DEF SignUp, AnswersAreOwn, UserId, DeletedForGood
  <2> QED BY <2>1, <2>2, <2>3
<1>2. ASSUME NEW u \in users, IssueJWT(u)
      PROVE  IInv'
  <2>1. TypeOK'
    BY <1>0, <1>2 DEF TypeOK, IssueJWT, tables, UserRows, Tokens
  <2> QED BY <1>0, <1>2, <2>1 DEF IssueJWT, tables, IdsDrawn, RowsConsistent, UserExists,
             AnswersAreOwn, UserId, DeletedForGood
<1>3. ASSUME NEW u \in users, DeleteUser(u)
      PROVE  IInv'
  <2>1. TypeOK'
    BY <1>0, <1>3 DEF TypeOK, DeleteUser
  <2>2. RowsConsistent'
    <3>1. ASSUME NEW w \in lists' \cup keys' PROVE \E v \in users' : v.id = w.user
      <4>1. w \in lists \cup keys /\ w.user # u.id
        BY <1>3 DEF DeleteUser
      <4>2. PICK v \in users : v.id = w.user
        BY <1>0, <4>1 DEF RowsConsistent, UserExists
      <4> QED BY <1>3, <4>1, <4>2 DEF DeleteUser
    <3> QED BY <1>0, <1>3, <3>1 DEF RowsConsistent, UserExists, DeleteUser
  <2>3. IdsDrawn' /\ AnswersAreOwn' /\ DeletedForGood'
    BY <1>0, <1>3 DEF DeleteUser, IdsDrawn, AnswersAreOwn, UserId, DeletedForGood
  <2> QED BY <2>1, <2>2, <2>3
<1>4. ASSUME NEW t \in tokens, Expire(t)
      PROVE  IInv'
  <2>1. TypeOK'
    BY <1>0, <1>4 DEF TypeOK, Expire, tables
  <2> QED BY <1>0, <1>4, <2>1 DEF Expire, tables, IdsDrawn, RowsConsistent, UserExists,
             AnswersAreOwn, UserId, DeletedForGood
<1>5. ASSUME NEW h \in Handlers, NEW r \in Requests, JWTAuth(h, r)
      PROVE  IInv'
  <2>1. UNCHANGED <<users, lists, keys, used, deletions, tokens>>
    BY <1>5 DEF JWTAuth, tables, Answer
  <2>2. IdsDrawn' /\ RowsConsistent' /\ DeletedForGood'
    BY <1>0, <2>1 DEF IdsDrawn, RowsConsistent, UserExists, DeletedForGood
  <2>3. CASE /\ pc' = [pc EXCEPT ![h] = "statement"] /\ req' = [req EXCEPT ![h] = r]
             /\ answer' = [answer EXCEPT ![h] = Reply("none", {})]
    <3>1. TypeOK'
      BY <1>0, <2>1, <2>3 DEF TypeOK, Reply, Statuses
    <3>2. AnswersAreOwn'
      BY <1>0, <2>3 DEF AnswersAreOwn, UserId, Reply, TypeOK
    <3> QED BY <2>2, <3>1, <3>2
  <2>4. CASE Answer(h, Reply("unauthorized", {}))
    <3>1. Reply("unauthorized", {}) \in [status : Statuses, rows : SUBSET Rows]
      BY NoRows DEF Statuses
    <3>2. TypeOK'
      BY <1>0, <2>1, <2>4, <3>1, AnswerType DEF TypeOK
    <3>3. AnswersAreOwn'
      BY <1>0, <2>4, AnswerFacts DEF AnswersAreOwn, UserId, Reply
    <3> QED BY <2>2, <3>2, <3>3
  <2> QED BY <1>5, <2>3, <2>4 DEF JWTAuth
<1>6. CASE UNCHANGED vars
  BY <1>0, <1>6 DEF vars, tables, TypeOK, IdsDrawn, RowsConsistent, UserExists,
       AnswersAreOwn, UserId, DeletedForGood
<1> QED BY <1>1, <1>2, <1>3, <1>4, <1>5, <1>6, HandleKeepsInv DEF Next

LEMMA InvHolds == Spec => []IInv
<1> QED BY InvInit, InvStep, PTL DEF Spec

-----------------------------------------------------------------------------
(* The theorems.                                                           *)

\* Every variable keeps its type, and no handler works on a refused request.
THEOREM TypeCorrect == Spec => []TypeOK
<1>1. IInv => TypeOK
  BY DEF IInv
<1> QED BY <1>1, InvHolds, PTL

\* Watchlists and keys are never left without their account, and a user has one
\* list of a name, whatever comes late or again.
THEOREM RowsStayConsistent == Spec => []RowsConsistent
<1>1. IInv => RowsConsistent
  BY DEF IInv
<1> QED BY <1>1, InvHolds, PTL

\* A token is answered with what is its account's.
THEOREM AnswersStayOwn == Spec => []AnswersAreOwn
<1>1. IInv => AnswersAreOwn
  BY DEF IInv
<1> QED BY <1>1, InvHolds, PTL

\* A deletion is confirmed once, and stays.
THEOREM DeletionsAreFinal == Spec => []DeletedForGood
<1>1. IInv => DeletedForGood
  BY DEF IInv
<1> QED BY <1>1, InvHolds, PTL

\* The step property of OnlyOwnersChange.
OwnersStep ==
  \A u \in Ids : Owned(u)' # Owned(u) =>
    \/ ~UserExists(u)'
    \/ \E h \in Handlers : pc[h] = "statement" /\ pc'[h] = "idle" /\ UserId(h) = u

LEMMA OwnersKept == IInv /\ [Next]_vars => OwnersStep
<1> SUFFICES ASSUME IInv, [Next]_vars, NEW u \in Ids, Owned(u)' # Owned(u)
             PROVE  \/ ~UserExists(u)'
                    \/ \E h \in Handlers :
                         pc[h] = "statement" /\ pc'[h] = "idle" /\ UserId(h) = u
  BY DEF OwnersStep
<1>0. TypeOK /\ IdsDrawn
  BY DEF IInv
<1>1. ~UNCHANGED <<lists, keys>>
  BY DEF Owned, ListsOf, KeysOf
<1>2. ASSUME NEW v \in users, DeleteUser(v)
      PROVE  ~UserExists(u)'
  <2>1. CASE v.id = u
    BY <1>0, <1>2, <2>1 DEF DeleteUser, UserExists, IdsDrawn
  <2>2. CASE v.id # u
    BY <1>2, <2>2 DEF DeleteUser, Owned, ListsOf, KeysOf
  <2> QED BY <2>1, <2>2
<1>3. ASSUME NEW h \in Handlers, Handle(h)
      PROVE  pc[h] = "statement" /\ pc'[h] = "idle" /\ UserId(h) = u
  <2>1. Handled(h)
    BY <1>0, <1>3, HandleEffects
  <2>2. pc[h] = "statement" /\ pc'[h] = "idle" /\ Effect(h)
    BY <1>0, <2>1, AnswerFacts DEF Handled
  <2>3. UserId(h) = u
    BY <1>0, <2>2, EffectFacts DEF Owned, ListsOf, KeysOf
  <2> QED BY <2>2, <2>3
<1>4. ~UNCHANGED vars
  BY <1>1 DEF vars, tables
<1>5. ASSUME NEW h \in Handlers, NEW r \in Requests, JWTAuth(h, r)
      PROVE  FALSE
  BY <1>1, <1>5 DEF JWTAuth, tables
<1> QED
  BY <1>1, <1>2, <1>3, <1>4, <1>5 DEF Next, SignUp, IssueJWT, Expire, tables

\* What an account owns changes by its own requests or with its end.
THEOREM OwnersOnly == Spec => OnlyOwnersChange
<1>1. IInv /\ [Next]_vars => [OwnersStep]_vars
  BY OwnersKept
<1> QED BY <1>1, InvHolds, PTL DEF Spec, OnlyOwnersChange, OwnersStep
=============================================================================
