------------------------------- MODULE UserData -------------------------------
(***************************************************************************)
(* The protected routes: JWTAuth (internal/middleware/auth.go), then Me,   *)
(* the watchlists or the API keys (internal/app/handlers.go), each one     *)
(* statement on its own (internal/store/watchlist.go and user.go).         *)
(*                                                                         *)
(* A token is good until it expires, whatever becomes of its user: between *)
(* its check and the statement, and later, the account may be deleted,     *)
(* which the schema provides for with ON DELETE CASCADE, and its e-mail    *)
(* registered again.  A client that heard nothing, or an error, may send   *)
(* its request again, so that any request may come at any time.            *)
(***************************************************************************)
EXTENDS Naturals, FiniteSets

CONSTANTS
  Handlers,
  Ids,       \* the values gen_random_uuid() gives, to every table
  Emails,
  Names,     \* of watchlists
  Contents,  \* their symbols
  Null

ASSUME NullAssumption == Null \notin Ids \cup Emails \cup Names \cup Contents

VARIABLES
  users,      \* rows of table users: [id, email]
  lists,      \* rows of table watchlists: [id, user, name, symbols]
  keys,       \* rows of table api_keys: [id, user, raw], raw for key_hash
  used,       \* history: the ids and raw keys drawn so far
  tokens,     \* the JWTs issued and not expired: [sub, email]
  pc,         \* pc[h]: "statement" once the token is checked, or "idle"
  req,        \* req[h]: the request h serves, or has answered with rows
  answer,     \* answer[h]: what h answered
  deletions   \* history: how often the deletion of a list was confirmed

tables == <<users, lists, keys, used>>
vars == <<tables, tokens, pc, req, answer, deletions>>

Tokens == [sub : Ids, email : Emails]
UserRows == [id : Ids, email : Emails]
ListRows == [id : Ids, user : Ids, name : Names, symbols : Contents]
KeyRows == [id : Ids, user : Ids, raw : Ids]

\* A request with a valid body; what its operation does not use is Null.
Ask(op, t, id, n, s) == [op |-> op, token |-> t, list |-> id, name |-> n, symbols |-> s]
Requests ==
  {Ask(op, t, Null, Null, Null) :
     op \in {"me", "lists", "keys", "create_key"}, t \in Tokens}
    \cup {Ask("create_list", t, Null, n, s) : t \in Tokens, n \in Names, s \in Contents}
    \cup {Ask("update_list", t, id, Null, s) : t \in Tokens, id \in Ids, s \in Contents}
    \cup {Ask("delete_list", t, id, Null, Null) : t \in Tokens, id \in Ids}

Reply(st, rows) == [status |-> st, rows |-> rows]
Statuses == {"none", "ok", "unauthorized", "not_found", "conflict", "failed"}
Rows == UserRows \cup ListRows \cup KeyRows

\* The type invariant; and a handler that goes on has not answered yet, as one
\* would that does not return where it refuses.
TypeOK ==
  /\ users \subseteq UserRows
  /\ lists \subseteq ListRows
  /\ keys \subseteq KeyRows
  /\ used \subseteq Ids
  /\ tokens \subseteq Tokens
  /\ pc \in [Handlers -> {"idle", "statement"}]
  /\ req \in [Handlers -> Requests \cup {Null}]
  /\ answer \in [Handlers -> [status : Statuses, rows : SUBSET Rows]]
  /\ deletions \in [Ids -> Nat]
  /\ \A h \in Handlers :
       pc[h] = "statement" => req[h] \in Requests /\ answer[h].status = "none"

Init ==
  /\ users = {} /\ lists = {} /\ keys = {} /\ used = {} /\ tokens = {}
  /\ pc = [h \in Handlers |-> "idle"]
  /\ req = [h \in Handlers |-> Null]
  /\ answer = [h \in Handlers |-> Reply("none", {})]
  /\ deletions = [id \in Ids |-> 0]

Draw(ids) == ids \cap used = {} /\ used' = used \cup ids

-----------------------------------------------------------------------------
(* Accounts and tokens.                                                    *)

\* Register, or a first social login, and the token of the login.
SignUp(id, e) ==
  /\ Draw({id})
  /\ \A u \in users : u.email # e
  /\ users' = users \cup {[id |-> id, email |-> e]}
  /\ tokens' = tokens \cup {[sub |-> id, email |-> e]}
  /\ UNCHANGED <<lists, keys, pc, req, answer, deletions>>

\* A later login.
IssueJWT(u) ==
  /\ tokens' = tokens \cup {[sub |-> u.id, email |-> u.email]}
  /\ UNCHANGED <<tables, pc, req, answer, deletions>>

Expire(t) ==
  /\ tokens' = tokens \ {t}
  /\ UNCHANGED <<tables, pc, req, answer, deletions>>

\* An account is deleted in the database, with what it owns.
DeleteUser(u) ==
  /\ users' = users \ {u}
  /\ lists' = {w \in lists : w.user # u.id}
  /\ keys' = {k \in keys : k.user # u.id}
  /\ UNCHANGED <<used, tokens, pc, req, answer, deletions>>

-----------------------------------------------------------------------------
(* The handlers.                                                           *)

Answer(h, a) ==
  /\ pc' = [pc EXCEPT ![h] = "idle"]
  /\ answer' = [answer EXCEPT ![h] = a]
  /\ req' = [req EXCEPT ![h] = IF a.rows = {} THEN Null ELSE @]
  /\ UNCHANGED tokens

\* Mutant: JWTAuth does not return after it has refused.
AuthWithoutReturn(h, r) ==
  /\ pc[h] = "idle"
  /\ req' = [req EXCEPT ![h] = r]
  /\ pc' = [pc EXCEPT ![h] = "statement"]
  /\ answer' = [answer EXCEPT
       ![h] = Reply(IF r.token \in tokens THEN "none" ELSE "unauthorized", {})]
  /\ UNCHANGED <<tables, tokens, deletions>>

\* A request arrives; JWTAuth refuses it or hands it on.
JWTAuth(h, r) ==
  /\ pc[h] = "idle"
  /\ \/ /\ r.token \in tokens
        /\ pc' = [pc EXCEPT ![h] = "statement"]
        /\ req' = [req EXCEPT ![h] = r]
        /\ answer' = [answer EXCEPT ![h] = Reply("none", {})]
        /\ UNCHANGED tokens
     \/ r.token \notin tokens /\ Answer(h, Reply("unauthorized", {}))
  /\ UNCHANGED <<tables, deletions>>

Serves(h, op) == pc[h] = "statement" /\ req[h].op = op
UserId(h) == req[h].token.sub
UserExists(id) == \E u \in users : u.id = id

\* Mutant: Me looks the account up by the e-mail of the token.
MeByEmail(h) ==
  /\ Serves(h, "me")
  /\ LET found == {u \in users : u.email = req[h].token.email}
     IN  Answer(h, IF found = {} THEN Reply("not_found", {}) ELSE Reply("ok", found))
  /\ UNCHANGED <<tables, deletions>>

Me(h) ==
  /\ Serves(h, "me")
  /\ LET found == {u \in users : u.id = UserId(h)}
     IN  Answer(h, IF found = {} THEN Reply("not_found", {}) ELSE Reply("ok", found))
  /\ UNCHANGED <<tables, deletions>>

ListsOf(u) == {w \in lists : w.user = u}
KeysOf(u) == {k \in keys : k.user = u}

ListWatchlists(h) ==
  /\ Serves(h, "lists")
  /\ Answer(h, Reply("ok", ListsOf(UserId(h))))
  /\ UNCHANGED <<tables, deletions>>

ListAPIKeys(h) ==
  /\ Serves(h, "keys")
  /\ Answer(h, Reply("ok", KeysOf(UserId(h))))
  /\ UNCHANGED <<tables, deletions>>

\* The INSERT of CreateAPIKey.
InsertKey(h, k) ==
  /\ Draw({k.id, k.raw}) /\ k.id # k.raw
  /\ k.user = UserId(h)
  /\ UserExists(k.user)
  /\ keys' = keys \cup {k}
  /\ UNCHANGED <<users, lists, deletions>>

\* Without its user the INSERT fails, like any error.
CreateAPIKey(h) ==
  /\ Serves(h, "create_key")
  /\ \/ \E k \in KeyRows : InsertKey(h, k) /\ Answer(h, Reply("ok", {k}))
     \/ /\ ~UserExists(UserId(h))
        /\ Answer(h, Reply("failed", {}))
        /\ UNCHANGED <<tables, deletions>>

ListNamed(h) == {w \in ListsOf(UserId(h)) : w.name = req[h].name}

\* Mutant: watchlists.user_id references nothing.
InsertListUnreferenced(h, w) ==
  /\ Draw({w.id})
  /\ w.user = UserId(h) /\ w.name = req[h].name /\ w.symbols = req[h].symbols
  /\ ListNamed(h) = {}
  /\ lists' = lists \cup {w}
  /\ UNCHANGED <<users, keys, deletions>>

\* The INSERT of CreateWatchlist.
InsertList(h, w) ==
  /\ Draw({w.id})
  /\ w.user = UserId(h) /\ w.name = req[h].name /\ w.symbols = req[h].symbols
  /\ UserExists(w.user)
  /\ ListNamed(h) = {}
  /\ lists' = lists \cup {w}
  /\ UNCHANGED <<users, keys, deletions>>

\* Any error, of a user who is gone too, is answered as a name that is taken.
CreateWatchlist(h) ==
  /\ Serves(h, "create_list")
  /\ \/ \E w \in ListRows : InsertList(h, w) /\ Answer(h, Reply("ok", {w}))
     \/ /\ ~UserExists(UserId(h)) \/ ListNamed(h) # {}
        /\ Answer(h, Reply("conflict", {}))
        /\ UNCHANGED <<tables, deletions>>

\* Mutant: the statements do not look at the owner.
AnyonesList(h) == {w \in lists : w.id = req[h].list}

\* WHERE id = $ AND user_id = $
OwnList(h) == {w \in lists : w.id = req[h].list /\ w.user = UserId(h)}

UpdateRow(h, w) ==
  /\ w \in OwnList(h)
  /\ lists' = (lists \ {w}) \cup {[w EXCEPT !.symbols = req[h].symbols]}
  /\ UNCHANGED <<users, keys, used, deletions>>

UpdateWatchlist(h) ==
  /\ Serves(h, "update_list")
  /\ \/ \E w \in lists :
          /\ UpdateRow(h, w)
          /\ Answer(h, Reply("ok", {[w EXCEPT !.symbols = req[h].symbols]}))
     \/ /\ OwnList(h) = {}
        /\ Answer(h, Reply("not_found", {}))
        /\ UNCHANGED <<tables, deletions>>

Confirm(id) == deletions' = [deletions EXCEPT ![id] = @ + 1]

\* Mutant: a DELETE of nothing is a success.
DeleteUnchecked(h) ==
  /\ Serves(h, "delete_list")
  /\ lists' = lists \ OwnList(h)
  /\ Confirm(req[h].list)
  /\ Answer(h, Reply("ok", {}))
  /\ UNCHANGED <<users, keys, used>>

DeleteRows(h) ==
  /\ lists' = lists \ OwnList(h)
  /\ UNCHANGED <<users, keys, used>>

DeleteWatchlist(h) ==
  /\ Serves(h, "delete_list")
  /\ DeleteRows(h)
  /\ \/ OwnList(h) # {} /\ Confirm(req[h].list) /\ Answer(h, Reply("ok", {}))
     \/ OwnList(h) = {} /\ Answer(h, Reply("not_found", {})) /\ UNCHANGED deletions

\* How each handler answers any error of its statement.
ErrorStatus(op) ==
  CASE op \in {"me", "update_list", "delete_list"} -> "not_found"
    [] op = "create_list" -> "conflict"
    [] OTHER -> "failed"

\* The statement fails; or it takes effect and its acknowledgement is lost.
StatementFails(h) ==
  /\ pc[h] = "statement"
  /\ Answer(h, Reply(ErrorStatus(req[h].op), {}))
  /\ UNCHANGED <<tables, deletions>>

Unacknowledged(h) ==
  /\ \/ Serves(h, "create_key") /\ \E k \in KeyRows : InsertKey(h, k)
     \/ Serves(h, "create_list") /\ \E w \in ListRows : InsertList(h, w)
     \/ Serves(h, "update_list") /\ \E w \in lists : UpdateRow(h, w)
     \/ Serves(h, "delete_list") /\ DeleteRows(h) /\ UNCHANGED deletions
  /\ Answer(h, Reply(ErrorStatus(req[h].op), {}))

Handle(h) ==
  \/ Me(h)
  \/ ListWatchlists(h)
  \/ CreateWatchlist(h)
  \/ UpdateWatchlist(h)
  \/ DeleteWatchlist(h)
  \/ ListAPIKeys(h)
  \/ CreateAPIKey(h)
  \/ StatementFails(h)
  \/ Unacknowledged(h)

Next ==
  \/ \E id \in Ids, e \in Emails : SignUp(id, e)
  \/ \E u \in users : IssueJWT(u) \/ DeleteUser(u)
  \/ \E t \in tokens : Expire(t)
  \/ \E h \in Handlers : Handle(h) \/ \E r \in Requests : JWTAuth(h, r)

Spec == Init /\ [][Next]_vars

-----------------------------------------------------------------------------
(* Properties.                                                             *)

\* No row is left behind or comes late: a watchlist or key belongs to an
\* account that exists, though its request was let in before the account was
\* deleted; and a retried creation leaves one list of a name.
RowsConsistent ==
  /\ \A w \in lists \cup keys : UserExists(w.user)
  /\ \A v, w \in lists : v.id = w.id \/ (v.user = w.user /\ v.name = w.name) => v = w

\* A token reaches the account it was issued to and no other, not even one that
\* was registered later with the same e-mail.
AnswersAreOwn ==
  \A h \in Handlers : \A r \in answer[h].rows :
    UserId(h) = IF req[h].op = "me" THEN r.id ELSE r.user

\* What an account owns is changed by requests with its own token, and by its
\* end; ids of other accounts' lists give no hold on them.
Owned(u) == ListsOf(u) \cup KeysOf(u)

OnlyOwnersChange ==
  [][\A u \in Ids : Owned(u)' # Owned(u) =>
       \/ ~UserExists(u)'
       \/ \E h \in Handlers : pc[h] = "statement" /\ pc'[h] = "idle" /\ UserId(h) = u]_vars

\* The deletion of a list is confirmed once, however many requests for it are
\* sent, at once or again; and the list does not come back, not by an update
\* that arrives late.
DeletedForGood ==
  \A id \in Ids : deletions[id] <= 1 /\
    (deletions[id] = 1 => \A w \in lists : w.id # id)
=============================================================================
