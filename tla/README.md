# Verification of mekong-api

This directory models the API server of this repository in TLA+. TLC checks the
models on small instances; TLAPS proves what matters most of them for every
value of their constants. `PROJECT.json` is the index: components, runs, the
mutant that shows each property can fail, the source lines behind each
definition, the findings, the hazards and the theorems.

To check: `tlc -workers 2 -config <X>.cfg <MC module>` for a run,
`tlapm <X>Proofs.tla` for the proofs.

## What the checks found

Each finding is a run that is expected to end in a counterexample.

| Run | Property | What the code does |
|---|---|---|
| `oauth_error_body` | `TokenForConsentingPerson` | `fetchGitHubUserInfo` ignores the response's status. An error body decodes to a profile without an id, so the callback logs in the identity `github:<nil>` and issues a token for it; everybody this happens to shares that account (oauth.go:125, 158-170). |
| `accounts_changed_email` | `TokenMatchesIdentity` | Two first logins of one identity, its e-mail changed at the provider in between, race. The second one's insert of the identity does nothing (`ON CONFLICT DO NOTHING`, user.go:117), and it still answers with the user of the second e-mail, who does not own the identity and has no other way in. |
| `accounts_conflict` | `ConflictMeansTaken` | Any error of `CreateUser` is answered 409 "email already registered", a password over bcrypt's 72 bytes included (handlers.go:432). |
| `reports_limit` | `LimitPerCategory` | `limit` of GET /digest is documented as per category (handlers.go:161) and applied to all categories together (postgres_market.go:116). |
| `reports_year` | `YearIsKept` | GET /screener with a year and no week answers with the latest week of any year (handlers.go:347), against "omit to use the latest" (338). |

Also seen, and not a run, as the repository promises nothing else:

- Queries over Parquet files, which the README and the comments of `duckdb.go`
  describe, are made by no handler any more; and the README's "default current
  ISO week" of /screener is the latest week with data.
- An API key is stored and listed, and never looked up: it authenticates
  nothing, and no operation deletes one (user.go 57-81).
- `CreateWatchlist` answers 409 "name already exists", and `UpdateWatchlist`,
  `DeleteWatchlist` and `Me` 404, for any error: a token whose account was
  deleted is told that its first list exists already.
- `GetSnapshot` does not look at the upstream's status, and ignores the error of
  reading its body (handlers.go 400-410).
- `Validate` can refuse nothing that `Load` lets pass, since each variable it
  looks at has a default (config.go). `CACHE_TTL_SECONDS` of zero or less then
  ends the process by a panic after it has started (cache.go 45), and
  `POSTGRES_MAX_CONNS` is wrapped to 32 bits (postgres.go 20).
- A process that is killed during a migration, or gets a signal before
  `signal.Notify`, leaves the schema marked dirty, and no process starts on it
  until somebody repairs it by hand.
- `pg.Close` waits for the connections in use without a limit: a statement that
  hangs outlives the 10 seconds of `Shutdown` (main.go 59, 88).

## The system

A Gin server: each request runs in a goroutine of its own. Goroutines share a
pgx pool over Postgres, a response cache, the map of OAuth states, and nothing
else. Batch jobs outside this repository write the market tables.

| Component | State | Operations | What is hard | What makes it correct | Module |
|---|---|---|---|---|---|
| Accounts (handlers.go 420-464, user.go 15-54, 83-127) | tables `users`, `user_identities` | `Register`, `Login`, `FindOrCreateSocialUser` | several statements per request, two of them under row locks in a transaction; a pool that runs out; calls that fail or take effect unacknowledged; restarts | one user per e-mail, one owner per identity, tokens for the owner, no account without a way in, no deadlock | `Accounts` implements `AccountDirectory` |
| OAuth states (app.go 20-55) | a map from state to expiry, under a mutex | `set`, `validate` | expiry at the same instant as a prune or a callback; loss at a restart | a one-time ticket each; expired entries do not pile up | `OAuthStates` implements `OneTimeTickets` |
| OAuth flow (oauth.go) | the states; pages and URLs in browsers | two login handlers, two callback handlers | callbacks visited twice, at once or late; three remote calls that fail | one token per login, for the account that consented | `OAuthFlow` on `OAuthStates` |
| Response cache (cache.go) | a map with expiries under an RWMutex, a goroutine with a ticker | `Get`, `Set`, `evictLoop` | the clock is read before the lock is taken; ticks are late | a sweep takes no live entry, and leaves no dead one for long | `ResponseCache` |
| GET /symbols (handlers.go 74-94) | the cache; table `symbols` | `GetSymbols` | the table is reloaded between query and `Set`; late `Set`s | what is served is recent; an absence is never cached | `SymbolsCache` on `ResponseCache` |
| Digest, live digest, screener (handlers.go 165-370) | tables `digest_entries`, `screener_results` | `GetDigest`, `GetScreener`, `GetDigestLive` | up to three queries, no transaction, while jobs write; a sort that is not stable | an answer is one published version under its own date; 404 means absence; a top list is one | `Reports`, `LiveDigest` |
| Bars and indicators (handlers.go 31-46, 96-156, postgres_market.go 39-94) | tables `ohlcv_bars`, `technical_indicators` | `GetOHLCV`, `GetIndicators` | rows come one by one and may break off; jobs write | an answer is the whole range of one version; 404 means none | `Reports` |
| Sessions (auth.go, oauth.go 21-28, handlers.go 466-476) | none on the server; the token | `issueJWT`, `JWTAuth`, `Me` | a user deleted under a token, its e-mail registered again | a token reaches its own account only | `UserData` |
| Watchlists and API keys (handlers.go 478-564, watchlist.go, user.go 57-81) | tables `watchlists`, `api_keys` | create, list, update, delete | the token is checked before the statement; requests sent again after a lost answer | no row without its account; one list of a name; only owners change; deleted is deleted | `UserData` |
| Start and stop (main.go, postgres.go, config.go, duckdb.go 16-43) | the schema with its version; phase, pool and listener of each process | load, migrate, serve, shut down | processes that migrate at once, are killed half way, or stop with requests in service; numbers nobody checks | nobody serves an unfinished schema; a stop ends, and cuts off no more than it must | `Lifecycle` |
| Snapshot proxy (handlers.go 26, 378-412) | none | `GetSnapshot` | an upstream that is slow | it ends before a stop does | `Lifecycle` |

`AccountDirectory`, `OneTimeTickets` are the abstract specifications; the
callbacks of `OAuthFlow` end in one step that stands for
`FindOrCreateSocialUser`, which `Accounts` refining `AccountDirectory` allows,
and `SignUp` of `UserData` stands for `Register` in the same way. `UserData` has
no abstract specification beside it: each of its requests is one statement, so
that the tables already change as an abstract store would, and what can go
wrong is between the check of the token and the statement.

### Not modelled

- The health check: two pings and a report, which change and decide nothing.
- Routing, the log middleware and `docs.go`: a fixed table, a line per request,
  a generated file.
- The DuckDB queries: pure I/O that no handler calls. `InitDuckDB` is a step of
  `Lifecycle`; `QueryDigestByRank` in `Reports` is `QueryDigest` of duckdb.go
  and the reference for its Postgres counterpart.
- What `GetSnapshot` answers: the upstream's content, and its order. What
  `GetDigestLive` makes of it is in `LiveDigest`.
- `ReadTimeout` and `WriteTimeout` of the listener: they end connections, not
  handlers, which run on; the models are about handlers.
- JWT signatures, `JWT_EXPIRY_HOURS` (a token may expire at any step), bcrypt,
  names, timestamps, the wording of answers.
- The network, Gin, Postgres, pgx and golang-migrate beyond the behaviour the
  code relies on, which `PROJECT.json` marks external.

## The modules

### AccountDirectory, Accounts

`AccountDirectory` is what the endpoints promise: each request takes effect and
is answered in one step. It allows what clients must expect, such as a 500 for
something that was done, and a 409 for a registration that failed.

`Accounts` is the code. A step is one database round trip:

| Action | Code |
|---|---|
| `HashPassword`, `InsertUser` | `CreateUser`, and `Register`'s answer |
| `Login` | `GetUserByEmail` and the comparison in `Login` |
| `Lookup`, `Begin`, `UpsertUser`, `LinkIdentity`, `Commit` | the five calls of `FindOrCreateSocialUser` |
| `InsertFails`, `LoginFails`, `LookupFails`, `TxFails` | the same calls with an error: note that `Lookup` takes any error for "unknown identity" |
| `InsertUnacknowledged`, `CommitUnacknowledged` | the effect without the answer |
| `Restart` | the process ends; open transactions are rolled back |

`users` and `identities` hold committed rows. `row[h]` and `linked[h]` are what
h's transaction has written and nobody else can see. The locks Postgres holds
at READ COMMITTED for a unique index entry or an updated row, and the
connections in use, are functions of `pc`: `EmailLocked`, `IdentityLocked`,
`HoldsConn`. A statement that meets a lock waits with its connection, so both
kinds of waiting can close a circle; `RequestsAnswered` says they do not.

Left out: requests that fail validation, passwords over 72 bytes at login, names
and timestamps.

### OneTimeTickets, OAuthStates, OAuthFlow

`OAuthStates` is `oauthStateStore`: both methods run under the mutex, so each is
a step. Expiry is compared as the code does it: `validate` accepts strictly
before it, `set` prunes strictly after it. `OneTimeTickets` drops a ticket at
the instant it runs out; the refinement mapping keeps the entries of the map
that are still in time.

`OAuthFlow` adds browsers, which hold consent pages and callback URLs and visit
a URL any number of times, and handlers, each at the code exchange, the profile
fetch or the user. A URL carries the state and the person, as the provider sees
to it that a code is that person's; that a code works once is not relied on.
A state used at the callback of the other provider is left out. `ErrorBodies`
names the providers whose profile request may be answered with an error status.
A missing field panics in Google's callback (answered 500), and is `"<nil>"` in
GitHub's.

### ResponseCache, SymbolsCache

`Get` and `Set` read the clock under the lock, so each is one step. `evictLoop`
reads it before it locks, so a sweep is two, `WakeUp` and `Sweep`. `Tick` lets
the scheduler be at most `MaxLag` late with `evictLoop`. `GetSymbols` is a
lookup, a query and a `Set`, and other handlers and `Reload` come in between; a
handler takes at most `MaxLatency` from its query to its `Set`, which no code
bounds, so that `ServedIsRecent` is stated in terms of it.

### LiveDigest, Reports

`LiveDigest` is `computeLiveDigest` as an operator that returns the SET of the
lists the code may produce, since `sort.Slice` may leave equal elements in any
order: `Pool` is the filter, as places in the snapshot, and `Sorts` the orders
`sort.Slice` may leave them in. An `ORDER BY` is `Ordered`, the enumeration of
the rows in the order given, which is unique where the key is; both are written
this way, and not with `SortSeq` and `SelectSeq`, so that they can be proved
about. `Reports` has one request in service at a time, since its handlers write
nothing that another could read, and up to `MaxLoads` writes of the jobs between
its queries. `seen` records the tables since the request came in; the properties
compare the answer with it. `failed` records that one of its queries failed:
`GetDigest` answers a failed query for the latest date with 404, the one 404 that
`NotFoundJustified` accepts without an absence, and only after the date asked for
was empty. A 404 between two writes of a job counts as justified when the date or
week that was the latest has lost its rows by the time it is queried. Weeks are
compared as numbers; the columns are TEXT, which gives the same order while the
job writes weeks in two digits, as the tests do. The bars and the indicators of
a symbol are one history, `series`; its rows reach the handler one by one, and
`AllRows` is the loop with the `rows.Err()` after it. Left out: a request
without a symbol, or with a limit that is not a positive number, which is
answered 400 before anything is read.

The assumptions on the constants say what the schema says of a table, and what
the code outside this repository is relied on for. From the primary keys
(migration 4): a date has one row of a category and rank, a symbol one row of a
day. From the batch job: a category is one of the three and its ranks start at 1
without gaps. From the snapshot service: it answers one tick of a symbol. The
two last are relied on by `CategoryLimitedByRank` and `LiveIsTopN` only.

### UserData

The protected routes. Each request is two steps, with anything in between:

| Action | Code |
|---|---|
| `JWTAuth` | the middleware, which refuses or hands on |
| `Me`, `ListWatchlists`, `CreateWatchlist`, `UpdateWatchlist`, `DeleteWatchlist`, `ListAPIKeys`, `CreateAPIKey` | the handler with its one statement and its answer |
| `StatementFails`, `Unacknowledged` | the statement has an error, without or with its effect |
| `SignUp`, `IssueJWT`, `Expire` | accounts and tokens come, tokens go |
| `DeleteUser` | a row of `users` is deleted, with what `ON DELETE CASCADE` takes along |

No handler deletes a user; the schema provides for it, so it happens in the
database. A request may come at any time with any token ever issued, so that a
client's retry, a stale token and a guess at another account's list are all
requests like others. `used` and `deletions` are history variables: no
identifier is drawn twice (`gen_random_uuid`), and how often a deletion was
confirmed.

### Lifecycle

Processes of `main` on one database. `phase[s]` is the call main is in:

| Phase | Actions | Code |
|---|---|---|
| `off` | `Load` | `config.Load`, `Validate` |
| `duckdb`, `pool` | `InitDuckDB`, `InitPool` | the two Inits, with the wrapped size of the pool |
| `open`, `up`, `mark`, `apply`, `clean` | `OpenMigrator`, `Up`, `MigrationStops`, `MarkDirty`, `Apply`, `MarkClean` | `runMigrations`; the steps of golang-migrate are external |
| `launch`, `wait` | `Listen`, `Notify`, `Signal` | the goroutine of `ListenAndServe`, `signal.Notify`, `<-quit` |
| `drain`, `close` | `Shutdown`, `PoolClosed` | `srv.Shutdown`, then the deferred `pg.Close` |

`StartFails` is every `os.Exit(1)`, `Killed` a kill or a signal nobody waits for,
`EvictLoopPanics` the panic of `NewTicker`. `Exit` ends the process, and with it its
lock, its pool and its handlers; `last` records what it cut off. A handler waits
for a connection, a statement, the snapshot service, an OAuth provider, or its
client (`job`). Time (`Tick`) counts where a timeout runs: in a snapshot
request and in `Shutdown`.

`WriteTimeout` is left out as it ends no handler. That all the migrations take
effect as a whole is what Postgres does with a file of statements sent as one
query.

## The runs

| Run | States | Instance | Shows |
|---|---|---|---|
| `accounts_races` | 35 k | 3 handlers, 2 connections, 2 e-mails, 2 user ids, 2 identities, no faults | the safety properties and `DirectorySpec` under every interleaving of three requests |
| `accounts_faults` | 43 k | 2 handlers, 1 connection, 2 identities that share an e-mail, any call may fail, restarts | the same under faults, and `RequestsAnswered` |
| `oauth_flow` | 137 k | 2 logins, 2 handlers, 2 people, both providers, TTL 1, time to 3 | one token per login, for the right person; states are tickets |
| `symbols_cache` | 1.8 M | 2 handlers, 2 keys, TTL 2, lag 1, latency 1, time to 6 | recency, no cached absence, sweeping |
| `reports` | 638 k | 2 dates, 2 weeks, 3 editions, 3 histories of 3 days, limits 1 and 2, snapshots of up to 3 symbols, 2 writes per request | what the report endpoints may answer |
| `user_data` | 29 k | 2 handlers, 3 identifiers, 1 e-mail, 2 names, 2 contents, any statement may fail | rows and answers keep to their account, deletions are final |
| `lifecycle` | 85 k | 2 processes, 2 requests of one, 2 migrations, 5 configurations, 2 faults or signals, a grace of 2 ticks against a timeout of 1, integers of 3 bits | nobody serves an unfinished schema; what a stop waits for; a start listens, a stop ends, and a request gets its connection beside logins that hang |

Why the bounds are enough. A race of `Accounts` needs two writers of an e-mail or
an identity; the third handler is there to see a state between their steps. One
connection is the tightest pool, where a circular wait shows first. With TTL 1
and time to 3 a state is used before, at and after expiry, and a second login
prunes after the first has expired. Time to 6 sees entries of TTL 2 set, read,
expired, swept and set again. `GetDigest` makes three queries, so two writes
fall into all its gaps. Three ticks against limits 1 and 2 give lists shorter
than, equal to and longer than the limit, with ties. Requests for all
categories, for one and for an unknown one are asked. With one e-mail a second
account comes only after the first is deleted, which is the case its tokens
could confuse; three identifiers are two accounts and a list, an account and two
lists, or an account and a key; two handlers are a request and its retry, or a
request and the one it races with. One process that migrates and one that waits,
or serves, is all that two migrations' locks tell apart; two migrations have a
clean state between them to be killed in; two faults are a kill in a migration
and a later one, or a fault and a signal. The two requests are one that holds the
connection and one that wants it. Integers of 3 bits wrap 10 to a pool of 2, and
8 to none.

`accounts_faults` and `lifecycle` state liveness.

In `accounts_faults` fairness is `SF_vars(Serve(h))`: strong, because what a
handler waits for, a connection or a row, is taken and released by others again
and again. The code justifies it: pgxpool serves waiters for a connection in
order, Postgres queues waiters for a row lock, and every goroutine runs. No
fairness is asked of `Receive`, of faults or of restarts: a request that is
lost to a restart counts as ended.

In `lifecycle` it is weak, for main and for the goroutine that listens, of each
process; for a statement, for a snapshot request whose timeout is over; and for
time. A weak one is enough there, as each of these stays enabled until it is
done, and the lock of the migrations is given up by whoever holds it: the
one process that waits for it then finds it free for good, which with more
processes would take a queue. Statements end because Postgres answers; that it
does is assumed, as no timeout of the code sees to it. For a connection,
`Acquire`, fairness is strong, since others take it and give it back again and
again, and pgxpool serves those who wait in turn. None is asked for the OAuth
providers, which a handler may wait for without end, nor for the clients that
read a reply (`StopEnds` holds all the same, as `Shutdown` gives up, and
`ConnectionComes`, as a handler that waits there has no connection), nor for
requests, starts, faults or signals.
`StartServes` speaks of a process that begins with the faults used up, a clean
schema, and numbers that are usable (`Usable`).

No run turns deadlock checking off.

Every property of a passing run has a mutant, a plausible bug written beside
the definition it changes, under which TLC finds the property violated.

## The proofs

| Theorem | Says | Needs |
|---|---|---|
| `TypeCorrect`, `DirectoryStaysConsistent`, `TransactionsStayConsistent` | `TypeOK`, `DirectoryConsistent`, `TxConsistent` always | `ParametersAssumption` |
| `ConflictsTaken` | `ConflictMeansTaken`; `ConflictsExplained` has the long passwords as the one exception | also `~Faults`, and `LongPasswords = {}` |
| `TokensMatch`, `UsersReachable`, `AccountsImplementDirectory` | `TokenMatchesIdentity`, `NoUnreachableUser`, the refinement | also `StableEmails` |
| `StoreImplementsTickets`, `StorePruned` | the store alone refines `OneTimeTickets`, and prunes | the assumptions on `TTL`, `MaxTime` |
| `FlowTypeCorrect`, `OneToken`, `StatesInOnePlace`, `FlowImplementsTickets` | the same of the flow, for any number of handlers, logins and people | the same |
| `TokensForConsentingPerson` | `TokenForConsentingPerson` | also `"github" \notin ErrorBodies` |
| `UserDataProofs`: `TypeCorrect`, `RowsStayConsistent`, `AnswersStayOwn`, `DeletionsAreFinal`, `OwnersOnly` | all that `user_data` checks | `NullAssumption` |
| `LifecycleProofs`: `TypeCorrect`, `SchemaServed`, `StopsGracefully`, `SnapshotsOutlive` | all the safety that `lifecycle` checks | the assumptions on the constants; of the numbers only `SnapshotTimeout < Grace`, `0 < IntHalf` |
| `SymbolsCacheProofs`: `TypeCorrect`, `RecentServed`, `NotFoundCurrent`, `Evicted`, `LiveKept` | all that `symbols_cache` checks | the assumptions on the constants; of the numbers `0 < TTL` and `MaxLag < TTL` |
| `ReportsProofs`: `TypeCorrect`, `PublishedOnly`, `NotFoundHasReason`, `WholeSeries`, `RanksLimited`; `LiveDigestProofs`: `LiveIsTop` | all that `reports` checks, for any tables, snapshots, limits and number of writes | the assumptions on the constants, named above |

`StableEmails` (a provider reports one e-mail per identity), the assumption on
GitHub and the one on long passwords are where the findings
`accounts_changed_email`, `oauth_error_body` and `accounts_conflict` come from:
without them the theorems are false, and the runs show it. `~Faults` is needed as
an INSERT that fails, for whatever reason, is answered 409 too.

*Accounts.* That the tables are consistent after a commit depends on what the
transaction saw before it. `TxConsistent` says what the locks preserve from the
statement to the commit: the row a transaction upserted is still the only one
of its e-mail, no two open transactions hold one e-mail, an identity is linked
just when it has no owner, and no two transactions link one identity. With
`TypeOK` and `DirectoryConsistent` it is inductive. For `TokensMatch` the
invariant adds that tokens already given match, and what an open transaction
will return. The refinement maps `Commit`, and each single-statement action, to
the directory's step; all other steps change nothing the directory sees but
`busy`. For `ConflictsTaken` it is enough that no step deletes a user: the e-mail
that the INSERT found is there as long as the answer stands.

*OAuth.* The store's invariant adds to its type that entries were issued, no
later than now, and that pruning is done on each write. The flow adds that a
state that was not served has no token, and `StateInOnePlace`; a state leaves
the map in the step that puts it into a handler, and never returns, since
`Set` draws new ones. `FlowUsesStore` then carries what is proved of the store
over to the flow.

*UserData.* The invariant adds `IdsDrawn` to the properties: rows have
identifiers that were drawn, and so does a list whose deletion was confirmed.
Without it a new list could take the identifier of a deleted one, and a new account
that of an old token. The operations are reduced first to what they do to the
tables (`Effect`: nothing, or one row of the requester's) and to an answer with
rows of the requester's; each property then has a few cases, not one per action.

*Lifecycle.* The invariant relates the phases to the rest. `LockInv`: the one
process in the middle of a migration is the one that holds the lock. `SchemaInv`:
how far it has come, and that nobody serves before the schema is whole. So a
process that begins a migration finds nobody serving, and one that finds no
change, or ends the last migration, may serve. `ConfInv`: what serves has a pool.
`StopInv`: in a stop, a snapshot request is at least as old as the stop, so that
its timeout comes first when `SnapshotTimeout < Grace`; and when main closes the
pool the grace is over or nothing is left. `EndInv` are the two properties of
ends themselves. Every way a process ends is one lemma, `EndKeepsInv`.

*SymbolsCache.* Two parts. `CacheInv` is about `evictLoop`: its next tick is due
no later than a period from now, it is at most `MaxLag` behind, a sweep goes by
a time that is past, and no tick but the first after an entry expired finds the
entry still there; from this follow `Evicted` and `LiveKept`. `EntriesInv` and
`ReadsInv` are about recency: what an entry holds, and what a handler is about to
`Set`, is what some content of the table selects, and the table had that content
at a known time (`SeenAt`) or later. The time is that of the query for the
handler, and a TTL and a latency before it expires for the entry. A reload only
moves the end of a content forward, so `SeenAt` is stable.

*Reports.* `ProgressInv` says what the earlier queries of a request saw: that the
date asked for was empty in some version, and that in a version no earlier than
that the date, or the week, about to be queried was the latest. `RequestInv` says
that the last of `seen` is what the tables hold, so that every query reads a
version that is recorded; `AnswerInv`, that the rows answered are those the query
returns. A write of a job adds a version and changes none. `RanksLimited` needs a
fact about data: a cut after `limit` rows of a category, in order, is a cut after
rank `limit`, since an increasing sequence of n numbers out of 1 .. n is 1, 2,
..., n. Module `Orders` has this and the existence of the ordered enumeration;
its inductions are on the least counterexample, which exists as the naturals are
well founded.

*LiveDigest.* `BlockIsTop`: rows numbered from 1, cut from any order of the pool
in which no place comes before one that sorts ahead of it, are a top list,
wherever in the answer the block stands. The places of the pool and the ticks
are as many, since no symbol comes twice. `ThreeInARow` then finds the three
blocks in their concatenation.

TLC checked the inductive invariants of `SymbolsCacheProofs` and `ReportsProofs`
on the instances of their runs before they were proved.

Only model-checked: `RequestsAnswered`, `StopEnds`, `ConnectionComes` and
`StartServes`, as liveness is beyond the prover, and ENABLED with it; and that no run deadlocks. Every other
property of a passing run is proved. The properties of the five runs that end in
a counterexample are false, but for `ConflictMeansTaken`, `TokenMatchesIdentity`
and `TokenForConsentingPerson` under the conditions above. What a recursive
definition computes for all inputs could not be proved either; nothing proved
about here has one.

## Plan

Every component with a state is modelled, and every safety property that a
passing run checks is proved. What could be added:

1. An abstract specification of GET /symbols (a read of some recent content of the
   table) that `SymbolsCache` implements, in place of `ServedIsRecent`.
2. The same of a report: a read of one recent version, that `Reports` implements
   for a digest, a week and a series alike.
