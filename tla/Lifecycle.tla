------------------------------ MODULE Lifecycle ------------------------------
(***************************************************************************)
(* A server process from main to its end (cmd/server/main.go): the         *)
(* configuration, InitDuckDB, InitPostgres with the migrations, the        *)
(* listener, the signal, Shutdown and the deferred Close of the pool; and  *)
(* what it cuts off of the requests in flight.  Several processes start    *)
(* against one database.  golang-migrate, pgxpool and net/http are         *)
(* modelled from how the code uses them: the versions are read and         *)
(* written under an advisory lock that ends with its session, a migration  *)
(* takes effect as a whole, and the schema is dirty from before it until   *)
(* after.  One tick is the timeout of a snapshot request, or so.           *)
(***************************************************************************)
EXTENDS Integers, FiniteSets

CONSTANTS
  Servers,
  Handlers,
  Home,             \* [Handlers -> Servers]
  Configs,          \* [maxConns, ttl], Null for what Atoi refuses
  IntHalf,          \* 2^31: an int32 is one of -IntHalf .. IntHalf - 1
  LastVersion,      \* of the migrations
  Grace,            \* the 10 s of Shutdown
  SnapshotTimeout,  \* the 5 s of snapshotClient
  MaxFaults,        \* signals, kills, failures of what a process calls
  Null

ASSUME HomeAssumption == Home \in [Handlers -> Servers]
ASSUME NullAssumption == Null \notin Servers
ASSUME ConfigsAssumption ==
  Configs \subseteq [maxConns : Int \cup {Null}, ttl : Int \cup {Null}]
ASSUME NumbersAssumption ==
  /\ IntHalf \in Nat \ {0} /\ LastVersion \in Nat /\ MaxFaults \in Nat
  /\ SnapshotTimeout \in Nat /\ Grace \in Nat /\ SnapshotTimeout < Grace

VARIABLES
  schema,  \* the database: [applied, version, dirty]
  lock,    \* the process that holds the lock of the migrations
  phase,   \* phase[s]: the call main is in, "off" when there is no process
  conf,    \* conf[s]: its configuration
  pool,    \* pool[s]: the size of its pool, 0 without one
  bound,   \* bound[s]: it listens
  since,   \* since[s]: the ticks since Shutdown was called
  job,     \* job[h]: what handler h waits for, or "idle"
  age,     \* age[h]: the ticks it has waited for a snapshot
  last,    \* history: how the last process of s ended, and what it cut off
  faults

process == <<phase, conf, pool, bound, since, last>>
requests == <<job, age>>
vars == <<schema, lock, process, requests, faults>>

Starting == {"duckdb", "pool", "open", "up", "mark", "apply", "clean"}
Running == {"launch", "wait", "drain", "close"}
Calls == {"acquire", "query", "snapshot", "exchange", "reply"}
On(s) == {h \in Handlers : Home[h] = s}
Serving(s) == phase[s] \in Running

Int32(n) == ((n + IntHalf) % (2 * IntHalf)) - IntHalf
NoEnd == [cause |-> "none", cut |-> {}, waited |-> 0]

\* The type invariant; and what is beyond InitPostgres has a pool.
TypeOK ==
  /\ schema \in [applied : 0 .. LastVersion, version : 0 .. LastVersion, dirty : BOOLEAN]
  /\ lock \in Servers \cup {Null}
  /\ phase \in [Servers -> {"off"} \cup Starting \cup Running]
  /\ conf \in [Servers -> Configs \cup {Null}]
  /\ pool \in [Servers -> Nat]
  /\ bound \in [Servers -> BOOLEAN]
  /\ since \in [Servers -> 0 .. Grace]
  /\ job \in [Handlers -> {"idle"} \cup Calls]
  /\ age \in [Handlers -> 0 .. SnapshotTimeout]
  /\ last \in [Servers -> [cause : {"none", "failed", "stopped", "killed"},
                           cut : SUBSET Calls, waited : 0 .. Grace]]
  /\ faults \in 0 .. MaxFaults
  /\ \A s \in Servers : Serving(s) => pool[s] > 0

Init ==
  /\ schema = [applied |-> 0, version |-> 0, dirty |-> FALSE]
  /\ lock = Null
  /\ phase = [s \in Servers |-> "off"]
  /\ conf = [s \in Servers |-> Null]
  /\ pool = [s \in Servers |-> 0]
  /\ bound = [s \in Servers |-> FALSE]
  /\ since = [s \in Servers |-> 0]
  /\ job = [h \in Handlers |-> "idle"]
  /\ age = [h \in Handlers |-> 0]
  /\ last = [s \in Servers |-> NoEnd]
  /\ faults = 0

Fault == faults < MaxFaults /\ faults' = faults + 1

-----------------------------------------------------------------------------
(* The end of a process, and the failures of its start.                    *)

Exit(s, cause) ==
  /\ phase' = [phase EXCEPT ![s] = "off"]
  /\ conf' = [conf EXCEPT ![s] = Null]
  /\ pool' = [pool EXCEPT ![s] = 0]
  /\ bound' = [bound EXCEPT ![s] = FALSE]
  /\ since' = [since EXCEPT ![s] = 0]
  /\ lock' = IF lock = s THEN Null ELSE lock
  /\ job' = [h \in Handlers |-> IF h \in On(s) THEN "idle" ELSE job[h]]
  /\ age' = [h \in Handlers |-> IF h \in On(s) THEN 0 ELSE age[h]]
  /\ last' = [last EXCEPT ![s] = [cause |-> cause, waited |-> since[s],
                                  cut |-> {job[h] : h \in On(s)} \ {"idle"}]]

Goto(s, p) ==
  /\ phase' = [phase EXCEPT ![s] = p]
  /\ UNCHANGED <<conf, pool, bound, since, last, requests>>

\* Mutant: main does not look at the error of InitPostgres.
StartGoesOn(s) ==
  /\ phase' = [phase EXCEPT ![s] = "launch"]
  /\ pool' = [pool EXCEPT ![s] = 0]
  /\ lock' = IF lock = s THEN Null ELSE lock
  /\ UNCHANGED <<conf, bound, since, last, requests>>

\* os.Exit(1)
StartFails(s) == Exit(s, "failed")

\* Mutant: every error of Up is let pass.
UpErrorIgnored(s) == Goto(s, "launch") /\ lock' = IF lock = s THEN Null ELSE lock

\* An error of migrate.New, or of Up, other than ErrNoChange.
UpFails(s) == StartFails(s)

Killed(s) ==
  /\ phase[s] # "off"
  /\ Fault
  /\ Exit(s, "killed")
  /\ UNCHANGED schema

\* NewTicker of evictLoop panics.
EvictLoopPanics(s) ==
  /\ Serving(s)
  /\ conf[s].ttl <= 0
  /\ Exit(s, "killed")
  /\ UNCHANGED <<schema, faults>>

-----------------------------------------------------------------------------
(* The start.                                                              *)

\* config.Load: a text is no number; Validate then refuses nothing, as Load
\* gives every variable it looks at a default.
Load(s, c) ==
  /\ phase[s] = "off"
  /\ \/ /\ Null \notin {c.maxConns, c.ttl}
        /\ phase' = [phase EXCEPT ![s] = "duckdb"]
        /\ conf' = [conf EXCEPT ![s] = c]
        /\ last' = [last EXCEPT ![s] = NoEnd]
        /\ UNCHANGED <<lock, pool, bound, since, requests>>
     \/ Null \in {c.maxConns, c.ttl} /\ StartFails(s)
  /\ UNCHANGED <<schema, faults>>

InitDuckDB(s) ==
  /\ phase[s] = "duckdb"
  /\ \/ Goto(s, "pool") /\ UNCHANGED <<lock, faults>>
     \/ Fault /\ StartFails(s)
  /\ UNCHANGED schema

\* NewWithConfig refuses a size below 1; the Ping may fail.
InitPool(s) ==
  /\ phase[s] = "pool"
  /\ LET size == Int32(conf[s].maxConns)
     IN  \/ /\ size > 0
            /\ pool' = [pool EXCEPT ![s] = size]
            /\ phase' = [phase EXCEPT ![s] = "open"]
            /\ UNCHANGED <<lock, conf, bound, since, last, requests, faults>>
         \/ size <= 0 /\ StartFails(s) /\ UNCHANGED faults
         \/ Fault /\ StartFails(s)
  /\ UNCHANGED schema

\* migrate.New creates the table of versions, under the lock, which it waits for.
OpenMigrator(s) ==
  /\ phase[s] = "open"
  /\ lock = Null
  /\ Goto(s, "up")
  /\ UNCHANGED <<schema, lock, faults>>

\* Mutant: ErrNoChange is an error like others.
UpFailsUnchanged(s) ==
  /\ phase[s] = "up"
  /\ lock = Null
  /\ \/ (schema.dirty \/ schema.version = LastVersion) /\ UpFails(s)
     \/ ~schema.dirty /\ schema.version < LastVersion /\ Goto(s, "mark") /\ lock' = s
  /\ UNCHANGED <<schema, faults>>

\* Up takes the lock and reads the version: dirty is an error, the last one
\* ErrNoChange.
Up(s) ==
  /\ phase[s] = "up"
  /\ lock = Null
  /\ \/ schema.dirty /\ UpFails(s)
     \/ /\ ~schema.dirty /\ schema.version = LastVersion
        /\ Goto(s, "launch") /\ UNCHANGED lock
     \/ /\ ~schema.dirty /\ schema.version < LastVersion
        /\ Goto(s, "mark") /\ lock' = s
  /\ UNCHANGED <<schema, faults>>

\* A call of migrate.New or Up that has an error and no effect: the lock does not
\* become free in time, or the versions cannot be read or written.
MigrationStops(s) ==
  /\ phase[s] \in {"open", "up", "mark", "clean"}
  /\ Fault
  /\ UpFails(s)
  /\ UNCHANGED schema

MarkDirty(s) ==
  /\ phase[s] = "mark"
  /\ schema' = [schema EXCEPT !.version = @ + 1, !.dirty = TRUE]
  /\ Goto(s, "apply")
  /\ UNCHANGED <<lock, faults>>

\* The statements of one file; they fail, or their success is not heard of.
Apply(s) ==
  /\ phase[s] = "apply"
  /\ schema' \in {schema, [schema EXCEPT !.applied = @ + 1]}
  /\ \/ schema' # schema /\ Goto(s, "clean") /\ UNCHANGED <<lock, faults>>
     \/ Fault /\ UpFails(s)

MarkClean(s) ==
  /\ phase[s] = "clean"
  /\ schema' = [schema EXCEPT !.dirty = FALSE]
  /\ \/ schema.version < LastVersion /\ Goto(s, "mark") /\ UNCHANGED lock
     \/ schema.version = LastVersion /\ Goto(s, "launch") /\ lock' = Null
  /\ UNCHANGED faults

\* The goroutine of ListenAndServe, which does nothing once Shutdown was called.
Listen(s) ==
  /\ phase[s] \in {"launch", "wait"}
  /\ ~bound[s]
  /\ \/ /\ bound' = [bound EXCEPT ![s] = TRUE]
        /\ UNCHANGED <<lock, phase, conf, pool, since, last, requests, faults>>
     \/ Fault /\ StartFails(s)
  /\ UNCHANGED schema

\* signal.Notify: a signal before it is the end, as in Killed.
Notify(s) ==
  /\ phase[s] = "launch"
  /\ Goto(s, "wait")
  /\ UNCHANGED <<schema, lock, faults>>

-----------------------------------------------------------------------------
(* The stop.                                                               *)

\* Mutant: srv.Close() for srv.Shutdown(shutdownCtx).
SignalCloses(s) ==
  /\ phase[s] = "wait"
  /\ Fault
  /\ phase' = [phase EXCEPT ![s] = "close"]
  /\ bound' = [bound EXCEPT ![s] = FALSE]
  /\ UNCHANGED <<schema, lock, conf, pool, since, last, requests>>

\* A later signal is left in the channel.
Signal(s) ==
  /\ phase[s] = "wait"
  /\ Fault
  /\ phase' = [phase EXCEPT ![s] = "drain"]
  /\ bound' = [bound EXCEPT ![s] = FALSE]
  /\ UNCHANGED <<schema, lock, conf, pool, since, last, requests>>

\* Mutant: Shutdown(context.Background())
DrainedOnly(s) ==
  /\ phase[s] = "drain"
  /\ \A h \in On(s) : job[h] = "idle"
  /\ Goto(s, "close")
  /\ UNCHANGED <<schema, lock, faults>>

\* Shutdown returns when no request is left, or when its time is up.
Shutdown(s) ==
  /\ phase[s] = "drain"
  /\ \/ \A h \in On(s) : job[h] = "idle"
     \/ since[s] = Grace
  /\ Goto(s, "close")
  /\ UNCHANGED <<schema, lock, faults>>

\* pg.Close waits for the connections in use, then main is at its end.
PoolClosed(s) ==
  /\ phase[s] = "close"
  /\ \A h \in On(s) : job[h] # "query"
  /\ Exit(s, "stopped")
  /\ UNCHANGED <<schema, faults>>

-----------------------------------------------------------------------------
(* The requests.                                                           *)

Wait(h, j) ==
  /\ job' = [job EXCEPT ![h] = j]
  /\ age' = [age EXCEPT ![h] = 0]
  /\ UNCHANGED <<schema, lock, process, faults>>

\* A request that queries, or begins with the snapshot service or a provider.
Accept(h, j) == job[h] = "idle" /\ bound[Home[h]] /\ Wait(h, j)

\* Mutant: the transaction of a login is begun before its code is exchanged.
AcquireBesideLogins(h) ==
  /\ job[h] = "acquire"
  /\ LET s == Home[h]
         used == {g \in On(s) : job[g] \in {"query", "exchange"}}
     IN  \/ phase[s] # "close" /\ Cardinality(used) < pool[s] /\ Wait(h, "query")
         \/ phase[s] = "close" /\ Wait(h, "reply")

Acquire(h) ==
  /\ job[h] = "acquire"
  /\ LET s == Home[h]
         used == {g \in On(s) : job[g] = "query"}
     IN  \/ phase[s] # "close" /\ Cardinality(used) < pool[s] /\ Wait(h, "query")
         \/ phase[s] = "close" /\ Wait(h, "reply")

\* The answer follows, or the next query.
QueryEnds(h) == job[h] = "query" /\ \E j \in {"acquire", "reply"} : Wait(h, j)

\* Mutant: snapshotClient has no Timeout.
NeverDue(h) == FALSE

Due(h) == job[h] = "snapshot" /\ age[h] = SnapshotTimeout

\* The service answers, or the client gives up.
SnapshotEnds(h) == job[h] = "snapshot" /\ Wait(h, "reply")

\* Exchange and the fetch of the profile: nothing makes them end.
ExchangeEnds(h) == job[h] = "exchange" /\ \E j \in {"acquire", "reply"} : Wait(h, j)

Reply(h) == job[h] = "reply" /\ Wait(h, "idle")

Least(m, n) == IF m < n THEN m ELSE n

\* Time passes, where it counts, and not past what is due.
Tick ==
  /\ \E h \in Handlers, s \in Servers : job[h] = "snapshot" \/ phase[s] = "drain"
  /\ \A h \in Handlers : ~Due(h)
  /\ \A s \in Servers : phase[s] = "drain" => since[s] < Grace
  /\ age' = [h \in Handlers |->
       IF job[h] = "snapshot" THEN Least(age[h] + 1, SnapshotTimeout) ELSE age[h]]
  /\ since' = [s \in Servers |-> IF phase[s] = "drain" THEN since[s] + 1 ELSE since[s]]
  /\ UNCHANGED <<schema, lock, phase, conf, pool, bound, last, job, faults>>

Main(s) ==
  \/ InitDuckDB(s) \/ InitPool(s) \/ OpenMigrator(s) \/ Up(s)
  \/ MarkDirty(s) \/ Apply(s) \/ MarkClean(s)
  \/ Notify(s) \/ Shutdown(s) \/ PoolClosed(s)

Next ==
  \/ \E s \in Servers :
       \/ \E c \in Configs : Load(s, c)
       \/ Main(s)
       \/ Listen(s)
       \/ MigrationStops(s)
       \/ Signal(s)
       \/ Killed(s)
       \/ EvictLoopPanics(s)
  \/ \E h \in Handlers :
       \/ \E j \in {"acquire", "snapshot", "exchange"} : Accept(h, j)
       \/ Acquire(h)
       \/ QueryEnds(h)
       \/ SnapshotEnds(h)
       \/ ExchangeEnds(h)
       \/ Reply(h)
  \/ Tick

\* The goroutines go on, the database answers, time passes, and the pool serves
\* those who wait in turn.  Nothing is promised of the snapshot service, which has
\* a timeout, nor of the OAuth providers, which have none, nor of the clients; nor
\* that anybody starts or stops a process.
Fairness ==
  /\ \A s \in Servers : WF_vars(Main(s)) /\ WF_vars(Listen(s))
  /\ \A h \in Handlers :
       SF_vars(Acquire(h)) /\ WF_vars(QueryEnds(h)) /\ WF_vars(Due(h) /\ SnapshotEnds(h))
  /\ WF_vars(Tick)

Spec == Init /\ [][Next]_vars
FairSpec == Spec /\ Fairness

-----------------------------------------------------------------------------
(* Properties.                                                             *)

\* A process that is past InitPostgres works on the whole schema and a clean one,
\* whatever other processes start, fail or are killed in the middle of; and
\* nothing was applied twice, or skipped.
ServesMigrated ==
  /\ \A s \in Servers :
       Serving(s) => schema = [applied |-> LastVersion, version |-> LastVersion,
                               dirty |-> FALSE]
  /\ schema.applied = schema.version \/ (schema.dirty /\ schema.applied + 1 = schema.version)

\* A stop by a signal cuts a request off only when the time of Shutdown was up.
GracefulStop ==
  \A s \in Servers :
    last[s].cause = "stopped" /\ last[s].cut # {} => last[s].waited = Grace

\* It never cuts off a request that waits for the snapshot service, whose timeout is
\* shorter.
SnapshotsOutliveStop ==
  \A s \in Servers : last[s].cause = "stopped" => "snapshot" \notin last[s].cut

\* A process that was told to stop does stop, also with a request that hangs.
StopEnds == \A s \in Servers : phase[s] = "drain" ~> phase[s] = "off"

\* A request that wants a connection gets on, with one or without, though all the
\* others hang at an OAuth provider, or at a client that does not read, for ever
\* and the pool is of one: what may hang holds no connection (oauth.go:75-84).
ConnectionComes == \A h \in Handlers : job[h] = "acquire" ~> job[h] # "acquire"

\* A process that is started once the faults are over, on a schema that no fault
\* has left dirty, listens; a second process of the kind as well as the first.
Usable(c) == Int32(c.maxConns) > 0 /\ c.ttl > 0

StartServes ==
  \A s \in Servers :
    (phase[s] = "duckdb" /\ Usable(conf[s]) /\ faults = MaxFaults /\ ~schema.dirty)
      ~> bound[s]
=============================================================================
