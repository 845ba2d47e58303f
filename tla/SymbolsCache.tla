----------------------------- MODULE SymbolsCache -----------------------------
(***************************************************************************)
(* GET /symbols (GetSymbols in internal/app/handlers.go): concurrent       *)
(* handlers read through the cache to the symbols table, which the batch   *)
(* jobs reload at any time.  Between a handler's query and its Set the     *)
(* table may change and other handlers may store what they read.           *)
(*                                                                         *)
(* MaxLatency bounds how long a handler takes from its query to its Set.   *)
(***************************************************************************)
EXTENDS ResponseCache

CONSTANTS
  Handlers,
  Symbols,
  Tables,      \* the contents the batch jobs load into the table
  ClassOf,     \* the asset class of each symbol
  AllClasses,  \* the key of a request without asset_class
  MaxLatency

ASSUME TablesAssumption == Tables \subseteq SUBSET Symbols
ASSUME ClassOfAssumption == \A s \in Symbols : ClassOf[s] # AllClasses
ASSUME AllClassesAssumption == AllClasses \in Keys
ASSUME MaxLatencyAssumption == MaxLatency \in Nat

VARIABLES
  table,      \* the symbols in the table
  lastSeen,   \* history: [former content of the table -> when it ceased]
  pc,         \* pc[h]: the call h is about to make
  key,        \* key[h]: the key of h's request
  symbols,    \* symbols[h]: what h read from the table
  queriedAt,  \* when it read it
  answer      \* what some handler last answered, in this tick of the clock

vars == <<cacheVars, table, lastSeen, pc, key, symbols, queriedAt, answer>>

NoAnswer == [status |-> "none", key |-> AllClasses, symbols |-> {}]
Found(k, v) == [status |-> "found", key |-> k, symbols |-> v]
NotFound(k) == [status |-> "not_found", key |-> k, symbols |-> {}]
QueryError(k) == [status |-> "query_error", key |-> k, symbols |-> {}]
Answers == [status : {"none", "found", "not_found", "query_error"},
            key : Keys, symbols : SUBSET Symbols]

TypeOK ==
  /\ now \in 0 .. MaxTime
  /\ DOMAIN entries \subseteq Keys
  /\ entries \in [DOMAIN entries -> [value : SUBSET Symbols, expiresAt : Nat]]
  /\ evictLoop \in {"waiting", "locking"}
  /\ nextTick \in Nat
  /\ sweepTime \in 0 .. MaxTime
  /\ table \in Tables
  /\ DOMAIN lastSeen \subseteq Tables
  /\ lastSeen \in [DOMAIN lastSeen -> 0 .. MaxTime]
  /\ pc \in [Handlers -> {"idle", "query", "set"}]
  /\ key \in [Handlers -> Keys]
  /\ symbols \in [Handlers -> SUBSET Symbols]
  /\ queriedAt \in [Handlers -> 0 .. MaxTime]
  /\ answer \in Answers
  /\ \A h \in Handlers : pc[h] = "set" => symbols[h] # {}

Init ==
  /\ CacheInit
  /\ table \in Tables
  /\ lastSeen = [T \in {} |-> 0]
  /\ pc = [h \in Handlers |-> "idle"]
  /\ key = [h \in Handlers |-> AllClasses]
  /\ symbols = [h \in Handlers |-> {}]
  /\ queriedAt = [h \in Handlers |-> 0]
  /\ answer = NoAnswer

\* QuerySymbolsPG: the rows of a class, or all of them.
Select(T, k) == {s \in T : k = AllClasses \/ ClassOf[s] = k}

\* h answers and forgets its request.
Answer(h, a) ==
  /\ answer' = a
  /\ pc' = [pc EXCEPT ![h] = "idle"]
  /\ key' = [key EXCEPT ![h] = AllClasses]
  /\ symbols' = [symbols EXCEPT ![h] = {}]
  /\ queriedAt' = [queriedAt EXCEPT ![h] = 0]

GetSymbols(h, k) ==
  /\ pc[h] = "idle"
  /\ IF Hit(k)
       THEN Answer(h, Found(k, entries[k].value))
       ELSE /\ pc' = [pc EXCEPT ![h] = "query"]
            /\ key' = [key EXCEPT ![h] = k]
            /\ UNCHANGED <<symbols, queriedAt, answer>>
  /\ UNCHANGED <<cacheVars, table, lastSeen>>

\* Mutant: GetSymbols does not look whether anything was found.
QueryWithoutEmptyCheck(h) ==
  /\ pc[h] = "query"
  /\ pc' = [pc EXCEPT ![h] = "set"]
  /\ symbols' = [symbols EXCEPT ![h] = Select(table, key[h])]
  /\ queriedAt' = [queriedAt EXCEPT ![h] = now]
  /\ UNCHANGED <<cacheVars, table, lastSeen, key, answer>>

\* The query fails, finds nothing, which is not cached, or finds symbols.
QuerySymbols(h) ==
  /\ pc[h] = "query"
  /\ LET found == Select(table, key[h])
     IN  \/ Answer(h, QueryError(key[h]))
         \/ found = {} /\ Answer(h, NotFound(key[h]))
         \/ /\ found # {}
            /\ pc' = [pc EXCEPT ![h] = "set"]
            /\ symbols' = [symbols EXCEPT ![h] = found]
            /\ queriedAt' = [queriedAt EXCEPT ![h] = now]
            /\ UNCHANGED <<key, answer>>
  /\ UNCHANGED <<cacheVars, table, lastSeen>>

StoreSymbols(h) ==
  /\ pc[h] = "set"
  /\ Set(key[h], symbols[h])
  /\ Answer(h, Found(key[h], symbols[h]))
  /\ UNCHANGED <<table, lastSeen>>

\* A batch job reloads the table.
Reload(T) ==
  /\ T # table
  /\ table' = T
  /\ lastSeen' = [U \in DOMAIN lastSeen \cup {table} |->
                    IF U = table THEN now ELSE lastSeen[U]]
  /\ UNCHANGED <<cacheVars, pc, key, symbols, queriedAt, answer>>

Evict ==
  /\ WakeUp \/ Sweep
  /\ UNCHANGED <<table, lastSeen, pc, key, symbols, queriedAt, answer>>

TimePasses ==
  /\ Tick
  /\ \A h \in Handlers : pc[h] = "set" => now < queriedAt[h] + MaxLatency
  /\ answer' = NoAnswer
  /\ UNCHANGED <<table, lastSeen, pc, key, symbols, queriedAt>>

Next ==
  \/ \E h \in Handlers :
       \/ \E k \in Keys : GetSymbols(h, k)
       \/ QuerySymbols(h)
       \/ StoreSymbols(h)
  \/ \E T \in Tables : Reload(T)
  \/ Evict
  \/ TimePasses

Spec == Init /\ [][Next]_vars

-----------------------------------------------------------------------------
(* Properties.                                                             *)

\* T was the content of the table at some moment of the last d ticks.
CurrentWithin(T, d) ==
  T = table \/ (T \in DOMAIN lastSeen /\ now <= lastSeen[T] + d)

\* The symbols a client is given were the table's at most a TTL and one
\* handler's latency ago: a late Set of an old read prolongs an old list by that
\* latency and no more, however queries, Sets, reloads and sweeps interleave.
ServedIsRecent ==
  answer.status = "found" =>
    \E T \in Tables :
      /\ Select(T, answer.key) = answer.symbols
      /\ CurrentWithin(T, TTL + MaxLatency)

\* A 404 is never cached: the class had no symbol at the instant of the answer.
\* And a 200 always has symbols.
NotFoundIsCurrent ==
  /\ answer.status = "found" => answer.symbols # {}
  /\ answer.status = "not_found" =>
       \E T \in Tables : Select(T, answer.key) = {} /\ CurrentWithin(T, 0)
=============================================================================
