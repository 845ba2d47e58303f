-------------------------- MODULE SymbolsCacheProofs --------------------------
(***************************************************************************)
(* What GetSymbols serves, and what the cache keeps, for any number of     *)
(* handlers, symbols, contents of the table and keys, any TTL, and any     *)
(* lag of evictLoop and latency of a handler.                              *)
(***************************************************************************)
EXTENDS SymbolsCache, TLAPS

\* evictLoop follows its ticker: no tick is handled before it is due, nor more than
\* MaxLag after; and an entry outlives no tick but the first after it expired.
CacheInv ==
  /\ nextTick <= now + TTL
  /\ now <= DueTick + MaxLag
  /\ sweepTime <= now
  /\ evictLoop = "locking" => nextTick - TTL <= sweepTime
  /\ \A k \in DOMAIN entries :
       /\ entries[k].expiresAt <= now + TTL
       /\ DueTick <= entries[k].expiresAt + TTL

\* T was the content of the table at t or later.
SeenAt(T, t) == T = table \/ (T \in DOMAIN lastSeen /\ t <= lastSeen[T])

\* An entry has symbols the table had at most a TTL and a latency before it expires.
EntryFrom(k, T) ==
  /\ Select(T, k) = entries[k].value
  /\ SeenAt(T, entries[k].expiresAt - TTL - MaxLatency)

EntriesInv ==
  \A k \in DOMAIN entries : entries[k].value # {} /\ \E T \in Tables : EntryFrom(k, T)

\* What a handler is about to store is what it read, a latency ago at most.
ReadFrom(h, T) == Select(T, key[h]) = symbols[h] /\ SeenAt(T, queriedAt[h])

ReadsInv ==
  \A h \in Handlers : pc[h] = "set" =>
    /\ queriedAt[h] <= now /\ now <= queriedAt[h] + MaxLatency
    /\ \E T \in Tables : ReadFrom(h, T)

IInv ==
  /\ TypeOK /\ CacheInv /\ EntriesInv /\ ReadsInv
  /\ ServedIsRecent /\ NotFoundIsCurrent

LEMMA InvInit == Init => IInv
<1> SUFFICES ASSUME Init PROVE IInv
  OBVIOUS
<1>1. TypeOK
  BY TTLAssumption, MaxTimeAssumption, AllClassesAssumption
     DEF Init, CacheInit, TypeOK, NoAnswer, Answers
<1>2. CacheInv /\ EntriesInv /\ ReadsInv
  BY TTLAssumption, MaxLagAssumption
     DEF Init, CacheInit, CacheInv, EntriesInv, ReadsInv, DueTick
<1>3. ServedIsRecent /\ NotFoundIsCurrent
  BY DEF Init, NoAnswer, ServedIsRecent, NotFoundIsCurrent
<1> QED BY <1>1, <1>2, <1>3 DEF IInv

-----------------------------------------------------------------------------
(* The cache.                                                              *)

LEMMA SetFacts ==
  ASSUME TypeOK, CacheInv, NEW k \in Keys, NEW v \in SUBSET Symbols, Set(k, v)
  PROVE  /\ DOMAIN entries' = DOMAIN entries \cup {k}
         /\ entries'[k] = [value |-> v, expiresAt |-> now + TTL]
         /\ \A j \in DOMAIN entries \ {k} : entries'[j] = entries[j]
         /\ entries' \in [DOMAIN entries' -> [value : SUBSET Symbols, expiresAt : Nat]]
         /\ UNCHANGED <<now, evictLoop, nextTick, sweepTime>>
         /\ CacheInv'
<1>1. /\ DOMAIN entries' = DOMAIN entries \cup {k}
      /\ entries'[k] = [value |-> v, expiresAt |-> now + TTL]
      /\ \A j \in DOMAIN entries \ {k} : entries'[j] = entries[j]
      /\ UNCHANGED <<now, evictLoop, nextTick, sweepTime>>
  BY DEF Set
<1>2. now \in Nat /\ TTL \in Nat /\ nextTick \in Nat
  BY TTLAssumption, MaxTimeAssumption DEF TypeOK
<1>3. entries' \in [DOMAIN entries' -> [value : SUBSET Symbols, expiresAt : Nat]]
  BY <1>2 DEF Set, TypeOK
<1>4. DueTick \in Int /\ DueTick <= now + TTL /\ DueTick' = DueTick
  BY <1>1, <1>2 DEF CacheInv, DueTick
<1>5. \A j \in DOMAIN entries' : /\ entries'[j].expiresAt <= now + TTL
                                /\ DueTick <= entries'[j].expiresAt + TTL
  <2> TAKE j \in DOMAIN entries'
  <2>1. CASE j = k
    BY <1>1, <1>2, <1>4, <2>1
  <2>2. CASE j # k
    BY <1>1, <2>2 DEF CacheInv
  <2> QED BY <2>1, <2>2
<1>6. CacheInv'
  BY <1>1, <1>4, <1>5 DEF CacheInv
<1> QED BY <1>1, <1>3, <1>6

LEMMA WakeUpFacts ==
  ASSUME TypeOK, CacheInv, WakeUp
  PROVE  /\ UNCHANGED <<now, entries>>
         /\ evictLoop' \in {"waiting", "locking"} /\ nextTick' \in Nat
         /\ sweepTime' \in 0 .. MaxTime
         /\ CacheInv'
<1>1. /\ evictLoop = "waiting" /\ nextTick <= now /\ evictLoop' = "locking"
      /\ nextTick' = nextTick + TTL /\ sweepTime' = now
      /\ UNCHANGED <<now, entries>>
  BY MaxTimeAssumption DEF WakeUp, TypeOK
<1>2. now \in 0 .. MaxTime /\ TTL \in Nat /\ nextTick \in Nat
  BY TTLAssumption DEF TypeOK
<1>3. DueTick' = DueTick
  BY <1>1, <1>2 DEF DueTick
<1>4. CacheInv'
  BY <1>1, <1>2, <1>3, MaxTimeAssumption DEF CacheInv
<1> QED BY <1>1, <1>2, <1>4

LEMMA SweepFacts ==
  ASSUME TypeOK, CacheInv, Sweep
  PROVE  /\ UNCHANGED <<now, nextTick>>
         /\ evictLoop' = "waiting" /\ sweepTime' = 0
         /\ \A k \in DOMAIN entries : now <= entries[k].expiresAt => k \in DOMAIN entries'
         /\ DOMAIN entries' \subseteq DOMAIN entries
         /\ \A k \in DOMAIN entries' : entries'[k] = entries[k]
         /\ entries' \in [DOMAIN entries' -> [value : SUBSET Symbols, expiresAt : Nat]]
         /\ CacheInv'
<1> DEFINE kept == {k \in DOMAIN entries : ~(sweepTime > entries[k].expiresAt)}
<1>1. /\ evictLoop = "locking" /\ evictLoop' = "waiting" /\ sweepTime' = 0
      /\ entries' = [k \in kept |-> entries[k]]
      /\ UNCHANGED <<now, nextTick>>
  BY DEF Sweep, Restrict
<1>2. /\ now \in 0 .. MaxTime /\ sweepTime \in 0 .. MaxTime /\ nextTick \in Nat
      /\ TTL \in Nat /\ MaxLag \in Nat
      /\ \A k \in DOMAIN entries : entries[k].expiresAt \in Nat
  BY TTLAssumption, MaxLagAssumption DEF TypeOK
<1>3. /\ DOMAIN entries' = kept
      /\ \A k \in kept : entries'[k] = entries[k]
      /\ \A k \in kept : sweepTime <= entries[k].expiresAt
  BY <1>1, <1>2, MaxTimeAssumption
<1>4. entries' \in [DOMAIN entries' -> [value : SUBSET Symbols, expiresAt : Nat]]
  BY <1>1 DEF TypeOK
<1>5. \A k \in DOMAIN entries : now <= entries[k].expiresAt => k \in kept
  BY <1>2, MaxTimeAssumption DEF CacheInv
<1>6. CacheInv'
  <2>1. DueTick' = nextTick /\ DueTick = nextTick - TTL
    BY <1>1 DEF DueTick
  <2>2. \A k \in kept : nextTick <= entries[k].expiresAt + TTL
    BY <1>1, <1>2, <1>3, MaxTimeAssumption DEF CacheInv
  <2>3. \A k \in kept : entries[k].expiresAt <= now + TTL
    BY DEF CacheInv
  <2>4. nextTick <= now + TTL /\ now <= nextTick + MaxLag
    BY <1>1, <1>2, <2>1, MaxTimeAssumption DEF CacheInv
  <2> HIDE DEF kept
  <2> QED BY <1>1, <1>2, <1>3, <2>1, <2>2, <2>3, <2>4 DEF CacheInv
<1> QED BY <1>1, <1>3, <1>4, <1>5, <1>6

LEMMA TickFacts ==
  ASSUME TypeOK, CacheInv, Tick
  PROVE  /\ now' = now + 1 /\ now' \in 0 .. MaxTime
         /\ UNCHANGED <<entries, evictLoop, nextTick, sweepTime>>
         /\ CacheInv'
<1>1. /\ now < MaxTime /\ now < DueTick + MaxLag /\ now' = now + 1
      /\ UNCHANGED <<entries, evictLoop, nextTick, sweepTime>>
  BY DEF Tick
<1>2. /\ now \in 0 .. MaxTime /\ sweepTime \in 0 .. MaxTime /\ nextTick \in Nat
      /\ TTL \in Nat /\ MaxLag \in Nat
      /\ \A k \in DOMAIN entries : entries[k].expiresAt \in Nat
  BY TTLAssumption, MaxLagAssumption DEF TypeOK
<1>3. DueTick' = DueTick /\ DueTick \in Int
  BY <1>1, <1>2 DEF DueTick
<1>4. CacheInv'
  BY <1>1, <1>2, <1>3, MaxTimeAssumption DEF CacheInv
<1> QED BY <1>1, <1>2, <1>4, MaxTimeAssumption

-----------------------------------------------------------------------------
(* The handlers.                                                           *)

\* The type of what an answer changes.
LEMMA AnswerFacts ==
  ASSUME TypeOK, NEW h \in Handlers, NEW a \in Answers, Answer(h, a)
  PROVE  /\ answer' = a
         /\ pc' \in [Handlers -> {"idle", "query", "set"}]
         /\ key' \in [Handlers -> Keys]
         /\ symbols' \in [Handlers -> SUBSET Symbols]
         /\ queriedAt' \in [Handlers -> 0 .. MaxTime]
         /\ \A g \in Handlers : pc'[g] = "set" =>
              /\ pc[g] = "set" /\ key'[g] = key[g]
              /\ symbols'[g] = symbols[g] /\ queriedAt'[g] = queriedAt[g]
BY AllClassesAssumption, MaxTimeAssumption DEF TypeOK, Answer

\* After an answer, with the table and the clock as they were.
LEMMA AnswerKeepsInv ==
  ASSUME IInv, NEW h \in Handlers, NEW a \in Answers, Answer(h, a),
         UNCHANGED <<now, table, lastSeen>>,
         evictLoop' \in {"waiting", "locking"}, nextTick' \in Nat,
         sweepTime' \in 0 .. MaxTime, DOMAIN entries' \subseteq Keys,
         entries' \in [DOMAIN entries' -> [value : SUBSET Symbols, expiresAt : Nat]]
  PROVE  TypeOK' /\ ReadsInv'
<1>1. TypeOK /\ ReadsInv
  BY DEF IInv
<1>2. /\ answer' \in Answers
      /\ pc' \in [Handlers -> {"idle", "query", "set"}]
      /\ key' \in [Handlers -> Keys]
      /\ symbols' \in [Handlers -> SUBSET Symbols]
      /\ queriedAt' \in [Handlers -> 0 .. MaxTime]
      /\ \A g \in Handlers : pc'[g] = "set" =>
           /\ pc[g] = "set" /\ key'[g] = key[g]
           /\ symbols'[g] = symbols[g] /\ queriedAt'[g] = queriedAt[g]
  BY <1>1, AnswerFacts
<1>3. TypeOK'
  BY <1>1, <1>2 DEF TypeOK
<1>4. ReadsInv'
  <2> SUFFICES ASSUME NEW g \in Handlers, pc'[g] = "set"
               PROVE  /\ queriedAt'[g] <= now /\ now <= queriedAt'[g] + MaxLatency
                      /\ \E T \in Tables : ReadFrom(g, T)'
    BY DEF ReadsInv
  <2>1. /\ queriedAt[g] <= now /\ now <= queriedAt[g] + MaxLatency
        /\ \E T \in Tables : ReadFrom(g, T)
    BY <1>1, <1>2 DEF ReadsInv
  <2> QED BY <1>2, <2>1 DEF ReadFrom, SeenAt, Select
<1> QED BY <1>3, <1>4

LEMMA GetSymbolsKeepsInv ==
  ASSUME IInv, NEW h \in Handlers, NEW k \in Keys, GetSymbols(h, k)
  PROVE  IInv'
<1>0. TypeOK /\ CacheInv /\ EntriesInv /\ ReadsInv /\ ServedIsRecent /\ NotFoundIsCurrent
  BY DEF IInv
<1>1. UNCHANGED <<cacheVars, table, lastSeen>>
  BY DEF GetSymbols
<1>2. CacheInv' /\ EntriesInv'
  BY <1>0, <1>1 DEF cacheVars, CacheInv, DueTick, EntriesInv, EntryFrom, SeenAt, Select
<1>3. CASE Hit(k) /\ Answer(h, Found(k, entries[k].value))
  <2>1. /\ k \in DOMAIN entries /\ entries[k].value \in SUBSET Symbols
        /\ entries[k].expiresAt \in Nat /\ now <= entries[k].expiresAt
        /\ now \in Nat /\ TTL \in Nat /\ MaxLatency \in Nat
    BY <1>0, <1>3, TTLAssumption, MaxLatencyAssumption, MaxTimeAssumption DEF TypeOK, Hit
  <2>2. Found(k, entries[k].value) \in Answers
    BY <2>1 DEF Found, Answers
  <2>3. TypeOK' /\ ReadsInv'
    BY <1>0, <1>1, <1>3, <2>2, AnswerKeepsInv DEF cacheVars, TypeOK
  <2>4. answer' = Found(k, entries[k].value)
    BY <1>3 DEF Answer
  <2>5. PICK T \in Tables : EntryFrom(k, T)
    BY <1>0, <2>1 DEF EntriesInv
  <2>6. Select(T, k) = entries[k].value /\ CurrentWithin(T, TTL + MaxLatency)
    <3>1. T \in DOMAIN lastSeen => lastSeen[T] \in Nat
      BY <1>0, MaxTimeAssumption DEF TypeOK
    <3> QED BY <2>1, <2>5, <3>1 DEF EntryFrom, SeenAt, CurrentWithin
  <2>7. ServedIsRecent'
    BY <1>1, <2>4, <2>6 DEF ServedIsRecent, CurrentWithin, Select, Found, cacheVars
  <2>8. NotFoundIsCurrent'
    BY <1>0, <2>1, <2>4 DEF NotFoundIsCurrent, EntriesInv, Found
  <2> QED BY <1>2, <2>3, <2>7, <2>8 DEF IInv
<1>4. CASE /\ pc[h] = "idle"
           /\ pc' = [pc EXCEPT ![h] = "query"] /\ key' = [key EXCEPT ![h] = k]
           /\ UNCHANGED <<symbols, queriedAt, answer>>
  <2>1. \A g \in Handlers : pc'[g] = "set" => pc[g] = "set" /\ key'[g] = key[g]
    BY <1>0, <1>4 DEF TypeOK
  <2>2. TypeOK'
    <3>1. pc' \in [Handlers -> {"idle", "query", "set"}] /\ key' \in [Handlers -> Keys]
      BY <1>0, <1>4 DEF TypeOK
    <3> QED BY <1>0, <1>1, <1>4, <2>1, <3>1 DEF TypeOK, cacheVars
  <2>3. ReadsInv'
    BY <1>0, <1>1, <1>4, <2>1 DEF ReadsInv, ReadFrom, SeenAt, Select, cacheVars
  <2>4. ServedIsRecent' /\ NotFoundIsCurrent'
    BY <1>0, <1>1, <1>4
       DEF ServedIsRecent, NotFoundIsCurrent, CurrentWithin, Select, cacheVars
  <2> QED BY <1>2, <2>2, <2>3, <2>4 DEF IInv
<1> QED BY <1>3, <1>4 DEF GetSymbols

LEMMA QuerySymbolsKeepsInv ==
  ASSUME IInv, NEW h \in Handlers, QuerySymbols(h)
  PROVE  IInv'
<1>0. TypeOK /\ CacheInv /\ EntriesInv /\ ReadsInv /\ ServedIsRecent /\ NotFoundIsCurrent
  BY DEF IInv
<1>1. UNCHANGED <<cacheVars, table, lastSeen>> /\ pc[h] = "query"
  BY DEF QuerySymbols
<1>2. CacheInv' /\ EntriesInv'
  BY <1>0, <1>1 DEF cacheVars, CacheInv, DueTick, EntriesInv, EntryFrom, SeenAt, Select
<1> DEFINE found == Select(table, key[h])
<1>3. /\ key[h] \in Keys /\ table \in Tables /\ found \in SUBSET Symbols
      /\ now \in 0 .. MaxTime
  BY <1>0, TablesAssumption DEF TypeOK, Select
<1>4. ASSUME NEW a \in {QueryError(key[h]), NotFound(key[h])}, Answer(h, a),
             a = NotFound(key[h]) => found = {}
      PROVE  IInv'
  <2>1. a \in Answers /\ a.status # "found" /\ a.key = key[h]
        /\ (a.status = "not_found" => found = {})
    BY <1>3, <1>4 DEF Answers, QueryError, NotFound
  <2>2. TypeOK' /\ ReadsInv'
    BY <1>0, <1>1, <1>4, <2>1, AnswerKeepsInv DEF cacheVars, TypeOK
  <2>3. answer' = a
    BY <1>4 DEF Answer
  <2>4. ServedIsRecent'
    BY <2>1, <2>3 DEF ServedIsRecent
  <2>5. NotFoundIsCurrent'
    <3> SUFFICES ASSUME a.status = "not_found"
                 PROVE  \E T \in Tables : Select(T, answer.key)' = {} /\ CurrentWithin(T, 0)'
      BY <2>1, <2>3 DEF NotFoundIsCurrent
    <3>1. Select(table, answer.key)' = {} /\ CurrentWithin(table, 0)'
      BY <1>1, <2>1, <2>3 DEF CurrentWithin, Select
    <3> QED BY <1>1, <1>3, <3>1
  <2> QED BY <1>2, <2>2, <2>4, <2>5 DEF IInv
<1>5. CASE /\ found # {}
           /\ pc' = [pc EXCEPT ![h] = "set"] /\ symbols' = [symbols EXCEPT ![h] = found]
           /\ queriedAt' = [queriedAt EXCEPT ![h] = now]
           /\ UNCHANGED <<key, answer>>
  <2> HIDE DEF found
  <2>1. /\ pc'[h] = "set" /\ symbols'[h] = found /\ queriedAt'[h] = now
        /\ \A g \in Handlers \ {h} :
             /\ pc'[g] = pc[g] /\ symbols'[g] = symbols[g] /\ queriedAt'[g] = queriedAt[g]
    BY <1>0, <1>5 DEF TypeOK
  <2>2. TypeOK'
    <3>1. /\ pc' \in [Handlers -> {"idle", "query", "set"}]
          /\ symbols' \in [Handlers -> SUBSET Symbols]
          /\ queriedAt' \in [Handlers -> 0 .. MaxTime]
      BY <1>0, <1>3, <1>5 DEF TypeOK
    <3> QED BY <1>0, <1>1, <1>5, <2>1, <3>1 DEF TypeOK, cacheVars
  <2>3. ReadsInv'
    <3>1. now <= now + MaxLatency /\ now <= now
      BY <1>3, MaxTimeAssumption, MaxLatencyAssumption
    <3>2. ReadFrom(h, table)'
      BY <1>1, <1>5, <2>1 DEF ReadFrom, SeenAt, Select, found
    <3> QED BY <1>0, <1>1, <1>3, <1>5, <2>1, <3>1, <3>2
            DEF ReadsInv, ReadFrom, SeenAt, Select, cacheVars
  <2>4. ServedIsRecent' /\ NotFoundIsCurrent'
    BY <1>0, <1>1, <1>5
       DEF ServedIsRecent, NotFoundIsCurrent, CurrentWithin, Select, cacheVars
  <2> QED BY <1>2, <2>2, <2>3, <2>4 DEF IInv
<1> QED
  <2>1. CASE Answer(h, QueryError(key[h]))
    BY <1>4, <2>1 DEF QueryError, NotFound
  <2>2. CASE found = {} /\ Answer(h, NotFound(key[h]))
    BY <1>4, <2>2
  <2> QED BY <1>5, <2>1, <2>2 DEF QuerySymbols

LEMMA StoreSymbolsKeepsInv ==
  ASSUME IInv, NEW h \in Handlers, StoreSymbols(h)
  PROVE  IInv'
<1>0. TypeOK /\ CacheInv /\ EntriesInv /\ ReadsInv /\ ServedIsRecent /\ NotFoundIsCurrent
  BY DEF IInv
<1> DEFINE k == key[h]
           v == symbols[h]
<1>1. /\ pc[h] = "set" /\ Set(k, v) /\ Answer(h, Found(k, v))
      /\ UNCHANGED <<table, lastSeen>>
  BY DEF StoreSymbols
<1>2. k \in Keys /\ v \in SUBSET Symbols /\ v # {} /\ Found(k, v) \in Answers
  BY <1>0, <1>1 DEF TypeOK, Found, Answers
<1>3. PICK T \in Tables : Select(T, k) = v /\ SeenAt(T, queriedAt[h])
  BY <1>0, <1>1 DEF ReadsInv, ReadFrom
<1>4. /\ now \in Nat /\ queriedAt[h] \in Nat /\ TTL \in Nat /\ MaxLatency \in Nat
      /\ queriedAt[h] <= now /\ now <= queriedAt[h] + MaxLatency
      /\ T \in DOMAIN lastSeen => lastSeen[T] \in Nat
  BY <1>0, <1>1, TTLAssumption, MaxLatencyAssumption, MaxTimeAssumption DEF TypeOK, ReadsInv
<1> HIDE DEF k, v
<1>5. /\ DOMAIN entries' = DOMAIN entries \cup {k}
      /\ entries'[k] = [value |-> v, expiresAt |-> now + TTL]
      /\ \A j \in DOMAIN entries \ {k} : entries'[j] = entries[j]
      /\ entries' \in [DOMAIN entries' -> [value : SUBSET Symbols, expiresAt : Nat]]
      /\ UNCHANGED <<now, evictLoop, nextTick, sweepTime>>
      /\ CacheInv'
  BY <1>0, <1>1, <1>2, SetFacts
<1>6. TypeOK' /\ ReadsInv'
  BY <1>0, <1>1, <1>2, <1>5, AnswerKeepsInv DEF TypeOK
<1>7. EntriesInv'
  <2> SUFFICES ASSUME NEW j \in DOMAIN entries'
               PROVE  entries'[j].value # {} /\ \E U \in Tables : EntryFrom(j, U)'
    BY DEF EntriesInv
  <2>1. CASE j = k
    <3>1. entries'[j].value = v /\ entries'[j].expiresAt - TTL - MaxLatency <= queriedAt[h]
      BY <1>4, <1>5, <2>1
    <3>2. entries'[j].expiresAt - TTL - MaxLatency \in Int
      BY <1>4, <1>5, <2>1
    <3>3. Select(T, j) = entries'[j].value
      BY <1>3, <2>1, <3>1
    <3>4. SeenAt(T, entries[j].expiresAt - TTL - MaxLatency)'
      BY <1>1, <1>3, <1>4, <3>1, <3>2 DEF SeenAt
    <3>5. EntryFrom(j, T)'
      BY <3>3, <3>4 DEF EntryFrom, Select
    <3> QED BY <1>2, <3>1, <3>5
  <2>2. CASE j # k
    BY <1>0, <1>1, <1>5, <2>2 DEF EntriesInv, EntryFrom, SeenAt, Select
  <2> QED BY <2>1, <2>2
<1>8. answer' = Found(k, v)
  BY <1>1 DEF Answer
<1>9. ServedIsRecent'
  <2>1. CurrentWithin(T, TTL + MaxLatency)'
    BY <1>1, <1>3, <1>4, <1>5 DEF SeenAt, CurrentWithin
  <2> QED BY <1>3, <1>8, <2>1 DEF ServedIsRecent, Found, Select
<1>10. NotFoundIsCurrent'
  BY <1>2, <1>8 DEF NotFoundIsCurrent, Found
<1> QED BY <1>5, <1>6, <1>7, <1>9, <1>10 DEF IInv

-----------------------------------------------------------------------------
(* The table, evictLoop and time.                                          *)

LEMMA ReloadKeepsInv ==
  ASSUME IInv, NEW T \in Tables, Reload(T)
  PROVE  IInv'
<1>0. TypeOK /\ CacheInv /\ EntriesInv /\ ReadsInv /\ ServedIsRecent /\ NotFoundIsCurrent
  BY DEF IInv
<1>1. /\ table' = T
      /\ UNCHANGED <<now, entries, evictLoop, nextTick, sweepTime, pc, key, symbols,
                     queriedAt, answer>>
      /\ lastSeen' = [U \in DOMAIN lastSeen \cup {table} |->
                        IF U = table THEN now ELSE lastSeen[U]]
  BY DEF Reload, cacheVars
<1>2. /\ now \in Nat /\ TTL \in Nat /\ MaxLatency \in Nat
      /\ \A k \in DOMAIN entries : entries[k].expiresAt \in Nat
      /\ \A h \in Handlers : queriedAt[h] \in Nat
  BY <1>0, TTLAssumption, MaxLatencyAssumption, MaxTimeAssumption DEF TypeOK
<1>3. TypeOK'
  BY <1>0, <1>1, MaxTimeAssumption DEF TypeOK
<1>4. CacheInv'
  BY <1>0, <1>1 DEF CacheInv, DueTick
<1>5. EntriesInv'
  <2> SUFFICES ASSUME NEW k \in DOMAIN entries
               PROVE  entries[k].value # {} /\ \E U \in Tables : EntryFrom(k, U)'
    BY <1>1 DEF EntriesInv
  <2>1. PICK U \in Tables : EntryFrom(k, U)
    BY <1>0 DEF EntriesInv
  <2> DEFINE t == entries[k].expiresAt - TTL - MaxLatency
  <2>2. t \in Int /\ t <= now
    BY <1>0, <1>2 DEF CacheInv
  <2>3. SeenAt(U, t)
    BY <2>1 DEF EntryFrom
  <2>4. SeenAt(U, t)'
    <3> HIDE DEF t
    <3>1. t' = t
      BY <1>1 DEF t
    <3> QED BY <1>0, <1>1, <2>2, <2>3, <3>1 DEF SeenAt
  <2>5. EntryFrom(k, U)'
    BY <1>1, <2>1, <2>4 DEF EntryFrom, Select
  <2> QED BY <1>0, <2>5 DEF EntriesInv
<1>6. ReadsInv'
  <2> SUFFICES ASSUME NEW h \in Handlers, pc[h] = "set"
               PROVE  \E U \in Tables : ReadFrom(h, U)'
    BY <1>0, <1>1 DEF ReadsInv
  <2>1. PICK U \in Tables : ReadFrom(h, U)
    BY <1>0 DEF ReadsInv
  <2>2. queriedAt[h] <= now
    BY <1>0 DEF ReadsInv
  <2>3. ReadFrom(h, U)'
    BY <1>1, <1>2, <2>1, <2>2 DEF ReadFrom, SeenAt, Select
  <2> QED BY <2>3
<1>7. \A U \in Tables : \A d \in Nat : CurrentWithin(U, d) => CurrentWithin(U, d)'
  BY <1>1, <1>2 DEF CurrentWithin
<1>8. ServedIsRecent'
  <2>1. \A U \in Tables : CurrentWithin(U, TTL + MaxLatency) => CurrentWithin(U, TTL + MaxLatency)'
    BY <1>2, <1>7
  <2> QED BY <1>0, <1>1, <2>1 DEF ServedIsRecent, Select
<1>9. NotFoundIsCurrent'
  BY <1>0, <1>1, <1>7 DEF NotFoundIsCurrent, Select
<1> QED BY <1>3, <1>4, <1>5, <1>6, <1>8, <1>9 DEF IInv

LEMMA EvictKeepsInv ==
  ASSUME IInv, Evict
  PROVE  IInv'
<1>0. TypeOK /\ CacheInv /\ EntriesInv /\ ReadsInv /\ ServedIsRecent /\ NotFoundIsCurrent
  BY DEF IInv
<1>1. /\ WakeUp \/ Sweep
      /\ UNCHANGED <<table, lastSeen, pc, key, symbols, queriedAt, answer>>
  BY DEF Evict
<1>2. /\ now' = now /\ CacheInv'
      /\ evictLoop' \in {"waiting", "locking"} /\ nextTick' \in Nat
      /\ sweepTime' \in 0 .. MaxTime
      /\ DOMAIN entries' \subseteq DOMAIN entries
      /\ \A k \in DOMAIN entries' : entries'[k] = entries[k]
      /\ entries' \in [DOMAIN entries' -> [value : SUBSET Symbols, expiresAt : Nat]]
  <2>1. CASE WakeUp
    BY <1>0, <2>1, WakeUpFacts DEF TypeOK
  <2>2. CASE Sweep
    BY <1>0, <2>2, SweepFacts, MaxTimeAssumption DEF TypeOK
  <2> QED BY <1>1, <2>1, <2>2
<1>3. TypeOK'
  BY <1>0, <1>1, <1>2 DEF TypeOK
<1>4. EntriesInv'
  BY <1>0, <1>1, <1>2 DEF EntriesInv, EntryFrom, SeenAt, Select
<1>5. ReadsInv'
  BY <1>0, <1>1, <1>2 DEF ReadsInv, ReadFrom, SeenAt, Select
<1>6. ServedIsRecent' /\ NotFoundIsCurrent'
  BY <1>0, <1>1, <1>2 DEF ServedIsRecent, NotFoundIsCurrent, CurrentWithin, Select
<1> QED BY <1>2, <1>3, <1>4, <1>5, <1>6 DEF IInv

LEMMA TimePassesKeepsInv ==
  ASSUME IInv, TimePasses
  PROVE  IInv'
<1>0. TypeOK /\ CacheInv /\ EntriesInv /\ ReadsInv
  BY DEF IInv
<1>1. /\ Tick /\ answer' = NoAnswer
      /\ \A h \in Handlers : pc[h] = "set" => now < queriedAt[h] + MaxLatency
      /\ UNCHANGED <<table, lastSeen, pc, key, symbols, queriedAt>>
  BY DEF TimePasses
<1>2. /\ now' = now + 1 /\ now' \in 0 .. MaxTime /\ CacheInv'
      /\ UNCHANGED <<entries, evictLoop, nextTick, sweepTime>>
  BY <1>0, <1>1, TickFacts
<1>3. TypeOK'
  BY <1>0, <1>1, <1>2, AllClassesAssumption DEF TypeOK, NoAnswer, Answers
<1>4. EntriesInv'
  BY <1>0, <1>1, <1>2 DEF EntriesInv, EntryFrom, SeenAt, Select
<1>5. ReadsInv'
  <2>1. /\ now \in Nat /\ MaxLatency \in Nat
        /\ \A h \in Handlers : queriedAt[h] \in Nat
    BY <1>0, MaxTimeAssumption, MaxLatencyAssumption DEF TypeOK
  <2>2. \A h \in Handlers : pc[h] = "set" =>
          queriedAt[h] <= now' /\ now' <= queriedAt[h] + MaxLatency
    BY <1>0, <1>1, <1>2, <2>1 DEF ReadsInv
  <2> QED BY <1>0, <1>1, <2>2 DEF ReadsInv, ReadFrom, SeenAt, Select
<1>6. ServedIsRecent' /\ NotFoundIsCurrent'
  BY <1>1 DEF ServedIsRecent, NotFoundIsCurrent, NoAnswer
<1> QED BY <1>2, <1>3, <1>4, <1>5, <1>6 DEF IInv

-----------------------------------------------------------------------------
(* Theorems.                                                               *)

LEMMA StutterKeepsInv ==
  ASSUME IInv, UNCHANGED vars
  PROVE  IInv'
BY DEF vars, cacheVars, IInv, TypeOK, CacheInv, DueTick, EntriesInv, EntryFrom, ReadsInv,
       ReadFrom, SeenAt, Select, ServedIsRecent, NotFoundIsCurrent, CurrentWithin

LEMMA InvStep == IInv /\ [Next]_vars => IInv'
<1> SUFFICES ASSUME IInv, [Next]_vars PROVE IInv'
  OBVIOUS
<1>1. ASSUME NEW h \in Handlers, NEW k \in Keys, GetSymbols(h, k) PROVE IInv'
  BY <1>1, GetSymbolsKeepsInv
<1>2. ASSUME NEW h \in Handlers, QuerySymbols(h) PROVE IInv'
  BY <1>2, QuerySymbolsKeepsInv
<1>3. ASSUME NEW h \in Handlers, StoreSymbols(h) PROVE IInv'
  BY <1>3, StoreSymbolsKeepsInv
<1>4. ASSUME NEW T \in Tables, Reload(T) PROVE IInv'
  BY <1>4, ReloadKeepsInv
<1>5. CASE Evict
  BY <1>5, EvictKeepsInv
<1>6. CASE TimePasses
  BY <1>6, TimePassesKeepsInv
<1>7. CASE UNCHANGED vars
  BY <1>7, StutterKeepsInv
<1> QED BY <1>1, <1>2, <1>3, <1>4, <1>5, <1>6, <1>7 DEF Next

LEMMA InvHolds == Spec => []IInv
BY InvInit, InvStep, PTL DEF Spec

\* The model's types, among them: a handler on its way to Set has symbols to store.
THEOREM TypeCorrect == Spec => []TypeOK
BY InvHolds, PTL DEF IInv

\* GetSymbols serves nothing older than a TTL and a handler's latency, whatever queries,
\* Sets, reloads and sweeps come between a read and its Set.
THEOREM RecentServed == Spec => []ServedIsRecent
BY InvHolds, PTL DEF IInv

\* A 404 of GetSymbols was true when it was given: the empty result is not cached.
THEOREM NotFoundCurrent == Spec => []NotFoundIsCurrent
BY InvHolds, PTL DEF IInv

\* evictLoop leaves no entry in the map for longer than a period and its lag after it
\* expired, though the ticker's phase has nothing to do with the entry's.
THEOREM Evicted == Spec => []EvictedInTime
<1>1. IInv => EvictedInTime
  <2> SUFFICES ASSUME IInv, NEW k \in DOMAIN entries
               PROVE  now <= entries[k].expiresAt + TTL + MaxLag
    BY DEF EvictedInTime
  <2>1. /\ now \in Nat /\ DueTick \in Int /\ TTL \in Nat /\ MaxLag \in Nat
        /\ entries[k].expiresAt \in Nat
    BY TTLAssumption, MaxLagAssumption, MaxTimeAssumption DEF IInv, TypeOK, DueTick
  <2>2. now <= DueTick + MaxLag /\ DueTick <= entries[k].expiresAt + TTL
    BY DEF IInv, CacheInv
  <2> QED BY <2>1, <2>2
<1> QED BY <1>1, InvHolds, PTL

\* No step takes from the map an entry that Get still serves: the time evictLoop sweeps
\* by is never ahead of the clock.
THEOREM LiveKept == Spec => SweepKeepsLive
<1>1. ASSUME IInv, [Next]_vars
      PROVE  [\A k \in Keys : Hit(k) => k \in DOMAIN entries']_cacheVars
  <2>1. TypeOK /\ CacheInv
    BY <1>1 DEF IInv
  <2> SUFFICES ASSUME NEW k \in Keys, Hit(k) PROVE k \in DOMAIN entries'
    OBVIOUS
  <2>2. k \in DOMAIN entries /\ now <= entries[k].expiresAt
    BY <2>1, MaxTimeAssumption DEF Hit, TypeOK
  <2>3. CASE entries' = entries
    BY <2>2, <2>3
  <2>4. ASSUME NEW h \in Handlers, StoreSymbols(h) PROVE k \in DOMAIN entries'
    BY <2>2, <2>4 DEF StoreSymbols, Set
  <2>5. CASE Sweep
    BY <2>1, <2>2, <2>5, SweepFacts
  <2> QED BY <1>1, <2>3, <2>4, <2>5
          DEF Next, vars, cacheVars, GetSymbols, QuerySymbols, Reload, Evict, WakeUp,
              TimePasses, Tick
<1> QED BY <1>1, InvHolds, PTL DEF Spec, SweepKeepsLive
=============================================================================
