---------------------------- MODULE ResponseCache ----------------------------
(***************************************************************************)
(* The in-memory cache (internal/store/cache.go): a map under one RWMutex, *)
(* with an expiry per entry and a goroutine, evictLoop, that sweeps it on  *)
(* a ticker of period TTL.  Get and Set read the clock while they hold the *)
(* mutex, so each is one step; evictLoop reads it before it locks, so a    *)
(* sweep is two steps.                                                     *)
(*                                                                         *)
(* Time is in ticks.  MaxLag bounds how late the scheduler runs evictLoop, *)
(* MaxTime bounds a run of the model.                                      *)
(***************************************************************************)
EXTENDS Naturals, Functions

CONSTANTS
  Keys,
  TTL,       \* CACHE_TTL_SECONDS
  MaxLag,
  MaxTime

ASSUME TTLAssumption == TTL \in Nat \ {0}
ASSUME MaxLagAssumption == MaxLag \in Nat /\ MaxLag < TTL
ASSUME MaxTimeAssumption == MaxTime \in Nat

VARIABLES
  now,        \* the clock
  entries,    \* the map: [key -> [value, expiresAt]]
  evictLoop,  \* "waiting" for the ticker, or "locking" the map
  nextTick,   \* when the ticker fires next
  sweepTime   \* the clock as evictLoop read it before it locks the map

cacheVars == <<now, entries, evictLoop, nextTick, sweepTime>>

CacheInit ==
  /\ now = 0
  /\ entries = [k \in {} |-> 0]
  /\ evictLoop = "waiting"
  /\ nextTick = TTL
  /\ sweepTime = 0

\* Mutant: Get leaves expiry to evictLoop.
HitIfKept(k) == k \in DOMAIN entries

\* Get: an entry is a hit up to and including the instant it expires.
Hit(k) == k \in DOMAIN entries /\ ~(now > entries[k].expiresAt)

Set(k, v) ==
  /\ entries' = [j \in DOMAIN entries \cup {k} |->
                   IF j = k THEN [value |-> v, expiresAt |-> now + TTL]
                            ELSE entries[j]]
  /\ UNCHANGED <<now, evictLoop, nextTick, sweepTime>>

\* Mutant: a timer, which fires once, in place of the ticker.
WakeUpOnce ==
  /\ evictLoop = "waiting"
  /\ now >= nextTick
  /\ evictLoop' = "locking"
  /\ nextTick' = MaxTime + TTL
  /\ sweepTime' = now
  /\ UNCHANGED <<now, entries>>

\* evictLoop receives a tick and reads the clock ...
WakeUp ==
  /\ evictLoop = "waiting"
  /\ now >= nextTick
  /\ evictLoop' = "locking"
  /\ nextTick' = nextTick + TTL
  /\ sweepTime' = now
  /\ UNCHANGED <<now, entries>>

\* Mutant: the sweep deletes at the instant of expiry, when Get still hits.
SweepAtExpiry ==
  /\ evictLoop = "locking"
  /\ entries' = Restrict(entries,
       {k \in DOMAIN entries : sweepTime < entries[k].expiresAt})
  /\ evictLoop' = "waiting"
  /\ sweepTime' = 0
  /\ UNCHANGED <<now, nextTick>>

\* ... and, with the lock, deletes the entries expired by then.
Sweep ==
  /\ evictLoop = "locking"
  /\ entries' = Restrict(entries,
       {k \in DOMAIN entries : ~(sweepTime > entries[k].expiresAt)})
  /\ evictLoop' = "waiting"
  /\ sweepTime' = 0
  /\ UNCHANGED <<now, nextTick>>

\* The tick evictLoop is to handle, or is handling.
DueTick == IF evictLoop = "waiting" THEN nextTick ELSE nextTick - TTL

Tick ==
  /\ now < MaxTime
  /\ now < DueTick + MaxLag
  /\ now' = now + 1
  /\ UNCHANGED <<entries, evictLoop, nextTick, sweepTime>>

-----------------------------------------------------------------------------
(* Properties.                                                             *)

\* A sweep, whose clock is old by the time it has the lock, takes no entry
\* that Get would still serve, not even one set while it waited.
SweepKeepsLive ==
  [][\A k \in Keys : Hit(k) => k \in DOMAIN entries']_cacheVars

\* The map does not keep what nobody asks for: an entry is gone one period of
\* the ticker, and evictLoop's lag, after it expired.
EvictedInTime ==
  \A k \in DOMAIN entries : now <= entries[k].expiresAt + TTL + MaxLag
=============================================================================
