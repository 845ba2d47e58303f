------------------------------ MODULE LiveDigest ------------------------------
(***************************************************************************)
(* The live digest (computeLiveDigest and rankLiveCategory in              *)
(* internal/app/handlers.go): the snapshot's ticks are filtered, sorted,   *)
(* cut and numbered, category by category.  sort.Slice is not stable, so   *)
(* that ticks that compare equal come out in any order: an operator here   *)
(* is the SET of the sequences the code may return.                        *)
(*                                                                         *)
(* A tick is [symbol, price, pct, volume]; the open price of an entry,     *)
(* which is computed from price and pct, and its other columns are left    *)
(* out.                                                                    *)
(***************************************************************************)
EXTENDS Integers, Sequences, SequencesExt

AnyCategory == ""
LiveCategories == <<"gainer", "loser", "volume">>

Kept(category, t) ==
  CASE category = "gainer" -> t.pct > 0
    [] category = "loser"  -> t.pct < 0
    [] OTHER               -> TRUE

Before(category, s, t) ==
  CASE category = "gainer" -> s.pct > t.pct
    [] category = "loser"  -> s.pct < t.pct
    [] category = "volume" -> s.volume > t.volume

\* The places in the snapshot of the ticks to rank: those traded, and of them the
\* gainers or the losers.
Pool(ticks, category) ==
  {i \in DOMAIN ticks : ticks[i].price > 0 /\ Kept(category, ticks[i])}

\* What sort.Slice may make of a pool; one of an unknown category is not sorted.
Sorts(ticks, pool, category) ==
  {p \in Bijection(1 .. Cardinality(pool), pool) :
     \A i, j \in DOMAIN p : i < j =>
       IF category \in ToSet(LiveCategories)
         THEN ~Before(category, ticks[p[j]], ticks[p[i]])
         ELSE p[i] < p[j]}

Cut(s, limit) == IF Len(s) > limit THEN SubSeq(s, 1, limit) ELSE s

Numbered(category, s) ==
  [i \in DOMAIN s |-> [category |-> category, rank |-> i, symbol |-> s[i].symbol]]

\* Mutant: the pool is cut, and then sorted.
RankCut(ticks, category, limit) ==
  LET pool == Pool(ticks, category)
      cut == {i \in pool : Cardinality({j \in pool : j <= i}) <= limit}
  IN  {Numbered(category, [i \in DOMAIN p |-> ticks[p[i]]]) : p \in Sorts(ticks, cut, category)}

\* rankLiveCategory
Rank(ticks, category, limit) ==
  {Numbered(category, Cut([i \in DOMAIN p |-> ticks[p[i]]], limit)) :
     p \in Sorts(ticks, Pool(ticks, category), category)}

\* computeLiveDigest
Compute(ticks, category, limit) ==
  IF category # AnyCategory
    THEN Rank(ticks, category, limit)
    ELSE {g \o l \o v : g \in Rank(ticks, "gainer", limit),
                        l \in Rank(ticks, "loser", limit),
                        v \in Rank(ticks, "volume", limit)}
=============================================================================
