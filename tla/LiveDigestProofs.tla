--------------------------- MODULE LiveDigestProofs ---------------------------
(***************************************************************************)
(* GetDigestLive answers the top of each category, for any snapshot and    *)
(* limit, and whatever order sort.Slice leaves equals in.                  *)
(***************************************************************************)
EXTENDS ReportsProofs

\* A row of the digest of a snapshot.
RowsOf(ticks, c) == [category : {c}, rank : Nat, symbol : {t.symbol : t \in ToSet(ticks)}]

Size(ticks, c, limit) ==
  IF Cardinality(Pool(ticks, c)) > limit THEN limit ELSE Cardinality(Pool(ticks, c))

LEMMA PoolFacts ==
  ASSUME NEW ticks \in Snapshots, NEW c
  PROVE  /\ ticks \in Seq(ToSet(ticks))
         /\ Pool(ticks, c) \subseteq DOMAIN ticks
         /\ IsFiniteSet(Pool(ticks, c)) /\ Cardinality(Pool(ticks, c)) \in Nat
<1>1. ticks \in Seq(ToSet(ticks))
  BY SnapshotsAssumption
<1>2. Len(ticks) \in Nat /\ DOMAIN ticks = 1 .. Len(ticks)
  BY <1>1, LenProperties
<1>3. Pool(ticks, c) \in SUBSET (1 .. Len(ticks))
  BY <1>2 DEF Pool
<1>4. IsFiniteSet(Pool(ticks, c))
  <2>1. IsFiniteSet(1 .. Len(ticks))
    BY <1>2, FS_Interval
  <2> QED BY <1>3, <2>1, FS_Subset
<1> QED BY <1>1, <1>2, <1>3, <1>4, FS_CardinalityType

\* rankLiveCategory numbers the first ticks of a sorted pool.
LEMMA RankFacts ==
  ASSUME NEW ticks \in Snapshots, NEW c, NEW limit \in Nat, NEW block \in Rank(ticks, c, limit)
  PROVE  /\ Size(ticks, c, limit) \in Nat
         /\ Size(ticks, c, limit) <= Cardinality(Pool(ticks, c))
         /\ block \in Seq(RowsOf(ticks, c)) /\ Len(block) = Size(ticks, c, limit)
         /\ \E p \in Sorts(ticks, Pool(ticks, c), c) : \A i \in 1 .. Size(ticks, c, limit) :
              block[i] = [category |-> c, rank |-> i, symbol |-> ticks[p[i]].symbol]
<1> DEFINE pool == Pool(ticks, c)
           size == Size(ticks, c, limit)
           N == Cardinality(pool)
<1>1. N \in Nat /\ pool \subseteq DOMAIN ticks
  BY PoolFacts
<1>2. size \in Nat /\ size <= N /\ size = IF N > limit THEN limit ELSE N
  BY <1>1 DEF Size
<1>3. PICK p \in Sorts(ticks, pool, c) :
        block = Numbered(c, Cut([i \in DOMAIN p |-> ticks[p[i]]], limit))
  BY DEF Rank
<1> DEFINE s == [i \in DOMAIN p |-> ticks[p[i]]]
<1>4. p \in [1 .. N -> pool]
  BY <1>3 DEF Sorts, Bijection, Injection
<1> HIDE DEF N, pool, size
<1>5. s \in [1 .. N -> ToSet(ticks)]
  BY <1>1, <1>4 DEF ToSet
<1>6. s \in Seq(ToSet(ticks)) /\ Len(s) = N /\ \A i \in 1 .. N : s[i] = ticks[p[i]]
  BY <1>1, <1>4, <1>5
<1> HIDE DEF s
<1>7. /\ Cut(s, limit) \in Seq(ToSet(ticks)) /\ Len(Cut(s, limit)) = size
      /\ \A i \in 1 .. size : Cut(s, limit)[i] = s[i]
  BY <1>2, <1>6, CutFacts
<1>8. DOMAIN Cut(s, limit) = 1 .. size
  BY <1>7, LenProperties
<1>9. block = [i \in 1 .. size |-> [category |-> c, rank |-> i, symbol |-> ticks[p[i]].symbol]]
  <2>1. block = [i \in 1 .. size |->
                   [category |-> c, rank |-> i, symbol |-> Cut(s, limit)[i].symbol]]
    BY <1>3, <1>8 DEF Numbered, s
  <2>2. \A i \in 1 .. size : Cut(s, limit)[i] = ticks[p[i]]
    BY <1>2, <1>6, <1>7, <1>1
  <2> QED BY <2>1, <2>2
<1>10. \A i \in 1 .. size : ticks[p[i]] \in ToSet(ticks)
  BY <1>1, <1>2, <1>5, <1>6
<1>11. block \in [1 .. size -> RowsOf(ticks, c)]
  BY <1>2, <1>9, <1>10 DEF RowsOf
<1>12. block \in Seq(RowsOf(ticks, c)) /\ Len(block) = size
  BY <1>2, <1>11
<1> QED BY <1>2, <1>3, <1>9, <1>12 DEF N, pool, size

\* Rows of which those of c are a block of Rank's, wherever it stands, have the top of c.
LEMMA BlockIsTop ==
  ASSUME NEW ticks \in Snapshots, NEW c \in Categories, NEW limit \in Nat,
         NEW block \in Rank(ticks, c, limit),
         NEW rows, NEW k \in Nat,
         {i \in DOMAIN rows : rows[i].category = c} = k + 1 .. k + Len(block),
         \A i \in 1 .. Len(block) : rows[k + i] = block[i]
  PROVE  IsTop(rows, ToSet(ticks), c, limit)
<1> DEFINE pool == Pool(ticks, c)
           N == Cardinality(pool)
           size == Size(ticks, c, limit)
           all == ToSet(ticks)
           traded == {t \in all : t.price > 0 /\ Kept(c, t)}
           listed == {i \in DOMAIN rows : rows[i].category = c}
           tick(i) == CHOOSE t \in all : t.symbol = rows[i].symbol
           top == {tick(i) : i \in listed}
<1>1. /\ N \in Nat /\ IsFiniteSet(pool) /\ pool \subseteq DOMAIN ticks
      /\ all = {ticks[i] : i \in DOMAIN ticks}
  BY PoolFacts DEF ToSet
<1>2. size \in Nat /\ size <= N /\ Len(block) = size
  BY RankFacts
<1>3. PICK p \in Sorts(ticks, pool, c) : \A i \in 1 .. size :
        block[i] = [category |-> c, rank |-> i, symbol |-> ticks[p[i]].symbol]
  BY RankFacts
<1>4. /\ p \in [1 .. N -> pool] /\ IsInjective(p)
      /\ \A j \in pool : \E i \in 1 .. N : p[i] = j
  BY <1>3 DEF Sorts, Bijection, Injection, Surjection
<1>5. \A i, j \in DOMAIN ticks : ticks[i].symbol = ticks[j].symbol => i = j
  BY SnapshotsAssumption
<1> HIDE DEF pool, N, size, all
<1>6. listed = k + 1 .. k + size
  BY <1>2
<1>7. \A i \in 1 .. size : /\ k + i \in listed /\ p[i] \in pool
                          /\ rows[k + i].rank = i /\ tick(k + i) = ticks[p[i]]
  <2> TAKE i \in 1 .. size
  <2>1. i \in 1 .. N /\ k + i \in k + 1 .. k + size
    BY <1>1, <1>2
  <2>2. p[i] \in pool /\ ticks[p[i]] \in all
    BY <1>1, <1>4, <2>1
  <2>3. rows[k + i].rank = i /\ rows[k + i].symbol = ticks[p[i]].symbol
    BY <1>2, <1>3
  <2>4. \A t \in all : t.symbol = ticks[p[i]].symbol => t = ticks[p[i]]
    BY <1>1, <1>5, <2>2
  <2>5. tick(k + i) = ticks[p[i]]
    BY <2>2, <2>3, <2>4
  <2> QED BY <1>6, <2>1, <2>2, <2>3, <2>5
<1>8. \A j \in listed : j - k \in 1 .. size /\ k + (j - k) = j
  BY <1>2, <1>6
<1> HIDE DEF tick, listed
<1>9. top = {ticks[p[i]] : i \in 1 .. size}
  BY <1>7, <1>8
<1>10. traded = {ticks[i] : i \in pool}
  BY <1>1 DEF pool, Pool
<1>11. Cardinality(traded) = N
  <2> DEFINE f == [i \in pool |-> ticks[i]]
  <2> HIDE DEF traded
  <2>1. f \in Bijection(pool, traded)
    <3>1. f \in [pool -> traded] /\ \A t \in traded : \E i \in pool : f[i] = t
      BY <1>10
    <3>2. \A i, j \in pool : f[i] = f[j] => i = j
      BY <1>1, <1>5
    <3> QED BY <3>1, <3>2 DEF Bijection, Injection, Surjection, IsInjective
  <2> HIDE DEF f
  <2> QED BY <1>1, <2>1, FS_Bijection DEF ExistsBijection, N
<1>12. Min({limit, Cardinality(traded)}) = size
  BY <1>1, <1>11 DEF Min, size, Size, N, pool
<1>13. Cardinality(top) = size
  <2> DEFINE f == [i \in 1 .. size |-> ticks[p[i]]]
  <2> HIDE DEF top
  <2>1. f \in Bijection(1 .. size, top)
    <3>1. f \in [1 .. size -> top] /\ \A t \in top : \E i \in 1 .. size : f[i] = t
      BY <1>9
    <3>2. ASSUME NEW i \in 1 .. size, NEW j \in 1 .. size, f[i] = f[j]
          PROVE  i = j
      <4>1. i \in 1 .. N /\ j \in 1 .. N /\ p[i] \in DOMAIN ticks /\ p[j] \in DOMAIN ticks
        BY <1>1, <1>2, <1>7
      <4>2. p[i] = p[j]
        BY <1>5, <3>2, <4>1
      <4> QED BY <1>4, <4>1, <4>2 DEF IsInjective
    <3> QED BY <3>1, <3>2 DEF Bijection, Injection, Surjection, IsInjective
  <2>2. IsFiniteSet(1 .. size) /\ Cardinality(1 .. size) = size
    BY <1>2, FS_Interval
  <2> HIDE DEF f
  <2> QED BY <2>1, <2>2, FS_Bijection DEF ExistsBijection
<1>14. top \subseteq traded
  BY <1>7, <1>9, <1>10
<1>15. {rows[i].rank : i \in listed} = 1 .. size
  <2>1. \A i \in listed : rows[i].rank \in 1 .. size
    BY <1>7, <1>8
  <2>2. \A r \in 1 .. size : \E i \in listed : rows[i].rank = r
    BY <1>7
  <2> QED BY <2>1, <2>2
<1>16. \A i, j \in 1 .. N : i < j => ~Before(c, ticks[p[j]], ticks[p[i]])
  BY <1>3, <1>4 DEF Sorts, Categories
<1>17. ASSUME NEW i \in listed, NEW j \in listed, i < j
       PROVE  rows[i].rank < rows[j].rank /\ ~Before(c, tick(j), tick(i))
  <2>1. i - k \in 1 .. size /\ j - k \in 1 .. size /\ i - k < j - k
    BY <1>2, <1>6, <1>8, <1>17
  <2>2. /\ rows[i].rank = i - k /\ tick(i) = ticks[p[i - k]]
        /\ rows[j].rank = j - k /\ tick(j) = ticks[p[j - k]]
    BY <1>7, <1>8
  <2>3. i - k \in 1 .. N /\ j - k \in 1 .. N
    BY <1>1, <1>2, <2>1
  <2> QED BY <1>16, <2>1, <2>2, <2>3
<1>18. ASSUME NEW t \in traded \ top, NEW u \in top
       PROVE  ~Before(c, t, u)
  <2>1. PICK i \in 1 .. size : u = ticks[p[i]]
    BY <1>9
  <2>2. PICK j \in 1 .. N : t = ticks[p[j]]
    <3>1. PICK q \in pool : t = ticks[q]
      BY <1>10
    <3> QED BY <1>4, <3>1
  <2>3. j \notin 1 .. size
    BY <1>9, <2>2
  <2>4. i < j /\ i \in 1 .. N
    BY <1>1, <1>2, <2>3
  <2> QED BY <1>16, <2>1, <2>2, <2>4
<1> HIDE DEF top, traded
<1> QED BY <1>12, <1>13, <1>14, <1>15, <1>17, <1>18 DEF IsTop, all, top, traded, listed, tick

\* A block has rows of its own category only.
LEMMA BlockRows ==
  ASSUME NEW ticks \in Snapshots, NEW c \in Categories, NEW limit \in Nat,
         NEW block \in Rank(ticks, c, limit),
         NEW X, X = UNION {RowsOf(ticks, d) : d \in Categories}
  PROVE  /\ block \in Seq(X) /\ Len(block) \in Nat /\ DOMAIN block = 1 .. Len(block)
         /\ \A i \in 1 .. Len(block) : block[i].category = c
<1>1. block \in Seq(RowsOf(ticks, c))
  BY RankFacts
<1>2. Len(block) \in Nat /\ DOMAIN block = 1 .. Len(block)
  BY <1>1, LenProperties
<1>3. \A i \in 1 .. Len(block) : block[i] \in RowsOf(ticks, c)
  BY <1>1, ElementOfSeq
<1>4. block \in Seq(X)
  BY <1>1, SeqMonotonic
<1> QED BY <1>2, <1>3, <1>4 DEF RowsOf

\* Three sequences in a row: which of them a place belongs to.
LEMMA ThreeInARow ==
  ASSUME NEW X, NEW g \in Seq(X), NEW l \in Seq(X), NEW v \in Seq(X),
         NEW rows, rows = g \o l \o v,
         NEW G, G = Len(g), NEW L, L = G + Len(l), NEW V, V = L + Len(v)
  PROVE  /\ DOMAIN rows = 1 .. V
         /\ \A i \in 1 .. V : rows[i] = IF i <= G THEN g[i]
                                       ELSE IF i <= L THEN l[i - G] ELSE v[i - L]
<1> DEFINE s == g \o l
           r == s \o v
<1>1. Len(g) \in Nat /\ Len(l) \in Nat /\ Len(v) \in Nat
  BY LenProperties
<1>2. /\ Len(s) = Len(g) + Len(l)
      /\ \A i \in 1 .. Len(g) + Len(l) : s[i] = IF i <= Len(g) THEN g[i] ELSE l[i - Len(g)]
  BY ConcatProperties
<1>3. s \in Seq(X)
  BY ConcatProperties
<1> HIDE DEF s
<1>4. /\ r \in Seq(X) /\ Len(r) = Len(s) + Len(v)
      /\ \A i \in 1 .. Len(s) + Len(v) : r[i] = IF i <= Len(s) THEN s[i] ELSE v[i - Len(s)]
  BY <1>3, ConcatProperties
<1> HIDE DEF r
<1>5. DOMAIN r = 1 .. Len(g) + Len(l) + Len(v)
  BY <1>2, <1>4, LenProperties
<1>6. \A i \in 1 .. Len(g) + Len(l) + Len(v) :
        r[i] = IF i <= Len(g) THEN g[i]
               ELSE IF i <= Len(g) + Len(l) THEN l[i - Len(g)] ELSE v[i - (Len(g) + Len(l))]
  BY <1>1, <1>2, <1>4
<1> QED BY <1>1, <1>5, <1>6 DEF r, s

\* computeLiveDigest has the top of the category asked for, or of each of the three.
LEMMA ComputeIsTop ==
  ASSUME NEW ticks \in Snapshots, NEW category \in AskedCategories, NEW limit \in Nat,
         NEW rows \in Compute(ticks, category, limit), NEW c \in Categories
  PROVE  IF category \in {AnyCategory, c}
           THEN IsTop(rows, ToSet(ticks), c, limit)
           ELSE \A i \in DOMAIN rows : rows[i].category # c
<1> DEFINE X == UNION {RowsOf(ticks, d) : d \in Categories}
<1>1. Categories = {"gainer", "loser", "volume"} /\ AnyCategory = ""
  BY DEF Categories, LiveCategories, ToSet, AnyCategory
<1>2. ASSUME NEW d \in Categories, NEW block \in Rank(ticks, d, limit)
      PROVE  /\ block \in Seq(X) /\ Len(block) \in Nat /\ DOMAIN block = 1 .. Len(block)
             /\ \A i \in 1 .. Len(block) : block[i].category = d
  BY BlockRows
<1> HIDE DEF X
<1>3. CASE category = c
  <2>1. category # AnyCategory
    BY <1>1, <1>3
  <2>2. rows \in Rank(ticks, c, limit)
    BY <2>1, <1>3 DEF Compute
  <2>3. /\ Len(rows) \in Nat /\ DOMAIN rows = 1 .. Len(rows)
        /\ \A i \in 1 .. Len(rows) : rows[i].category = c
    BY <1>2, <2>2
  <2>4. /\ {i \in DOMAIN rows : rows[i].category = c} = 0 + 1 .. 0 + Len(rows)
        /\ \A i \in 1 .. Len(rows) : rows[0 + i] = rows[i]
    BY <2>3
  <2>5. IsTop(rows, ToSet(ticks), c, limit)
    BY <2>2, <2>4, BlockIsTop
  <2> QED BY <1>3, <2>5
<1>4. CASE category # c /\ category # AnyCategory
  <2>1. rows \in Rank(ticks, category, limit)
    BY <1>4 DEF Compute
  <2>2. rows \in Seq(RowsOf(ticks, category))
    BY <2>1, RankFacts
  <2>3. \A i \in DOMAIN rows : rows[i] \in RowsOf(ticks, category)
    BY <2>2, ElementOfSeq, LenProperties
  <2>4. \A i \in DOMAIN rows : rows[i].category = category
    BY <2>3 DEF RowsOf
  <2> QED BY <1>4, <2>4
<1>5. CASE category = AnyCategory
  <2>1. PICK g \in Rank(ticks, "gainer", limit), l \in Rank(ticks, "loser", limit),
             v \in Rank(ticks, "volume", limit) : rows = g \o l \o v
    BY <1>5 DEF Compute
  <2>2. /\ g \in Seq(X) /\ \A i \in 1 .. Len(g) : g[i].category = "gainer"
        /\ l \in Seq(X) /\ \A i \in 1 .. Len(l) : l[i].category = "loser"
        /\ v \in Seq(X) /\ \A i \in 1 .. Len(v) : v[i].category = "volume"
    BY <1>1, <1>2
  <2>3. Len(g) \in Nat /\ Len(l) \in Nat /\ Len(v) \in Nat
    BY <2>2, LenProperties
  <2>4. PICK G \in Nat, L \in Nat, V \in Nat : G = Len(g) /\ L = G + Len(l) /\ V = L + Len(v)
    BY <2>3
  <2>5. /\ G = Len(g) /\ L = G + Len(l) /\ V = L + Len(v)
        /\ Len(l) \in Nat /\ Len(v) \in Nat
        /\ DOMAIN rows = 1 .. V
        /\ \A i \in 1 .. V : rows[i] = IF i <= G THEN g[i]
                                      ELSE IF i <= L THEN l[i - G] ELSE v[i - L]
    <3>1. g \in Seq(X) /\ l \in Seq(X) /\ v \in Seq(X)
      BY <2>2
    <3>2. /\ DOMAIN rows = 1 .. V
          /\ \A i \in 1 .. V : rows[i] = IF i <= G THEN g[i]
                                        ELSE IF i <= L THEN l[i - G] ELSE v[i - L]
      BY <2>1, <2>4, <3>1, ThreeInARow
    <3> QED BY <2>3, <2>4, <3>2
  <2>6. /\ \A i \in 1 .. Len(g) : rows[0 + i] = g[i]
        /\ \A i \in 1 .. Len(l) : rows[G + i] = l[i]
        /\ \A i \in 1 .. Len(v) : rows[L + i] = v[i]
    <3>1. ASSUME NEW i \in 1 .. Len(g) PROVE rows[0 + i] = g[i]
      <4>1. 0 + i \in 1 .. V /\ 0 + i <= G /\ 0 + i = i
        BY <2>5
      <4> QED BY <2>5, <4>1
    <3>2. ASSUME NEW i \in 1 .. Len(l) PROVE rows[G + i] = l[i]
      <4>1. G + i \in 1 .. V /\ ~ (G + i <= G) /\ G + i <= L /\ (G + i) - G = i
        BY <2>5
      <4> QED BY <2>5, <4>1
    <3>3. ASSUME NEW i \in 1 .. Len(v) PROVE rows[L + i] = v[i]
      <4>1. L + i \in 1 .. V /\ ~ (L + i <= G) /\ ~ (L + i <= L) /\ (L + i) - L = i
        BY <2>5
      <4> QED BY <2>5, <4>1
    <3> QED BY <3>1, <3>2, <3>3
  <2>7. \A i \in 1 .. V : rows[i].category = IF i <= G THEN "gainer"
                                            ELSE IF i <= L THEN "loser" ELSE "volume"
    <3> TAKE i \in 1 .. V
    <3>1. i <= G => i \in 1 .. Len(g)
      BY <2>5
    <3>2. ~ (i <= G) /\ i <= L => i - G \in 1 .. Len(l)
      BY <2>5
    <3>3. ~ (i <= G) /\ ~ (i <= L) => i - L \in 1 .. Len(v)
      BY <2>5
    <3>4. /\ i <= G => g[i].category = "gainer"
          /\ ~ (i <= G) /\ i <= L => l[i - G].category = "loser"
          /\ ~ (i <= G) /\ ~ (i <= L) => v[i - L].category = "volume"
      BY <2>2, <3>1, <3>2, <3>3
    <3>5. rows[i] = IF i <= G THEN g[i] ELSE IF i <= L THEN l[i - G] ELSE v[i - L]
      BY <2>5
    <3> QED BY <3>4, <3>5
  <2>8. CASE c = "gainer"
    <3>1. {i \in DOMAIN rows : rows[i].category = c} = 0 + 1 .. 0 + Len(g)
      BY <2>5, <2>7, <2>8
    <3>2. \A i \in 1 .. Len(g) : rows[0 + i] = g[i]
      BY <2>6
    <3>3. g \in Rank(ticks, c, limit)
      BY <2>1, <2>8
    <3>4. IsTop(rows, ToSet(ticks), c, limit)
      BY <3>1, <3>2, <3>3, BlockIsTop
    <3> QED BY <1>5, <3>4
  <2>9. CASE c = "loser"
    <3>1. {i \in DOMAIN rows : rows[i].category = c} = G + 1 .. G + Len(l)
      BY <2>5, <2>7, <2>9
    <3> QED BY <2>1, <2>6, <2>9, <3>1, BlockIsTop, <1>5
  <2>10. CASE c = "volume"
    <3>1. {i \in DOMAIN rows : rows[i].category = c} = L + 1 .. L + Len(v)
      BY <2>5, <2>7, <2>10
    <3> QED BY <2>1, <2>6, <2>10, <3>1, BlockIsTop, <1>5
  <2> QED BY <1>1, <2>8, <2>9, <2>10
<1> QED BY <1>3, <1>4, <1>5

\* What a client sees of a category of the live digest is its top in the snapshot, of
\* the size asked for or of all there is, though sort.Slice is not stable.
THEOREM LiveIsTop == Spec => []LiveIsTopN
<1>1. IInv => LiveIsTopN
  <2> SUFFICES ASSUME IInv, answer.status = "found", req.kind = "live", NEW c \in Categories
               PROVE  IF req.category \in {AnyCategory, c}
                        THEN IsTop(answer.rows, ToSet(req.key), c, req.limit)
                        ELSE \A i \in DOMAIN answer.rows : answer.rows[i].category # c
    BY DEF LiveIsTopN
  <2>1. /\ req.key \in Snapshots /\ req.category \in AskedCategories /\ req.limit \in Nat
        /\ answer.rows \in Compute(req.key, req.category, req.limit)
    BY DEF IInv, AnswerInv, RequestInv
  <2> QED BY <2>1, ComputeIsTop
<1> QED BY <1>1, InvHolds, PTL
=============================================================================
