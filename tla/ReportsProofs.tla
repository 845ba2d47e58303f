---------------------------- MODULE ReportsProofs ----------------------------
(***************************************************************************)
(* What the report endpoints answer, for any dates, weeks, histories and   *)
(* limits, any snapshot, and any number of writes of the batch jobs during *)
(* a request.                                                              *)
(***************************************************************************)
EXTENDS Reports, Orders, SequenceTheorems

-----------------------------------------------------------------------------
(* The queries.                                                            *)

LEMMA SetToSeqFacts ==
  ASSUME NEW S, IsFiniteSet(S)
  PROVE  /\ SetToSeq(S) \in Seq(S)
         /\ ToSet(SetToSeq(S)) = S
         /\ SetToSeq(S) = <<>> <=> S = {}
<1> DEFINE s == SetToSeq(S)
<1>1. Cardinality(S) \in Nat
  BY FS_CardinalityType
<1>2. s \in [1 .. Cardinality(S) -> S] /\ IsInjective(s)
  <2>1. \E f \in [1 .. Cardinality(S) -> S] : IsInjective(f)
    BY FS_CardinalityType DEF ExistsBijection, Bijection, Injection
  <2> QED BY <2>1 DEF SetToSeq
<1> HIDE DEF s
<1>3. s \in Seq(S) /\ DOMAIN s = 1 .. Cardinality(S) /\ Len(s) = Cardinality(S)
  BY <1>1, <1>2
<1>4. ToSet(s) = S
  BY <1>2, <1>3, InjectionIsOnto DEF ToSet
<1>5. s = <<>> <=> S = {}
  BY <1>3, <1>4, EmptySeq DEF ToSet
<1> QED BY <1>3, <1>4, <1>5 DEF s

CategoryPlace(c) == CHOOSE i \in DOMAIN LiveCategories : LiveCategories[i] = c

LEMMA CategoryPlaces ==
  \A c \in Categories : /\ CategoryPlace(c) \in 1 .. 3
                        /\ LiveCategories[CategoryPlace(c)] = c
<1> TAKE c \in Categories
<1>1. PICK i \in DOMAIN LiveCategories : LiveCategories[i] = c
  BY DEF Categories, ToSet
<1>2. DOMAIN LiveCategories = 1 .. 3
  BY DEF LiveCategories
<1> QED BY <1>1, <1>2 DEF CategoryPlace

LEMMA InOrderMeans ==
  ASSUME NEW q, NEW r
  PROVE  InOrder(q, r) <=>
           \/ CategoryPlace(q.category) < CategoryPlace(r.category)
           \/ q.category = r.category /\ q.rank < r.rank
BY DEF InOrder, CategoryPlace

LEMMA PositionsFacts ==
  ASSUME NEW E \in Editions, NEW c \in Categories
  PROVE  /\ IsFiniteSet(Positions(E, c)) /\ Cardinality(Positions(E, c)) \in Nat
         /\ Positions(E, c) = 1 .. Cardinality(Positions(E, c))
<1> DEFINE F == {r \in E : r.category = c}
           f == [r \in F |-> r.rank]
<1>1. IsFiniteSet(F)
  BY EditionsAssumption, FS_Subset
<1>2. f \in Surjection(F, Positions(E, c))
  BY DEF Surjection, Positions
<1>3. IsFiniteSet(Positions(E, c))
  <2> HIDE DEF F, f
  <2> QED BY <1>1, <1>2, FS_Surjection
<1> QED BY <1>3, FS_CardinalityType, EditionsAssumption

\* Rows of an edition have ranks from 1, and ORDER BY category, rank orders them.
LEMMA EditionRows ==
  ASSUME NEW E \in Editions, NEW F \in SUBSET E
  PROVE  /\ IsFiniteSet(F)
         /\ \A r \in F : r.category \in Categories /\ r.rank \in Int /\ 1 <= r.rank
         /\ StrictTotalOrder({p \in F \X F : InOrder(p[1], p[2])}, F)
<1>1. IsFiniteSet(F)
  BY EditionsAssumption, FS_Subset
<1>2. \A r \in F : r.category \in Categories /\ r.rank \in Int /\ 1 <= r.rank
  <2> TAKE r \in F
  <2>1. r.category \in Categories /\ r.rank \in Positions(E, r.category)
    BY EditionsAssumption DEF Positions
  <2>2. Positions(E, r.category) = 1 .. Cardinality(Positions(E, r.category))
    BY <2>1, PositionsFacts
  <2>3. Cardinality(Positions(E, r.category)) \in Nat
    BY <2>1, PositionsFacts
  <2> QED BY <2>1, <2>2, <2>3
<1> DEFINE Place(r) == CategoryPlace(r.category)
<1>3. \A r \in F : Place(r) \in Int
  BY <1>2, CategoryPlaces
<1>4. \A q, r \in F : Place(q) = Place(r) => q.category = r.category
  BY <1>2, CategoryPlaces
<1>5. \A q, r \in F : InOrder(q, r) <=>
        Place(q) < Place(r) \/ (q.category = r.category /\ q.rank < r.rank)
  BY InOrderMeans
<1>6. \A q, r \in F : q.category = r.category => Place(q) = Place(r)
  OBVIOUS
<1>7. \A q, r \in F : q.category = r.category /\ q.rank = r.rank => q = r
  BY EditionsAssumption
<1> HIDE DEF Place
<1>8. \A r \in F : ~ InOrder(r, r)
  BY <1>2, <1>3, <1>5
<1>9. \A q, r \in F : q # r => InOrder(q, r) \/ InOrder(r, q)
  BY <1>2, <1>3, <1>4, <1>5, <1>7
<1>10. \A q, r, s \in F : InOrder(q, r) /\ InOrder(r, s) => InOrder(q, s)
  BY <1>2, <1>3, <1>5, <1>6
<1>11. StrictTotalOrder({p \in F \X F : InOrder(p[1], p[2])}, F)
  BY <1>8, <1>9, <1>10 DEF StrictTotalOrder
<1> QED BY <1>1, <1>2, <1>11

LEMMA OrderedRows ==
  ASSUME NEW E \in Editions, NEW F \in SUBSET E
  PROVE  /\ Cardinality(F) \in Nat
         /\ Ordered(F, InOrder) \in [1 .. Cardinality(F) -> F]
         /\ \A i, j \in 1 .. Cardinality(F) :
              i < j => InOrder(Ordered(F, InOrder)[i], Ordered(F, InOrder)[j])
<1> DEFINE R == {p \in F \X F : InOrder(p[1], p[2])}
<1>1. IsFiniteSet(F) /\ StrictTotalOrder(R, F)
  BY EditionRows
<1>2. PICK s \in [1 .. Cardinality(F) -> F] : InOrderOf(s, R)
  <2> HIDE DEF R
  <2> QED BY <1>1, Enumerated
<1>3. \A i, j \in DOMAIN s : i < j => InOrder(s[i], s[j])
  BY <1>2 DEF InOrderOf
<1>4. Ordered(F, InOrder) \in [1 .. Cardinality(F) -> F]
      /\ \A i, j \in DOMAIN Ordered(F, InOrder) :
           i < j => InOrder(Ordered(F, InOrder)[i], Ordered(F, InOrder)[j])
  BY <1>2, <1>3 DEF Ordered
<1> QED BY <1>1, <1>4, FS_CardinalityType

LEMMA CutFacts ==
  ASSUME NEW S, NEW s \in Seq(S), NEW n \in Nat
  PROVE  /\ Cut(s, n) \in Seq(S)
         /\ Len(Cut(s, n)) = IF Len(s) > n THEN n ELSE Len(s)
         /\ \A i \in 1 .. Len(Cut(s, n)) : Cut(s, n)[i] = s[i]
<1>1. Len(s) \in Nat
  BY LenProperties
<1>2. CASE Len(s) > n
  <2>1. Cut(s, n) = SubSeq(s, 1, n)
    BY <1>2 DEF Cut
  <2>2. n \in 0 .. Len(s) /\ 1 \in 1 .. n + 1
    BY <1>1, <1>2
  <2> QED BY <1>1, <1>2, <2>1, <2>2, SubSeqProperties
<1>3. CASE ~ (Len(s) > n)
  BY <1>3 DEF Cut
<1> QED BY <1>2, <1>3

\* QueryDigestPG and QueryDigest of duckdb.go both return rows of the edition.
LEMMA QueryDigestFacts ==
  ASSUME NEW E \in Editions, NEW c, NEW n \in Nat
  PROVE  QueryDigest(E, c, n) \in Seq(E)
<1> DEFINE F == {r \in E : c \in {AnyCategory, r.category}}
           s == Ordered(F, InOrder)
<1>1. Cardinality(F) \in Nat /\ s \in [1 .. Cardinality(F) -> F]
  BY OrderedRows
<1> HIDE DEF s
<1>2. s \in Seq(E)
  <2>1. F \subseteq E
    OBVIOUS
  <2> HIDE DEF F
  <2>2. s \in Seq(F)
    BY <1>1
  <2> QED BY <2>1, <2>2, SeqMonotonic
<1>3. QueryDigest(E, c, n) = Cut(s, n)
  BY DEF QueryDigest, s
<1> QED BY <1>2, <1>3, CutFacts

\* The rows of one category, with ranks up to n, come out by rank.
LEMMA RankedRows ==
  ASSUME NEW E \in Editions, NEW c \in Categories, NEW n \in Nat,
         NEW F, F = {r \in E : c = r.category /\ r.rank <= n},
         NEW N \in Nat, Positions(E, c) = 1 .. N
  PROVE  LET m == IF n < N THEN n ELSE N
             s == Ordered(F, InOrder)
         IN  s \in Seq(F) /\ Len(s) = m /\ \A i \in 1 .. m : s[i].rank = i
<1> DEFINE m == IF n < N THEN n ELSE N
           s == Ordered(F, InOrder)
           f == [r \in F |-> r.rank]
<1>1. m \in Nat /\ \A i \in Int : i <= m <=> i <= n /\ i <= N
  OBVIOUS
<1> HIDE DEF m
<1>2. /\ IsFiniteSet(F) /\ Cardinality(F) \in Nat
      /\ \A r \in F : r.category = c /\ r.rank \in 1 .. m
  <2>1. IsFiniteSet(F) /\ \A r \in F : r.rank \in Int
    BY EditionRows
  <2>2. \A r \in F : r.category = c /\ r.rank \in Positions(E, c) /\ r.rank <= n
    BY DEF Positions
  <2>3. \A r \in F : r.category = c /\ r.rank \in 1 .. m
    BY <1>1, <2>1, <2>2
  <2> QED BY <2>1, <2>3, FS_CardinalityType
<1>3. \A i \in 1 .. m : \E r \in F : r.rank = i
  <2> TAKE i \in 1 .. m
  <2>1. i \in Positions(E, c) /\ i <= n
    BY <1>1
  <2> QED BY <2>1 DEF Positions
<1>4. \A q, r \in F : q.rank = r.rank => q = r
  BY EditionsAssumption
<1>5. f \in Bijection(F, 1 .. m)
  BY <1>2, <1>3, <1>4 DEF Bijection, Injection, Surjection, IsInjective
<1>6. Cardinality(F) = m
  <2>1. Cardinality(1 .. m) = m
    BY <1>1, FS_Interval
  <2> HIDE DEF f, m
  <2> QED BY <1>2, <1>5, <2>1, FS_Bijection DEF ExistsBijection
<1>7. /\ s \in [1 .. m -> F]
      /\ \A i, j \in 1 .. m : i < j => InOrder(s[i], s[j])
  <2>1. F \in SUBSET E
    OBVIOUS
  <2> HIDE DEF m
  <2> QED BY <1>6, <2>1, OrderedRows
<1> HIDE DEF s, m
<1>8. \A i, j \in 1 .. m : i < j => s[i].rank < s[j].rank
  <2> TAKE i, j \in 1 .. m
  <2> HAVE i < j
  <2>1. InOrder(s[i], s[j]) /\ s[i] \in F /\ s[j] \in F
    BY <1>7
  <2>2. s[i].category = c /\ s[j].category = c
    BY <1>2, <2>1
  <2>3. CategoryPlace(c) \in Int
    BY CategoryPlaces
  <2> QED BY <2>1, <2>2, <2>3, InOrderMeans
<1> DEFINE g == [i \in 1 .. m |-> s[i].rank]
<1>9. g \in [1 .. m -> 1 .. m] /\ Increasing(g)
  BY <1>2, <1>7, <1>8 DEF Increasing
<1>10. \A i \in 1 .. m : g[i] = i
  <2>1. m \in Nat
    BY <1>1
  <2> HIDE DEF g
  <2> QED BY <1>9, <2>1, Counting
<1>11. s \in Seq(F) /\ Len(s) = m
  BY <1>1, <1>7
<1> QED BY <1>10, <1>11 DEF m, s

\* For one category, the LIMIT of Postgres on rows and the one of DuckDB on ranks agree.
LEMMA LimitsAgree ==
  ASSUME NEW E \in Editions, NEW c, c # AnyCategory, NEW n \in Nat
  PROVE  QueryDigest(E, c, n) = QueryDigestByRank(E, c, n)
<1> DEFINE F == {r \in E : c = r.category}
           G == {r \in E : c = r.category /\ r.rank <= n}
           s == Ordered(F, InOrder)
           t == Ordered(G, InOrder)
<1>1. {r \in E : c \in {AnyCategory, r.category}} = F
  OBVIOUS
<1>2. {r \in E : c \in {AnyCategory, r.category} /\ r.rank <= n} = G
  OBVIOUS
<1>3. QueryDigest(E, c, n) = Cut(s, n) /\ QueryDigestByRank(E, c, n) = t
  BY <1>1, <1>2 DEF QueryDigest, QueryDigestByRank
<1>4. CASE c \in Categories
  <2> DEFINE N == Cardinality(Positions(E, c))
             H == {r \in E : c = r.category /\ r.rank <= N}
  <2>1. N \in Nat /\ Positions(E, c) = 1 .. N
    BY <1>4, PositionsFacts
  <2>2. H = F
    BY <2>1 DEF Positions
  <2>3. s \in Seq(F) /\ Len(s) = N /\ \A i \in 1 .. N : s[i].rank = i
    <3>1. LET o == Ordered(H, InOrder)
          IN  o \in Seq(H) /\ Len(o) = N /\ \A i \in 1 .. N : o[i].rank = i
      <4> HIDE DEF N
      <4> QED BY <1>4, <2>1, RankedRows
    <3> HIDE DEF N
    <3> QED BY <2>2, <3>1
  <2> DEFINE m == IF n < N THEN n ELSE N
  <2>4. t \in Seq(G) /\ Len(t) = m /\ \A i \in 1 .. m : t[i].rank = i
    <3> HIDE DEF N
    <3> QED BY <1>4, <2>1, RankedRows
  <2> HIDE DEF s, t, N
  <2>5. /\ Cut(s, n) \in Seq(F) /\ Len(Cut(s, n)) = m
        /\ \A i \in 1 .. m : Cut(s, n)[i] = s[i]
    BY <2>1, <2>3, CutFacts
  <2>6. ASSUME NEW i \in 1 .. m PROVE Cut(s, n)[i] = t[i]
    <3>1. Cut(s, n)[i] = s[i] /\ s[i].rank = i /\ t[i].rank = i
      BY <2>1, <2>3, <2>4, <2>5
    <3>2. s[i] \in F /\ t[i] \in G
      BY <2>1, <2>3, <2>4
    <3> QED BY <3>1, <3>2, EditionsAssumption
  <2>7. t \in Seq(F)
    BY <2>4
  <2> QED BY <1>3, <2>4, <2>5, <2>6, <2>7, SeqEqual
<1>5. CASE c \notin Categories
  <2>1. F = {} /\ G = {}
    BY <1>5, EditionsAssumption
  <2>2. Cardinality(F) = 0
    BY <2>1, FS_EmptySet
  <2>3. s \in [1 .. 0 -> {}] /\ t = s
    BY <2>1, <2>2, OrderedRows
  <2> HIDE DEF s, t
  <2>4. s \in Seq({}) /\ Len(s) = 0
    BY <2>3
  <2> QED BY <1>3, <2>3, <2>4 DEF Cut
<1> QED BY <1>4, <1>5

\* A range of a history comes out whole and by day.
LEMMA InWindowFacts ==
  ASSUME NEW S \in Histories, NEW w
  PROVE  LET F == {r \in S : w[1] <= r.day /\ r.day <= w[2]}
             s == InWindow(S, w)
         IN  /\ s \in Seq(F) /\ ToSet(s) = F
             /\ \A i, j \in DOMAIN s : i < j => s[i].day < s[j].day
<1> DEFINE F == {r \in S : w[1] <= r.day /\ r.day <= w[2]}
           R == {p \in F \X F : p[1].day < p[2].day}
           s == InWindow(S, w)
<1>1. IsFiniteSet(F) /\ Cardinality(F) \in Nat
  <2>1. IsFiniteSet(F)
    BY HistoriesAssumption, FS_Subset
  <2> QED BY <2>1, FS_CardinalityType
<1>2. \A q, r \in F : q.day \in Int /\ (q.day = r.day => q = r)
  BY HistoriesAssumption
<1> HIDE DEF F
<1>3. StrictTotalOrder(R, F)
  BY <1>2 DEF StrictTotalOrder
<1>4. PICK t \in [1 .. Cardinality(F) -> F] : InOrderOf(t, R)
  <2> HIDE DEF R
  <2> QED BY <1>1, <1>3, Enumerated
<1>5. \A i, j \in DOMAIN t : i < j => t[i].day < t[j].day
  BY <1>4 DEF InOrderOf
<1>6. s = CHOOSE u \in [1 .. Cardinality(F) -> F] :
            \A i, j \in DOMAIN u : i < j => u[i].day < u[j].day
  BY DEF InWindow, Ordered, F
<1>7. /\ s \in [1 .. Cardinality(F) -> F]
      /\ \A i, j \in DOMAIN s : i < j => s[i].day < s[j].day
  BY <1>4, <1>5, <1>6
<1> HIDE DEF s
<1>8. IsInjective(s)
  BY <1>1, <1>2, <1>7 DEF IsInjective
<1>9. s \in Seq(F) /\ DOMAIN s = 1 .. Cardinality(F) /\ \A i \in DOMAIN s : s[i] \in F
  BY <1>1, <1>7
<1>10. \A x \in F : \E i \in 1 .. Cardinality(F) : s[i] = x
  BY <1>1, <1>7, <1>8, InjectionIsOnto
<1>11. ToSet(s) = F
  BY <1>9, <1>10 DEF ToSet
<1> QED BY <1>7, <1>9, <1>11 DEF F, s

LEMMA LatestOfFacts ==
  ASSUME NEW D \in [Dates -> Editions]
  PROVE  /\ Published(D) = {} => LatestOf(Published(D)) = None
         /\ Published(D) # {} => LatestOf(Published(D)) \in Published(D)
<1> DEFINE S == Published(D)
<1>1. IsFiniteSet(S) /\ S \subseteq Nat
  BY DatesAssumption, FS_Subset DEF Published
<1>2. ASSUME S # {} PROVE Max(S) \in S
  <2> DEFINE R == {p \in S \X S : p[1] < p[2]}
  <2> HIDE DEF S
  <2>1. StrictTotalOrder(R, S)
    BY <1>1 DEF StrictTotalOrder
  <2>2. PICK m \in S : \A y \in S \ {m} : <<y, m>> \in R
    <3> HIDE DEF R
    <3> QED BY <1>1, <1>2, <2>1, Greatest
  <2>3. ASSUME NEW y \in S PROVE m >= y
    <3>1. y = m \/ y < m
      BY <2>2
    <3> QED BY <1>1, <3>1
  <2> QED BY <2>3 DEF Max
<1> QED BY <1>2 DEF LatestOf

LEMMA LatestWeekFacts ==
  ASSUME NEW S \in SUBSET Weeks, S # {}
  PROVE  LatestWeek(S) \in S
<1> DEFINE Later(v, w) == v[1] < w[1] \/ (v[1] = w[1] /\ v[2] < w[2])
           R == {p \in S \X S : Later(p[1], p[2])}
<1>1. IsFiniteSet(S)
  BY WeeksAssumption, FS_Subset
<1>2. \A w \in S : w[1] \in Int /\ w[2] \in Int /\ w = <<w[1], w[2]>>
  BY WeeksAssumption
<1>3. StrictTotalOrder(R, S)
  <2>1. \A w \in S : ~ Later(w, w)
    BY <1>2
  <2>2. \A v, w \in S : v # w => Later(v, w) \/ Later(w, v)
    BY <1>2
  <2>3. \A u, v, w \in S : Later(u, v) /\ Later(v, w) => Later(u, w)
    BY <1>2
  <2> HIDE DEF Later
  <2> QED BY <2>1, <2>2, <2>3 DEF StrictTotalOrder
<1>4. PICK m \in S : \A y \in S \ {m} : <<y, m>> \in R
  <2> HIDE DEF R
  <2> QED BY <1>1, <1>3, Greatest
<1>5. ASSUME NEW v \in S PROVE v[1] < m[1] \/ (v[1] = m[1] /\ v[2] <= m[2])
  <2>1. v = m \/ Later(v, m)
    BY <1>4
  <2> QED BY <1>2, <2>1
<1> QED BY <1>5 DEF LatestWeek

-----------------------------------------------------------------------------
(* The inductive invariant.                                                *)

\* Where the handler of a request can be, and what it has of the request there.
RequestInv ==
  /\ req.limit \in Nat
  /\ req = NoRequest => pc = "idle"
  /\ pc # "idle" => answer = NoAnswer /\ seen # <<>> /\ seen[Len(seen)] = Stored
  /\ pc \in {"day", "latest_day", "fallback"} => req.kind = "digest" /\ req.key \in Dates
  /\ pc = "day" => key = req.key
  /\ pc \in {"latest_week", "week"} => req.kind = "screener"
  /\ pc = "latest_week" => ~Given(req.key)
  /\ pc \in {"bars", "indicators"} =>
       req.kind = "series" /\ key = req.key /\ key[1] \in Int /\ key[2] \in Int
  /\ pc = "live" =>
       /\ req.kind = "live" /\ key = req.key
       /\ key \in Snapshots /\ req.category \in AskedCategories

\* What the earlier queries of the request saw: the date asked for, empty; then the
\* latest date, or the latest week, of a version of the table.
SawEmpty(m) == \E k \in 1 .. m : Rows(k, req.key) = <<>>
WasLatestDate(m, d) == LatestOf(Published(seen[m].digest)) = d /\ SawEmpty(m)
WasLatestWeek(m, w) ==
  /\ Screened(seen[m].screener) # {}
  /\ w = LatestWeek(Screened(seen[m].screener))

ProgressInv ==
  /\ pc = "latest_day" => SawEmpty(Len(seen))
  /\ pc = "fallback" => \E m \in DOMAIN seen : WasLatestDate(m, key)
  /\ pc = "week" =>
       \/ Given(req.key) /\ key = req.key
       \/ ~Given(req.key) /\ \E m \in DOMAIN seen : WasLatestWeek(m, key)

\* What is answered, as the queries and computeLiveDigest return it.
AnswerInv ==
  answer.status = "found" =>
    /\ req.kind = "digest" => answer.key \in Dates
    /\ req.kind = "series" =>
         /\ req.key[1] \in Int /\ req.key[2] \in Int
         /\ \E n \in DOMAIN seen : answer.rows = InWindow(seen[n].series, req.key)
    /\ req.kind = "live" =>
         /\ req.key \in Snapshots /\ req.category \in AskedCategories
         /\ answer.rows \in Compute(req.key, req.category, req.limit)

IInv ==
  /\ TypeOK /\ RequestInv /\ ProgressInv /\ AnswerInv
  /\ FoundWasPublished /\ NotFoundJustified

LEMMA InvInit == Init => IInv
<1> SUFFICES ASSUME Init PROVE IInv
  OBVIOUS
<1>1. TypeOK
  <2>1. answer.status = "none"
    BY DEF Init, NoAnswer, Reply
  <2>2. seen \in Seq(Tables) /\ Len(seen) = 0 /\ 0 <= MaxLoads + 1
    BY LimitsAssumption, EmptySeq DEF Init
  <2> QED BY <2>1, <2>2 DEF Init, TypeOK
<1>2. RequestInv /\ ProgressInv /\ AnswerInv
  BY DEF Init, RequestInv, ProgressInv, AnswerInv, NoRequest, Ask, NoAnswer, Reply
<1>3. FoundWasPublished /\ NotFoundJustified
  BY DEF Init, FoundWasPublished, NotFoundJustified, NoAnswer, Reply
<1> QED BY <1>1, <1>2, <1>3 DEF IInv

\* A request comes in.
LEMMA RequestKeepsInv ==
  ASSUME IInv, NEW r, NEW l, Request(r, l), r # NoRequest, r.limit \in Nat,
         \/ l = "day" /\ r.kind = "digest" /\ r.key \in Dates
         \/ l = "latest_week" /\ r.kind = "screener" /\ ~Given(r.key)
         \/ l = "week" /\ r.kind = "screener" /\ r.key \in AskedWeeks /\ Given(r.key)
         \/ /\ l = "live" /\ r.kind = "live"
            /\ r.key \in Snapshots /\ r.category \in AskedCategories
         \/ /\ l \in {"bars", "indicators"} /\ r.kind = "series"
            /\ r.key[1] \in Int /\ r.key[2] \in Int
  PROVE  IInv'
<1>1. TypeOK
  BY DEF IInv
<1>2. /\ req' = r /\ pc' = l /\ key' = r.key /\ answer' = NoAnswer
      /\ seen' = <<Stored>> /\ failed' = FALSE /\ UNCHANGED tables
  BY DEF Request
<1>3. Stored \in Tables /\ Stored' = Stored
  BY <1>1, <1>2 DEF TypeOK, Stored, Tables, tables
<1>4. seen' \in Seq(Tables) /\ Len(seen') = 1 /\ seen'[1] = Stored /\ seen' # <<>>
  BY <1>2, <1>3
<1>5. TypeOK'
  <2>1. answer'.status = "none"
    BY <1>2 DEF NoAnswer, Reply
  <2>2. seen' \in Seq(Tables) /\ Len(seen') <= MaxLoads + 1
    BY <1>4, LimitsAssumption
  <2>3. /\ pc' \in {"day", "latest_week", "week", "live", "bars", "indicators"}
        /\ pc' = "day" => key' \in Dates
        /\ pc' = "week" => key' \in AskedWeeks /\ Given(key')
    BY <1>2
  <2> HIDE DEF Tables
  <2> QED BY <1>1, <1>2, <2>1, <2>2, <2>3 DEF TypeOK, tables
<1>6. RequestInv'
  BY <1>2, <1>3, <1>4 DEF RequestInv
<1>7. ProgressInv'
  BY <1>2 DEF ProgressInv
<1>8. AnswerInv' /\ FoundWasPublished' /\ NotFoundJustified'
  BY <1>2 DEF AnswerInv, FoundWasPublished, NotFoundJustified, NoAnswer, Reply
<1> QED BY <1>5, <1>6, <1>7, <1>8 DEF IInv

LEMMA RequestsKeepInv ==
  ASSUME IInv,
         \/ \E d \in Dates, c \in AskedCategories, n \in Limits : GetDigest(d, c, n)
         \/ \E w \in AskedWeeks : GetScreener(w)
         \/ \E t \in Snapshots, c \in AskedCategories, n \in Limits : GetDigestLive(t, c, n)
         \/ \E f, t \in Days \cup {None}, l \in {"bars", "indicators"} : GetSeries(f, t, l)
  PROVE  IInv'
<1>1. ASSUME NEW d \in Dates, NEW c \in AskedCategories, NEW n \in Limits, GetDigest(d, c, n)
      PROVE  IInv'
  <2> DEFINE r == Ask("digest", d, c, n)
  <2>1. r # NoRequest /\ r.limit \in Nat /\ r.kind = "digest" /\ r.key \in Dates
    BY LimitsAssumption DEF Ask, NoRequest
  <2>2. Request(r, "day")
    BY <1>1 DEF GetDigest
  <2> HIDE DEF r
  <2> QED BY <2>1, <2>2, RequestKeepsInv
<1>2. ASSUME NEW w \in AskedWeeks, GetScreener(w)
      PROVE  IInv'
  <2> DEFINE r == Ask("screener", w, AnyCategory, 0)
             l == IF Given(w) THEN "week" ELSE "latest_week"
  <2>1. r # NoRequest /\ r.limit \in Nat /\ r.kind = "screener" /\ r.key = w
    BY DEF Ask, NoRequest
  <2>2. Request(r, l)
    BY <1>2 DEF GetScreener
  <2>3. (l = "latest_week" /\ ~Given(w)) \/ (l = "week" /\ Given(w))
    OBVIOUS
  <2> HIDE DEF r, l
  <2> QED BY <2>1, <2>2, <2>3, RequestKeepsInv
<1>3. ASSUME NEW t \in Snapshots, NEW c \in AskedCategories, NEW n \in Limits,
             GetDigestLive(t, c, n)
      PROVE  IInv'
  <2> DEFINE r == Ask("live", t, c, n)
  <2>1. /\ r # NoRequest /\ r.limit \in Nat /\ r.kind = "live"
        /\ r.key \in Snapshots /\ r.category \in AskedCategories
    BY LimitsAssumption DEF Ask, NoRequest
  <2>2. Request(r, "live")
    BY <1>3 DEF GetDigestLive
  <2> HIDE DEF r
  <2> QED BY <2>1, <2>2, RequestKeepsInv
<1>4. ASSUME NEW f \in Days \cup {None}, NEW t \in Days \cup {None},
             NEW l \in {"bars", "indicators"}, GetSeries(f, t, l)
      PROVE  IInv'
  <2> DEFINE r == Ask("series", Window(f, t), AnyCategory, 0)
  <2>1. Window(f, t)[1] \in Int /\ Window(f, t)[2] \in Int
    BY DaysAssumption DEF Window
  <2>2. /\ r # NoRequest /\ r.limit \in Nat /\ r.kind = "series"
        /\ r.key[1] \in Int /\ r.key[2] \in Int
    BY <2>1 DEF Ask, NoRequest
  <2>3. Request(r, l)
    BY <1>4 DEF GetSeries
  <2> HIDE DEF r
  <2> QED BY <2>2, <2>3, RequestKeepsInv
<1> QED BY <1>1, <1>2, <1>3, <1>4

\* The handler answers: what is left to show is that the answer is a good one.
LEMMA AnswerKeepsInv ==
  ASSUME IInv, NEW a, Answer(a), failed' \in BOOLEAN,
         a.status \in {"found", "not_found", "query_error"},
         a.status = "found" => Len(a.rows) > 0 \/ req.kind = "live",
         AnswerInv', FoundWasPublished', NotFoundJustified'
  PROVE  IInv'
<1>1. TypeOK /\ RequestInv
  BY DEF IInv
<1>2. /\ answer' = a /\ pc' = "idle" /\ key' = None
      /\ UNCHANGED <<digest, screener, series, req, seen>>
  BY DEF Answer, tables
<1>3. TypeOK'
  BY <1>1, <1>2 DEF TypeOK
<1>4. RequestInv' /\ ProgressInv'
  BY <1>1, <1>2 DEF RequestInv, ProgressInv
<1> QED BY <1>3, <1>4 DEF IInv

\* An error of a query is answered as one.
LEMMA ErrorKeepsInv ==
  ASSUME IInv, Fail(QueryError)
  PROVE  IInv'
<1>1. Answer(QueryError) /\ failed' = TRUE /\ answer' = QueryError
  BY DEF Fail, Answer
<1>2. QueryError.status = "query_error"
  BY DEF QueryError, Reply
<1>3. AnswerInv' /\ FoundWasPublished' /\ NotFoundJustified'
  BY <1>1, <1>2 DEF AnswerInv, FoundWasPublished, NotFoundJustified
<1> QED BY <1>1, <1>2, <1>3, AnswerKeepsInv

\* A 404: only NotFoundJustified speaks of it.
LEMMA NotFoundKeepsInv ==
  ASSUME IInv, Answer(NotFound), failed' \in BOOLEAN, NotFoundJustified'
  PROVE  IInv'
<1>1. answer' = NotFound
  BY DEF Answer
<1>2. NotFound.status = "not_found"
  BY DEF NotFound, Reply
<1>3. AnswerInv' /\ FoundWasPublished'
  BY <1>1, <1>2 DEF AnswerInv, FoundWasPublished
<1> QED BY <1>1, <1>2, <1>3, AnswerKeepsInv

\* The handler goes on to its next query.
LEMMA GotoKeepsInv ==
  ASSUME IInv, NEW l, NEW k, Goto(l, k), pc # "idle",
         \/ l = "latest_day" /\ req.kind = "digest" /\ req.key \in Dates /\ SawEmpty(Len(seen))
         \/ /\ l = "fallback" /\ req.kind = "digest" /\ req.key \in Dates /\ k \in Dates
            /\ \E m \in DOMAIN seen : WasLatestDate(m, k)
         \/ /\ l = "week" /\ req.kind = "screener" /\ ~Given(req.key)
            /\ k \in AskedWeeks /\ Given(k)
            /\ \E m \in DOMAIN seen : WasLatestWeek(m, k)
  PROVE  IInv'
<1>1. TypeOK /\ RequestInv /\ AnswerInv /\ FoundWasPublished /\ NotFoundJustified
  BY DEF IInv
<1>2. /\ pc' = l /\ key' = k
      /\ UNCHANGED <<digest, screener, series, req, answer, seen, failed>>
  BY DEF Goto, tables
<1>3. TypeOK'
  BY <1>1, <1>2 DEF TypeOK
<1>4. RequestInv'
  BY <1>1, <1>2 DEF RequestInv, Stored
<1>5. ProgressInv'
  BY <1>2 DEF ProgressInv, SawEmpty, Rows, WasLatestDate, WasLatestWeek
<1>6. AnswerInv' /\ FoundWasPublished' /\ NotFoundJustified'
  <2>1. answer = NoAnswer /\ answer' = NoAnswer
    BY <1>1, <1>2 DEF RequestInv
  <2> QED BY <2>1 DEF AnswerInv, FoundWasPublished, NotFoundJustified, NoAnswer, Reply
<1> QED BY <1>3, <1>4, <1>5, <1>6 DEF IInv

\* While a handler is at work, seen ends with the tables as they are.
LEMMA LastSeen ==
  ASSUME IInv, pc # "idle"
  PROVE  /\ Len(seen) \in DOMAIN seen /\ DOMAIN seen = 1 .. Len(seen) /\ Len(seen) \in Nat
         /\ \A n \in DOMAIN seen : seen[n] \in Tables
         /\ seen[Len(seen)].digest = digest
         /\ seen[Len(seen)].screener = screener
         /\ seen[Len(seen)].series = series
<1>1. seen \in Seq(Tables) /\ seen # <<>> /\ seen[Len(seen)] = Stored
  BY DEF IInv, TypeOK, RequestInv
<1> HIDE DEF Tables
<1>2. Len(seen) \in Nat \ {0} /\ DOMAIN seen = 1 .. Len(seen)
  BY <1>1, EmptySeq, LenProperties
<1> QED BY <1>1, <1>2, ElementOfSeq DEF Stored

\* Whichever query it is that gave a digest's rows.
LEMMA RowsFacts ==
  ASSUME IInv, pc # "idle", key \in Dates
  PROVE  LET rows == QueryDigest(digest[key], req.category, req.limit)
         IN  /\ rows = Rows(Len(seen), key)
             /\ rows # <<>> => Len(rows) > 0
<1>1. digest[key] \in Editions /\ req.limit \in Nat
  BY DEF IInv, TypeOK, RequestInv
<1>2. QueryDigest(digest[key], req.category, req.limit) \in Seq(digest[key])
  BY <1>1, QueryDigestFacts
<1> QED BY <1>2, LastSeen, EmptySeq DEF Rows

LEMMA QueryDayKeepsInv ==
  ASSUME IInv, QueryDay
  PROVE  IInv'
<1> DEFINE rows == QueryDigest(digest[key], req.category, req.limit)
<1>1. pc = "day" /\ key = req.key /\ key \in Dates /\ req.kind = "digest"
  BY DEF QueryDay, IInv, TypeOK, RequestInv
<1>2. rows = Rows(Len(seen), key) /\ (rows # <<>> => Len(rows) > 0)
  BY <1>1, RowsFacts
<1>3. Len(seen) \in DOMAIN seen /\ DOMAIN seen = 1 .. Len(seen) /\ Len(seen) \in Nat
  BY <1>1, LastSeen
<1>4. \/ rows # <<>> /\ Succeed(Reply("found", key, rows, FALSE))
      \/ rows = <<>> /\ Goto("latest_day", None)
      \/ Fail(QueryError)
  BY DEF QueryDay
<1> HIDE DEF rows
<1>5. CASE rows # <<>> /\ Succeed(Reply("found", key, rows, FALSE))
  <2> DEFINE a == Reply("found", key, rows, FALSE)
  <2>1. a.status = "found" /\ a.key = key /\ a.rows = rows /\ a.fallback = FALSE
    BY DEF Reply
  <2>2. Answer(a) /\ failed' \in BOOLEAN /\ answer' = a /\ UNCHANGED <<req, seen>>
    BY <1>5 DEF Succeed, Answer, IInv, TypeOK
  <2> HIDE DEF a
  <2>3. AnswerInv' /\ NotFoundJustified'
    BY <1>1, <2>1, <2>2 DEF AnswerInv, NotFoundJustified
  <2>4. FoundWasPublished'
    BY <1>1, <1>2, <1>3, <2>1, <2>2 DEF FoundWasPublished, Rows
  <2> QED BY <1>2, <1>5, <2>1, <2>2, <2>3, <2>4, AnswerKeepsInv
<1>6. CASE rows = <<>> /\ Goto("latest_day", None)
  <2>1. SawEmpty(Len(seen))
    BY <1>1, <1>2, <1>3, <1>6 DEF SawEmpty
  <2> QED BY <1>1, <1>6, <2>1, GotoKeepsInv
<1> QED BY <1>4, <1>5, <1>6, ErrorKeepsInv

LEMMA LatestDigestDateKeepsInv ==
  ASSUME IInv, LatestDigestDate
  PROVE  IInv'
<1>1. pc = "latest_day" /\ req.kind = "digest" /\ req.key \in Dates /\ SawEmpty(Len(seen))
  BY DEF LatestDigestDate, IInv, RequestInv, ProgressInv
<1>2. /\ Len(seen) \in DOMAIN seen /\ Len(seen) \in 1 .. Len(seen)
      /\ seen[Len(seen)].digest = digest
  BY <1>1, LastSeen
<1>3. digest \in [Dates -> Editions] /\ failed \in BOOLEAN
  BY DEF IInv, TypeOK
<1>4. CASE Published(digest) # {} /\ Goto("fallback", LatestOf(Published(digest)))
  <2>1. LatestOf(Published(digest)) \in Dates
    BY <1>3, <1>4, LatestOfFacts DEF Published
  <2>2. WasLatestDate(Len(seen), LatestOf(Published(digest)))
    BY <1>1, <1>2 DEF WasLatestDate
  <2> QED BY <1>1, <1>2, <1>4, <2>1, <2>2, GotoKeepsInv
<1>5. CASE Published(digest) = {} /\ Succeed(NotFound)
  <2>1. LatestOf(Published(seen[Len(seen)].digest)) = None
    BY <1>2, <1>3, <1>5, LatestOfFacts
  <2>2. UNCHANGED <<req, seen, failed>> /\ Answer(NotFound)
    BY <1>5 DEF Succeed, Answer
  <2>3. NotFoundJustified'
    BY <1>1, <1>2, <2>1, <2>2 DEF NotFoundJustified, SawEmpty, Rows
  <2> QED BY <1>3, <2>2, <2>3, NotFoundKeepsInv
<1>6. CASE Fail(NotFound)
  <2>1. Answer(NotFound) /\ failed' = TRUE /\ UNCHANGED <<req, seen>>
    BY <1>6 DEF Fail, Answer
  <2>2. NotFoundJustified'
    BY <1>1, <1>2, <2>1 DEF NotFoundJustified, SawEmpty, Rows
  <2> QED BY <2>1, <2>2, NotFoundKeepsInv
<1> QED BY <1>4, <1>5, <1>6 DEF LatestDigestDate

LEMMA FallbackKeepsInv ==
  ASSUME IInv, Fallback
  PROVE  IInv'
<1> DEFINE rows == QueryDigest(digest[key], req.category, req.limit)
           last == Len(seen)
<1>1. /\ pc = "fallback" /\ key \in Dates /\ req.kind = "digest"
      /\ failed \in BOOLEAN
  BY DEF Fallback, IInv, TypeOK, RequestInv
<1>2. rows = Rows(last, key) /\ (rows # <<>> => Len(rows) > 0)
  BY <1>1, RowsFacts
<1>3. last \in DOMAIN seen /\ DOMAIN seen = 1 .. last /\ last \in Nat
  BY <1>1, LastSeen
<1>4. PICK m \in DOMAIN seen : WasLatestDate(m, key)
  BY <1>1 DEF IInv, ProgressInv
<1>5. \/ rows # <<>> /\ Succeed(Reply("found", key, rows, TRUE))
      \/ rows = <<>> /\ Succeed(NotFound)
      \/ Fail(QueryError)
  BY DEF Fallback
<1> HIDE DEF rows
<1>6. CASE rows # <<>> /\ Succeed(Reply("found", key, rows, TRUE))
  <2> DEFINE a == Reply("found", key, rows, TRUE)
  <2>1. a.status = "found" /\ a.key = key /\ a.rows = rows /\ a.fallback = TRUE
    BY DEF Reply
  <2>2. Answer(a) /\ failed' \in BOOLEAN /\ answer' = a /\ UNCHANGED <<req, seen>>
    BY <1>1, <1>6 DEF Succeed, Answer
  <2> HIDE DEF a
  <2>3. AnswerInv' /\ NotFoundJustified'
    BY <1>1, <2>1, <2>2 DEF AnswerInv, NotFoundJustified
  <2>4. FoundWasPublished'
    <3>1. m \in 1 .. last
      BY <1>3, <1>4
    <3>2. PICK k \in 1 .. m : Rows(k, req.key) = <<>>
      BY <1>4 DEF WasLatestDate, SawEmpty
    <3>3. LatestOf(Published(seen[m].digest)) = key
      BY <1>4 DEF WasLatestDate
    <3> QED BY <1>1, <1>2, <1>3, <2>1, <2>2, <3>1, <3>2, <3>3 DEF FoundWasPublished, Rows
  <2> QED BY <1>2, <1>6, <2>1, <2>2, <2>3, <2>4, AnswerKeepsInv
<1>7. CASE rows = <<>> /\ Succeed(NotFound)
  <2>1. UNCHANGED <<req, seen, failed>> /\ Answer(NotFound)
    BY <1>7 DEF Succeed, Answer
  <2>2. m \in 1 .. last /\ SawEmpty(m) /\ key = LatestOf(Published(seen[m].digest))
    BY <1>3, <1>4 DEF WasLatestDate
  <2>3. NotFoundJustified'
    BY <1>1, <1>2, <1>3, <1>7, <2>1, <2>2 DEF NotFoundJustified, SawEmpty, Rows
  <2> QED BY <1>1, <2>1, <2>3, NotFoundKeepsInv
<1> QED BY <1>5, <1>6, <1>7, ErrorKeepsInv

LEMMA LatestScreenerWeekKeepsInv ==
  ASSUME IInv, LatestScreenerWeek
  PROVE  IInv'
<1>1. pc = "latest_week" /\ req.kind = "screener" /\ ~Given(req.key)
  BY DEF LatestScreenerWeek, IInv, RequestInv
<1>2. /\ Len(seen) \in DOMAIN seen /\ Len(seen) \in 1 .. Len(seen)
      /\ seen[Len(seen)].screener = screener
  BY <1>1, LastSeen
<1>3. Screened(screener) \subseteq Weeks /\ failed \in BOOLEAN
  BY DEF Screened, IInv, TypeOK
<1>4. CASE /\ Screened(screener) # {}
           /\ Goto("week", LatestWeek(Screened(screener)))
  <2> DEFINE w == LatestWeek(Screened(screener))
  <2>1. w \in Weeks
    BY <1>3, <1>4, LatestWeekFacts
  <2>2. WasLatestWeek(Len(seen), w)
    BY <1>2, <1>4 DEF WasLatestWeek
  <2> HIDE DEF w
  <2>3. w = <<w[1], w[2]>> /\ w[1] \in Years /\ w[2] \in Numbers
    BY <2>1, WeeksAssumption DEF Years, Numbers
  <2>4. w \in AskedWeeks /\ Given(w)
    BY <2>3, NoneAssumption DEF AskedWeeks, Given
  <2> QED BY <1>1, <1>2, <1>4, <2>2, <2>4, GotoKeepsInv DEF w
<1>5. CASE Screened(screener) = {} /\ Succeed(NotFound)
  <2>1. UNCHANGED <<req, seen, failed>> /\ Answer(NotFound)
    BY <1>5 DEF Succeed, Answer
  <2>2. NotFoundJustified'
    BY <1>1, <1>2, <1>5, <2>1 DEF NotFoundJustified
  <2> QED BY <1>3, <2>1, <2>2, NotFoundKeepsInv
<1> QED BY <1>4, <1>5, ErrorKeepsInv DEF LatestScreenerWeek

LEMMA QueryScreenerKeepsInv ==
  ASSUME IInv, QueryScreener
  PROVE  IInv'
<1> DEFINE W == WeekRows(screener, key)
           rows == SetToSeq(W)
           last == Len(seen)
<1>1. /\ pc = "week" /\ req.kind = "screener" /\ failed \in BOOLEAN
      /\ screener \in [Weeks -> Results]
      /\ \/ Given(req.key) /\ key = req.key
         \/ ~Given(req.key) /\ \E m \in DOMAIN seen : WasLatestWeek(m, key)
  BY DEF QueryScreener, IInv, TypeOK, RequestInv, ProgressInv
<1>2. last \in DOMAIN seen /\ DOMAIN seen = 1 .. last /\ last \in Nat
      /\ seen[last].screener = screener
  BY <1>1, LastSeen
<1>3. IsFiniteSet(W)
  BY <1>1, ResultsAssumption, FS_EmptySet DEF WeekRows
<1>4. /\ ToSet(rows) = W /\ (rows = <<>> <=> W = {})
      /\ rows # <<>> => Len(rows) > 0
  <2> HIDE DEF W
  <2> QED BY <1>3, SetToSeqFacts, EmptySeq
<1>5. \/ rows # <<>> /\ Succeed(Reply("found", key, rows, FALSE))
      \/ rows = <<>> /\ Succeed(NotFound)
      \/ Fail(QueryError)
  BY DEF QueryScreener
<1> HIDE DEF rows
<1>6. CASE rows # <<>> /\ Succeed(Reply("found", key, rows, FALSE))
  <2> DEFINE a == Reply("found", key, rows, FALSE)
  <2>1. a.status = "found" /\ a.key = key /\ a.rows = rows
    BY DEF Reply
  <2>2. Answer(a) /\ failed' \in BOOLEAN /\ answer' = a /\ UNCHANGED <<req, seen>>
    BY <1>1, <1>6 DEF Succeed, Answer
  <2> HIDE DEF a
  <2>3. AnswerInv' /\ NotFoundJustified'
    BY <1>1, <2>1, <2>2 DEF AnswerInv, NotFoundJustified
  <2>4. FoundWasPublished'
    <3>1. ToSet(a.rows) = WeekRows(seen[last].screener, a.key)
      BY <1>2, <1>4, <2>1
    <3>2. a.key = req.key \/ \E m \in 1 .. last :
                               a.key = LatestWeek(Screened(seen[m].screener))
      BY <1>1, <1>2, <2>1 DEF WasLatestWeek
    <3> QED BY <1>1, <1>2, <2>2, <3>1, <3>2 DEF FoundWasPublished
  <2> QED BY <1>4, <1>6, <2>1, <2>2, <2>3, <2>4, AnswerKeepsInv
<1>7. CASE rows = <<>> /\ Succeed(NotFound)
  <2>1. UNCHANGED <<req, seen, failed>> /\ Answer(NotFound)
    BY <1>7 DEF Succeed, Answer
  <2>2. WeekRows(seen[last].screener, key) = {}
    BY <1>2, <1>4, <1>7
  <2>3. CASE Given(req.key) /\ key = req.key
    <3>1. NotFoundJustified'
      BY <1>1, <1>2, <2>1, <2>2, <2>3 DEF NotFoundJustified
    <3> QED BY <1>1, <2>1, <3>1, NotFoundKeepsInv
  <2>4. ASSUME ~Given(req.key), NEW m \in DOMAIN seen, WasLatestWeek(m, key)
        PROVE  IInv'
    <3>1. m \in 1 .. last /\ key = LatestWeek(Screened(seen[m].screener))
      BY <1>2, <2>4 DEF WasLatestWeek
    <3>2. NotFoundJustified'
      BY <1>1, <1>2, <2>1, <2>2, <2>4, <3>1 DEF NotFoundJustified
    <3> QED BY <1>1, <2>1, <3>2, NotFoundKeepsInv
  <2> QED BY <1>1, <2>3, <2>4
<1> QED BY <1>5, <1>6, <1>7, ErrorKeepsInv

LEMMA AllRowsKeepsInv ==
  ASSUME IInv, pc \in {"bars", "indicators"}, AllRows
  PROVE  IInv'
<1> DEFINE rows == InWindow(series, key)
           last == Len(seen)
<1>1. /\ req.kind = "series" /\ key = req.key /\ key[1] \in Int /\ key[2] \in Int
      /\ failed \in BOOLEAN /\ series \in Histories
  BY DEF IInv, TypeOK, RequestInv
<1>2. last \in DOMAIN seen /\ seen[last].series = series
  BY LastSeen
<1>3. rows # <<>> => Len(rows) > 0
  BY <1>1, InWindowFacts, EmptySeq
<1>4. \/ rows # <<>> /\ Succeed(Reply("found", None, rows, FALSE))
      \/ rows = <<>> /\ Succeed(NotFound)
      \/ Fail(QueryError)
  BY DEF AllRows
<1> HIDE DEF rows
<1>5. CASE rows # <<>> /\ Succeed(Reply("found", None, rows, FALSE))
  <2> DEFINE a == Reply("found", None, rows, FALSE)
  <2>1. a.status = "found" /\ a.rows = rows
    BY DEF Reply
  <2>2. Answer(a) /\ failed' \in BOOLEAN /\ answer' = a /\ UNCHANGED <<req, seen>>
    BY <1>1, <1>5 DEF Succeed, Answer
  <2> HIDE DEF a
  <2>3. FoundWasPublished' /\ NotFoundJustified'
    BY <1>1, <2>1, <2>2 DEF FoundWasPublished, NotFoundJustified
  <2>4. AnswerInv'
    BY <1>1, <1>2, <2>1, <2>2 DEF AnswerInv, rows
  <2> QED BY <1>3, <1>5, <2>1, <2>2, <2>3, <2>4, AnswerKeepsInv
<1>6. CASE rows = <<>> /\ Succeed(NotFound)
  <2>1. UNCHANGED <<req, seen, failed>> /\ Answer(NotFound)
    BY <1>6 DEF Succeed, Answer
  <2>2. NotFoundJustified'
    BY <1>1, <1>2, <1>6, <2>1 DEF NotFoundJustified, rows
  <2> QED BY <1>1, <2>1, <2>2, NotFoundKeepsInv
<1> QED BY <1>4, <1>5, <1>6, ErrorKeepsInv

LEMMA ComputeLiveDigestKeepsInv ==
  ASSUME IInv, ComputeLiveDigest
  PROVE  IInv'
<1>1. /\ req.kind = "live" /\ key = req.key /\ key \in Snapshots
      /\ req.category \in AskedCategories /\ failed \in BOOLEAN
  BY DEF ComputeLiveDigest, IInv, TypeOK, RequestInv
<1>2. ASSUME NEW rows \in Compute(key, req.category, req.limit),
             Succeed(Reply("found", None, rows, FALSE))
      PROVE  IInv'
  <2> DEFINE a == Reply("found", None, rows, FALSE)
  <2>1. a.status = "found" /\ a.rows = rows
    BY DEF Reply
  <2>2. Answer(a) /\ failed' \in BOOLEAN /\ answer' = a /\ UNCHANGED <<req, seen>>
    BY <1>1, <1>2 DEF Succeed, Answer
  <2> HIDE DEF a
  <2>3. FoundWasPublished' /\ NotFoundJustified'
    BY <1>1, <2>1, <2>2 DEF FoundWasPublished, NotFoundJustified
  <2>4. AnswerInv'
    BY <1>1, <1>2, <2>1, <2>2 DEF AnswerInv
  <2> QED BY <1>1, <2>1, <2>2, <2>3, <2>4, AnswerKeepsInv
<1> QED BY <1>2, ErrorKeepsInv DEF ComputeLiveDigest

\* A batch job writes while a handler is between two of its queries.
LEMMA LoadedKeepsInv ==
  ASSUME IInv, Loaded,
         digest' \in [Dates -> Editions], screener' \in [Weeks -> Results],
         series' \in Histories
  PROVE  IInv'
<1>1. TypeOK /\ RequestInv /\ ProgressInv
  BY DEF IInv
<1>2. /\ pc # "idle" /\ Len(seen) <= MaxLoads /\ seen' = Append(seen, Stored')
      /\ UNCHANGED <<req, pc, key, answer, failed>>
  BY DEF Loaded
<1>3. Stored' \in Tables
  BY DEF Stored, Tables
<1> HIDE DEF Tables
<1>4. seen \in Seq(Tables) /\ Len(seen) \in Nat /\ DOMAIN seen = 1 .. Len(seen)
  BY <1>1, LenProperties DEF TypeOK
<1>5. /\ seen' \in Seq(Tables) /\ Len(seen') = Len(seen) + 1
      /\ DOMAIN seen' = 1 .. Len(seen) + 1 /\ seen' # <<>>
      /\ seen'[Len(seen')] = Stored'
      /\ \A n \in DOMAIN seen : seen'[n] = seen[n]
  BY <1>2, <1>3, <1>4, AppendProperties
<1>6. TypeOK'
  BY <1>1, <1>2, <1>4, <1>5, LimitsAssumption DEF TypeOK
<1>7. RequestInv'
  BY <1>1, <1>2, <1>5 DEF RequestInv
<1>8. ProgressInv'
  <2>1. ASSUME NEW m \in 1 .. Len(seen), SawEmpty(m) PROVE SawEmpty(m)'
    BY <1>2, <1>4, <1>5, <2>1 DEF SawEmpty, Rows
  <2>2. ASSUME SawEmpty(Len(seen)) PROVE SawEmpty(Len(seen))'
    <3>1. PICK k \in 1 .. Len(seen) : Rows(k, req.key) = <<>>
      BY <2>2 DEF SawEmpty
    <3>2. k \in 1 .. Len(seen') /\ Rows(k, req.key)' = <<>>
      BY <1>2, <1>4, <1>5, <3>1 DEF Rows
    <3> QED BY <3>2 DEF SawEmpty
  <2>3. ASSUME NEW m \in DOMAIN seen, WasLatestDate(m, key)
        PROVE  m \in DOMAIN seen' /\ WasLatestDate(m, key)'
    BY <1>2, <1>4, <1>5, <2>1, <2>3 DEF WasLatestDate
  <2>4. ASSUME NEW m \in DOMAIN seen, WasLatestWeek(m, key)
        PROVE  m \in DOMAIN seen' /\ WasLatestWeek(m, key)'
    BY <1>2, <1>4, <1>5, <2>4 DEF WasLatestWeek
  <2> QED BY <1>1, <1>2, <2>2, <2>3, <2>4 DEF ProgressInv
<1>9. AnswerInv' /\ FoundWasPublished' /\ NotFoundJustified'
  <2>1. answer' = NoAnswer
    BY <1>1, <1>2 DEF RequestInv
  <2> QED BY <2>1 DEF AnswerInv, FoundWasPublished, NotFoundJustified, NoAnswer, Reply
<1> QED BY <1>6, <1>7, <1>8, <1>9 DEF IInv

LEMMA LoadsKeepInv ==
  ASSUME IInv,
         \/ \E d \in Dates, E \in Editions : LoadDigest(d, E)
         \/ \E w \in Weeks, R \in Results : LoadScreener(w, R)
         \/ \E S \in Histories : LoadSeries(S)
  PROVE  IInv'
<1>1. /\ digest \in [Dates -> Editions] /\ screener \in [Weeks -> Results]
      /\ series \in Histories
  BY DEF IInv, TypeOK
<1>2. ASSUME NEW d \in Dates, NEW E \in Editions, LoadDigest(d, E) PROVE IInv'
  BY <1>1, <1>2, LoadedKeepsInv DEF LoadDigest
<1>3. ASSUME NEW w \in Weeks, NEW R \in Results, LoadScreener(w, R) PROVE IInv'
  BY <1>1, <1>3, LoadedKeepsInv DEF LoadScreener
<1>4. ASSUME NEW S \in Histories, LoadSeries(S) PROVE IInv'
  BY <1>1, <1>4, LoadedKeepsInv DEF LoadSeries
<1> QED BY <1>2, <1>3, <1>4

LEMMA ReturnKeepsInv ==
  ASSUME IInv, Return
  PROVE  IInv'
<1>1. TypeOK /\ RequestInv
  BY DEF IInv
<1>2. /\ req' = NoRequest /\ answer' = NoAnswer /\ seen' = <<>> /\ failed' = FALSE
      /\ UNCHANGED <<digest, screener, series, pc, key>> /\ answer # NoAnswer
  BY DEF Return, tables
<1>3. pc' = "idle"
  BY <1>1, <1>2 DEF RequestInv
<1>4. TypeOK'
  <2>1. answer'.status = "none"
    BY <1>2 DEF NoAnswer, Reply
  <2>2. seen' \in Seq(Tables) /\ Len(seen') <= MaxLoads + 1
    BY <1>2, LimitsAssumption, EmptySeq
  <2> HIDE DEF Tables
  <2> QED BY <1>1, <1>2, <1>3, <2>1, <2>2 DEF TypeOK
<1>5. RequestInv' /\ ProgressInv'
  BY <1>2, <1>3 DEF RequestInv, ProgressInv, NoRequest, Ask
<1>6. AnswerInv' /\ FoundWasPublished' /\ NotFoundJustified'
  BY <1>2 DEF AnswerInv, FoundWasPublished, NotFoundJustified, NoAnswer, Reply
<1> QED BY <1>4, <1>5, <1>6 DEF IInv

LEMMA StutterKeepsInv ==
  ASSUME IInv, UNCHANGED vars
  PROVE  IInv'
<1>1. UNCHANGED <<digest, screener, series, req, pc, key, answer, seen, failed>>
  BY DEF vars, tables
<1>2. TypeOK' /\ RequestInv' /\ AnswerInv'
  BY <1>1 DEF IInv, TypeOK, RequestInv, AnswerInv, Stored
<1>3. ProgressInv'
  BY <1>1 DEF IInv, ProgressInv, SawEmpty, Rows, WasLatestDate, WasLatestWeek
<1>4. FoundWasPublished'
  BY <1>1 DEF IInv, FoundWasPublished, Rows
<1>5. NotFoundJustified'
  BY <1>1 DEF IInv, NotFoundJustified, Rows
<1> QED BY <1>2, <1>3, <1>4, <1>5 DEF IInv

LEMMA InvStep == IInv /\ [Next]_vars => IInv'
<1> SUFFICES ASSUME IInv, [Next]_vars PROVE IInv'
  OBVIOUS
<1>1. CASE QueryDay
  BY <1>1, QueryDayKeepsInv
<1>2. CASE LatestDigestDate
  BY <1>2, LatestDigestDateKeepsInv
<1>3. CASE Fallback
  BY <1>3, FallbackKeepsInv
<1>4. CASE LatestScreenerWeek
  BY <1>4, LatestScreenerWeekKeepsInv
<1>5. CASE QueryScreener
  BY <1>5, QueryScreenerKeepsInv
<1>6. CASE QueryOHLCV \/ QueryIndicators
  BY <1>6, AllRowsKeepsInv DEF QueryOHLCV, QueryIndicators
<1>7. CASE ComputeLiveDigest
  BY <1>7, ComputeLiveDigestKeepsInv
<1>8. CASE Return
  BY <1>8, ReturnKeepsInv
<1>9. CASE UNCHANGED vars
  BY <1>9, StutterKeepsInv
<1> QED BY <1>1, <1>2, <1>3, <1>4, <1>5, <1>6, <1>7, <1>8, <1>9, RequestsKeepInv, LoadsKeepInv
        DEF Next

LEMMA InvHolds == Spec => []IInv
BY InvInit, InvStep, PTL DEF Spec

-----------------------------------------------------------------------------
(* Theorems.                                                               *)

\* The model's types, among them: a report that is found has rows, a fallback has a
\* date to go to, and a screener's query its year and its week.
THEOREM TypeCorrect == Spec => []TypeOK
BY InvHolds, PTL DEF IInv

\* A digest or a week answered is one version of it, under its own date, and a fallback
\* is to what was the latest date after the date asked for had been seen empty, however
\* many times the batch jobs write between the handler's queries.
THEOREM PublishedOnly == Spec => []FoundWasPublished
BY InvHolds, PTL DEF IInv

\* A 404 of a report has a reason: the date, the week or the range it was asked for
\* had nothing, and neither had what was the latest, or was until the batch jobs took
\* it away; only a failed query for the latest date is told from that by nothing.
THEOREM NotFoundHasReason == Spec => []NotFoundJustified
BY InvHolds, PTL DEF IInv

\* Bars and indicators are all the rows of one version of the range, by day.
THEOREM WholeSeries == Spec => []SeriesComplete
<1>1. IInv => SeriesComplete
  <2> SUFFICES ASSUME IInv, answer.status = "found", req.kind = "series"
               PROVE  \E n \in DOMAIN seen :
                        LET days == {r \in seen[n].series : r.day \in req.key[1] .. req.key[2]}
                        IN  /\ ToSet(answer.rows) = days
                            /\ \A i, j \in DOMAIN answer.rows :
                                 i < j => answer.rows[i].day < answer.rows[j].day
    BY DEF SeriesComplete
  <2>1. req.key[1] \in Int /\ req.key[2] \in Int
    BY DEF IInv, AnswerInv
  <2>2. PICK n \in DOMAIN seen : answer.rows = InWindow(seen[n].series, req.key)
    BY DEF IInv, AnswerInv
  <2>3. seen[n].series \in Histories
    <3>1. seen \in Seq(Tables)
      BY DEF IInv, TypeOK
    <3>2. seen[n] \in Tables
      BY <3>1, ElementOfSeq, LenProperties
    <3> QED BY <3>2 DEF Tables
  <2> DEFINE F == {r \in seen[n].series : req.key[1] <= r.day /\ r.day <= req.key[2]}
  <2>4. /\ ToSet(answer.rows) = F
        /\ \A i, j \in DOMAIN answer.rows :
             i < j => answer.rows[i].day < answer.rows[j].day
    BY <2>2, <2>3, InWindowFacts
  <2>5. F = {r \in seen[n].series : r.day \in req.key[1] .. req.key[2]}
    BY <2>1, <2>3, HistoriesAssumption
  <2> QED BY <2>4, <2>5
<1> QED BY <1>1, InvHolds, PTL

\* For a single category the rows of Postgres are those the Parquet files would give,
\* since a category's ranks have no gaps: a limit on rows is a limit on ranks.
THEOREM RanksLimited == Spec => []CategoryLimitedByRank
<1>1. IInv => CategoryLimitedByRank
  <2> SUFFICES ASSUME IInv, answer.status = "found", req.kind = "digest",
                      req.category # AnyCategory
               PROVE  \E n \in DOMAIN seen :
                        answer.rows = QueryDigestByRank(seen[n].digest[answer.key],
                                                        req.category, req.limit)
    BY DEF CategoryLimitedByRank
  <2>1. PICK n \in DOMAIN seen : answer.rows = Rows(n, answer.key)
    BY DEF IInv, FoundWasPublished
  <2>2. req.limit \in Nat /\ answer.key \in Dates
    BY DEF IInv, RequestInv, AnswerInv
  <2>3. seen[n].digest[answer.key] \in Editions
    <3>1. seen \in Seq(Tables)
      BY DEF IInv, TypeOK
    <3>2. seen[n] \in Tables
      BY <3>1, ElementOfSeq, LenProperties
    <3> QED BY <2>2, <3>2 DEF Tables
  <2> QED BY <2>1, <2>2, <2>3, LimitsAgree DEF Rows
<1> QED BY <1>1, InvHolds, PTL
=============================================================================
