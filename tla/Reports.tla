------------------------------- MODULE Reports -------------------------------
(***************************************************************************)
(* The report endpoints of the API: GetDigest, GetScreener, GetOHLCV,      *)
(* GetIndicators and GetDigestLive (internal/app/handlers.go) with their   *)
(* queries (internal/store/postgres_market.go).  A report is read by up to *)
(* three queries, none of them in a transaction, from tables that batch    *)
(* jobs rewrite at any moment; the rows of a query come one by one.        *)
(*                                                                         *)
(* The handlers write nothing, so that one of them, against the jobs, is   *)
(* all there is to see.  Requests that fail validation are left out.       *)
(***************************************************************************)
EXTENDS LiveDigest, FiniteSetsExt

CONSTANTS
  Dates,      \* of digests, in order
  Editions,   \* what a job makes of a date: sets of [category, rank, symbol]
  Weeks,      \* <<year, week>> of the screener
  Results,    \* what a job makes of a week: sets of symbols
  Days,       \* of bars and indicators
  Today,
  Span,       \* the 30 days a range goes back when it is not given
  Histories,  \* what a job makes of a symbol: sets of [day, close]
  Limits,
  Snapshots,  \* what the snapshot service may answer: sequences of ticks
  None,
  MaxLoads    \* the writes of jobs during a request

Categories == ToSet(LiveCategories)
AskedCategories == Categories \cup {AnyCategory, "unknown"}
Years == {w[1] : w \in Weeks}
Numbers == {w[2] : w \in Weeks}
Positions(E, c) == {r.rank : r \in {q \in E : q.category = c}}

ASSUME DatesAssumption == Dates \subseteq Nat /\ IsFiniteSet(Dates)
ASSUME DaysAssumption == Days \subseteq Int /\ Today \in Int /\ Span \in Nat
ASSUME LimitsAssumption == Limits \subseteq Nat /\ MaxLoads \in Nat
ASSUME WeeksAssumption == Weeks \subseteq Int \X Int /\ IsFiniteSet(Weeks)
ASSUME NoneAssumption == None \notin Dates \cup Years \cup Numbers
ASSUME ResultsAssumption == \A R \in Results : IsFiniteSet(R)

\* PRIMARY KEY (date, category, rank); the batch job ranks a category from 1.
ASSUME EditionsAssumption ==
  \A E \in Editions :
    /\ IsFiniteSet(E)
    /\ \A r \in E : r.category \in Categories
    /\ \A q, r \in E : q.category = r.category /\ q.rank = r.rank => q = r
    /\ \A c \in Categories : Positions(E, c) = 1 .. Cardinality(Positions(E, c))

\* PRIMARY KEY (symbol, time)
ASSUME HistoriesAssumption ==
  \A S \in Histories :
    /\ IsFiniteSet(S)
    /\ \A r \in S : r.day \in Int
    /\ \A q, r \in S : q.day = r.day => q = r

\* A snapshot has one tick of a symbol.
ASSUME SnapshotsAssumption ==
  \A s \in Snapshots :
    /\ s \in Seq(ToSet(s))
    /\ \A i, j \in DOMAIN s : s[i].symbol = s[j].symbol => i = j

VARIABLES
  digest,    \* table digest_entries: [Dates -> Editions]
  screener,  \* table screener_results: [Weeks -> Results]
  series,    \* the symbol's rows of ohlcv_bars, or of technical_indicators,
             \* the two alike: a member of Histories
  req,       \* the request being served
  pc,        \* the call the handler is about to make
  key,       \* the date or week it is about to query
  answer,
  seen,      \* history: the tables as they were since the request came in
  failed     \* history: a call of this request failed

tables == <<digest, screener, series>>
vars == <<tables, req, pc, key, answer, seen, failed>>

Ask(k, w, c, n) == [category |-> c, key |-> w, kind |-> k, limit |-> n]
NoRequest == Ask("none", None, AnyCategory, 0)
Reply(s, k, r, f) == [key |-> k, status |-> s, rows |-> r, fallback |-> f]
NoAnswer == Reply("none", None, <<>>, FALSE)
NotFound == Reply("not_found", None, <<>>, FALSE)
QueryError == Reply("query_error", None, <<>>, FALSE)

\* A request for the screener may leave out the year, the week or both.
AskedWeeks == (Years \cup {None}) \X (Numbers \cup {None})
Given(w) == w[1] # None /\ w[2] # None

Tables ==
  [digest : [Dates -> Editions], screener : [Weeks -> Results], series : Histories]
Stored == [digest |-> digest, screener |-> screener, series |-> series]

TypeOK ==
  /\ digest \in [Dates -> Editions]
  /\ screener \in [Weeks -> Results]
  /\ series \in Histories
  /\ pc \in {"idle", "day", "latest_day", "fallback", "latest_week", "week", "live",
            "bars", "indicators"}
  /\ pc \in {"day", "fallback"} => key \in Dates
  /\ pc = "week" => key \in AskedWeeks /\ Given(key)
  /\ answer.status \in {"none", "found", "not_found", "query_error"}
  /\ answer.status = "found" => Len(answer.rows) > 0 \/ req.kind = "live"
  /\ seen \in Seq(Tables) /\ Len(seen) <= MaxLoads + 1
  /\ failed \in BOOLEAN

Init ==
  /\ digest \in [Dates -> Editions]
  /\ screener \in [Weeks -> Results]
  /\ series \in Histories
  /\ req = NoRequest
  /\ pc = "idle"
  /\ key = None
  /\ answer = NoAnswer
  /\ seen = <<>>
  /\ failed = FALSE

Request(r, l) ==
  /\ req = NoRequest
  /\ req' = r
  /\ pc' = l
  /\ key' = r.key
  /\ answer' = NoAnswer
  /\ seen' = <<Stored>>
  /\ failed' = FALSE
  /\ UNCHANGED tables

Answer(a) ==
  /\ answer' = a
  /\ pc' = "idle"
  /\ key' = None
  /\ UNCHANGED <<tables, req, seen>>

Succeed(a) == Answer(a) /\ UNCHANGED failed
Fail(a) == Answer(a) /\ failed' = TRUE

\* The handler has returned.
Return ==
  /\ answer # NoAnswer
  /\ req' = NoRequest
  /\ answer' = NoAnswer
  /\ seen' = <<>>
  /\ failed' = FALSE
  /\ UNCHANGED <<tables, pc, key>>

Goto(l, k) ==
  /\ pc' = l
  /\ key' = k
  /\ UNCHANGED <<tables, req, answer, seen, failed>>

\* ORDER BY a key that no two rows of S share.
Ordered(S, Less(_, _)) ==
  CHOOSE s \in [1 .. Cardinality(S) -> S] :
    \A i, j \in DOMAIN s : i < j => Less(s[i], s[j])

-----------------------------------------------------------------------------
(* GET /digest                                                             *)

\* ORDER BY category, rank
InOrder(q, r) ==
  LET Place(c) == CHOOSE i \in DOMAIN LiveCategories : LiveCategories[i] = c
  IN  \/ Place(q.category) < Place(r.category)
      \/ q.category = r.category /\ q.rank < r.rank

\* Mutant: the limit is applied before the category is selected.
LimitBeforeCategory(E, category, limit) ==
  SelectSeq(Cut(Ordered(E, InOrder), limit),
            LAMBDA r : category \in {AnyCategory, r.category})

\* QueryDigestPG: the LIMIT is over the rows of all the categories asked for.
QueryDigest(E, category, limit) ==
  Cut(Ordered({r \in E : category \in {AnyCategory, r.category}}, InOrder), limit)

\* QueryDigest of duckdb.go, the same query over the Parquet files.
QueryDigestByRank(E, category, limit) ==
  Ordered({r \in E : category \in {AnyCategory, r.category} /\ r.rank <= limit},
          InOrder)

GetDigest(d, c, n) == Request(Ask("digest", d, c, n), "day")

\* Mutant: no fallback.
QueryDayOnly ==
  /\ pc = "day"
  /\ LET rows == QueryDigest(digest[key], req.category, req.limit)
     IN  \/ rows # <<>> /\ Succeed(Reply("found", key, rows, FALSE))
         \/ rows = <<>> /\ Succeed(NotFound)
         \/ Fail(QueryError)

QueryDay ==
  /\ pc = "day"
  /\ LET rows == QueryDigest(digest[key], req.category, req.limit)
     IN  \/ rows # <<>> /\ Succeed(Reply("found", key, rows, FALSE))
         \/ rows = <<>> /\ Goto("latest_day", None)
         \/ Fail(QueryError)

Published(D) == {d \in Dates : D[d] # {}}
LatestOf(S) == IF S = {} THEN None ELSE Max(S)

\* Mutant: the MAX of an empty table is not told from a date.
LatestDigestDateUnchecked ==
  /\ pc = "latest_day"
  /\ \/ Goto("fallback", LatestOf(Published(digest)))
     \/ Fail(NotFound)

\* LatestDigestDate; its failure is answered as an empty table is.
LatestDigestDate ==
  /\ pc = "latest_day"
  /\ \/ Published(digest) # {} /\ Goto("fallback", LatestOf(Published(digest)))
     \/ Published(digest) = {} /\ Succeed(NotFound)
     \/ Fail(NotFound)

\* Mutant: the rows of the latest date go out under the date asked for.
FallbackUnderAskedDate ==
  /\ pc = "fallback"
  /\ LET rows == QueryDigest(digest[key], req.category, req.limit)
     IN  \/ rows # <<>> /\ Succeed(Reply("found", req.key, rows, TRUE))
         \/ rows = <<>> /\ Succeed(NotFound)
         \/ Fail(QueryError)

Fallback ==
  /\ pc = "fallback"
  /\ LET rows == QueryDigest(digest[key], req.category, req.limit)
     IN  \/ rows # <<>> /\ Succeed(Reply("found", key, rows, TRUE))
         \/ rows = <<>> /\ Succeed(NotFound)
         \/ Fail(QueryError)

-----------------------------------------------------------------------------
(* GET /screener                                                           *)

\* A year without a week, or a week without a year, is dropped.
GetScreener(w) ==
  Request(Ask("screener", w, AnyCategory, 0),
          IF Given(w) THEN "week" ELSE "latest_week")

\* ORDER BY year DESC, week DESC, of texts of one width.
Screened(S) == {w \in Weeks : S[w] # {}}
LatestWeek(S) ==
  IF S = {} THEN None ELSE
  CHOOSE w \in S : \A v \in S : v[1] < w[1] \/ (v[1] = w[1] /\ v[2] <= w[2])

LatestScreenerWeek ==
  /\ pc = "latest_week"
  /\ \/ Screened(screener) # {} /\ Goto("week", LatestWeek(Screened(screener)))
     \/ Screened(screener) = {} /\ Succeed(NotFound)
     \/ Fail(QueryError)

WeekRows(S, w) == IF w \in Weeks THEN S[w] ELSE {}

QueryScreener ==
  /\ pc = "week"
  /\ LET rows == SetToSeq(WeekRows(screener, key))  \* ORDER BY pe_ratio
     IN  \/ rows # <<>> /\ Succeed(Reply("found", key, rows, FALSE))
         \/ rows = <<>> /\ Succeed(NotFound)
         \/ Fail(QueryError)

-----------------------------------------------------------------------------
(* GET /ohlcv and GET /indicators                                          *)

\* symbolAndRange; it reads the clock once, for both ends.
Window(from, to) ==
  <<IF from = None THEN Today - Span ELSE from, IF to = None THEN Today ELSE to>>

GetSeries(from, to, l) == Request(Ask("series", Window(from, to), AnyCategory, 0), l)

\* time BETWEEN from AND to ORDER BY time ASC
InWindow(S, w) ==
  Ordered({r \in S : w[1] <= r.day /\ r.day <= w[2]},
          LAMBDA q, r : q.day < r.day)

\* Mutant: rows.Err() is not looked at where the rows end.
RowsUntilError ==
  LET rows == InWindow(series, key)
  IN  \E n \in 0 .. Len(rows) :
        IF n > 0 THEN Succeed(Reply("found", None, SubSeq(rows, 1, n), FALSE))
                 ELSE Succeed(NotFound)

\* An error of the query, or one that cuts the rows short, is an error.
AllRows ==
  LET rows == InWindow(series, key)
  IN  \/ rows # <<>> /\ Succeed(Reply("found", None, rows, FALSE))
      \/ rows = <<>> /\ Succeed(NotFound)
      \/ Fail(QueryError)

QueryOHLCV == pc = "bars" /\ AllRows
QueryIndicators == pc = "indicators" /\ AllRows

-----------------------------------------------------------------------------
(* GET /digest/live, and the batch jobs.                                   *)

GetDigestLive(ticks, c, n) == Request(Ask("live", ticks, c, n), "live")

ComputeLiveDigest ==
  /\ pc = "live"
  /\ \/ \E rows \in Compute(key, req.category, req.limit) :
          Succeed(Reply("found", None, rows, FALSE))
     \/ Fail(QueryError)

Loaded ==
  /\ pc # "idle"
  /\ Len(seen) <= MaxLoads
  /\ seen' = Append(seen, Stored')
  /\ UNCHANGED <<req, pc, key, answer, failed>>

LoadDigest(d, E) ==
  /\ req.kind = "digest"
  /\ digest[d] # E
  /\ digest' = [digest EXCEPT ![d] = E]
  /\ UNCHANGED <<screener, series>>
  /\ Loaded

LoadScreener(w, R) ==
  /\ req.kind = "screener"
  /\ screener[w] # R
  /\ screener' = [screener EXCEPT ![w] = R]
  /\ UNCHANGED <<digest, series>>
  /\ Loaded

LoadSeries(S) ==
  /\ req.kind = "series"
  /\ series # S
  /\ series' = S
  /\ UNCHANGED <<digest, screener>>
  /\ Loaded

Next ==
  \/ \E d \in Dates, c \in AskedCategories, n \in Limits : GetDigest(d, c, n)
  \/ QueryDay
  \/ LatestDigestDate
  \/ Fallback
  \/ \E w \in AskedWeeks : GetScreener(w)
  \/ LatestScreenerWeek
  \/ QueryScreener
  \/ \E t \in Snapshots, c \in AskedCategories, n \in Limits : GetDigestLive(t, c, n)
  \/ ComputeLiveDigest
  \/ \E d \in Dates, E \in Editions : LoadDigest(d, E)
  \/ \E w \in Weeks, R \in Results : LoadScreener(w, R)
  \/ \E f, t \in Days \cup {None}, l \in {"bars", "indicators"} : GetSeries(f, t, l)
  \/ QueryOHLCV
  \/ QueryIndicators
  \/ \E S \in Histories : LoadSeries(S)
  \/ Return

Spec == Init /\ [][Next]_vars

-----------------------------------------------------------------------------
(* Properties.                                                             *)

Rows(n, d) == QueryDigest(seen[n].digest[d], req.category, req.limit)

\* A digest or a week that is answered is what ONE version of it held during the
\* request, under its own date; and a fallback is to the date that was the
\* latest (handlers.go:159), after the date asked for had been seen empty.
FoundWasPublished ==
  /\ answer.status = "found" /\ req.kind = "digest" =>
       \E n \in DOMAIN seen :
         /\ answer.rows = Rows(n, answer.key)
         /\ IF answer.fallback
              THEN \E m \in 1 .. n :
                     /\ LatestOf(Published(seen[m].digest)) = answer.key
                     /\ \E k \in 1 .. m : Rows(k, req.key) = <<>>
              ELSE answer.key = req.key
  /\ answer.status = "found" /\ req.kind = "screener" =>
       \E n \in DOMAIN seen :
         /\ ToSet(answer.rows) = WeekRows(seen[n].screener, answer.key)
         /\ \/ answer.key = req.key
            \/ \E m \in 1 .. n :
                 answer.key = LatestWeek(Screened(seen[m].screener))

\* A 404 of a report is given for nothing but an absence.  A digest was missing on
\* the date asked for, and later on the date that was the latest meanwhile; a week
\* given was empty, or one left out was the latest and is empty by now; a range has
\* no bar.  That a job takes rows away in between excuses no other 404, and a failed
\* query none, but for that of the latest date (handlers.go:190).
NotFoundJustified ==
  answer.status = "not_found" =>
    \E n \in DOMAIN seen : \E m \in 1 .. n :
      CASE req.kind = "digest" ->
             LET latest == LatestOf(Published(seen[m].digest))
             IN  /\ \E k \in 1 .. m : Rows(k, req.key) = <<>>
                 /\ failed \/ latest = None \/ Rows(n, latest) = <<>>
        [] req.kind = "screener" /\ Given(req.key) ->
             WeekRows(seen[n].screener, req.key) = {}
        [] req.kind = "screener" /\ ~Given(req.key) ->
             LET screened == Screened(seen[m].screener)
             IN  screened = {} \/ WeekRows(seen[n].screener, LatestWeek(screened)) = {}
        [] OTHER -> InWindow(seen[n].series, req.key) = <<>>

\* The bars and the indicators answered are those of one version of the symbol's
\* history, all of them in the range, and by day: rows that stop coming are never
\* taken for the end.
SeriesComplete ==
  answer.status = "found" /\ req.kind = "series" =>
    \E n \in DOMAIN seen :
      LET days == {r \in seen[n].series : r.day \in req.key[1] .. req.key[2]}
      IN  /\ ToSet(answer.rows) = days
          /\ \A i, j \in DOMAIN answer.rows :
               i < j => answer.rows[i].day < answer.rows[j].day

\* The digest of one category is the one the Parquet files give: QueryDigestPG,
\* which limits rows, agrees there with QueryDigest, which limits ranks.
CategoryLimitedByRank ==
  answer.status = "found" /\ req.kind = "digest" /\ req.category # AnyCategory =>
    \E n \in DOMAIN seen :
      answer.rows = QueryDigestByRank(seen[n].digest[answer.key], req.category, req.limit)

\* "Max results per category" (handlers.go:161), whatever is asked for.
LimitPerCategory ==
  answer.status = "found" /\ req.kind = "digest" =>
    \E n \in DOMAIN seen :
      answer.rows = QueryDigestByRank(seen[n].digest[answer.key], req.category, req.limit)

\* "Year: omit to use the latest available" (handlers.go:338): a year that is not
\* omitted is the year of the answer.
YearIsKept ==
  answer.status = "found" /\ req.kind = "screener" /\ req.key[1] # None =>
    answer.key[1] = req.key[1]

\* What a client sees of a category of the live digest: each tick that is listed
\* once, none that was not traded or moves the other way, as many as there are up
\* to the limit, with consecutive ranks, in order, and none left out that belongs
\* before one that is listed.
IsTop(rows, ticks, c, limit) ==
  LET traded == {t \in ticks : t.price > 0 /\ Kept(c, t)}
      size == Min({limit, Cardinality(traded)})
      listed == {i \in DOMAIN rows : rows[i].category = c}
      tick(i) == CHOOSE t \in ticks : t.symbol = rows[i].symbol
      top == {tick(i) : i \in listed}
  IN  /\ top \subseteq traded
      /\ Cardinality(top) = size
      /\ {rows[i].rank : i \in listed} = 1 .. size
      /\ \A i, j \in listed :
           i < j => rows[i].rank < rows[j].rank /\ ~Before(c, tick(j), tick(i))
      /\ \A t \in traded \ top, u \in top : ~Before(c, t, u)

\* The live digest has the top of each category asked for, in the snapshot at hand.
LiveIsTopN ==
  answer.status = "found" /\ req.kind = "live" =>
    \A c \in Categories :
      IF req.category \in {AnyCategory, c}
        THEN IsTop(answer.rows, ToSet(req.key), c, req.limit)
        ELSE \A i \in DOMAIN answer.rows : answer.rows[i].category # c
=============================================================================
