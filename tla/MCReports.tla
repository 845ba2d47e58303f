------------------------------ MODULE MCReports ------------------------------
(* A small instance of module Reports.                                     *)
EXTENDS Reports

Row(c, n, s) == [category |-> c, rank |-> n, symbol |-> s]

\* Nothing; a gainer and two losers; a loser alone.
SomeEditions ==
  { {},
    {Row("gainer", 1, "VCB"), Row("loser", 1, "HPG"), Row("loser", 2, "FPT")},
    {Row("loser", 1, "VCB")} }

\* The last week of a year and the first of the next.
SomeWeeks == {<<2025, 52>>, <<2026, 1>>}

\* Nothing, two days of three, and all three with another close.
SomeHistories ==
  {{}, {[day |-> 1, close |-> 1], [day |-> 3, close |-> 1]},
   {[day |-> d, close |-> 2] : d \in 1 .. 3}}

Tick(n, p, d, v) == [symbol |-> n, price |-> p, pct |-> d, volume |-> v]

\* Up to three symbols: up, down or level, equal or apart in change and volume,
\* or not traded.
SomeTicks(n) ==
  {Tick(n, 1, 2, 1), Tick(n, 1, 1, 2), Tick(n, 1, -1, 2), Tick(n, 1, 0, 1), Tick(n, 0, 2, 2)}

SomeSnapshots ==
  {<<>>} \cup {<<t>> : t \in SomeTicks(1)}
    \cup {<<t, u>> : t \in SomeTicks(1), u \in SomeTicks(2)}
    \cup {<<t, u, v>> : t \in SomeTicks(1), u \in SomeTicks(2),
                        v \in {Tick(3, 1, 1, 2), Tick(3, 1, -1, 2)}}
=============================================================================
