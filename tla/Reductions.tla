----------------------------- MODULE Reductions -----------------------------
(***************************************************************************)
(* The transforms of DerivedTelemetryQuery (query/helpers.py): what        *)
(* group_by, delta, rate, histogram_quantile and service_health make of    *)
(* the items of one page, in the order the page has them.                  *)
(*                                                                         *)
(* An item maps fields to values, and a field that is not there is None.   *)
(* Values are integers, times are ticks; a quotient is kept as a fraction  *)
(* <<numerator, denominator>>, so that nothing is rounded.  A list of      *)
(* values is a function from the positions that they have in the page.     *)
(***************************************************************************)
EXTENDS Integers, SequencesExt

CONSTANTS
  None,         \* None of Python: no value, no result
  TailPercent   \* the percentile of service_health's latency (95 in the code)

ASSUME PercentAssumption == TailPercent \in 1..100

Get(item, f) == IF f \in DOMAIN item THEN item[f] ELSE None

\* Where f is a number.
Numeric(items, f) == {i \in DOMAIN items : Get(items[i], f) # None}

Column(items, f, S) == [i \in S |-> items[i][f]]

\* The indices of v by their values: each at the place that the number of those
\* before it gives; equal values stay in the order of their indices.
Sorted(v) ==
  LET before(i) == {j \in DOMAIN v : v[j] < v[i] \/ (v[j] = v[i] /\ j < i)} IN
  [n \in 1..Cardinality(DOMAIN v) |->
     CHOOSE i \in DOMAIN v : Cardinality(before(i)) = n - 1]

Ascending(v) == LET order == Sorted(v) IN [n \in DOMAIN order |-> v[order[n]]]

-----------------------------------------------------------------------------
GroupName(item, key) == IF Get(item, key) = None THEN "" ELSE item[key]

\* The values that the group g of a page is reduced from.
Grouped(items, key, g, aggregation, f) ==
  LET members == {i \in DOMAIN items : GroupName(items[i], key) = g} IN
  IF aggregation = "count" THEN [i \in members |-> 1]
  ELSE Column(items, f, members \cap Numeric(items, f))

Reduced(aggregation, v) ==
  CASE aggregation \in {"count", "sum"} -> <<SumFunction(v), 1>>
    [] aggregation = "avg" -> <<SumFunction(v), Cardinality(DOMAIN v)>>
    [] aggregation = "min" -> <<Min(Range(v)), 1>>
    [] aggregation = "max" -> <<Max(Range(v)), 1>>

\* Mutant: items without the key are left out.
GroupByPresent(items, key, aggregation, f) ==
  LET groups == {GroupName(items[i], key) : i \in DOMAIN items} \ {""}
      values(g) == Grouped(items, key, g, aggregation, f) IN
  [g \in {h \in groups : DOMAIN values(h) # {}} |-> Reduced(aggregation, values(g))]

\* Groups without a number have no entry.
group_by(items, key, aggregation, f) ==
  LET groups == {GroupName(items[i], key) : i \in DOMAIN items}
      values(g) == Grouped(items, key, g, aggregation, f) IN
  [g \in {h \in groups : DOMAIN values(h) # {}} |-> Reduced(aggregation, values(g))]

delta(items, f) ==
  LET at == Numeric(items, f) IN
  IF Cardinality(at) < 2 THEN None ELSE items[Max(at)][f] - items[Min(at)][f]

\* Points of one tick stay in page order.
rate(items, f, tf) ==
  LET timed == Numeric(items, f) \cap Numeric(items, tf)
      order == Sorted(Column(items, tf, timed))
      first == items[order[1]]
      final == items[order[Len(order)]] IN
  IF Len(order) < 2 \/ final[tf] <= first[tf] THEN None
  ELSE <<final[f] - first[f], final[tf] - first[tf]>>

-----------------------------------------------------------------------------
\* Mutant: the position is taken among n values, not n - 1 gaps.
QuantileOfCount(items, k, parts, f) ==
  LET vs == Ascending(Column(items, f, Numeric(items, f)))
      scaled == Len(vs) * k
      lower == Min({scaled \div parts + 1, Len(vs)})
      upper == Min({lower + 1, Len(vs)}) IN
  IF Len(vs) = 0 THEN None
  ELSE <<vs[lower] * parts + (vs[upper] - vs[lower]) * (scaled % parts), parts>>

\* The quantile k / parts: between the two values around its position.
histogram_quantile(items, k, parts, f) ==
  LET vs == Ascending(Column(items, f, Numeric(items, f)))
      scaled == (Len(vs) - 1) * k
      lower == scaled \div parts + 1
      upper == Min({lower + 1, Len(vs)}) IN
  IF Len(vs) = 0 THEN None
  ELSE <<vs[lower] * parts + (vs[upper] - vs[lower]) * (scaled % parts), parts>>

-----------------------------------------------------------------------------
\* math.ceil(0.95 * n), as a position that counts from one.
Rank(n) == (TailPercent * n + 99) \div 100

\* names: of the request, the error and the latency metric.  An item counts for
\* the first of them that it is named for.
CountsFor(name, names, n) == name = names[n] /\ \A m \in 1..n-1 : name # names[m]

Snapshot(items, names) ==
  LET of(n) == Column(items, "value", {i \in Numeric(items, "value") :
                                         CountsFor(Get(items[i], "name"), names, n)})
      requests == SumFunction(of(1))
      errors == SumFunction(of(2))
      latencies == Ascending(of(3)) IN
  [requests |-> requests, errors |-> errors,
   error_rate |-> IF requests <= 0 THEN None ELSE <<errors, requests>>,
   latency_p95 |-> IF Len(latencies) = 0 THEN None ELSE latencies[Rank(Len(latencies))]]

-----------------------------------------------------------------------------
(* What the reductions should compute, said without sorting or positions.   *)

\* x has its place number k in the order of the values of v.
IsOrderStatistic(v, k, x) ==
  /\ Cardinality({i \in DOMAIN v : v[i] < x}) < k
  /\ k <= Cardinality({i \in DOMAIN v : v[i] <= x})

\* q divides the gap from one value of v to the next, in the order of all, as the
\* position k / parts of the way from the first to the last does.
IsQuantile(v, k, parts, q) ==
  LET n == Cardinality(DOMAIN v)
      scaled == (n - 1) * k
      rest == scaled % parts IN
  \E x, y \in Range(v) :
    /\ IsOrderStatistic(v, scaled \div parts + 1, x)
    /\ IsOrderStatistic(v, Min({scaled \div parts + 2, n}), y)
    /\ q = <<(parts - rest) * x + rest * y, parts>>

\* x is the least of the values that `percent` of them do not exceed.
IsPercentile(v, percent, x) ==
  LET covers(w) == 100 * Cardinality({i \in DOMAIN v : v[i] <= w})
                     >= percent * Cardinality(DOMAIN v) IN
  /\ x \in Range(v) /\ covers(x)
  /\ \A w \in Range(v) : covers(w) => x <= w

=============================================================================
