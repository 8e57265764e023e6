------------------------------- MODULE Queries -------------------------------
(***************************************************************************)
(* query/helpers.py: an application asks for stored telemetry through      *)
(* TelemetryQueries, reads it page by page, and reduces pages.             *)
(*                                                                         *)
(* A TelemetryQuery is an immutable value; the application keeps one and   *)
(* replaces it (page, selecting).  Meridian and its Adapter, which answer  *)
(* the expression, are external: they hold records that arrive at any      *)
(* time, honour predicates, order and cursor, and may also answer badly.   *)
(***************************************************************************)
EXTENDS Reductions

CONSTANTS
  Ids, Record,        \* Record[id]: a record of telemetry, with its table
  Late,               \* records that arrive while the caller reads
  Amounts,            \* what the values of the metric points may be; None: missing
  Clock, Naive,       \* datetimes of the caller; Naive has no time zone
  MaximumRange,       \* maximum_range of TelemetryQueries
  MaxPageSize,        \* _MAX_PAGE_SIZE (500)
  DefaultPageSize,    \* the limit a query starts with (50)
  MaxPredicates,      \* keys of a where mapping (32)
  MaxMembers,         \* values of a membership predicate (100)
  SafeFields,         \* names that _validate_field lets pass
  Improper,           \* a value that is not a bounded scalar, a bad token
  Wheres, Selects,    \* predicates and fields that callers give
  Severities,         \* _SEVERITIES, by rank
  TraceIds, Metrics, Dimensions,
  DimensionField,     \* DimensionField[key]: the field "dimensions.<key>"
  HealthMetrics,      \* names of request, error and latency metrics
  Limits              \* page sizes that callers ask for

Tables == {"logs", "spans", "metrics"}

\* The order that each kind of query promises.
PromisedOrder ==
  [logs |-> "observedTime", spans |-> "startTime", metrics |-> "endTime"]

ASSUME QueriesAssumption ==
  /\ MaximumRange \in Nat \ {0}
  /\ MaxPageSize \in Nat /\ DefaultPageSize \in 1..MaxPageSize
  /\ Clock \subseteq Nat /\ Naive \notin Clock /\ Improper # None
  /\ Severities \subseteq Nat
  /\ None \notin Int /\ None \notin Int \X Int /\ None \notin TraceIds

\* A record has a table, the time it was observed at, and the time that its
\* table is ordered by; points have a name.  Ids break ties.
ASSUME StoreAssumption ==
  /\ IsFiniteSet(Ids) /\ Ids \subseteq Int /\ Late \subseteq Ids
  /\ \A id \in Ids :
       /\ {"table", "observedTime"} \subseteq DOMAIN Record[id]
       /\ Record[id].table \in Tables
       /\ Record[id].observedTime \in Int
       /\ Record[id][PromisedOrder[Record[id].table]] \in Int
       /\ Record[id].table = "metrics" =>
            "name" \in DOMAIN Record[id] /\ Record[id].name # None

ASSUME PointsAssumption ==
  \A amounts \in Amounts : \A id \in Ids :
    Record[id].table = "metrics" => amounts[id] \in Int \cup {None}

\* The prefix keeps names apart, and apart from the fields of a point.
ASSUME DimensionsAssumption ==
  /\ \A d \in Dimensions : DOMAIN d \cap SafeFields \subseteq DOMAIN DimensionField
  /\ IsInjective(DimensionField)
  /\ \A k \in DOMAIN DimensionField : DimensionField[k] \notin {"name", "observedTime"}

VARIABLES
  stored,   \* external: the records that have arrived
  value,    \* external: value[id], of the metric points
  asked,    \* history: what the caller has asked of TelemetryQueries
  query,    \* the TelemetryQuery that the caller holds, or NoQuery
  result,   \* what its execute has returned, or NoResult
  read,     \* history: the records of the pages of this query so far
  begun     \* history: what was stored when its first page was read

queryVars == <<stored, value, asked, query, result, read, begun>>

NoQuery == [table |-> "none"]
NoResult == [kind |-> "none"]

\* A cursor is None, a bad token, or a token that the Adapter has given.
NoCursor == [kind |-> "none"]
BadCursor == [kind |-> "bad"]

-----------------------------------------------------------------------------
(* Mappings.                                                                *)

Only(k, x) == [j \in {k} |-> x]

\* The mapping g, updated by f.
Over(f, g) == [k \in DOMAIN f \cup DOMAIN g |-> IF k \in DOMAIN f THEN f[k] ELSE g[k]]

-----------------------------------------------------------------------------
(* Predicates: a mapping from fields to mappings from operators to what the *)
(* field is compared with.  A bare scalar of the code is an "eq" here.      *)

Operators == {"eq", "ne", "lt", "lte", "gt", "gte", "in", "notIn", "isNull"}

ValidOperand(op, x) ==
  CASE op \in {"in", "notIn"} -> Cardinality(x) \in 1..MaxMembers /\ Improper \notin x
    [] op = "isNull" -> x \in BOOLEAN
    [] OTHER -> x # Improper

ValidWhere(where) ==
  /\ Cardinality(DOMAIN where) <= MaxPredicates
  /\ DOMAIN where \subseteq SafeFields
  /\ \A f \in DOMAIN where :
       /\ DOMAIN where[f] # {} /\ DOMAIN where[f] \subseteq Operators
       /\ \A op \in DOMAIN where[f] : ValidOperand(op, where[f][op])

\* TelemetryQuery.__post_init__, which dataclasses.replace runs again.
ValidQuery(q) ==
  /\ ValidWhere(q.where)
  /\ ToSet(q.select) \subseteq SafeFields /\ IsInjective(q.select)
  /\ q.limit \in 1..MaxPageSize
  /\ q.cursor # BadCursor

\* Mutant: a negated membership loses its negation.
AtomPlain(op, x) ==
  [op |-> IF op = "notIn" THEN "in" ELSE op, operand |-> x, negated |-> FALSE]

\* One comparison of the logical plan.
Atom(op, x) ==
  [op |-> IF op = "notIn" THEN "in" ELSE op, operand |-> x, negated |-> op = "notIn"]

\* The conjunction of _logical_predicate: no atom at all is no filter.
Filter(where) ==
  [f \in DOMAIN where |-> [op \in DOMAIN where[f] |-> Atom(op, where[f][op])]]

logical_plan(q) ==
  [target |-> q.table, filter |-> Filter(q.where), order |-> q.order,
   projection |-> q.select, size |-> q.limit, cursor |-> q.cursor, budget |-> q.limit]

-----------------------------------------------------------------------------
(* External: the meaning of a comparison, a predicate and a filter.         *)

Compare(op, v, x) ==
  CASE op = "eq" -> v = x
    [] op = "ne" -> v # x
    [] op = "lt" -> v < x
    [] op = "lte" -> v <= x
    [] op = "gt" -> v > x
    [] op = "gte" -> v >= x
    [] op = "in" -> v \in x
    [] op = "notIn" -> v \notin x

\* A field that is missing satisfies isNull alone.
Test(op, v, x) == IF op = "isNull" THEN (v = None) = x ELSE v # None /\ Compare(op, v, x)

Meets(item, where) ==
  \A f \in DOMAIN where : \A op \in DOMAIN where[f] : Test(op, Get(item, f), where[f][op])

Passes(item, filter) ==
  \A f \in DOMAIN filter : \A op \in DOMAIN filter[f] :
    LET a == filter[f][op] IN
    IF a.negated THEN Get(item, f) # None /\ ~Test(a.op, Get(item, f), a.operand)
    ELSE Test(a.op, Get(item, f), a.operand)

Item(id) ==
  IF Record[id].table = "metrics" THEN Over(Only("value", value[id]), Record[id]) ELSE Record[id]

Precedes(i, j, order) ==
  \/ Record[i][order] < Record[j][order]
  \/ Record[i][order] = Record[j][order] /\ i < j

\* A cursor is signed with the plan and the size of the page that it is from.
Plan(q) == [q EXCEPT !.cursor = NoCursor]

Matches(id, q) ==
  /\ Record[id].table = q.table
  /\ Meets(Item(id), q.where)
  /\ q.cursor # NoCursor => Precedes(q.cursor.last, id, q.order)

Rows(q) == Sorted([id \in {i \in stored : Matches(i, q)} |-> Record[id][q.order]])

Projected(id, select) ==
  IF select = <<>> THEN Item(id) ELSE Restrict(Item(id), DOMAIN Item(id) \cap ToSet(select))

-----------------------------------------------------------------------------
(* Building a query.  What a helper refuses raises InvalidTelemetryQuery    *)
(* and changes nothing: a step that stutters.                               *)

NoQuestion == [table |-> "none", start |-> 0, end |-> 0, floor |-> None, trace |-> None,
               names |-> {}, where |-> <<>>, health |-> FALSE]

\* A predicate that a helper sets; it replaces the caller's for that field.
Set(where, f, op, x) == Over(Only(f, Only(op, x)), where)

Bounded(table, start, end, where, order) ==
  [table |-> table,
   where |-> Over(Only("observedTime", [gte |-> start, lt |-> end]), where),
   select |-> <<>>, order |-> order, limit |-> DefaultPageSize, cursor |-> NoCursor]

InRange(start, end) ==
  {start, end} \subseteq Clock /\ start < end /\ end - start <= MaximumRange

\* The caller gets the query q for its question.  A behaviour is the life of
\* one query: queries share no state.
Ask(question, q) ==
  /\ query = NoQuery
  /\ InRange(question.start, question.end) /\ ValidQuery(q)
  /\ asked' = question /\ query' = q
  /\ UNCHANGED <<stored, value, result, read, begun>>

AtLeast(floor) == {s \in Severities : s >= floor}

Traced(where, traceId) == IF traceId = None THEN where ELSE Set(where, "traceId", "eq", traceId)

logs(start, end, floor, traceId, where) ==
  LET severe == IF floor = None THEN where ELSE Set(where, "severity", "in", AtLeast(floor)) IN
  /\ floor \in Severities \cup {None} /\ traceId \in TraceIds \cup {None}
  /\ Ask([NoQuestion EXCEPT !.table = "logs", !.start = start, !.end = end,
                            !.floor = floor, !.trace = traceId, !.where = where],
         Bounded("logs", start, end, Traced(severe, traceId), "observedTime"))

spans(start, end, traceId, where) ==
  /\ traceId \in TraceIds \cup {None}
  /\ Ask([NoQuestion EXCEPT !.table = "spans", !.start = start, !.end = end,
                            !.trace = traceId, !.where = where],
         Bounded("spans", start, end, Traced(where, traceId), "startTime"))

trace(id, start, end) == spans(start, end, id, <<>>)

related_logs(id, start, end) == logs(start, end, None, id, <<>>)

\* A dimension never is one of the fields of the point itself.
Prefixed(dimensions) ==
  [f \in {DimensionField[k] : k \in DOMAIN dimensions} |->
     dimensions[CHOOSE k \in DOMAIN dimensions : DimensionField[k] = f]]

\* Mutant: in the order in which points were observed.
SeriesOrderObserved == "observedTime"

SeriesOrder == "endTime"

metric_series(name, start, end, dimensions) ==
  /\ name # Improper /\ DOMAIN dimensions \subseteq SafeFields
  /\ Ask([NoQuestion EXCEPT !.table = "metrics", !.start = start, !.end = end,
                            !.names = {name}, !.where = dimensions],
         Bounded("metrics", start, end, Set(Prefixed(dimensions), "name", "eq", name),
                 SeriesOrder))

\* Mutant: the page of a snapshot is as large as any other.
HealthPageDefault == DefaultPageSize

\* The one page of a snapshot is as large as pages get.
HealthPage == MaxPageSize

service_health(names, start, end) ==
  /\ Improper \notin ToSet(names)
  /\ Ask([NoQuestion EXCEPT !.table = "metrics", !.start = start, !.end = end,
                            !.names = ToSet(names), !.health = TRUE],
         [Bounded("metrics", start, end, Set(<<>>, "name", "in", ToSet(names)), SeriesOrder)
           EXCEPT !.limit = HealthPage])

-----------------------------------------------------------------------------
(* Reading.                                                                 *)

\* The caller replaces its query, having read `before` of what it wants.
Replace(q, before) ==
  /\ query # NoQuery /\ ~asked.health /\ ValidQuery(q)
  /\ query' = q /\ result' = NoResult /\ read' = before
  /\ UNCHANGED <<stored, value, asked, begun>>

\* Mutant: the cursor of the page before is not passed on.
PageAgain(limit, cursor) ==
  Replace([query EXCEPT !.limit = limit, !.cursor = NoCursor],
          IF cursor = NoCursor THEN <<>> ELSE read)

page(limit, cursor) ==
  Replace([query EXCEPT !.limit = limit, !.cursor = cursor],
          IF cursor = NoCursor THEN <<>> ELSE read)

\* The cursor stays: the same page again.
selecting(fields) ==
  Replace([query EXCEPT !.select = fields],
          IF query.cursor = NoCursor THEN <<>>
          ELSE SubSeq(read, 1, CHOOSE n \in DOMAIN read : read[n] = query.cursor.last))

\* What the caller may pass on as a cursor.
Cursors == {NoCursor, BadCursor} \cup (IF result = NoResult THEN {} ELSE {result.cursor})

\* Mutant: a page is taken as it comes.
FitsAnyhow(rows, maximum) == TRUE

\* _items: a page larger than asked for is refused.
Fits(rows, maximum) == Len(rows) <= maximum

\* The Adapter refuses a cursor of another plan, and its page may be too long;
\* both raise in the caller, who keeps the query.
execute(more) ==
  LET rows == Rows(query)
      returned == SubSeq(rows, 1, Min({query.limit + more, Len(rows)})) IN
  /\ query # NoQuery /\ result = NoResult
  /\ query.cursor # NoCursor => query.cursor.plan = Plan(query)
  /\ Fits(returned, query.limit)
  /\ result' = [kind |-> "page", ids |-> returned,
                cursor |-> IF Len(rows) = Len(returned) THEN NoCursor
                           ELSE [kind |-> "token", plan |-> Plan(query), last |-> Last(returned)]]
  /\ read' = read \o returned
  /\ begun' = IF query.cursor = NoCursor THEN stored ELSE begun
  /\ UNCHANGED <<stored, value, asked, query>>

\* External: telemetry arrives.
Arrive(id) ==
  /\ id \in Late \ stored
  /\ stored' = stored \cup {id}
  /\ UNCHANGED <<value, asked, query, result, read, begun>>

QueriesInit ==
  /\ stored = Ids \ Late
  /\ value \in Amounts
  /\ asked = NoQuestion /\ query = NoQuery /\ result = NoResult
  /\ read = <<>> /\ begun = {}

AskSomething ==
  \E start, end \in Clock \cup {Naive} :
    \/ \E floor \in Severities \cup {None, Improper}, id \in TraceIds \cup {None, Improper},
          where \in Wheres : logs(start, end, floor, id, where)
    \/ \E id \in TraceIds \cup {None, Improper}, where \in Wheres :
          spans(start, end, id, where)
    \/ \E id \in TraceIds : trace(id, start, end) \/ related_logs(id, start, end)
    \/ \E name \in Metrics, dimensions \in Dimensions :
          metric_series(name, start, end, dimensions)
    \/ service_health(HealthMetrics, start, end)

QueriesNext ==
  \/ \E id \in Late : Arrive(id)
  \/ AskSomething
  \/ \E limit \in Limits, cursor \in Cursors : page(limit, cursor)
  \/ \E fields \in Selects : selecting(fields)
  \/ \E more \in 0..1 : execute(more)

QueriesSpec == QueriesInit /\ [][QueriesNext]_queryVars

-----------------------------------------------------------------------------
\* The logical plan of a query, which is what its fingerprint names, selects
\* the records that its expression selects, in pages of the same size.
PlanMeansExpression ==
  query # NoQuery =>
    LET plan == logical_plan(query) IN
    /\ \A id \in Ids : Passes(Item(id), plan.filter) <=> Meets(Item(id), query.where)
    /\ <<plan.target, plan.size, plan.budget>> = <<query.table, query.limit, query.limit>>

\* The field that the caller's predicate is about, and whether a helper has
\* replaced that predicate.
About(f) == IF asked.table = "metrics" THEN DimensionField[f] ELSE f

Replaced(f) ==
  \/ f = "observedTime"
  \/ f = "severity" /\ asked.floor # None
  \/ f = "traceId" /\ asked.trace # None

\* What the caller has asked for, in its own words.
Wanted(id) ==
  LET item == Item(id) IN
  /\ item.table = asked.table
  /\ asked.start <= item.observedTime /\ item.observedTime < asked.end
  /\ asked.floor # None => Get(item, "severity") \in Severities /\ item.severity >= asked.floor
  /\ asked.trace # None => Get(item, "traceId") = asked.trace
  /\ asked.names # {} => item.name \in asked.names
  /\ \A f \in DOMAIN asked.where :
       (asked.table = "metrics" \/ ~Replaced(f)) =>
         \A op \in DOMAIN asked.where[f] : Test(op, Get(item, About(f)), asked.where[f][op])

\* Pages have what was asked for and nothing else, and are never longer than
\* the query allows, even if the Adapter returns more.
AnswersAreAsked ==
  result # NoResult =>
    /\ Len(result.ids) <= query.limit
    /\ \A i \in DOMAIN result.ids : Wanted(result.ids[i])

\* Following the cursors, a caller reads no record twice and all in order, and
\* at the end it has read all that was stored when it began.
ReadOnce ==
  /\ \A i, j \in DOMAIN read :
       i < j => Precedes(read[i], read[j], PromisedOrder[asked.table])
  /\ result # NoResult /\ result.cursor = NoCursor =>
       \A id \in begun : Wanted(id) => id \in ToSet(read)

-----------------------------------------------------------------------------
(* The reductions of any page of metric points (no other record has values). *)

Page ==
  IF result = NoResult \/ asked.table # "metrics" THEN <<>>
  ELSE [i \in DOMAIN result.ids |-> Projected(result.ids[i], query.select)]

\* The positions and the values of the points on a page.
Points == Numeric(Page, "value")
Values == Column(Page, "value", Points)

\* The groups of a page partition it: counts and sums add up to those of the
\* page, and each average lies between the extremes of its group.
GroupsAddUp ==
  LET by(aggregation) == group_by(Page, "dimensions.region", aggregation, "value")
      total(groups) == SumFunction([g \in DOMAIN groups |-> groups[g][1]]) IN
  /\ total(by("count")) = Len(Page)
  /\ total(by("sum")) = SumFunction(Values)
  /\ \A g \in DOMAIN by("avg") :
       LET avg == by("avg")[g] IN
       /\ by("min")[g][1] * avg[2] <= avg[1] /\ avg[1] <= by("max")[g][1] * avg[2]
       /\ avg[2] <= by("count")[g][1]

\* delta trusts the order of the page, and rate sorts by the end of the
\* interval: for a metric series they tell of the same two points.
DeltaIsRate ==
  LET change == delta(Page, "value")
      speed == rate(Page, "value", "endTime")
      timed == \A i \in DOMAIN Page : "endTime" \in DOMAIN Page[i] IN
  timed =>
    /\ speed # None => speed[1] = change /\ speed[2] > 0
    /\ change # None /\ speed = None =>
         Cardinality({Page[i].endTime : i \in Points}) = 1

\* A quantile that falls on a value is that value in the order of all, any other
\* divides the gap between its two neighbours as its position does; a greater one
\* is not smaller, and the order of the page is no matter.
QuantilesAreOrdered ==
  LET at(items, k) == histogram_quantile(items, k, 4, "value") IN
  \A k \in 0..4 :
    /\ at(Page, k) = at(Reverse(Page), k)
    /\ Points = {} <=> at(Page, k) = None
    /\ Points # {} =>
         /\ k < 4 => at(Page, k)[1] <= at(Page, k + 1)[1]
         /\ IsQuantile(Values, k, 4, at(Page, k))

Health == Snapshot(Page, HealthMetrics)

\* A snapshot speaks of the whole interval as long as its points fit in the
\* largest page there is (beyond that it is silently partial).
HealthIsWhole ==
  LET of(n) == Restrict(value, {id \in begun : /\ Wanted(id) /\ value[id] # None
                                               /\ CountsFor(Record[id].name, HealthMetrics, n)}) IN
  asked.health /\ result # NoResult /\ Cardinality({id \in begun : Wanted(id)}) <= MaxPageSize =>
    /\ Health.requests = SumFunction(of(1)) /\ Health.errors = SumFunction(of(2))
    /\ IF DOMAIN of(3) = {} THEN Health.latency_p95 = None
       ELSE IsPercentile(of(3), TailPercent, Health.latency_p95)

-----------------------------------------------------------------------------
(* The inductive invariant.                                                 *)

QueryFields == {"table", "where", "select", "order", "limit", "cursor"}

\* The query says what its caller has asked for.
SaysWanted ==
  /\ DOMAIN query = QueryFields /\ query.limit \in 1..MaxPageSize
  /\ asked.table \in Tables /\ query.table = asked.table
  /\ query.order = PromisedOrder[asked.table]
  /\ \A id \in Ids :
       Wanted(id) <=> Record[id].table = query.table /\ Meets(Item(id), query.where)

\* What has been read is in order, and nothing is missing before its end.
InOrderSoFar ==
  /\ read \in Seq(Ids)
  /\ \A i \in DOMAIN read : Record[read[i]].table = asked.table
  /\ \A i, j \in DOMAIN read :
       i < j => Precedes(read[i], read[j], PromisedOrder[asked.table])
  /\ read # <<>> => \A id \in begun :
       Wanted(id) /\ ~Precedes(Last(read), id, PromisedOrder[asked.table]) => id \in ToSet(read)

\* The cursor of a query stands where the pages before it end.
GoesOn ==
  IF query.cursor = NoCursor THEN result = NoResult => read = <<>>
  ELSE /\ query.cursor.last \in ToSet(read)
       /\ result = NoResult => Last(read) = query.cursor.last

\* A page is what was asked for, and its cursor stands at its end.
PageWanted ==
  /\ result.ids \in Seq(Ids) /\ Len(result.ids) <= query.limit
  /\ \A i \in DOMAIN result.ids : Wanted(result.ids[i])
  /\ IF result.cursor = NoCursor THEN \A id \in begun : Wanted(id) => id \in ToSet(read)
     ELSE read # <<>> /\ result.cursor.last = Last(read)

QueriesInv ==
  /\ stored \subseteq Ids /\ begun \subseteq stored
  /\ query = NoQuery => result = NoResult /\ read = <<>>
  /\ query # NoQuery => SaysWanted /\ InOrderSoFar /\ GoesOn
  /\ result # NoResult => PageWanted

\* What the reductions rely on: a page is in order, and the page of a snapshot
\* is the first and only one, with all that there was or full.
PageInv ==
  /\ value \in Amounts
  /\ query # NoQuery /\ asked.health =>
       /\ asked.table = "metrics"
       /\ query.select = <<>> /\ query.cursor = NoCursor /\ query.limit = MaxPageSize
  /\ result # NoResult =>
       /\ \A i, j \in DOMAIN result.ids :
            i < j => Precedes(result.ids[i], result.ids[j], PromisedOrder[asked.table])
       /\ asked.health =>
            /\ read = result.ids /\ ToSet(read) \subseteq begun
            /\ result.cursor # NoCursor => MaxPageSize < Cardinality({id \in begun : Wanted(id)})

=============================================================================
