----------------------------- MODULE MCQueries ------------------------------
(* Queries on a small store: three tables in which the order of observation  *)
(* is not the order of start or end, with ties and missing fields.           *)
EXTENDS Queries, TLC

MCLog(observed, severity, id) ==
  [table |-> "logs", observedTime |-> observed, severity |-> severity, traceId |-> id]
MCSpan(observed, start, id) ==
  [table |-> "spans", observedTime |-> observed, startTime |-> start, traceId |-> id]
MCPoint(observed, end, name, region) ==
  [table |-> "metrics", observedTime |-> observed, endTime |-> end, name |-> name]
    @@ ("dimensions.region" :> region)

MCRecord ==
  <<MCLog(0, 1, "t1"), MCLog(1, 3, None), MCLog(1, 2, "t1"),
    MCSpan(1, 0, "t1"), MCSpan(0, 1, "t2"), MCSpan(2, 1, "t1"),
    MCPoint(0, 0, "requests", "a"), MCPoint(1, 1, "errors", None),
    MCPoint(1, 0, "duration", "b"), MCPoint(0, 1, "duration", "a")>>
MCIds == DOMAIN MCRecord
MCLate == {3, 8}

\* Points 7 to 10: requests, errors and two durations.
MCAmounts ==
  {[id \in 7..10 |-> (<<r, 1>> \o d)[id - 6]] : r \in {0, 4}, d \in {<<1, 2>>, <<1, None>>}}

MCClock == {0, 2, 3}
MCSafeFields == {"observedTime", "severity", "traceId", "name", "value", "endTime",
                 "region", "dimensions.region", "dimensions.name"}
MCDimensionField == [region |-> "dimensions.region", name |-> "dimensions.name"]

\* Five that pass, one of which is about time, and six that do not: a denied
\* field, an unknown operator, none at all, an empty and an improper operand,
\* and too many fields.
MCWheres ==
  {<<>>, [severity |-> [gte |-> 2, lt |-> 4]], [observedTime |-> [gte |-> 0]],
   [traceId |-> [notIn |-> {"t2"}]], [traceId |-> [isNull |-> TRUE]],
   [token |-> [eq |-> 1]], [severity |-> [like |-> 1]], [severity |-> <<>>],
   [severity |-> [in |-> {}]], [severity |-> [eq |-> Improper]],
   [severity |-> [eq |-> 1], traceId |-> [eq |-> "t1"], name |-> [isNull |-> TRUE]]}

MCDimensions ==
  {<<>>, [region |-> [eq |-> "a"]], [name |-> [isNull |-> TRUE]],
   [region |-> [ne |-> "a"]], [token |-> [eq |-> 1]]}

MCSelects == {<<>>, <<"value">>, <<"value", "value">>, <<"token">>}
MCHealthMetrics == <<"requests", "errors", "duration">>

=============================================================================
