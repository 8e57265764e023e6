SPECIFICATION QueriesSpec
CONSTANTS
  None = None
  Naive = Naive
  Improper = Improper
  TailPercent = 60
  Ids <- MCIds
  Record <- MCRecord
  Late <- MCLate
  Amounts <- MCAmounts
  Clock <- MCClock
  MaximumRange = 2
  MaxPageSize = 3
  DefaultPageSize = 2
  MaxPredicates = 3
  MaxMembers = 3
  SafeFields <- MCSafeFields
  Wheres <- MCWheres
  Selects <- MCSelects
  Severities = {1, 2, 3}
  TraceIds = {"t1"}
  Metrics = {"requests", "duration", Improper}
  Dimensions <- MCDimensions
  DimensionField <- MCDimensionField
  HealthMetrics <- MCHealthMetrics
  Limits = {1, 2, 4}
INVARIANT PlanMeansExpression AnswersAreAsked ReadOnce GroupsAddUp DeltaIsRate QuantilesAreOrdered HealthIsWhole
CHECK_DEADLOCK FALSE
