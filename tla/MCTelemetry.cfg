SPECIFICATION TelemetrySpec
CONSTANTS
  t1 = t1
  t2 = t2
  s1 = s1
  s2 = s2
  Tasks = {t1, t2}
  Initial = {t1}
  Spans = {s1, s2}
  MaxBlocks <- MCMaxBlocks
  None = None
SYMMETRY SpanSymmetry
INVARIANT DepthIsNesting CurrentIsInnermost NothingFeedsBack SpansGetEnded
PROPERTY FailureShows
CHECK_DEADLOCK TRUE
