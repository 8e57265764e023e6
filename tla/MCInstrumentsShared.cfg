SPECIFICATION InstrumentsSpec
CONSTANTS
  t1 = t1
  t2 = t2
  m1 = m1
  m2 = m2
  a1 = a1
  a2 = a2
  a3 = a3
  c1 = c1
  c2 = c2
  Threads = {t1, t2}
  Interruptible = {}
  Meters = {m1, m2}
  Scope <- MCOneScope
  Names = {"requests"}
  Kinds = {"counter", "histogram"}
  Details = {"tight"}
  Limit <- MCLimit
  Accepts <- MCAccepts
  Invalid = {"bad"}
  Unsupported = {"odd"}
  Plans <- MCOnePlan
  Attributes = {a1, a2}
  Correlations = {c1}
  BadCorrelations = {}
  None = None
INVARIANT BudgetKept
CHECK_DEADLOCK TRUE
