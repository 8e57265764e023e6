SPECIFICATION InstrumentsSpec
CONSTANTS
  t1 = t1
  t2 = t2
  m1 = m1
  m2 = m2
  a1 = a1
  a2 = a2
  a3 = a3
  c1 = c1
  c2 = c2
  Threads = {t1, t2}
  Interruptible = {t1}
  Meters = {m1}
  Scope <- MCOwnScope
  Names = {"requests", "duration"}
  Kinds = {"counter", "histogram", "gauge"}
  Details = {"plain", "tight", "odd", "bad"}
  Limit <- MCLimit
  Accepts <- MCAccepts
  Invalid = {"bad"}
  Unsupported = {"odd"}
  Plans <- MCPlans
  Attributes = {a1, a2, a3}
  Correlations = {c1, c2}
  BadCorrelations = {c2}
  None = None
INVARIANT SharedGuard BudgetKept RefusedForGood InstrumentsInv
PROPERTY NoSlotWasted
CHECK_DEADLOCK TRUE
