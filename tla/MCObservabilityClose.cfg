SPECIFICATION ObservabilitySpec
CONSTANTS
  t1 = t1
  t2 = t2
  b1 = b1
  b2 = b2
  m1 = m1
  Threads = {t1, t2}
  Interruptible = {}
  Bundles = {b1}
  NoBundle = NoBundle
  NoReport = NoReport
  Enabled <- MCEnabled
  Faulty = {"logs"}
  NoThread = NoThread
  Fingerprint <- MCFingerprint
  Proxy = Proxy
  Foreign = Foreign
  Users = {t1, t2}
  EarlyForeign = {}
  LateForeign = {}
  Meters = {m1}
INVARIANT StrictCloseHonest
CHECK_DEADLOCK TRUE
