SPECIFICATION ObservabilitySpec
CONSTANTS
  t1 = t1
  t2 = t2
  b1 = b1
  b2 = b2
  m1 = m1
  Threads = {t1, t2}
  Interruptible = {t1}
  Bundles = {b1, b2}
  NoBundle = NoBundle
  NoReport = NoReport
  Enabled <- MCNoSignal
  Faulty = {}
  NoThread = NoThread
  Fingerprint <- MCFingerprint
  Proxy = Proxy
  Foreign = Foreign
  Users = {t2}
  EarlyForeign = {}
  LateForeign = {"metrics"}
  Meters = {m1}
INVARIANT MetersFollow
CHECK_DEADLOCK TRUE
