SPECIFICATION RegistrySpec
CONSTANTS
  t1 = t1
  t2 = t2
  t3 = t3
  b1 = b1
  b2 = b2
  b3 = b3
  Threads = {t1, t2}
  Interruptible = {t1}
  Bundles = {b1, b2}
  NoBundle = NoBundle
  NoReport = NoReport
  Enabled <- MCEnabled
  Faulty = {}
  NoThread = NoThread
  Fingerprint <- MCFingerprint
  Proxy = Proxy
  Foreign = Foreign
  EarlyForeign = {"logs"}
  LateForeign = {"traces", "metrics"}
  Users = {t2}
INVARIANT InstalledIsGlobal
CHECK_DEADLOCK TRUE
