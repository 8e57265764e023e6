SPECIFICATION RegistrySpec
CONSTANTS
  t1 = t1
  t2 = t2
  t3 = t3
  b1 = b1
  b2 = b2
  b3 = b3
  Threads = {t1, t2}
  Interruptible = {t1}
  Bundles = {b1, b2, b3}
  NoBundle = NoBundle
  NoReport = NoReport
  Enabled <- MCEnabled
  Faulty = {}
  NoThread = NoThread
  Fingerprint <- MCFingerprint
  Proxy = Proxy
  Foreign = Foreign
  EarlyForeign = {}
  LateForeign = {"metrics"}
  Users = {t2}
INVARIANT GlobalsNeverMixed LosersAreClosed InstalledIsSpared
PROPERTY IsRegister InstallReturns
CHECK_DEADLOCK TRUE
