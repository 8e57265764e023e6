SPECIFICATION BundleSpec
CONSTANTS
  t1 = t1
  t2 = t2
  b1 = b1
  Threads <- MCThreads
  Interruptible <- MCInterruptible
  Bundles <- MCBundles
  NoBundle = NoBundle
  NoReport = NoReport
  Enabled <- MCEnabled
  Faulty = {"logs"}
INVARIANT FlushBeforeShutdown ReportHonest
PROPERTY CloseIsFinal CallReturns
CHECK_DEADLOCK TRUE
