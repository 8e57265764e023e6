SPECIFICATION ConstructionSpec
CONSTANTS
  c1 = c1
  c2 = c2
  Creators = {c1, c2}
  None = None
  Improper = Improper
  Text = Text
  NaN = NaN
  Environments <- MCEnvironments
  Starts <- MCStarts
  Unreliable = {"metrics"}
  AttributeKeys <- MCAttributeKeys
  DeniedKeys = {"password"}
  MaxAttributes = 1
  DefaultBatch <- MCBatch
  MaxQueue = 5
  MaxMillis = 3
  MaxInterval = 5
  DefaultInterval = 3
INVARIANT FailedStartIsQuiet OnlyEnabledExport ReadyIsLive SharedMeansSame ResourceIsGoverned RaisesForCause
CHECK_DEADLOCK FALSE
