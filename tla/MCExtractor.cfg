\* Two calls at a time, on an extractor that may be stopped at any moment.
CONSTANTS
  c1 = c1
  c2 = c2
  d1 = d1
  NoDb = NoDb
  DefaultDb = d1
  Calls <- TwoCalls
  Databases <- OneDatabase
  RowCount <- OneRow
  MaxConns = 1
  Operations <- FanOutAndInfo
  Chosen <- Defaults
SPECIFICATION FairSpec
INVARIANT NothingLeftBehind
INVARIANT ShutdownWaits
PROPERTY ImplementsLifecycle
PROPERTY SignalStops
PROPERTY ServeFailureStops
