\* Every configuration, start-up failures, signals at any time, calls under way.
CONSTANTS
  c1 = c1
  c2 = c2
  Calls <- TwoCalls
  Chosen <- AllConfigs
SPECIFICATION FairSpec
INVARIANT TypeOK
INVARIANT GracefulShutdown
INVARIANT CallsHavePool
INVARIANT VerifyNotWeakened
PROPERTY SignalStops
