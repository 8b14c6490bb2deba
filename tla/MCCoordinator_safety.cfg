\* Three goroutines over two databases: every interleaving of Acquire,
\* Release and cancellation.
CONSTANTS
  w1 = w1
  w2 = w2
  w3 = w3
  d1 = d1
  d2 = d2
  NoWorker = NoWorker
  NoDb = NoDb
  Workers <- ThreeWorkers
  Databases <- TwoDatabases
SPECIFICATION Spec
SYMMETRY Symmetry
INVARIANT TypeOK
INVARIANT MutualExclusion
INVARIANT ReleaseFindsToken
INVARIANT PermitsAccounted
PROPERTY SemaphoreStable
PROPERTY ImplementsPermit
