\* Three goroutines that contend for one database, under the scheduling
\* assumptions of Fairness.  No symmetry: it is not sound for liveness.
CONSTANTS
  w1 = w1
  w2 = w2
  w3 = w3
  d1 = d1
  d2 = d2
  NoWorker = NoWorker
  NoDb = NoDb
  Workers <- ThreeWorkers
  Databases <- OneDatabase
SPECIFICATION FairSpec
PROPERTY CancelledAcquireReturns
PROPERTY ReleaseReturns
PROPERTY AcquireReturns
