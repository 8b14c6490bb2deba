\* Two calls of any operation contend for one pooled connection and for one
\* database, which may never answer.
CONSTANTS
  c1 = c1
  c2 = c2
  d1 = d1
  d2 = d2
  NoDb = NoDb
  DefaultDb = d1
  Calls <- TwoCalls
  Databases <- OneDatabase
  RowCount <- FewRows
  MaxConns = 1
  Operations <- AllOperations
SPECIFICATION FairSpec
PROPERTY CancelledCallReturns
PROPERTY CallReturns
