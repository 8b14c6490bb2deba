\* Two concurrent calls over two databases and one pooled connection, with
\* failures, cancellation and a database created and dropped under way.
CONSTANTS
  c1 = c1
  c2 = c2
  d1 = d1
  d2 = d2
  NoDb = NoDb
  DefaultDb = d1
  Calls <- TwoCalls
  Databases <- TwoDatabases
  RowCount <- TwoRows
  MaxConns = 1
  Operations <- FanOutAndInfo
SPECIFICATION Spec
SYMMETRY Symmetry
INVARIANT TypeOK
INVARIANT OneConnectionPerDatabase
INVARIANT AllOrNothing
INVARIANT QuiescentOnReturn
PROPERTY ImplementsListing
