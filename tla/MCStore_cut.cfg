\* One fan-out whose list of databases may be cut short by a broken connection.
CONSTANTS
  c1 = c1
  c2 = c2
  d1 = d1
  d2 = d2
  NoDb = NoDb
  DefaultDb = d1
  Calls <- OneCall
  Databases <- TwoDatabases
  RowCount <- FewRows
  MaxConns = 1
  Operations <- FanOutAndInfo
SPECIFICATION Spec
INVARIANT ListsEveryDatabase
