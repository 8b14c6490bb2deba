\* DDL in two user schemas, beside every kind of schema name.
CONSTANTS
  Namespaces <- AllSchemas
  Fixed <- FixedObjects
  Movable <- UserObjects
  Available <- SomeAvailable
SPECIFICATION Spec
INVARIANT TypeOK
INVARIANT ListFaithful
INVARIANT FailsForAReason
