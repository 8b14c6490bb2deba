\* Tables with every kind of part, of which some grow or are dropped.
CONSTANTS
  SearchPath <- VisibleSchemas
  Designs <- FourDesigns
  MaxGrowth = 1
SPECIFICATION Spec
INVARIANT TypeOK
INVARIANT DesignFaithful
INVARIANT SizesFaithful
INVARIANT NoTableFailsTheList
