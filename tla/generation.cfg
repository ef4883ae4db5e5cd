SPECIFICATION FairSpec
CONSTANTS
  Threshold = 2
  ResetAfter = 2
  MaxArticles = 4
  Workers = 2
  MaxRetries = 1
  MaxRepairs = 1
INVARIANTS
  TypeOK
  OutageCostBounded
  OneProbe
  OpenedByFaults
PROPERTY
  GenerationEnds
