SPECIFICATION FairSpec
CONSTANTS
  Width = 3
  NVars = 2
  FirstObject = 0
  Aigs <- MCAigs
INVARIANTS
  TypeOK
PROPERTIES
  Implements
  CompletesWithoutConstantOne
