SPECIFICATION FairSpec
CONSTANTS
  Width = 3
  NVars = 2
  FirstObject = 1
  Aigs <- MCAigs
PROPERTIES
  CompletesForAll
