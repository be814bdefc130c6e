SPECIFICATION FairSpec
CONSTANTS
  Width = 4
  NVars = 3
  NGates = 3
  Aigs <- MCAigs
INVARIANTS
  TypeOK
  IInv
  ProductKept
  OutputsComputed
  Irredundant
PROPERTIES
  Implements
  Terminates
