SPECIFICATION Spec
CONSTANTS
  Width = 2
  NVars = 2
  NGates = 2
  Aigs <- MCAigs
INVARIANTS
  OutputsComputed
