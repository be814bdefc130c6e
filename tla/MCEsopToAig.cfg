SPECIFICATION Spec
CONSTANTS
  Width = 3
  NVars = 2
  Esops <- MCEsops
INVARIANTS
  GraphComputes
