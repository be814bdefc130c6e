SPECIFICATION Spec
CONSTANTS
  Width = 3
  NVars = 3
  Outputs <- MCOutputs
  Orders <- MCOrders
INVARIANTS
  Counted
  Extracts
  LeastCubes
  PathUnwound
  NodesKept
PROPERTIES
  WorkFalls
