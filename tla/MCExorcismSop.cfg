SPECIFICATION Spec
CONSTANTS
  Width = 3
  NVars = 2
  Originals <- MCPairs
  Kinds = {"SOP"}
INVARIANTS
  RepresentsSameFunction
