SPECIFICATION Spec
CONSTANTS
  Width = 3
  NVars = 2
  Originals <- MCOriginals
  Kinds = {"ESOP"}
INVARIANTS
  FunctionKept
  NoUnderflow
  RepresentsSameFunction
