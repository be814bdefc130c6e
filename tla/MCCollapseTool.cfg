SPECIFICATION Spec
CONSTANTS
  Width = 3
  NVars = 2
  MaxCubes = 3
  Functions <- MCFunctions
  Options <- MCOptions
INVARIANTS
  PartialResult
  FilesRepresent
  CheckPasses
