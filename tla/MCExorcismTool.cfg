SPECIFICATION FairSpec
CONSTANTS
  Width = 3
  NVars = 2
  MaxNumber = 12
  MaxRows = 2
  MaxInserted = 2
  Files <- MCFiles
  CommandLines <- MCCommandLines
INVARIANTS
  ReadsBack
  RowsRead
  MinimisesFile
PROPERTIES
  EndsWithDimensions
  Ends
