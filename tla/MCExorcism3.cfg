SPECIFICATION FairSpec
CONSTANTS
  Width = 5
  NVars = 4
  Originals <- MCOriginals
  Kinds = {"ESOP"}
INVARIANTS
  TypeOK
  IInv
  Apart
  PairsAtDistance
  Distance2Queued
  QueueCoversPass
  RollbackShrinks
PROPERTIES
  Implements
  Terminates
