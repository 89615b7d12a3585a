SPECIFICATION MCSpec
CONSTANTS
  Null = Null
  Process = {p, q}
  StartYear = 2025
  EndYear = 2026
  Cuts <- MCCuts
  MaxFaults = 1
  MaxWrites = 1
  NoFile = NoFile
  Hierarchies <- MCHierarchies
  Frames <- MCFrames
  MaxValidations = 2
INVARIANTS
  MostSpecificWins
  NoHolidayMissedBefore
  RightBeforeHorizon
PROPERTIES
  QuietImportLoadsAll
  NonNullKept
CHECK_DEADLOCK FALSE
