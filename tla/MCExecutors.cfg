SPECIFICATION Spec
CONSTANTS
  Plans <- MCPlans
  MaxVersion = 1
  Contexts = {"custom", "ray"}
  Custom = {"custom"}
  NoResult = NoResult
  Workers = 2
INVARIANTS
  ResultComplete
  LocalReadsPinned
  DaskReadsOnce
PROPERTIES
  ImplementsRun
CHECK_DEADLOCK FALSE
