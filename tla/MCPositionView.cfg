SPECIFICATION BuiltinSpec
CONSTANTS
  Null = Null
  Unset = Unset
  NoInput = NoInput
  Name <- MCName
  SpineCalls <- MCSpineCalls
  SourceCalls <- MCSourceCalls
  LetCalls <- MCLetCalls
  Outputs <- MCOutputs
  Numeric <- MCNumeric
  KeySets <- MCKeySets
  FoldReturnCalls <- MCFoldReturnCalls
  Deals <- MCDeals
  Legs <- MCLegs
  MaxSources = 3
  MaxMeasures = 8
  OwnSources <- MCOwnSources
  OwnOutputs <- MCOwnOutputs
  MaxOwnSources = 2
  MaxOwnMeasures = 2
  MaxExtraMeasures = 1
  MaxFoldCalls = 1
INVARIANTS
  NamespaceIsItsSource
  TotalsCountPositionsOnce
  UnpricedHasNoValue
CHECK_DEADLOCK FALSE
