SPECIFICATION Spec
CONSTANTS
  Null = Null
  Unset = Unset
  NoMarket = NoMarket
  SourceCandidates <- MCSourceCandidates
  TradeFrames <- MCShadowingFrames
  Schemas <- MCShadowedSchemas
  ScenarioSets <- MCOneScenario
  IdColumns = {"instrument_id"}
  MaxSources = 2
  MaxReplaced = 1
INVARIANTS
  AlwaysTheQuote
CHECK_DEADLOCK FALSE
