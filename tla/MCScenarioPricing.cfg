SPECIFICATION Spec
CONSTANTS
  Null = Null
  Unset = Unset
  NoMarket = NoMarket
  SourceCandidates <- MCSourceCandidates
  TradeFrames <- MCTradeFrames
  Schemas <- MCSchemas
  ScenarioSets <- MCScenarioSets
  IdColumns = {"instrument_id"}
  MaxSources = 2
  MaxReplaced = 1
INVARIANTS
  PricedOnUniqueKeys
  TradesKept
  PublishedIsTheQuote
  ScenarioRowsPaired
CHECK_DEADLOCK FALSE
