SPECIFICATION Spec
CONSTANTS
  v1 = v1
  v2 = v2
  v3 = v3
  c1 = c1
  c2 = c2
  None = None
  Graph <- MCGraph
  MarketSources <- MCMarketSources
  Target = {"book", "report"}
  Caller <- MCCaller
  Deployments <- MCOneThread
  Version <- MCVersion
  MaxChanges = 2
INVARIANTS
  AnswersCover
CHECK_DEADLOCK FALSE
