SPECIFICATION Spec
CONSTANTS
  forward = forward
  option = option
  loose = loose
  other = other
  Null = Null
  NoView = NoView
  AnySchema = AnySchema
  Nothing = Nothing
  RouteColumn = {"kind", "side"}
  OtherColumn = {"flag"}
  Value = {"call", "put"}
  Computation = {forward, option, loose, other}
  Provides <- MCProvides
  Contract <- MCContract
  CaseKeys <- MCCaseKeys
  WhenPredicates <- MCWhenPredicates
  MaxBranches = 2
  Liberties = {{}}
INVARIANTS
  UnmatchedFallToDefault
CHECK_DEADLOCK FALSE
