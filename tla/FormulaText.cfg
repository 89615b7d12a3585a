SPECIFICATION FormulaSpec
CONSTANTS
  Half = 5
  Height = 8
  Name <- MCName
  Schemas <- MCSchemas
  NoInput = NoInput
  View = {"output"}
  ViewTerms <- MCViewTerms
  Exprs <- SpreadExprs
  MaxTerms = 3
  Trees <- SpreadTrees
  OutputSchema <- MCOutputSchemas
  NoSchema = NoSchema
  Mappings <- MCMappings
  Rows <- MCRows
INVARIANT
  NeverDrifts
CHECK_DEADLOCK FALSE
