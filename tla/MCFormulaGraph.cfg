SPECIFICATION FormulaSpec
CONSTANTS
  Half = 5
  Height = 8
  Name <- MCName
  Schemas <- MCSchemas
  NoInput = NoInput
  View = {"output"}
  ViewTerms <- MCViewTerms
  Exprs <- MCExprs
  MaxTerms = 3
  Trees <- MCTrees
  OutputSchema <- MCOutputSchemas
  NoSchema = NoSchema
  Mappings <- MCMappings
  Rows <- MCRows
INVARIANTS
  Acyclic
  RaisesOnlyOnCycle
  MaterializedIsInlined
  ResolutionKept
  PlannedIsInlined
  MisreadOnlyThere
PROPERTIES
  MeaningKept
CHECK_DEADLOCK FALSE
