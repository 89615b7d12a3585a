SPECIFICATION BuildSpec
CONSTANTS
  n1 = n1
  n2 = n2
  n3 = n3
  n4 = n4
  s1 = s1
  s2 = s2
  Name <- MCName
  Source <- MCSource
SYMMETRY Symmetry
INVARIANTS
  TypeOK
  StructuresAgree
  AlwaysValid
  AffectedIsExact
PROPERTIES
  AppendOnly
CHECK_DEADLOCK FALSE
