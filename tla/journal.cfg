SPECIFICATION Spec
CONSTANTS
  c1 = c1  c2 = c2
  Client = {c1, c2}
  Setups <- MCSetups
  CountBeside = FALSE
  TakesNew = FALSE
  MaxRecords = 4
SYMMETRY Clients
INVARIANTS
  AckedSurvives
  RecoversWhole
  NeverCorrupt
CHECK_DEADLOCK FALSE
