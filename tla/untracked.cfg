SPECIFICATION Spec
CONSTANTS
  c1 = c1  c2 = c2
  Client = {c1, c2}
  Setups <- Returning
  CountBeside = FALSE
  TakesNew = TRUE
  MaxRecords = 4
SYMMETRY Clients
INVARIANT
  RecoversWhole
CHECK_DEADLOCK FALSE
