SPECIFICATION Spec
CONSTANTS
  Client = {c1, c2}
  Branch = {"main", "topic"}
  Main = "main"
  Tag = {"t"}
  Path = {"p"}
  Entry = {"e"}
  Value = {1, 2, 3}
  Model = {"blob"}
  MaxConflicts = 1
  Recreates = FALSE
  Mixes <- MCMixes
  MaxAttempts = 2
  MaxSessions = 1
SYMMETRY Callers
INVARIANTS MergeKept
PROPERTIES HistoryExact RefsAdvance MergeLands WalkReaches
CHECK_DEADLOCK FALSE
