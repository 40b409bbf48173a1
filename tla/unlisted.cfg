SPECIFICATION Spec
CONSTANTS
  r0 = r0  r1 = r1  a = a  x = x
  c1 = c1  c2 = c2  s1 = s1  s2 = s2
  Chunk = {r0, r1, a}
  Root = {r0, r1}
  Reach <- MCReach
  InitPacks <- MCInitPacks
  InitRoot = r0
  Store = {s1}
  Client = {c1}
  Host <- MCHostAlone
  Writer = {c1}
  Collectors = {g1}
  Grace = 1
  RecheckAfter = 0
  PackCap = 2
  FanIn = 3
  MaxSwapAttempts = 2
  RepackOff = FALSE
  HoldAcross = FALSE
  Faults = {"index"}
  AnyName = FALSE
  Prompt = TRUE
  MaxPack = 3
  MaxIndex = 3
  MaxSeq = 3
  MaxTime = 0
  MaxCrashes = 0
INVARIANTS
  Durable
CHECK_DEADLOCK FALSE
