SPECIFICATION Spec
CONSTANTS
  r0 = r0  r1 = r1  a = a  x = x
  c1 = c1  c2 = c2  s1 = s1  s2 = s2
  Chunk = {r0, r1, a}
  Root = {r0, r1}
  Reach <- MCReach
  InitPacks <- MCInitPacks
  InitRoot = r0
  Store = {s1}
  Client = {c1}
  Host <- MCHostAlone
  Writer = {c1}
  Collectors = {g1}
  Grace = 1
  RecheckAfter = 0
  PackCap = 2
  FanIn = 3
  MaxSwapAttempts = 2
  RepackOff = FALSE
  HoldAcross = FALSE
  Faults = {}
  AnyName = FALSE
  Prompt = TRUE
  MaxPack = 4
  MaxIndex = 3
  MaxSeq = 6
  MaxTime = 2
  MaxCrashes = 0
INVARIANTS
  TypeOK
  Durable
  NotLeftBehind
  HeadReadable
CHECK_DEADLOCK FALSE
