SPECIFICATION Spec
CONSTANTS
  r0 = r0  r1 = r1  a = a  x = x
  c1 = c1  c2 = c2  s1 = s1  s2 = s2
  Chunk = {r0, r1, x}
  Root = {r0, r1, x}
  Reach <- MCReachThree
  InitPacks <- MCInitPacksTwo
  InitRoot = r0
  Store = {s1, s2}
  Client = {c1, c2}
  Host <- MCHostEach
  Writer = {c1, c2}
  Collectors = {}
  Grace = 1
  RecheckAfter = 0
  PackCap = 1
  FanIn = 2
  MaxSwapAttempts = 2
  RepackOff = TRUE
  HoldAcross = FALSE
  Faults = {}
  AnyName = FALSE
  Prompt = TRUE
  MaxPack = 2
  MaxIndex = 3
  MaxSeq = 3
  MaxTime = 0
  MaxCrashes = 0
INVARIANTS
  HeadReadable
  SwapsSucceed
PROPERTIES
  RefinesRegister
CHECK_DEADLOCK FALSE
