SPECIFICATION Spec
CONSTANTS
  Backends = {"volumes"}
  Thread = {"t1", "t2"}
  Handle = {"h1"}
  HandleOf <- OneHandle
  Name = {1, 2}
  Names <- AllNames
  Dir = {"x", "y", "z"}
  DirOf <- OwnDirs
  Parent <- Nested
  Objects = "objects"
  Made = {"x"}
  Volume = {"v1", "v2", "v3"}
  First <- TwoVolumes
  Score <- MCScore
  Limit = 1
  MaxVolumes = 3
  UnmountsIdle = TRUE
  Fragile = {"stat", "mkdir", "link", "sync", "delete", "unlinked", "lock", "rename", "rootsync", "map", "mapsync"}
  TrustExists = FALSE
  Mixes <- Racing
  Client = {"c1", "c2"}
  Swapper = {"c1"}
  Object = {1, 2, 3}
  Value = {1, 2}
  ListLimit = 2
  ConflictRetries = 1
  Mode = {"wait", "background", "periodic"}
  WaitAttempts = 2
  Restarts = FALSE
  Reader = {"r1", "r2"}
  Span = {1, 2}
  SizeOf <- MCSizes
  EntryLimit = 9
  MaxBytes = 3
  Setups <- MCSetups
INVARIANT PutDurable
CHECK_DEADLOCK FALSE
