SPECIFICATION RotSpec
CONSTANTS
  a1 = a1  a2 = a2  k1 = k1  c1 = c1  x1 = x1  x2 = x2  y1 = y1
  Addr = {a1, a2}
  Types <- RotTypes
  Ewma <- RotEwma
  CheckStats <- RotStats
  Item = {x1, y1, x2}
  AddrOf <- RotAddrOf
  NoItem = NoItem
  PreferConnect = FALSE
  NoAddr = NoAddr
  Caller = {c1}
  Key = {k1}
  KeyOf <- RotKeyOf
  NoProxy = NoProxy
  Gate = Gate
  Mcp = Mcp
  Strategy = "RoundRobin"
  VerifyOnLease = FALSE
  FailTimeout = 1
  MaxSessions = 1
  MinReq = 3
  MaxErrorRate = 50
  MaxRespTime = 800
  MinQueue = 0
  VERIFY_MAX_ATTEMPTS = 2
  CountryOk = {x1, y1, x2}
  Spawned = FALSE
  Live = {a1}
  Addable = {}
  Removable = {}
  Regions = {}
  Droppable = {}
  MaxCalls = 9
  MaxTime = 0
INVARIANT RotationCoversPool
CHECK_DEADLOCK FALSE
