SPECIFICATION Spec
CONSTANTS
  a1 = a1  a2 = a2  a3 = a3  c1 = c1  c2 = c2  k1 = k1  k2 = k2
  x1 = x1  x2 = x2  x3 = x3  y1 = y1  y2 = y2
  Addr = {a1, a2}
  Types <- MCTypes
  Ewma <- MCEwma
  CheckStats <- MCStats
  Item = {x1, y1, x2}
  AddrOf <- MCAddrOf
  NoItem = NoItem
  PreferConnect = FALSE
  NoAddr = NoAddr
  Caller = {c1, c2}
  Key = {k1, k2}
  KeyOf <- MCKeyOf
  NoProxy = NoProxy
  Gate = Gate
  Mcp = Mcp
  Strategy = "Sticky"
  VerifyOnLease = FALSE
  FailTimeout = 1
  MaxSessions = 1
  MinReq = 3
  MaxErrorRate = 50
  MaxRespTime = 800
  MinQueue = 0
  VERIFY_MAX_ATTEMPTS = 2
  CountryOk = {x1, y1, x2}
  Spawned = FALSE
  Live = {a1}
  Addable = {a1}
  Removable = {a1}
  Regions = {{a1}}
  Droppable = {c2}
  MaxCalls = 2
  MaxTime = 0
INVARIANTS PinFollowsLease Exclusive
CHECK_DEADLOCK FALSE
