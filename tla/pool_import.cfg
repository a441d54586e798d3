SPECIFICATION Spec
CONSTANTS
  a1 = a1  a2 = a2  a3 = a3  c1 = c1  c2 = c2  k1 = k1  k2 = k2
  x1 = x1  x2 = x2  x3 = x3  y1 = y1  y2 = y2
  Addr = {a1, a2, a3}
  Types <- MCTypes
  Ewma <- MCEwma
  CheckStats <- MCStats
  Item = {x1, x2, y2}
  AddrOf <- MCAddrOf
  NoItem = NoItem
  PreferConnect = FALSE
  NoAddr = NoAddr
  Caller = {c1, c2}
  Key = {k1, k2}
  KeyOf <- MCKeyOf
  NoProxy = NoProxy
  Gate = Gate
  Mcp = Mcp
  Strategy = "Best"
  VerifyOnLease = FALSE
  FailTimeout = 1
  MaxSessions = 1
  MinReq = 2
  MaxErrorRate = 50
  MaxRespTime = 800
  MinQueue = 0
  VERIFY_MAX_ATTEMPTS = 2
  CountryOk = {x1, x2, y2}
  Spawned = TRUE
  Live = {a1}
  Addable = {}
  Removable = {}
  Regions = {{a1}}
  Droppable = {}
  MaxCalls = 2
  MaxTime = 1
INVARIANTS TypeOK NoLostWakeup NothingLeaks NoneIsFinal
PROPERTIES ImplementsLease BenchedIsLastResort
CHECK_DEADLOCK FALSE
