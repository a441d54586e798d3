SPECIFICATION ConnSpec
CONSTANTS
  a1 = a1  a2 = a2  x1 = x1  x2 = x2  k1 = k1  c1 = c1  ConnTries = 3
  Addr = {a1, a2}
  Types <- ConnTypes
  Ewma <- ConnEwma
  CheckStats <- ConnStats
  Item = {x1, x2}
  AddrOf <- ConnAddrOf
  NoItem = NoItem
  PreferConnect = FALSE
  NoAddr = NoAddr
  Caller = {c1}
  Key = {k1}
  KeyOf <- ConnKeyOf
  NoProxy = NoProxy
  Gate = Gate
  Mcp = Mcp
  Strategy = "Best"
  VerifyOnLease = FALSE
  FailTimeout = 1
  MaxSessions = 1
  MinReq = 5
  MaxErrorRate = 50
  MaxRespTime = 800
  MinQueue = 0
  VERIFY_MAX_ATTEMPTS = 2
  CountryOk = {x1, x2}
  Spawned = FALSE
  Live = {a1}
  Addable = {}
  Removable = {}
  Regions = {}
  Droppable = {}
  MaxCalls = 9
  MaxTime = 0
INVARIANT TriesAnother
CHECK_DEADLOCK FALSE
