SPECIFICATION FairSpec
CONSTANTS
  a1 = a1  a2 = a2  c1 = c1  c2 = c2  d1 = d1  ip = ip  url1 = url1  url2 = url2
  Addr = {a1, a2}
  Types <- MCTypes
  Ewma <- MCEwma
  CheckStats <- MCStats
  User = {c1, c2, d1}
  NoAddr = NoAddr
  Client = {c1, c2}
  PeerOf <- MCPeerOf
  Path = {url1, url2}
  Asked <- MCAsked
  Auth = TRUE
  MaxTries = 2
  CAP = 1
  Dialer = {d1}
  ConnTries = 1
INVARIANTS OneAnswer NoLeaseLeft HistoryTruthful RotationsNotOvercounted OpaqueTunnels
PROPERTIES KeepsLeases Answered
CHECK_DEADLOCK FALSE
