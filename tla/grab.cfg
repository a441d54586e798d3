SPECIFICATION Spec
CONSTANTS
  Canon <- MCCanon
  NoHost = NoHost
  IpAddrs <- MCIpAddrs
  Unspecified = {"zero"}
  Specs <- MCSpecs
  Page <- MCPage
  Patterned = {"p2"}
  CountryOk = {"a", "b", "d"}
  FileProxies <- MCFile
  Limits = {1, 3, Unlimited}
  Unlimited = Unlimited
  MAX_CONCURRENT_PROVIDERS = 3
  CHANNEL_CAPACITY = 1
INVARIANTS GrabExact SinksAgree
PROPERTIES GrabEnds
CHECK_DEADLOCK FALSE
