SPECIFICATION Spec
CONSTANTS
  HostIps <- MCHostIps
  Endpoint <- MCEndpoint
  EndpointIp <- MCEndpointIp
  Judge <- MCJudge
  JScheme <- MCJScheme
  JFamily <- MCJFamily
  JMarks <- MCJMarks
  LivenessFamily = "v4"
  Queries <- MCQueries
  Deeds <- MCDeeds
  None = None
INVARIANTS TypesAreWitnessed LevelTellsTruth OneEndPerProtocol HoneypotRemembered PassMeansWanted
PROPERTIES CheckEnds
CHECK_DEADLOCK FALSE
