SPECIFICATION FairSpec
CONSTANTS
  s1 = s1
  s2 = s2
  c1 = c1
  a1 = a1
  a2 = a2
  a3 = a3
  a4 = a4
  Servers <- TwoServers
  Clients <- OneClient
  Port <- Ports
  Address <- FourAddresses
  AddressesOf <- AsDockerLikes
  ContainerMap <- TheMap
  MaxSyncAttempts = 2
  Stopping <- TwoServers
INVARIANTS
  TypeOK
  PostsFollowTheMap
PROPERTIES
  StartsEnd
  ClientsCatchUp
CHECK_DEADLOCK FALSE
