CONSTANTS
  Active = {"broadcast", "sessions", "connections", "routes", "discovery"}
  Router = {1, 2, 3, 4}
  Peering <- MCPeering
  TreeEdge <- MCTreeEdge
  Horizon = 3
  Sender = {4}
  MaxBroadcasts = 3
  Dialler = {d1, d2}
  MaxSessions = 4
  MaxConnections = 2
  Peer = {p}
  Address = {l}
  MaxLinks = 3
  CleanupSize = 1
  Remote = {r}
  WorkSize = 1
  MaxEvents = 1
  MinPeers = 1
  MaxPeers = 1
  MaxNew = 1
  Targets = {1}
  Neighbour = {n}
  MaxReports = 2
SPECIFICATION PeersSpec
INVARIANTS
  PeersTypeOK
  BroadcastReaches
  DialledOnce
PROPERTIES
  HealthyStays
  LocksAreReleased
CHECK_DEADLOCK FALSE
