CONSTANTS
  Active = {"routes"}
  Router = {1, 2, 3, 4}
  Peering <- MCPeering
  TreeEdge <- MCTreeEdge
  Horizon = 3
  Sender = {4}
  MaxBroadcasts = 3
  Dialler = {d1, d2}
  MaxSessions = 4
  MaxConnections = 2
  Peer = {p}
  Address = {l}
  MaxLinks = 3
  CleanupSize = 1
  Remote = {r, s}
  WorkSize = 0
  MaxEvents = 1
  MinPeers = 2
  MaxPeers = 2
  MaxNew = 1
  Targets = {1, 2}
  Neighbour = {n}
  MaxReports = 2
SPECIFICATION RoutesSpec
PROPERTY FewPeersDialMore
CHECK_DEADLOCK FALSE
