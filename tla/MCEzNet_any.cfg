\* The process may die in a library call.
CHECK_DEADLOCK FALSE
SPECIFICATION Spec
CONSTANTS
  s1 = s1
  s2 = s2
  c1 = c1
  k1 = k1
  k2 = k2
  Servers = {s1, s2}
  Clients = {c1}
  Connections = {k1, k2}
  Ports <- MCPorts
  LastFd = 3
INVARIANTS TypeOK SocketsOwned
PROPERTIES OnlyAcceptLeaks OnlyMyIpLeaks CleanedAll CleaningEnds
