CONSTANTS
  s1 = s1
  s2 = s2
  own = own
  other = other
  Space = {s1, s2}
  Peer = {own, other}
  NoPeer = NoPeer
  Own = {own}
  MaxConnections = 1
  MaxInbound = 1
  MaxFailures = 2
  QueueSize = 2
  Stories <- Courses
SPECIFICATION PeersFairSpec
INVARIANTS StoresAreTrue DialsNoneBack
PROPERTIES PeersSettle
CHECK_DEADLOCK FALSE
