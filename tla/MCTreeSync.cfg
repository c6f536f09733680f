CONSTANTS
  type = type
  object = object
  Tree = {type, object}
  Peer = {p1}
  Definition = {type}
  First = {object}
  Selected = {object}
  p1 = p1
  Held <- OneHolds
  Modes = {TRUE, FALSE}
  FetchWorkers = 2
  NoTree = NoTree
  MaxVersion = 1
  MaxFaults = 1
SPECIFICATION FairSpec
INVARIANTS TypeOK WatermarkCovers BehindIsAttended
PROPERTIES RoundLeavesNothing SyncSettles
