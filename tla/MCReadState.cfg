CONSTANTS
  Change <- Messages
  Root = 0
  Prev <- Follows
  Tracked = {1, 3}
  Own = {2}
  Clears <- Deletes
  Seedable = TRUE
  ChunkSize = 1
  MaxFrontier = 2
  QueueSize = 1
  Elsewhere = {2}
  MaxFaults = 1
SPECIFICATION Spec
INVARIANTS  NothingReadUnseen 
