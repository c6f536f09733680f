CONSTANTS
  create = create
  modify = modify
  inc = inc
  d1 = d1
  NoChange = NoChange
  Change <- SyncedChange
  Def <- SyncedDef
  Kind <- SyncedKind
  Needs <- SyncedNeeds
  Runtime <- SyncedRuntime
  Past <- SyncedPast
  Local <- SyncedLocal
  MaxRev = 1
  QueueSize = 1
  MaxFaults = 0
SPECIFICATION Spec
INVARIANT NothingIsLost
