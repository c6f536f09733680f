CONSTANTS
  create = create
  modify = modify
  inc = inc
  d1 = d1
  NoChange = NoChange
  Change <- MixChange
  Def <- MixDef
  Kind <- MixKind
  Needs <- MixNeeds
  Runtime <- MixRuntime
  Past <- MixPast
  Local <- MixLocal
  MaxRev = 2
  QueueSize = 1
  MaxFaults = 2
SPECIFICATION FairSpec
INVARIANTS TypeOK NoChangeLost OpenIsCaughtUp NoLostWakeup
PROPERTIES NeverParkedAfterApply DrainerServes
