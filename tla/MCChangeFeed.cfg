CONSTANTS
  Object = {o1, o2}
  Writer = {w1, w2}
  Tracked = {o1}
  Foreseen = {}
  PageSize = 1
  MaxSeq = 3
  MaxFaults = 1
SPECIFICATION FairSpec
INVARIANTS FeedIsTrue
PROPERTIES FeedCatchesUp
CHECK_DEADLOCK FALSE
