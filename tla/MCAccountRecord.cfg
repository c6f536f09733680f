CONSTANTS
  d1 = d1
  d2 = d2
  Device = {d1, d2}
  Relay = {r1, r2}
  Ahead = {}
  Releases <- Both
  MaxDue = 2
  Renews = {d1}
  MaxFaults = 2
SPECIFICATION FairSpec
INVARIANTS TypeOK
PROPERTIES SiblingsAreKept RecordConverges
