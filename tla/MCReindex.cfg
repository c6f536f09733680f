CONSTANTS
  Gated <- BothGated
  MaxTree = 2
  MaxVersion = 3
  MaxWrites = 2
  MaxFaults = 3
SPECIFICATION Spec
INVARIANTS TypeOK RowsAreRebuilt LocalValueSurvives
