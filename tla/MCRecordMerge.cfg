CONSTANTS
  f = f
  k1 = k1
  k2 = k2
  a = a
  b = b
  r1 = r1
  r2 = r2
  None = None
  Whole = Whole
  Replica <- MCReplica
  ChangeId <- MCChangeId
  Field <- MCField
  Key <- MCKey
  Atom <- MCAtom
  Universe <- EveryUniverse
SPECIFICATION MergeSpec
INVARIANTS RecordTypeOK LeafIsNewestWrite ContentConvergence ReplayIsNoOp MarkerIsEarliestUpsert
PROPERTIES LeafSpec
