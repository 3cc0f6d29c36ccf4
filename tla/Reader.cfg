SPECIFICATION Spec
CONSTANTS
  Readers = {r1, r2}
  Doc = {d1}
  NULL = NULL
  Parent <- MCParent
  Attributed = {2}
  MaxPreserves = 2
  Rules = {"keeps_walked", "keeps_expanded", "momentary", "sole_reader"}
SYMMETRY Interchangeable
INVARIANTS ReaderTypeOK OneOwner QueriesInUse
PROPERTIES ExpandedStays
