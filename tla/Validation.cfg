SPECIFICATION Spec
CONSTANTS
  Doc = {d1, d2}
  Dtd = {t1, t2}
  Schema = {s1, s2}
  NULL = NULL
  Freed = Freed
  MaxDepth = 2
  Rules = {"still_tree", "dtd_handlers_return", "quiet_handlers", "fresh_error"}
SYMMETRY Interchangeable
INVARIANTS ValidationTypeOK DtdFreedOnce
PROPERTIES RaisesOwnError
