SPECIFICATION NsSpec
CONSTANTS
  Node = {n1, n2}
  Doc = {d1}
  Object = {o1, o2}
  NULL = NULL
  NsCell = {k1, k2}
  NsObject = {w1, w2}
  LeafType = {"text"}
  Rules = {"outside", "anchored", "first_root", "other_sibling"}
  NsRules = {"kept_trees", "wrapped_stay"}
SYMMETRY Interchangeable
INVARIANTS NsWrapperBijection
