SPECIFICATION XPathSpec
CONSTANTS
  Node = {n1, n2}
  Doc = {d1, d2}
  Object = {o1, o2}
  NULL = NULL
  LeafType = {"comment"}
  Rules = {"outside", "anchored", "first_root", "other_sibling"}
  Context = {c1}
  Result = {x1}
  Ns = {k1, k2}
SYMMETRY AnyNamesake
INVARIANTS XPathTypeOK NsKept
PROPERTIES CollectionKeepsResult
