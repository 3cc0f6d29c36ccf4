SPECIFICATION EachSpec
CONSTANTS
  Node = {n1, n2, n3, n4}
  Doc = {d1, d2}
  Object = {o1, o2, o3}
  NULL = NULL
  LeafType = {"text"}
  Rules = {"outside", "anchored", "first_root", "other_sibling"}
  EachRules = {"still"}
SYMMETRY Interchangeable
INVARIANTS TypeOK WrapperBijection Owned DocOfTree CursorInUse NoDangling WellLinked
PROPERTIES HeldIdentity CollectionIsExact PromiseKept YieldsAll
