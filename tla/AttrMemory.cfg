SPECIFICATION AttrSpec
CONSTANTS
  Node = {n1, n2}
  Doc = {d1}
  Object = {o1, o2}
  NULL = NULL
  Attr = {a1, a2}
  LeafType = {"text"}
  Rules = {"outside", "anchored", "first_root", "other_sibling"}
  AttrRules = {"rooted_list", "listed_stays", "still_list", "linked_doc"}
INVARIANTS AttrTypeOK
PROPERTIES CollectionKeepsAttrs AttrsReclaimed
