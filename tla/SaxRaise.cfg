SPECIFICATION Spec
CONSTANTS
  Parser = {p1, p2}
  Callbacks = {k1, k2}
  NULL = NULL
  Rules = {"one_chunk"}
SYMMETRY Interchangeable
INVARIANT StaticNeverFreed
