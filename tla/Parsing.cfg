SPECIFICATION Spec
CONSTANTS
  Parser = {p1, p2}
  Context = {c1, c2}
  Doc = {d1, d2, d3}
  NULL = NULL
  Rules = {"once", "settled"}
SYMMETRY Interchangeable
INVARIANTS ParsingTypeOK
PROPERTIES NoDocumentLost HandlesKeepDocuments ContextKept
