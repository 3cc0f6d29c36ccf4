--------------------------- MODULE MCXPathMemory ---------------------------
(* XPathMemory on small heaps.                                             *)
EXTENDS XPathMemory, TLC

AnyNamesake ==
  Permutations(Node) \cup Permutations(Object) \cup Permutations(Ns) \cup Permutations(Doc) \cup Permutations(Result)
=============================================================================
