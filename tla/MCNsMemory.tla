----------------------------- MODULE MCNsMemory -----------------------------
(* NsMemory for TLC: cells and slots of a kind are interchangeable.        *)
EXTENDS NsMemory, TLC

Interchangeable ==
  Permutations(Node) \cup Permutations(Object) \cup Permutations(NsCell) \cup Permutations(NsObject)
=============================================================================
