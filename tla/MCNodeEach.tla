----------------------------- MODULE MCNodeEach -----------------------------
(* NodeEach for TLC: cells and slots of a kind are interchangeable.        *)
EXTENDS NodeEach, TLC

Interchangeable == Permutations(Node) \cup Permutations(Doc) \cup Permutations(Object)
=============================================================================
