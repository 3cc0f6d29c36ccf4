------------------------------ MODULE MCReader ------------------------------
(* Readers over documents of three nodes: a root element and two children.*)
EXTENDS Reader, TLC

MCParent == <<0, 1, 1>>

Interchangeable == Permutations(Readers)
=============================================================================
