---------------------------- MODULE MCAttrMemory ----------------------------
(* AttrMemory on small heaps.                                              *)
EXTENDS AttrMemory
=============================================================================
