---------------------------- MODULE MCSaxParsing ----------------------------
(* SaxParsing for TLC: slots of a kind are interchangeable.                *)
EXTENDS SaxParsing, TLC

Interchangeable == Permutations(Parser) \cup Permutations(Callbacks)
=============================================================================
