---------------------------- MODULE MCValidation ----------------------------
(* Validation for TLC: objects of a class are interchangeable.             *)
EXTENDS Validation, TLC

Interchangeable == Permutations(Doc) \cup Permutations(Dtd) \cup Permutations(Schema)
=============================================================================
