----------------------------- MODULE MCParsing -----------------------------
(* Parsing for TLC: slots of a kind are interchangeable.                   *)
EXTENDS Parsing, TLC

Interchangeable == Permutations(Parser) \cup Permutations(Context) \cup Permutations(Doc)
=============================================================================
