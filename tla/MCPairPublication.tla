--------------------------- MODULE MCPairPublication ---------------------------
(* PairPublication on a small instance: the two --force writers are        *)
(* interchangeable, in every property as in the specification.             *)
EXTENDS PairPublication, TLC

ForcerSymmetry == Permutations(Forcers)

=============================================================================
