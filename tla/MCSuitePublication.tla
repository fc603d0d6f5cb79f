-------------------------- MODULE MCSuitePublication --------------------------
(* SuitePublication with writers of one kind that TLC may exchange.        *)
EXTENDS SuitePublication, TLC

Exchange == Permutations(Publishers)
=============================================================================
