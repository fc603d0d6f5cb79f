------------------------------- MODULE MCPhase6 -------------------------------
(* Phase6Campaign with the gate commands of a small Fixture and the   *)
(* stop conditions that differ in a Plan of two runs.                      *)
EXTENDS Phase6Campaign

AcceptanceAndLint == << "acceptance", "lint" >>
SmallPolicies ==
  {[failFast |-> TRUE, maxFailures |-> 2]} \cup [failFast : {FALSE}, maxFailures : 0 .. 2]
=============================================================================
