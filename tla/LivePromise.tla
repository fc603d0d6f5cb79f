----------------------------- MODULE LivePromise -----------------------------
(***************************************************************************)
(* What run_live_codex promises its caller, the command line or a          *)
(* Campaign: it calls the Provider at most once and leaves at most one     *)
(* record of the run behind, a pair of Recording and Evidence or a Failure *)
(* Diagnostic, after the last call and with the number of calls really     *)
(* made.                                                                   *)
(***************************************************************************)
EXTENDS Naturals

VARIABLES
  calls,     \* Provider processes the run has tried to start
  record,    \* the kind of the record left behind and the calls it reports
  over       \* run_live_codex has returned or raised

vars == << calls, record, over >>

NoRecord == [kind |-> "none", calls |-> 0]

Init == calls = 0 /\ record = NoRecord /\ ~over

Call ==
  /\ ~over /\ record = NoRecord /\ calls = 0
  /\ calls' = 1
  /\ over' \in BOOLEAN            \* Ctrl-C may end the run at once
  /\ UNCHANGED record

Publish ==
  /\ ~over /\ record = NoRecord
  /\ \E kind \in {"pair", "diagnostic"} : record' = [kind |-> kind, calls |-> calls]
  /\ over' = TRUE
  /\ UNCHANGED calls

End == ~over /\ over' = TRUE /\ UNCHANGED << calls, record >>

Next == Call \/ Publish \/ End

Spec == Init /\ [][Next]_vars
=============================================================================
