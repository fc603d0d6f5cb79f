----------------------------- MODULE GateResults -----------------------------
(***************************************************************************)
(* What LocalCommandRunner.run (runner.py) can return for one gate command *)
(* to the two programs that run gates, run_live_codex (LiveRun) and        *)
(* _run_gates of the Phase 6 Campaign (Phase6Campaign). SafeRunner has the *)
(* steps that lead there.                                                  *)
(***************************************************************************)

(* LocalCommandRunner.run: status, process_group_cleared, harness_failure. *)
GroupRemains(status) == [status |-> status, cleared |-> FALSE, harness |-> "process_cleanup_error"]
Cleared(status, harness) == [status |-> status, cleared |-> TRUE, harness |-> harness]
CommandResults ==
  {GroupRemains(s) : s \in {"passed", "failed", "timed_out", "signal_terminated",
                            "collection_error"}}
  \cup {Cleared("passed", "none"), Cleared("failed", "none"), Cleared("timed_out", "timeout"),
        Cleared("signal_terminated", "signal_termination"),
        Cleared("collection_error", "evidence_error"),
        Cleared("spawn_error", "command_unavailable"), Cleared("spawn_error", "spawn_error")}
=============================================================================
