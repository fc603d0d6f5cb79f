----------------------------- MODULE LiveContract -----------------------------
(***************************************************************************)
(* The strict contracts of what run_live_codex writes: the terminal event  *)
(* of the Recording (recording.py), the Evidence (LiveRunArtifact) and the *)
(* Failure Diagnostic (models.py), as predicates on records. They are      *)
(* checked when the object is built, and a violation is an exception of    *)
(* the run that built it. Counts that are computed from the same list of   *)
(* commands on both sides are left out.                                    *)
(***************************************************************************)
EXTENDS CodexContract, Sequences

Completed == {"passed", "failed"}
Elements(s) == {s[i] : i \in 1 .. Len(s)}
Normal(c) == c.status \in Completed /\ c.cleared

(* all_commands_completed_normally, as _evaluation_summary computes it and *)
(* as LiveEvaluationSummary recomputes it from the counts.                 *)
CompletedNormally(commands) == \A c \in Elements(commands) : Normal(c)
CountsComplete(commands) == \A c \in Elements(commands) : c.status \in Completed

CodexMustMatch == ProviderKinds \cup {"process_cleanup_error", "unsupported_platform"}

StageFitsWorkspace(a) ==
  /\ a.codex.execution = "preflight_not_completed" => a.workspace = "not_created"
  /\ a.codex.execution = "provider_invocation_attempted" => a.workspace # "not_created"

(* LiveEvaluationSummary, and LiveRunCompletedEvent or LiveRunFailedEvent. *)
RecordingAccepted(a) ==
  /\ CompletedNormally(a.commands) = CountsComplete(a.commands)
  /\ a.metrics # "none" =>
       /\ a.codex.kind = "none" /\ CompletedNormally(a.commands)
       /\ \E c \in Elements(a.commands) : c.gate = "acceptance"
       /\ a.diff = "complete" /\ a.workspace = "removed"
       /\ (a.metrics = "pass") = (\A c \in Elements(a.commands) : c.status # "failed")
  /\ a.metrics = "none" =>
       /\ StageFitsWorkspace(a)
       /\ a.kind \notin {"none", "quality_gate_failure"}
       /\ a.kind \in CodexMustMatch => a.codex.kind = a.kind /\ a.commands = << >>
       /\ a.kind = "gate_harness_error" =>
            a.codex.kind = "none" /\ ~CompletedNormally(a.commands)

HarnessStatusKinds == HarnessKinds \cup {"gate_harness_error", "unsupported_platform"}
QualityStatuses == {"passed", "failed"}

(* LiveRunArtifact.live_status_metrics_and_evidence_must_match.            *)
ArtifactAccepted(a) ==
  /\ a.status = "passed" => a.kind = "none"
  /\ a.status = "failed" => a.kind = "quality_gate_failure"
  /\ (a.status = "provider_error") = (a.kind \in ProviderKinds)
  /\ (a.status = "harness_error") = (a.kind \in HarnessStatusKinds)
  /\ a.kind \in CodexMustMatch => a.codex.kind = a.kind
  /\ a.status \in QualityStatuses =>
       /\ a.codex.kind = "none"
       /\ a.commands # << >> /\ CompletedNormally(a.commands)
       /\ a.diff = "complete" /\ a.workspace = "removed"
  /\ a.codex.kind # "none" \/ a.workspace = "not_created" => a.commands = << >>
  /\ StageFitsWorkspace(a)
  /\ a.workspace = "cleanup_failed" => a.status = "harness_error"
  /\ a.kind = "gate_harness_error" =>
       a.codex.kind = "none" /\ \E c \in Elements(a.commands) : ~Normal(c)
  /\ (a.metrics # "none") =
       (/\ a.codex.kind = "none"
        /\ a.commands # << >> /\ CompletedNormally(a.commands)
        /\ a.kind \in {"none", "quality_gate_failure"}
        /\ a.diff = "complete" /\ a.workspace = "removed")
  /\ a.metrics # "none" =>
       (a.metrics = "pass") = (\A c \in Elements(a.commands) : c.status = "passed")

(* LiveFailureDiagnostic.diagnostic_lifecycle_must_be_truthful.            *)
DiagnosticAccepted(d) ==
  LET started == d.invocation = "process_started"
      attempted == d.invocation \in {"spawn_attempted", "process_started"} IN
  /\ d.determined = ("unknown" \notin {d.runner, d.invocation, d.cleanup, d.stage})
  /\ d.runner = "not_started" => ~attempted
  /\ started => d.runner = "started"
  /\ d.cleanup \in {"cleared", "failed"} => started
  /\ d.invocation \in {"not_attempted", "spawn_attempted"} => d.cleanup = "not_applicable"
  /\ (d.cleanup = "failed") = (d.kind = "process_cleanup_error")
=============================================================================
