----------------------------- MODULE CodexContract -----------------------------
(***************************************************************************)
(* CodexExecutionEvidence (models.py): the record of one Codex execution,  *)
(* or of why there was none, and the strict contract it has to satisfy     *)
(* when it is built. A violation raises ValidationError in the middle of   *)
(* the run, so the contract is part of the control flow of its builders:   *)
(* CodexProcessRunner (CodexProcess) and run_live_codex (LiveRun).         *)
(*                                                                         *)
(* Evidence schema 1.6, the one new runs write. Byte counts, times, usage  *)
(* and the identities of executable and argv are left out.                 *)
(***************************************************************************)

EXTENDS Naturals

SpawnKinds == {"provider_unavailable", "provider_spawn_error"}
HarnessKinds == {"evidence_error", "process_cleanup_error"}
ProviderKinds ==
  SpawnKinds \cup
  {"provider_turn_failed", "provider_cli_nonzero", "provider_signal_termination",
   "provider_timeout", "provider_input_error", "provider_protocol_error",
   "provider_output_limit"}
Kinds == {"none", "unsupported_platform"} \cup ProviderKinds \cup HarnessKinds

\* Stages of run_live_codex, of the runner before Popen, and after it.
OrchestrationStages ==
  {"workspace_preparation", "provider_environment_directory_preparation",
   "provider_runner_construction", "provider_orchestration"}
PreSpawnStages ==
  {"provider_runtime_precheck", "jsonl_parser_initialization",
   "provider_argv_construction", "provider_environment_construction"}
RunnerStages == {"provider_runner_entry"} \cup PreSpawnStages
PostSpawnStages ==
  {"provider_pipe_selector_initialization", "provider_process_collection"}
HandoffStage == "codex_evidence_construction"
HandoffStages ==
  {HandoffStage, "provider_runner_result_construction",
   "provider_runner_result_extraction"}

Invocations == {"not_attempted", "spawn_attempted", "process_started"}
\* "unobserved" is None, which cannot be persisted.
CleanupStates == {"not_applicable", "unobserved", "cleared", "failed"}

LifecycleAgrees(e) ==
  LET started == e.invocation = "process_started"
      attempted == e.invocation # "not_attempted" IN
  /\ (e.execution = "provider_invocation_attempted") = attempted
  /\ e.runner = "not_started" => ~attempted
  /\ e.cleanup = IF ~started THEN "not_applicable"
                 ELSE IF e.cleared THEN "cleared" ELSE "failed"
  /\ ~started => /\ e.stdin = "not_started" /\ ~e.hint
                 /\ e.code = "none" /\ e.events = 0 /\ e.terminal = "none"
  /\ e.stage = "provider_runner_construction" => e.runner = "not_started"
  /\ e.stage \in RunnerStages \cup PostSpawnStages \cup {"provider_process_spawn"} =>
       e.runner = "started"
  /\ e.stage = "preflight" => e.execution = "preflight_not_completed"
  /\ e.stage \in OrchestrationStages \cup RunnerStages =>
       e.execution = "preflight_completed"
  /\ e.stage = "provider_process_spawn" => e.invocation = "spawn_attempted"
  /\ e.stage \in PostSpawnStages => started

StageAgrees(e) ==
  /\ (e.stage = "none") = (e.kind = "none")
  /\ e.stage \in OrchestrationStages \cup (RunnerStages \ {"provider_runtime_precheck"}) =>
       e.kind = "evidence_error"
  /\ e.stage = "provider_runtime_precheck" =>
       e.kind \in {"unsupported_platform", "evidence_error"}
  /\ e.stage = "provider_process_spawn" => e.kind \in SpawnKinds
  /\ e.stage \in HandoffStages \cup {"provider_pipe_selector_initialization"} =>
       e.kind \in HarnessKinds

KindAgrees(e) ==
  /\ e.kind \in Kinds
  /\ e.kind = "none" =>
       /\ e.code = "zero" /\ e.events >= 3
       /\ e.threads = 1 /\ e.turns = 1 /\ e.errors = 0 /\ e.terminal = "turn_completed"
       /\ e.invocation = "process_started" /\ e.cleared /\ ~e.limit
       /\ e.stdin = "complete" /\ ~e.hint
  /\ e.kind \in SpawnKinds \cup {"unsupported_platform"} => e.invocation # "process_started"
  /\ e.kind = "provider_timeout" => e.reason = "timeout"
  /\ e.kind = "provider_cli_nonzero" => e.code = "positive"
  /\ e.kind = "provider_signal_termination" => e.code = "signal"
  /\ e.kind = "provider_turn_failed" => e.terminal = "turn_failed" /\ e.hint
  /\ e.kind = "provider_output_limit" => e.limit
  /\ e.kind = "process_cleanup_error" => ~e.cleared

(* CodexExecutionEvidence.codex_summary_must_be_semantically_consistent.   *)
Accepted(e) ==
  /\ LifecycleAgrees(e) /\ StageAgrees(e) /\ KindAgrees(e)
  /\ e.terminal = "turn_completed" => e.errors = 0

ExecutionStage(invocation) ==
  IF invocation = "not_attempted" THEN "preflight_completed"
  ELSE "provider_invocation_attempted"
=============================================================================
