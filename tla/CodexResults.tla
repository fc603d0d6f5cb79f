----------------------------- MODULE CodexResults -----------------------------
(***************************************************************************)
(* What a caller of the Codex adapter (codex_provider.py) can get back:    *)
(* the evidence the runner returns, the tracker its error carries, and the *)
(* evidence the fallback builders make of a failed preflight, an           *)
(* unsupported platform or a tracker. run_live_codex (LiveRun) and the     *)
(* Phase 6 Campaign (Phase6Campaign) are the callers; CodexProcess has the *)
(* steps that lead there and the evidence in full. Here everything but the *)
(* lifecycle and the kind is what the contract asks for.                   *)
(***************************************************************************)
EXTENDS CodexContract

Evidence(runner, execution, invocation, stage, kind, cleared) ==
  LET started == invocation = "process_started" IN
  [kind |-> kind, stage |-> stage, runner |-> runner, execution |-> execution,
   invocation |-> invocation, cleared |-> cleared,
   cleanup |-> IF ~started THEN "not_applicable" ELSE IF cleared THEN "cleared" ELSE "failed",
   stdin |-> IF started THEN "complete" ELSE "not_started",
   code |-> CASE ~started -> "none"
              [] kind = "provider_cli_nonzero" -> "positive"
              [] kind = "provider_signal_termination" -> "signal"
              [] OTHER -> "zero",
   events |-> IF started THEN 3 ELSE 0, threads |-> 1, turns |-> 1, errors |-> 0,
   terminal |-> CASE ~started -> "none"
                  [] kind = "provider_turn_failed" -> "turn_failed"
                  [] OTHER -> "turn_completed",
   hint |-> kind = "provider_turn_failed", limit |-> kind = "provider_output_limit",
   reason |-> IF kind = "provider_timeout" THEN "timeout" ELSE "none"]

(* preflight_failure_evidence.                                             *)
PreflightEvidence(kind) ==
  Evidence("not_started", "preflight_not_completed", "not_attempted", "preflight", kind,
           kind # "process_cleanup_error")

(* unsupported_platform_evidence.                                          *)
UnsupportedEvidence ==
  Evidence("started", "preflight_completed", "not_attempted", "provider_runtime_precheck",
           "unsupported_platform", TRUE)

(* lifecycle_failure_evidence: what the tracker t has seen.                *)
LifecycleEvidence_asBeforeSpawn(t) ==
  Evidence(t.runner, "preflight_completed", "not_attempted", t.stage, "evidence_error", TRUE)

LifecycleEvidence(t) ==
  Evidence(t.runner, ExecutionStage(t.invocation), t.invocation, t.stage,
           IF t.cleanup = "failed" THEN "process_cleanup_error" ELSE "evidence_error",
           t.cleanup # "failed")

(* What the tracker holds when the runner is through with a process.       *)
Tracked(invocation, cleared, stage) ==
  [runner |-> "started", invocation |-> invocation, stage |-> stage,
   cleanup |-> IF invocation # "process_started" THEN "not_applicable"
               ELSE IF cleared THEN "cleared" ELSE "failed"]

(* CodexProcessRunner.run returns: evidence its contract has accepted.     *)
ResultStages == {"none", "provider_process_spawn"} \cup PostSpawnStages
                \cup (PreSpawnStages \ {"provider_runtime_precheck"})
RunnerResults ==
  {e \in {Evidence("started", ExecutionStage(i), i, s, k, k # "process_cleanup_error") :
            i \in Invocations, s \in ResultStages, k \in Kinds} :
     /\ Accepted(e)
     /\ e.kind = "process_cleanup_error" => e.invocation = "process_started"
     /\ e.stage \in PreSpawnStages => e.invocation = "not_attempted"
     /\ e.stage = "provider_pipe_selector_initialization" => e.kind \in HarnessKinds}

(* An exception that falls into the termination of a timed-out process:    *)
(* timed_out stays set, while the group was cleared by the emergency       *)
(* cleanup, and the contract refuses this evidence.                        *)
StaleTimeout == Tracked("process_started", TRUE, HandoffStage)

(* It raises CodexRunnerError: the tracker after _emergency_cleanup. Other *)
(* than after a stale timeout, the runner's own evidence is only refused   *)
(* when the clock was set back.                                            *)
RunnerErrors ==
  {StaleTimeout}
  \cup {Tracked("not_attempted", TRUE, s) : s \in RunnerStages}
  \cup {Tracked("process_started", c, s) :
          c \in BOOLEAN, s \in PostSpawnStages \cup {"provider_runner_result_construction"}}
ClockErrors ==
  {Tracked(i, c, HandoffStage) :
     i \in {"spawn_attempted", "process_started"}, c \in BOOLEAN}
=============================================================================
