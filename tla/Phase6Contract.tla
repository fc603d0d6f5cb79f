---------------------------- MODULE Phase6Contract ----------------------------
(***************************************************************************)
(* The strict contracts of the Phase 6 files (phase6.py) as predicates:    *)
(* the lines of the Campaign file 1.2 and its loader, and the Recording    *)
(* 1.3 and LiveRunArtifact 1.3 of one run. They are checked when an object *)
(* is built and when a file is read back, and a violation is an exception  *)
(* in the middle of run_phase6_campaign (Phase6Campaign).                  *)
(*                                                                         *)
(* "none" and Unknown are the Python None. Identities and digests are      *)
(* reduced to the position of the run in the Plan; fail_fast_applies and   *)
(* max_failures_applies always equal counted_failure and are left out with *)
(* it. The sums of RunMetrics are computed from the same list of commands  *)
(* on both sides and are reduced to quality_gate_pass.                     *)
(***************************************************************************)
EXTENDS CodexContract, Integers, Sequences, FiniteSets

CONSTANTS
  RunCount,   \* number of runs of the Plan (planned_run_count)
  Unknown     \* the Python None of provider_call_count

ASSUME RunCountAssumption == RunCount \in Nat \ {0}
ASSUME UnknownAssumption == Unknown \notin {0, 1}

Runs == 1 .. RunCount

StopReasons ==
  {"none", "fail_fast", "max_failures", "harness_failure", "cleanup_failure",
   "input_changed"}
Outcomes ==
  {"success", "quality_gate_failure", "output_contract_violation", "provider_failure",
   "provider_timeout", "harness_failure", "cleanup_failure"}
CountedOutcomes ==
  {"quality_gate_failure", "output_contract_violation", "provider_failure",
   "provider_timeout"}
HarnessFailureKinds == {"gate_harness_error", "evidence_error", "unsupported_platform"}
GateReasons ==
  {"none", "provider_failure", "provider_timeout", "output_contract_violation",
   "pre_gate_harness_failure"}

-----------------------------------------------------------------------------
(* The lines of the Campaign file.                                         *)

CampaignStarted(at) ==
  [type |-> "campaign_started", sequence |-> 0, planned |-> RunCount, at |-> at]

StartedEvent(sequence, r, at) ==
  [type |-> "run_state", sequence |-> sequence, run |-> r, status |-> "started",
   outcome |-> "none", stop |-> "none", calls |-> Unknown, gate |-> FALSE,
   counted |-> FALSE, kind |-> "absent", at |-> at]

TerminalEvent(sequence, r, status, outcome, calls, gate, counted, kind, at) ==
  [type |-> "run_state", sequence |-> sequence, run |-> r, status |-> status,
   outcome |-> outcome, stop |-> "none", calls |-> calls, gate |-> gate,
   counted |-> counted, kind |-> kind, at |-> at]

NotRunEvent(sequence, r, stop, at) ==
  [type |-> "run_state", sequence |-> sequence, run |-> r, status |-> "not_run",
   outcome |-> "stop_condition", stop |-> stop, calls |-> 0, gate |-> FALSE,
   counted |-> FALSE, kind |-> "absent", at |-> at]

CampaignFinished(sequence, stop, attempted, calls, failures, at) ==
  [type |-> "campaign_finished", sequence |-> sequence, stop |-> stop,
   attempted |-> attempted, calls |-> calls, failures |-> failures, at |-> at]

TornLine == [type |-> "torn"]

IsRunEvent(e) == e.type = "run_state"
IsStarted(e, r) == IsRunEvent(e) /\ e.run = r /\ e.status = "started"
IsTerminal(e, r) == IsRunEvent(e) /\ e.run = r /\ e.status # "started"

StartedIn(f, r) == \E i \in DOMAIN f : IsStarted(f[i], r)
TerminalIn(f, r) == \E i \in DOMAIN f : IsTerminal(f[i], r)
NotRunIn(f, r) == \E i \in DOMAIN f : IsTerminal(f[i], r) /\ f[i].status = "not_run"
EndedIn(f, r) == \E i \in DOMAIN f : IsTerminal(f[i], r) /\ f[i].status # "not_run"
FinishedIn(f) == \E i \in DOMAIN f : f[i].type = "campaign_finished"
TerminalLines(f) == {i \in DOMAIN f : IsRunEvent(f[i]) /\ f[i].status # "started"}

(* Phase6CampaignRunEvent.state_transition_is_explicit: one conjunct for   *)
(* each outcome an attempted run can have. The `interrupted` state, which  *)
(* the Campaign never writes, is left out.                                 *)
OutcomeExplicit(e) ==
  /\ e.outcome \in Outcomes
  /\ e.stop = "none" /\ e.calls # Unknown
  /\ e.status = IF e.outcome \in {"success", "quality_gate_failure"} THEN "completed"
                ELSE "failed"
  /\ e.counted = (e.outcome \in CountedOutcomes)
  /\ e.outcome \in {"success", "quality_gate_failure"} => e.calls = 1 /\ e.gate
  /\ e.outcome = "success" => e.kind = "none"
  /\ e.outcome = "quality_gate_failure" => e.kind = "quality_gate_failure"
  /\ e.outcome = "output_contract_violation" =>
       e.calls = 1 /\ ~e.gate /\ e.kind = "output_contract_violation"
  /\ e.outcome = "provider_failure" =>
       ~e.gate /\ e.kind \in ProviderKinds \ {"provider_timeout"}
  /\ e.outcome = "provider_timeout" => e.calls = 1 /\ ~e.gate /\ e.kind = "provider_timeout"
  /\ e.outcome = "harness_failure" => e.kind \in HarnessFailureKinds
  /\ e.outcome = "cleanup_failure" => e.kind = "process_cleanup_error"

RunEventExplicit(e) ==
  /\ e.sequence > 0
  /\ \/ e.status = "started"
     \/ e.status = "not_run" /\ e.stop \notin {"none"} /\ e.calls = 0
     \/ OutcomeExplicit(e)

-----------------------------------------------------------------------------
(* _validate_phase6_campaign, in the order of its checks.                  *)

Bounded(f) ==
  /\ f # << >>
  /\ f[1].type = "campaign_started"
  /\ f[Len(f)].type = "campaign_finished"

SequenceContiguous(f) == \A i \in DOMAIN f : f[i].sequence = i - 1
TimesNonDecreasing(f) == \A i, j \in DOMAIN f : i < j => f[i].at <= f[j].at

CountsMatch(f) ==
  LET terminal == TerminalLines(f)
      finished == f[Len(f)] IN
  /\ Cardinality(terminal) = f[1].planned
  /\ \A i, j \in DOMAIN f, r \in Runs : IsStarted(f[i], r) /\ IsStarted(f[j], r) => i = j
  /\ Cardinality({r \in Runs : StartedIn(f, r)}) = finished.attempted
  /\ Cardinality({i \in terminal : f[i].calls = 1}) = finished.calls
  /\ \A i \in terminal : f[i].calls # Unknown
  /\ Cardinality({i \in terminal : f[i].counted}) = finished.failures

OneTerminalEach(f) ==
  \A r \in Runs, i, j \in DOMAIN f : IsTerminal(f[i], r) /\ IsTerminal(f[j], r) => i = j

StartedBeforeTerminal(f) ==
  \A r \in Runs, j \in DOMAIN f :
    IsTerminal(f[j], r) =>
      IF f[j].status = "not_run" THEN ~StartedIn(f, r)
      ELSE \E i \in 1 .. j - 1 : IsStarted(f[i], r)

StopReasonsMatch(f) ==
  LET finished == f[Len(f)].stop
      reasons == {f[i].stop : i \in {j \in TerminalLines(f) : f[j].status = "not_run"}} IN
  /\ reasons \subseteq {finished}
  /\ finished = "input_changed" => reasons # {}

CampaignLoads(f) ==
  /\ \A i \in DOMAIN f : f[i].type # "torn"
  /\ Bounded(f)
  /\ \A i \in DOMAIN f : IsRunEvent(f[i]) => RunEventExplicit(f[i])
  /\ SequenceContiguous(f)
  /\ TimesNonDecreasing(f)
  /\ CountsMatch(f)
  /\ OneTerminalEach(f)
  /\ StartedBeforeTerminal(f)
  /\ StopReasonsMatch(f)

-----------------------------------------------------------------------------
(* The record of one run, as the Recording terminal event and the Artifact *)
(* both hold it: codex, commands, diff, metrics, overall, kind, reason,    *)
(* workspace, and the clock readings began <= codexBegan <= codexEnded     *)
(* <= ended. inOrder says that no gate command started before codexEnded,  *)
(* gatesEnded is the latest end of one.                                    *)

Elements(s) == {s[i] : i \in 1 .. Len(s)}
Completed == {"passed", "failed"}
Normal(c) == c.status \in Completed /\ c.cleared
QualityStatuses == {"passed", "failed"}
HarnessStatusKinds == HarnessFailureKinds \cup {"process_cleanup_error"}

GateExecuted(a) == a.commands # << >>
CollectionFailed(a) == a.diff = "incomplete"
HarnessTerminal(a, kind) == a.overall = "harness_error" /\ a.kind = kind

CleanupFailed(a) ==
  \/ a.workspace = "cleanup_failed"
  \/ \E c \in Elements(a.commands) : ~c.cleared
  \/ a.codex.cleanup = "failed" \/ ~a.codex.cleared
  \/ a.codex.kind = "process_cleanup_error"

GateHarnessObserved(a) ==
  /\ a.codex.kind = "none"
  /\ \E c \in Elements(a.commands) : ~Normal(c)
  /\ ~CleanupFailed(a)

UnsupportedObserved(a) ==
  /\ a.codex.kind = "unsupported_platform"
  /\ a.codex.execution = "preflight_completed"
  /\ a.codex.stage = "provider_runtime_precheck"
  /\ ~CleanupFailed(a)

EvidenceErrorExpected(a) ==
  /\ a.codex.kind = "evidence_error" \/ (a.codex.kind = "none" /\ CollectionFailed(a))
  /\ ~CleanupFailed(a) /\ ~GateHarnessObserved(a) /\ ~UnsupportedObserved(a)

(* _validate_phase6_execution_observations: lifecycle, the four            *)
(* bidirectional Harness classifications, quality, and times.              *)
LifecycleFitsWorkspace(a) ==
  /\ GateExecuted(a) = (a.reason = "none")
  /\ a.codex.execution = "preflight_not_completed" => a.workspace = "not_created"
  /\ a.codex.execution = "provider_invocation_attempted" => a.workspace # "not_created"
  /\ a.workspace = "not_created" => ~GateExecuted(a)
  /\ a.codex.kind # "none" => ~GateExecuted(a)

HarnessClassified(a) ==
  /\ CleanupFailed(a) = HarnessTerminal(a, "process_cleanup_error")
  /\ GateHarnessObserved(a) = HarnessTerminal(a, "gate_harness_error")
  /\ UnsupportedObserved(a) = HarnessTerminal(a, "unsupported_platform")
  /\ EvidenceErrorExpected(a) = HarnessTerminal(a, "evidence_error")

QualityComplete(a) ==
  /\ a.overall \in QualityStatuses =>
       /\ a.codex.kind = "none" /\ a.diff = "complete" /\ a.workspace = "removed"
       /\ GateExecuted(a) /\ \A c \in Elements(a.commands) : Normal(c)
  /\ (a.overall \in QualityStatuses) = (a.metrics # "none")
  /\ a.metrics # "none" =>
       LET allPassed == \A c \in Elements(a.commands) : c.status = "passed" IN
       (a.metrics = "pass") = allPassed /\ (a.overall = "passed") = allPassed

TimesOrdered(a) ==
  /\ a.began <= a.codexBegan /\ a.codexBegan <= a.codexEnded /\ a.codexEnded <= a.ended
  /\ GateExecuted(a) =>
       /\ \E i \in DOMAIN a.commands : a.commands[i].gate = "acceptance"
       /\ a.inOrder /\ a.gatesEnded <= a.ended

ObservationsAgree(a) ==
  LifecycleFitsWorkspace(a) /\ HarnessClassified(a) /\ QualityComplete(a) /\ TimesOrdered(a)

(* Phase6RecordingTerminalEvent.terminal_state_is_coherent, for            *)
(* run_completed and for run_failed.                                       *)
CompletedCoherent(a) ==
  /\ a.kind = IF a.overall = "passed" THEN "none" ELSE "quality_gate_failure"
  /\ GateExecuted(a) /\ a.reason = "none"
  /\ a.metrics # "none" /\ a.codex.kind = "none"

FailedCoherent(a) ==
  /\ a.overall \in {"provider_error", "harness_error", "rejected"}
  /\ a.kind \notin {"none", "quality_gate_failure"} /\ a.metrics = "none"
  /\ (a.overall = "rejected") = (a.kind = "output_contract_violation")
  /\ a.overall = "rejected" =>
       a.codex.kind = "none" /\ ~GateExecuted(a) /\ a.reason = "output_contract_violation"
  /\ (a.overall = "provider_error") = (a.kind \in ProviderKinds)
  /\ (a.overall = "harness_error") = (a.kind \in HarnessStatusKinds)
  /\ a.overall = "provider_error" =>
       /\ a.codex.kind = a.kind /\ ~GateExecuted(a)
       /\ a.reason = IF a.kind = "provider_timeout" THEN "provider_timeout"
                     ELSE "provider_failure"
  /\ a.overall = "harness_error" /\ ~GateExecuted(a) => a.reason = "pre_gate_harness_failure"

RecordingAccepted(a) ==
  /\ ObservationsAgree(a)
  /\ IF a.overall \in QualityStatuses THEN CompletedCoherent(a) ELSE FailedCoherent(a)

(* LiveRunArtifactV1_3.artifact_state_is_coherent: the same states, stated *)
(* for the Artifact.                                                       *)
ArtifactAccepted(a) ==
  /\ a.began <= a.ended
  /\ ObservationsAgree(a)
  /\ IF a.overall \in QualityStatuses THEN CompletedCoherent(a) ELSE FailedCoherent(a)

(* Both are built, and read back, by _write_run_outputs.                   *)
PairAccepted(a) == RecordingAccepted(a) /\ ArtifactAccepted(a)
=============================================================================
