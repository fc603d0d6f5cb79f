----------------------------- MODULE Phase6Report -----------------------------
(***************************************************************************)
(* What is later made of a Campaign file and its pairs: the checks that    *)
(* bind them to each other (_validate_primary_live_bindings), the language *)
(* status, the counts of the public language report, and the public record *)
(* of a run. They read what run_phase6_campaign wrote (Phase6Campaign),    *)
(* long after it, and refuse the whole publication where it does not fit.  *)
(*                                                                         *)
(* A pair is [overall, kind, reason, gate, calls, began, ended, launched]. *)
(* The Plan has one block of two runs, one_shot and staged, for each task  *)
(* and repetition.                                                         *)
(***************************************************************************)
EXTENDS Phase6Contract

NoPair == [kind |-> "absent"]

Block(r) == (r + 1) \div 2

(* _provider_call_count_from_codex.                                        *)
CallsOf(codex) == IF codex.execution = "provider_invocation_attempted" THEN 1 ELSE 0

(* _campaign_artifact_state.                                               *)
ArtifactState(e) ==
  CASE e.outcome = "success" -> "passed"
    [] e.outcome = "quality_gate_failure" -> "failed"
    [] e.outcome = "output_contract_violation" -> "rejected"
    [] e.outcome \in {"provider_failure", "provider_timeout"} -> "provider_error"
    [] OTHER -> "harness_error"

(* Mutant: the reason is not looked for in the failure kind.               *)
GateReasonOf_anyProviderFailure(e) ==
  CASE e.stop = "input_changed" -> "input_changed"
    [] e.outcome = "output_contract_violation" -> "output_contract_violation"
    [] e.outcome \in {"provider_failure", "provider_timeout"} -> "provider_failure"
    [] e.outcome \in {"harness_failure", "cleanup_failure"} -> "pre_gate_harness_failure"
    [] OTHER -> "not_run"

(* _gate_not_executed_reason_from_campaign.                                *)
GateReasonOf(e) ==
  CASE e.stop = "input_changed" -> "input_changed"
    [] e.outcome = "output_contract_violation" -> "output_contract_violation"
    [] e.kind = "provider_timeout" -> "provider_timeout"
    [] e.outcome = "provider_failure" -> "provider_failure"
    [] e.outcome \in {"harness_failure", "cleanup_failure"} -> "pre_gate_harness_failure"
    [] OTHER -> "not_run"

-----------------------------------------------------------------------------
TerminalOf(f, r) == f[CHOOSE i \in DOMAIN f : IsTerminal(f[i], r)]
StartedOf(f, r) == f[CHOOSE i \in DOMAIN f : IsStarted(f[i], r)]
WithArtifacts(f) == {r \in Runs : TerminalOf(f, r).status \in {"completed", "failed"}}

(* _validate_primary_live_bindings, for a file its loader has accepted and *)
(* the pairs its operator lists: those of the runs that ended.             *)
BoundToPair(e, started, finished, pair) ==
  /\ e.calls = pair.calls
  /\ pair.overall = ArtifactState(e) /\ pair.kind = e.kind /\ pair.gate = e.gate
  /\ started.at <= pair.began
  /\ pair.ended <= finished.at /\ pair.ended <= e.at
  /\ (e.status = "completed") = (pair.overall \in QualityStatuses)

BindingsHold(f, pairs) ==
  LET finished == f[Len(f)] IN
  /\ \A r \in Runs : TerminalIn(f, r)
  /\ \A r \in WithArtifacts(f) :
       /\ pairs[r] # NoPair
       /\ BoundToPair(TerminalOf(f, r), StartedOf(f, r), finished, pairs[r])
  /\ finished.calls = Cardinality({r \in WithArtifacts(f) : pairs[r].calls = 1})

-----------------------------------------------------------------------------
(* derive_public_language_counts and derive_language_status.               *)

With(f, status) == Cardinality({i \in TerminalLines(f) : f[i].status = status})

CompletePairs(f) ==
  {b \in {Block(r) : r \in Runs} :
     /\ Cardinality({r \in Runs : Block(r) = b}) = 2
     /\ \A r \in {x \in Runs : Block(x) = b} : TerminalOf(f, r).status = "completed"}

Counts(f) ==
  LET terminal == TerminalLines(f)
      ungated == {i \in terminal : ~f[i].gate} IN
  [scheduled |-> Cardinality(terminal),
   attempted |-> With(f, "completed") + With(f, "failed"),
   completed |-> With(f, "completed"), failed |-> With(f, "failed"),
   not_run |-> With(f, "not_run"),
   rejected |-> Cardinality({i \in terminal : f[i].outcome = "output_contract_violation"}),
   ungated |-> Cardinality(ungated),
   reasons |-> [x \in GateReasons \cup {"input_changed", "not_run"} |->
                  Cardinality({i \in ungated : GateReasonOf(f[i]) = x})],
   zero_call |-> Cardinality({i \in terminal : f[i].calls = 0}),
   pairs |-> Cardinality(CompletePairs(f))]

(* The Campaign and the Plan are there; only runs whose Artifact was       *)
(* listed count.                                                           *)
LanguageStatus(f, evidence) ==
  IF \E b \in CompletePairs(f) : \A r \in Runs : Block(r) = b => r \in evidence
  THEN "evaluated" ELSE "blocked"

(* PublicLanguageReport.report_counts_are_coherent and                     *)
(* PublicLanguageReportV1_1.provider_call_aggregates_are_coherent.         *)
ReportAccepted(c) ==
  /\ c.completed + c.failed + c.not_run = c.scheduled
  /\ c.attempted = c.completed + c.failed
  /\ c.reasons["none"] = 0
  /\ c.ungated = c.reasons["provider_failure"] + c.reasons["provider_timeout"]
                 + c.reasons["output_contract_violation"]
                 + c.reasons["pre_gate_harness_failure"] + c.reasons["input_changed"]
                 + c.reasons["not_run"]
  /\ c.reasons["output_contract_violation"] = c.rejected
  /\ c.rejected <= c.failed
  /\ c.ungated <= c.scheduled /\ c.zero_call <= c.ungated

-----------------------------------------------------------------------------
(* _eligible_run_records: the public record of a run whose Provider was    *)
(* called, from its Artifact; _gate_counts_from_commands.                  *)

CommandsOf(a, gate, statuses) ==
  Cardinality({i \in DOMAIN a.commands :
                 a.commands[i].gate = gate /\ a.commands[i].status \in statuses})
AnyStatus == Completed \cup {"timed_out", "signal_terminated", "collection_error", "spawn_error"}

PublicRun(a) ==
  [overall |-> a.overall, kind |-> a.kind, gate |-> GateExecuted(a), reason |-> a.reason,
   metrics |-> a.metrics # "none", began |-> a.began, ended |-> a.ended,
   accepted |-> CommandsOf(a, "acceptance", {"passed"}),
   total |-> CommandsOf(a, "acceptance", AnyStatus),
   failures |-> {g \in {"regression", "lint", "typecheck"} :
                   CommandsOf(a, g, {"failed"}) > 0}]

(* PublicRunRecord.public_allowlist_values_are_coherent.                   *)
PublicRunAccepted(p) ==
  /\ p.began <= p.ended /\ p.accepted <= p.total
  /\ p.gate = (p.reason = "none") /\ p.reason # "input_changed"
  /\ ~p.gate => p.total = 0 /\ p.failures = {}
  /\ CASE p.overall \in QualityStatuses ->
            /\ p.kind = IF p.overall = "passed" THEN "none" ELSE "quality_gate_failure"
            /\ p.gate /\ p.metrics /\ p.total # 0
            /\ (p.overall = "passed") = (p.accepted = p.total /\ p.failures = {})
       [] p.overall = "rejected" ->
            /\ p.kind = "output_contract_violation" /\ ~p.gate /\ ~p.metrics
            /\ p.reason = "output_contract_violation"
       [] p.overall = "provider_error" ->
            /\ p.kind \in ProviderKinds /\ ~p.gate /\ ~p.metrics
            /\ p.reason = IF p.kind = "provider_timeout" THEN "provider_timeout"
                          ELSE "provider_failure"
       [] OTHER ->
            /\ p.overall = "harness_error" /\ p.kind \in HarnessStatusKinds /\ ~p.metrics
            /\ ~p.gate => p.reason = "pre_gate_harness_failure"
=============================================================================
