---------------------------- MODULE WorkflowReport ----------------------------
(***************************************************************************)
(* The offline report of a Phase 4 Campaign (workflow_report.py): which    *)
(* saved Campaign file and run Artifacts it accepts, and what it counts.   *)
(* An Artifact is the part of LiveRunArtifact that the classification      *)
(* reads; identities, fingerprints and evaluation summaries, which one     *)
(* writer copies into both files of a pair, are the writer's name, `by`.   *)
(***************************************************************************)
EXTENDS CampaignLog

CONSTANTS
  WorkflowOf,   \* the Workflow of each run of the Plan
  BlockOf       \* its block: one task and repetition, once per Workflow

Workflows == {"one_shot", "staged"}

ASSUME PlanAssumption ==
  /\ WorkflowOf \in [Runs -> Workflows]
  /\ \A r, s \in Runs : r # s /\ BlockOf[r] = BlockOf[s] => WorkflowOf[r] # WorkflowOf[s]

(* The combinations LiveRunArtifact accepts; "other" stands for the other  *)
(* kinds of its status, and removed for not_created as well.               *)
Artifacts ==
  { a \in [status : {"passed", "failed", "provider_error", "harness_error"},
           kind : {"none", "quality_gate_failure", "provider_timeout",
                   "process_cleanup_error", "other"},
           workspace : {"removed", "cleanup_failed"}, calls : {0, 1}] :
      /\ (a.status = "passed") = (a.kind = "none")
      /\ (a.status = "failed") = (a.kind = "quality_gate_failure")
      /\ a.kind = "provider_timeout" => a.status = "provider_error"
      /\ a.kind = "process_cleanup_error" => a.status = "harness_error"
      /\ a.workspace = "cleanup_failed" => a.status = "harness_error"
      /\ a.status \in {"passed", "failed"} => a.calls = 1 }

(* The files at the paths of one run.                                      *)
Nothing == [by |-> "nobody"]
Saved ==
  [recording : {"nobody", "ours", "other"},
   evidence : {Nothing} \cup [by : {"ours", "other"}, artifact : Artifacts]]
NothingSaved == [recording |-> "nobody", evidence |-> Nothing]

-----------------------------------------------------------------------------
(* The outcome the report reads off an Artifact.                           *)

(* Mutant: a Workspace that could not be removed is a harness failure.     *)
ArtifactOutcome_forgetsWorkspace(a) ==
  CASE a.status = "passed" -> "success"
    [] a.status = "failed" -> "quality_gate_failure"
    [] a.status = "provider_error" ->
         IF a.kind = "provider_timeout" THEN "provider_timeout" ELSE "provider_failure"
    [] OTHER ->
         IF a.kind = "process_cleanup_error" THEN "cleanup_failure" ELSE "harness_failure"

ArtifactOutcome(a) ==
  CASE a.status = "passed" -> "success"
    [] a.status = "failed" -> "quality_gate_failure"
    [] a.status = "provider_error" ->
         IF a.kind = "provider_timeout" THEN "provider_timeout" ELSE "provider_failure"
    [] OTHER ->
         IF a.kind = "process_cleanup_error" \/ a.workspace = "cleanup_failed"
         THEN "cleanup_failure" ELSE "harness_failure"

(* Mutant: a line that does not know its calls matches any Evidence.       *)
CampaignMatches_ignoresUnknown(line, a) ==
  /\ line.calls \in {a.calls, Unknown}
  /\ IF line.cleanup = "failed" THEN line.outcome = "cleanup_failure"
     ELSE line.outcome = ArtifactOutcome(a)

(* _validate_campaign_artifact_relationship. A line that knows its calls   *)
(* has the failure kind from the same Artifact.                            *)
CampaignMatches(line, a) ==
  /\ line.calls = a.calls
  /\ IF line.cleanup = "failed" THEN line.outcome = "cleanup_failure"
     ELSE line.outcome = ArtifactOutcome(a)

EvidenceRequired == {"success", "quality_gate_failure", "provider_failure", "provider_timeout"}

(* _terminal_events: an accepted file has one per run.                     *)
Terminal(f, r) == f[CHOOSE i \in DOMAIN f : IsTerminal(f[i], r)]

(* The checks of _load_artifacts for one run.                              *)
ArtifactLoads(line, files) ==
  IF files.evidence = Nothing
  THEN files.recording = "nobody" /\ line.outcome \notin EvidenceRequired
  ELSE /\ line.status \notin {"interrupted", "not_run"}
       /\ files.recording = files.evidence.by
       /\ CampaignMatches(line, files.evidence.artifact)

(* aggregate_workflow_campaign comes to its counts.                        *)
Reportable(f, saved) ==
  /\ CampaignLoads(f)
  /\ \A r \in Runs : ArtifactLoads(Terminal(f, r), saved[r])

-----------------------------------------------------------------------------
(* _aggregate_workflow: the counts of one Workflow.                        *)

RunsOf(w) == {r \in Runs : WorkflowOf[r] = w}
WithOutcome(f, w, outcomes) ==
  Cardinality({r \in RunsOf(w) : Terminal(f, r).outcome \in outcomes})
WithStatus(f, w, status) == Cardinality({r \in RunsOf(w) : Terminal(f, r).status = status})
AttemptedRuns(f, w) == {r \in RunsOf(w) : Terminal(f, r).status # "not_run"}
EvidenceRuns(saved, w) == {r \in RunsOf(w) : saved[r].evidence # Nothing}

(* agent_call_count: the total, and the attempted runs it misses.          *)
ObservedCalls(f, w) == Cardinality({r \in AttemptedRuns(f, w) : Terminal(f, r).calls = 1})
MissingCalls(f, w) == Cardinality({r \in AttemptedRuns(f, w) : Terminal(f, r).calls = Unknown})

CompletePairs(f, saved) ==
  {b \in {BlockOf[r] : r \in Runs} :
     \A r \in Runs : BlockOf[r] = b =>
       Terminal(f, r).status = "completed" /\ saved[r].evidence # Nothing}

(* WorkflowAggregate.run_denominators_match_taxonomy.                      *)
TaxonomyMatches(f, saved, w) ==
  LET attempted == Cardinality(AttemptedRuns(f, w))
      completed == WithStatus(f, w, "completed")
      provider == WithOutcome(f, w, {"provider_failure", "provider_timeout"})
      harness == WithOutcome(f, w, {"harness_failure", "cleanup_failure"})
  IN /\ WithOutcome(f, w, {"success"}) + WithOutcome(f, w, {"quality_gate_failure"}) = completed
     /\ completed + provider + harness + WithStatus(f, w, "interrupted") = attempted
     /\ attempted + WithStatus(f, w, "not_run") = Cardinality(RunsOf(w))
     /\ Cardinality(EvidenceRuns(saved, w)) <= attempted
=============================================================================
