----------------------------- MODULE CampaignLog -----------------------------
(***************************************************************************)
(* The append-only Campaign JSONL file of Phase 4: its events, their       *)
(* contract (the pydantic models of campaign.py) and the strict loader     *)
(* load_campaign, written as predicates on the sequence of lines.          *)
(*                                                                         *)
(* Run identity (run_id, task_id, workflow, repetition_index) is the       *)
(* position of the run in the Plan, so identities are stable by            *)
(* construction; timestamps, digests and names are left out.               *)
(***************************************************************************)
EXTENDS Integers, Sequences, FiniteSets

CONSTANTS
  RunCount,   \* number of runs of the Plan (planned_run_count)
  Unknown     \* the Python None of provider_call_count

ASSUME RunCountAssumption == RunCount \in Nat \ {0}
ASSUME UnknownAssumption == Unknown \notin {0, 1}

Runs == 1 .. RunCount

StopReasons ==
  {"none", "fail_fast", "max_failures", "max_total_duration_ms",
   "harness_failure", "cleanup_failure", "human_interruption", "input_changed"}

(* Outcomes a finished executor can report for an attempted run.           *)
CompletedOutcomes == {"success", "quality_gate_failure"}
FailedOutcomes ==
  {"provider_failure", "provider_timeout", "harness_failure", "cleanup_failure"}
ExecutionOutcomes == CompletedOutcomes \cup FailedOutcomes
Outcomes == ExecutionOutcomes \cup {"human_interruption", "stop_condition", "none"}

(* StopConditions.validate: outcomes that count towards max_failures.      *)
CountedOutcomes == {"quality_gate_failure", "provider_failure", "provider_timeout"}

Statuses == {"started", "completed", "failed", "interrupted", "not_run"}
CallCounts == {0, 1, Unknown}
CleanupStates == {"not_applicable", "cleared", "failed"}

-----------------------------------------------------------------------------
(* The three kinds of event, and the line left by an incomplete write.     *)

CampaignStarted ==
  [type |-> "campaign_started", sequence |-> 0, planned |-> RunCount]

RunEvent(sequence, run, status, outcome, stop, calls, cleanup) ==
  [type |-> "run_state", sequence |-> sequence, run |-> run, status |-> status,
   outcome |-> outcome, stop |-> stop, calls |-> calls, cleanup |-> cleanup]

CampaignFinished(sequence, stop, attempted, calls, unknown) ==
  [type |-> "campaign_finished", sequence |-> sequence, stop |-> stop,
   attempted |-> attempted, calls |-> calls, unknown |-> unknown]

TornLine == [type |-> "torn"]

RunEvents ==
  [type : {"run_state"}, sequence : Nat, run : Runs, status : Statuses,
   outcome : Outcomes, stop : StopReasons, calls : CallCounts,
   cleanup : CleanupStates]
FinishedEvents ==
  [type : {"campaign_finished"}, sequence : Nat, stop : StopReasons,
   attempted : Nat, calls : Nat, unknown : Nat]
Lines == {CampaignStarted, TornLine} \cup RunEvents \cup FinishedEvents

(* CampaignRunEvent.status_details_are_consistent; "none" and Unknown are  *)
(* the Python None.                                                        *)
ValidRunEvent(e) ==
  /\ e.sequence > 0
  /\ e.status = "started" =>
       /\ e.outcome = "none" /\ e.stop = "none" /\ e.calls = Unknown
       /\ e.cleanup = "not_applicable"
  /\ e.status = "not_run" =>
       /\ e.outcome = "stop_condition" /\ e.stop # "none" /\ e.calls = 0
       /\ e.cleanup = "not_applicable"
  /\ e.status = "interrupted" =>
       e.outcome = "human_interruption" /\ e.stop = "human_interruption"
  /\ e.status = "completed" => e.outcome \in CompletedOutcomes /\ e.stop = "none"
  /\ e.status = "failed" =>
       e.outcome \notin CompletedOutcomes \cup {"none"} /\ e.stop = "none"
  /\ e.cleanup = "failed" => e.outcome = "cleanup_failure"

-----------------------------------------------------------------------------
(* What the lines of a file say.                                           *)

IsStarted(e, r) == e.type = "run_state" /\ e.run = r /\ e.status = "started"
IsTerminal(e, r) == e.type = "run_state" /\ e.run = r /\ e.status # "started"

StartedIn(f, r) == \E i \in DOMAIN f : IsStarted(f[i], r)
TerminalIn(f, r) == \E i \in DOMAIN f : IsTerminal(f[i], r)
NotRunIn(f, r) == \E i \in DOMAIN f : IsTerminal(f[i], r) /\ f[i].status = "not_run"
EndedIn(f, r) == \E i \in DOMAIN f : IsTerminal(f[i], r) /\ f[i].status # "not_run"
FinishedIn(f) == \E i \in DOMAIN f : f[i].type = "campaign_finished"

TerminalLines(f) == {i \in DOMAIN f : f[i].type = "run_state" /\ f[i].status # "started"}
NotRunLines(f) == {i \in TerminalLines(f) : f[i].status = "not_run"}
KnownCalls(f) == Cardinality({i \in TerminalLines(f) : f[i].calls = 1})
UnknownCallRuns(f) ==
  Cardinality({i \in TerminalLines(f) \ NotRunLines(f) : f[i].calls = Unknown})

(* load_campaign: the file is accepted. Every conjunct is one of the       *)
(* loader's CampaignError checks, in its order.                            *)
SequenceContiguous(f) == \A i \in DOMAIN f : f[i].sequence = i - 1

OneHeaderOneFooter(f) ==
  /\ f[1].type = "campaign_started"
  /\ f[Len(f)].type = "campaign_finished"
  /\ \A i \in DOMAIN f :
       /\ f[i].type = "campaign_started" => i = 1
       /\ f[i].type = "campaign_finished" => i = Len(f)

RunsWellFormed(f) ==
  \A r \in Runs :
    /\ \A i, j \in DOMAIN f : IsStarted(f[i], r) /\ IsStarted(f[j], r) => i = j
    /\ \A i, j \in DOMAIN f : IsTerminal(f[i], r) /\ IsTerminal(f[j], r) => i = j
    /\ \A j \in DOMAIN f :
         IsTerminal(f[j], r) /\ f[j].status # "not_run" =>
           \E i \in 1 .. j - 1 : IsStarted(f[i], r)

CountsMatch(f) ==
  LET finished == f[Len(f)] IN
    /\ Cardinality(TerminalLines(f)) = f[1].planned
    /\ Cardinality({r \in Runs : StartedIn(f, r)}) = finished.attempted
    /\ KnownCalls(f) = finished.calls
    /\ UnknownCallRuns(f) = finished.unknown

StopReasonsMatch(f) ==
  LET stop == f[Len(f)].stop
      notRunReasons == {f[i].stop : i \in NotRunLines(f)}
  IN notRunReasons = IF stop = "none" THEN {} ELSE {stop}

CampaignLoads(f) ==
  /\ f # << >>
  /\ \A i \in DOMAIN f : f[i].type # "torn"
  /\ \A i \in DOMAIN f : f[i].type = "run_state" => ValidRunEvent(f[i])
  /\ OneHeaderOneFooter(f)
  /\ SequenceContiguous(f)
  /\ RunsWellFormed(f)
  /\ CountsMatch(f)
  /\ StopReasonsMatch(f)
=============================================================================
