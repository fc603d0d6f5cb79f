--------------------------- MODULE ReportedCampaign ---------------------------
(***************************************************************************)
(* A Phase 4 Campaign together with the run Artifacts it publishes, and    *)
(* the report that is made of both afterwards: the steps of                *)
(* WorkflowCampaign, each with what it leaves at the Recording and         *)
(* Evidence paths of the Plan. Another Campaign of the same Plan, on a     *)
(* Campaign path of its own, may publish there as well: the paths are      *)
(* looked at once, before the first run.                                   *)
(***************************************************************************)
EXTENDS WorkflowCampaign, WorkflowReport

VARIABLES
  saved,     \* the files at the paths of each run
  spoiled    \* a publication was cut off, or a run was interrupted after it

reportVars == << vars, saved, spoiled >>

InitReported ==
  /\ Init
  /\ saved = [r \in Runs |-> NothingSaved]
  /\ spoiled = FALSE

-----------------------------------------------------------------------------
(* What _classify_artifact makes of the Artifact it has just published.    *)
Classified(a) ==
  [outcome |-> CASE a.status = "passed" -> "success"
                 [] a.status = "failed" -> "quality_gate_failure"
                 [] a.status = "provider_error" /\ a.kind = "provider_timeout" ->
                      "provider_timeout"
                 [] a.status = "provider_error" /\ a.kind # "provider_timeout" ->
                      "provider_failure"
                 [] OTHER -> IF a.kind = "process_cleanup_error" \/ a.workspace = "cleanup_failed"
                             THEN "cleanup_failure" ELSE "harness_failure",
   calls |-> a.calls, cleanup |-> "not_applicable"]

PathsAreFree == saved[index] = NothingSaved
Half == [saved EXCEPT ![index].recording = "ours"]
Whole(a) ==
  [saved EXCEPT ![index] =
     [recording |-> "ours", evidence |-> [by |-> "ours", artifact |-> a]]]
PossibleArtifacts == {a \in Artifacts : a.calls = IF stage = "attempted" THEN 1 ELSE 0}

(* _protect_campaign_outputs finds nothing in its way.                     *)
InvokeReported ==
  /\ Invoke
  /\ \A r \in Runs : saved[r] = NothingSaved
  /\ UNCHANGED << saved, spoiled >>

PublishSucceeds ==
  /\ PublishPair /\ caught' = caught
  /\ PathsAreFree
  /\ \E a \in PossibleArtifacts : execution' = Classified(a) /\ saved' = Whole(a)
  /\ UNCHANGED spoiled

(* A file in the way or an OSError: _publish_create_only_pair removes the  *)
(* Recording again, or suppresses that it cannot.                          *)
PublishFails ==
  /\ PublishPair /\ caught' = "error"
  /\ \/ UNCHANGED << saved, spoiled >>
     \/ PathsAreFree /\ saved' = Half /\ spoiled' = TRUE

(* Ctrl-C, or the end of the process, within the publication: nothing is   *)
(* rolled back.                                                            *)
PublishCutOff ==
  /\ pc = "publish" /\ (InterruptExecutor \/ Crash)
  /\ \/ UNCHANGED << saved, spoiled >>
     \/ /\ PathsAreFree
        /\ saved' \in {Half} \cup {Whole(a) : a \in PossibleArtifacts}
        /\ spoiled' = TRUE

(* Ctrl-C between the publication and the cleanup of the adapter.          *)
InterruptAfterwards ==
  /\ pc # "publish" /\ InterruptExecutor
  /\ spoiled' = (spoiled \/ saved[index].recording = "ours")
  /\ UNCHANGED saved

OtherStep ==
  /\ pc # "publish"
  /\ ProgramStep \/ InterruptReplaced \/ InterruptScheduler \/ InterruptTail \/ Crash
  /\ UNCHANGED << saved, spoiled >>

(* The other Campaign publishes its Recording, then its Evidence.          *)
RivalRecords ==
  /\ \E r \in Runs :
       saved[r] = NothingSaved /\ saved' = [saved EXCEPT ![r].recording = "other"]
  /\ UNCHANGED << vars, spoiled >>

RivalRecordsEvidence ==
  /\ \E r \in Runs, a \in Artifacts :
       /\ saved[r].recording = "other" /\ saved[r].evidence = Nothing
       /\ saved' = [saved EXCEPT ![r].evidence = [by |-> "other", artifact |-> a]]
  /\ UNCHANGED << vars, spoiled >>

(* Its Evidence cannot be published, and its Recording is removed again.   *)
RivalWithdraws ==
  /\ \E r \in Runs :
       /\ saved[r].recording = "other" /\ saved[r].evidence = Nothing
       /\ saved' = [saved EXCEPT ![r].recording = "nobody"]
  /\ UNCHANGED << vars, spoiled >>

NoneStarts == pc = "idle" /\ UNCHANGED reportVars

NextReported ==
  \/ InvokeReported \/ PublishSucceeds \/ PublishFails \/ PublishCutOff
  \/ InterruptAfterwards \/ OtherStep
  \/ RivalRecords \/ RivalRecordsEvidence \/ RivalWithdraws \/ NoneStarts

SpecReported == InitReported /\ [][NextReported]_reportVars

-----------------------------------------------------------------------------
(* Properties.                                                             *)

RivalWasHere == \E r \in Runs : saved[r].recording = "other"

(* Every Campaign that load_campaign accepts can be reported: what the     *)
(* scheduler wrote of each run agrees with the Artifacts it published,     *)
(* whatever failed in the run and after it. The exceptions are a           *)
(* publication that was cut off, a Ctrl-C after it, and another Campaign   *)
(* at the same paths.                                                      *)
AcceptedCampaignIsReportable ==
  CampaignLoads(log) /\ ~spoiled /\ ~RivalWasHere => Reportable(log, saved)

(* A report that can be made is true: all Evidence in it was written by    *)
(* this Campaign, the calls it counts were made, those it may have missed  *)
(* are marked as missing, a complete pair is two runs that were called     *)
(* once, and its own taxonomy of runs does not refuse it.                  *)
ReportIsTrue ==
  Reportable(log, saved) =>
    /\ \A r \in Runs : saved[r].evidence # Nothing =>
         saved[r].evidence.by = "ours" /\ saved[r].evidence.artifact.calls = called[r]
    /\ \A w \in Workflows :
         LET made == Cardinality({r \in RunsOf(w) : called[r] = 1}) IN
         /\ ObservedCalls(log, w) <= made
         /\ made <= ObservedCalls(log, w) + MissingCalls(log, w)
         /\ TaxonomyMatches(log, saved, w)
    /\ \A r \in Runs : BlockOf[r] \in CompletePairs(log, saved) => called[r] = 1
=============================================================================
