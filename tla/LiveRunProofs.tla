----------------------------- MODULE LiveRunProofs -----------------------------
(***************************************************************************)
(* Proofs about LiveRun for every Plan of gate commands and any number of  *)
(* interrupts: the safety properties its run checks, and that it keeps the *)
(* promise of LivePromise. They rest on what the run knows of the          *)
(* Provider, the gates and the Workspace at each of its steps.             *)
(***************************************************************************)
EXTENDS LiveRun, TLAPS

Early == {"begin", "preflight", "probe", "probe_cleanup", "refused_preflight"}
BeforeCall == Early \cup {"prepare", "environment", "runner"}
InTree == {"environment", "runner", "gates", "gate", "diff", "remove"}
TrackerStages ==
  {"preflight"} \cup OrchestrationStages \cup RunnerStages \cup PostSpawnStages
  \cup HandoffStages
PreflightKinds ==
  {"unsupported_platform", "provider_unavailable", "provider_protocol_error"} \cup HarnessKinds
Commands ==
  [gate : Gates, cleared : BOOLEAN,
   status : {"passed", "failed", "timed_out", "signal_terminated", "collection_error",
             "spawn_error"}]

(* The types the proofs need. What the tracker says of the process is what *)
(* a Failure Diagnostic has to say.                                        *)
TrackerFits(t) ==
  /\ t \in [runner : {"not_started", "started"}, invocation : Invocations,
            cleanup : {"not_applicable", "cleared", "failed"}, stage : TrackerStages]
  /\ t.runner = "not_started" => t.invocation = "not_attempted"
  /\ (t.invocation = "process_started") = (t.cleanup # "not_applicable")
PlainTypes ==
  /\ pc \in Steps
  /\ (exit = "none") = (pc # "ended")
  /\ at \in [Paths -> {"free", "other", "ours"}]
  /\ sourceIntact \in BOOLEAN /\ clockRuns \in BOOLEAN
  /\ root \in BOOLEAN /\ probeRoot \in BOOLEAN
  /\ interrupts \in Nat
  /\ launched \in Nat /\ gateExecuted \in BOOLEAN
  /\ workspace \in {"not_created", "removed", "cleanup_failed"}
TypeOK ==
  /\ PlainTypes
  /\ TrackerFits(tracker)
  /\ probe \in [command : {"version", "help"}, verdict : {"none", "ok"} \cup PreflightKinds]
  /\ commands \in Seq(Commands)

(* The Workspace and what the run believes of it.                          *)
TreeInv ==
  /\ pc \in Early \cup {"prepare"} => ~root /\ workspace = "not_created"
  /\ pc \in InTree => root /\ workspace = "not_created"
  /\ pc \in {"conclude", "protect", "publish", "diagnose"} =>
       \/ root = (workspace = "cleanup_failed")
       \/ MayBeOrphaned /\ workspace = "not_created"

(* Provider calls, and who knows of them: the tracker until a Ctrl-C that  *)
(* falls into the call, the evidence from the end of the call on.          *)
HasCodex ==
  \/ pc \in {"refused_preflight", "gates", "gate", "diff", "conclude"}
  \/ pc = "remove" /\ ~Interrupted /\ withheld = "none"
CallInv ==
  /\ attempts \in {0, 1}
  /\ pc \in BeforeCall =>
       attempts = 0 /\ tracker.runner = "not_started" /\ tracker.invocation = "not_attempted"
  /\ pc = "runner" => tracker.stage = "provider_runner_construction"
  /\ pc # "ended" /\ (pc = "remove" => ~Interrupted) => attempts = Calls(tracker.invocation)
  /\ HasCodex => Accepted(codex) /\ attempts = Calls(codex.invocation)
  /\ HasCodex /\ pc # "refused_preflight" => codex.execution = ExecutionStage(codex.invocation)
  /\ pc = "refused_preflight" =>
       /\ codex.execution = "preflight_not_completed" /\ codex.invocation = "not_attempted"
       /\ failure = codex.kind /\ failure # "none"
  /\ pc = "conclude" /\ workspace = "not_created" => codex.invocation = "not_attempted"
  /\ pc \in Early \ {"refused_preflight"} => failure = "none"
  /\ pc \notin Early \cup {"diagnose", "ended", "protect", "publish"} =>
       failure \in {"none", "evidence_error"}

(* The gates: which commands were evaluated, and that they only are after  *)
(* a Provider that succeeded.                                              *)
Aligned == \A i \in 1 .. Len(commands) : Normal(commands[i]) /\ commands[i].gate = Plan[i]
GateInv ==
  /\ pc \in BeforeCall \cup {"gates"} =>
       commands = << >> /\ launched = 0 /\ ~gateExecuted /\ gateResult = "absent"
  /\ pc = "gate" =>
       Aligned /\ launched = Len(commands) /\ Len(commands) < Len(Plan) /\ gateResult = "absent"
  /\ gateResult = "none" => Aligned /\ launched = Len(Plan) /\ Len(commands) = Len(Plan)
  /\ gateResult \notin {"absent", "none"} => \E c \in Elements(commands) : ~Normal(c)
  /\ launched > 0 \/ commands # << >> => gateExecuted
  /\ pc \in {"gates", "gate"} \/ gateExecuted =>
       codex.kind = "none" /\ tracker.cleanup = "cleared"
  /\ pc = "conclude" /\ workspace = "not_created" => commands = << >>

(* Ctrl-C, which only a preflight root that cannot be removed turns into   *)
(* something else.                                                         *)
InterruptInv ==
  /\ pc \in {"begin", "preflight", "probe"} => probe.verdict = "none"
  /\ pc = "probe_cleanup" => probeRoot /\ (~Interrupted => probe.verdict # "none")
  /\ Interrupted =>
       \/ pc = "probe_cleanup" /\ probe.verdict = "none"
       \/ pc = "remove"
       \/ exit = "interrupted"
       \/ exit = "raised" /\ (root \/ probeRoot)
       \/ /\ pc \in {"refused_preflight", "protect", "publish", "diagnose", "ended"}
          /\ attempts = 0 /\ probeRoot /\ failure = "evidence_error"

(* What is at the output paths, and why a pair is withheld.                *)
RecordInv ==
  /\ pc # "ended" => at["evidence"] # "ours" /\ at["diagnostic"] # "ours"
  /\ pc \notin {"diagnose", "ended"} => at["recording"] # "ours"
  /\ at["diagnostic"] = "ours" => at["recording"] # "ours" /\ at["evidence"] # "ours"
  /\ pc \in {"protect", "publish"} \/ at["evidence"] = "ours" =>
       /\ attempts = Calls(artifact.codex.invocation)
       /\ artifact.workspace = workspace /\ ArtifactAccepted(artifact)
  /\ pc \notin {"remove", "diagnose", "ended"} => withheld = "none"
  /\ exit = "pair" => at["evidence"] = "ours"

IInv ==
  /\ TypeOK /\ TreeInv /\ CallInv /\ GateInv /\ InterruptInv /\ RecordInv
  /\ WorkspaceAccounted /\ DiagnosticIsTruthful /\ PairIsBuiltOrExplained

-----------------------------------------------------------------------------
(* The evidence the adapter's builders make.                               *)

(* The evidence of a failed preflight satisfies its contract, whatever the *)
(* kind of the failure.                                                    *)
LEMMA PreflightFacts ==
  ASSUME NEW kind \in PreflightKinds
  PROVE  /\ Accepted(PreflightEvidence(kind))
         /\ PreflightEvidence(kind).kind = kind
         /\ PreflightEvidence(kind).execution = "preflight_not_completed"
         /\ PreflightEvidence(kind).invocation = "not_attempted"
BY DEF PreflightKinds, HarnessKinds, PreflightEvidence, Evidence, Accepted, LifecycleAgrees,
       StageAgrees, KindAgrees, Kinds, ProviderKinds, SpawnKinds, OrchestrationStages,
       RunnerStages, PreSpawnStages, PostSpawnStages, HandoffStages, HandoffStage

(* So does the evidence of a run that ends between preflight and runner.   *)
LEMMA PostPreflightFacts ==
  ASSUME NEW stage \in {"workspace_preparation", "provider_environment_directory_preparation"}
  PROVE  /\ Accepted(PostPreflightEvidence(stage))
         /\ PostPreflightEvidence(stage).execution = "preflight_completed"
         /\ PostPreflightEvidence(stage).invocation = "not_attempted"
BY DEF PostPreflightEvidence, HarnessKinds, Evidence, Accepted, LifecycleAgrees,
       StageAgrees, KindAgrees, Kinds, ProviderKinds, SpawnKinds, OrchestrationStages,
       RunnerStages, PreSpawnStages, PostSpawnStages, HandoffStages, HandoffStage

(* And that of a preparation that ended in an unexpected exception.        *)
LEMMA EscapeFacts ==
  ASSUME TypeOK, CallInv, PrepareEscapes
  PROVE  /\ TrackerFits(tracker') /\ tracker'.runner = "not_started"
         /\ tracker'.invocation = "not_attempted" /\ tracker'.stage = "provider_orchestration"
         /\ Accepted(codex') /\ codex'.execution = "preflight_completed"
         /\ codex'.invocation = "not_attempted"
         /\ pc' = "conclude" /\ UNCHANGED withheld
<1>1. /\ tracker' = [tracker EXCEPT !.stage = "provider_orchestration"]
      /\ TrackerFits(tracker) /\ tracker.runner = "not_started"
      /\ tracker.invocation = "not_attempted"
  BY DEF PrepareEscapes, TypeOK, CallInv, BeforeCall
<1>2. /\ TrackerFits(tracker') /\ tracker'.runner = "not_started"
      /\ tracker'.invocation = "not_attempted" /\ tracker'.stage = "provider_orchestration"
      /\ tracker'.cleanup = "not_applicable"
  BY <1>1 DEF TrackerFits, TrackerStages, OrchestrationStages, Invocations
<1> DEFINE e == LifecycleEvidence(tracker')
<1>3. /\ e = Evidence("not_started", "preflight_completed", "not_attempted",
                      "provider_orchestration", "evidence_error", TRUE)
  BY <1>2 DEF LifecycleEvidence, ExecutionStage
<1> HIDE DEF e
<1>4. Accepted(e) /\ e.execution = "preflight_completed" /\ e.invocation = "not_attempted"
  BY <1>3 DEF Evidence, HarnessKinds, Accepted, LifecycleAgrees, StageAgrees, KindAgrees, Kinds,
     ProviderKinds, SpawnKinds, OrchestrationStages, RunnerStages, PreSpawnStages,
     PostSpawnStages, HandoffStages, HandoffStage
<1> QED
  BY <1>2, <1>4 DEF PrepareEscapes, e

(* And that of a platform without process groups.                          *)
LEMMA UnsupportedFacts ==
  /\ Accepted(UnsupportedEvidence)
  /\ UnsupportedEvidence.execution = "preflight_completed"
  /\ UnsupportedEvidence.invocation = "not_attempted"
BY DEF UnsupportedEvidence, HarnessKinds, Evidence, Accepted, LifecycleAgrees,
       StageAgrees, KindAgrees, Kinds, ProviderKinds, SpawnKinds, OrchestrationStages,
       RunnerStages, PreSpawnStages, PostSpawnStages, HandoffStages, HandoffStage

(* What the runner returns; its success is a process that ran and whose    *)
(* group is gone.                                                          *)
LEMMA ResultFacts ==
  ASSUME NEW e \in RunnerResults
  PROVE  /\ Accepted(e)
         /\ e.invocation \in Invocations /\ e.cleared \in BOOLEAN
         /\ e.execution = ExecutionStage(e.invocation)
         /\ e.kind = "none" => e.invocation = "process_started" /\ e.cleared
<1>1. PICK i \in Invocations, s \in ResultStages, k \in Kinds :
        e = Evidence("started", ExecutionStage(i), i, s, k, k # "process_cleanup_error")
  BY DEF RunnerResults
<1>2. e.invocation = i /\ e.cleared \in BOOLEAN /\ e.execution = ExecutionStage(i)
  BY <1>1 DEF Evidence
<1>3. Accepted(e)
  BY DEF RunnerResults
<1> QED
  BY <1>2, <1>3 DEF Accepted, KindAgrees

(* What a tracker holds when the runner is through.                        *)
LEMMA TrackedFits ==
  ASSUME NEW i \in Invocations, NEW c \in BOOLEAN, NEW s \in TrackerStages
  PROVE  TrackerFits(Tracked(i, c, s)) /\ Tracked(i, c, s).stage = s
         /\ Tracked(i, c, s).invocation = i
         /\ (Tracked(i, c, s).cleanup = "cleared") = (i = "process_started" /\ c)
BY DEF TrackerFits, Tracked

(* ... and when it raises: the lifecycle fallback is accepted, or not made *)
(* since the runner's own evidence was refused.                            *)
LEMMA RunnerErrorFacts ==
  ASSUME NEW t \in RunnerErrors
  PROVE  /\ TrackerFits(t)
         /\ \/ t = StaleTimeout /\ t.stage = HandoffStage
            \/ t.stage # HandoffStage /\ Accepted(LifecycleEvidence(t))
<1> USE DEF TrackerFits, Tracked, TrackerStages, Invocations, LifecycleEvidence,
            ExecutionStage, Evidence, HarnessKinds, Accepted, LifecycleAgrees, StageAgrees,
            KindAgrees, Kinds, ProviderKinds, SpawnKinds, OrchestrationStages, RunnerStages,
            PreSpawnStages, PostSpawnStages, HandoffStages, HandoffStage
<1>1. CASE \E s \in RunnerStages : t = Tracked("not_attempted", TRUE, s)
  <2>1. PICK s \in RunnerStages : t = Tracked("not_attempted", TRUE, s)
    BY <1>1
  <2>2. TrackerFits(t) /\ t.stage # HandoffStage
    BY <2>1
  <2>3. LifecycleEvidence(t) =
          Evidence("started", "preflight_completed", "not_attempted", s, "evidence_error", TRUE)
    BY <2>1
  <2>4. LifecycleAgrees(LifecycleEvidence(t))
    BY <2>3
  <2>5. StageAgrees(LifecycleEvidence(t)) /\ KindAgrees(LifecycleEvidence(t))
    BY <2>3
  <2> QED
    BY <2>2, <2>3, <2>4, <2>5
<1>2. CASE \E c \in BOOLEAN, s \in PostSpawnStages \cup {"provider_runner_result_construction"} :
             t = Tracked("process_started", c, s)
  BY <1>2
<1>3. CASE t = StaleTimeout
  BY <1>3 DEF StaleTimeout
<1> QED
  BY <1>1, <1>2, <1>3 DEF RunnerErrors

(* With a clock set back its own evidence is refused as well.              *)
LEMMA ClockErrorFacts ==
  ASSUME NEW t \in ClockErrors
  PROVE  TrackerFits(t) /\ t.stage = HandoffStage
BY DEF ClockErrors, TrackerFits, Tracked, TrackerStages, Invocations, HandoffStages,
       HandoffStage

(* The evidence made of a tracker has the tracker's number of calls.       *)
LEMMA LifecycleFacts ==
  ASSUME NEW t
  PROVE  /\ LifecycleEvidence(t).invocation = t.invocation
         /\ LifecycleEvidence(t).execution = ExecutionStage(t.invocation)
BY DEF LifecycleEvidence, Evidence

(* So it is for a runner that could not be constructed.                    *)
LEMMA ConstructionFacts ==
  ASSUME TypeOK, CallInv, pc = "runner"
  PROVE  tracker.stage # HandoffStage /\ Accepted(LifecycleEvidence(tracker))
BY DEF TypeOK, TrackerFits, CallInv, BeforeCall, LifecycleEvidence,
       ExecutionStage, Evidence, HarnessKinds, Accepted, LifecycleAgrees, StageAgrees,
       KindAgrees, Kinds, ProviderKinds, SpawnKinds, OrchestrationStages, RunnerStages,
       PreSpawnStages, PostSpawnStages, HandoffStages, HandoffStage

(* The preflight fails in these ways only.                                 *)
LEMMA VerdictsFail ==
  ASSUME NEW command, NEW v \in Verdicts(command), v # "ok"
  PROVE  v \in PreflightKinds
BY DEF Verdicts, PreflightKinds, HarnessKinds

-----------------------------------------------------------------------------
(* One step of the run or its environment.                                 *)

Step == RunStep \/ ChangeSource \/ SetClockBack \/ Intrude \/ Interrupt

(* Entering a stage changes nothing else of the tracker.                   *)
LEMMA StageSet ==
  ASSUME TypeOK, NEW s, tracker' = [tracker EXCEPT !.stage = s]
  PROVE  /\ tracker'.invocation = tracker.invocation /\ tracker'.runner = tracker.runner
         /\ tracker'.cleanup = tracker.cleanup /\ tracker'.stage = s
BY DEF TypeOK, TrackerFits

(* There is a gate command.                                                *)
LEMMA PlanNotEmpty == Len(Plan) \in Nat /\ Len(Plan) > 0
BY PlanAssumption

(* A failed preflight: the refusal of its evidence never happens.          *)
LEMMA PreflightRefused ==
  ASSUME NEW kind \in PreflightKinds, PreflightFails(kind)
  PROVE  /\ pc' = "refused_preflight" /\ failure' = kind
         /\ Accepted(codex') /\ codex'.kind = kind
         /\ codex'.execution = "preflight_not_completed"
         /\ codex'.invocation = "not_attempted"
         /\ UNCHANGED << tracker, withheld, probe, exit >>
BY PreflightFacts DEF PreflightFails

(* The root of a preflight command goes, and the preflight goes on or ends. *)
LEMMA ProbeFacts ==
  ASSUME TypeOK, CallInv, InterruptInv, RemoveProbeRoot
  PROVE  \/ Interrupted /\ Ends("interrupted")
            /\ UNCHANGED << probe, tracker, codex, failure, withheld >>
         \/ pc' = "probe" /\ probe' = [command |-> "help", verdict |-> "none"] /\ ~Interrupted
            /\ UNCHANGED << tracker, codex, failure, withheld, exit >>
         \/ pc' = "prepare" /\ tracker' = [tracker EXCEPT !.stage = "workspace_preparation"]
            /\ UNCHANGED << probe, codex, failure, withheld, exit >> /\ ~Interrupted
         \/ /\ pc' = "refused_preflight" /\ ~Interrupted
            /\ Accepted(codex') /\ codex'.kind = failure' /\ failure' # "none"
            /\ codex'.execution = "preflight_not_completed"
            /\ codex'.invocation = "not_attempted"
            /\ UNCHANGED << tracker, withheld, probe, exit >>
<1>1. pc = "probe_cleanup" /\ ~Interrupted => probe.verdict \in {"ok"} \cup PreflightKinds
  BY DEF TypeOK, InterruptInv
<1> QED
  BY <1>1, PreflightRefused DEF RemoveProbeRoot, TypeOK, PreflightKinds, HarnessKinds

(* The end of the Provider call, with evidence of it or without.           *)
LEMMA ProviderFacts ==
  ASSUME TypeOK, CallInv, ProviderReturns \/ PlatformUnsupported \/ RunnerFails
  PROVE  /\ TrackerFits(tracker')
         /\ attempts' = attempts + Calls(tracker'.invocation)
         /\ \/ /\ pc' \in {"gates", "diff"} /\ UNCHANGED withheld
               /\ Accepted(codex') /\ codex'.invocation = tracker'.invocation
               /\ codex'.execution = ExecutionStage(codex'.invocation)
               /\ pc' = "gates" => codex'.kind = "none" /\ tracker'.cleanup = "cleared"
            \/ /\ pc' = "remove" /\ UNCHANGED codex
               /\ clockRuns => tracker' = StaleTimeout
               /\ withheld' \in ConstructionCodes
<1>1. CASE ProviderReturns
  <2>1. PICK e \in RunnerResults :
          /\ codex' = e
          /\ tracker' = Tracked(e.invocation, e.cleared, "provider_runner_result_extraction")
          /\ attempts' = attempts + Calls(e.invocation)
          /\ pc' = IF e.kind = "none" THEN "gates" ELSE "diff"
    BY <1>1 DEF ProviderReturns
  <2>2. "provider_runner_result_extraction" \in TrackerStages
    BY DEF TrackerStages, HandoffStages
  <2> QED
    BY <1>1, <2>1, <2>2, ResultFacts, TrackedFits DEF ProviderReturns
<1>2. CASE PlatformUnsupported
  <2>1. "provider_runtime_precheck" \in TrackerStages /\ "not_attempted" \in Invocations
    BY DEF TrackerStages, RunnerStages, PreSpawnStages, Invocations
  <2>2. TrackerFits(tracker') /\ tracker'.invocation = "not_attempted"
    BY <1>2, <2>1, TrackedFits DEF PlatformUnsupported
  <2>3. attempts' = attempts + 0 /\ Calls(tracker'.invocation) = 0
    BY <1>2, <2>2 DEF PlatformUnsupported, Calls, CallInv
  <2>4. /\ pc' = "diff" /\ UNCHANGED withheld
        /\ Accepted(codex') /\ codex'.invocation = "not_attempted"
        /\ codex'.execution = "preflight_completed"
    BY <1>2, UnsupportedFacts DEF PlatformUnsupported
  <2> QED
    BY <2>2, <2>3, <2>4 DEF ExecutionStage
<1>3. CASE RunnerFails
  <2>1. PICK t \in {tracker} \cup RunnerErrors \cup (IF clockRuns THEN {} ELSE ClockErrors) :
          /\ tracker' = t
          /\ attempts' = attempts + Calls(t.invocation)
          /\ \/ /\ t.stage = HandoffStage
                /\ withheld' = "codex_evidence_validation_failed"
                /\ pc' = "remove" /\ UNCHANGED codex
             \/ /\ t.stage # HandoffStage
                /\ ~Accepted(LifecycleEvidence(t)) \/ (~clockRuns /\ t.stage \notin Untimed)
                /\ withheld' = "lifecycle_fallback_evidence_validation_failed"
                /\ pc' = "remove" /\ UNCHANGED codex
             \/ /\ t.stage # HandoffStage /\ Accepted(LifecycleEvidence(t))
                /\ codex' = LifecycleEvidence(t)
                /\ pc' = "diff" /\ UNCHANGED withheld
    BY <1>3 DEF RunnerFails
  <2>2. pc = "runner" /\ TrackerFits(tracker)
    BY <1>3 DEF RunnerFails, TypeOK
  <2>3. /\ TrackerFits(t)
        /\ t.stage # HandoffStage => Accepted(LifecycleEvidence(t))
        /\ clockRuns /\ t.stage = HandoffStage => t = StaleTimeout
    BY <2>1, <2>2, ConstructionFacts, RunnerErrorFacts, ClockErrorFacts
  <2> QED
    BY <2>1, <2>3, LifecycleFacts DEF ConstructionCodes
<1> QED
  BY <1>1, <1>2, <1>3

(* One gate command, with its result at the end of the list.               *)
LEMMA RunGateFacts ==
  ASSUME TypeOK, GateInv, RunGate
  PROVE  /\ commands' \in Seq(Commands)
         /\ Len(commands') = Len(commands) + 1
         /\ \A i \in 1 .. Len(commands) : commands'[i] = commands[i]
         /\ LET c == commands'[Len(commands')] IN
              /\ c.gate = Plan[Len(commands')]
              /\ launched' = IF c.status = "spawn_error" THEN launched ELSE launched + 1
              /\ \/ Normal(c) /\ gateResult' = "absent" /\ pc' = "gate"
                    /\ Len(commands') # Len(Plan)
                 \/ Normal(c) /\ gateResult' = "none" /\ pc' = "diff"
                    /\ Len(commands') = Len(Plan)
                 \/ ~Normal(c) /\ gateResult' \notin {"absent", "none"} /\ pc' = "diff"
<1>1. PICK r \in CommandResults :
        /\ launched' = IF r.status = "spawn_error" THEN launched ELSE launched + 1
        /\ commands' = Append(commands, [gate |-> Plan[Len(commands) + 1],
                                         status |-> r.status, cleared |-> r.cleared])
        /\ IF r.harness # "none" \/ Len(commands') = Len(Plan)
           THEN gateResult' = r.harness /\ pc' = "diff"
           ELSE UNCHANGED << gateResult, pc >>
  BY DEF RunGate
<1> DEFINE c == [gate |-> Plan[Len(commands) + 1], status |-> r.status, cleared |-> r.cleared]
<1>2. /\ r.status \in {"passed", "failed", "timed_out", "signal_terminated",
                       "collection_error", "spawn_error"}
      /\ r.cleared \in BOOLEAN
      /\ r.harness = "none" <=> (r.status \in Completed /\ r.cleared)
      /\ r.harness # "absent"
  <2>1. CASE \E s \in {"passed", "failed", "timed_out", "signal_terminated",
                       "collection_error"} : r = GroupRemains(s)
    BY <2>1 DEF GroupRemains
  <2>2. CASE r \in {Cleared("passed", "none"), Cleared("failed", "none"),
                   Cleared("timed_out", "timeout"),
                   Cleared("signal_terminated", "signal_termination"),
                   Cleared("collection_error", "evidence_error"),
                   Cleared("spawn_error", "command_unavailable"),
                   Cleared("spawn_error", "spawn_error")}
    <3>1. PICK st \in {"passed", "failed", "timed_out", "signal_terminated",
                       "collection_error", "spawn_error"},
              h \in {"none", "timeout", "signal_termination", "evidence_error",
                     "command_unavailable", "spawn_error"} :
            r = Cleared(st, h) /\ (h = "none" <=> st \in Completed)
      BY <2>2 DEF Completed
    <3>2. r.status = st /\ r.harness = h /\ r.cleared = TRUE
      BY <3>1 DEF Cleared
    <3> QED
      BY <3>1, <3>2
  <2> QED
    BY <1>1, <2>1, <2>2 DEF CommandResults, GroupRemains, Cleared
<1>3. pc = "gate" /\ gateResult = "absent" /\ Len(commands) < Len(Plan)
      /\ commands \in Seq(Commands) /\ Len(commands) \in Nat
  BY DEF RunGate, GateInv, TypeOK
<1>4. Plan[Len(commands) + 1] \in Gates
  BY <1>3, PlanAssumption
<1>5. c \in Commands /\ (Normal(c) <=> r.harness = "none")
  BY <1>2, <1>4 DEF Commands, Normal
<1>6. /\ commands' \in Seq(Commands) /\ Len(commands') = Len(commands) + 1
      /\ \A i \in 1 .. Len(commands) : commands'[i] = commands[i]
      /\ commands'[Len(commands')] = c
  BY <1>1, <1>3, <1>5
<1> HIDE DEF c
<1>7. c.gate = Plan[Len(commands')] /\ c.status = r.status
  BY <1>6 DEF c
<1> QED
  BY <1>1, <1>2, <1>3, <1>5, <1>6, <1>7

(* The tracker, the preflight command and the commands keep their types.   *)
LEMMA TrackerStep ==
  ASSUME TypeOK, CallInv, InterruptInv, Step
  PROVE  TrackerFits(tracker')
<1> USE DEF TypeOK, environment, evaluation, records, signals, BeforeWorkspace, InWorkspace,
        GatesUntouched, GateStep, AfterWorkspace, EnvironmentUnchanged
<1> DEFINE Staged == \E s \in {"workspace_preparation", "provider_runner_construction",
                              "provider_environment_directory_preparation"} :
                       tracker' = [tracker EXCEPT !.stage = s]
<1>1. Staged => TrackerFits(tracker')
  BY DEF TrackerFits, TrackerStages, OrchestrationStages
<1>2. CASE tracker' = tracker \/ Staged
  BY <1>1, <1>2
<1>3. CASE ProviderReturns \/ PlatformUnsupported \/ RunnerFails
  BY <1>3, ProviderFacts
<1>4. CASE FindNoExecutable \/ ProbeHasNoRoot \/ KeepProbeRoot
  BY <1>2, <1>4, PreflightRefused
  DEF FindNoExecutable, ProbeHasNoRoot, KeepProbeRoot, PreflightKinds, HarnessKinds
<1>5. CASE RemoveProbeRoot
  BY <1>2, <1>5, ProbeFacts
<1>9. CASE PrepareEscapes
  BY <1>9, EscapeFacts
<1>6. CASE PrepareProviderEnvironment
  BY <1>2, <1>6 DEF PrepareProviderEnvironment, Enter
<1>7. CASE Refuse \/ Begin \/ FindExecutable \/ RunProbe \/ PrepareWorkspace \/ PrepareFails
           \/ PrepareGates \/ RunGate \/ GatesFail \/ CollectDiff \/ RemoveWorkspace
  BY <1>2, <1>7 DEF Refuse, Begin, FindExecutable, RunProbe, PrepareWorkspace, PrepareFails,
     PrepareGates, RunGate, GatesFail, CollectDiff, RemoveWorkspace
<1>8. CASE RecordPreflightFailure \/ Conclude \/ ProtectAgain \/ PublishPair \/ Diagnose
           \/ RaiseUnhandled \/ ChangeSource \/ SetClockBack \/ Intrude \/ Interrupt
  BY <1>2, <1>8 DEF RecordPreflightFailure, Conclude, ProtectAgain, PublishPair, Diagnose,
     RaiseUnhandled, ChangeSource, SetClockBack, Intrude, Interrupt
<1> QED
  BY <1>3, <1>4, <1>5, <1>6, <1>7, <1>8, <1>9 DEF Step, RunStep

(* So does what the preflight is at ...                                    *)
LEMMA ProbeStep ==
  ASSUME TypeOK, CallInv, InterruptInv, Step
  PROVE  probe' \in [command : {"version", "help"}, verdict : {"none", "ok"} \cup PreflightKinds]
<1> USE DEF TypeOK, environment, evaluation, records, signals, BeforeWorkspace, InWorkspace,
        GatesUntouched, GateStep, ProviderStep, AfterWorkspace, EnvironmentUnchanged
<1>1. CASE probe' = probe
  BY <1>1
<1>2. CASE RunProbe
  BY <1>2, VerdictsFail DEF RunProbe
<1>3. CASE RemoveProbeRoot
  BY <1>1, <1>3, ProbeFacts
<1>4. CASE FindNoExecutable \/ ProbeHasNoRoot \/ KeepProbeRoot
  BY <1>1, <1>4, PreflightRefused
  DEF FindNoExecutable, ProbeHasNoRoot, KeepProbeRoot, PreflightKinds, HarnessKinds
<1>5. CASE Refuse \/ Begin \/ FindExecutable \/ PrepareWorkspace \/ PrepareFails
           \/ PrepareEscapes
           \/ PrepareProviderEnvironment \/ ProviderReturns \/ PlatformUnsupported
           \/ RunnerFails \/ PrepareGates \/ RunGate \/ GatesFail \/ CollectDiff
           \/ RemoveWorkspace
  BY <1>1, <1>5 DEF Refuse, Begin, FindExecutable, PrepareWorkspace, PrepareFails, PrepareEscapes,
     PrepareProviderEnvironment, ProviderReturns, PlatformUnsupported, RunnerFails,
     PrepareGates, RunGate, GatesFail, CollectDiff, RemoveWorkspace
<1>6. CASE RecordPreflightFailure \/ Conclude \/ ProtectAgain \/ PublishPair \/ Diagnose
           \/ RaiseUnhandled \/ ChangeSource \/ SetClockBack \/ Intrude \/ Interrupt
  BY <1>1, <1>6 DEF RecordPreflightFailure, Conclude, ProtectAgain, PublishPair, Diagnose,
     RaiseUnhandled, ChangeSource, SetClockBack, Intrude, Interrupt
<1> QED
  BY <1>2, <1>3, <1>4, <1>5, <1>6 DEF Step, RunStep

(* ... and the list of commands.                                           *)
LEMMA CommandsStep ==
  ASSUME TypeOK, GateInv, Step
  PROVE  commands' \in Seq(Commands)
<1> USE DEF TypeOK, environment, evaluation, records, signals, BeforeWorkspace, InWorkspace,
        GatesUntouched, GateStep, ProviderStep, AfterWorkspace, EnvironmentUnchanged
<1>1. CASE commands' = commands
  BY <1>1
<1>2. CASE RunGate
  BY <1>2, RunGateFacts
<1>3. CASE GatesFail
  BY <1>3 DEF GatesFail
<1>4. CASE Refuse \/ Begin \/ FindNoExecutable \/ FindExecutable \/ RunProbe
           \/ ProbeHasNoRoot \/ RemoveProbeRoot \/ KeepProbeRoot
           \/ PrepareWorkspace \/ PrepareFails \/ PrepareEscapes
           \/ PrepareProviderEnvironment
           \/ ProviderReturns \/ PlatformUnsupported \/ RunnerFails \/ PrepareGates
           \/ CollectDiff \/ RemoveWorkspace
  BY <1>1, <1>4 DEF Refuse, Begin, FindNoExecutable, FindExecutable, RunProbe,
     ProbeHasNoRoot, RemoveProbeRoot, KeepProbeRoot, PrepareWorkspace, PrepareFails, PrepareEscapes,
     PrepareProviderEnvironment, ProviderReturns, PlatformUnsupported, RunnerFails,
     PrepareGates, CollectDiff, RemoveWorkspace
<1>5. CASE RecordPreflightFailure \/ Conclude \/ ProtectAgain \/ PublishPair \/ Diagnose
           \/ RaiseUnhandled \/ ChangeSource \/ SetClockBack \/ Intrude \/ Interrupt
  BY <1>1, <1>5 DEF RecordPreflightFailure, Conclude, ProtectAgain, PublishPair, Diagnose,
     RaiseUnhandled, ChangeSource, SetClockBack, Intrude, Interrupt
<1> QED
  BY <1>2, <1>3, <1>4, <1>5 DEF Step, RunStep

(* Every step keeps the other types.                                       *)
LEMMA PlainStep ==
  ASSUME TypeOK, CallInv, GateInv, InterruptInv, Step
  PROVE  PlainTypes'
<1>0. PlainTypes /\ launched + 1 \in Nat /\ interrupts + 1 \in Nat
  BY DEF TypeOK, PlainTypes
<1> USE <1>0 DEF PlainTypes, Steps, Paths, environment, evaluation, records, signals, Ends,
        BeforeWorkspace, InWorkspace, GatesUntouched, GateStep, ProviderStep, AfterWorkspace,
        EnvironmentUnchanged
<1>1. CASE Refuse
  BY <1>1 DEF Refuse
<1>2. CASE Begin
  BY <1>2 DEF Begin
<1>3. CASE FindNoExecutable
  BY <1>3, PreflightRefused DEF FindNoExecutable, PreflightKinds, HarnessKinds
<1>4. CASE FindExecutable
  BY <1>4 DEF FindExecutable
<1>5. CASE RunProbe
  BY <1>5, VerdictsFail DEF RunProbe
<1>6. CASE ProbeHasNoRoot
  BY <1>6, PreflightRefused DEF ProbeHasNoRoot, PreflightKinds, HarnessKinds
<1>7. CASE RemoveProbeRoot
  BY <1>7, ProbeFacts, StageSet DEF RemoveProbeRoot
<1>8. CASE KeepProbeRoot
  BY <1>8, PreflightRefused DEF KeepProbeRoot, PreflightKinds, HarnessKinds
<1>9. CASE PrepareWorkspace
  BY <1>9 DEF PrepareWorkspace
<1>10. CASE PrepareFails
  BY <1>10, PostPreflightFacts DEF PrepareFails
<1>11. CASE PrepareProviderEnvironment
  BY <1>11, PostPreflightFacts DEF PrepareProviderEnvironment, Enter
<1>12. CASE ProviderReturns
  BY <1>12, ProviderFacts DEF ProviderReturns
<1>13. CASE PlatformUnsupported
  BY <1>13, ProviderFacts DEF PlatformUnsupported
<1>14. CASE RunnerFails
  BY <1>14, ProviderFacts DEF RunnerFails
<1>15. CASE PrepareGates
  BY <1>15, PlanNotEmpty DEF PrepareGates
<1>16. CASE RunGate
  <2>1. launched' \in Nat /\ pc' \in {"gate", "diff"}
    BY <1>16, RunGateFacts
  <2> QED
    BY <1>16, <2>1 DEF RunGate
<1>17. CASE GatesFail
  <2>1. launched' = launched \/ launched' = launched + 1
    BY <1>17 DEF GatesFail
  <2>2. launched' \in Nat
    BY <2>1
  <2> QED
    BY <1>17, <2>2 DEF GatesFail
<1>18. CASE CollectDiff
  BY <1>18 DEF CollectDiff
<1>19. CASE RemoveWorkspace
  BY <1>19 DEF RemoveWorkspace
<1>20. CASE RecordPreflightFailure
  BY <1>20 DEF RecordPreflightFailure, BuildPair
<1>21. CASE Conclude
  BY <1>21 DEF Conclude, BuildPair
<1>22. CASE ProtectAgain
  BY <1>22 DEF ProtectAgain
<1>23. CASE PublishPair
  BY <1>23 DEF PublishPair, Half, Paired
<1>24. CASE Diagnose
  BY <1>24 DEF Diagnose
<1>25. CASE ChangeSource
  BY <1>25 DEF ChangeSource
<1>26. CASE SetClockBack
  BY <1>26 DEF SetClockBack
<1>27. CASE Intrude
  BY <1>27 DEF Intrude
<1>28. CASE Interrupt
  <2>1. interrupts' \in Nat
    BY <1>28 DEF Interrupt
  <2>2. CASE InterruptOutside /\ Ends("interrupted")
             /\ UNCHANGED << attempts, gateExecuted, launched >>
    <3>1. root' \in BOOLEAN /\ probeRoot' \in BOOLEAN
      BY <2>2 DEF InterruptOutside
    <3>2. \/ at' = at \/ at' = Half \/ at' = Paired
          \/ at' = [at EXCEPT !["diagnostic"] = "ours"]
      BY <2>2, Zenon DEF InterruptOutside
    <3>3. at' \in [Paths -> {"free", "other", "ours"}]
      BY <3>2 DEF Half, Paired
    <3> QED
      BY <1>28, <2>1, <2>2, <3>1, <3>3 DEF Interrupt
  <2>3. CASE InterruptWithin /\ UNCHANGED << exit, at, diagnostic, root >>
    <3>1. launched' = launched \/ launched' = launched + 1
      BY <2>3 DEF InterruptWithin
    <3>2. launched' \in Nat
      BY <3>1
    <3> QED
      BY <1>28, <2>1, <2>3, <3>2 DEF Interrupt, InterruptWithin
  <2> QED
    BY <1>28, <2>2, <2>3 DEF Interrupt
<1>29. CASE PrepareEscapes
  BY <1>29, EscapeFacts DEF PrepareEscapes
<1>30. CASE RaiseUnhandled
  BY <1>30 DEF RaiseUnhandled
<1> QED
  BY <1>1, <1>2, <1>3, <1>4, <1>5, <1>6, <1>7, <1>8, <1>9, <1>10, <1>11, <1>12, <1>13,
     <1>14, <1>15, <1>16, <1>17, <1>18, <1>19, <1>20, <1>21, <1>22, <1>23, <1>24, <1>25,
     <1>26, <1>27, <1>28, <1>29, <1>30
  DEF Step, RunStep

(* Every step keeps the types.                                             *)
LEMMA TypeStep ==
  ASSUME TypeOK, CallInv, GateInv, InterruptInv, Step
  PROVE  TypeOK'
BY TrackerStep, ProbeStep, CommandsStep, PlainStep DEF TypeOK

(* Every step keeps the Workspace and what the run believes of it together. *)
LEMMA TreeStep ==
  ASSUME TypeOK, TreeInv, CallInv, InterruptInv, Step
  PROVE  TreeInv'
<1> USE DEF TypeOK, PlainTypes, TreeInv, MayBeOrphaned, Early, InTree, environment, evaluation,
        records, signals, Ends,
        BeforeWorkspace, InWorkspace, GatesUntouched, GateStep, ProviderStep, AfterWorkspace,
        EnvironmentUnchanged
<1>1. CASE Refuse
  BY <1>1 DEF Refuse
<1>2. CASE Begin
  BY <1>2 DEF Begin
<1>3. CASE FindNoExecutable
  BY <1>3, PreflightRefused DEF FindNoExecutable, PreflightKinds, HarnessKinds
<1>4. CASE FindExecutable
  BY <1>4 DEF FindExecutable
<1>5. CASE RunProbe
  BY <1>5, VerdictsFail DEF RunProbe
<1>6. CASE ProbeHasNoRoot
  BY <1>6, PreflightRefused DEF ProbeHasNoRoot, PreflightKinds, HarnessKinds
<1>7. CASE RemoveProbeRoot
  BY <1>7, ProbeFacts, StageSet DEF RemoveProbeRoot
<1>8. CASE KeepProbeRoot
  BY <1>8, PreflightRefused DEF KeepProbeRoot, PreflightKinds, HarnessKinds
<1>9. CASE PrepareWorkspace
  BY <1>9 DEF PrepareWorkspace
<1>10. CASE PrepareFails
  BY <1>10, PostPreflightFacts DEF PrepareFails
<1>11. CASE PrepareProviderEnvironment
  BY <1>11, PostPreflightFacts DEF PrepareProviderEnvironment, Enter
<1>12. CASE ProviderReturns
  BY <1>12, ProviderFacts DEF ProviderReturns
<1>13. CASE PlatformUnsupported
  BY <1>13, ProviderFacts DEF PlatformUnsupported
<1>14. CASE RunnerFails
  BY <1>14, ProviderFacts DEF RunnerFails
<1>15. CASE PrepareGates
  BY <1>15, PlanNotEmpty DEF PrepareGates
<1>16. CASE RunGate
  BY <1>16, RunGateFacts DEF RunGate
<1>17. CASE GatesFail
  BY <1>17 DEF GatesFail
<1>18. CASE CollectDiff
  BY <1>18 DEF CollectDiff
<1>19. CASE RemoveWorkspace
  BY <1>19 DEF RemoveWorkspace
<1>20. CASE RecordPreflightFailure
  BY <1>20 DEF RecordPreflightFailure, BuildPair
<1>21. CASE Conclude
  BY <1>21 DEF Conclude, BuildPair
<1>22. CASE ProtectAgain
  BY <1>22 DEF ProtectAgain
<1>23. CASE PublishPair
  BY <1>23 DEF PublishPair, Half, Paired
<1>24. CASE Diagnose
  BY <1>24 DEF Diagnose
<1>25. CASE ChangeSource
  BY <1>25 DEF ChangeSource
<1>26. CASE SetClockBack
  BY <1>26 DEF SetClockBack
<1>27. CASE Intrude
  BY <1>27 DEF Intrude
<1>28. CASE Interrupt
  <2>1. CASE InterruptOutside /\ Ends("interrupted")
             /\ UNCHANGED << attempts, gateExecuted, launched >>
    BY <1>28, <2>1 DEF Interrupt, InterruptOutside, Half, Paired
  <2>2. CASE InterruptWithin /\ UNCHANGED << exit, at, diagnostic, root >>
    BY <1>28, <2>2 DEF Interrupt, InterruptWithin
  <2> QED
    BY <1>28, <2>1, <2>2 DEF Interrupt
<1>29. CASE PrepareEscapes
  BY <1>29, EscapeFacts DEF PrepareEscapes
<1>30. CASE RaiseUnhandled
  BY <1>30 DEF RaiseUnhandled
<1> QED
  BY <1>1, <1>2, <1>3, <1>4, <1>5, <1>6, <1>7, <1>8, <1>9, <1>10, <1>11, <1>12, <1>13,
     <1>14, <1>15, <1>16, <1>17, <1>18, <1>19, <1>20, <1>21, <1>22, <1>23, <1>24, <1>25,
     <1>26, <1>27, <1>28, <1>29, <1>30
  DEF Step, RunStep

(* Every step keeps what the run knows of the Provider call.               *)
LEMMA CallStep ==
  ASSUME TypeOK, TreeInv, CallInv, InterruptInv, RecordInv, Step
  PROVE  CallInv'
<1> USE DEF TypeOK, PlainTypes, TreeInv, CallInv, InterruptInv, RecordInv, HasCodex,
        Interrupted, Calls, ExecutionStage, Early, InTree,
        BeforeCall, environment, evaluation, records, signals, Ends, BeforeWorkspace,
        InWorkspace, GatesUntouched, GateStep, ProviderStep, AfterWorkspace,
        EnvironmentUnchanged
<1>1. CASE Refuse
  BY <1>1 DEF Refuse
<1>2. CASE Begin
  BY <1>2 DEF Begin
<1>3. CASE FindNoExecutable
  BY <1>3, PreflightRefused DEF FindNoExecutable, PreflightKinds, HarnessKinds
<1>4. CASE FindExecutable
  BY <1>4 DEF FindExecutable
<1>5. CASE RunProbe
  BY <1>5, VerdictsFail DEF RunProbe
<1>6. CASE ProbeHasNoRoot
  BY <1>6, PreflightRefused DEF ProbeHasNoRoot, PreflightKinds, HarnessKinds
<1>7. CASE RemoveProbeRoot
  <2>1. pc = "probe_cleanup" /\ attempts' = 0 /\ UNCHANGED << workspace, signals >>
    BY <1>7 DEF RemoveProbeRoot
  <2>2. tracker'.invocation = "not_attempted" /\ tracker'.runner = "not_started"
    BY <1>7, <2>1, ProbeFacts, StageSet
  <2>3. pc' = "prepare" => failure' = failure
    BY <1>7, ProbeFacts
  <2> QED
    BY <1>7, <2>1, <2>2, <2>3, ProbeFacts
<1>8. CASE KeepProbeRoot
  BY <1>8, PreflightRefused DEF KeepProbeRoot, PreflightKinds, HarnessKinds
<1>9. CASE PrepareWorkspace
  BY <1>9 DEF PrepareWorkspace
<1>10. CASE PrepareFails
  BY <1>10, PostPreflightFacts DEF PrepareFails
<1>11. CASE PrepareProviderEnvironment
  <2>1. /\ pc = "environment" /\ tracker'.invocation = "not_attempted"
        /\ tracker'.runner = "not_started" /\ attempts' = 0
        /\ UNCHANGED << failure, workspace, withheld >>
    BY <1>11, StageSet DEF PrepareProviderEnvironment, Enter
  <2>2. CASE pc' = "runner"
    BY <1>11, <2>1, <2>2, StageSet DEF PrepareProviderEnvironment, Enter
  <2>3. CASE pc' = "diff"
    <3>1. /\ Accepted(codex') /\ codex'.execution = "preflight_completed"
          /\ codex'.invocation = "not_attempted"
      BY <1>11, <2>3, PostPreflightFacts DEF PrepareProviderEnvironment, Enter
    <3> QED
      BY <2>1, <2>3, <3>1
  <2> QED
    BY <1>11, <2>2, <2>3 DEF PrepareProviderEnvironment, Enter
<1>12. CASE ProviderReturns
  BY <1>12, ProviderFacts DEF ProviderReturns
<1>13. CASE PlatformUnsupported
  <2>1. pc = "runner" /\ pc' = "diff" /\ UNCHANGED << failure, workspace, signals >>
        /\ attempts = 0
    BY <1>13 DEF PlatformUnsupported
  <2> QED
    BY <1>13, <2>1, ProviderFacts
<1>14. CASE RunnerFails
  BY <1>14, ProviderFacts DEF RunnerFails
<1>15. CASE PrepareGates
  BY <1>15, PlanNotEmpty DEF PrepareGates
<1>16. CASE RunGate
  BY <1>16, RunGateFacts DEF RunGate
<1>17. CASE GatesFail
  BY <1>17 DEF GatesFail
<1>18. CASE CollectDiff
  BY <1>18 DEF CollectDiff
<1>19. CASE RemoveWorkspace
  BY <1>19 DEF RemoveWorkspace
<1>20. CASE RecordPreflightFailure
  BY <1>20 DEF RecordPreflightFailure, BuildPair
<1>21. CASE Conclude
  BY <1>21 DEF Conclude, BuildPair
<1>22. CASE ProtectAgain
  BY <1>22 DEF ProtectAgain
<1>23. CASE PublishPair
  BY <1>23 DEF PublishPair, Half, Paired
<1>24. CASE Diagnose
  BY <1>24 DEF Diagnose
<1>25. CASE ChangeSource
  BY <1>25 DEF ChangeSource
<1>26. CASE SetClockBack
  BY <1>26 DEF SetClockBack
<1>27. CASE Intrude
  BY <1>27 DEF Intrude
<1>28. CASE Interrupt
  <2>1. CASE InterruptOutside /\ Ends("interrupted")
             /\ UNCHANGED << attempts, gateExecuted, launched >>
    BY <1>28, <2>1 DEF Interrupt, InterruptOutside, Half, Paired
  <2>2. CASE InterruptWithin /\ UNCHANGED << exit, at, diagnostic, root >>
    BY <1>28, <2>2 DEF Interrupt, InterruptWithin
  <2> QED
    BY <1>28, <2>1, <2>2 DEF Interrupt
<1>29. CASE PrepareEscapes
  BY <1>29, EscapeFacts DEF PrepareEscapes
<1>30. CASE RaiseUnhandled
  BY <1>30 DEF RaiseUnhandled
<1> QED
  BY <1>1, <1>2, <1>3, <1>4, <1>5, <1>6, <1>7, <1>8, <1>9, <1>10, <1>11, <1>12, <1>13,
     <1>14, <1>15, <1>16, <1>17, <1>18, <1>19, <1>20, <1>21, <1>22, <1>23, <1>24, <1>25,
     <1>26, <1>27, <1>28, <1>29, <1>30
  DEF Step, RunStep

(* Every step keeps what the run knows of the gates.                       *)
LEMMA GatesStep ==
  ASSUME TypeOK, TreeInv, CallInv, GateInv, InterruptInv, Step
  PROVE  GateInv'
<1>0. /\ commands' = commands => (Aligned' <=> Aligned) /\ Elements(commands') = Elements(commands)
      /\ Aligned /\ commands' = << >> => Aligned'
  BY DEF Aligned
<1> USE <1>0 DEF TypeOK, PlainTypes, TreeInv, GateInv, Early, InTree,
        BeforeCall, environment, evaluation, records, signals, Ends, BeforeWorkspace,
        InWorkspace, GatesUntouched, GateStep, ProviderStep, AfterWorkspace,
        EnvironmentUnchanged
<1>1. CASE Refuse
  BY <1>1 DEF Refuse
<1>2. CASE Begin
  BY <1>2 DEF Begin
<1>3. CASE FindNoExecutable
  BY <1>3, PreflightRefused DEF FindNoExecutable, PreflightKinds, HarnessKinds
<1>4. CASE FindExecutable
  BY <1>4 DEF FindExecutable
<1>5. CASE RunProbe
  BY <1>5, VerdictsFail DEF RunProbe
<1>6. CASE ProbeHasNoRoot
  BY <1>6, PreflightRefused DEF ProbeHasNoRoot, PreflightKinds, HarnessKinds
<1>7. CASE RemoveProbeRoot
  BY <1>7, ProbeFacts, StageSet DEF RemoveProbeRoot
<1>8. CASE KeepProbeRoot
  BY <1>8, PreflightRefused DEF KeepProbeRoot, PreflightKinds, HarnessKinds
<1>9. CASE PrepareWorkspace
  BY <1>9 DEF PrepareWorkspace
<1>10. CASE PrepareFails
  BY <1>10, PostPreflightFacts DEF PrepareFails
<1>11. CASE PrepareProviderEnvironment
  BY <1>11, PostPreflightFacts DEF PrepareProviderEnvironment, Enter
<1>12. CASE ProviderReturns
  BY <1>12, ProviderFacts DEF ProviderReturns
<1>13. CASE PlatformUnsupported
  BY <1>13, ProviderFacts DEF PlatformUnsupported
<1>14. CASE RunnerFails
  BY <1>14, ProviderFacts DEF RunnerFails
<1>15. CASE PrepareGates
  <2>1. commands = << >> /\ Len(commands) = 0 /\ Aligned /\ Len(Plan) > 0
    BY <1>15, PlanNotEmpty DEF PrepareGates, Aligned
  <2> QED
    BY <1>15, <2>1 DEF PrepareGates
<1>16. CASE RunGate
  <2> DEFINE c == commands'[Len(commands')]
  <2>1. /\ pc = "gate" /\ Aligned /\ launched = Len(commands) /\ Len(commands) \in Nat
        /\ codex.kind = "none" /\ tracker.cleanup = "cleared"
    BY <1>16 DEF RunGate
  <2>2. gateExecuted' = TRUE /\ UNCHANGED << codex, tracker, workspace >>
    BY <1>16 DEF RunGate
  <2>3. /\ Len(commands') = Len(commands) + 1
        /\ \A i \in 1 .. Len(commands) : commands'[i] = commands[i]
        /\ c.gate = Plan[Len(commands')]
        /\ launched' = IF c.status = "spawn_error" THEN launched ELSE launched + 1
        /\ \/ Normal(c) /\ gateResult' = "absent" /\ pc' = "gate" /\ Len(commands') # Len(Plan)
           \/ Normal(c) /\ gateResult' = "none" /\ pc' = "diff" /\ Len(commands') = Len(Plan)
           \/ ~Normal(c) /\ gateResult' \notin {"absent", "none"} /\ pc' = "diff"
    BY <1>16, RunGateFacts
  <2>4. Normal(c) => Aligned' /\ launched' = Len(commands')
    BY <2>1, <2>3 DEF Aligned, Normal, Completed
  <2>5. c \in Elements(commands')
    BY <2>1, <2>3 DEF Elements
  <2>6. Len(commands) < Len(Plan) /\ Len(Plan) \in Nat
    BY <2>1, PlanNotEmpty
  <2> HIDE DEF c
  <2> QED
    BY <2>1, <2>2, <2>3, <2>4, <2>5, <2>6
<1>17. CASE GatesFail
  BY <1>17 DEF GatesFail
<1>18. CASE CollectDiff
  BY <1>18 DEF CollectDiff
<1>19. CASE RemoveWorkspace
  BY <1>19 DEF RemoveWorkspace
<1>20. CASE RecordPreflightFailure
  BY <1>20 DEF RecordPreflightFailure, BuildPair
<1>21. CASE Conclude
  BY <1>21 DEF Conclude, BuildPair
<1>22. CASE ProtectAgain
  BY <1>22 DEF ProtectAgain
<1>23. CASE PublishPair
  BY <1>23 DEF PublishPair, Half, Paired
<1>24. CASE Diagnose
  BY <1>24 DEF Diagnose
<1>25. CASE ChangeSource
  BY <1>25 DEF ChangeSource
<1>26. CASE SetClockBack
  BY <1>26 DEF SetClockBack
<1>27. CASE Intrude
  BY <1>27 DEF Intrude
<1>28. CASE Interrupt
  <2>1. CASE InterruptOutside /\ Ends("interrupted")
             /\ UNCHANGED << attempts, gateExecuted, launched >>
    BY <1>28, <2>1 DEF Interrupt, InterruptOutside, Half, Paired
  <2>2. CASE InterruptWithin /\ UNCHANGED << exit, at, diagnostic, root >>
    BY <1>28, <2>2 DEF Interrupt, InterruptWithin
  <2> QED
    BY <1>28, <2>1, <2>2 DEF Interrupt
<1>29. CASE PrepareEscapes
  BY <1>29, EscapeFacts DEF PrepareEscapes
<1>30. CASE RaiseUnhandled
  BY <1>30 DEF RaiseUnhandled
<1> QED
  BY <1>1, <1>2, <1>3, <1>4, <1>5, <1>6, <1>7, <1>8, <1>9, <1>10, <1>11, <1>12, <1>13,
     <1>14, <1>15, <1>16, <1>17, <1>18, <1>19, <1>20, <1>21, <1>22, <1>23, <1>24, <1>25,
     <1>26, <1>27, <1>28, <1>29, <1>30
  DEF Step, RunStep

(* Every step keeps what has become of a Ctrl-C.                           *)
LEMMA InterruptStep ==
  ASSUME TypeOK, TreeInv, CallInv, InterruptInv, Step
  PROVE  InterruptInv'
<1> USE DEF TypeOK, PlainTypes, CallInv, InterruptInv, Interrupted, Early,
        BeforeCall, environment, evaluation, records, signals, Ends, BeforeWorkspace,
        InWorkspace, GatesUntouched, GateStep, ProviderStep, AfterWorkspace,
        EnvironmentUnchanged
<1>1. CASE Refuse
  BY <1>1 DEF Refuse
<1>2. CASE Begin
  BY <1>2 DEF Begin
<1>3. CASE FindNoExecutable
  BY <1>3, PreflightRefused DEF FindNoExecutable, PreflightKinds, HarnessKinds
<1>4. CASE FindExecutable
  BY <1>4 DEF FindExecutable
<1>5. CASE RunProbe
  <2>1. probe'.verdict # "none" /\ pc = "probe" /\ pc' = "probe_cleanup"
    BY <1>5 DEF RunProbe, Verdicts, HarnessKinds
  <2> QED
    BY <1>5, <2>1 DEF RunProbe
<1>6. CASE ProbeHasNoRoot
  BY <1>6, PreflightRefused DEF ProbeHasNoRoot, PreflightKinds, HarnessKinds
<1>7. CASE RemoveProbeRoot
  <2>1. pc = "probe_cleanup" /\ (Interrupted' <=> Interrupted)
    BY <1>7 DEF RemoveProbeRoot
  <2> QED
    BY <2>1, <1>7, ProbeFacts
<1>8. CASE KeepProbeRoot
  <2>1. /\ pc = "probe_cleanup" /\ attempts' = 0 /\ probeRoot' /\ (Interrupted' <=> Interrupted)
    BY <1>8 DEF KeepProbeRoot
  <2> DEFINE kind == IF probe.verdict = "process_cleanup_error" THEN probe.verdict
                     ELSE "evidence_error"
  <2>2. PreflightFails(kind) /\ kind \in PreflightKinds
    BY <1>8 DEF KeepProbeRoot, PreflightKinds, HarnessKinds
  <2>3. pc' = "refused_preflight" /\ failure' = kind
    BY <2>2, PreflightRefused
  <2>4. Interrupted => kind = "evidence_error"
    BY <2>1
  <2> HIDE DEF kind
  <2> QED
    BY <2>1, <2>3, <2>4
<1>9. CASE PrepareWorkspace
  BY <1>9 DEF PrepareWorkspace
<1>10. CASE PrepareFails
  BY <1>10, PostPreflightFacts DEF PrepareFails
<1>11. CASE PrepareProviderEnvironment
  BY <1>11, PostPreflightFacts DEF PrepareProviderEnvironment, Enter
<1>12. CASE ProviderReturns
  BY <1>12, ProviderFacts DEF ProviderReturns
<1>13. CASE PlatformUnsupported
  BY <1>13, ProviderFacts DEF PlatformUnsupported
<1>14. CASE RunnerFails
  BY <1>14, ProviderFacts DEF RunnerFails
<1>15. CASE PrepareGates
  BY <1>15, PlanNotEmpty DEF PrepareGates
<1>16. CASE RunGate
  BY <1>16, RunGateFacts DEF RunGate
<1>17. CASE GatesFail
  BY <1>17 DEF GatesFail
<1>18. CASE CollectDiff
  BY <1>18 DEF CollectDiff
<1>19. CASE RemoveWorkspace
  BY <1>19 DEF RemoveWorkspace
<1>20. CASE RecordPreflightFailure
  BY <1>20 DEF RecordPreflightFailure, BuildPair
<1>21. CASE Conclude
  BY <1>21 DEF Conclude, BuildPair
<1>22. CASE ProtectAgain
  BY <1>22 DEF ProtectAgain
<1>23. CASE PublishPair
  BY <1>23 DEF PublishPair, Half, Paired
<1>24. CASE Diagnose
  BY <1>24 DEF Diagnose
<1>25. CASE ChangeSource
  BY <1>25 DEF ChangeSource
<1>26. CASE SetClockBack
  BY <1>26 DEF SetClockBack
<1>27. CASE Intrude
  BY <1>27 DEF Intrude
<1>28. CASE Interrupt
  <2>1. CASE InterruptOutside /\ Ends("interrupted")
             /\ UNCHANGED << attempts, gateExecuted, launched >>
    BY <1>28, <2>1 DEF Interrupt, InterruptOutside, Half, Paired
  <2>2. CASE InterruptWithin /\ UNCHANGED << exit, at, diagnostic, root >>
    BY <1>28, <2>2 DEF Interrupt, InterruptWithin
  <2> QED
    BY <1>28, <2>1, <2>2 DEF Interrupt
<1>29. CASE PrepareEscapes
  BY <1>29, EscapeFacts DEF PrepareEscapes
<1>30. CASE RaiseUnhandled
  <2>1. Interrupted => pc \in {"probe_cleanup", "remove", "publish"}
    BY <1>30 DEF RaiseUnhandled
  <2>2. Interrupted => root' \/ probeRoot'
    BY <1>30, <2>1 DEF RaiseUnhandled, TreeInv, InTree
  <2> QED
    BY <1>30, <2>1, <2>2 DEF RaiseUnhandled
<1> QED
  BY <1>1, <1>2, <1>3, <1>4, <1>5, <1>6, <1>7, <1>8, <1>9, <1>10, <1>11, <1>12, <1>13,
     <1>14, <1>15, <1>16, <1>17, <1>18, <1>19, <1>20, <1>21, <1>22, <1>23, <1>24, <1>25,
     <1>26, <1>27, <1>28, <1>29, <1>30
  DEF Step, RunStep

(* Every step keeps what is at the output paths.                           *)
LEMMA RecordStep ==
  ASSUME TypeOK, TreeInv, CallInv, InterruptInv, RecordInv, Step
  PROVE  RecordInv'
<1> USE DEF TypeOK, PlainTypes, Paths, CallInv, HasCodex, InterruptInv, Interrupted,
        RecordInv, Early,
        BeforeCall, environment, evaluation, records, signals, Ends, BeforeWorkspace,
        InWorkspace, GatesUntouched, GateStep, ProviderStep, AfterWorkspace,
        EnvironmentUnchanged, PathsAreFree
<1>1. CASE Refuse
  BY <1>1 DEF Refuse
<1>2. CASE Begin
  BY <1>2 DEF Begin
<1>3. CASE FindNoExecutable
  BY <1>3, PreflightRefused DEF FindNoExecutable, PreflightKinds, HarnessKinds
<1>4. CASE FindExecutable
  BY <1>4 DEF FindExecutable
<1>5. CASE RunProbe
  BY <1>5, VerdictsFail DEF RunProbe
<1>6. CASE ProbeHasNoRoot
  BY <1>6, PreflightRefused DEF ProbeHasNoRoot, PreflightKinds, HarnessKinds
<1>7. CASE RemoveProbeRoot
  BY <1>7, ProbeFacts, StageSet DEF RemoveProbeRoot
<1>8. CASE KeepProbeRoot
  BY <1>8, PreflightRefused DEF KeepProbeRoot, PreflightKinds, HarnessKinds
<1>9. CASE PrepareWorkspace
  BY <1>9 DEF PrepareWorkspace
<1>10. CASE PrepareFails
  BY <1>10, PostPreflightFacts DEF PrepareFails
<1>11. CASE PrepareProviderEnvironment
  BY <1>11, PostPreflightFacts DEF PrepareProviderEnvironment, Enter
<1>12. CASE ProviderReturns
  BY <1>12, ProviderFacts DEF ProviderReturns
<1>13. CASE PlatformUnsupported
  BY <1>13, ProviderFacts DEF PlatformUnsupported
<1>14. CASE RunnerFails
  BY <1>14, ProviderFacts DEF RunnerFails
<1>15. CASE PrepareGates
  BY <1>15, PlanNotEmpty DEF PrepareGates
<1>16. CASE RunGate
  BY <1>16, RunGateFacts DEF RunGate
<1>17. CASE GatesFail
  BY <1>17 DEF GatesFail
<1>18. CASE CollectDiff
  BY <1>18 DEF CollectDiff
<1>19. CASE RemoveWorkspace
  BY <1>19 DEF RemoveWorkspace
<1>20. CASE RecordPreflightFailure
  BY <1>20 DEF RecordPreflightFailure, BuildPair
<1>21. CASE Conclude
  BY <1>21 DEF Conclude, BuildPair
<1>22. CASE ProtectAgain
  BY <1>22 DEF ProtectAgain
<1>23. CASE PublishPair
  BY <1>23 DEF PublishPair, Half, Paired
<1>24. CASE Diagnose
  BY <1>24 DEF Diagnose
<1>25. CASE ChangeSource
  BY <1>25 DEF ChangeSource
<1>26. CASE SetClockBack
  BY <1>26 DEF SetClockBack
<1>27. CASE Intrude
  BY <1>27 DEF Intrude
<1>28. CASE Interrupt
  <2>1. CASE InterruptOutside /\ Ends("interrupted")
             /\ UNCHANGED << attempts, gateExecuted, launched >>
    BY <1>28, <2>1 DEF Interrupt, InterruptOutside, Half, Paired
  <2>2. CASE InterruptWithin /\ UNCHANGED << exit, at, diagnostic, root >>
    BY <1>28, <2>2 DEF Interrupt, InterruptWithin
  <2> QED
    BY <1>28, <2>1, <2>2 DEF Interrupt
<1>29. CASE PrepareEscapes
  BY <1>29, EscapeFacts DEF PrepareEscapes
<1>30. CASE RaiseUnhandled
  BY <1>30 DEF RaiseUnhandled
<1> QED
  BY <1>1, <1>2, <1>3, <1>4, <1>5, <1>6, <1>7, <1>8, <1>9, <1>10, <1>11, <1>12, <1>13,
     <1>14, <1>15, <1>16, <1>17, <1>18, <1>19, <1>20, <1>21, <1>22, <1>23, <1>24, <1>25,
     <1>26, <1>27, <1>28, <1>29, <1>30
  DEF Step, RunStep

-----------------------------------------------------------------------------
(* The pair: what the code builds and what its strict models accept.       *)

PairOf(kind, metrics) ==
  [codex |-> codex, commands |-> commands, diff |-> diff, workspace |-> workspace,
   metrics |-> metrics, kind |-> kind, status |-> StatusOf(kind)]

(* What building a pair comes to.                                          *)
LEMMA BuildPairFacts ==
  ASSUME NEW kind, NEW metrics, BuildPair(kind, metrics)
  PROVE  /\ artifact' # artifact =>
              /\ artifact' = PairOf(kind, metrics)
              /\ RecordingAccepted(PairOf(kind, metrics))
         /\ clockRuns /\ RecordingAccepted(PairOf(kind, metrics))
            /\ ArtifactAccepted(PairOf(kind, metrics)) => UNCHANGED withheld
BY DEF BuildPair, PairOf

(* A quality verdict has the whole list of commands, all of them normal,   *)
(* behind it.                                                              *)
LEMMA VerdictFacts ==
  ASSUME TypeOK, TreeInv, CallInv, GateInv, pc = "conclude", HasVerdict
  PROVE  /\ sourceIntact /\ ~root /\ attempts = 1
         /\ Aligned /\ launched = Len(Plan) /\ Len(commands) = Len(Plan)
<1>1. FinalFailure = "none" /\ codex.kind = "none" /\ gateResult # "absent"
      /\ workspace = "removed"
  BY DEF HasVerdict
<1>2. sourceIntact /\ FailureAfterDiff = "none"
  BY <1>1 DEF FinalFailure
<1>3. FailureAfterGates = "none"
  BY <1>2 DEF FailureAfterDiff
<1>4. gateResult = "none"
  BY <1>1, <1>3 DEF FailureAfterGates
<1>5. codex.invocation = "process_started" /\ attempts = 1
  BY <1>1 DEF CallInv, HasCodex, Accepted, KindAgrees, Calls
<1> QED
  BY <1>1, <1>2, <1>4, <1>5 DEF GateInv, TreeInv, TypeOK, PlainTypes

Verdict == IF FinalFailure = "none" THEN "evidence_error" ELSE FinalFailure

(* A run without a quality verdict is blamed on the Provider only when the *)
(* evidence of the call says the same.                                     *)
LEMMA NoVerdictFacts ==
  ASSUME TypeOK, CallInv, pc = "conclude"
  PROVE  /\ codex.kind \in Kinds
         /\ Verdict # "none"
         /\ \/ Verdict = codex.kind
            \/ Verdict = "evidence_error"
            \/ Verdict = "gate_harness_error" /\ codex.kind = "none"
               /\ gateResult \notin {"absent", "none"}
         /\ workspace = "cleanup_failed" =>
              Verdict \in {"process_cleanup_error", "evidence_error"}
<1>1. codex.kind \in Kinds /\ failure \in {"none", "evidence_error"}
  BY DEF CallInv, HasCodex, Accepted, KindAgrees, Early
<1>2. /\ FailureAfterCleanup \in {codex.kind, "evidence_error"}
      /\ FailureAfterCleanup = "none" => codex.kind = "none" /\ workspace # "cleanup_failed"
      /\ workspace = "cleanup_failed" =>
           FailureAfterCleanup \in {"process_cleanup_error", "evidence_error"}
      /\ codex.kind = "process_cleanup_error" => FailureAfterCleanup = "process_cleanup_error"
  BY <1>1 DEF FailureAfterCleanup
<1>3. \/ FailureAfterGates = FailureAfterCleanup
      \/ FailureAfterGates = "gate_harness_error" /\ FailureAfterCleanup = "none"
         /\ gateResult \notin {"absent", "none"}
  BY DEF FailureAfterGates
<1>4. FailureAfterDiff \in {FailureAfterGates, "evidence_error"}
  BY DEF FailureAfterDiff
<1>5. FinalFailure \in {FailureAfterDiff, "evidence_error"}
  BY DEF FinalFailure
<1> QED
  BY <1>1, <1>2, <1>3, <1>4, <1>5 DEF Verdict

(* With nobody left of a gate command, the two ways to count the commands  *)
(* agree.                                                                  *)
LEMMA CountsAgree ==
  ASSUME ~CommandLeftItsGroup
  PROVE  CompletedNormally(commands) = CountsComplete(commands)
BY DEF CommandLeftItsGroup, CompletedNormally, CountsComplete, Normal

(* The pair of a failed preflight is accepted ...                          *)
LEMMA PreflightPairAccepted ==
  ASSUME TypeOK, TreeInv, CallInv, GateInv, pc = "refused_preflight"
  PROVE  RecordingAccepted(PairOf(failure, "none")) /\ ArtifactAccepted(PairOf(failure, "none"))
<1>1. /\ commands = << >> /\ workspace = "not_created"
      /\ failure = codex.kind /\ failure # "none" /\ failure \in Kinds
      /\ codex.execution = "preflight_not_completed"
  BY DEF TreeInv, CallInv, GateInv, HasCodex, Early, BeforeCall, Accepted, KindAgrees
<1>2. Elements(<< >>) = {}
  BY DEF Elements
<1>3. RecordingAccepted(PairOf(failure, "none"))
  BY <1>1, <1>2 DEF RecordingAccepted, PairOf, CompletedNormally, CountsComplete,
     StageFitsWorkspace, Kinds, ProviderKinds, SpawnKinds, HarnessKinds
<1> DEFINE a == PairOf(failure, "none")
<1>4. ArtifactAccepted(a)
  <2>1. /\ a.codex = codex /\ a.commands = << >> /\ a.workspace = "not_created"
        /\ a.kind = failure /\ a.metrics = "none" /\ a.status = StatusOf(failure)
    BY <1>1 DEF PairOf
  <2> HIDE DEF a
  <2>2. /\ StatusOf(failure) \in {"provider_error", "harness_error"}
        /\ (StatusOf(failure) = "provider_error") = (failure \in ProviderKinds)
        /\ (StatusOf(failure) = "harness_error") = (failure \in HarnessStatusKinds)
        /\ failure # "gate_harness_error"
    BY <1>1 DEF StatusOf, HarnessStatusKinds, Kinds, ProviderKinds, SpawnKinds, HarnessKinds
  <2> QED
    BY <1>1, <2>1, <2>2 DEF ArtifactAccepted, StageFitsWorkspace, QualityStatuses
<1> QED
  BY <1>3, <1>4

(* ... that of a quality verdict ...                                       *)
LEMMA VerdictPairAccepted ==
  ASSUME TypeOK, TreeInv, CallInv, GateInv, pc = "conclude", HasVerdict,
         NEW kind, NEW metrics,
         \/ kind = "none" /\ metrics = "pass"
            /\ \A c \in Elements(commands) : c.status = "passed"
         \/ kind = "quality_gate_failure" /\ metrics = "fail"
            /\ \E c \in Elements(commands) : c.status # "passed"
  PROVE  RecordingAccepted(PairOf(kind, metrics)) /\ ArtifactAccepted(PairOf(kind, metrics))
<1>1. /\ Aligned /\ Len(commands) = Len(Plan) /\ codex.kind = "none"
      /\ diff = "complete" /\ workspace = "removed"
      /\ codex.execution = ExecutionStage(codex.invocation)
  BY VerdictFacts DEF HasVerdict, CallInv, HasCodex
<1>2. \A c \in Elements(commands) : Normal(c) /\ c.status \in {"passed", "failed"}
  BY <1>1 DEF Aligned, Elements, Normal, Completed
<1>3. \E c \in Elements(commands) : c.gate = "acceptance"
  <2>1. PICK i \in 1 .. Len(Plan) : Plan[i] = "acceptance"
    BY PlanAssumption
  <2> QED
    BY <1>1, <2>1 DEF Aligned, Elements
<1>4. CompletedNormally(commands) /\ CountsComplete(commands) /\ commands # << >>
  BY <1>1, <1>2, PlanNotEmpty DEF CompletedNormally, CountsComplete, Completed
<1>5. RecordingAccepted(PairOf(kind, metrics))
  BY <1>1, <1>2, <1>3, <1>4 DEF RecordingAccepted, PairOf
<1>6. StageFitsWorkspace(PairOf(kind, metrics))
  BY <1>1 DEF StageFitsWorkspace, PairOf, ExecutionStage
<1> DEFINE a == PairOf(kind, metrics)
<1>7. ArtifactAccepted(a)
  <2>1. /\ a.codex = codex /\ a.commands = commands /\ a.workspace = "removed"
        /\ a.diff = "complete" /\ a.kind = kind /\ a.metrics = metrics
        /\ a.status = StatusOf(kind) /\ StageFitsWorkspace(a)
    BY <1>1, <1>6 DEF PairOf
  <2>2. kind \notin ProviderKinds \cup HarnessStatusKinds \cup CodexMustMatch
    BY DEF CodexMustMatch, HarnessStatusKinds, ProviderKinds, SpawnKinds, HarnessKinds
  <2>3. StatusOf("none") = "passed" /\ StatusOf("quality_gate_failure") = "failed"
    BY DEF StatusOf, ProviderKinds, SpawnKinds
  <2> HIDE DEF a
  <2>4. CASE kind = "none"
    <3>1. \A c \in Elements(commands) : c.status = "passed"
      BY <2>4
    <3>2. /\ metrics # "none"
          /\ (metrics = "pass") = (\A c \in Elements(commands) : c.status = "passed")
      BY <2>4, <3>1
    <3>3. a.status = "passed" /\ a.kind = "none" /\ a.codex.kind = "none"
      BY <1>1, <2>1, <2>3, <2>4
    <3>4. CompletedNormally(a.commands) /\ a.commands # << >> /\ a.metrics # "none"
      BY <1>4, <2>1, <3>2
    <3>5. (a.metrics = "pass") = (\A c \in Elements(a.commands) : c.status = "passed")
      BY <2>1, <3>2
    <3>6. a.kind \notin ProviderKinds \cup HarnessStatusKinds \cup CodexMustMatch
      BY <2>1, <2>2
    <3>7. /\ (a.status = "provider_error") = (a.kind \in ProviderKinds)
          /\ (a.status = "harness_error") = (a.kind \in HarnessStatusKinds)
      BY <3>3, <3>6
    <3>8. (a.metrics # "none") =
            (/\ a.codex.kind = "none"
             /\ a.commands # << >> /\ CompletedNormally(a.commands)
             /\ a.kind \in {"none", "quality_gate_failure"}
             /\ a.diff = "complete" /\ a.workspace = "removed")
      BY <2>1, <3>3, <3>4
    <3>9. a.kind \in CodexMustMatch => a.codex.kind = a.kind
      BY <3>6
    <3> QED
      BY <2>1, <3>3, <3>4, <3>5, <3>7, <3>8, <3>9 DEF ArtifactAccepted, QualityStatuses
  <2>5. CASE kind = "quality_gate_failure"
    <3>1. metrics = "fail" /\ \E c \in Elements(commands) : c.status # "passed"
      BY <2>5
    <3>2. /\ metrics # "none"
          /\ (metrics = "pass") = (\A c \in Elements(commands) : c.status = "passed")
      BY <2>5, <3>1
    <3>3. a.status = "failed" /\ a.kind = "quality_gate_failure" /\ a.codex.kind = "none"
      BY <1>1, <2>1, <2>3, <2>5
    <3>4. CompletedNormally(a.commands) /\ a.commands # << >> /\ a.metrics # "none"
      BY <1>4, <2>1, <3>2
    <3>5. (a.metrics = "pass") = (\A c \in Elements(a.commands) : c.status = "passed")
      BY <2>1, <3>2
    <3>6. a.kind \notin ProviderKinds \cup HarnessStatusKinds \cup CodexMustMatch
      BY <2>1, <2>2
    <3>7. /\ (a.status = "provider_error") = (a.kind \in ProviderKinds)
          /\ (a.status = "harness_error") = (a.kind \in HarnessStatusKinds)
      BY <3>3, <3>6
    <3>8. (a.metrics # "none") =
            (/\ a.codex.kind = "none"
             /\ a.commands # << >> /\ CompletedNormally(a.commands)
             /\ a.kind \in {"none", "quality_gate_failure"}
             /\ a.diff = "complete" /\ a.workspace = "removed")
      BY <2>1, <3>3, <3>4
    <3>9. a.kind \in CodexMustMatch => a.codex.kind = a.kind
      BY <3>6
    <3> QED
      BY <2>1, <3>3, <3>4, <3>5, <3>7, <3>8, <3>9 DEF ArtifactAccepted, QualityStatuses
  <2> QED
    BY <2>4, <2>5
<1> QED
  BY <1>5, <1>7

(* ... and any other, unless a command left its group.                     *)
LEMMA FailurePairAccepted ==
  ASSUME TypeOK, TreeInv, CallInv, GateInv, pc = "conclude", ~CommandLeftItsGroup
  PROVE  RecordingAccepted(PairOf(Verdict, "none")) /\ ArtifactAccepted(PairOf(Verdict, "none"))
<1> DEFINE a == PairOf(Verdict, "none")
<1>1. /\ a.codex = codex /\ a.commands = commands /\ a.workspace = workspace
      /\ a.kind = Verdict /\ a.metrics = "none" /\ a.status = StatusOf(Verdict)
  BY DEF PairOf
<1> HIDE DEF a
<1>2. codex.kind # "none" \/ workspace = "not_created" => commands = << >>
  BY DEF GateInv
<1>3. StageFitsWorkspace(a)
  BY <1>1 DEF StageFitsWorkspace, CallInv, HasCodex, ExecutionStage
<1>4. /\ Verdict \notin {"none", "quality_gate_failure"}
      /\ Verdict \in CodexMustMatch => codex.kind = Verdict /\ commands = << >>
      /\ Verdict = "gate_harness_error" =>
           codex.kind = "none" /\ \E c \in Elements(commands) : ~Normal(c)
      /\ workspace = "cleanup_failed" => Verdict \notin ProviderKinds
  BY <1>2, NoVerdictFacts DEF GateInv, CodexMustMatch, Kinds, ProviderKinds, SpawnKinds,
     HarnessKinds
<1>5. RecordingAccepted(a)
  BY <1>1, <1>3, <1>4, CountsAgree DEF RecordingAccepted, CompletedNormally
<1>6. /\ StatusOf(Verdict) \in {"provider_error", "harness_error"}
      /\ (StatusOf(Verdict) = "provider_error") = (Verdict \in ProviderKinds)
      /\ (StatusOf(Verdict) = "harness_error") = (Verdict \in HarnessStatusKinds)
  BY <1>4, NoVerdictFacts DEF StatusOf, HarnessStatusKinds, Kinds, ProviderKinds, SpawnKinds,
     HarnessKinds
<1>7. ArtifactAccepted(a)
  BY <1>1, <1>2, <1>3, <1>4, <1>6 DEF ArtifactAccepted, QualityStatuses
<1> QED
  BY <1>5, <1>7 DEF a

-----------------------------------------------------------------------------
(* The properties, step by step.                                           *)

(* Only BuildPair makes an artifact, and only of what the models accept.   *)
LEMMA ArtifactStep ==
  ASSUME TypeOK, TreeInv, CallInv, GateInv, InterruptInv, Step, artifact' # artifact
  PROVE  /\ RecordingAccepted(artifact') /\ UNCHANGED << commands, sourceIntact, root >>
         /\ \/ pc = "refused_preflight" /\ artifact' = PairOf(failure, "none")
            \/ /\ pc = "conclude"
               /\ \/ HasVerdict /\ (\A c \in Elements(commands) : c.status = "passed")
                     /\ artifact' = PairOf("none", "pass")
                  \/ HasVerdict /\ (\E c \in Elements(commands) : c.status # "passed")
                     /\ artifact' = PairOf("quality_gate_failure", "fail")
                  \/ artifact' = PairOf(Verdict, "none")
<1> USE DEF environment, evaluation, records, signals, BeforeWorkspace, InWorkspace,
        GatesUntouched, GateStep, ProviderStep, AfterWorkspace, EnvironmentUnchanged
<1>1. CASE RecordPreflightFailure
  BY <1>1, BuildPairFacts DEF RecordPreflightFailure
<1>2. CASE Conclude
  BY <1>2, BuildPairFacts DEF Conclude, Verdict
<1>3. artifact' = artifact \/ RecordPreflightFailure \/ Conclude
  <2>1. CASE Refuse \/ Begin \/ FindNoExecutable \/ FindExecutable \/ RunProbe
             \/ ProbeHasNoRoot \/ RemoveProbeRoot \/ KeepProbeRoot
             \/ PrepareWorkspace \/ PrepareFails \/ PrepareEscapes
             \/ PrepareProviderEnvironment
    BY <2>1 DEF Refuse, Begin, FindNoExecutable, FindExecutable, RunProbe, ProbeHasNoRoot,
       RemoveProbeRoot, KeepProbeRoot, PrepareWorkspace, PrepareFails,
       PrepareEscapes, PrepareProviderEnvironment
  <2>2. CASE ProviderReturns \/ PlatformUnsupported \/ RunnerFails
             \/ PrepareGates \/ RunGate \/ GatesFail \/ CollectDiff \/ RemoveWorkspace
    BY <2>2 DEF ProviderReturns, PlatformUnsupported, RunnerFails, PrepareGates, RunGate,
       GatesFail, CollectDiff, RemoveWorkspace
  <2>3. CASE ProtectAgain \/ PublishPair \/ Diagnose \/ RaiseUnhandled
             \/ ChangeSource \/ SetClockBack \/ Intrude \/ Interrupt
    BY <2>3 DEF ProtectAgain, PublishPair, Diagnose, RaiseUnhandled, ChangeSource,
       SetClockBack, Intrude, Interrupt
  <2> QED
    BY <2>1, <2>2, <2>3 DEF Step, RunStep
<1> QED
  BY <1>1, <1>2, <1>3

(* A Diagnostic is written at the end of a run, beside nothing of its own. *)
LEMMA DiagnosticWritten ==
  ASSUME TypeOK, InterruptInv, RecordInv, Step, at'["diagnostic"] = "ours"
  PROVE  /\ pc = "diagnose" /\ PathsAreFree /\ diagnostic' = Diagnosis
         /\ at' = [at EXCEPT !["diagnostic"] = "ours"]
         /\ UNCHANGED << attempts, launched, codex, root, workspace, tracker >>
<1> USE DEF TypeOK, PlainTypes, Paths, RecordInv, environment, evaluation, records, signals,
        Ends, BeforeWorkspace, InWorkspace, GatesUntouched, GateStep, ProviderStep,
        AfterWorkspace, EnvironmentUnchanged
<1>1. CASE Refuse
  BY <1>1 DEF Refuse
<1>2. CASE Begin
  BY <1>2 DEF Begin
<1>3. CASE FindNoExecutable
  BY <1>3, PreflightRefused DEF FindNoExecutable, PreflightKinds, HarnessKinds
<1>4. CASE FindExecutable
  BY <1>4 DEF FindExecutable
<1>5. CASE RunProbe
  BY <1>5, VerdictsFail DEF RunProbe
<1>6. CASE ProbeHasNoRoot
  BY <1>6, PreflightRefused DEF ProbeHasNoRoot, PreflightKinds, HarnessKinds
<1>7. CASE RemoveProbeRoot
  BY <1>7, ProbeFacts, StageSet DEF RemoveProbeRoot
<1>8. CASE KeepProbeRoot
  BY <1>8, PreflightRefused DEF KeepProbeRoot, PreflightKinds, HarnessKinds
<1>9. CASE PrepareWorkspace
  BY <1>9 DEF PrepareWorkspace
<1>10. CASE PrepareFails
  BY <1>10, PostPreflightFacts DEF PrepareFails
<1>11. CASE PrepareProviderEnvironment
  BY <1>11, PostPreflightFacts DEF PrepareProviderEnvironment, Enter
<1>12. CASE ProviderReturns
  BY <1>12, ProviderFacts DEF ProviderReturns
<1>13. CASE PlatformUnsupported
  BY <1>13, ProviderFacts DEF PlatformUnsupported
<1>14. CASE RunnerFails
  BY <1>14, ProviderFacts DEF RunnerFails
<1>15. CASE PrepareGates
  BY <1>15, PlanNotEmpty DEF PrepareGates
<1>16. CASE RunGate
  BY <1>16, RunGateFacts DEF RunGate
<1>17. CASE GatesFail
  BY <1>17 DEF GatesFail
<1>18. CASE CollectDiff
  BY <1>18 DEF CollectDiff
<1>19. CASE RemoveWorkspace
  BY <1>19 DEF RemoveWorkspace
<1>20. CASE RecordPreflightFailure
  BY <1>20 DEF RecordPreflightFailure, BuildPair
<1>21. CASE Conclude
  BY <1>21 DEF Conclude, BuildPair
<1>22. CASE ProtectAgain
  BY <1>22 DEF ProtectAgain
<1>23. CASE PublishPair
  BY <1>23 DEF PublishPair, Half, Paired
<1>24. CASE Diagnose
  BY <1>24 DEF Diagnose
<1>25. CASE ChangeSource
  BY <1>25 DEF ChangeSource
<1>26. CASE SetClockBack
  BY <1>26 DEF SetClockBack
<1>27. CASE Intrude
  BY <1>27 DEF Intrude
<1>28. CASE Interrupt
  <2>1. CASE InterruptOutside /\ Ends("interrupted")
             /\ UNCHANGED << attempts, gateExecuted, launched >>
    BY <1>28, <2>1 DEF Interrupt, InterruptOutside, Half, Paired
  <2>2. CASE InterruptWithin /\ UNCHANGED << exit, at, diagnostic, root >>
    BY <1>28, <2>2 DEF Interrupt, InterruptWithin
  <2> QED
    BY <1>28, <2>1, <2>2 DEF Interrupt
<1>29. CASE PrepareEscapes
  BY <1>29, EscapeFacts DEF PrepareEscapes
<1>30. CASE RaiseUnhandled
  BY <1>30 DEF RaiseUnhandled
<1> QED
  BY <1>1, <1>2, <1>3, <1>4, <1>5, <1>6, <1>7, <1>8, <1>9, <1>10, <1>11, <1>12, <1>13,
     <1>14, <1>15, <1>16, <1>17, <1>18, <1>19, <1>20, <1>21, <1>22, <1>23, <1>24, <1>25,
     <1>26, <1>27, <1>28, <1>29, <1>30
  DEF Step, RunStep

(* What the Diagnostic of a run in its last step says is acceptable.       *)
LEMMA DiagnosisAccepted ==
  ASSUME TypeOK
  PROVE  DiagnosticAccepted(Diagnosis)
<1>1. TrackerFits(tracker) /\ tracker.stage # "unknown"
  BY DEF TypeOK, TrackerFits, TrackerStages, OrchestrationStages, RunnerStages, PreSpawnStages,
     PostSpawnStages, HandoffStages, HandoffStage
<1> DEFINE d == Diagnosis
<1>2. /\ d.stage = tracker.stage /\ d.runner = tracker.runner /\ d.invocation = tracker.invocation
      /\ d.cleanup = tracker.cleanup /\ d.determined = TRUE
      /\ (d.kind = "process_cleanup_error") = (tracker.cleanup = "failed")
  BY <1>1 DEF Diagnosis, TrackerFits
<1>3. tracker.invocation \in Invocations /\ tracker.runner \in {"not_started", "started"}
      /\ tracker.cleanup \in {"not_applicable", "cleared", "failed"}
  BY <1>1 DEF TrackerFits
<1>4. "unknown" \notin {d.runner, d.invocation, d.cleanup, d.stage}
  BY <1>1, <1>2, <1>3 DEF Invocations
<1> HIDE DEF d
<1>5. DiagnosticAccepted(d)
  BY <1>1, <1>2, <1>3, <1>4 DEF DiagnosticAccepted, TrackerFits, Invocations
<1> QED
  BY <1>5 DEF d

(* A step keeps a Diagnostic true.                                         *)
LEMMA TruthStep ==
  ASSUME TypeOK, TreeInv, CallInv, GateInv, InterruptInv, RecordInv, Step
  PROVE  DiagnosticIsTruthful'
<1> SUFFICES ASSUME at'["diagnostic"] = "ours" PROVE DiagnosticIsTruthful'
  BY DEF DiagnosticIsTruthful
<1>1. /\ pc = "diagnose" /\ PathsAreFree /\ diagnostic' = Diagnosis
      /\ at' = [at EXCEPT !["diagnostic"] = "ours"]
      /\ UNCHANGED << attempts, launched, codex, root, workspace, tracker >>
  BY DiagnosticWritten
<1>2. DiagnosticAccepted(diagnostic')
  BY <1>1, DiagnosisAccepted
<1>3. /\ attempts = Calls(tracker.invocation)
      /\ tracker.stage # "provider_orchestration" => root = (workspace = "cleanup_failed")
  BY <1>1 DEF CallInv, TreeInv, MayBeOrphaned
<1>4. launched > 0 => gateExecuted
  BY DEF GateInv
<1>5. gateExecuted => codex.kind = "none" /\ tracker.cleanup = "cleared"
  BY DEF GateInv
<1>6. at'["recording"] # "ours" /\ at'["evidence"] # "ours"
  BY <1>1 DEF PathsAreFree, TypeOK, PlainTypes, Paths
<1>7. /\ diagnostic'.invocation = tracker.invocation /\ diagnostic'.gates = gateExecuted
      /\ diagnostic'.workspace = workspace /\ diagnostic'.stage = tracker.stage
      /\ tracker.cleanup = "cleared" => diagnostic'.cleanup = "cleared"
  BY <1>1 DEF Diagnosis
<1>8. gateExecuted \in BOOLEAN
  BY DEF TypeOK, PlainTypes
<1> QED
  BY <1>1, <1>2, <1>3, <1>4, <1>5, <1>6, <1>7, <1>8 DEF DiagnosticIsTruthful, Calls

(* A step forgets no Workspace.                                            *)
LEMMA AccountedStep ==
  ASSUME TypeOK, TreeInv, CallInv, InterruptInv, RecordInv, Step
  PROVE  WorkspaceAccounted'
<1> USE DEF TypeOK, PlainTypes, TreeInv, InterruptInv, Interrupted, RecordInv,
        WorkspaceAccounted, MayBeOrphaned, Early, InTree, Paths, environment, evaluation,
        records, signals, Ends, BeforeWorkspace, InWorkspace, GatesUntouched, GateStep,
        ProviderStep, AfterWorkspace, EnvironmentUnchanged
<1>1. CASE Refuse
  BY <1>1 DEF Refuse
<1>2. CASE Begin
  BY <1>2 DEF Begin
<1>3. CASE FindNoExecutable
  BY <1>3, PreflightRefused DEF FindNoExecutable, PreflightKinds, HarnessKinds
<1>4. CASE FindExecutable
  BY <1>4 DEF FindExecutable
<1>5. CASE RunProbe
  BY <1>5, VerdictsFail DEF RunProbe
<1>6. CASE ProbeHasNoRoot
  BY <1>6, PreflightRefused DEF ProbeHasNoRoot, PreflightKinds, HarnessKinds
<1>7. CASE RemoveProbeRoot
  BY <1>7, ProbeFacts, StageSet DEF RemoveProbeRoot
<1>8. CASE KeepProbeRoot
  BY <1>8, PreflightRefused DEF KeepProbeRoot, PreflightKinds, HarnessKinds
<1>9. CASE PrepareWorkspace
  BY <1>9 DEF PrepareWorkspace
<1>10. CASE PrepareFails
  BY <1>10, PostPreflightFacts DEF PrepareFails
<1>11. CASE PrepareProviderEnvironment
  BY <1>11, PostPreflightFacts DEF PrepareProviderEnvironment, Enter
<1>12. CASE ProviderReturns
  BY <1>12, ProviderFacts DEF ProviderReturns
<1>13. CASE PlatformUnsupported
  BY <1>13, ProviderFacts DEF PlatformUnsupported
<1>14. CASE RunnerFails
  BY <1>14, ProviderFacts DEF RunnerFails
<1>15. CASE PrepareGates
  BY <1>15, PlanNotEmpty DEF PrepareGates
<1>16. CASE RunGate
  BY <1>16, RunGateFacts DEF RunGate
<1>17. CASE GatesFail
  BY <1>17 DEF GatesFail
<1>18. CASE CollectDiff
  BY <1>18 DEF CollectDiff
<1>19. CASE RemoveWorkspace
  BY <1>19 DEF RemoveWorkspace
<1>20. CASE RecordPreflightFailure
  BY <1>20 DEF RecordPreflightFailure, BuildPair
<1>21. CASE Conclude
  BY <1>21 DEF Conclude, BuildPair
<1>22. CASE ProtectAgain
  BY <1>22 DEF ProtectAgain
<1>23. CASE PublishPair
  <2>1. /\ pc = "publish" /\ artifact' = artifact
        /\ UNCHANGED << root, workspace, signals >> /\ exit = "none"
    BY <1>23 DEF PublishPair
  <2>2. workspace = "cleanup_failed" =>
          artifact.workspace = "cleanup_failed" /\ artifact.status = "harness_error"
    BY <2>1 DEF ArtifactAccepted
  <2>3. exit' # "none" => at' = Paired /\ UNCHANGED tracker
    BY <1>23, <2>1 DEF PublishPair
  <2>4. at' = Paired => at'["evidence"] = "ours"
    BY DEF Paired
  <2> QED
    BY <2>1, <2>2, <2>3, <2>4
<1>24. CASE Diagnose
  <2>1. /\ pc = "diagnose" /\ UNCHANGED << root, workspace, tracker >>
        /\ \/ /\ at' = [at EXCEPT !["diagnostic"] = "ours"]
              /\ diagnostic' = Diagnosis /\ Diagnosis.workspace = workspace
           \/ exit' = "diagnostic_failed"
    BY <1>24 DEF Diagnose, Diagnosis
  <2>2. at' = [at EXCEPT !["diagnostic"] = "ours"] => at'["diagnostic"] = "ours"
    OBVIOUS
  <2> QED
    BY <2>1, <2>2
<1>25. CASE ChangeSource
  BY <1>25 DEF ChangeSource
<1>26. CASE SetClockBack
  BY <1>26 DEF SetClockBack
<1>27. CASE Intrude
  BY <1>27 DEF Intrude
<1>28. CASE Interrupt
  <2>1. CASE InterruptOutside /\ Ends("interrupted")
             /\ UNCHANGED << attempts, gateExecuted, launched >>
    <3>1. /\ exit' = "interrupted" /\ UNCHANGED << artifact, workspace, tracker >>
          /\ interruptedAt' = pc /\ exit = "none"
      BY <1>28, <2>1 DEF Interrupt, InterruptOutside
    <3>2. CASE pc \in {"prepare", "remove"}
      BY <2>1, <3>1, <3>2 DEF InterruptOutside
    <3>3. CASE pc = "publish"
      <4>1. root' = root /\ at' \in {at, Half, Paired} /\ artifact.workspace = workspace
            /\ ArtifactAccepted(artifact) /\ UNCHANGED diagnostic
        BY <2>1, <3>3 DEF InterruptOutside
      <4>2. workspace = "cleanup_failed" => artifact.status = "harness_error"
        BY <4>1 DEF ArtifactAccepted
      <4>3. at'["diagnostic"] # "ours"
        BY <3>3, <4>1 DEF Half, Paired
      <4> QED
        BY <3>1, <3>3, <4>1, <4>2, <4>3
    <3>4. CASE pc = "diagnose"
      <4>1. /\ root' = root
            /\ \/ UNCHANGED << at, diagnostic >>
               \/ /\ at' = [at EXCEPT !["diagnostic"] = "ours"]
                  /\ diagnostic' = Diagnosis /\ Diagnosis.workspace = workspace
        BY <2>1, <3>4 DEF InterruptOutside, Diagnosis
      <4>2. at' = [at EXCEPT !["diagnostic"] = "ours"] => at'["diagnostic"] = "ours"
        OBVIOUS
      <4>3. UNCHANGED at => at'["evidence"] # "ours" /\ at'["diagnostic"] # "ours"
        BY <3>4
      <4> QED
        BY <3>1, <3>4, <4>1, <4>2, <4>3
    <3>5. CASE pc \notin {"prepare", "remove", "publish", "diagnose"}
      BY <2>1, <3>1, <3>5 DEF InterruptOutside
    <3> QED
      BY <3>2, <3>3, <3>4, <3>5
  <2>2. CASE InterruptWithin /\ UNCHANGED << exit, at, diagnostic, root >>
    BY <1>28, <2>2 DEF Interrupt, InterruptWithin
  <2> QED
    BY <1>28, <2>1, <2>2 DEF Interrupt
<1>29. CASE PrepareEscapes
  BY <1>29, EscapeFacts DEF PrepareEscapes
<1>30. CASE RaiseUnhandled
  BY <1>30 DEF RaiseUnhandled
<1> QED
  BY <1>1, <1>2, <1>3, <1>4, <1>5, <1>6, <1>7, <1>8, <1>9, <1>10, <1>11, <1>12, <1>13,
     <1>14, <1>15, <1>16, <1>17, <1>18, <1>19, <1>20, <1>21, <1>22, <1>23, <1>24, <1>25,
     <1>26, <1>27, <1>28, <1>29, <1>30
  DEF Step, RunStep

(* A step withholds a pair for its construction only with a clock set      *)
(* back, a command that left its group or evidence refused after a stale   *)
(* timeout.                                                                *)
LEMMA WithheldStep ==
  ASSUME TypeOK, TreeInv, CallInv, GateInv, InterruptInv, RecordInv,
         PairIsBuiltOrExplained, Step
  PROVE  PairIsBuiltOrExplained'
<1>0. /\ commands' = commands => (CommandLeftItsGroup' <=> CommandLeftItsGroup)
      /\ "none" \notin ConstructionCodes
      /\ "paired_output_publication_failed" \notin ConstructionCodes
  BY DEF CommandLeftItsGroup, ConstructionCodes
<1> USE <1>0 DEF TypeOK, PlainTypes, RecordInv, PairIsBuiltOrExplained, environment,
        evaluation, records, signals, Ends, BeforeWorkspace, InWorkspace, GatesUntouched,
        GateStep, ProviderStep, AfterWorkspace, EnvironmentUnchanged
<1>1. CASE Refuse
  BY <1>1 DEF Refuse
<1>2. CASE Begin
  BY <1>2 DEF Begin
<1>3. CASE FindNoExecutable
  BY <1>3, PreflightRefused DEF FindNoExecutable, PreflightKinds, HarnessKinds
<1>4. CASE FindExecutable
  BY <1>4 DEF FindExecutable
<1>5. CASE RunProbe
  BY <1>5, VerdictsFail DEF RunProbe
<1>6. CASE ProbeHasNoRoot
  BY <1>6, PreflightRefused DEF ProbeHasNoRoot, PreflightKinds, HarnessKinds
<1>7. CASE RemoveProbeRoot
  <2>1. pc = "probe_cleanup" /\ withheld = "none" /\ UNCHANGED withheld
    BY <1>7, ProbeFacts DEF RemoveProbeRoot
  <2> QED
    BY <2>1
<1>8. CASE KeepProbeRoot
  BY <1>8, PreflightRefused DEF KeepProbeRoot, PreflightKinds, HarnessKinds
<1>9. CASE PrepareWorkspace
  BY <1>9 DEF PrepareWorkspace
<1>10. CASE PrepareFails
  BY <1>10, PostPreflightFacts DEF PrepareFails
<1>11. CASE PrepareProviderEnvironment
  BY <1>11, PostPreflightFacts DEF PrepareProviderEnvironment, Enter
<1>12. CASE ProviderReturns
  BY <1>12, ProviderFacts DEF ProviderReturns
<1>13. CASE PlatformUnsupported
  BY <1>13, ProviderFacts DEF PlatformUnsupported
<1>14. CASE RunnerFails
  BY <1>14, ProviderFacts DEF RunnerFails
<1>15. CASE PrepareGates
  BY <1>15, PlanNotEmpty DEF PrepareGates
<1>16. CASE RunGate
  BY <1>16, RunGateFacts DEF RunGate
<1>17. CASE GatesFail
  BY <1>17 DEF GatesFail
<1>18. CASE CollectDiff
  BY <1>18 DEF CollectDiff
<1>19. CASE RemoveWorkspace
  BY <1>19 DEF RemoveWorkspace
<1>20. CASE RecordPreflightFailure
  <2>1. /\ pc = "refused_preflight" /\ BuildPair(failure, "none")
        /\ UNCHANGED << clockRuns, commands >>
    BY <1>20 DEF RecordPreflightFailure
  <2>2. clockRuns => withheld' = withheld
    BY <2>1, BuildPairFacts, PreflightPairAccepted
  <2> QED
    BY <2>1, <2>2
<1>21. CASE Conclude
  <2>1. pc = "conclude" /\ UNCHANGED << clockRuns, commands >>
    BY <1>21 DEF Conclude
  <2>2. CASE HasVerdict /\ (\A c \in Elements(commands) : c.status = "passed")
             /\ BuildPair("none", "pass")
    BY <2>1, <2>2, BuildPairFacts, VerdictPairAccepted
  <2>3. CASE HasVerdict /\ (\E c \in Elements(commands) : c.status # "passed")
             /\ BuildPair("quality_gate_failure", "fail")
    BY <2>1, <2>3, BuildPairFacts, VerdictPairAccepted
  <2>4. CASE BuildPair(Verdict, "none")
    BY <2>1, <2>4, BuildPairFacts, FailurePairAccepted
  <2> QED
    BY <1>21, <2>2, <2>3, <2>4 DEF Conclude, Verdict
<1>22. CASE ProtectAgain
  BY <1>22 DEF ProtectAgain
<1>23. CASE PublishPair
  BY <1>23 DEF PublishPair, Half, Paired
<1>24. CASE Diagnose
  BY <1>24 DEF Diagnose
<1>25. CASE ChangeSource
  BY <1>25 DEF ChangeSource
<1>26. CASE SetClockBack
  BY <1>26 DEF SetClockBack
<1>27. CASE Intrude
  BY <1>27 DEF Intrude
<1>28. CASE Interrupt
  BY <1>28 DEF Interrupt, InterruptOutside, InterruptWithin
<1>29. CASE PrepareEscapes
  BY <1>29, EscapeFacts DEF PrepareEscapes
<1>30. CASE RaiseUnhandled
  BY <1>30 DEF RaiseUnhandled
<1> QED
  BY <1>1, <1>2, <1>3, <1>4, <1>5, <1>6, <1>7, <1>8, <1>9, <1>10, <1>11, <1>12, <1>13,
     <1>14, <1>15, <1>16, <1>17, <1>18, <1>19, <1>20, <1>21, <1>22, <1>23, <1>24, <1>25,
     <1>26, <1>27, <1>28, <1>29, <1>30
  DEF Step, RunStep

-----------------------------------------------------------------------------
(* Every state of the run has all of it.                                   *)

(* A run begins with nothing called, nothing created and nothing recorded. *)
LEMMA InitHolds == Init => IInv
<1> SUFFICES ASSUME Init PROVE IInv
  OBVIOUS
<1>0. Elements(commands) = {} /\ Len(commands) = 0
  BY DEF Init, Elements
<1>1. TypeOK
  <2>1. "preflight" \in TrackerStages /\ "not_attempted" \in Invocations
    BY DEF TrackerStages, Invocations
  <2>2. TrackerFits(tracker)
    BY <2>1 DEF Init, TrackerFits
  <2>3. commands \in Seq(Commands)
    BY DEF Init
  <2> QED
    BY <2>2, <2>3 DEF Init, TypeOK, PlainTypes, Steps, Paths
<1>2. TreeInv /\ CallInv /\ GateInv /\ InterruptInv
  BY <1>0 DEF Init, TreeInv, CallInv, GateInv, InterruptInv, Interrupted, Early, InTree,
     BeforeCall, HasCodex, Calls
<1>3. RecordInv
  BY DEF Init, RecordInv, Paths
<1>4. WorkspaceAccounted /\ DiagnosticIsTruthful /\ PairIsBuiltOrExplained
  BY DEF Init, WorkspaceAccounted, DiagnosticIsTruthful, PairIsBuiltOrExplained,
     Paths, ConstructionCodes
<1> QED
  BY <1>1, <1>2, <1>3, <1>4 DEF IInv

(* Every step keeps it.                                                    *)
LEMMA NextKeeps == IInv /\ [Next]_vars => IInv'
<1> SUFFICES ASSUME IInv, [Next]_vars PROVE IInv'
  OBVIOUS
<1>1. CASE Step
  <2>1. TypeOK' /\ TreeInv' /\ CallInv'
    BY <1>1, TypeStep, TreeStep, CallStep DEF IInv
  <2>2. GateInv' /\ InterruptInv' /\ RecordInv'
    BY <1>1, GatesStep, InterruptStep, RecordStep DEF IInv
  <2>3. WorkspaceAccounted' /\ DiagnosticIsTruthful' /\ PairIsBuiltOrExplained'
    BY <1>1, AccountedStep, TruthStep, WithheldStep DEF IInv
  <2> QED
    BY <2>1, <2>2, <2>3 DEF IInv
<1>2. CASE UNCHANGED vars
  <2> USE <1>2 DEF IInv, vars, environment, evaluation, records, signals
  <2>1. TypeOK' /\ TreeInv'
    BY DEF TypeOK, PlainTypes, TreeInv, MayBeOrphaned
  <2>2. CallInv' /\ InterruptInv'
    BY DEF CallInv, HasCodex, InterruptInv, Interrupted
  <2>3. GateInv'
    BY DEF GateInv, Aligned
  <2>4. RecordInv'
    BY DEF RecordInv
  <2>5. WorkspaceAccounted' /\ DiagnosticIsTruthful'
    BY DEF WorkspaceAccounted, MayBeOrphaned, DiagnosticIsTruthful
  <2>6. PairIsBuiltOrExplained'
    BY DEF PairIsBuiltOrExplained, CommandLeftItsGroup
  <2> QED
    BY <2>1, <2>2, <2>3, <2>4, <2>5, <2>6
<1> QED
  BY <1>1, <1>2 DEF Next, Done, Step

(* The invariant of the run: it knows at each step what has become of the  *)
(* Provider call, the gates and the Workspace.                             *)
THEOREM Inductive == Spec => []IInv
BY InitHolds, NextKeeps, PTL DEF Spec

-----------------------------------------------------------------------------
(* What the run promises.                                                  *)

(* Each Workspace left behind by run_live_codex is on record, but for the  *)
(* exceptions WorkspaceAccounted names.                                    *)
THEOREM WorkspaceIsAccounted == Spec => []WorkspaceAccounted
<1>1. IInv => WorkspaceAccounted
  BY DEF IInv
<1> QED
  BY <1>1, Inductive, PTL

(* Each Failure Diagnostic says what happened to the Provider call, the    *)
(* gates and, but at stage provider_orchestration, the Workspace, and it   *)
(* stands alone.                                                           *)
THEOREM DiagnosticIsTrue == Spec => []DiagnosticIsTruthful
<1>1. IInv => DiagnosticIsTruthful
  BY DEF IInv
<1> QED
  BY <1>1, Inductive, PTL

(* The strict models refuse what the code builds only for a clock set back *)
(* or a gate command that ended and left its group.                        *)
THEOREM PairIsBuilt == Spec => []PairIsBuiltOrExplained
<1>1. IInv => PairIsBuiltOrExplained
  BY DEF IInv
<1> QED
  BY <1>1, Inductive, PTL

(* One step decides on a quality verdict only when it is earned.           *)
LEMMA VerdictStep ==
  ASSUME IInv, Step, artifact' # artifact, artifact'.status \in QualityStatuses
  PROVE  /\ sourceIntact /\ ~root /\ attempts = 1
         /\ launched = Len(Plan) /\ [i \in DOMAIN commands |-> commands[i].gate] = Plan
         /\ \A c \in Elements(commands) : Normal(c)
         /\ (artifact'.status = "passed") = (\A c \in Elements(commands) : c.status = "passed")
<1>0. StatusOf("none") = "passed" /\ StatusOf("quality_gate_failure") = "failed"
  BY DEF StatusOf, ProviderKinds, SpawnKinds
<1>1. ASSUME NEW kind, artifact' = PairOf(kind, "none"), RecordingAccepted(artifact')
      PROVE  FALSE
  <2>1. kind \notin {"none", "quality_gate_failure"} /\ artifact'.status = StatusOf(kind)
    BY <1>1 DEF RecordingAccepted, PairOf
  <2>2. StatusOf(kind) \notin {"passed", "failed"}
    BY <2>1 DEF StatusOf
  <2> QED
    BY <2>1, <2>2 DEF QualityStatuses
<1>2. /\ pc = "conclude" /\ HasVerdict
      /\ \/ (\A c \in Elements(commands) : c.status = "passed")
            /\ artifact' = PairOf("none", "pass")
         \/ (\E c \in Elements(commands) : c.status # "passed")
            /\ artifact' = PairOf("quality_gate_failure", "fail")
  BY <1>1, ArtifactStep DEF IInv
<1>3. /\ sourceIntact /\ ~root /\ attempts = 1
      /\ Aligned /\ launched = Len(Plan) /\ Len(commands) = Len(Plan)
  BY <1>2, VerdictFacts DEF IInv
<1>4. [i \in DOMAIN commands |-> commands[i].gate] = Plan
  <2>1. commands \in Seq(Commands) /\ Plan \in Seq(Gates)
    BY PlanAssumption DEF IInv, TypeOK
  <2> QED
    BY <1>3, <2>1 DEF Aligned
<1>5. \A c \in Elements(commands) : Normal(c)
  BY <1>3 DEF Aligned, Elements
<1>6. (artifact'.status = "passed") = (\A c \in Elements(commands) : c.status = "passed")
  <2>1. \A kind, metrics : PairOf(kind, metrics).status = StatusOf(kind)
    BY DEF PairOf
  <2>2. \/ (\A c \in Elements(commands) : c.status = "passed") /\ artifact'.status = "passed"
        \/ (\E c \in Elements(commands) : c.status # "passed") /\ artifact'.status = "failed"
    BY <1>0, <1>2, <2>1
  <2> QED
    BY <2>2
<1> QED
  BY <1>3, <1>4, <1>5, <1>6

(* A quality verdict of run_live_codex is earned, however the Workspace,   *)
(* the gates and the source fail beside it.                                *)
THEOREM VerdictIsEarned == Spec => QualityVerdictIsEarned
<1>1. IInv /\ [Next]_vars =>
        [artifact' # artifact /\ artifact'.status \in QualityStatuses =>
           /\ sourceIntact /\ ~root /\ attempts = 1
           /\ launched = Len(Plan) /\ [i \in DOMAIN commands |-> commands[i].gate] = Plan
           /\ \A c \in Elements(commands) : Normal(c)
           /\ (artifact'.status = "passed") =
                (\A c \in Elements(commands) : c.status = "passed")]_vars
  <2>1. Done \/ UNCHANGED vars => artifact' = artifact
    BY DEF Done, vars, records
  <2> QED
    BY <2>1, VerdictStep DEF Next, Step
<1> QED
  BY <1>1, Inductive, PTL DEF Spec, QualityVerdictIsEarned

(* Only the step that is in the Provider call can make it; Ctrl-C there    *)
(* goes on to the removal of the Workspace.                                *)
LEMMA AttemptStep ==
  ASSUME TypeOK, InterruptInv, Step
  PROVE  /\ pc # "ended"
         /\ attempts' # attempts => pc = "runner" /\ pc' # "ended"
<1> USE DEF environment, evaluation, records, signals, Ends, BeforeWorkspace, InWorkspace,
        GatesUntouched, GateStep, ProviderStep, AfterWorkspace, EnvironmentUnchanged
<1>1. CASE Refuse
  BY <1>1 DEF Refuse
<1>2. CASE Begin
  BY <1>2 DEF Begin
<1>3. CASE FindNoExecutable
  BY <1>3, PreflightRefused DEF FindNoExecutable, PreflightKinds, HarnessKinds
<1>4. CASE FindExecutable
  BY <1>4 DEF FindExecutable
<1>5. CASE RunProbe
  BY <1>5, VerdictsFail DEF RunProbe
<1>6. CASE ProbeHasNoRoot
  BY <1>6, PreflightRefused DEF ProbeHasNoRoot, PreflightKinds, HarnessKinds
<1>7. CASE RemoveProbeRoot
  BY <1>7, ProbeFacts, StageSet DEF RemoveProbeRoot
<1>8. CASE KeepProbeRoot
  BY <1>8, PreflightRefused DEF KeepProbeRoot, PreflightKinds, HarnessKinds
<1>9. CASE PrepareWorkspace
  BY <1>9 DEF PrepareWorkspace
<1>10. CASE PrepareFails
  BY <1>10, PostPreflightFacts DEF PrepareFails
<1>11. CASE PrepareProviderEnvironment
  BY <1>11, PostPreflightFacts DEF PrepareProviderEnvironment, Enter
<1>12. CASE ProviderReturns
  BY <1>12, ProviderFacts DEF ProviderReturns
<1>13. CASE PlatformUnsupported
  BY <1>13, ProviderFacts DEF PlatformUnsupported
<1>14. CASE RunnerFails
  BY <1>14, ProviderFacts DEF RunnerFails
<1>15. CASE PrepareGates
  BY <1>15, PlanNotEmpty DEF PrepareGates
<1>16. CASE RunGate
  BY <1>16, RunGateFacts DEF RunGate
<1>17. CASE GatesFail
  BY <1>17 DEF GatesFail
<1>18. CASE CollectDiff
  BY <1>18 DEF CollectDiff
<1>19. CASE RemoveWorkspace
  BY <1>19 DEF RemoveWorkspace
<1>20. CASE RecordPreflightFailure
  BY <1>20 DEF RecordPreflightFailure, BuildPair
<1>21. CASE Conclude
  BY <1>21 DEF Conclude, BuildPair
<1>22. CASE ProtectAgain
  BY <1>22 DEF ProtectAgain
<1>23. CASE PublishPair
  BY <1>23 DEF PublishPair, Half, Paired
<1>24. CASE Diagnose
  BY <1>24 DEF Diagnose
<1>25. CASE ChangeSource
  BY <1>25 DEF ChangeSource
<1>26. CASE SetClockBack
  BY <1>26 DEF SetClockBack
<1>27. CASE Intrude
  BY <1>27 DEF Intrude
<1>28. CASE Interrupt
  <2>1. CASE InterruptOutside /\ Ends("interrupted")
             /\ UNCHANGED << attempts, gateExecuted, launched >>
    BY <1>28, <2>1 DEF Interrupt, InterruptOutside
  <2>2. CASE InterruptWithin /\ UNCHANGED << exit, at, diagnostic, root >>
    BY <1>28, <2>2 DEF Interrupt, InterruptWithin
  <2> QED
    BY <1>28, <2>1, <2>2 DEF Interrupt
<1>29. CASE PrepareEscapes
  BY <1>29, EscapeFacts DEF PrepareEscapes
<1>30. CASE RaiseUnhandled
  BY <1>30 DEF RaiseUnhandled
<1> QED
  BY <1>1, <1>2, <1>3, <1>4, <1>5, <1>6, <1>7, <1>8, <1>9, <1>10, <1>11, <1>12, <1>13,
     <1>14, <1>15, <1>16, <1>17, <1>18, <1>19, <1>20, <1>21, <1>22, <1>23, <1>24, <1>25,
     <1>26, <1>27, <1>28, <1>29, <1>30
  DEF Step, RunStep

(* After Ctrl-C a step makes no call and ends the run as interrupted, or   *)
(* the preflight root is still there.                                      *)
LEMMA FinalStep ==
  ASSUME TypeOK, TreeInv, CallInv, InterruptInv, Step, Interrupted
  PROVE  exit' \notin {"none", "interrupted"} =>
           \/ probeRoot /\ failure = "evidence_error"
           \/ exit' = "raised" /\ (root' \/ probeRoot')
<1> USE DEF TypeOK, PlainTypes, CallInv, InterruptInv, Interrupted, environment, evaluation,
        records, signals, Ends, BeforeWorkspace, InWorkspace, GatesUntouched, GateStep,
        ProviderStep, AfterWorkspace, EnvironmentUnchanged
<1>1. CASE Refuse
  BY <1>1 DEF Refuse
<1>2. CASE Begin
  BY <1>2 DEF Begin
<1>3. CASE FindNoExecutable
  BY <1>3, PreflightRefused DEF FindNoExecutable, PreflightKinds, HarnessKinds
<1>4. CASE FindExecutable
  BY <1>4 DEF FindExecutable
<1>5. CASE RunProbe
  BY <1>5, VerdictsFail DEF RunProbe
<1>6. CASE ProbeHasNoRoot
  BY <1>6, PreflightRefused DEF ProbeHasNoRoot, PreflightKinds, HarnessKinds
<1>7. CASE RemoveProbeRoot
  BY <1>7, ProbeFacts, StageSet DEF RemoveProbeRoot
<1>8. CASE KeepProbeRoot
  BY <1>8, PreflightRefused DEF KeepProbeRoot, PreflightKinds, HarnessKinds
<1>9. CASE PrepareWorkspace
  BY <1>9 DEF PrepareWorkspace
<1>10. CASE PrepareFails
  BY <1>10, PostPreflightFacts DEF PrepareFails
<1>11. CASE PrepareProviderEnvironment
  BY <1>11, PostPreflightFacts DEF PrepareProviderEnvironment, Enter
<1>12. CASE ProviderReturns
  BY <1>12, ProviderFacts DEF ProviderReturns
<1>13. CASE PlatformUnsupported
  BY <1>13, ProviderFacts DEF PlatformUnsupported
<1>14. CASE RunnerFails
  BY <1>14, ProviderFacts DEF RunnerFails
<1>15. CASE PrepareGates
  BY <1>15, PlanNotEmpty DEF PrepareGates
<1>16. CASE RunGate
  BY <1>16, RunGateFacts DEF RunGate
<1>17. CASE GatesFail
  BY <1>17 DEF GatesFail
<1>18. CASE CollectDiff
  BY <1>18 DEF CollectDiff
<1>19. CASE RemoveWorkspace
  BY <1>19 DEF RemoveWorkspace
<1>20. CASE RecordPreflightFailure
  BY <1>20 DEF RecordPreflightFailure, BuildPair
<1>21. CASE Conclude
  BY <1>21 DEF Conclude, BuildPair
<1>22. CASE ProtectAgain
  BY <1>22 DEF ProtectAgain
<1>23. CASE PublishPair
  BY <1>23 DEF PublishPair, Half, Paired
<1>24. CASE Diagnose
  BY <1>24 DEF Diagnose
<1>25. CASE ChangeSource
  BY <1>25 DEF ChangeSource
<1>26. CASE SetClockBack
  BY <1>26 DEF SetClockBack
<1>27. CASE Intrude
  BY <1>27 DEF Intrude
<1>28. CASE Interrupt
  <2>1. CASE InterruptOutside /\ Ends("interrupted")
             /\ UNCHANGED << attempts, gateExecuted, launched >>
    BY <1>28, <2>1 DEF Interrupt, InterruptOutside
  <2>2. CASE InterruptWithin /\ UNCHANGED << exit, at, diagnostic, root >>
    BY <1>28, <2>2 DEF Interrupt, InterruptWithin
  <2> QED
    BY <1>28, <2>1, <2>2 DEF Interrupt
<1>29. CASE PrepareEscapes
  BY <1>29, EscapeFacts DEF PrepareEscapes
<1>30. CASE RaiseUnhandled
  BY <1>30 DEF RaiseUnhandled, TreeInv, InTree
<1> QED
  BY <1>1, <1>2, <1>3, <1>4, <1>5, <1>6, <1>7, <1>8, <1>9, <1>10, <1>11, <1>12, <1>13,
     <1>14, <1>15, <1>16, <1>17, <1>18, <1>19, <1>20, <1>21, <1>22, <1>23, <1>24, <1>25,
     <1>26, <1>27, <1>28, <1>29, <1>30
  DEF Step, RunStep

(* Ctrl-C is the last word of the run, whatever it falls into, unless the  *)
(* preflight root cannot be removed.                                       *)
THEOREM InterruptStaysFinal == Spec => InterruptIsFinal
<1>1. IInv /\ [Next]_vars =>
        [Interrupted =>
           /\ attempts' = attempts
           /\ exit' \notin {"none", "interrupted"} =>
                \/ probeRoot /\ failure = "evidence_error"
                \/ exit' = "raised" /\ (root' \/ probeRoot')]_vars
  <2> SUFFICES ASSUME IInv, [Next]_vars, Interrupted, ~UNCHANGED vars
               PROVE  /\ attempts' = attempts
                      /\ exit' \notin {"none", "interrupted"} =>
                           \/ probeRoot /\ failure = "evidence_error"
                           \/ exit' = "raised" /\ (root' \/ probeRoot')
    OBVIOUS
  <2>1. CASE Step
    <3>1. pc = "runner" => exit = "none"
      BY DEF IInv, TypeOK, PlainTypes
    <3>2. pc # "runner"
      BY <3>1 DEF IInv, InterruptInv, Interrupted
    <3> QED
      BY <2>1, <3>2, AttemptStep, FinalStep DEF IInv
  <2> QED
    BY <2>1 DEF Next, Done, Step
<1> QED
  BY <1>1, Inductive, PTL DEF Spec, InterruptIsFinal

(* The record of the run as its caller sees it.                            *)
RecordLeft ==
  IF at["recording"] = "ours" /\ at["evidence"] = "ours"
  THEN [kind |-> "pair", calls |-> Calls(artifact.codex.invocation)]
  ELSE IF at["diagnostic"] = "ours"
  THEN [kind |-> "diagnostic", calls |-> Calls(diagnostic.invocation)]
  ELSE [kind |-> "none", calls |-> 0]
IsOver == exit # "none"

(* Nothing is on record before the run is over, and what is on record then *)
(* has the number of calls.                                                *)
LEMMA RecordFacts ==
  ASSUME IInv
  PROVE  /\ IsOver = (pc = "ended")
         /\ ~IsOver => RecordLeft = [kind |-> "none", calls |-> 0]
         /\ \/ RecordLeft = [kind |-> "none", calls |-> 0]
            \/ \E kind \in {"pair", "diagnostic"} :
                 RecordLeft = [kind |-> kind, calls |-> attempts]
BY DEF IInv, TypeOK, PlainTypes, RecordInv, DiagnosticIsTruthful, RecordLeft, IsOver

(* run_live_codex implements what a Campaign relies on: one call at most,  *)
(* and one record at most, which counts it.                                *)
THEOREM KeepsThePromise == Spec => ImplementsPromise
<1>1. Init => Promise!Init
  BY DEF Init, Promise!Init, Promise!NoRecord, Paths
<1>2. IInv /\ IInv' /\ [Next]_vars => [Promise!Next]_(Promise!vars)
  <2> SUFFICES ASSUME IInv, IInv', [Next]_vars PROVE [Promise!Next]_(Promise!vars)
    OBVIOUS
  <2>1. CASE UNCHANGED vars
    BY <2>1 DEF vars, environment, evaluation, records, signals, Promise!vars
  <2>2. CASE Step
    <3>1. /\ ~IsOver /\ RecordLeft = [kind |-> "none", calls |-> 0]
          /\ attempts' # attempts => pc = "runner" /\ ~IsOver'
      BY <2>2, AttemptStep, RecordFacts DEF IInv, IsOver, TypeOK, PlainTypes
    <3>2. attempts' # attempts => attempts = 0 /\ attempts' = 1
      BY <3>1 DEF IInv, CallInv, BeforeCall
    <3>3. /\ ~IsOver' => RecordLeft' = [kind |-> "none", calls |-> 0]
          /\ \/ RecordLeft' = [kind |-> "none", calls |-> 0]
             \/ \E kind \in {"pair", "diagnostic"} :
                  RecordLeft' = [kind |-> kind, calls |-> attempts']
      BY RecordFacts DEF IInv, TypeOK, PlainTypes, RecordInv, DiagnosticIsTruthful,
         RecordLeft, IsOver
    <3>4. CASE attempts' # attempts
      BY <3>1, <3>2, <3>3, <3>4
      DEF Promise!Next, Promise!Call, Promise!NoRecord, RecordLeft, IsOver
    <3>5. CASE attempts' = attempts /\ ~IsOver'
      BY <3>1, <3>3, <3>5 DEF Promise!vars, RecordLeft, IsOver
    <3>6. CASE attempts' = attempts /\ IsOver'
      BY <3>1, <3>3, <3>6
      DEF Promise!Next, Promise!Publish, Promise!End, Promise!NoRecord, RecordLeft, IsOver
    <3> QED
      BY <3>4, <3>5, <3>6
  <2> QED
    BY <2>1, <2>2 DEF Next, Done, Step
<1> QED
  BY <1>1, <1>2, Inductive, PTL DEF Spec, ImplementsPromise, Promise!Spec

=============================================================================
