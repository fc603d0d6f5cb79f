------------------------------- MODULE LiveRun -------------------------------
(***************************************************************************)
(* run_live_codex (live.py): one Live run from the check of its inputs to  *)
(* the pair of Recording and Evidence, or to the Failure Diagnostic that   *)
(* stands in for a pair that may not be written. It owns the disposable    *)
(* Workspace and calls the preflight, the Codex runner and the gates, each *)
(* of which is here one step per call with the results its own model, or   *)
(* its contract, allows: CodexProcess, SafeRunner and PairPublication have *)
(* the steps within.                                                       *)
(*                                                                         *)
(* The environment changes the Fixture source, sets the wall clock back,   *)
(* and puts files of its own at the output paths; a file system call may   *)
(* fail anywhere, and Ctrl-C may fall into any step.                       *)
(***************************************************************************)
EXTENDS LiveContract, CodexResults, GateResults, FiniteSets

CONSTANTS
  Plan,            \* the kinds of the configured gate commands, in order
  MaxInterrupts    \* bound on Ctrl-C

Gates == {"acceptance", "regression", "lint", "typecheck"}

ASSUME PlanAssumption ==
  Plan \in Seq(Gates) /\ \E i \in DOMAIN Plan : Plan[i] = "acceptance"
ASSUME InterruptAssumption == MaxInterrupts \in Nat

VARIABLES
  \* The environment.
  sourceIntact,    \* the Fixture source still is what was validated
  clockRuns,       \* the wall clock has not been set back
  at,              \* what lies at each output path
  \* The run.
  pc, force,
  probe,           \* the preflight command under way and its verdict
  tracker,         \* CodexLifecycleTracker
  codex,           \* CodexExecutionEvidence, or NoEvidence
  commands,        \* CommandEvidence of the gates, in order
  gateResult,      \* GateExecutionResult: "none", or its harness_failure
  gateExecuted,    \* GateExecutionTracker
  diff, failure, workspace,
  withheld,        \* "none", or the LiveDiagnosticCode that forbids the pair
  artifact, diagnostic,
  exit,            \* "none" while the run goes on
  \* What really happened.
  root, probeRoot, \* the temporary directories exist
  attempts,        \* Provider processes the run tried to start
  launched,        \* gate commands that were started
  interrupts,      \* number of Ctrl-C so far
  interruptedAt    \* the step the last one fell into

environment == << sourceIntact, clockRuns, at >>
evaluation == << commands, gateResult, gateExecuted, diff, launched >>
records == << withheld, artifact, diagnostic >>
signals == << interrupts, interruptedAt >>
vars == << environment, pc, force, probe, tracker, codex, evaluation, failure, workspace,
           records, exit, root, probeRoot, attempts, signals >>

Paths == {"recording", "evidence", "diagnostic"}
NoEvidence == [kind |-> "absent"]
NoRecord == [kind |-> "absent"]
Steps == {"begin", "preflight", "probe", "probe_cleanup", "refused_preflight", "prepare",
          "environment", "runner", "gates", "gate", "diff", "remove", "conclude",
          "protect", "publish", "diagnose", "ended"}

Init ==
  /\ sourceIntact = TRUE /\ clockRuns = TRUE
  /\ at \in [Paths -> {"free", "other"}]
  /\ pc = "begin" /\ force \in BOOLEAN
  /\ probe = [command |-> "version", verdict |-> "none"]
  /\ tracker = [runner |-> "not_started", invocation |-> "not_attempted",
                cleanup |-> "not_applicable", stage |-> "preflight"]
  /\ codex = NoEvidence
  /\ commands = << >> /\ gateResult = "absent" /\ gateExecuted = FALSE
  /\ diff = "incomplete" /\ failure = "none" /\ workspace = "not_created"
  /\ withheld = "none" /\ artifact = NoRecord /\ diagnostic = NoRecord
  /\ exit = "none"
  /\ root = FALSE /\ probeRoot = FALSE /\ attempts = 0 /\ launched = 0
  /\ interrupts = 0 /\ interruptedAt = "nowhere"

Interrupted == interruptedAt # "nowhere"
Ends(how) == pc' = "ended" /\ exit' = how

-----------------------------------------------------------------------------
(* post_preflight_failure_evidence of run_live_codex.                      *)
PostPreflightEvidence(stage) ==
  Evidence("not_started", "preflight_completed", "not_attempted", stage, "evidence_error", TRUE)

\* Before started_at is set.
Untimed == {"provider_runner_construction", "provider_runner_entry",
            "provider_runtime_precheck"}

-----------------------------------------------------------------------------
(* The environment. A change counts where the run looks next.              *)

EnvironmentUnchanged ==
  UNCHANGED << pc, force, probe, tracker, codex, evaluation, failure, workspace, records,
               exit, root, probeRoot, attempts, signals >>

ChangeSource ==
  /\ pc \in {"prepare", "conclude"}
  /\ sourceIntact /\ sourceIntact' = FALSE
  /\ UNCHANGED << clockRuns, at >> /\ EnvironmentUnchanged

SetClockBack ==
  /\ pc \in {"runner", "refused_preflight", "conclude"}
  /\ clockRuns /\ clockRuns' = FALSE
  /\ UNCHANGED << sourceIntact, at >> /\ EnvironmentUnchanged

Intrude ==
  /\ pc \in {"publish", "diagnose"}
  /\ \E p \in Paths : at[p] = "free" /\ at' = [at EXCEPT ![p] = "other"]
  /\ UNCHANGED << sourceIntact, clockRuns >> /\ EnvironmentUnchanged

-----------------------------------------------------------------------------
(* Input checks and preflight.                                             *)

BeforeWorkspace ==
  UNCHANGED << environment, force, commands, gateResult, gateExecuted, launched, workspace,
               artifact, diagnostic, root, attempts, signals >>

(* A configuration error, or outputs in the way.                           *)
Refuse ==
  /\ pc = "begin"
  /\ Ends("refused")
  /\ UNCHANGED << probe, tracker, codex, diff, failure, withheld, probeRoot >>
  /\ BeforeWorkspace

Begin ==
  /\ pc = "begin"
  /\ ~force => at["recording"] = "free" /\ at["evidence"] = "free"
  /\ at["diagnostic"] = "free"
  /\ pc' = "preflight"
  /\ UNCHANGED << probe, tracker, codex, diff, failure, withheld, exit, probeRoot >>
  /\ BeforeWorkspace

(* except CodexPreflightError: nothing was created, the diff is empty.     *)
PreflightFails(kind) ==
  /\ failure' = kind /\ diff' = "complete"
  /\ \/ /\ Accepted(PreflightEvidence(kind))
        /\ codex' = PreflightEvidence(kind)
        /\ pc' = "refused_preflight" /\ UNCHANGED << tracker, withheld >>
     \/ /\ ~Accepted(PreflightEvidence(kind))
        /\ tracker' = [tracker EXCEPT !.stage = HandoffStage]
        /\ withheld' = "codex_evidence_validation_failed"
        /\ pc' = "diagnose" /\ UNCHANGED codex
  /\ UNCHANGED << probe, exit >>

(* No POSIX process groups, or no codex on PATH.                           *)
FindNoExecutable ==
  /\ pc = "preflight"
  /\ \E kind \in {"unsupported_platform", "provider_unavailable"} : PreflightFails(kind)
  /\ UNCHANGED probeRoot /\ BeforeWorkspace

FindExecutable ==
  /\ pc = "preflight"
  /\ pc' = "probe"
  /\ UNCHANGED << probe, tracker, codex, diff, failure, withheld, exit, probeRoot >>
  /\ BeforeWorkspace

(* One read-only command in a temporary root of its own. A version that is *)
(* not on the allow list and help without the flags are protocol errors.   *)
Verdicts(command) ==
  {"ok", "provider_protocol_error"} \cup HarnessKinds
  \cup (IF command = "version" THEN {"provider_unavailable"} ELSE {})

RunProbe ==
  /\ pc = "probe"
  /\ probeRoot' = TRUE
  /\ \E v \in Verdicts(probe.command) : probe' = [probe EXCEPT !.verdict = v]
  /\ pc' = "probe_cleanup"
  /\ UNCHANGED << tracker, codex, diff, failure, withheld, exit >> /\ BeforeWorkspace

ProbeHasNoRoot ==
  /\ pc = "probe"
  /\ PreflightFails("evidence_error")
  /\ UNCHANGED probeRoot /\ BeforeWorkspace

(* finally: the root is removed.                                           *)
RemoveProbeRoot ==
  /\ pc = "probe_cleanup"
  /\ probeRoot' = FALSE
  /\ \/ /\ Interrupted
        /\ Ends("interrupted")
        /\ UNCHANGED << probe, tracker, codex, diff, failure, withheld >>
     \/ /\ ~Interrupted /\ probe.verdict = "ok" /\ probe.command = "version"
        /\ probe' = [command |-> "help", verdict |-> "none"]
        /\ pc' = "probe"
        /\ UNCHANGED << tracker, codex, diff, failure, withheld, exit >>
     \/ /\ ~Interrupted /\ probe.verdict = "ok" /\ probe.command = "help"
        /\ tracker' = [tracker EXCEPT !.stage = "workspace_preparation"]
        /\ pc' = "prepare"
        /\ UNCHANGED << probe, codex, diff, failure, withheld, exit >>
     \/ ~Interrupted /\ probe.verdict # "ok" /\ PreflightFails(probe.verdict)
  /\ BeforeWorkspace

(* ... or cannot be, which replaces whatever was under way, Ctrl-C too.    *)
KeepProbeRoot_probesAgain ==
  /\ pc = "probe_cleanup"
  /\ probe' = [probe EXCEPT !.verdict = "none"]
  /\ pc' = "probe"
  /\ UNCHANGED << tracker, codex, diff, failure, withheld, exit, probeRoot >>
  /\ BeforeWorkspace

KeepProbeRoot ==
  /\ pc = "probe_cleanup"
  /\ PreflightFails(IF probe.verdict = "process_cleanup_error" THEN probe.verdict
                    ELSE "evidence_error")
  /\ UNCHANGED probeRoot /\ BeforeWorkspace

-----------------------------------------------------------------------------
(* The Workspace, the Provider and the gates.                              *)

InWorkspace ==
  UNCHANGED << environment, force, probe, artifact, diagnostic, exit, probeRoot, signals >>
GatesUntouched == UNCHANGED << evaluation >>

PrepareWorkspace ==
  /\ pc = "prepare" /\ sourceIntact
  /\ root' = TRUE
  /\ pc' = "environment"
  /\ UNCHANGED << tracker, codex, failure, workspace, withheld, attempts >>
  /\ InWorkspace /\ GatesUntouched

(* prepare_disposable_workspace removes what it has made when it fails, or *)
(* when the copy is not what was validated.                                *)
PrepareFails_notCreated ==
  /\ pc = "prepare"
  /\ root' \in BOOLEAN /\ workspace' = "not_created"
  /\ failure' = "evidence_error"
  /\ codex' = PostPreflightEvidence("workspace_preparation")
  /\ pc' = "conclude"
  /\ UNCHANGED << tracker, withheld, attempts >> /\ InWorkspace /\ GatesUntouched

PrepareFails ==
  /\ pc = "prepare"
  /\ \/ sourceIntact /\ root' = FALSE /\ workspace' = "not_created"
     \/ root' = FALSE /\ workspace' = "removed"
     \/ root' = TRUE /\ workspace' = "cleanup_failed"
  /\ failure' = "evidence_error"
  /\ codex' = PostPreflightEvidence("workspace_preparation")
  /\ pc' = "conclude"
  /\ UNCHANGED << tracker, withheld, attempts >> /\ InWorkspace /\ GatesUntouched

(* After an exception of a class it does not expect (RecursionError of     *)
(* shutil.copytree, say) what it has made stays, and the run knows of no   *)
(* Workspace to remove: `except Exception` of run_live_codex.              *)
PrepareEscapes ==
  /\ pc = "prepare"
  /\ root' \in BOOLEAN
  /\ failure' = "evidence_error"
  /\ tracker' = [tracker EXCEPT !.stage = "provider_orchestration"]
  /\ \/ /\ Accepted(LifecycleEvidence(tracker'))
        /\ codex' = LifecycleEvidence(tracker')
        /\ pc' = "conclude" /\ UNCHANGED withheld
     \/ /\ ~Accepted(LifecycleEvidence(tracker'))
        /\ withheld' = "lifecycle_fallback_evidence_validation_failed"
        /\ pc' = "diagnose" /\ UNCHANGED codex
  /\ UNCHANGED << workspace, attempts >> /\ InWorkspace /\ GatesUntouched

Enter(stage, next) == tracker' = [tracker EXCEPT !.stage = stage] /\ pc' = next

PrepareProviderEnvironment ==
  /\ pc = "environment"
  /\ \/ Enter("provider_runner_construction", "runner") /\ UNCHANGED codex
     \/ /\ Enter("provider_environment_directory_preparation", "diff")
        /\ codex' = PostPreflightEvidence("provider_environment_directory_preparation")
  /\ UNCHANGED << failure, workspace, withheld, root, attempts >>
  /\ InWorkspace /\ GatesUntouched

Calls(invocation) == IF invocation = "not_attempted" THEN 0 ELSE 1

ProviderStep ==
  UNCHANGED << failure, workspace, root >> /\ InWorkspace /\ GatesUntouched

ProviderReturns ==
  /\ pc = "runner"
  /\ \E e \in RunnerResults :
       /\ codex' = e
       /\ tracker' = Tracked(e.invocation, e.cleared, "provider_runner_result_extraction")
       /\ attempts' = attempts + Calls(e.invocation)
       /\ pc' = IF e.kind = "none" THEN "gates" ELSE "diff"
  /\ UNCHANGED withheld /\ ProviderStep

PlatformUnsupported ==
  /\ pc = "runner"
  /\ codex' = UnsupportedEvidence
  /\ tracker' = Tracked("not_attempted", TRUE, "provider_runtime_precheck")
  /\ pc' = "diff"
  /\ UNCHANGED << withheld, attempts >> /\ ProviderStep

(* The constructor of the runner raises, or run raises CodexRunnerError;   *)
(* what the tracker saw becomes the evidence, unless the runner's own      *)
(* evidence was refused or this one is.                                    *)
RunnerFails ==
  /\ pc = "runner"
  /\ \E t \in {tracker} \cup RunnerErrors \cup (IF clockRuns THEN {} ELSE ClockErrors) :
       /\ tracker' = t
       /\ attempts' = attempts + Calls(t.invocation)
       /\ \/ /\ t.stage = HandoffStage
             /\ withheld' = "codex_evidence_validation_failed"
             /\ pc' = "remove" /\ UNCHANGED codex
          \/ /\ t.stage # HandoffStage
             /\ ~Accepted(LifecycleEvidence(t)) \/ (~clockRuns /\ t.stage \notin Untimed)
             /\ withheld' = "lifecycle_fallback_evidence_validation_failed"
             /\ pc' = "remove" /\ UNCHANGED codex
          \/ /\ t.stage # HandoffStage /\ Accepted(LifecycleEvidence(t))
             /\ codex' = LifecycleEvidence(t)
             /\ pc' = "diff" /\ UNCHANGED withheld
  /\ ProviderStep

GateStep ==
  /\ UNCHANGED << tracker, codex, workspace, withheld, root, attempts >>
  /\ InWorkspace

PrepareGates ==
  /\ pc = "gates"
  /\ pc' = "gate"
  /\ UNCHANGED << evaluation, failure >> /\ GateStep

(* One command; the first harness failure ends the evaluation.             *)
RunGate ==
  /\ pc = "gate"
  /\ gateExecuted' = TRUE
  /\ \E r \in CommandResults :
       /\ launched' = IF r.status = "spawn_error" THEN launched ELSE launched + 1
       /\ commands' = Append(commands, [gate |-> Plan[Len(commands) + 1],
                                        status |-> r.status, cleared |-> r.cleared])
       /\ IF r.harness # "none" \/ Len(commands') = Len(Plan)
          THEN gateResult' = r.harness /\ pc' = "diff"
          ELSE UNCHANGED << gateResult, pc >>
  /\ UNCHANGED << diff, failure >> /\ GateStep

(* An exception out of the evaluation loses the commands and the diff.     *)
GatesFail_marksAfterwards ==
  /\ \/ pc = "gates" /\ UNCHANGED << gateExecuted, launched >>
     \/ pc = "gate" /\ UNCHANGED gateExecuted /\ launched' \in {launched, launched + 1}
  /\ commands' = << >> /\ failure' = "evidence_error"
  /\ pc' = "remove"
  /\ UNCHANGED << gateResult, diff >> /\ GateStep

GatesFail ==
  /\ \/ pc = "gates" /\ UNCHANGED << gateExecuted, launched >>
     \/ pc = "gate" /\ gateExecuted' = TRUE /\ launched' \in {launched, launched + 1}
  /\ commands' = << >> /\ failure' = "evidence_error"
  /\ pc' = "remove"
  /\ UNCHANGED << gateResult, diff >> /\ GateStep

(* Binary files make the line counts incomplete.                           *)
CollectDiff ==
  /\ pc = "diff"
  /\ \/ diff' \in {"complete", "incomplete"} /\ UNCHANGED failure
     \/ diff' = "incomplete" /\ failure' = "evidence_error"
  /\ pc' = "remove"
  /\ UNCHANGED << commands, gateResult, gateExecuted, launched >> /\ GateStep

(* finally: remove_disposable_workspace.                                   *)
RemoveWorkspace ==
  /\ pc = "remove"
  /\ \/ root' = FALSE /\ workspace' = "removed"
     \/ root' = root /\ workspace' = "cleanup_failed"
  /\ \/ Interrupted /\ Ends("interrupted")
     \/ ~Interrupted /\ withheld # "none" /\ pc' = "diagnose" /\ UNCHANGED exit
     \/ ~Interrupted /\ withheld = "none" /\ pc' = "conclude" /\ UNCHANGED exit
  /\ UNCHANGED << environment, force, probe, tracker, codex, evaluation, failure, records,
                  probeRoot, attempts, signals >>

-----------------------------------------------------------------------------
(* The verdict.                                                            *)

FailureAfterCleanup_forgetsWorkspace ==
  CASE codex.kind = "process_cleanup_error" -> "process_cleanup_error"
    [] OTHER -> IF failure = "none" THEN codex.kind ELSE failure

FailureAfterCleanup ==
  CASE codex.kind = "process_cleanup_error" -> "process_cleanup_error"
    [] codex.kind # "process_cleanup_error" /\ workspace = "cleanup_failed" -> "evidence_error"
    [] OTHER -> IF failure = "none" THEN codex.kind ELSE failure

FailureAfterGates ==
  IF FailureAfterCleanup = "none" /\ gateResult \notin {"absent", "none"}
  THEN "gate_harness_error" ELSE FailureAfterCleanup

FailureAfterDiff ==
  IF FailureAfterGates = "none" /\ diff # "complete" THEN "evidence_error" ELSE FailureAfterGates

FinalFailure_trustsSource == FailureAfterDiff

FinalFailure ==
  IF ~sourceIntact /\ codex.kind # "process_cleanup_error" THEN "evidence_error"
  ELSE FailureAfterDiff

HasVerdict ==
  /\ FinalFailure = "none" /\ codex.kind = "none" /\ gateResult # "absent"
  /\ diff = "complete" /\ workspace = "removed"

StatusOf(kind) ==
  CASE kind = "none" -> "passed"
    [] kind = "quality_gate_failure" -> "failed"
    [] kind \in ProviderKinds -> "provider_error"
    [] OTHER -> "harness_error"

(* _recording_and_artifact: both are built before either is written.       *)
BuildPair(kind, metrics) ==
  LET a == [codex |-> codex, commands |-> commands, diff |-> diff, workspace |-> workspace,
            metrics |-> metrics, kind |-> kind, status |-> StatusOf(kind)] IN
  \/ /\ RecordingAccepted(a) /\ ArtifactAccepted(a)
     /\ artifact' = a
     /\ pc' = "protect" /\ UNCHANGED withheld
  \/ /\ ~RecordingAccepted(a)
     /\ withheld' = "recording_construction_failed"
     /\ pc' = "diagnose" /\ UNCHANGED artifact
  \/ /\ RecordingAccepted(a) /\ (~ArtifactAccepted(a) \/ ~clockRuns)
     /\ withheld' = "live_artifact_construction_failed"
     /\ pc' = "diagnose" /\ UNCHANGED artifact

AfterWorkspace ==
  UNCHANGED << sourceIntact, clockRuns, force, probe, tracker, codex, evaluation, failure,
               workspace, root, probeRoot, attempts, signals >>

RecordPreflightFailure ==
  /\ pc = "refused_preflight"
  /\ BuildPair(failure, "none")
  /\ UNCHANGED << at, diagnostic, exit >> /\ AfterWorkspace

(* The Fixture source is read again, then the failure kinds are ranked.    *)
Conclude ==
  /\ pc = "conclude"
  /\ \/ HasVerdict /\ (\A c \in Elements(commands) : c.status = "passed")
        /\ BuildPair("none", "pass")
     \/ HasVerdict /\ (\E c \in Elements(commands) : c.status # "passed")
        /\ BuildPair("quality_gate_failure", "fail")
     \/ ~HasVerdict
        /\ BuildPair(IF FinalFailure = "none" THEN "evidence_error" ELSE FinalFailure, "none")
  /\ UNCHANGED << at, diagnostic, exit >> /\ AfterWorkspace

-----------------------------------------------------------------------------
(* Publication. PairPublication has the steps of write_live_outputs.       *)

(* protect_live_inputs once more; its LiveCodexError is nobody's to catch. *)
ProtectAgain ==
  /\ pc = "protect"
  /\ \/ pc' = "publish" /\ UNCHANGED exit
     \/ Ends("refused")
  /\ UNCHANGED << at, records >> /\ AfterWorkspace

Paired == [at EXCEPT !["recording"] = "ours", !["evidence"] = "ours"]
Half == [at EXCEPT !["recording"] = "ours"]
PathsAreFree == at["recording"] = "free" /\ at["evidence"] = "free"

PublishPair ==
  /\ pc = "publish"
  /\ \/ /\ force \/ PathsAreFree
        /\ at' = Paired /\ Ends("pair") /\ UNCHANGED withheld
     \/ /\ \/ at' = at                                   \* refused, or rolled back
           \/ (force \/ PathsAreFree) /\ at' = Half      \* the rollback failed
        /\ withheld' = "paired_output_publication_failed"
        /\ pc' = "diagnose" /\ UNCHANGED exit
  /\ UNCHANGED << artifact, diagnostic >> /\ AfterWorkspace

(* _diagnostic_from_lifecycle.                                             *)
Diagnosis ==
  LET cleanup == IF tracker.cleanup = "unobserved" THEN "unknown" ELSE tracker.cleanup IN
  [code |-> withheld, stage |-> tracker.stage, runner |-> tracker.runner,
   invocation |-> tracker.invocation, cleanup |-> cleanup, workspace |-> workspace,
   gates |-> gateExecuted, determined |-> cleanup # "unknown",
   kind |-> IF cleanup = "failed" THEN "process_cleanup_error" ELSE "evidence_error"]

(* _publish_failure_diagnostic_and_raise: never beside a Recording or an   *)
(* Evidence, and never over another file.                                  *)
Diagnose ==
  /\ pc = "diagnose"
  /\ \/ /\ PathsAreFree /\ DiagnosticAccepted(Diagnosis)
        /\ at["diagnostic"] = "free"
        /\ at' = [at EXCEPT !["diagnostic"] = "ours"]
        /\ diagnostic' = Diagnosis /\ Ends("diagnostic_created")
     \/ Ends("diagnostic_failed") /\ UNCHANGED << at, diagnostic >>
  /\ UNCHANGED << withheld, artifact >> /\ AfterWorkspace

-----------------------------------------------------------------------------
(* An exception nothing handles: anything but an OSError out of the        *)
(* removal of a temporary root, where it takes the place of a Ctrl-C, or   *)
(* out of the preflight; out of the second look at the Fixture source      *)
(* anything but a SnapshotError; an Evidence that cannot be serialised. It *)
(* goes to the caller as it is, and no record is written.                  *)
RaiseUnhandled ==
  /\ pc \in {"probe_cleanup", "remove", "conclude", "publish"}
  /\ Ends("raised")
  /\ probeRoot' \in IF pc = "probe_cleanup" /\ ~Interrupted THEN BOOLEAN ELSE {probeRoot}
  /\ UNCHANGED << environment, force, probe, tracker, codex, evaluation, failure, workspace,
                  records, root, attempts, signals >>

-----------------------------------------------------------------------------
(* KeyboardInterrupt. In the Workspace it goes through the finally block;  *)
(* nowhere else does anything catch it.                                    *)

InterruptOutside ==
  \/ /\ pc \in {"begin", "preflight", "refused_preflight", "conclude", "protect"}
     /\ UNCHANGED << at, diagnostic, root, probeRoot >>
  \/ pc = "probe" /\ UNCHANGED << at, diagnostic, root, probeRoot >>
  \/ pc = "probe_cleanup" /\ probeRoot' \in BOOLEAN /\ UNCHANGED << at, diagnostic, root >>
  \/ pc = "prepare" /\ root' \in BOOLEAN /\ UNCHANGED << at, diagnostic, probeRoot >>
  \/ pc = "remove" /\ root' \in {root, FALSE} /\ UNCHANGED << at, diagnostic, probeRoot >>
  \/ /\ pc = "publish"
     /\ at' \in {at} \cup (IF force \/ PathsAreFree THEN {Half, Paired} ELSE {})
     /\ UNCHANGED << diagnostic, root, probeRoot >>
  \/ /\ pc = "diagnose"
     /\ \/ UNCHANGED << at, diagnostic >>
        \/ /\ PathsAreFree /\ at["diagnostic"] = "free"
           /\ at' = [at EXCEPT !["diagnostic"] = "ours"] /\ diagnostic' = Diagnosis
     /\ UNCHANGED << root, probeRoot >>

InterruptWithin_goesOn ==
  \/ /\ pc = "probe" /\ pc' = "probe_cleanup"
     /\ probeRoot' = TRUE /\ UNCHANGED << attempts, gateExecuted, launched >>
  \/ /\ pc = "environment" /\ pc' = "runner"
     /\ UNCHANGED << probeRoot, attempts, gateExecuted, launched >>

InterruptWithin ==
  \/ /\ pc = "probe" /\ pc' = "probe_cleanup"
     /\ probeRoot' = TRUE /\ UNCHANGED << attempts, gateExecuted, launched >>
  \/ /\ pc \in {"environment", "gates", "diff"} /\ pc' = "remove"
     /\ UNCHANGED << probeRoot, attempts, gateExecuted, launched >>
  \/ /\ pc = "runner" /\ pc' = "remove"
     /\ attempts' \in {attempts, attempts + 1}
     /\ UNCHANGED << probeRoot, gateExecuted, launched >>
  \/ /\ pc = "gate" /\ pc' = "remove"
     /\ gateExecuted' = TRUE /\ launched' \in {launched, launched + 1}
     /\ UNCHANGED << probeRoot, attempts >>

Interrupt ==
  /\ interrupts < MaxInterrupts
  /\ interrupts' = interrupts + 1 /\ interruptedAt' = pc
  /\ \/ InterruptOutside /\ Ends("interrupted") /\ UNCHANGED << attempts, gateExecuted, launched >>
     \/ InterruptWithin /\ UNCHANGED << exit, at, diagnostic, root >>
  /\ UNCHANGED << sourceIntact, clockRuns, force, probe, tracker, codex, commands, gateResult,
                  diff, failure, workspace, withheld, artifact >>

RunStep ==
  \/ Refuse \/ Begin \/ FindNoExecutable \/ FindExecutable
  \/ RunProbe \/ ProbeHasNoRoot \/ RemoveProbeRoot \/ KeepProbeRoot
  \/ PrepareWorkspace \/ PrepareFails \/ PrepareEscapes \/ PrepareProviderEnvironment
  \/ ProviderReturns \/ PlatformUnsupported \/ RunnerFails
  \/ PrepareGates \/ RunGate \/ GatesFail \/ CollectDiff \/ RemoveWorkspace
  \/ RecordPreflightFailure \/ Conclude
  \/ ProtectAgain \/ PublishPair \/ Diagnose \/ RaiseUnhandled

Done == pc = "ended" /\ UNCHANGED vars

Next == RunStep \/ ChangeSource \/ SetClockBack \/ Intrude \/ Interrupt \/ Done

Spec == Init /\ [][Next]_vars

(* The run is one thread that nothing suspends for ever: the Codex runner  *)
(* and the Safe Runner always come back (RunEnds of CodexProcess and of    *)
(* SafeRunner).                                                            *)
FairSpec == Spec /\ WF_vars(RunStep)

-----------------------------------------------------------------------------
(* Properties.                                                             *)

(* A quality verdict is earned: when run_live_codex decides on passed or   *)
(* failed, the Fixture source is what was validated, the Workspace is      *)
(* gone, the Provider was started once, every configured command ran to    *)
(* its own end and left no process, and passed means that all of them did. *)
QualityVerdictIsEarned ==
  [][artifact' # artifact /\ artifact'.status \in QualityStatuses =>
       /\ sourceIntact /\ ~root /\ attempts = 1
       /\ launched = Len(Plan) /\ [i \in DOMAIN commands |-> commands[i].gate] = Plan
       /\ \A c \in Elements(commands) : Normal(c)
       /\ (artifact'.status = "passed") = (\A c \in Elements(commands) : c.status = "passed")
    ]_vars

ConstructionCodes ==
  {"codex_evidence_validation_failed", "lifecycle_fallback_evidence_validation_failed",
   "recording_construction_failed", "live_artifact_construction_failed"}
CommandLeftItsGroup == \E c \in Elements(commands) : c.status \in Completed /\ ~c.cleared

(* The code never builds what its strict models refuse, with a clock that  *)
(* goes forward and two exceptions: a gate command that ended by itself    *)
(* and whose process group could not be cleared, and an exception in the   *)
(* termination of a Provider that had timed out.                           *)
PairIsBuiltOrExplained ==
  withheld \in ConstructionCodes /\ clockRuns =>
    CommandLeftItsGroup \/ tracker = StaleTimeout

(* The preparation of the Workspace ended in an exception nobody expected: *)
(* the run believes there is none. The records name the stage.             *)
MayBeOrphaned == tracker.stage = "provider_orchestration"

(* A Failure Diagnostic is true of the run it stands for: whether the      *)
(* Provider was called, whether its group remained, whether gates ran, and *)
(* what became of the Workspace, unless it gives provider_orchestration as *)
(* the stage; and no pair of this run lies beside it.                      *)
DiagnosticIsTruthful ==
  at["diagnostic"] = "ours" =>
    /\ DiagnosticAccepted(diagnostic)
    /\ Calls(diagnostic.invocation) = attempts
    /\ launched > 0 => diagnostic.gates
    /\ diagnostic.gates => codex.kind = "none" /\ diagnostic.cleanup = "cleared"
    /\ diagnostic.stage # "provider_orchestration" =>
         root = (diagnostic.workspace = "cleanup_failed")
    /\ at["recording"] # "ours" /\ at["evidence"] # "ours"

(* A Workspace that is still there when the run is over is on record: the  *)
(* Evidence, under the status harness_error, or the Diagnostic calls it    *)
(* cleanup_failed, or else the LiveDiagnosticPublicationError does. Nobody *)
(* is told of it after an exception the preparation did not expect, and    *)
(* when the run leaves no record because its outputs were refused after    *)
(* the removal had failed, Ctrl-C ended it, or an exception out of the     *)
(* removal did.                                                            *)
WorkspaceAccounted ==
  exit # "none" /\ root =>
    \/ /\ at["evidence"] = "ours"
       /\ artifact.workspace = "cleanup_failed" /\ artifact.status = "harness_error"
    \/ at["diagnostic"] = "ours" /\ diagnostic.workspace = "cleanup_failed"
    \/ exit = "diagnostic_failed" /\ workspace = "cleanup_failed"
    \/ MayBeOrphaned
    \/ /\ at["evidence"] # "ours" /\ at["diagnostic"] # "ours"
       /\ \/ exit \in {"refused", "interrupted"} /\ workspace = "cleanup_failed"
          \/ exit = "interrupted" /\ interruptedAt \in {"prepare", "remove"}
          \/ exit = "raised"

(* After Ctrl-C the Provider is not called any more and the run ends as    *)
(* interrupted, except when a preflight root cannot be removed, and Ctrl-C *)
(* becomes an ordinary preflight failure, or when the removal of a root    *)
(* raises an exception nobody handles.                                     *)
InterruptIsFinal ==
  [][Interrupted =>
       /\ attempts' = attempts
       /\ exit' \notin {"none", "interrupted"} =>
            \/ probeRoot /\ failure = "evidence_error"
            \/ exit' = "raised" /\ (root' \/ probeRoot')]_vars

Promise == INSTANCE LivePromise WITH
  calls <- attempts,
  record <-
    IF at["recording"] = "ours" /\ at["evidence"] = "ours"
    THEN [kind |-> "pair", calls |-> Calls(artifact.codex.invocation)]
    ELSE IF at["diagnostic"] = "ours"
    THEN [kind |-> "diagnostic", calls |-> Calls(diagnostic.invocation)]
    ELSE [kind |-> "none", calls |-> 0],
  over <- exit # "none"

(* run_live_codex keeps the promise of LivePromise.                        *)
ImplementsPromise == Promise!Spec

(* Every run ends, whatever fails in it.                                   *)
RunEnds == <>(exit # "none")
=============================================================================
