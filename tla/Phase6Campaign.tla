---------------------------- MODULE Phase6Campaign ----------------------------
(***************************************************************************)
(* run_phase6_campaign (phase6_campaign.py): the preregistered Campaign of *)
(* one language. Every run of the Plan is executed inside the loop itself  *)
(* - Workspace, Codex, output policy, gates, verdict, removal - and leaves *)
(* a pair of Recording and Artifact before its terminal line is appended   *)
(* to the Campaign file. Every record is built under the strict contracts  *)
(* of Phase6Contract, so a combination they refuse ends the Campaign in    *)
(* the middle.                                                             *)
(*                                                                         *)
(* pc names the next statement; a step ends where the program calls the    *)
(* file system, the Provider or a gate command. The environment sets the   *)
(* wall clock back, lets a write return short, changes the inputs and the  *)
(* Workspace, and sends Ctrl-C or kills the process anywhere.              *)
(***************************************************************************)
EXTENDS Phase6Report, CodexResults, GateResults

CONSTANTS
  Gates,           \* kinds of the gate commands, in order
  Policies,        \* the stop conditions a Spec may have
  ResultKinds,     \* the failure kinds the Codex runner returns
  MaxInvocations,  \* bound on run-phase6-campaign invocations on one path
  MaxDisturbances  \* bound on settings back of the clock, short writes and changes of the
                   \* Workspace behind the harness, together

ASSUME GatesAssumption ==
  Gates \in Seq({"acceptance", "regression", "lint", "typecheck"}) /\ Gates # << >>
  /\ Gates[1] = "acceptance"
ASSUME PoliciesAssumption ==
  Policies \subseteq [failFast : BOOLEAN, maxFailures : 0 .. RunCount]
ASSUME ResultKindsAssumption == "none" \in ResultKinds /\ ResultKinds \subseteq Kinds
ASSUME BoundsAssumption ==
  MaxInvocations \in Nat /\ MaxDisturbances \in Nat

VARIABLES
  log,             \* the Campaign file
  pairs,           \* pairs[r]: the published Recording and Artifact of run r
  \* The environment.
  policy,          \* spec.stop_conditions
  clock,           \* the wall clock: 0 after it was set back, 1 otherwise
  shortWrites, invocations,
  tree, lateWrites,\* version of the Workspace contents, fresh at every change
  \* Locals of run_phase6_campaign.
  pc, index, nextIndex, sequence, attempted, calls, failures, stop,
  run,             \* the locals of the loop body
  \* What really happened.
  called,          \* called[r]: Provider processes started for run r
  left             \* what earlier work left behind: Workspaces, process groups

files == << log, pairs >>
bounds == << shortWrites, invocations, lateWrites >>
world == << policy, clock, bounds >>
counters == << index, nextIndex, sequence, attempted, calls, failures, stop >>
ghosts == << called, left >>
vars == << files, world, tree, pc, counters, run, ghosts >>

-----------------------------------------------------------------------------
Undisturbed == (1 - clock) + shortWrites + lateWrites < MaxDisturbances

NoCodex == [kind |-> "absent"]

(* What the Campaign reads of a CodexExecutionEvidence.                    *)
Summary(e) ==
  [kind |-> e.kind, execution |-> e.execution, invocation |-> e.invocation,
   cleanup |-> e.cleanup, cleared |-> e.cleared,
   stage |-> IF e.stage = "provider_runtime_precheck" THEN e.stage ELSE "other"]

(* The defaults at the top of the loop body.                               *)
FreshRun ==
  [codex |-> NoCodex, commands |-> << >>, metrics |-> "none", diff |-> "incomplete",
   overall |-> "harness_error", kind |-> "evidence_error", outcome |-> "harness_failure",
   reason |-> "pre_gate_harness_failure", workspace |-> "not_created", counted |-> FALSE,
   harness |-> "none", gateError |-> FALSE,
   began |-> clock, codexBegan |-> 0, codexEnded |-> 0, gateBegan |-> 0,
   inOrder |-> TRUE, gatesEnded |-> 0, ended |-> 0,
   \* not in the program: versions of the tree, gate commands launched
   secureAt |-> 0, diffAt |-> 0, gatesAt |-> {}, launched |-> 0]

InTry == {"prepare", "provider", "running", "after_failure", "judge", "diff",
          "prepare_gates", "gate", "gate_running", "after_gates"}
HasWorkspace == (InTry \ {"prepare"}) \cup {"remove", "abandon"}
Appending == {"create", "append_started", "append_terminal", "tail"}
Locations == {"idle", "check", "write", "stop_check", "reload"} \cup InTry \cup HasWorkspace
             \cup Appending

Init ==
  /\ log = << >> /\ pairs = [r \in Runs |-> NoPair]
  /\ policy \in Policies
  /\ clock = 1
  /\ shortWrites = 0 /\ invocations = 0 /\ lateWrites = 0 /\ tree = 0
  /\ pc = "idle"
  /\ index = 1 /\ nextIndex = 1 /\ sequence = 0 /\ attempted = 0 /\ calls = 0 /\ failures = 0
  /\ stop = "none" /\ run = FreshRun
  /\ called = [r \in Runs |-> 0] /\ left = {}

(* The invocation ends; its locals are gone.                               *)
Leave ==
  /\ pc' = "idle"
  /\ index' = 1 /\ nextIndex' = 1 /\ sequence' = 0 /\ attempted' = 0 /\ calls' = 0
  /\ failures' = 0 /\ stop' = "none" /\ run' = [FreshRun EXCEPT !.began = 0]
  /\ tree' = 0

Goto(next) == pc' = next
RunStep == UNCHANGED << files, world, counters >>

-----------------------------------------------------------------------------
(* Confirmations, inputs, reservations; then the Campaign file.            *)

Invoke ==
  /\ pc = "idle" /\ invocations < MaxInvocations
  /\ invocations' = invocations + 1
  /\ pc' = "create"
  /\ UNCHANGED << files, policy, clock, shortWrites, tree, lateWrites,
                  counters, run, ghosts >>

(* An input, a reservation or the Campaign path is refused.                *)
Refuse ==
  /\ pc = "create"
  /\ Leave
  /\ UNCHANGED << files, world, ghosts >>

(* _append_event: os.open, one os.write, fsync. A short write is not       *)
(* noticed.                                                                *)
AppendEvent(e) ==
  \/ log' = Append(log, e) /\ UNCHANGED shortWrites
  \/ /\ Undisturbed
     /\ shortWrites' = shortWrites + 1
     /\ log' = Append(log, TornLine)

AppendStep ==
  UNCHANGED << pairs, policy, clock, invocations, lateWrites,
               ghosts >>

(* Mutant: without O_EXCL.                                                 *)
CreateCampaign_appends ==
  /\ pc = "create"
  /\ AppendEvent(CampaignStarted(clock))
  /\ Goto("check")
  /\ AppendStep /\ UNCHANGED << counters, run, tree >>

(* os.path.lexists, then O_CREAT | O_EXCL.                                 *)
CreateCampaign ==
  /\ pc = "create" /\ log = << >>
  /\ AppendEvent(CampaignStarted(clock))
  /\ Goto("check")
  /\ AppendStep /\ UNCHANGED << counters, run, tree >>

-----------------------------------------------------------------------------
(* The loop over plan.runs.                                                *)

(* revalidate_plan_bound_inputs accepts.                                   *)
BeginRun ==
  /\ pc = "check" /\ index <= RunCount
  /\ nextIndex' = index
  /\ Goto("append_started")
  /\ UNCHANGED << files, world, tree, index, sequence, attempted, calls, failures, stop, run,
                  ghosts >>

(* Any exception out of it.                                                *)
StopForChangedInput ==
  /\ pc = "check" /\ index <= RunCount
  /\ nextIndex' = index /\ stop' = "input_changed"
  /\ Goto("tail")
  /\ UNCHANGED << files, world, tree, index, sequence, attempted, calls, failures, run,
                  ghosts >>

LoopEnds ==
  /\ pc = "check" /\ index > RunCount
  /\ Goto("tail")
  /\ UNCHANGED << files, world, tree, counters, run, ghosts >>

(* Mutant: the line is written with the outcome of the run only.           *)
AppendStarted_skipped ==
  /\ pc = "append_started"
  /\ attempted' = attempted + 1
  /\ run' = FreshRun
  /\ Goto("prepare")
  /\ UNCHANGED << log, shortWrites, tree, index, nextIndex, sequence, calls, failures, stop >>
  /\ AppendStep

AppendStarted ==
  /\ pc = "append_started"
  /\ sequence' = sequence + 1 /\ attempted' = attempted + 1
  /\ AppendEvent(StartedEvent(sequence', index, clock))
  /\ run' = FreshRun
  /\ Goto("prepare")
  /\ AppendStep /\ UNCHANGED << tree, index, nextIndex, calls, failures, stop >>

PrepareWorkspace ==
  /\ pc = "prepare"
  /\ run' = [run EXCEPT !.workspace = "removed"]
  /\ Goto("provider")
  /\ RunStep /\ UNCHANGED << tree, ghosts >>

(* It cleans up what it made, cannot, or does not (workspace.py handles    *)
(* three classes of exceptions); no handler of the loop takes it.          *)
PrepareFails ==
  /\ pc = "prepare"
  /\ left' \in {left, left \cup {"workspace"}}
  /\ Leave
  /\ UNCHANGED << files, world, called >>

-----------------------------------------------------------------------------
(* execute_real_codex_provider.                                            *)

(* What the caller of the Provider gets, and what it did.                  *)
Receive(e, began, next) ==
  /\ run' = [run EXCEPT !.codex = Summary(e), !.codexBegan = began, !.codexEnded = clock]
  /\ calls' = calls + (IF e.execution = "provider_invocation_attempted" THEN 1 ELSE 0)
  /\ left' = left \cup (IF e.cleared THEN {} ELSE {"provider group"})
  /\ called' = [called EXCEPT ![index] = @ + (IF e.invocation = "not_attempted" THEN 0 ELSE 1)]
  /\ Goto(next)
  /\ UNCHANGED << files, world, tree, index, nextIndex, sequence, attempted, failures, stop >>

(* No evidence: codex is None where the exception is handled.              *)
Abandon(invocation, cleared) ==
  /\ called' = [called EXCEPT ![index] = @ + (IF invocation = "not_attempted" THEN 0 ELSE 1)]
  /\ left' = left \cup (IF cleared THEN {} ELSE {"provider group"})
  /\ Goto("abandon")
  /\ RunStep /\ UNCHANGED << tree, run >>

PreflightKinds ==
  {"unsupported_platform", "provider_unavailable", "provider_protocol_error",
   "evidence_error", "process_cleanup_error"}

PreflightFails ==
  /\ pc = "provider"
  /\ \E k \in PreflightKinds : LET e == PreflightEvidence(k) IN
       \/ Accepted(e) /\ Receive(e, clock, "after_failure")
       \/ ~Accepted(e) /\ Abandon("not_attempted", TRUE)

(* Any other exception of the preflight, the runner's constructor or the   *)
(* mkdir of the Provider environment.                                      *)
ProviderRaises == pc = "provider" /\ Abandon("not_attempted", TRUE)

InvokeProvider ==
  /\ pc = "provider"
  /\ run' = [run EXCEPT !.codexBegan = clock]
  /\ Goto("running")
  /\ RunStep /\ UNCHANGED << tree, ghosts >>

ProviderReturns ==
  /\ pc = "running" /\ clock >= run.codexBegan
  /\ \E e \in {x \in RunnerResults : x.kind \in ResultKinds} :
       Receive(e, run.codexBegan, IF e.kind = "none" THEN "judge" ELSE "after_failure")

PlatformUnsupported ==
  /\ pc = "running"
  /\ Receive(UnsupportedEvidence, clock, "after_failure")

(* CodexRunnerError. Evidence of a stage that is timed needs a clock that  *)
(* was not set back.                                                       *)
UntimedStages == {"provider_runner_entry", "provider_runtime_precheck"}
RunnerFails ==
  /\ pc = "running"
  /\ \E t \in RunnerErrors \cup (IF clock < run.codexBegan THEN ClockErrors ELSE {}) :
       LET e == LifecycleEvidence(t)
           fits == Accepted(e) /\ (clock >= run.codexBegan \/ t.stage \in UntimedStages) IN
       \/ /\ fits
          /\ Receive(e, IF t.stage \in UntimedStages THEN clock ELSE run.codexBegan,
                     "after_failure")
       \/ ~fits /\ Abandon(t.invocation, t.cleanup # "failed")

(* finally, then the exception leaves run_phase6_campaign. So does one out *)
(* of the removal itself, which hands over OSErrors only: the verdict is   *)
(* lost with it.                                                           *)
AbandonRun ==
  /\ pc \in {"abandon", "remove"}
  /\ left' \in {left, left \cup {"workspace"}}
  /\ Leave
  /\ UNCHANGED << files, world, called >>

-----------------------------------------------------------------------------
(* The verdict of one run.                                                 *)

Judged(overall, kind, outcome, reason) ==
  [run EXCEPT !.overall = overall, !.kind = kind, !.outcome = outcome, !.reason = reason,
              !.counted = outcome \in CountedOutcomes]

(* Mutant: an evidence failure of the runner is the Provider's.            *)
ProviderTerminal_blamesProvider(kind) ==
  CASE kind = "process_cleanup_error" ->
         Judged("harness_error", kind, "cleanup_failure", "pre_gate_harness_failure")
    [] kind = "unsupported_platform" ->
         Judged("harness_error", kind, "harness_failure", "pre_gate_harness_failure")
    [] kind = "provider_timeout" ->
         Judged("provider_error", kind, "provider_timeout", "provider_timeout")
    [] OTHER -> Judged("provider_error", kind, "provider_failure", "provider_failure")

(* _provider_terminal.                                                     *)
ProviderTerminal(kind) ==
  CASE kind = "process_cleanup_error" ->
         Judged("harness_error", kind, "cleanup_failure", "pre_gate_harness_failure")
    [] kind \in {"unsupported_platform", "evidence_error"} ->
         Judged("harness_error", kind, "harness_failure", "pre_gate_harness_failure")
    [] kind = "provider_timeout" ->
         Judged("provider_error", kind, "provider_timeout", "provider_timeout")
    [] OTHER -> Judged("provider_error", kind, "provider_failure", "provider_failure")

(* except Exception of the loop body, with evidence of the Provider.       *)
PostCodexFailure(commands) ==
  LET abnormal == \E c \in Elements(commands) : ~Normal(c) IN
  [Judged("harness_error", IF abnormal THEN "gate_harness_error" ELSE "evidence_error",
          "harness_failure",
          IF commands # << >> THEN "none" ELSE "pre_gate_harness_failure")
   EXCEPT !.diff = "incomplete", !.commands = commands, !.metrics = "none",
          !.gateError = FALSE]

InWorkspace == RunStep /\ UNCHANGED << tree, ghosts >>

(* An exception out of the diff that is no SnapshotError (a tree too deep  *)
(* to walk, no memory) reaches the handler of the loop body, which writes  *)
(* its own verdict over the Provider's.                                    *)
AfterFailure ==
  /\ pc = "after_failure"
  /\ \/ \E d \in {"complete", "binary", "incomplete"} :
          run' = [ProviderTerminal(run.codex.kind) EXCEPT !.diff = d]
     \/ run' = PostCodexFailure(<< >>)
  /\ Goto("remove")
  /\ InWorkspace

(* secure_tree_snapshot; its own read errors are FixtureAcceptanceErrors   *)
(* too and reject the output.                                              *)
Rejected ==
  Judged("rejected", "output_contract_violation", "output_contract_violation",
         "output_contract_violation")

JudgeOutput ==
  /\ pc = "judge"
  /\ \/ run' = [run EXCEPT !.secureAt = tree] /\ Goto("diff")
     \/ run' = [Rejected EXCEPT !.diff = "rejected"] /\ Goto("remove")
     \/ run' = PostCodexFailure(<< >>) /\ Goto("remove") \* any other exception
  /\ InWorkspace

(* snapshot_directory and _validate_workspace_policy.                      *)
CollectDiff ==
  /\ pc = "diff"
  /\ \/ run' = run /\ Goto("remove")                    \* any exception
     \/ \E d \in {"complete", "binary"} :
          \/ run' = [Rejected EXCEPT !.diff = d] /\ Goto("remove")
          \/ run' = [run EXCEPT !.diff = d, !.diffAt = tree] /\ Goto("prepare_gates")
  /\ InWorkspace

PrepareGates ==
  /\ pc = "prepare_gates"
  /\ \/ UNCHANGED run /\ Goto("gate")
     \/ run' = PostCodexFailure(<< >>) /\ Goto("remove")
  /\ InWorkspace

-----------------------------------------------------------------------------
(* _run_gates. Its list of commands is lost with any exception.            *)

Collect(r, harness, toolchain) ==
  [r EXCEPT !.harness = harness, !.gateError = toolchain,
            !.diff = IF toolchain THEN "incomplete" ELSE @]

StartGate ==
  /\ pc = "gate"
  /\ run' = [run EXCEPT !.gateBegan = clock, !.launched = @ + 1, !.gatesAt = @ \cup {tree}]
  /\ Goto("gate_running")
  /\ InWorkspace

(* The toolchain has changed; or the command cannot be prepared.           *)
GateNotStarted ==
  /\ pc = "gate"
  /\ \/ run' = Collect(run, "evidence_error", TRUE) /\ Goto("after_gates")
     \/ run' = PostCodexFailure(<< >>) /\ Goto("remove")
  /\ InWorkspace

(* runner.run returns and the toolchain is verified once more. A command   *)
(* that did not end by itself is the last one.                             *)
GateEnds ==
  /\ pc = "gate_running"
  /\ tree' \in {tree, tree + 1}                          \* the command may change it
  /\ \E c \in CommandResults :
       LET command == [gate |-> Gates[Len(run.commands) + 1], status |-> c.status,
                       cleared |-> c.cleared]
           recorded == [run EXCEPT !.commands = Append(@, command),
                                   !.inOrder = @ /\ run.codexEnded <= run.gateBegan,
                                   !.gatesEnded = clock]
           last == Len(recorded.commands) = Len(Gates) IN
       /\ left' = left \cup (IF c.cleared THEN {} ELSE {"gate group"})
       /\ \/ /\ clock < run.gateBegan                     \* CommandEvidence is refused
             /\ run' = PostCodexFailure(<< >>) /\ Goto("remove")
          \/ /\ clock >= run.gateBegan                    \* the toolchain has changed
             /\ run' = Collect(recorded,
                               IF c.harness = "none" THEN "evidence_error" ELSE c.harness, TRUE)
             /\ Goto("after_gates")
          \/ /\ clock >= run.gateBegan /\ (c.harness # "none" \/ c.status \notin Completed)
             /\ run' = Collect(recorded,
                               IF c.harness = "none" THEN "evidence_error" ELSE c.harness, FALSE)
             /\ Goto("after_gates")
          \/ /\ clock >= run.gateBegan /\ c.harness = "none" /\ c.status \in Completed
             /\ run' = recorded /\ Goto(IF last THEN "after_gates" ELSE "gate")
  /\ UNCHANGED called
  /\ RunStep

-----------------------------------------------------------------------------
(* The Workspace has to be what the Provider left; then the verdict.       *)

Verified == run.secureAt = tree

HarnessVerdict(r) ==
  LET abnormal == \E c \in Elements(r.commands) : ~Normal(c)
      reason == IF r.commands # << >> THEN "none" ELSE "pre_gate_harness_failure" IN
  CASE r.harness = "process_cleanup_error" ->
         Judged("harness_error", "process_cleanup_error", "cleanup_failure", reason)
    [] r.harness # "process_cleanup_error" /\ abnormal ->
         Judged("harness_error", "gate_harness_error", "harness_failure", reason)
    [] OTHER ->
         [Judged("harness_error", "evidence_error", "harness_failure", reason)
          EXCEPT !.diff = "incomplete"]

QualityVerdict ==
  LET passed == \A c \in Elements(run.commands) : c.status = "passed" IN
  [IF passed THEN Judged("passed", "none", "success", "none")
   ELSE Judged("failed", "quality_gate_failure", "quality_gate_failure", "none")
   EXCEPT !.metrics = IF passed THEN "pass" ELSE "fail"]

(* Mutant: the gates may have changed what they judged.                    *)
Conclude_trustsGates ==
  /\ pc = "after_gates"
  /\ run' = IF run.harness # "none" THEN HarnessVerdict(run)
            ELSE IF run.diff = "binary" THEN PostCodexFailure(run.commands)
            ELSE QualityVerdict
  /\ Goto("remove")
  /\ InWorkspace

(* _metrics asserts the line counts a binary diff has not got; the         *)
(* snapshot can also raise what its handlers do not take.                  *)
Conclude ==
  /\ pc = "after_gates"
  /\ \/ run' = PostCodexFailure(run.commands)
     \/ \E verified \in {Verified, FALSE} :
          LET diff == IF verified THEN run.diff ELSE "incomplete" IN
          run' = IF run.harness # "none"
                 THEN [HarnessVerdict(run) EXCEPT
                         !.diff = IF @ = "incomplete" THEN @ ELSE diff]
                 ELSE IF ~verified
                 THEN [Judged("harness_error", "evidence_error", "harness_failure", "none")
                       EXCEPT !.diff = diff]
                 ELSE IF run.diff = "binary" THEN PostCodexFailure(run.commands)
                 ELSE QualityVerdict
  /\ Goto("remove")
  /\ InWorkspace

(* Mutant: a Workspace that cannot be removed does not matter.             *)
RemoveWorkspace_unnoticed ==
  /\ pc = "remove"
  /\ \E removed \in BOOLEAN :
       /\ left' = left \cup (IF removed THEN {} ELSE {"workspace"})
       /\ run' = IF \/ run.codex.cleanup = "failed" \/ ~run.codex.cleared
                    \/ run.harness = "process_cleanup_error"
                 THEN [Judged("harness_error", "process_cleanup_error", "cleanup_failure",
                              IF run.commands # << >> THEN "none" ELSE "pre_gate_harness_failure")
                       EXCEPT !.metrics = "none"]
                 ELSE run
  /\ tree' = 0
  /\ Goto("write")
  /\ RunStep /\ UNCHANGED called

(* finally: remove_disposable_workspace; a cleanup failure comes first.    *)
RemoveWorkspace ==
  /\ pc = "remove"
  /\ \E removed \in BOOLEAN :
       LET lifecycle == IF removed THEN "removed" ELSE "cleanup_failed"
           failed == \/ ~removed \/ run.codex.cleanup = "failed" \/ ~run.codex.cleared
                     \/ run.harness = "process_cleanup_error"
           reason == IF run.commands # << >> THEN "none" ELSE "pre_gate_harness_failure" IN
       /\ left' = left \cup (IF removed THEN {} ELSE {"workspace"})
       /\ run' = [IF failed
                  THEN [Judged("harness_error", "process_cleanup_error", "cleanup_failure",
                               reason) EXCEPT !.metrics = "none"]
                  ELSE run
                  EXCEPT !.workspace = lifecycle]
  /\ tree' = 0
  /\ Goto("write")
  /\ RunStep /\ UNCHANGED called

-----------------------------------------------------------------------------
(* _write_run_outputs.                                                     *)

(* The record as it is persisted: nothing that only the program or only    *)
(* this model knows.                                                       *)
Record(r) ==
  [codex |-> r.codex, commands |-> r.commands, diff |-> r.diff, metrics |-> r.metrics,
   overall |-> r.overall, kind |-> r.kind, reason |-> r.reason, workspace |-> r.workspace,
   began |-> r.began, codexBegan |-> r.codexBegan, codexEnded |-> r.codexEnded,
   inOrder |-> r.inOrder, gatesEnded |-> r.gatesEnded, ended |-> r.ended]

(* What the reports read of a published pair; launched is not in it.       *)
PairOf(r) ==
  [overall |-> r.overall, kind |-> r.kind, reason |-> r.reason, gate |-> GateExecuted(r),
   calls |-> CallsOf(r.codex), began |-> r.began, ended |-> clock, launched |-> r.launched > 0]

Completes == [run EXCEPT !.ended = clock]

(* Both are built, published by _publish_create_only_pair (two hard links, *)
(* PairPublication) and read back. Every failure ends the Campaign.        *)
WriteOutputs ==
  /\ pc = "write"
  /\ \/ /\ PairAccepted(Record(Completes))
        /\ run' = Completes
        /\ pairs' = [pairs EXCEPT ![index] = PairOf(run)]
        /\ Goto("append_terminal")
        /\ UNCHANGED << log, tree, counters >>
     \/ /\ pairs' = pairs
        /\ Leave /\ UNCHANGED log
     \/ /\ PairAccepted(Record(Completes))               \* the reload fails
        /\ pairs' = [pairs EXCEPT ![index] = PairOf(run)]
        /\ Leave /\ UNCHANGED log
  /\ UNCHANGED << world, ghosts >>

(* Mutant: only a successful Provider counts as called.                    *)
TerminalLine_callsOfSuccess ==
  TerminalEvent(sequence + 1, index,
    IF run.outcome \in {"success", "quality_gate_failure"} THEN "completed" ELSE "failed",
    run.outcome, IF run.codex.kind = "none" THEN 1 ELSE 0,
    run.commands # << >>, run.counted, run.kind, run.ended)

(* _run_event of the ended run; that the contract of the event takes it is *)
(* part of PairIsBuilt.                                                    *)
TerminalLine ==
  TerminalEvent(sequence + 1, index,
    IF run.outcome \in {"success", "quality_gate_failure"} THEN "completed" ELSE "failed",
    run.outcome, CallsOf(run.codex), run.commands # << >>, run.counted, run.kind, run.ended)

AppendTerminal ==
  /\ pc = "append_terminal"
  /\ AppendEvent(TerminalLine)
  /\ sequence' = sequence + 1
  /\ failures' = failures + (IF run.counted THEN 1 ELSE 0)
  /\ nextIndex' = index + 1
  /\ Goto("stop_check")
  /\ AppendStep /\ UNCHANGED << tree, index, attempted, calls, stop, run >>

(* Mutant: a Campaign goes on after a harness failure.                     *)
StopAfter_goesOn ==
  CASE run.counted /\ policy.failFast -> "fail_fast"
    [] run.counted /\ ~policy.failFast /\ policy.maxFailures # 0
       /\ failures >= policy.maxFailures -> "max_failures"
    [] run.outcome = "cleanup_failure" -> "cleanup_failure"
    [] OTHER -> "none"

StopAfter ==
  CASE run.outcome = "cleanup_failure" -> "cleanup_failure"
    [] run.outcome = "harness_failure" -> "harness_failure"
    [] run.counted /\ policy.failFast -> "fail_fast"
    [] run.counted /\ ~policy.failFast /\ policy.maxFailures # 0
       /\ failures >= policy.maxFailures -> "max_failures"
    [] OTHER -> "none"

StopCheck ==
  /\ pc = "stop_check"
  /\ stop' = StopAfter
  /\ \/ StopAfter = "none" /\ index' = index + 1 /\ Goto("check")
     \/ StopAfter # "none" /\ UNCHANGED index /\ Goto("tail")
  /\ run' = [FreshRun EXCEPT !.began = 0]
  /\ UNCHANGED << files, world, tree, nextIndex, sequence, attempted, calls, failures, ghosts >>

-----------------------------------------------------------------------------
(* not_run for the rest of the Plan, campaign_finished, strict reload.     *)

AppendNotRun ==
  /\ pc = "tail" /\ stop # "none" /\ nextIndex <= RunCount
  /\ sequence' = sequence + 1 /\ nextIndex' = nextIndex + 1
  /\ AppendEvent(NotRunEvent(sequence', nextIndex, stop, clock))
  /\ UNCHANGED << pc, tree, index, attempted, calls, failures, stop, run >>
  /\ AppendStep

(* Mutant: the last line repeats the sequence number before it.            *)
AppendFinished_keepsSequence ==
  /\ pc = "tail" /\ (stop = "none" \/ nextIndex > RunCount)
  /\ UNCHANGED sequence
  /\ AppendEvent(CampaignFinished(sequence', stop, attempted, calls, failures, clock))
  /\ Goto("reload")
  /\ UNCHANGED << tree, index, nextIndex, attempted, calls, failures, stop, run >>
  /\ AppendStep

AppendFinished ==
  /\ pc = "tail" /\ (stop = "none" \/ nextIndex > RunCount)
  /\ sequence' = sequence + 1
  /\ AppendEvent(CampaignFinished(sequence', stop, attempted, calls, failures, clock))
  /\ Goto("reload")
  /\ UNCHANGED << tree, index, nextIndex, attempted, calls, failures, stop, run >>
  /\ AppendStep

(* load_campaign_contract.                                                 *)
Reload ==
  /\ pc = "reload"
  /\ Leave
  /\ UNCHANGED << files, world, ghosts >>

-----------------------------------------------------------------------------
(* What can happen to the program.                                         *)

LineWritten ==
  CASE pc = "create" -> CampaignStarted(clock)
    [] pc = "append_started" -> StartedEvent(sequence + 1, index, clock)
    [] pc = "append_terminal" -> TerminalLine
    [] pc = "tail" /\ stop # "none" /\ nextIndex <= RunCount ->
         NotRunEvent(sequence + 1, nextIndex, stop, clock)
    [] OTHER -> CampaignFinished(sequence + 1, stop, attempted, calls, failures, clock)

Written == {log, Append(log, TornLine), Append(log, LineWritten)}

(* open, write or fsync fails: nothing, a part or all of the line remains. *)
AppendFails ==
  /\ pc \in Appending /\ (pc = "create" => log = << >>)
  /\ log' \in Written
  /\ Leave
  /\ UNCHANGED << pairs, world, ghosts >>

(* KeyboardInterrupt: only the finally block of a run sees it. The Codex   *)
(* runner collects its process, the Safe Runner does not.                  *)
Interrupt ==
  /\ pc # "idle"
  /\ log' \in IF pc \in Appending /\ (pc = "create" => log = << >>) THEN Written ELSE {log}
  /\ pairs' \in {pairs} \cup (IF pc = "write" /\ PairAccepted(Record(Completes))
                              THEN {[pairs EXCEPT ![index] = PairOf(run)]} ELSE {})
  /\ called' \in {called} \cup (IF pc = "running" THEN {[called EXCEPT ![index] = @ + 1]}
                                ELSE {})
  /\ left' \in SUBSET (left \cup (IF pc \in HasWorkspace \cup {"prepare"} THEN {"workspace"} ELSE {})
                            \cup (IF pc = "gate_running" THEN {"gate group"} ELSE {})
                            \cup (IF pc = "running" THEN {"provider group"} ELSE {}))
  /\ left \subseteq left'
  /\ Leave
  /\ UNCHANGED << policy, clock, shortWrites, invocations, lateWrites >>

(* The process is killed; a process group it has started lives on.         *)
Crash ==
  /\ pc # "idle"
  /\ left' = left \cup (IF pc \in HasWorkspace THEN {"workspace"} ELSE {})
                  \cup (IF pc = "gate_running" THEN {"gate group"} ELSE {})
                  \cup (IF pc = "running" THEN {"provider group"} ELSE {})
  /\ called' \in {called} \cup (IF pc = "running" THEN {[called EXCEPT ![index] = @ + 1]}
                                ELSE {})
  /\ Leave
  /\ UNCHANGED << files, world >>

SetClockBack ==
  /\ clock = 1 /\ Undisturbed /\ pc # "idle"
  /\ clock' = 0
  /\ UNCHANGED << files, policy, bounds, tree, pc, counters, run, ghosts >>

(* A process that escaped its group, or anybody else, changes a file.      *)
LateWrite ==
  /\ pc \in HasWorkspace \ {"abandon", "remove"} /\ Undisturbed
  /\ lateWrites' = lateWrites + 1 /\ tree' = tree + 1
  /\ UNCHANGED << files, policy, clock, shortWrites, invocations, pc, counters, run, ghosts >>

Done == pc = "idle" /\ invocations = MaxInvocations /\ UNCHANGED vars

ProgramStep ==
  \/ Refuse \/ CreateCampaign \/ BeginRun \/ StopForChangedInput \/ LoopEnds
  \/ AppendStarted \/ PrepareWorkspace \/ PrepareFails
  \/ PreflightFails \/ ProviderRaises \/ InvokeProvider
  \/ ProviderReturns \/ PlatformUnsupported \/ RunnerFails \/ AbandonRun
  \/ AfterFailure \/ JudgeOutput \/ CollectDiff \/ PrepareGates
  \/ StartGate \/ GateNotStarted \/ GateEnds \/ Conclude \/ RemoveWorkspace
  \/ WriteOutputs \/ AppendTerminal \/ StopCheck
  \/ AppendNotRun \/ AppendFinished \/ Reload \/ AppendFails

Next ==
  \/ Invoke \/ ProgramStep
  \/ Interrupt \/ Crash \/ SetClockBack \/ LateWrite
  \/ Done

Spec == Init /\ [][Next]_vars

-----------------------------------------------------------------------------
(* Properties.                                                             *)

(* A run's Provider is called once at most, by whatever invocation, and    *)
(* never before the run's `started` line is in the Campaign file; only a   *)
(* write that came up short, which the program does not notice, breaks it. *)
CalledOnceAndAnnounced ==
  \A r \in Runs :
    /\ called[r] <= 1
    /\ called[r] = 1 => StartedIn(log, r) \/ \E i \in DOMAIN log : log[i] = TornLine

(* No further Provider call once a run says stop: every terminal line in   *)
(* the file about an earlier run allowed the Campaign to go on. (A line    *)
(* that was torn by a short write says nothing and is not counted.)        *)
Allows(e) ==
  /\ e.outcome \notin {"harness_failure", "cleanup_failure", "stop_condition"}
  /\ policy.failFast => ~e.counted

StopHonoured ==
  \A r \in Runs : called[r] > 0 =>
    /\ \A i \in TerminalLines(log) : log[i].run < r => Allows(log[i])
    /\ policy.maxFailures # 0 =>
         Cardinality({i \in TerminalLines(log) : log[i].run < r /\ log[i].counted})
           < policy.maxFailures

(* The outer handler took an exception after a Provider failure and called *)
(* the run a failure of the evidence, which the Provider's own evidence    *)
(* does not bear out.                                                      *)
Overwritten(r) == r.codex.kind \notin {"none", "evidence_error"} /\ r.kind = "evidence_error"

(* The verdict the loop body reaches is one its strict contracts accept,   *)
(* so that the run gets its pair and its terminal line, whatever failed in *)
(* the Provider, the output, the gates or the cleanup; and of the pair of  *)
(* a run whose Provider was called, a public record can be made.           *)
(* Excepted are a clock that was set back, a preflight that failed, and a  *)
(* Provider failure whose verdict was overwritten because its diff raised  *)
(* something else than a SnapshotError: there the pair is refused and the  *)
(* Campaign ends.                                                          *)
PairIsBuilt ==
  /\ pc = "write" =>
       LET a == Record(Completes) IN
       /\ \/ PairAccepted(a) \/ clock = 0 \/ Overwritten(run)
          \/ run.codex.execution = "preflight_not_completed"
       /\ PairAccepted(a) /\ CallsOf(a.codex) = 1 => PublicRunAccepted(PublicRun(a))
  /\ pc = "append_terminal" => RunEventExplicit(TerminalLine)

(* The same for a preflight that failed: the public report derives what a  *)
(* run that stopped at its preflight spent from its persisted Evidence.    *)
PreflightStopIsRecorded ==
  pc = "write" /\ run.codex.execution = "preflight_not_completed"
    => PairAccepted(Record(Completes)) \/ clock = 0 \/ Overwritten(run)

(* What a terminal line says is true: the line of a run that ended is only *)
(* written after its pair and says the same, it is right about the         *)
(* Provider, and if it says that gates ran, they did. (That none ran it    *)
(* may say wrongly, see GateEnds.) A not_run run was never called.         *)
TerminalLineIsTrue ==
  \A i \in TerminalLines(log) :
    LET e == log[i]
        pair == pairs[e.run] IN
    /\ e.calls = called[e.run]
    /\ e.status = "not_run" => pair = NoPair
    /\ e.status # "not_run" =>
         /\ pair # NoPair
         /\ pair.kind = e.kind /\ pair.calls = e.calls /\ pair.gate = e.gate
         /\ e.gate => pair.launched

(* Whatever Campaign file the loader accepts, the public report can be     *)
(* made of it: the file and the pairs bind to each other, the counts are   *)
(* coherent, status and estimability agree, and the reason the report      *)
(* derives from a line why no gate ran is the one its Artifact gives.      *)
AcceptedFileIsReportable ==
  CampaignLoads(log) =>
    /\ BindingsHold(log, pairs)
    /\ ReportAccepted(Counts(log))
    /\ (Counts(log).pairs > 0)
         = (LanguageStatus(log, {r \in Runs : pairs[r] # NoPair}) = "evaluated")
    /\ \A r \in WithArtifacts(log) :
         LET e == TerminalOf(log, r) IN ~e.gate => GateReasonOf(e) = pairs[r].reason

(* A Campaign that wrote campaign_finished left a file its loader accepts, *)
(* if no write came up short and the clock was not set back.               *)
FinishedFileLoads ==
  FinishedIn(log) => CampaignLoads(log) \/ shortWrites > 0 \/ clock = 0

(* A quality verdict is earned: every configured gate was started, ended   *)
(* by itself and left nothing, and the policy, the diff and every gate saw *)
(* the same Workspace, although it may change at any time.                 *)
QualityVerdictIsEarned ==
  pc \in {"remove", "write"} /\ run.overall \in QualityStatuses =>
    /\ run.launched = Len(Gates)
    /\ [i \in DOMAIN run.commands |-> run.commands[i].gate] = Gates
    /\ \A c \in Elements(run.commands) : Normal(c)
    /\ run.gatesAt = {run.secureAt} /\ run.diffAt = run.secureAt

(* No Provider is started while something an earlier run left - a process  *)
(* group, a Workspace - is still there.                                    *)
NoCallBesideRemains == [][called' # called => left = {}]_vars

(* Up to a write that came up short, the Campaign implements the abstract  *)
(* one: phase and status are read off the file.                            *)
JournalStatus ==
  IF log = << >> THEN "absent" ELSE IF FinishedIn(log) THEN "closed" ELSE "open"

JournalPhase ==
  [r \in Runs |->
     IF NotRunIn(log, r) THEN "not_run"
     ELSE IF EndedIn(log, r) THEN "ended"
     ELSE IF StartedIn(log, r) THEN "started" ELSE "planned"]

Journal == INSTANCE CampaignJournal WITH status <- JournalStatus, phase <- JournalPhase

ImplementsJournal ==
  Journal!Init /\ [][shortWrites' > 0 \/ [Journal!Next]_(Journal!journalVars)]_vars
=============================================================================
