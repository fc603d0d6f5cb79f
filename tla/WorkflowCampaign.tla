--------------------------- MODULE WorkflowCampaign ---------------------------
(***************************************************************************)
(* The Phase 4 Campaign scheduler (campaign.py): run_workflow_campaign,    *)
(* the default run executor it calls for every run of the Plan, and the    *)
(* append-only Campaign file they leave behind.                            *)
(*                                                                         *)
(* One invocation of `agentlab run-workflow` is a sequential program: pc   *)
(* names the next statement, and a step ends where the program calls the   *)
(* file system, the Live runner or the cleanup, because a signal or a      *)
(* crash can fall there. What survives an invocation is `log`, the         *)
(* Campaign file, and the Provider calls already made (`called`). After an *)
(* invocation has ended, whichever way, another may be started on the same *)
(* path, up to MaxInvocations.                                             *)
(***************************************************************************)
EXTENDS CampaignLog

CONSTANTS
  MaxInvocations,   \* bound on run-workflow invocations on one Campaign path
  MaxInterrupts,    \* bound on Ctrl-C / SystemExit deliveries to an invocation
  InterruptLocations  \* statements of the scheduler, outside the executor, before
                      \* which a signal may land

ASSUME BoundsAssumption ==
  /\ MaxInvocations \in Nat
  /\ MaxInterrupts \in Nat

VARIABLES
  log,              \* the Campaign file; << >> while it does not exist
  called,           \* called[r]: Provider invocations made for run r
  invocations,      \* invocations started so far
  interrupts,       \* signals delivered to the current or last invocation
  replaced,         \* one of them was lost to a temporary root that stayed
  policy,           \* loaded.spec.stop_conditions
  exit,             \* how the last invocation ended
  pc,               \* "idle" between invocations
  \* locals of run_workflow_campaign
  index, nextIndex, sequence, attempted, providerCalls, unknownCallRuns,
  countedFailures, stopReason, pendingInterrupt,
  \* locals of _default_run_executor
  stage, execution, caught

locals ==
  << index, nextIndex, sequence, attempted, providerCalls, unknownCallRuns,
     countedFailures, stopReason, pendingInterrupt >>
executorLocals == << stage, execution, caught >>
environment == << invocations, interrupts, replaced, policy >>
vars == << log, called, environment, exit, pc, locals, executorLocals >>

-----------------------------------------------------------------------------
Executing == {"adapter", "live", "publish", "cleanup"}
Appending == {"append_started", "append_terminal", "append_interrupted", "tail", "human_tail"}
(* Statements of the outer try block that are not inside the inner one.    *)
Bookkeeping ==
  {"check", "append_started", "bump_started", "account", "append_terminal",
   "bump_terminal", "stop_check", "append_interrupted", "bump_interrupted"}
Tails == {"tail", "human_tail"}
Locations == {"idle", "create"} \cup Executing \cup Bookkeeping \cup Tails

Policies == [failFast : BOOLEAN, maxFailures : 0 .. RunCount, maxDuration : BOOLEAN]

NoExecution == [outcome |-> "none", calls |-> Unknown, cleanup |-> "not_applicable"]
Executions ==
  [outcome : ExecutionOutcomes \cup {"none"}, calls : CallCounts, cleanup : CleanupStates]

(* StopConditions in workflow.py; 0 stands for max_failures: null.         *)
FreshLocals ==
  /\ index = 1 /\ nextIndex = 1 /\ sequence = 1 /\ attempted = 0
  /\ providerCalls = 0 /\ unknownCallRuns = 0 /\ countedFailures = 0
  /\ stopReason = "none" /\ pendingInterrupt = FALSE
  /\ stage = "not_attempted" /\ execution = NoExecution /\ caught = "nothing"

Init ==
  /\ log = << >>
  /\ called = [r \in Runs |-> 0]
  /\ invocations = 0 /\ interrupts = 0 /\ replaced = FALSE
  /\ policy \in Policies
  /\ pc = "idle" /\ exit = "none"
  /\ FreshLocals

(* The invocation ends: it returned its summary, an exception propagated,  *)
(* a KeyboardInterrupt or SystemExit propagated ("signal"), or it was      *)
(* killed. Its locals are gone, the file and the Provider calls stay.      *)
Exit(how) ==
  /\ pc' = "idle" /\ exit' = how
  /\ index' = 1 /\ nextIndex' = 1 /\ sequence' = 1 /\ attempted' = 0
  /\ providerCalls' = 0 /\ unknownCallRuns' = 0 /\ countedFailures' = 0
  /\ stopReason' = "none" /\ pendingInterrupt' = FALSE
  /\ stage' = "not_attempted" /\ execution' = NoExecution /\ caught' = "nothing"

-----------------------------------------------------------------------------
(* The start of an invocation: confirmations, Plan rebuild, output         *)
(* reservations, then _create_campaign.                                    *)

(* The Plan equals the rebuilt Plan and the confirmations match (otherwise *)
(* the invocation changes nothing).                                        *)
Invoke ==
  /\ pc = "idle"
  /\ invocations < MaxInvocations
  /\ invocations' = invocations + 1
  /\ interrupts' = 0 /\ replaced' = FALSE
  /\ pc' = "create" /\ exit' = "none"
  /\ UNCHANGED << log, called, policy, locals, executorLocals >>

(* Mutant: os.replace instead of the create-only os.link.                  *)
CreateCampaign_overwrites ==
  /\ pc = "create"
  /\ log' = << CampaignStarted >>
  /\ pc' = "check"
  /\ UNCHANGED << exit, called, environment, locals, executorLocals >>

(* Temporary file, fsync, then os.link: the file appears whole or not at   *)
(* all, and only where nothing existed.                                    *)
CreateCampaign ==
  /\ pc = "create"
  /\ log = << >>
  /\ log' = << CampaignStarted >>
  /\ pc' = "check"
  /\ UNCHANGED << exit, called, environment, locals, executorLocals >>

(* "Campaign output already exists; resume is not supported", or an        *)
(* OSError while creating.                                                 *)
RefuseCampaign ==
  /\ pc = "create"
  /\ Exit("raised")
  /\ UNCHANGED << log, called, environment >>

-----------------------------------------------------------------------------
(* _append_campaign. The event each appending statement writes.            *)

ClosingReason == IF pc = "human_tail" THEN "human_interruption" ELSE stopReason

WritesNotRun == ClosingReason # "none" /\ index <= RunCount

StatusOf(outcome) == IF outcome \in CompletedOutcomes THEN "completed" ELSE "failed"

NextEvent ==
  CASE pc = "append_started" ->
         RunEvent(sequence, index, "started", "none", "none", Unknown, "not_applicable")
    [] pc = "append_terminal" ->
         RunEvent(sequence, index, StatusOf(execution.outcome), execution.outcome, "none",
                  execution.calls, execution.cleanup)
    [] pc = "append_interrupted" ->
         RunEvent(sequence, index, "interrupted", "human_interruption",
                  "human_interruption", Unknown, "not_applicable")
    [] pc \in Tails /\ WritesNotRun ->
         RunEvent(sequence, index, "not_run", "stop_condition", ClosingReason, 0,
                  "not_applicable")
    [] OTHER ->
         CampaignFinished(sequence, ClosingReason, attempted, providerCalls, unknownCallRuns)

(* One os.write of the whole line, then fsync.                             *)
AppendCampaign == log' = Append(log, NextEvent)

(* The append raises CampaignError (nothing, part or all of the line is in *)
(* the file) and no handler of the scheduler catches it; a crash inside    *)
(* the write leaves the same files.                                        *)
AppendFails ==
  /\ pc \in Appending
  /\ log' \in {log, Append(log, TornLine), Append(log, NextEvent)}
  /\ Exit("raised")
  /\ UNCHANGED << called, environment >>

-----------------------------------------------------------------------------
(* The loop of run_workflow_campaign over plan.runs.                       *)

(* break: the tail starts at plan.runs[next_index].                        *)
Stop(reason, next) ==
  /\ stopReason' = reason
  /\ index' = next
  /\ pc' = "tail"

LoopEnds ==
  /\ pc = "check"
  /\ index > RunCount
  /\ pc' = "tail"
  /\ UNCHANGED << exit, log, called, environment, locals, executorLocals >>

(* workflow_inputs_unchanged is false, or the elapsed time reached         *)
(* max_total_duration_ms.                                                  *)
StopBeforeRun ==
  /\ pc = "check"
  /\ index <= RunCount
  /\ nextIndex' = index
  /\ \/ Stop("input_changed", index)
     \/ policy.maxDuration /\ Stop("max_total_duration_ms", index)
  /\ UNCHANGED << exit, log, called, environment, executorLocals, sequence, attempted,
                  providerCalls, unknownCallRuns, countedFailures, pendingInterrupt >>

BeginRun ==
  /\ pc = "check"
  /\ index <= RunCount
  /\ nextIndex' = index
  /\ pc' = "append_started"
  /\ UNCHANGED << exit, log, called, environment, executorLocals, index, sequence, attempted,
                  providerCalls, unknownCallRuns, countedFailures, stopReason,
                  pendingInterrupt >>

AppendStarted ==
  /\ pc = "append_started"
  /\ AppendCampaign
  /\ pc' = "bump_started"
  /\ UNCHANGED << exit, called, environment, locals, executorLocals >>

(* sequence += 1; attempted += 1; then the executor is called.             *)
BumpStarted ==
  /\ pc = "bump_started"
  /\ sequence' = sequence + 1
  /\ attempted' = attempted + 1
  /\ stage' = "not_attempted" /\ execution' = NoExecution /\ caught' = "nothing"
  /\ pc' = "adapter"
  /\ UNCHANGED << exit, log, called, environment, index, nextIndex, providerCalls,
                  unknownCallRuns, countedFailures, stopReason, pendingInterrupt >>

-----------------------------------------------------------------------------
(* _default_run_executor. `caught` is the BaseException its try block      *)
(* ended with: "error" for the classes the scheduler catches               *)
(* (LiveCodexError, CampaignError, OSError, ValueError), "other" for the   *)
(* ones it does not, "interrupt" for KeyboardInterrupt and SystemExit.     *)

ExecutorStep == UNCHANGED << log, environment, exit, locals >>

Catch(exception) ==
  /\ caught' = exception
  /\ pc' = "cleanup"

(* mkdtemp, fixture copy, Prompt and adapter Spec.                         *)
PrepareAdapter ==
  /\ pc = "adapter"
  /\ \/ pc' = "live" /\ UNCHANGED caught
     \/ \E exception \in {"error", "other"} : Catch(exception)
  /\ ExecutorStep
  /\ UNCHANGED << called, stage, execution >>

(* run_live_codex reaches the Provider invocation: preflight passed and    *)
(* the Workspace was prepared.                                             *)
CallProvider ==
  /\ pc = "live"
  /\ stage = "not_attempted"
  /\ called' = [called EXCEPT ![index] = @ + 1]
  /\ stage' = "attempted"
  /\ ExecutorStep
  /\ UNCHANGED << pc, execution, caught >>

(* Mutant: a failed preflight is tried again until it passes.              *)
EndLive_retriesPreflight ==
  /\ pc = "live"
  /\ \/ pc' = "publish"
     \/ pc' = "adapter" /\ stage = "not_attempted"
  /\ ExecutorStep
  /\ UNCHANGED << called, executorLocals >>

(* run_live_codex returns an Artifact, or raises after publishing a        *)
(* failure Diagnostic.                                                     *)
EndLive ==
  /\ pc = "live"
  /\ \/ pc' = "publish" /\ UNCHANGED caught
     \/ \E exception \in {"error", "other"} : Catch(exception)
  /\ ExecutorStep
  /\ UNCHANGED << called, stage, execution >>

(* Mutant: a failed preflight is counted as a Provider call.               *)
ArtifactExecutions_alwaysOne(s) ==
  [outcome : ExecutionOutcomes, calls : {1}, cleanup : {"not_applicable"}]

(* _classify_artifact: an Artifact without a Provider invocation cannot    *)
(* have reached the quality gates, and its call count is its stage; a      *)
(* preflight root that stayed is an evidence_error.                        *)
ArtifactExecutions(s) ==
  [outcome : CASE s = "attempted" -> ExecutionOutcomes
               [] s = "signal_replaced" -> {"harness_failure"}
               [] OTHER -> FailedOutcomes,
   calls   : IF s = "attempted" THEN {1} ELSE {0},
   cleanup : {"not_applicable"}]

(* _publish_create_only_pair, then the classification.                     *)
PublishPair ==
  /\ pc = "publish"
  /\ \/ execution' \in ArtifactExecutions(stage) /\ pc' = "cleanup" /\ UNCHANGED caught
     \/ Catch("error") /\ UNCHANGED execution
  /\ ExecutorStep
  /\ UNCHANGED << called, stage >>

(* Ctrl-C while the executor works; `except BaseException` holds it back   *)
(* until the adapter is cleaned up. At "cleanup" the signal falls before   *)
(* the call of adapter_cleanup.                                            *)
InterruptExecutor ==
  /\ pc \in Executing
  /\ interrupts < MaxInterrupts
  /\ interrupts' = interrupts + 1
  /\ Catch("interrupt")
  /\ UNCHANGED << exit, log, called, invocations, replaced, policy, locals, stage, execution >>

(* ... unless it falls into run_live_codex and a temporary root cannot be  *)
(* removed in the finally block it passes. A preflight root that stays     *)
(* makes it an ordinary preflight failure (_PreflightHarnessError), which  *)
(* EndLive goes on with; anything but an OSError out of the removal of a   *)
(* preflight root or of the Workspace takes its place.                     *)
InterruptReplaced ==
  /\ pc = "live" /\ stage # "signal_replaced"
  /\ interrupts < MaxInterrupts
  /\ interrupts' = interrupts + 1 /\ replaced' = TRUE
  /\ \/ stage = "not_attempted" /\ stage' = "signal_replaced" /\ UNCHANGED << pc, caught >>
     \/ Catch("other") /\ UNCHANGED stage
  /\ UNCHANGED << exit, log, called, invocations, policy, locals, execution >>

(* adapter_cleanup cleared: the held-back exception is raised into the     *)
(* scheduler, or the execution is returned.                                *)
HarnessFailure ==
  [outcome |-> "harness_failure", calls |-> Unknown, cleanup |-> "not_applicable"]

AdapterCleared ==
  /\ pc = "cleanup"
  /\ \/ /\ caught = "nothing"
        /\ execution' = [execution EXCEPT !.cleanup = "cleared"]
        /\ pc' = "account"
     \/ /\ caught = "error"
        /\ execution' = HarnessFailure
        /\ pc' = "account"
     \/ /\ caught = "interrupt"
        /\ pc' = "append_interrupted"
        /\ UNCHANGED execution
  /\ ExecutorStep
  /\ UNCHANGED << called, stage, caught >>

(* An exception class the scheduler does not catch ends the invocation.    *)
PropagateOther ==
  /\ pc = "cleanup"
  /\ caught = "other"
  /\ Exit("raised")
  /\ UNCHANGED << log, called, environment >>

(* Mutant: the cleanup failure replaces the signal caught before it.       *)
AdapterNotCleared_dropsCaughtSignal ==
  /\ pc = "cleanup"
  /\ execution' = [execution EXCEPT !.outcome = "cleanup_failure", !.cleanup = "failed"]
  /\ pc' = "account"
  /\ UNCHANGED << exit, log, called, environment, locals, stage, caught >>

(* adapter_cleanup reports failure or raises: the Prompt is redacted and   *)
(* whatever was caught becomes a cleanup failure. A signal, caught earlier *)
(* or delivered during the cleanup, is re-raised once the Campaign file is *)
(* finished.                                                               *)
AdapterNotCleared ==
  /\ pc = "cleanup"
  /\ \E interrupted \in BOOLEAN :
       /\ interrupted => interrupts < MaxInterrupts
       /\ interrupts' = interrupts + (IF interrupted THEN 1 ELSE 0)
       /\ pendingInterrupt' = (interrupted \/ caught = "interrupt")
  /\ execution' = [execution EXCEPT !.outcome = "cleanup_failure", !.cleanup = "failed"]
  /\ pc' = "account"
  /\ UNCHANGED << exit, log, called, invocations, replaced, policy, index, nextIndex, sequence,
                  attempted, providerCalls, unknownCallRuns, countedFailures, stopReason, stage,
                  caught >>

-----------------------------------------------------------------------------
(* The scheduler records what the executor did.                            *)

(* Mutant: an unknown call count is taken for zero.                        *)
Account_unknownIsZero ==
  /\ pc = "account"
  /\ providerCalls' = providerCalls + (IF execution.calls = 1 THEN 1 ELSE 0)
  /\ pc' = "append_terminal"
  /\ UNCHANGED << exit, log, called, environment, executorLocals, index, nextIndex, sequence,
                  attempted, unknownCallRuns, countedFailures, stopReason, pendingInterrupt >>

Account ==
  /\ pc = "account"
  /\ IF execution.calls = Unknown
     THEN unknownCallRuns' = unknownCallRuns + 1 /\ UNCHANGED providerCalls
     ELSE providerCalls' = providerCalls + execution.calls /\ UNCHANGED unknownCallRuns
  /\ pc' = "append_terminal"
  /\ UNCHANGED << exit, log, called, environment, executorLocals, index, nextIndex, sequence,
                  attempted, countedFailures, stopReason, pendingInterrupt >>

AppendTerminal ==
  /\ pc = "append_terminal"
  /\ AppendCampaign
  /\ pc' = "bump_terminal"
  /\ UNCHANGED << exit, called, environment, locals, executorLocals >>

BumpTerminal ==
  /\ pc = "bump_terminal"
  /\ sequence' = sequence + 1
  /\ nextIndex' = index + 1
  /\ pc' = "stop_check"
  /\ UNCHANGED << exit, log, called, environment, executorLocals, index, attempted, providerCalls,
                  unknownCallRuns, countedFailures, stopReason, pendingInterrupt >>

(* Mutant: max_failures is exceeded before it stops.                       *)
StopAfter_maxOffByOne(failures) ==
  CASE execution.outcome \in CountedOutcomes /\ policy.failFast -> "fail_fast"
    [] execution.outcome \in CountedOutcomes /\ ~policy.failFast
       /\ policy.maxFailures # 0 /\ failures > policy.maxFailures -> "max_failures"
    [] execution.outcome = "harness_failure" -> "harness_failure"
    [] execution.outcome = "cleanup_failure" -> "cleanup_failure"
    [] OTHER -> "none"

(* The stop conditions after a run, in the order the code tests them.      *)
StopAfter(failures) ==
  CASE execution.outcome \in CountedOutcomes /\ policy.failFast -> "fail_fast"
    [] execution.outcome \in CountedOutcomes /\ ~policy.failFast
       /\ policy.maxFailures # 0 /\ failures >= policy.maxFailures -> "max_failures"
    [] execution.outcome = "harness_failure" -> "harness_failure"
    [] execution.outcome = "cleanup_failure" -> "cleanup_failure"
    [] OTHER -> "none"

StopCheck ==
  /\ pc = "stop_check"
  /\ LET failures ==
           countedFailures + (IF execution.outcome \in CountedOutcomes THEN 1 ELSE 0)
         reason == StopAfter(failures)
     IN /\ countedFailures' = failures
        /\ \/ reason = "none" /\ index' = index + 1 /\ pc' = "check" /\ UNCHANGED stopReason
           \/ reason # "none" /\ Stop(reason, nextIndex)
  /\ UNCHANGED << exit, log, called, environment, executorLocals, nextIndex, sequence, attempted,
                  providerCalls, unknownCallRuns, pendingInterrupt >>

(* except (KeyboardInterrupt, SystemExit) around the executor call.        *)
AppendInterrupted ==
  /\ pc = "append_interrupted"
  /\ AppendCampaign
  /\ pc' = "bump_interrupted"
  /\ UNCHANGED << exit, called, environment, locals, executorLocals >>

(* Mutant: next_index stays at the interrupted run.                        *)
BumpInterrupted_keepsNextIndex ==
  /\ pc = "bump_interrupted"
  /\ sequence' = sequence + 1
  /\ stopReason' = "human_interruption"
  /\ unknownCallRuns' = unknownCallRuns + 1
  /\ index' = nextIndex
  /\ pc' = "human_tail"
  /\ UNCHANGED << exit, log, called, environment, executorLocals, nextIndex, attempted,
                  providerCalls, countedFailures, pendingInterrupt >>

(* ... and the outer handler takes over with plan.runs[next_index:].       *)
BumpInterrupted ==
  /\ pc = "bump_interrupted"
  /\ sequence' = sequence + 1
  /\ stopReason' = "human_interruption"
  /\ unknownCallRuns' = unknownCallRuns + 1
  /\ nextIndex' = index + 1
  /\ index' = index + 1
  /\ pc' = "human_tail"
  /\ UNCHANGED << exit, log, called, environment, executorLocals, attempted, providerCalls,
                  countedFailures, pendingInterrupt >>

-----------------------------------------------------------------------------
(* The tails: not_run for the runs left, then campaign_finished.           *)

AppendNotRun ==
  /\ pc \in Tails
  /\ WritesNotRun
  /\ AppendCampaign
  /\ sequence' = sequence + 1
  /\ index' = index + 1
  /\ UNCHANGED << exit, pc, called, environment, executorLocals, nextIndex, attempted,
                  providerCalls, unknownCallRuns, countedFailures, stopReason,
                  pendingInterrupt >>

(* The invocation returns its summary or re-raises the signal it held.     *)
AppendFinished ==
  /\ pc \in Tails
  /\ ~WritesNotRun
  /\ AppendCampaign
  /\ Exit(IF pc = "human_tail" \/ pendingInterrupt THEN "signal" ELSE "returned")
  /\ UNCHANGED << called, environment >>

-----------------------------------------------------------------------------
(* A signal between two statements of the scheduler. Inside the outer try  *)
(* the handler closes the Campaign from the next_index and counters it     *)
(* finds; in the tails nothing catches it.                                 *)

InterruptScheduler ==
  /\ pc \in Bookkeeping \cap InterruptLocations
  /\ interrupts < MaxInterrupts
  /\ interrupts' = interrupts + 1
  /\ pc' = "human_tail"
  /\ index' = nextIndex
  /\ UNCHANGED << exit, log, called, invocations, replaced, policy, executorLocals, nextIndex,
                  sequence, attempted, providerCalls, unknownCallRuns, countedFailures, stopReason,
                  pendingInterrupt >>

InterruptTail ==
  /\ pc \in Tails \cap InterruptLocations
  /\ interrupts < MaxInterrupts
  /\ interrupts' = interrupts + 1
  /\ Exit("signal")
  /\ UNCHANGED << log, called, invocations, replaced, policy >>

(* The process is killed. A power failure is not modelled: the directory   *)
(* of the new Campaign file is not synced (campaign.py 300-323).           *)
Crash ==
  /\ pc # "idle"
  /\ Exit("killed")
  /\ UNCHANGED << log, called, environment >>

(* No invocation is running and none will be started.                      *)
Done ==
  /\ pc = "idle"
  /\ invocations = MaxInvocations
  /\ UNCHANGED vars

-----------------------------------------------------------------------------
(* One step of the running program, whatever its outcome.                  *)
ProgramStep ==
  \/ CreateCampaign \/ RefuseCampaign
  \/ LoopEnds \/ StopBeforeRun \/ BeginRun \/ AppendStarted \/ BumpStarted
  \/ PrepareAdapter \/ CallProvider \/ EndLive \/ PublishPair
  \/ AdapterCleared \/ PropagateOther \/ AdapterNotCleared
  \/ Account \/ AppendTerminal \/ BumpTerminal \/ StopCheck
  \/ AppendInterrupted \/ BumpInterrupted
  \/ AppendNotRun \/ AppendFinished \/ AppendFails

Next ==
  \/ Invoke \/ ProgramStep
  \/ InterruptExecutor \/ InterruptReplaced \/ InterruptScheduler \/ InterruptTail
  \/ Crash \/ Done

Spec == Init /\ [][Next]_vars

(* A running program takes its next step: every call in it returns, the    *)
(* Provider because its runner enforces provider_timeout_seconds.          *)
FairSpec == Spec /\ WF_vars(ProgramStep)

-----------------------------------------------------------------------------
(* Properties.                                                             *)

(* Every variable keeps its type; the Campaign file holds only lines the   *)
(* event models of campaign.py can produce, or one torn line.              *)
TypeOK ==
  /\ log \in Seq(Lines)
  /\ called \in [Runs -> Nat]
  /\ invocations \in 0 .. MaxInvocations
  /\ interrupts \in 0 .. MaxInterrupts /\ replaced \in BOOLEAN
  /\ policy \in Policies
  /\ exit \in {"none", "returned", "raised", "signal", "killed"}
  /\ pc \in Locations
  /\ index \in 1 .. RunCount + 1
  /\ nextIndex \in 1 .. RunCount + 1
  /\ sequence \in Nat /\ attempted \in Nat
  /\ providerCalls \in Nat /\ unknownCallRuns \in Nat /\ countedFailures \in Nat
  /\ stopReason \in StopReasons
  /\ pendingInterrupt \in BOOLEAN
  /\ stage \in {"not_attempted", "attempted", "signal_replaced"}
  /\ execution \in Executions
  /\ caught \in {"nothing", "error", "other", "interrupt"}

(* No Provider call without a `started` line already synced to the         *)
(* Campaign file: whenever the process dies, the file names every run that *)
(* may have spent a call.                                                  *)
WriteAhead == \A r \in Runs : called[r] > 0 => StartedIn(log, r)

(* No run's Provider is ever called twice, by one invocation or by several *)
(* on the same Campaign path, wherever crashes, signals and failed appends *)
(* fall (no retry, no resume).                                             *)
NoRetry == \A r \in Runs : called[r] <= 1

(* Both: the file names every call that may have been spent, before it is  *)
(* spent, and no call is ever spent again.                                 *)
CalledOnceAndAnnounced == WriteAhead /\ NoRetry

(* When a run's Provider has been called, every earlier run had been       *)
(* concluded in the file and nothing recorded there for them should have   *)
(* stopped the Campaign: no harness or cleanup failure, no interruption,   *)
(* no not_run, no counted failure under fail_fast, and fewer counted       *)
(* failures than max_failures.                                             *)
Stops(line) ==
  \/ line.status \in {"interrupted", "not_run"}
  \/ line.outcome \in {"harness_failure", "cleanup_failure"}
  \/ policy.failFast /\ line.outcome \in CountedOutcomes

CountedLinesBefore(r) ==
  {i \in TerminalLines(log) : log[i].run < r /\ log[i].outcome \in CountedOutcomes}

StopHonoured ==
  \A r \in Runs : called[r] > 0 =>
    /\ \A s \in 1 .. r - 1 : TerminalIn(log, s)
    /\ \A i \in TerminalLines(log) : log[i].run < r => ~Stops(log[i])
    /\ policy.maxFailures # 0 => Cardinality(CountedLinesBefore(r)) < policy.maxFailures

(* A Ctrl-C is never swallowed, although it may have been caught, held     *)
(* back over the adapter cleanup and turned into a cleanup failure on its  *)
(* way: an invocation that received one returns a summary only when it was *)
(* the only one, it fell into run_live_codex and was lost there to a       *)
(* temporary root that could not be removed, and then the Campaign stopped *)
(* at that run as failed.                                                  *)
SignalNeverSwallowed ==
  exit = "returned" /\ interrupts > 0 =>
    /\ interrupts = 1 /\ replaced
    /\ log[Len(log)].type = "campaign_finished"
    /\ log[Len(log)].stop \in {"harness_failure", "cleanup_failure"}

(* A Campaign file the strict loader accepts tells the truth about the     *)
(* Provider: a not_run run was never called, a known call count is the     *)
(* number of calls made, and the totals bracket the calls really made.     *)
AcceptedLogIsTruthful ==
  CampaignLoads(log) =>
    /\ \A i \in TerminalLines(log) :
         log[i].calls # Unknown => log[i].calls = called[log[i].run]
    /\ LET made == Cardinality({r \in Runs : called[r] = 1})
           finished == log[Len(log)]
       IN finished.calls <= made /\ made <= finished.calls + finished.unknown

(* Every file the scheduler finished is one load_campaign accepts.         *)
FinishedLogLoads == FinishedIn(log) => CampaignLoads(log)

(* The same, except for a Campaign stopped by its very last run: it has a  *)
(* stop reason and no not_run line to carry it.                            *)
FinishedLogLoadsUnlessLastRunStopped ==
  FinishedIn(log) /\ (log[Len(log)].stop = "none" \/ \E r \in Runs : NotRunIn(log, r))
    => CampaignLoads(log)

(* Every invocation ends: the loop, the executor and both tails cannot     *)
(* hang or go round for ever.                                              *)
Terminates == (pc # "idle") ~> (pc = "idle")

(* The scheduler implements the abstract Campaign: phase and status are    *)
(* read off the file.                                                      *)
JournalStatus ==
  IF log = << >> THEN "absent" ELSE IF FinishedIn(log) THEN "closed" ELSE "open"

JournalPhase ==
  [r \in Runs |->
     IF NotRunIn(log, r) THEN "not_run"
     ELSE IF EndedIn(log, r) THEN "ended"
     ELSE IF StartedIn(log, r) THEN "started" ELSE "planned"]

Journal == INSTANCE CampaignJournal WITH status <- JournalStatus, phase <- JournalPhase

ImplementsJournal == Journal!Spec
=============================================================================
