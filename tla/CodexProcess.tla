----------------------------- MODULE CodexProcess -----------------------------
(***************************************************************************)
(* CodexProcessRunner (codex_provider.py): one Codex process, fed with the *)
(* Prompt and parsed while it runs, terminated when something is wrong,    *)
(* and the evidence about it, which has to satisfy CodexContract.          *)
(*                                                                         *)
(* The Provider is the parent process, which writes one of Scripts, reads  *)
(* as much of the Prompt as it likes and ends when it likes, and one       *)
(* descendant, which may leave the process group. The termination of the   *)
(* group is the one of SafeRunner, reduced here to: signals are sent, the  *)
(* pipes are drained meanwhile, and the group is empty in time or not.     *)
(***************************************************************************)
EXTENDS CodexParser, CodexContract

CONSTANTS
  Scripts,          \* what the Provider may write to stdout
  WriteEnds,        \* bound: how much is written when one of its writes ends
  PromptSize,       \* pieces of the Prompt
  MaxInterrupts     \* bound on Ctrl-C deliveries

ASSUME ScriptAssumption == Scripts \subseteq Seq(Units)
ASSUME WriteAssumption == WriteEnds \subseteq Nat
ASSUME PromptAssumption == PromptSize \in Nat \ {0}
ASSUME InterruptAssumption == MaxInterrupts \in Nat

VARIABLES
  \* the Provider
  script, emitted,     \* what it writes, and how much of it is written
  parent,              \* "unborn", "running", "zombie" or "reaped"
  child,               \* "none", "member", "escaped" or "gone"
  exitCode,            \* of the parent, once it ended
  takesInput,          \* the parent keeps the read end of stdin open
  signalled,           \* the runner has signalled the group
  ownExit,             \* the parent ended without that
  \* the collection
  pc, loop,            \* the next statement, and the loop or handler it works for
  ready,               \* events of the current select not yet handled
  registered,          \* streams in the selector
  offset,              \* prompt_offset
  parser, failure, protocol, timedOut, raised,
  expired,             \* the deadline of the current wait has passed
  code,                \* return_code
  termination,
  \* CodexLifecycleTracker, the outcome, the environment
  invocation, cleanup, outcome, evidence, interrupts

provider == << script, emitted, parent, child, exitCode, takesInput, ownExit >>
collected == << offset, parser, failure, protocol, timedOut, raised, code >>
lifecycle == << invocation, cleanup >>
ended == << outcome, evidence >>
vars == << provider, signalled, pc, loop, ready, registered, collected, expired, termination,
           lifecycle, ended, interrupts >>

Codes == {"none", "zero", "positive", "signal"}
NoTermination == [reason |-> "none", cleared |-> TRUE]
NoEvidence == [kind |-> "unset"]

(* Locations inside the try block around the collection loop, given that   *)
(* `loop` is one of TryLoops; the other callers of the termination are its *)
(* handlers.                                                               *)
Collecting == {"select", "handle", "check", "inspect", "wait", "after", "direct"}
Waiting == {"select", "handle", "check", "wait", "direct"}
TryLoops == {"collect", "terminate", "output"}

Init ==
  /\ script \in Scripts /\ emitted = 0
  /\ parent = "unborn" /\ child = "none" /\ exitCode = "none"
  /\ takesInput = TRUE /\ signalled = FALSE /\ ownExit = FALSE
  /\ pc = "start" /\ loop = "collect" /\ ready = {} /\ registered = {}
  /\ offset = 0 /\ parser = NewParser /\ failure = "none" /\ protocol = "none"
  /\ timedOut = FALSE /\ raised = FALSE /\ expired = FALSE /\ code = "none"
  /\ termination = NoTermination
  /\ invocation = "not_attempted" /\ cleanup = "not_applicable"
  /\ outcome = "none" /\ evidence = NoEvidence
  /\ interrupts = 0

-----------------------------------------------------------------------------
(* The Provider.                                                           *)

RunnerUnchanged ==
  UNCHANGED << signalled, pc, loop, ready, registered, collected, expired, termination,
               lifecycle, ended, interrupts >>

Emit ==
  /\ parent = "running"
  /\ \E n \in WriteEnds \cup {Len(script)} :
       emitted < n /\ n <= Len(script) /\ emitted' = n
  /\ UNCHANGED << script, parent, child, exitCode, takesInput, ownExit >>
  /\ RunnerUnchanged

CloseInput ==
  /\ parent = "running" /\ takesInput
  /\ takesInput' = FALSE
  /\ UNCHANGED << script, emitted, parent, child, exitCode, ownExit >>
  /\ RunnerUnchanged

ForkChild ==
  /\ parent = "running" /\ child = "none"
  /\ child' = "member"
  /\ UNCHANGED << script, emitted, parent, exitCode, takesInput, ownExit >>
  /\ RunnerUnchanged

ChildMoves ==
  /\ \/ child = "member" /\ child' = "escaped"
     \/ child \in {"member", "escaped"} /\ child' = "gone"
  /\ UNCHANGED << script, emitted, parent, exitCode, takesInput, ownExit >>
  /\ RunnerUnchanged

EndParent ==
  /\ parent = "running"
  /\ parent' = "zombie"
  /\ exitCode' \in Codes \ {"none"}
  /\ ownExit' = ~signalled
  /\ UNCHANGED << script, emitted, child, takesInput >>
  /\ RunnerUnchanged

ProviderStep == Emit \/ CloseInput \/ ForkChild \/ ChildMoves \/ EndParent

Group == (IF parent \in {"running", "zombie"} THEN {"parent"} ELSE {})
         \cup (IF child = "member" THEN {"child"} ELSE {})
ChildAlive == child \in {"member", "escaped"}
HasReader == ChildAlive \/ (parent = "running" /\ takesInput)   \* of stdin
HasWriter == ChildAlive \/ parent = "running"                   \* of stdout
Written == SubSeq(script, 1, emitted)
Unread == SubSeq(script, parser.total + 1, emitted)

Exited == parent \in {"zombie", "reaped"}
PolledCode == IF Exited THEN exitCode ELSE "none"

(* process.poll(), which reaps the parent.                                 *)
Poll ==
  /\ parent' = IF parent = "zombie" THEN "reaped" ELSE parent
  /\ UNCHANGED << script, emitted, child, exitCode, takesInput, ownExit >>
GroupAfterPoll == Group \ (IF parent = "zombie" THEN {"parent"} ELSE {})

PassDeadline ==
  /\ pc \in Waiting /\ ~expired
  /\ expired' = TRUE
  /\ UNCHANGED << provider, signalled, pc, loop, ready, registered, collected, termination,
                  lifecycle, ended, interrupts >>

-----------------------------------------------------------------------------
(* Evidence, whose contract is in CodexContract.                           *)

StdinState ==
  CASE offset = 0 -> "not_started"
    [] offset = PromptSize -> "complete"
    [] OTHER -> "partial"

(* Built from the tracker, the termination and the parser summary p as     *)
(* they are after the step.                                                *)
Evidence(kind, stage, p, limit) ==
  [kind |-> kind, stage |-> stage, runner |-> "started",
   execution |-> ExecutionStage(invocation'),
   invocation |-> invocation', cleanup |-> cleanup',
   stdin |-> StdinState, code |-> code', events |-> p.events, threads |-> p.threads,
   turns |-> p.turns, errors |-> p.errors, terminal |-> p.terminal,
   hint |-> p.terminal # "turn_completed" /\ p.hints,
   limit |-> limit, reason |-> termination'.reason, cleared |-> termination'.cleared]

Ends(how, e) == outcome' = how /\ evidence' = e /\ pc' = "ended"

(* CodexRunnerError, and what run_live_codex then builds from the tracker: *)
(* evidence (lifecycle_failure_evidence), or, when it was evidence that    *)
(* broke its contract (HandoffStage), a Failure Diagnostic, whose failure  *)
(* kind and lifecycle follow the same rule.                                *)
RaiseRunnerError(stage, limit) ==
  Ends("runner_error",
       Evidence(IF cleanup' = "failed" THEN "process_cleanup_error" ELSE "evidence_error",
                stage, parser', limit))

(* _result_from_evidence: evidence that breaks its contract raises.        *)
ReturnEvidence(e, limit) ==
  \/ Accepted(e) /\ Ends("result", e)
  \/ ~Accepted(e) /\ RaiseRunnerError(HandoffStage, limit)

-----------------------------------------------------------------------------
(* _run up to the collection.                                              *)

BeforeCollection ==
  UNCHANGED << signalled, ready, registered, collected, expired, interrupts >>

(* The platform check, the parser, argv and the environment.               *)
PrepareFails ==
  /\ pc = "start"
  /\ UNCHANGED << provider, loop, termination, lifecycle >> /\ BeforeCollection
  /\ \/ \E stage \in PreSpawnStages \ {"provider_runtime_precheck"} :
          ReturnEvidence(Evidence("evidence_error", stage, parser, FALSE), FALSE)
     \/ Ends("unsupported",
             Evidence("unsupported_platform", "provider_runtime_precheck", parser, FALSE))

Prepare ==
  /\ pc = "start"
  /\ pc' = "spawn"
  /\ invocation' = "spawn_attempted"
  /\ UNCHANGED << provider, loop, termination, ended, cleanup >> /\ BeforeCollection

SpawnFails ==
  /\ pc = "spawn"
  /\ UNCHANGED << provider, loop, termination, lifecycle >> /\ BeforeCollection
  /\ \E kind \in SpawnKinds :
       ReturnEvidence(Evidence(kind, "provider_process_spawn", parser, FALSE), FALSE)

Spawn ==
  /\ pc = "spawn"
  /\ parent' = "running"
  /\ pc' = "mark"
  /\ UNCHANGED << script, emitted, child, exitCode, takesInput, ownExit, loop,
                  termination, lifecycle, ended >>
  /\ BeforeCollection

MarkProcessStarted ==
  /\ pc = "mark"
  /\ invocation' = "process_started" /\ cleanup' = "unobserved"
  /\ pc' = "pipes"
  /\ UNCHANGED << provider, loop, termination, ended >> /\ BeforeCollection

StartTermination(caller, reason) ==
  /\ pc' = "inspect" /\ loop' = caller
  /\ termination' = [NoTermination EXCEPT !.reason = reason]

OpenPipes ==
  /\ pc = "pipes"
  /\ registered' = {"stdin", "stdout"}
  /\ pc' = "select"
  /\ UNCHANGED << provider, signalled, loop, ready, collected, expired, termination,
                  lifecycle, ended, interrupts >>

PipesFail ==
  /\ pc = "pipes"
  /\ StartTermination("pipes_failed", "emergency_cleanup")
  /\ UNCHANGED << provider, lifecycle, ended >> /\ BeforeCollection

-----------------------------------------------------------------------------
(* drain_once: one select and its events, each stream at most once.        *)

Fail(kind) == failure' = IF failure = "none" THEN kind ELSE failure
Close(name) == registered' = registered \ {name}
Handled(name) == name \in ready /\ ready' = ready \ {name}
InHandle ==
  /\ pc = "handle"
  /\ UNCHANGED << provider, signalled, timedOut, expired, code, lifecycle, ended,
                  interrupts >>
StaysInHandle == UNCHANGED << pc, loop, termination, raised >>

(* stdout is ready with data or at its end; stdin whenever the pipe takes  *)
(* more or nobody will ever read it.                                       *)
Select ==
  /\ pc = "select"
  /\ \E writable \in SUBSET (registered \cap {"stdin"}) :
       /\ ~HasReader /\ "stdin" \in registered => "stdin" \in writable
       /\ ready' = writable \cup
            (IF Unread # << >> \/ ~HasWriter THEN registered \cap {"stdout"} ELSE {})
  /\ pc' = "handle"
  /\ UNCHANGED << provider, signalled, loop, registered, collected, expired, termination,
                  lifecycle, ended, interrupts >>

SelectFails ==
  /\ pc = "select" /\ registered # {}
  /\ Fail("evidence_error")
  /\ pc' = "handle" /\ ready' = {}
  /\ UNCHANGED << provider, signalled, loop, registered, offset, parser, protocol, timedOut,
                  raised, expired, code, termination, lifecycle, ended, interrupts >>

WriteStdin ==
  /\ InHandle /\ Handled("stdin") /\ HasReader
  /\ \E n \in 1 .. PromptSize - offset : offset' = offset + n
  /\ IF offset' = PromptSize THEN Close("stdin") ELSE UNCHANGED registered
  /\ UNCHANGED << parser, failure, protocol >> /\ StaysInHandle

(* BrokenPipeError replaces a failure seen earlier.                        *)
StdinBreaks ==
  /\ InHandle /\ Handled("stdin") /\ ~HasReader
  /\ failure' = "provider_input_error"
  /\ Close("stdin")
  /\ UNCHANGED << offset, parser, protocol >> /\ StaysInHandle

(* A chunk, here all there is (the cutting of the stream is the subject of *)
(* CodexStream); a protocol error replaces a failure seen earlier, any     *)
(* other exception leaves the loop.                                        *)
ReadStdout ==
  /\ InHandle /\ Handled("stdout") /\ Unread # << >>
  /\ LET fed == Feed(parser, Unread) IN
       /\ parser' = fed.parser
       /\ CASE fed.raised = "none" -> StaysInHandle /\ UNCHANGED << failure, protocol >>
            [] fed.raised = "exception" ->
                 /\ StartTermination("except", "emergency_cleanup") /\ raised' = TRUE
                 /\ UNCHANGED << failure, protocol >>
            [] OTHER -> /\ protocol' = fed.raised
                        /\ failure' = IF fed.raised = "output_limit"
                                      THEN "provider_output_limit"
                                      ELSE "provider_protocol_error"
                        /\ StaysInHandle
  /\ UNCHANGED << registered, offset >>

StdoutEnds ==
  /\ InHandle /\ Handled("stdout") /\ Unread = << >> /\ ~HasWriter
  /\ Close("stdout")
  /\ UNCHANGED << offset, parser, failure, protocol >> /\ StaysInHandle

ReadFails ==
  /\ InHandle /\ Handled("stdout")
  /\ Fail("evidence_error")
  /\ Close("stdout")
  /\ UNCHANGED << offset, parser, protocol >> /\ StaysInHandle

(* drain_once returns to the loop it was called from.                      *)
EndDrain ==
  /\ InHandle /\ ready = {}
  /\ pc' = IF loop = "terminate" THEN "wait" ELSE "check"
  /\ UNCHANGED << ready, registered, offset, parser, failure, protocol, loop, termination,
                  raised >>

-----------------------------------------------------------------------------
(* The loops of _run.                                                      *)

(* Mutant: only an exit ends the collection.                               *)
CheckCollection_ignoresDeadline ==
  /\ pc = "check" /\ loop = "collect"
  /\ Poll
  /\ code' = PolledCode
  /\ CASE failure # "none" -> StartTermination("terminate", "emergency_cleanup")
       [] failure = "none" /\ Exited ->
            /\ \/ GroupAfterPoll # {} /\ StartTermination("terminate", "residual_process")
               \/ GroupAfterPoll = {} /\ pc' = "after" /\ UNCHANGED << loop, termination >>
       [] OTHER -> pc' = "select" /\ UNCHANGED << loop, termination >>
  /\ UNCHANGED << signalled, ready, registered, offset, parser, failure, protocol, timedOut,
                  raised, expired, lifecycle, ended, interrupts >>

(* After one drain_once of the collection loop.                            *)
CheckCollection ==
  /\ pc = "check" /\ loop = "collect"
  /\ Poll
  /\ code' = PolledCode
  /\ CASE failure # "none" -> /\ StartTermination("terminate", "emergency_cleanup")
                           /\ UNCHANGED timedOut
       [] failure = "none" /\ Exited ->
            /\ UNCHANGED timedOut
            /\ \/ GroupAfterPoll # {} /\ StartTermination("terminate", "residual_process")
               \/ GroupAfterPoll = {} /\ pc' = "after" /\ UNCHANGED << loop, termination >>
       [] failure = "none" /\ ~Exited /\ expired ->
            timedOut' = TRUE /\ StartTermination("terminate", "timeout")
       [] OTHER -> pc' = "select" /\ UNCHANGED << loop, timedOut, termination >>
  /\ UNCHANGED << signalled, ready, registered, offset, parser, failure, protocol, raised,
                  expired, lifecycle, ended, interrupts >>

(* process_group_exists fails: nothing is known about the group.           *)
InspectionFails ==
  /\ pc = "check" /\ loop = "collect" /\ failure = "none" /\ Exited
  /\ Poll
  /\ code' = PolledCode
  /\ termination' = [reason |-> "residual_process", cleared |-> FALSE]
  /\ pc' = "after"
  /\ UNCHANGED << signalled, loop, ready, registered, offset, parser, failure, protocol,
                  timedOut, raised, expired, lifecycle, ended, interrupts >>

(* terminate_process_group: inspect, SIGTERM, after a while SIGKILL. Only   *)
(* the one called from the loop drains the pipes while it waits.           *)
SignalGroup ==
  /\ pc = "inspect" /\ Group # {}
  /\ signalled' = TRUE /\ expired' = FALSE
  /\ pc' = "wait"
  /\ UNCHANGED << provider, loop, ready, registered, collected, termination, lifecycle,
                  ended, interrupts >>

DrainInTermination ==
  /\ pc = "wait" /\ loop = "terminate" /\ registered # {}
  /\ pc' = "select"
  /\ UNCHANGED << provider, signalled, loop, ready, registered, collected, expired,
                  termination, lifecycle, ended, interrupts >>

(* What the caller does with the result: it polls (the residual path has   *)
(* its return code already), and the handlers choose the failure.          *)
Terminated(cleared) ==
  LET kind == IF cleared THEN "evidence_error" ELSE "process_cleanup_error" IN
  /\ Poll
  /\ termination' = [termination EXCEPT !.cleared = cleared]
  /\ code' = IF termination.reason = "residual_process" THEN code ELSE PolledCode
  /\ cleanup' = IF loop \notin {"pipes_failed", "emergency"} THEN cleanup
                ELSE IF cleared THEN "cleared" ELSE "failed"
  /\ UNCHANGED << signalled, loop, ready, registered, offset, parser, protocol, timedOut,
                  raised, expired, invocation, interrupts >>
  /\ CASE loop = "terminate" -> pc' = "after" /\ UNCHANGED << failure, ended >>
       [] loop = "except" -> pc' = "close" /\ failure' = kind /\ UNCHANGED ended
       [] loop = "pipes_failed" ->
            /\ UNCHANGED failure
            /\ ReturnEvidence(
                 Evidence(kind, "provider_pipe_selector_initialization", parser, FALSE), FALSE)
       [] loop = "emergency" -> pc' = "interrupted" /\ UNCHANGED << failure, ended >>

(* Mutant: a group that was signalled is taken for cleared.                *)
GroupCleared_afterSignal ==
  /\ \/ pc = "inspect" /\ Group = {}
     \/ pc = "wait"
  /\ Terminated(TRUE)

GroupCleared ==
  /\ \/ pc = "inspect" /\ Group = {}
     \/ pc = "wait" /\ GroupAfterPoll = {}
  /\ Terminated(TRUE)

(* Members remain after SIGKILL.                                           *)
GroupRemains ==
  /\ pc = "wait" /\ GroupAfterPoll # {} /\ expired
  /\ Terminated(FALSE)

(* killpg fails, at an inspection or at a signal.                          *)
GroupCallFails ==
  /\ pc \in {"inspect", "wait"}
  /\ Terminated(FALSE)

(* A parent still running is killed directly, and the group counts as not  *)
(* cleared whatever comes of it. Then the rest of the output.              *)
StartOutput == pc' = "check" /\ loop' = "output" /\ expired' = FALSE

After ==
  /\ pc = "after"
  /\ Poll
  /\ IF Exited THEN StartOutput /\ UNCHANGED signalled
     ELSE pc' = "direct" /\ signalled' = TRUE /\ expired' = FALSE /\ UNCHANGED loop
  /\ UNCHANGED << ready, registered, collected, termination, lifecycle, ended,
                  interrupts >>

DirectWait ==
  /\ pc = "direct" /\ (Exited \/ expired)
  /\ Poll
  /\ code' = PolledCode
  /\ termination' =
       [reason |-> IF termination.reason = "none" THEN "emergency_cleanup"
                   ELSE termination.reason,
        cleared |-> FALSE]
  /\ StartOutput
  /\ UNCHANGED << signalled, ready, registered, offset, parser, failure, protocol, timedOut,
                  raised, lifecycle, ended, interrupts >>

CheckOutput ==
  /\ pc = "check" /\ loop = "output"
  /\ IF "stdout" \in registered /\ ~expired
     THEN pc' = "select" /\ UNCHANGED failure
     ELSE /\ pc' = "close"
          /\ IF "stdout" \in registered THEN Fail("evidence_error") ELSE UNCHANGED failure
  /\ UNCHANGED << provider, signalled, loop, ready, registered, offset, parser, protocol,
                  timedOut, raised, code, expired, termination, lifecycle, ended, interrupts >>

(* `except Exception` around all of this: poll, select or the parser       *)
(* raised something nobody expects.                                        *)
CollectionRaises ==
  /\ pc \in Collecting /\ loop \in TryLoops /\ ~raised
  /\ raised' = TRUE
  /\ StartTermination("except", "emergency_cleanup")
  /\ ready' = {}
  /\ UNCHANGED << provider, signalled, registered, offset, parser, failure, protocol,
                  timedOut, code, expired, lifecycle, ended, interrupts >>

(* `finally`: the streams and the selector are closed.                     *)
CloseStreams ==
  /\ pc = "close"
  /\ pc' = "judge" /\ registered' = {} /\ ready' = {}
  /\ UNCHANGED << provider, signalled, loop, collected, expired, termination, lifecycle,
                  ended, interrupts >>

CloseFails ==
  /\ pc = "close"
  /\ Fail("evidence_error")
  /\ pc' = "judge" /\ registered' = {} /\ ready' = {}
  /\ UNCHANGED << provider, signalled, loop, offset, parser, protocol, timedOut, raised,
                  code, expired, termination, lifecycle, ended, interrupts >>

-----------------------------------------------------------------------------
(* The verdict.                                                            *)

(* The kinds that follow from what the Provider said and how it ended.     *)
ProviderVerdict(failed, finish) ==
  IF code = "signal" THEN "provider_signal_termination"
  ELSE IF failed THEN "provider_turn_failed"
  ELSE IF finish.raised = "protocol_error" /\ finish.buffered THEN "provider_protocol_error"
  ELSE IF code # "zero" THEN "provider_cli_nonzero"
  ELSE IF finish.raised = "protocol_error" THEN "provider_protocol_error"
  ELSE IF offset # PromptSize THEN "provider_input_error"
  ELSE "none"

(* Mutant: a failure seen during the collection does not count any more    *)
(* once the Provider has said how its turn ended.                          *)
Classify_verdictFirst(failed, finish) ==
  IF ~termination.cleared THEN "process_cleanup_error"
  ELSE IF timedOut THEN "provider_timeout"
  ELSE IF failed \/ finish.raised = "none" \/ failure = "none"
  THEN ProviderVerdict(failed, finish)
  ELSE failure

(* The order in which _run asks.                                           *)
Classify(failed, finish) ==
  IF ~termination.cleared THEN "process_cleanup_error"
  ELSE IF timedOut THEN "provider_timeout"
  ELSE IF failure # "none" THEN failure
  ELSE ProviderVerdict(failed, finish)

(* observe_termination, parser.finish (skipped after a protocol error; its *)
(* summary replaces the one taken before only if it does not raise), the   *)
(* classification and the evidence. An exception of finish leaves _run.    *)
Judge ==
  /\ pc = "judge"
  /\ UNCHANGED << provider, signalled, loop, ready, registered, offset, failure, protocol,
                  timedOut, expired, code, termination, invocation, interrupts >>
  /\ cleanup' = IF termination.cleared THEN "cleared" ELSE "failed"
  /\ LET finish == IF protocol = "none" THEN Finish(parser)
                   ELSE [parser |-> parser, raised |-> "none", buffered |-> FALSE]
         summary == IF finish.raised = "none" THEN finish.parser ELSE parser
         kind == Classify(summary.terminal = "turn_failed", finish)
         limit == "output_limit" = protocol \/ failure = "provider_output_limit"
     IN
     /\ parser' = finish.parser
     /\ IF finish.raised = "exception"
        THEN raised' = TRUE /\ RaiseRunnerError("provider_process_collection", FALSE)
        ELSE /\ UNCHANGED raised
             /\ ReturnEvidence(
                  Evidence(kind,
                           IF kind = "none" THEN "none" ELSE "provider_process_collection",
                           summary, limit),
                  limit)

-----------------------------------------------------------------------------
(* Ctrl-C: the finally block closes the streams, and run() terminates the  *)
(* group of a process that the tracker knows and nobody has cleaned up yet *)
(* (_emergency_cleanup), then the exception goes on.                       *)

Tracked == invocation = "process_started" /\ cleanup = "unobserved"

Interrupted ==
  /\ registered' = {} /\ ready' = {}
  /\ IF Tracked /\ loop # "emergency"
     THEN StartTermination("emergency", "emergency_cleanup")
     ELSE pc' = "interrupted" /\ UNCHANGED << loop, termination >>
  /\ UNCHANGED << provider, signalled, collected, expired, lifecycle, ended >>

(* Mutant: only ordinary exceptions are cleaned up after.                  *)
Interrupt_noCleanup ==
  /\ interrupts < MaxInterrupts /\ interrupts' = interrupts + 1
  /\ pc \notin {"ended", "interrupted"}
  /\ pc' = "interrupted" /\ registered' = {} /\ ready' = {}
  /\ UNCHANGED << provider, signalled, loop, collected, expired, termination, lifecycle,
                  ended >>

Interrupt ==
  /\ interrupts < MaxInterrupts /\ interrupts' = interrupts + 1
  /\ pc \notin {"ended", "interrupted"}
  /\ Interrupted

Done == pc \in {"ended", "interrupted"} /\ UNCHANGED vars

DrainStep ==
  Select \/ WriteStdin \/ StdinBreaks \/ ReadStdout \/ StdoutEnds \/ EndDrain

RunnerStep ==
  \/ Prepare \/ Spawn \/ MarkProcessStarted \/ OpenPipes
  \/ DrainStep \/ CheckCollection
  \/ SignalGroup \/ DrainInTermination \/ GroupCleared \/ GroupRemains
  \/ After \/ DirectWait \/ CheckOutput
  \/ CloseStreams \/ Judge

RunnerFault ==
  \/ PrepareFails \/ SpawnFails \/ PipesFail \/ SelectFails \/ ReadFails
  \/ InspectionFails \/ GroupCallFails \/ CollectionRaises \/ CloseFails

Next ==
  ProviderStep \/ RunnerStep \/ RunnerFault \/ PassDeadline \/ Interrupt \/ Done

Spec == Init /\ [][Next]_vars

(* Time passes, the runner runs, and a group whose last wait is over is    *)
(* given up. drain_once handles each stream at most once, so, other than   *)
(* for the Safe Runner, no assumption about the Provider is needed.        *)
FairSpec ==
  /\ Spec
  /\ WF_vars(PassDeadline) /\ WF_vars(RunnerStep)
  /\ SF_vars(GroupCleared \/ GroupRemains)

-----------------------------------------------------------------------------
VerdictKinds ==
  {"none", "provider_turn_failed", "provider_cli_nonzero", "provider_signal_termination"}

(* A run counted for or against the Provider is the Provider's own doing:  *)
(* it ended by itself, not by a signal of the runner, its exit code and    *)
(* all it wrote are what the evidence says, and nothing is left that could *)
(* still write. A success is one completed turn after the whole Prompt.    *)
VerdictIsTheProviders ==
  pc = "ended" /\ evidence.kind \in VerdictKinds =>
    /\ ownExit /\ evidence.code = exitCode
    /\ Group = {} /\ ~HasWriter /\ Unread = << >>
    /\ evidence.kind = "none" =>
         /\ exitCode = "zero" /\ offset = PromptSize
         /\ IsCompletedTurn(Written)

(* CODEX_PROVIDER.md: an unknown exception of the collection, or of the    *)
(* steps after it, ends as evidence_error or process_cleanup_error, never  *)
(* as a verdict on the Provider. It may fall after a timeout or a protocol *)
(* error was seen, and then it is the strict evidence contract that        *)
(* refuses the stale one and a Diagnostic that is written.                 *)
UnknownExceptionIsHarness ==
  pc = "ended" /\ raised => evidence.kind \in HarnessKinds

(* The kind of failure a run is put down to is the true one.               *)
ClassificationIsTrue == VerdictIsTheProviders /\ UnknownExceptionIsHarness

(* Whatever happened, the record the run ends with (its own evidence, or   *)
(* the one made from the tracker after CodexRunnerError) satisfies the     *)
(* strict contract, and it says of the process what was the case.          *)
EvidenceIsAccepted ==
  pc = "ended" =>
    /\ Accepted(evidence)
    /\ (evidence.invocation = "process_started") = (parent # "unborn")
    /\ evidence.cleared => Group = {}

(* CODEX_PROVIDER.md: Ctrl-C collects the group as well. One of them       *)
(* leaves no member, or the tracker says it failed, unless it falls        *)
(* between Popen and mark_process_started: _emergency_cleanup knows no     *)
(* process then.                                                           *)
InterruptCollects ==
  pc = "interrupted" /\ invocation = "process_started" => Group = {} \/ cleanup = "failed"

(* A run ends, although the Provider may hang, write for ever, keep the    *)
(* pipes open, ignore its input and survive every signal.                  *)
RunEnds == (pc = "start") ~> (pc \in {"ended", "interrupted"})
=============================================================================
