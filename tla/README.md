# A verification of agentlab

`agentlab` runs controlled experiments with AI coding agents: a preregistered
Plan of runs is executed one after the other, each run lets a Provider (the
Codex CLI) edit a disposable copy of a fixture, judges the result with quality
gates, and leaves evidence from which reports are made offline. What the
experiment is worth depends on a few promises that are hard to test: a Provider
call is never repeated and never forgotten, a stop condition really stops, the
evidence agrees with what happened, and no process outlives its run. This
directory states such promises in TLA+, checks them with TLC on small instances
and proves the most important ones with TLAPS.

The implementation is `src/agentlab/*.py` (21 files, about 24 000 lines of
Python, POSIX only). It is sequential: one process, no threads, no asyncio. The
hard behaviour comes from elsewhere: child processes that run concurrently with
it, signals (Ctrl-C) between any two statements, kills
between two system calls, system calls that fail, and other `agentlab`
processes working on the same files.

## 1. Inventory

| Component (file) | State it keeps | Operations | What makes it correct |
|---|---|---|---|
| Campaign scheduler (`campaign.py`) | the append-only Campaign JSONL file; counters and `next_index` of one invocation | create the file, announce a run, execute it, record it, decide whether to stop, close with `not_run` and `campaign_finished` | announce before calling; at most one call per run ever; stop conditions honoured; file accepted by its own loader and true |
| Campaign contract (`campaign.py`) | none (a predicate on a file) | validate an event, `load_campaign` | accepts what the scheduler finishes, rejects what is false |
| Safe Runner (`runner.py`) | a child process group, two pipes, a deadline | spawn, collect, terminate (SIGTERM, grace, SIGKILL), drain, judge | ends always; "cleared" means gone; the verdict is the command's own |
| Codex runner and parser (`codex_provider.py`) | lifecycle tracker, parser state, stdin offset, output counters | preflight, spawn, feed stdin, parse JSONL events, terminate, classify, emergency cleanup | evidence agrees with the life cycle; a call that may have happened is recorded; exactly one terminal event |
| Live run (`live.py`) | Workspace life cycle, gate tracker, Provider evidence | preflight, Workspace, Provider, source check, gates, cleanup, publish, Diagnostic | every exit leaves a pair, a Diagnostic or an error that says so; Workspace removed or reported |
| Pair publication (`live.py`, `workflow.py`) | two destination paths, temporary files, a backup | stage, link or replace, roll back, clean up | both files or none; create-only never touches foreign files; Evidence keeps its Recording |
| Quality gates (`gates.py`) | the list of command results | run each gate, stop at a harness failure, write evidence | a harness failure is never reported as a gate failure |
| Workspace (`workspace.py`) | temporary tree, source snapshot | prepare, snapshot, diff, remove | the source is unchanged; nothing is left behind |
| Plan (`workflow.py`) | Plan and publication files | build (balanced random order), publish create-only, load, input check | deterministic from the Spec; paths unique |
| Phase 6 campaign (`phase6_campaign.py`) | Campaign JSONL, per-run output pair, approval binding | authorise, run each case, gates, record, close | as the Workflow campaign, with a second evidence model |
| Phase 6 contracts (`phase6.py`, `phase6_fixtures.py`) | none | validators and strict loaders | accept what Phase 6 writes |
| Approval and public report (`phase6_approval.py`, `phase6_public.py`) | published directory and anchor | publish by rename without replacement, roll back what is owned | nothing foreign removed; both or none |
| Antigravity provider (`antigravity_provider.py`) | as the Codex runner | as the Codex runner | as the Codex runner |
| Recording, replay, reports (`recording.py`, `replay.py`, `workflow_report.py`) | none | load strictly, replay, aggregate | pure functions of files |
| Models, specs, capabilities (`models.py`, `specs.py`, `capabilities.py`) | none | validation | data contracts |
| CLI (`cli.py`) | none | parse, dispatch, exit codes | each error to its code |

How they interact. `cli` calls `run_workflow_campaign`, which calls its executor
for every run; the executor materialises a private adapter directory and calls
`run_live_codex`; that one runs the Codex process, then the gates through
`LocalCommandRunner` in the Workspace, and publishes a Recording/Evidence pair,
which the executor publishes again at the reserved paths; then it cleans the
adapter directory up and the scheduler records the run. Exceptions travel the
other way, and each layer catches some: `LiveCodexError`, `CampaignError`,
`OSError` and `ValueError` become a harness failure, `KeyboardInterrupt` and
`SystemExit` are held over the cleanup and re-raised after the file is closed,
anything else ends the invocation. `workflow_report` later loads the file with
`load_campaign`. The processes share nothing but the file system and the
process table.

## 2. Modules

| Module | Models | Source |
|---|---|---|
| `CampaignLog` | events, event validator, strict loader, as predicates on a sequence of lines | `campaign.py` 75-440 |
| `CampaignJournal` | the abstract Campaign: runs in order, announced before called, called at most once, closed for ever | what both schedulers promise |
| `WorkflowCampaign` | the scheduler, the default executor and the file (EXTENDS `CampaignLog`); implements `CampaignJournal` (INSTANCE) | `campaign.py` 302-345, 557-994 |
| `WorkflowReport` | the report of a saved Campaign: what it accepts and what it counts (EXTENDS `CampaignLog`) | `workflow_report.py` 212-229, 281-290, 369-383, 496-581, 795-938 |
| `ReportedCampaign`, `MCReportedCampaign` | the scheduler with the Artifacts it publishes, beside another Campaign at the same paths, and the report made of both (EXTENDS `WorkflowCampaign`, `WorkflowReport`) | `campaign.py` 450-492, 557-706; `workflow.py` 622-654 |
| `SafeRunner` | `LocalCommandRunner.run`, `_terminate_process_group` and a concurrent command | `runner.py` 45-131, 247-675 |
| `PairPublication`, `MCPairPublication` | the three ways a Recording/Evidence or Plan pair is published, by concurrent writers | `live.py` 617-788, `workflow.py` 604-655 |
| `CodexParser` | `CodexJsonlParser` as operators on a parser record, and a reference definition of a completed turn | `codex_provider.py` 431-455, 627-886 |
| `CodexStream` | the parser against every stream in any chunks (EXTENDS `CodexParser`) | `codex_provider.py` 1863-1879, 1988-1993 |
| `CodexContract` | the strict contract of Codex evidence, as predicates on a record | `models.py` 156-184, 322-335, 497-512, 1459-2073 |
| `CodexProcess`, `MCCodexProcess` | `CodexProcessRunner.run`, its lifecycle tracker, and a concurrent Provider (EXTENDS `CodexParser`, `CodexContract`) | `codex_provider.py` 519-593, 1454-2186 |
| `CodexResults`, `GateResults` | the results of a Codex run and of a gate command as their callers see them, shared by both kinds of run | `codex_provider.py` 520-593, 1319-1545, 1959-1998, 2189-2249; `runner.py` 484-675 |
| `LiveContract` | the strict contracts of Recording, Evidence and Failure Diagnostic (EXTENDS `CodexContract`) | `models.py` 1252-1293, 2706-3035; `recording.py` 125-298 |
| `LivePromise` | the abstract Live run: it calls the Provider at most once and leaves at most one record, which has the right number of calls | what `run_live_codex` promises |
| `LiveRun`, `MCLiveRun` | `run_live_codex` with the preflight, the Workspace and the gates (EXTENDS `LiveContract`, `CodexResults`, `GateResults`), implements `LivePromise` (INSTANCE) | `live.py` 392-600, 881-1534; `codex_provider.py` 985-1186; `workspace.py` 189-295; `gates.py` 232-297 |
| `Phase6Contract` | the strict contracts of the Phase 6 Campaign file, of a run's observations and of its Recording and Artifact | `phase6.py` 733-3046 (parts) |
| `Phase6Report` | what binds file and Artifacts to each other, the public counts and the public record of a run (EXTENDS `Phase6Contract`) | `phase6.py` 2086-4006 (parts), `phase6_public.py` 718-876 |
| `Phase6Campaign`, `MCPhase6` | `run_phase6_campaign` with its file, Workspace, Provider, gates and outputs; implements `CampaignJournal` (INSTANCE) | `phase6_campaign.py` 640-1533 |
| `SuitePublication`, `MCSuitePublication` | how bundle, anchor, lock and approval reach the disk, by concurrent writers | `phase6_public.py` 346-380, 1316-1373, 1482-1751; `phase6_approval.py` 753-886 |
| `WorkflowCampaignProofs`, `SafeRunnerProofs`, `PairPublicationProofs`, `CodexStreamProofs`, `CodexProcessProofs`, `LiveRunProofs`, `Phase6CampaignProofs`, `SuitePublicationProofs` | theorems, see section 5 | |

### WorkflowCampaign

`pc` is the next statement of the invocation that runs, `"idle"` when none does.
A step ends where the program makes a system call or calls the Live runner,
since that is where a crash or a signal can fall; assignments that no other
step can observe are joined to the call they belong to, but the *counters are
updated in a step after the append they belong to* (`Bump...`), because the code
does so and a signal may fall between. `log` is the Campaign file; `called[r]`
counts the Provider calls really made, which the code cannot see and which every
property is about. The remaining variables are the local variables of
`run_workflow_campaign` and `_default_run_executor` under their own names.

- `Invoke`, `CreateCampaign`, `RefuseCampaign`: the start of an invocation. All
  the comparisons of Spec, Plan, Prompt and Fixture have two outcomes here:
  the invocation goes on, or it refuses and has changed nothing.
- `AppendStarted ... BumpInterrupted`: one iteration of the loop.
- `PrepareAdapter ... AdapterNotCleared`: the executor. `CallProvider` is the
  moment `run_live_codex` reaches `provider_invocation_attempted`; `EndLive` is
  its return or exception; `caught` is the exception held over the cleanup.
- `AppendNotRun`, `AppendFinished`: both tails (`pc = "tail"` after the loop,
  `"human_tail"` in the outer exception handler).
- `AppendFails`: nothing, part (`TornLine`) or all of a line is in the file
  and the exception leaves the scheduler. `Crash`: SIGKILL anywhere.
- `InterruptExecutor`: Ctrl-C in the executor, always. `InterruptReplaced`: Ctrl-C
  within `run_live_codex` that a temporary root which cannot be removed turns into an
  ordinary failure (`codex_provider.py` 1058-1069) or another exception; `replaced`
  remembers it. `InterruptScheduler` and
  `InterruptTail`: Ctrl-C before the statements of the scheduler that
  `InterruptLocations` names.

Abstracted: run identity is the position in the Plan; timestamps, digests,
experiment id and `live_failure_kind` are left out; a torn line stands for any
line that does not parse.

### WorkflowReport and ReportedCampaign

`WorkflowReport` has no state: `Reportable(f, saved)` says whether
`aggregate_workflow_campaign` comes to its counts, from the Campaign file `f` and
the files `saved` at the Recording and Evidence paths of the Plan; the counts are
operators beside it. `ArtifactOutcome` and `ReportedCampaign!Classified` are two
definitions, since the program has the classification twice (`workflow_report.py`
369, `campaign.py` 563).

`ReportedCampaign` adds `saved` to the scheduler: each of its actions is a step of
`WorkflowCampaign` with what it leaves at the paths. `PublishSucceeds`, `PublishFails`
and `PublishCutOff` are `_publish_create_only_pair`, whose steps `PairPublication`
has. The other Campaign (`Rival...`) has a Campaign path of its own and the same
Plan, so that its Artifacts carry the same identities. `spoiled` remembers that a
publication was cut off, left its first half behind, or was followed by a Ctrl-C.

### SafeRunner

One half is the command: `Parent`, the process `Popen` starts, and descendants
that fork, leave the group, close or keep the pipes, write, ignore SIGTERM and
exit whenever they like. The other half is the runner, with `pc` at its system
calls. `doomed[p]` is a fatal signal delivered but not yet acted upon, so that a
process may outlive SIGKILL for a while. An undoomed process ends with zero, with
another code or by a signal the runner did not send (a crash of its own, another
process). A zombie counts as a member of the
group until `poll()` reaps it. `expired` is the clock reaching the deadline of
the current wait. Abstracted: the bounded output buffers and their rendering.

### PairPublication

`at[f]` says whose content a path holds. The writers step between system calls
and the statements that set the `..._was_published` flags, since an interrupt
may fall there. `overlapped` is a history variable: some `--force` writer has
run at the same time as another writer. `without[w]` is one too: what the paths would
hold had `w` never written, kept up to date by the steps of the other writers
(`Witnessed`). The two halves of the pair play the
part of Recording and Evidence, for a Plan pair the Plan and its publication
record.

### CodexParser and CodexStream

A stream is a sequence of units, newlines and event texts, of which the parser
tells eight kinds apart; `bad` stands for any line that is refused in whatever
state, `deep` for one on which `json.loads` raises something that is no
`ValueError`. Limits count units in place of bytes. `Feed` (a fold over the units of
the chunk, `Fed`), `ConsumeLine` and
`Finish` follow the methods, including what stays in the buffer when they raise.
`IsCompletedTurn` says, without state and chunks, which whole streams are a
success; it is the reference the parser is checked against. `CodexStream` feeds
the parser as `drain_once` does: chunks of any size, and on after an error,
because the loop that drains the pipes during a termination does so.

### CodexProcess

The Provider writes one of `Scripts`, a sequence of units, in writes that end at a
place in `WriteEnds` or with the script, reads or closes its input, forks one
descendant that may leave the group, and ends when it likes. `pc` is at the
runner's system calls; `loop` says for which loop or handler of `_run` they are
made: `collect`, `terminate` (the termination started from it, which goes on
draining), `output` (the rest of the output), `except`, `pipes_failed`,
`emergency`. The local variables keep their names (`failure` is `failure_kind`,
`protocol` is `protocol_error`, `code` is `return_code`, `offset` is
`prompt_offset`), `invocation` and `cleanup` are the tracker's.

- `Prepare ... OpenPipes`, with `PrepareFails`, `SpawnFails`, `PipesFail`.
- `Select ... EndDrain`: one call of `drain_once`, each ready stream once.
- `CheckCollection`, `InspectionFails`, `After`, `DirectWait`, `CheckOutput`:
  the loops of `_run`; `CollectionRaises` is its `except Exception`.
- `SignalGroup ... GroupCallFails`: the termination, reduced to what
  `SafeRunner` shows of it in detail: it drains, and the group is empty in time
  or not. `Terminated` is what each caller does with the result.
- `Judge`: `parser.finish`, the classification, and the evidence. `Accepted` is
  the strict model validator, so that evidence that breaks its own contract
  takes the path it takes in the code (`RaiseRunnerError`).
- `Interrupt`: Ctrl-C, and `_emergency_cleanup`.

Abstracted: stderr is not modelled (it is read like stdout and changes no
verdict); a read takes all there is, since the cutting of the stream is the
subject of `CodexStream`; usage, hints and digests are left out except for
whether a hint exists; only evidence schema 1.6, which the runner writes.

### LiveRun

`run_live_codex` in one thread, with `pc` at its calls. A call of the Codex
runner, of one gate command and of the paired publication is one step, with the
outcomes the callee has: `RunnerResults` is every evidence `CodexContract` accepts
from the runner, `RunnerErrors` what the tracker may hold when it raises,
`CommandResults` the verdicts of `LocalCommandRunner`; that the detailed modules end
in nothing else is proved (section 5). A step that may fail has an
action for it: `FindNoExecutable`, `ProbeHasNoRoot`, `KeepProbeRoot`,
`PrepareFails`, `PrepareEscapes`, `PlatformUnsupported`, `RunnerFails`, `GatesFail`.
`PrepareFails` is an exception `prepare_disposable_workspace` cleans up after,
`PrepareEscapes` one it does not expect, after which the temporary root may stay and the
run knows of no Workspace. `RaiseUnhandled` is an exception that leaves
`run_live_codex` without any record. `BuildPair` is the
construction of Recording and Evidence, and takes the exception path when
`RecordingAccepted` or `ArtifactAccepted` refuse what the run came to; `Diagnose`
is the Diagnostic that stands in. `FinalFailure` ranks the failures as the chain of
conditions in `live.py` 1403-1431 does.

What really happened is kept beside what the code believes: `attempts` (Provider
processes tried), `launched` (gate commands started), `root` and `probeRoot`
(temporary directories that exist). The environment changes the Fixture source,
sets the wall clock back and puts files at the output paths, each only where the
run looks next, since nothing can tell when before that it was done. Ctrl-C
falls into any step; in the Workspace it passes through the `finally` block, where a
second one may meet it. With a clock set back the comparison of wall-clock times
may refuse any evidence built afterwards, or not.

Abstracted: digests of prompt, source and executable are equal or not; the diff is
complete or not; counts that both sides compute from the same list are left out.

### Phase6Campaign

One invocation of `run-phase6-campaign`, whose loop does everything itself: `pc` is at
its calls, `run` holds the locals of the loop body under their own names (`codex`,
`commands`, `metrics`, `overall`, `kind`, `outcome`, `reason`, `workspace`), and the
counters those of the function. What a Provider and a gate may come to are
`CodexResults` and `GateResults`, as in `LiveRun`.

- `CreateCampaign ... AppendStarted`: the file and the announcement of a run.
- `PrepareWorkspace ... AbandonRun`: Workspace, preflight, Provider. In this
  order: the Workspace exists when the preflight fails (finding 2).
- `AfterFailure`, `JudgeOutput`, `CollectDiff`, `PrepareGates ... Conclude`: the output
  policy with its snapshot, the diff, the gates, the second snapshot, the verdict. In
  each of them any exception but the one the code expects goes to the outer handler
  (`PostCodexFailure`), which replaces the verdict reached so far, that of a failed
  Provider included.
- `RemoveWorkspace`, `WriteOutputs`, `AppendTerminal`, `StopCheck`: the end of a run.
  `Record` is the Recording and Artifact the code builds; `WriteOutputs` ends the
  Campaign where `PairAccepted` refuses it, as the constructors do.
- `AppendNotRun`, `AppendFinished`, `Reload`: the tail and the loader on the own file.
- `LateWrite` changes the Workspace at any time (`tree` is a fresh version), a write may
  return short without being noticed (`LineWritten`), the wall clock may be set
  back once, Ctrl-C and kills fall anywhere.

`called`, `left`, `launched`, `secureAt`, `diffAt` and `gatesAt` record what really
happened. Abstracted: digests and paths; durations other than their order; the texts
of commands.

### SuitePublication

Writers of three kinds meet at one file path: Publishers put a bundle directory
and its external anchor in place under a lock file, Recorders one file by a rename
that never replaces, Approvers one file opened with `O_EXCL` and written in place.
`knows[w]` is what the program remembers of its own outputs, which its rollback
goes by; the identity it compares (device, inode, mode) is the writer. `leaked`
records the three things the program itself loses sight of: the temporary file of an
anchor whose writing failed, and a lock or an Approval it cannot identify (`fstat`) or
cannot unlink. `RemoveLock` is the
operator the manual asks to remove a stale lock, who may be wrong about it.

## 3. Runs

| Run | Instance | What it shows |
|---|---|---|
| `campaign` | 3 runs, 2 invocations, 2 signals each, all stop policies | the scheduler's properties, `Terminates`, and that it implements `CampaignJournal` |
| `campaign_last_run` | expects a violation | finding 1 |
| `reported_campaign` | 2 runs of one block, 1 invocation, 2 signals, another Campaign | an accepted Campaign can be reported, and a report is true |
| `safe_runner` | parent, 2 descendants, 1 Ctrl-C | evidence about a group is final, verdicts are the command's own, the run ends |
| `publication` | 2 `--force` writers, 1 create-only live writer, 1 pair publisher, 2 faults, with and without an earlier pair | pairs stay consistent |
| `codex_stream` | all streams of up to 9 units over all 11 kinds, lines of 2, total of 8, chunks of up to 3 | the parser accepts exactly the completed turns |
| `codex_process` | 7 streams, Prompt of 2 pieces, 1 descendant, 1 Ctrl-C, all failing calls | classifications are true, evidence satisfies its contract, Ctrl-C collects the group |
| `codex_ends` | 1 stream, Prompt of 1 piece | the run ends |
| `live_run` | 2 gate commands (acceptance, lint), 2 Ctrl-C, every output path free or taken, with and without `--force` | the run ends, its record is true, no Workspace is forgotten, and it implements `LivePromise` |
| `phase6` | 2 runs, 2 gate commands, 4 policies, 6 kinds of Provider result, 2 invocations, 1 disturbance (clock, short write or late write) | the Phase 6 properties, and that it implements `CampaignJournal` |
| `phase6_preflight` | expects a violation | finding 2 |
| `suite` | 2 publishers, 1 recorder, 1 approver, 2 faults | bundle, anchor and approval stay consistent |

The properties:

- `CalledOnceAndAnnounced` (`campaign`, `phase6`): no Provider call without a synced
  `started` line, and no run called twice over all invocations. In Phase 6 a short
  write, which the program does not notice, may have torn the line.
- `StopHonoured` (`campaign`, `phase6`): a called run implies that every earlier run was
  concluded and that nothing recorded for them should have stopped the Campaign. In
  Phase 6 a line torn by a short write records nothing.
- `SignalNeverSwallowed`: an invocation that got a Ctrl-C does not return a
  summary, whatever the adapter cleanup did in between. The exception: it was the only
  one, it fell into `run_live_codex` and was lost to a temporary root that could not be
  removed, and then the Campaign stopped there with a harness or cleanup failure.
- `AcceptedLogIsTruthful`: a file `load_campaign` accepts is right about the
  number of Provider calls, per run and in total.
- `FinishedLogLoadsUnlessLastRunStopped`: `load_campaign` accepts what the
  scheduler finishes (see finding 1 for the exception).
- `ImplementsJournal` (`campaign`, `phase6`): refinement of `CampaignJournal`, reading
  status and phase off the file; in Phase 6 up to a write that came up short.
- `Terminates`, `RunEnds` (`safe_runner`, `codex_ends`, `live_run`): liveness.
- `AcceptedCampaignIsReportable`: whatever file `load_campaign` accepts can be reported
  together with the Artifacts, except after a publication that was cut off or a Ctrl-C
  that followed it, and beside another Campaign at the same paths.
- `ReportIsTrue`: a report that can be made counts only this Campaign's own Evidence,
  its calls are those made up to the ones it marks as missing, and a complete pair
  is two runs that were called. Nothing is excepted: where another Campaign has
  published, the report is refused, because the line of a run that could not publish
  does not know its number of calls.
- `ClearedMeansGone`: `process_group_cleared: true` means no member is left and
  none comes back.
- `CleanVerdictIsFinal`: a result judged on the command's end alone (passed, failed or
  `signal_terminated`) is that end, which no signal of the runner caused, with nobody
  left in the group or on the pipes; a command that crashed neither passes nor counts
  as a failed gate.
- `EvidenceKeepsItsRecording`: whatever fails, the Recording that the present
  Evidence was derived from is at its path or in a backup.
- `FailureChangesNothing`: after a failed live publication both paths hold what they
  would hold without it, an earlier pair included (`without`). Excepted are a rollback
  that failed and said so, and a `--force` writer beside another writer.
- `NoLeftovers`, `CreateOnlyTouchesItsOwn`: no writer leaves temporary files, and a
  create-only writer never touches what another wrote.
- `SuccessIsOneCompletedTurn`: success if and only if the whole stream is one
  completed turn, however it was cut, also when `feed` goes on after an error.
- `ClassificationIsTrue`: a success, a failed turn, a nonzero exit or a signal is the
  Provider's own doing, everything it wrote was parsed, and nobody is left who could
  write more; and an exception nobody expects never becomes a verdict on the
  Provider, wherever it falls. It may fall after `timed_out` was set, so that the
  cascade chooses `provider_timeout` for a run whose termination has another reason;
  it is the evidence contract that refuses this, which is why the contract is part of
  the module.
- `EvidenceIsAccepted`: the evidence a run ends with satisfies the contract and
  is true of the process, also on the fallback path.
- `InterruptCollects`: after Ctrl-C no member of the group is left, or the tracker
  says that the cleanup failed, or no process was known to the tracker yet.
- `PairIsBuiltOrExplained`: the code never builds a Recording or Evidence
  that its own strict models refuse, unless the clock was set back, a gate command
  ended and left its group behind, or an exception fell into the termination of a
  timed-out Provider (section 4).
- `DiagnosticIsTruthful`: a Diagnostic is right about the Provider call, its
  group, the gates and the Workspace, and lies beside no half of a pair. It may be wrong
  about the Workspace only where it gives `provider_orchestration` as the stage.
- `WorkspaceAccounted`: a Workspace that is still there is called `cleanup_failed` by the
  Evidence, with the status `harness_error`, by the Diagnostic, or by the error that
  says that no Diagnostic could be written. The local variable counts for nothing: an
  exit that leaves no record (outputs refused, Ctrl-C, an exception out of the removal)
  is an exception of its own, with its conditions, as is the preparation that ended
  in an exception it did not expect.
- `QualityVerdictIsEarned` (`live_run`): passed or failed only for a run whose Provider
  succeeded, whose gates all completed normally, on an unchanged source, with the
  Workspace gone. (`phase6`): every configured gate ran to its own end, and policy,
  diff and gates saw the same Workspace, although it may change at any time.
- `InterruptIsFinal`: after Ctrl-C no Provider is called and the run ends as
  interrupted. The exception: when the root of a preflight command cannot be
  removed, the `finally` block replaces the Ctrl-C by an ordinary preflight failure
  (`codex_provider.py` 1058-1069), or by the exception the removal itself ends in.
- `ImplementsPromise`: refinement of `LivePromise`, reading the record off the
  output paths.
- `PairIsBuilt` (`phase6`): the verdict reached is one the strict contracts accept,
  whatever failed in Provider, output, gates or cleanup, and a public record can be
  made of it; excepted are a clock set back, finding 2, and a Provider failure whose
  verdict was replaced in the outer handler (`Overwritten`, section 4). The terminal
  line is explicit without exception.
- `TerminalLineIsTrue`: a terminal line is right about calls and gates and agrees with
  the pair, which was written before it.
- `AcceptedFileIsReportable`: of every Phase 6 file its loader accepts, the public
  report can be made: the bindings hold, the counts are coherent, and the reason
  derived from the line is the one in the Artifact.
- `FinishedFileLoads`: the loader accepts what the Phase 6 Campaign finishes.
- `NoCallBesideRemains`: no Provider starts while a process group or a Workspace of an
  earlier run is left.
- `AnchorVouchesForBundle`: an anchor at its path always has its whole bundle.
- `OutcomeIsTrue`: what a writer of the Suite reports is what it left; the three things
  it loses sight of are in `leaked`.
- `TouchesOnlyItsOwn`: no rename and no rollback replaces or removes another's output,
  also when the lock was lost.

Bounds. Three runs are the least that have a run before and a run after the one
that stops, and let `max_failures` be reached with one failure in between; in
`phase6`, where a run is much longer, two runs keep a run before the one that is
stopped, and the proof of `CalledOnceAndAnnounced` covers the rest. Two
invocations suffice for "again after anything": the second finds any file the
first can leave, and a third would find the same files. Two signals per
invocation reach the held-back signal that meets a second one in the cleanup. The
signals of `campaign` fall in the executor and wherever the counters agree with the
file (`InterruptLocations`); what survives signals anywhere is proved (section 5).
In `reported_campaign` two runs are one block, hence one complete pair or none, and a
second invocation would be refused by the file. Two descendants are the least that
fork from each other with one in the group and one outside. In `publication` two
faults reach a failing rollback, and two `--force` writers one that follows a killed
one. In `codex_stream` nine units are one more than the total limit, and the shortest
success (`thread`, `turn`, `completed`, with newlines) takes five, so that
warnings, items, unknown events and an error fit into a complete turn; after an
error a stream grows to four units only, which is enough for one more accepted
event. In `codex_process` one line or an overflow of the total limit of seven
is reached by a stream, whose writes end after the second or fifth unit, between and
inside of lines, or with the stream; two pieces of Prompt give the states not started,
partial and complete, and one descendant is inside or outside the group; a
second Ctrl-C would fall into the emergency cleanup, about which nothing is
promised. `codex_ends` has one write only and is smaller because liveness is checked
there, on the same actions. In `live_run` two gate commands have a first that ends the evaluation and a
last that completes it, one of them not acceptance; two Ctrl-C reach the one that
meets the removal of the Workspace or of a preflight root. In `phase6` one disturbance
is the clock, a short write or a late write, each of which some property names; the
kinds of Provider result are one for each branch of `_provider_terminal`. In `suite`
two publishers are the least that compete for the lock, and two faults reach a lock
removed by the operator together with a failing rename or a kill.

Symmetry is used for the `--force` writers and the publishers, which differ in nothing,
and in runs without liveness only.

Deadlock is checked (`Done` is the intended end) but in two runs: `publication` stops
when all writers have, and in `suite` a lock that its owner lost or died with stops
every later publisher, which is what the code does.

Fairness. `WorkflowCampaign!FairSpec` asks weak fairness of `ProgramStep`: a
running program takes its next step. That includes the Provider call returning,
which the code ensures with `provider_timeout_ms`. Crashes and signals are not
fair, and which outcome a call has is not either. `SafeRunner!FairSpec` asks that
time passes and data waiting is read (weak), and that the runner moves (strong).
Strong fairness is needed because `_PipeDrainer.drain` reads until the pipe is
empty without looking at the clock: a command that writes faster than it is read
would keep it there; the assumption says that the pipe is found empty again and
again. Nothing is assumed about the command: it may hang, ignore SIGTERM and
outlive SIGKILL. `LiveRun!FairSpec` asks weak fairness of the run's steps: it is one
thread, and the two runners it waits for always come back, which is `RunEnds` of
`CodexProcess` and of `SafeRunner`. `CodexProcess!FairSpec` asks weak fairness of time
and of the runner, and strong fairness of the end of a wait (`GroupCleared` or
`GroupRemains`): the code looks at the group and the clock after every
`drain_once`, while the model may choose to drain again first. `drain_once` reads
each stream once per call, so no assumption about a fast writer is needed here.
`Phase6Campaign` and `SuitePublication` have no liveness property: the loop of the
former is that of `WorkflowCampaign` with the steps of `LiveRun`, and a publisher of
the latter may be refused for ever by a stale lock.

## 4. Findings and named gaps

1. `campaign_last_run`. A Campaign that its last run stops (`fail_fast`,
   `max_failures`, a harness or cleanup failure) is finished with that stop
   reason and no `not_run` line. `load_campaign` (`campaign.py` 428-438) demands
   that the reasons of the `not_run` lines be exactly the stop reason, and
   refuses the file; `report-workflow` cannot report the Campaign.
2. `phase6_preflight`. `run_phase6_campaign` prepares the Workspace before the Codex
   preflight runs (`phase6_campaign.py` 1284). The evidence of a failed preflight is
   refused beside a Workspace (`phase6.py` 1044-1050), so that the record cannot be
   built and the Campaign ends in the middle, without a terminal line, although
   `docs/PHASE6_MULTI_LANGUAGE_PUBLIC_REPORT.md` 225 counts on it.

The following are modelled, or met while modelling, and are named in the properties,
the hazards or here; no run is expected to violate anything for them.

- Ctrl-C in the Workflow scheduler between the return of the executor (842) and
  `next_index = index + 1` (906): the handler (926) declares the run just executed
  `not_run` with zero calls, in a file the loader may accept. This is the hypothesis
  `CountersAgree` of section 5, which also says how much such a file can miss; `docs/WORKFLOW_AB.md` 72 says otherwise.
- Ctrl-C after a run's pair was published and before the executor returned: the
  run is recorded as interrupted and has Evidence, and the whole Campaign is refused
  by `report-workflow` (`workflow_report.py` 547-553). The same after a publication
  that was cut off, or whose failing rollback was suppressed (`workflow.py` 645).
- Ctrl-C while a gate runs leaves its process group alive (`runner.py` 602), although
  `README.md` 128 promises that processes are collected at the end.
- A gate command that ends by itself while its group cannot be cleared is a
  `gate_harness_error` for `LiveRunArtifact` (`models.py` 2992-3005), but
  `_evaluation_summary` (`live.py` 860) and `LiveEvaluationSummary` (`models.py`
  1277-1286) count it by different rules; the Recording cannot be built and the run is
  left with a Diagnostic that says `evidence_error`.
- An unknown exception in the termination of a Provider that timed out, or in the steps
  after it (`codex_provider.py` 1920-1958): `timed_out` stays set while the emergency
  cleanup replaces the reason, so that the cascade (1996-1998) says `provider_timeout`
  and the contract (`models.py` 2034-2037) refuses the evidence. A Live run is left with
  a Diagnostic that says `evidence_error`, a run of Phase 6 is recorded as one; the
  timeout is on no record. But for a clock set back, nothing else in the runner leads to a refusal.
- Ctrl-C between `Popen` and `mark_process_started` (`codex_provider.py` 1698): the
  emergency cleanup knows no process and the Provider goes on running;
  `docs/CODEX_PROVIDER.md` 215 promises its cleanup without exception.
- A preflight root that cannot be removed turns Ctrl-C into a preflight failure
  (`codex_provider.py` 1058-1069), and an exception other than an OSError out of the
  removal of that root or of the Workspace takes its place: the Campaign above it
  records a harness failure and returns a summary, or ends in that exception.
- `prepare_disposable_workspace` (`workspace.py` 257-283) removes its root after an
  `OSError`, `SnapshotError` or `WorkspaceError`. After anything else (a `RecursionError`
  on a deep tree) the root stays, while the Diagnostic or the Evidence says
  `not_created` (`live.py` 1368-1379).
- A Live run leaves no record when its outputs are refused, when Ctrl-C ends it, or after
  an exception out of the removal of a root, the second look at the source or the
  serialisation. A Workspace that could not be removed is then told to nobody.
- After a Provider failure Phase 6 collects the diff and expects a `SnapshotError` only
  (`phase6_campaign.py` 1305-1311). Any other exception reaches the outer handler
  (1398-1416), which overwrites the Provider's verdict by `evidence_error`; the
  contract (`phase6.py` 1128-1152) refuses that beside the Provider's evidence, so that
  the run gets no pair and the Campaign ends after its `started` line.
- A `--force` writer beside another writer (rollback works by path), and Ctrl-C between
  `os.replace` and the flag that records it (the `finally` block drops the backup).
- A Suite publisher stopped between its two renames leaves a bundle without its anchor
  (`docs/PHASE6_MULTI_LANGUAGE_PUBLIC_REPORT.md` 318-320); the temporary file of the
  anchor is lost sight of when writing it fails (`phase6_public.py` 1644), the lock and
  an Approval when their `fstat` fails (1661; `phase6_approval.py` 787); an
  Approval is written in place, so that a kill leaves part of it; a stale lock stops
  every later publisher.
- `phase6_campaign.py` 392 sets a duration limit of one hour that the loop never looks
  at, while `docs/WORKFLOW_AB.md` 70-71 describes one for the Workflow Campaign.
- Prompt and Fixture are read again before each run (`campaign.py` 818), but a run
  executes the bytes captured at the start: a change is a reason to stop and never
  reaches a run.
- A process group is addressed by the pid of a leader that was already reaped
  (`runner.py` 249); see section 6.

## 5. Proofs

The theorems hold for every value of the constants and rest on the named `ASSUME`s of
the modules only: the constants are numbers or disjoint sets, there is at least one
run and an acceptance gate, `None` is not a call count. Every state theorem has
the same argument: an inductive invariant `IInv`, a lemma for each group of actions
and conjunct that it can disturb, `Inductive == Spec => []IInv` by PTL, and the
property as a consequence.

| Module | Theorems | For every |
|---|---|---|
| `WorkflowCampaignProofs` | `TypeCorrect`, `CalledOnce` (`WriteAheadHolds`, `NoRetryHolds`), `SignalsSurface`, `StopConditionsHonoured`, `AcceptedLosesOneCallAtMost` | Plan length, invocations, signals at any location |
| | `ImplementsCampaignJournal`, `NotRunIsTrue`, `AcceptedTellsTheTruth`, `FinishedLoads`, `CampaignsAreReportable`, `ReportsAreTrue` | the same, under `CountersAgree`; the last two for every Plan and rival Campaign |
| `SafeRunnerProofs` | `ClearedIsTrue`, `CleanVerdictIsTrue`, `GateResultsAreExpected` | number of descendants and Ctrl-C |
| `PairPublicationProofs` | `RecordingIsKept`, `FailureLeavesThePair`, `NothingIsLeft`, `OnlyOwnFilesTouched` | sets of writers, number of faults |
| `CodexStreamProofs` | `AcceptsExactlyTheTurns` | stream, of any length, in any chunks; limits |
| `CodexProcessProofs` | `EvidenceAlwaysAccepted`, `ClassificationTrue`, `OneInterruptIsCollected`, `ResultsAreExpected`, `RefusalIsStaleTimeout` | set of streams, size of the Prompt, number of Ctrl-C |
| `LiveRunProofs` | `PairIsBuilt`, `DiagnosticIsTrue`, `WorkspaceIsAccounted`, `VerdictIsEarned`, `InterruptStaysFinal`, `KeepsThePromise` | list of gate commands with an acceptance gate, number of Ctrl-C |
| `Phase6CampaignProofs` | `CallsOnceAndAnnounced`, `CallsBesideNothing`, `StopConditionsHonoured`, `TerminalLinesAreTrue`, `VerdictIsEarned`, `PairAlwaysBuilt`, `FinishedFilesLoad`, `AcceptedFilesAreReportable`, `ImplementsCampaignJournal` | Plan length, gates, policies, bounds |
| `SuitePublicationProofs` | `AnchorAlwaysVouches`, `OutcomeAlwaysTrue`, `OnlyOwnOutputsTouched` | sets of writers, number of faults |

`OneInterruptIsCollected` says `InterruptCollects` while there was at most one Ctrl-C:
a second one may fall into the cleanup of the first, about which the code promises
nothing, and the run has at most one for the same reason.

Three theorems are about the places where one module stands on another, which no run
of one module can show. `LiveRun` and `Phase6Campaign` take a call of the Codex runner or of
the gate runner as one step, with the results of `CodexResults` and `GateResults`.
`ResultsAreExpected` says that every end of `CodexProcess` is one of those: what it
returns agrees with a member of `RunnerResults` in kind, stage, invocation and cleanup,
and the tracker it leaves when it raises is in `RunnerErrors`. `GateResultsAreExpected`
says the same of `SafeRunner` and `CommandResults`. So what is proved of the callers
holds above the detailed runners, not only above a list of results. `CodexProcess` has
no wall clock, and `ClockErrors`, the errors after a clock set back, are outside the
theorem. `RefusalIsStaleTimeout` says when the contract refuses what the runner itself
built: after a stale timeout (section 4), and never otherwise.

Why the properties need strengthening, and by what:

- `WorkflowCampaign`. That a step of the executor calls the Provider of an uncalled,
  announced run depends on where the program is and what the file holds: no line and
  no call beyond the current run (`NothingAhead`, `Unreached`), the current run
  announced once its executor works (`CurrentAnnounced`) and uncalled while `stage`
  says so (`CurrentUncalled`).
- `StopHonoured`. In the loop `countedFailures` is the cardinality of the counted lines
  before `index`, none of which stops (`EarlierRuns`); the line the stop check is about
  is the last one and has the outcome the program holds (`CurrentRun`); calls lie
  behind `index` (`CalledBehind`). `SignalNeverSwallowed` needs where a signal is
  while it is held (`SignalInHand`) and that a held one made the run a cleanup
  failure, which ends the loop (`PendingEndsTheLoop`).
- `ImplementsJournal`. `PhasesFit` says at each location which phase the file gives
  every run, `Position` where `next_index` lags behind. `CountersAgree` asks
  that the statements in `InterruptLocations` be among `check`, `append_started` and
  `stop_check`, the ones where it does not lag (the tails are free): without it
  the claim is false (section 4).
- The Campaign file. What the loader accepts is true of the calls because every line
  agrees with the calls when it is appended and they never change afterwards:
  `StageTrue` and `ExecutionTrue` say so of what the program is about to append. Only a
  tail can err, and only in its first `not_run` line (`TailBehind`, `LinesTrueButOne`). A finished file loads because the open one
  is well formed (`LinesGood`), the reasons of the `not_run` lines are the one
  the Campaign ends with (`ReasonsAgree`), and the counters that the last line repeats
  are the counts of the lines, but for the appends they lag behind (`CountersFit`).
  For both, `CountersAgree` cannot be dropped: with a lagging `next_index` a line is
  wrong about its run, or the file has two. What remains without it, for signals at any
  statement, is `AcceptedLosesOneCallAtMost`: an accepted file is true if it does not
  end in `human_interruption`, and otherwise misses at most one call, the one of the
  first run it declares `not_run`.
- `ReportedCampaign`. `SavedInv`: an Artifact of this Campaign lies only at the path of
  an announced run (`OursAnnounced`), its Evidence is missing only when a publication
  was spoiled (`FilesFit`), and a terminal line with a known number of calls has the
  Evidence it agrees with (`LinesTold`; `ExecutionTold` for the line to come). Where
  the rival's Evidence lies, the line has no known number of calls and the report refuses.
- `SafeRunner`. The runner's own signals reach a command only once its time is over or
  its collection failed (`DoomInv`). Group membership only shrinks once the group is empty
  (`CommandFacts`: only a member can fork a member), `GoneInv` carries it from the
  return of the termination to the end, `CodeInv` says which exits the return code
  may come from, `SpawnInv` which verdicts there are without a process.
- `PairPublication`. For each statement what a writer's flags say, what it has put at
  which path (`FlagInv`, `PlaceInv`), that a `--force` writer was alone while
  `overlapped` is false (`AloneInv`), and where the earlier Recording is (`KeptInv`).
  `WithoutInv` says, for each statement, how what the paths would hold without a writer
  can be read off the paths, its flags and its backup.
- `CodexStream`. The parser that has read a prefix of a stream is in the state `Reads`
  gives as the events heard in it, with their positions, or has refused it, and then no
  continuation of the prefix is a completed turn (`Doomed`). Whatever it read, it has
  counted at most one thread and one turn, in their order, and a failed turn left its
  hint (`Sound`). `FeedSound` carries it
  over a whole chunk. A sum over the units of a chunk needs induction on its length,
  which is drawn from the well-foundedness of strict inclusion (`NatSetInduction`).
- `CodexProcess`. `Parsed`: without a protocol error the parser is in the state `Reads`
  for what was taken from the pipe. `AllRead`: without a failure nothing is left in it
  before the verdict. `ClearedIsEmpty`: a termination reported as cleared left the group
  empty. `Collected` says at which statements a run without a failure has finished, and
  `RaisedIsHandled` which handler works after an unknown exception. The contract then
  accepts each evidence `Judge` builds, by cases of the classification. For the refused
  one: a timeout is only set beside the termination whose reason it is, until another
  termination replaces it (`TimeoutReason`), a cleanup failure is only classified beside
  a group that remains (`CleanupFailure`), and a code that was seen is the parent's
  (`CodeKnown`).
- `LiveRun`. `CallInv` relates the calls made to the tracker and to the evidence,
  `TreeInv` the Workspace to what the run believes (`MayBeOrphaned`: it believes there is
  none), `GateInv` the commands to the gates
  launched, `InterruptInv` and `RecordInv` the rest. `KeepsThePromise` maps each step to
  one of `LivePromise` or to a stutter.
- `Phase6Campaign`. `CallInv` as above; `LeftInv` says that whatever a run leaves is
  known to it at every later statement, in one of three places (`Known`), and so
  reaches the outcome that stops the Campaign. `StopHonoured`: the counted failures are
  at least as many as the counted lines before `index`, and may be more, as a torn line
  is a failure the file does not show. `TerminalLineIsTrue`: what the run recorded and
  the pair agree from the decision on (`TruthInv`). `QualityVerdictIsEarned`: the versions
  of the tree only grow, so that a tree at the end equal to the secured one was never
  another in between. `ImplementsJournal`: `PhasesFit` again, only while no line was torn
  (`shortWrites = 0`), as a torn line has no phase. `PairIsBuilt`: the decision is one the
  contract of a run allows (`DecisionInv`), or the outer handler's after a Provider
  failure (`ByHandler`), whose terminal line is explicit all the same, for the commands that ran, the clock as it
  was read (`ClockInv`) and the Workspace removed or not. `FinishedFileLoads`: as for the
  Workflow, while no line was torn, with the last reading of the clock
  (`LastReading`). `AcceptedFileIsReportable`: the header gives the length of the Plan
  (`HeadersTold`) and every line agrees with the pair of its run (`LinesTold`,
  `StartsTold`; `ReadingTold` and `PairTold` for the line to come), where a short write
  left a torn line, which the loader refuses (`TornRemembered`).
- `SuitePublication`. `OwnInv` says where a writer's outputs can be, seen from its next
  statement; that the anchor never is without the bundle follows from the order of the
  renames and of the rollback, and nothing from the lock.

Model-checked only: liveness (`Terminates` and the three `RunEnds`), which is outside
what the prover can do, as is everything about `ENABLED`; and the two violations
(`FinishedLogLoads`, `PreflightStopIsRecorded`), which are counterexamples. Every
other property of a run is a theorem. The parser is written as recursive functions on
sequences and not as recursive operators, and the facts about them that the proofs
use are proved with an induction over finite sets.

## 6. Not modelled, and why

- The Antigravity provider: no code path runs it live. It is a preflight and an output
  parser with the shape of `CodexParser`, without a run, a retry or a file of its own.
- `run_gates`, the evaluation of gates without a Provider; the tree snapshot and the
  diff, which are pure functions on file contents.
- stderr of the Codex process and its classification: it is bounded text, and the
  loop treats it as stdout. The wall clock of a single evidence record; `LiveRun` and
  `Phase6Campaign` have the clock that is set back.
- Phase 6 Fixture acceptance, the release manifest, checksums, historical documents,
  and the validation of the inputs of an Approval or a Suite: comparisons of digests
  and paths without state, an accept or refuse in `SuitePublication`.
- Replay, averages of metrics and usage, rendering of reports, and the Workflow
  Report of a Phase 6 Campaign, whose bindings and counts `Phase6Report` has.
- The balanced order of a Plan and its path reservations: a sort by digests of the
  seed and the block (`workflow.py` 463), a function of the Spec without state.
- Data contracts other than those named in section 2, and the CLI: no state.
- Power failures. `Crash` is a kill: what was written stays written. The Campaign file
  and the pairs are synced themselves but not their directories (`campaign.py` 300-323,
  `live.py` 617-788), and nothing is synced between the two renames of a Suite
  (`phase6_public.py` 1682-1687), so that a disk may come back without the file, or
  with an anchor and no bundle.
- The directories an Approver creates on the way to its file (`phase6_approval.py`
  767-816).
- Reuse of process identifiers by the kernel, and the unbounded inner read loop
  of the drainer other than through the fairness assumption.

## 7. What is done and what is left

Done: both schedulers, the Safe Runner, the publications, the Codex runner and its
parser, the Live run and the Phase 4 report, with a proof of every safety property and
every refinement that a run checks, and of what the callers assume of the two runners.
What would add most from here, in this order:

1. `FinishedLogLoadsUnlessLastRunStopped` and the report without `CountersAgree`, in
   the form that stays true when a signal falls where `next_index` lags behind, as
   `AcceptedLosesOneCallAtMost` is for the accepted file.
2. The results of a run as the schedulers see them: that every end of `LiveRun` is an
   outcome `WorkflowCampaign` goes through.
3. The order of the Plan as functions, checked against a reference definition.
