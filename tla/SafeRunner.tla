------------------------------ MODULE SafeRunner ------------------------------
(***************************************************************************)
(* LocalCommandRunner.run (runner.py): one quality-gate command executed   *)
(* in a new session and process group, its output drained under a          *)
(* deadline, its group terminated with SIGTERM, a grace period and         *)
(* SIGKILL, and the verdict derived from what was observed.                *)
(*                                                                         *)
(* The other half of the system is the command itself: Parent is the       *)
(* process Popen starts, Children the descendants it may fork. They run    *)
(* concurrently with the runner, may ignore SIGTERM, leave the group       *)
(* (setsid), keep or close the inherited output pipe, and write to it      *)
(* without end. Process identifiers are not reused.                        *)
(***************************************************************************)
EXTENDS Integers

CONSTANTS
  Parent,          \* the process Popen starts; leader of session and group
  Children,        \* descendants that may be forked (a bound)
  MaxInterrupts    \* bound on Ctrl-C deliveries

ASSUME ProcessAssumption == Parent \notin Children
ASSUME InterruptsAssumption == MaxInterrupts \in Nat

Processes == {Parent} \cup Children

VARIABLES
  \* the operating system's view of the command
  proc,            \* "unborn", "running", "zombie" (Parent, not reaped) or "gone"
  inGroup,         \* still in the group the runner signals
  holdsPipe,       \* holds the write end of the output pipes
  doomed,          \* a fatal signal has been delivered, the process not yet ended
  exitStatus,      \* of Parent: "zero", "nonzero" or "signal" once it ended
  data,            \* output waits in a pipe
  \* the runner
  pc,
  expired,         \* the deadline of the current wait has passed
  returnCode,      \* return_code, "none" while it is None
  timedOut, internalError, termination, verdict,
  interrupts

system == << proc, inGroup, holdsPipe, doomed, exitStatus >>
collected == << returnCode, timedOut, internalError >>
vars == << system, data, pc, expired, collected, termination, verdict, interrupts >>

Waiting == {"collect", "term_wait", "kill_wait", "direct_wait", "output"}
Locations ==
  {"spawn", "residual", "inspect", "sigterm", "sigkill", "after", "close",
   "ended", "interrupted"} \cup Waiting

Reasons == {"none", "timeout", "residual_process", "emergency_cleanup"}

NoTermination ==
  [reason |-> "none", term |-> FALSE, kill |-> FALSE, cleared |-> TRUE]
NoVerdict == [status |-> "none", failure |-> "none"]

Init ==
  /\ proc = [p \in Processes |-> "unborn"]
  /\ inGroup = [p \in Processes |-> TRUE]
  /\ holdsPipe = [p \in Processes |-> FALSE]
  /\ doomed = [p \in Processes |-> FALSE]
  /\ exitStatus = "none"
  /\ data = FALSE
  /\ pc = "spawn" /\ expired = FALSE
  /\ returnCode = "none" /\ timedOut = FALSE /\ internalError = FALSE
  /\ termination = NoTermination
  /\ verdict = NoVerdict
  /\ interrupts = 0

-----------------------------------------------------------------------------
(* The command.                                                            *)

Alive(p) == proc[p] = "running" /\ ~doomed[p]
Group == {p \in Processes : proc[p] \in {"running", "zombie"} /\ inGroup[p]}
PipeHolders == {p \in Processes : proc[p] = "running" /\ holdsPipe[p]}

RunnerUnchanged ==
  UNCHANGED << pc, expired, collected, termination, verdict, interrupts >>

Fork(p, c) ==
  /\ Alive(p) /\ proc[c] = "unborn"
  /\ proc' = [proc EXCEPT ![c] = "running"]
  /\ inGroup' = [inGroup EXCEPT ![c] = inGroup[p]]
  /\ holdsPipe' = [holdsPipe EXCEPT ![c] = holdsPipe[p]]
  /\ UNCHANGED << doomed, exitStatus, data >>
  /\ RunnerUnchanged

(* setsid: possible for every process but the group leader.                *)
LeaveGroup(c) ==
  /\ Alive(c) /\ inGroup[c]
  /\ inGroup' = [inGroup EXCEPT ![c] = FALSE]
  /\ UNCHANGED << proc, holdsPipe, doomed, exitStatus, data >>
  /\ RunnerUnchanged

ClosePipe(p) ==
  /\ Alive(p) /\ holdsPipe[p]
  /\ holdsPipe' = [holdsPipe EXCEPT ![p] = FALSE]
  /\ UNCHANGED << proc, inGroup, doomed, exitStatus, data >>
  /\ RunnerUnchanged

WriteOutput(p) ==
  /\ Alive(p) /\ holdsPipe[p]
  /\ pc \in Locations \ {"spawn", "ended", "interrupted"}
  /\ ~data /\ data' = TRUE
  /\ UNCHANGED system
  /\ RunnerUnchanged

(* A process ends, by itself or by a signal: the runner's, or one of its   *)
(* own or of somebody else (a crash, an abort, the kernel out of memory).  *)
(* Parent stays a zombie, still a member of its group, until the runner    *)
(* polls it; descendants are reaped by init.                               *)
EndProcess(p) ==
  /\ proc[p] = "running"
  /\ proc' = [proc EXCEPT ![p] = IF p = Parent THEN "zombie" ELSE "gone"]
  /\ IF p = Parent
     THEN exitStatus' \in IF doomed[p] THEN {"signal"} ELSE {"zero", "nonzero", "signal"}
     ELSE UNCHANGED exitStatus
  /\ UNCHANGED << inGroup, holdsPipe, doomed, data >>
  /\ RunnerUnchanged

CommandStep ==
  \/ \E p \in Processes, c \in Children : Fork(p, c)
  \/ \E c \in Children : LeaveGroup(c)
  \/ \E p \in Processes : ClosePipe(p) \/ WriteOutput(p) \/ EndProcess(p)

-----------------------------------------------------------------------------
(* System calls of the runner.                                             *)

(* process.poll(): reaps Parent once it is a zombie.                       *)
Poll == proc' = IF proc[Parent] = "zombie" THEN [proc EXCEPT ![Parent] = "gone"] ELSE proc

Exited == proc[Parent] \in {"zombie", "gone"}
PolledCode == IF Exited THEN exitStatus ELSE "none"
GroupAfterPoll == Group \ (IF proc[Parent] = "zombie" THEN {Parent} ELSE {})

(* killpg with SIGTERM: any set of the members dies of it, the others      *)
(* ignore it or are still handling it. SIGKILL spares none.                *)
DeliverTerm ==
  \E hit \in SUBSET {p \in Group : proc[p] = "running"} :
    doomed' = [p \in Processes |-> doomed[p] \/ p \in hit]
DeliverKill ==
  doomed' = [p \in Processes |-> doomed[p] \/ (p \in Group /\ proc[p] = "running")]

(* _PipeDrainer.drain reads until the pipes are empty: the steps below     *)
(* that follow a drain wait for ~data.                                     *)
ReadChunk ==
  /\ pc \in Waiting
  /\ data /\ data' = FALSE
  /\ UNCHANGED << system, pc, expired, collected, termination, verdict, interrupts >>

(* time.monotonic() reaches the deadline of the current wait.              *)
PassDeadline ==
  /\ pc \in Waiting
  /\ ~expired /\ expired' = TRUE
  /\ UNCHANGED << system, data, pc, collected, termination, verdict, interrupts >>

-----------------------------------------------------------------------------
(* run(): spawn and collect.                                               *)

SpawnFails ==
  /\ pc = "spawn"
  /\ pc' = "ended"
  /\ verdict' \in [status : {"spawn_error"}, failure : {"command_unavailable", "spawn_error"}]
  /\ UNCHANGED << system, data, expired, collected, termination, interrupts >>

Spawn ==
  /\ pc = "spawn"
  /\ proc' = [proc EXCEPT ![Parent] = "running"]
  /\ holdsPipe' = [holdsPipe EXCEPT ![Parent] = TRUE]
  /\ pc' = "collect"
  /\ UNCHANGED << inGroup, doomed, exitStatus, data, expired, collected, termination,
                  verdict, interrupts >>

Terminate(reason) ==
  /\ termination' = [NoTermination EXCEPT !.reason = reason]
  /\ pc' = "inspect"

(* The collection loop saw the command exit.                               *)
CollectExit ==
  /\ pc = "collect" /\ ~data
  /\ Exited
  /\ Poll
  /\ returnCode' = exitStatus
  /\ pc' = "residual"
  /\ UNCHANGED << inGroup, holdsPipe, doomed, exitStatus, data, expired, timedOut,
                  internalError, termination, verdict, interrupts >>

CollectTimeout ==
  /\ pc = "collect" /\ ~data
  /\ ~Exited /\ expired
  /\ timedOut' = TRUE
  /\ Terminate("timeout")
  /\ UNCHANGED << system, data, expired, returnCode, internalError, verdict, interrupts >>

(* After the exit: members left in the group are terminated.               *)
Residual ==
  /\ pc = "residual"
  /\ \/ Group # {} /\ Terminate("residual_process")
     \/ Group = {} /\ pc' = "after" /\ UNCHANGED termination
  /\ UNCHANGED << system, data, expired, collected, verdict, interrupts >>

(* `except Exception`: whatever the collection raised, the group is        *)
(* terminated and the result becomes a collection error.                   *)
CollectionRaises ==
  /\ pc \in Locations \ {"spawn", "close", "ended", "interrupted"}
  /\ ~internalError
  /\ internalError' = TRUE
  /\ Terminate("emergency_cleanup")
  /\ UNCHANGED << system, data, expired, returnCode, timedOut, verdict, interrupts >>

-----------------------------------------------------------------------------
(* _terminate_process_group.                                               *)

(* It returns its evidence: the emergency handler goes straight to the     *)
(* finally block, the loop to what follows it. A timeout and an emergency  *)
(* poll the return code, the residual path keeps the one it has.           *)
Return(cleared) ==
  /\ termination' = [termination EXCEPT !.cleared = cleared]
  /\ pc' = IF internalError THEN "close" ELSE "after"
  /\ IF termination.reason = "residual_process"
     THEN UNCHANGED returnCode
     ELSE returnCode' = PolledCode

Inspect ==
  /\ pc = "inspect"
  /\ \/ Group # {} /\ pc' = "sigterm" /\ UNCHANGED << termination, returnCode, proc >>
     \/ Group = {} /\ Return(TRUE) /\ Poll
  /\ UNCHANGED << inGroup, holdsPipe, doomed, exitStatus, data, expired, timedOut,
                  internalError, verdict, interrupts >>

SendTerm ==
  /\ pc = "sigterm"
  /\ DeliverTerm
  /\ termination' = [termination EXCEPT !.term = TRUE]
  /\ pc' = "term_wait" /\ expired' = FALSE
  /\ UNCHANGED << proc, inGroup, holdsPipe, exitStatus, data, collected, verdict, interrupts >>

(* _wait_for_group_to_clear: poll, drain, inspect, until the group is      *)
(* empty or the grace period is over.                                      *)
Wait(here, timeoutStep) ==
  /\ pc = here /\ ~data
  /\ Poll
  /\ \/ GroupAfterPoll = {} /\ Return(TRUE)
     \/ GroupAfterPoll # {} /\ expired /\ timeoutStep
  /\ UNCHANGED << inGroup, holdsPipe, doomed, exitStatus, data, expired, timedOut,
                  internalError, verdict, interrupts >>

(* Mutant: the grace period has no end.                                    *)
WaitAfterTerm_noDeadline == Wait("term_wait", FALSE)

WaitAfterTerm ==
  Wait("term_wait", pc' = "sigkill" /\ UNCHANGED << termination, returnCode >>)

SendKill ==
  /\ pc = "sigkill"
  /\ DeliverKill
  /\ termination' = [termination EXCEPT !.kill = TRUE]
  /\ pc' = "kill_wait" /\ expired' = FALSE
  /\ UNCHANGED << proc, inGroup, holdsPipe, exitStatus, data, collected, verdict, interrupts >>

(* Mutant: a group that outlives SIGKILL is reported cleared.              *)
WaitAfterKill_trustsKill == Wait("kill_wait", Return(TRUE))

(* "process group remained after SIGKILL"                                  *)
WaitAfterKill == Wait("kill_wait", Return(FALSE))

(* killpg raises OSError, at an inspection or at a signal: the termination *)
(* stops there and fails closed.                                           *)
GroupCallFails ==
  /\ \/ /\ pc = "residual"
        /\ termination' = [NoTermination EXCEPT !.reason = "residual_process", !.cleared = FALSE]
        /\ pc' = "after"
        /\ UNCHANGED << proc, returnCode >>
     \/ pc \in {"inspect", "sigterm", "sigkill"} /\ Poll /\ Return(FALSE)
     \/ pc \in {"term_wait", "kill_wait"} /\ ~data /\ Poll /\ Return(FALSE)
  /\ UNCHANGED << inGroup, holdsPipe, doomed, exitStatus, data, expired, timedOut,
                  internalError, verdict, interrupts >>

-----------------------------------------------------------------------------
(* run(): direct kill, the rest of the output, the verdict.                *)

StartOutput == pc' = "output" /\ expired' = FALSE

After ==
  /\ pc = "after"
  /\ \/ Exited /\ Poll /\ StartOutput /\ UNCHANGED << doomed, termination >>
     \/ /\ ~Exited
        /\ doomed' = [doomed EXCEPT ![Parent] = TRUE]
        /\ pc' = "direct_wait" /\ expired' = FALSE
        /\ UNCHANGED << proc, termination >>
  /\ UNCHANGED << inGroup, holdsPipe, exitStatus, data, collected, verdict, interrupts >>

(* process.wait(timeout): either way the termination did not clear.        *)
DirectWait ==
  /\ pc = "direct_wait"
  /\ Exited \/ expired
  /\ Poll
  /\ returnCode' = PolledCode
  /\ termination' =
       [termination EXCEPT
          !.reason = IF @ = "none" THEN "emergency_cleanup" ELSE @, !.cleared = FALSE]
  /\ StartOutput
  /\ UNCHANGED << inGroup, holdsPipe, doomed, exitStatus, data, timedOut, internalError,
                  verdict, interrupts >>

(* Mutant: pipes still open at the deadline are not an error.              *)
DrainOutput_deadlineOnly ==
  /\ pc = "output" /\ ~data
  /\ expired
  /\ pc' = "close"
  /\ UNCHANGED << system, data, expired, collected, termination, verdict, interrupts >>

(* End of file needs every write end closed; open pipes at the deadline    *)
(* are a collection error.                                                 *)
DrainOutput ==
  /\ pc = "output" /\ ~data
  /\ pc' = "close"
  /\ \/ PipeHolders = {} /\ UNCHANGED internalError
     \/ PipeHolders # {} /\ expired /\ internalError' = TRUE
  /\ UNCHANGED << system, data, expired, returnCode, timedOut, termination, verdict,
                  interrupts >>

(* A selector or read error, kept by the drainer, is one too.              *)
DrainFails ==
  /\ pc = "output"
  /\ pc' = "close"
  /\ internalError' = TRUE
  /\ UNCHANGED << system, data, expired, returnCode, timedOut, termination, verdict,
                  interrupts >>

CodeStatus ==
  CASE returnCode = "signal" -> "signal_terminated"
    [] returnCode = "zero" -> "passed"
    [] OTHER -> "failed"

Verdict ==
  CASE ~termination.cleared ->
         [status |-> IF internalError THEN "collection_error"
                     ELSE IF timedOut THEN "timed_out" ELSE CodeStatus,
          failure |-> "process_cleanup_error"]
    [] termination.cleared /\ internalError ->
         [status |-> "collection_error", failure |-> "evidence_error"]
    [] termination.cleared /\ ~internalError /\ timedOut ->
         [status |-> "timed_out", failure |-> "timeout"]
    [] termination.cleared /\ ~internalError /\ ~timedOut ->
         [status |-> CodeStatus,
          failure |-> IF returnCode = "signal" THEN "signal_termination" ELSE "none"]

(* The finally block closes the pipes.                                     *)
Close ==
  /\ pc = "close"
  /\ pc' = "ended"
  /\ verdict' = Verdict
  /\ data' = FALSE
  /\ UNCHANGED << system, expired, collected, termination, interrupts >>

(* Closing them raised: one more collection error, before the verdict.     *)
CloseFails ==
  /\ pc = "close"
  /\ ~internalError /\ internalError' = TRUE
  /\ UNCHANGED << system, data, pc, expired, returnCode, timedOut, termination, verdict,
                  interrupts >>

(* Ctrl-C: run() has no handler for it; the finally block closes the pipes *)
(* and the exception propagates.                                           *)
Interrupt ==
  /\ interrupts < MaxInterrupts
  /\ pc \in Locations \ {"spawn", "ended", "interrupted"}
  /\ interrupts' = interrupts + 1
  /\ pc' = "interrupted"
  /\ data' = FALSE
  /\ UNCHANGED << system, expired, collected, termination, verdict >>

Done ==
  /\ pc \in {"ended", "interrupted"}
  /\ UNCHANGED vars

RunnerStep ==
  \/ Spawn
  \/ CollectExit \/ CollectTimeout \/ Residual
  \/ Inspect \/ SendTerm \/ WaitAfterTerm \/ SendKill \/ WaitAfterKill
  \/ After \/ DirectWait \/ DrainOutput \/ Close

RunnerFault ==
  SpawnFails \/ CollectionRaises \/ GroupCallFails \/ DrainFails \/ CloseFails

Next ==
  \/ CommandStep \/ RunnerStep \/ RunnerFault
  \/ ReadChunk \/ PassDeadline \/ Interrupt \/ Done

Spec == Init /\ [][Next]_vars

(* Time passes and a started drain reads. Strong fairness of the runner    *)
(* says that a drain finds the pipes empty again and again, so that a      *)
(* command that writes without end does not keep it for ever. Nothing is   *)
(* assumed of the command: it may never exit and may survive SIGKILL past  *)
(* every deadline. No fault needs to happen.                               *)
FairSpec == Spec /\ WF_vars(ReadChunk) /\ WF_vars(PassDeadline) /\ SF_vars(RunnerStep)

-----------------------------------------------------------------------------
(* Properties.                                                             *)

(* Every variable keeps its type.                                          *)
TypeOK ==
  /\ proc \in [Processes -> {"unborn", "running", "zombie", "gone"}]
  /\ inGroup \in [Processes -> BOOLEAN]
  /\ holdsPipe \in [Processes -> BOOLEAN]
  /\ doomed \in [Processes -> BOOLEAN]
  /\ exitStatus \in {"none", "zero", "nonzero", "signal"}
  /\ data \in BOOLEAN
  /\ pc \in Locations
  /\ expired \in BOOLEAN
  /\ returnCode \in {"none", "zero", "nonzero", "signal"}
  /\ timedOut \in BOOLEAN /\ internalError \in BOOLEAN
  /\ termination \in [reason : Reasons, term : BOOLEAN, kill : BOOLEAN, cleared : BOOLEAN]
  /\ verdict.status \in {"none", "spawn_error", "collection_error", "timed_out",
                         "signal_terminated", "passed", "failed"}
  /\ interrupts \in 0 .. MaxInterrupts

(* Evidence that says process_group_cleared is true then and for ever: no  *)
(* member of the group, not even a zombie, is left, and none comes back.   *)
ClearedMeansGone == pc = "ended" /\ termination.cleared => Group = {}

(* A command judged on how it ended alone (passed, failed, or dead of a    *)
(* signal) ended by itself and not under a signal of the runner, left      *)
(* nothing in its group and nobody who could still write to the collected  *)
(* output, and the verdict tells the three ends apart: a command that      *)
(* crashed never passes and never counts as a failed gate.                 *)
CleanVerdictIsFinal ==
  pc = "ended" /\ verdict.failure \in {"none", "signal_termination"} =>
    /\ Group = {} /\ PipeHolders = {}
    /\ ~doomed[Parent]
    /\ << exitStatus, verdict.status, verdict.failure >> \in
         { << "zero", "passed", "none" >>, << "nonzero", "failed", "none" >>,
           << "signal", "signal_terminated", "signal_termination" >> }

(* Every run ends, although the command may hang, fork, ignore SIGTERM,    *)
(* keep the pipes open or outlive SIGKILL.                                 *)
RunEnds == (pc # "ended") ~> (pc \in {"ended", "interrupted"})

=============================================================================
