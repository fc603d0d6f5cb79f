--------------------------- MODULE SafeRunnerProofs ---------------------------
(***************************************************************************)
(* Proofs about SafeRunner for any number of descendants and interrupts:   *)
(* what the evidence of a command says of its process group, and what a    *)
(* verdict without harness failure says of the command, is true and stays  *)
(* true while the command goes on beside the runner.                       *)
(***************************************************************************)
EXTENDS SafeRunner, TLAPS

Terminating == {"inspect", "sigterm", "term_wait", "sigkill", "kill_wait"}
Terminated == {"after", "direct_wait", "output", "close", "ended"}
SpawnFailed == verdict.failure \in {"command_unavailable", "spawn_error"}

(* Parent leads its group for ever, and has an exit status once it ended.  *)
ParentInv ==
  /\ inGroup[Parent]
  /\ proc[Parent] \in {"zombie", "gone"} => exitStatus # "none"
  /\ pc = "spawn" => \A p \in Processes : proc[p] = "unborn"

(* From the return of the termination on, `cleared` means an empty group;  *)
(* after a collection without error nobody holds the pipes.                *)
GoneInv ==
  /\ pc \in Terminated /\ termination.cleared => Group = {}
  /\ pc \in {"close", "ended"} /\ ~internalError => PipeHolders = {}

(* A run that neither timed out nor failed to collect has seen its command *)
(* exit: the return code is the command's own, and only a residual group   *)
(* is ever terminated.                                                     *)
OwnExit == proc[Parent] = "gone" /\ returnCode = exitStatus
CodeInv ==
  ~internalError /\ ~timedOut =>
    /\ pc \in {"residual"} \cup Terminating => OwnExit
    /\ pc \in Terminating => termination.reason = "residual_process"
    /\ pc \in Terminated /\ ~SpawnFailed => OwnExit

VerdictInv ==
  /\ pc # "ended" => ~SpawnFailed
  /\ pc = "ended" => SpawnFailed \/ verdict = Verdict

IInv == TypeOK /\ ParentInv /\ GoneInv /\ CodeInv /\ VerdictInv

-----------------------------------------------------------------------------
(* The command and the system calls.                                       *)

(* Whatever the command does, an empty group and unheld pipes stay so, and *)
(* an ended Parent keeps its status.                                       *)
LEMMA CommandFacts ==
  ASSUME TypeOK, ParentInv, CommandStep
  PROVE  /\ TypeOK' /\ RunnerUnchanged
         /\ inGroup'[Parent]
         /\ proc'[Parent] \in {"zombie", "gone"} => exitStatus' # "none"
         /\ proc[Parent] = "gone" => proc'[Parent] = "gone" /\ exitStatus' = exitStatus
         /\ (\A p \in Processes : proc[p] = "unborn") => \A p \in Processes : proc'[p] = "unborn"
         /\ Group = {} => Group' = {}
         /\ PipeHolders = {} => PipeHolders' = {}
<1> USE ProcessAssumption DEF TypeOK, ParentInv, RunnerUnchanged, Processes, Alive,
        Group, PipeHolders, system, collected
<1>1. CASE \E p \in Processes, c \in Children : Fork(p, c)
  <2> PICK p \in Processes, c \in Children : Fork(p, c)
    BY <1>1
  <2>1. TypeOK' /\ RunnerUnchanged
    BY DEF Fork
  <2>2. c # Parent /\ proc[c] = "unborn" /\ proc[p] = "running"
    BY DEF Fork
  <2>3. \A q \in Processes \ {c} : proc'[q] = proc[q] /\ inGroup'[q] = inGroup[q]
                                   /\ holdsPipe'[q] = holdsPipe[q]
    BY DEF Fork
  <2>4. inGroup'[c] = inGroup[p] /\ holdsPipe'[c] = holdsPipe[p] /\ exitStatus' = exitStatus
    BY DEF Fork
  <2> QED
    BY <2>1, <2>2, <2>3, <2>4
<1>2. CASE \E c \in Children : LeaveGroup(c)
  BY <1>2 DEF LeaveGroup
<1>3. CASE \E p \in Processes : ClosePipe(p)
  BY <1>3 DEF ClosePipe
<1>4. CASE \E p \in Processes : WriteOutput(p)
  BY <1>4 DEF WriteOutput
<1>5. CASE \E p \in Processes : EndProcess(p)
  <2> PICK p \in Processes : EndProcess(p)
    BY <1>5
  <2>1. TypeOK' /\ RunnerUnchanged /\ proc[p] = "running"
    BY DEF EndProcess
  <2>2. \A q \in Processes \ {p} : proc'[q] = proc[q]
    BY DEF EndProcess
  <2>3. inGroup' = inGroup /\ holdsPipe' = holdsPipe /\ proc'[p] \in {"zombie", "gone"}
    BY DEF EndProcess
  <2>4. p # Parent => exitStatus' = exitStatus
    BY DEF EndProcess
  <2>5. p = Parent => exitStatus' # "none"
    BY DEF EndProcess
  <2> QED
    BY <2>1, <2>2, <2>3, <2>4, <2>5
<1> QED
  BY <1>1, <1>2, <1>3, <1>4, <1>5 DEF CommandStep

(* process.poll() takes a zombie Parent out of the group and changes       *)
(* nothing else.                                                           *)
LEMMA PollFacts ==
  ASSUME TypeOK, ParentInv, Poll, UNCHANGED << inGroup, holdsPipe >>
  PROVE  /\ proc' \in [Processes -> {"unborn", "running", "zombie", "gone"}]
         /\ Exited => proc'[Parent] = "gone"
         /\ ~Exited => proc' = proc
         /\ proc'[Parent] \in {"zombie", "gone"} => exitStatus # "none"
         /\ inGroup'[Parent] /\ PolledCode \in {"none", "zero", "nonzero", "signal"}
         /\ Group' = GroupAfterPoll /\ PipeHolders' = PipeHolders
         /\ Group = {} => Group' = {}
BY ProcessAssumption DEF TypeOK, ParentInv, Poll, PolledCode, Exited, Processes, Group,
   GroupAfterPoll,
   PipeHolders

-----------------------------------------------------------------------------
(* Every step.                                                             *)

(* The initial states satisfy the invariant.                               *)
LEMMA InvInit ==
  ASSUME Init
  PROVE  IInv
<1>1. TypeOK
  <2>1. {data, expired, timedOut, internalError} \subseteq BOOLEAN
    BY DEF Init
  <2>2. termination \in [reason : Reasons, term : BOOLEAN, kill : BOOLEAN, cleared : BOOLEAN]
    BY DEF Init, NoTermination, Reasons
  <2>3. /\ proc \in [Processes -> {"unborn", "running", "zombie", "gone"}]
        /\ inGroup \in [Processes -> BOOLEAN] /\ holdsPipe \in [Processes -> BOOLEAN]
        /\ doomed \in [Processes -> BOOLEAN]
    BY DEF Init
  <2> QED
    BY <2>1, <2>2, <2>3, InterruptsAssumption DEF Init, TypeOK, Locations, NoVerdict
<1>2. ParentInv
  BY DEF Init, ParentInv, Processes
<1>3. GoneInv /\ CodeInv /\ VerdictInv
  BY DEF Init, GoneInv, CodeInv, VerdictInv, SpawnFailed, NoVerdict, Terminating, Terminated
<1> QED
  BY <1>1, <1>2, <1>3 DEF IInv

(* An action of the runner that leaves the processes alone.                *)
LEMMA SystemKept ==
  ASSUME UNCHANGED system
  PROVE  Group' = Group /\ PipeHolders' = PipeHolders /\ Exited' = Exited
BY DEF system, Group, PipeHolders, Exited

(* What the termination returns is typed.                                  *)
LEMMA ReturnTyped ==
  ASSUME TypeOK, PolledCode \in {"none", "zero", "nonzero", "signal"}, NEW c \in BOOLEAN
  PROVE  Return(c) =>
           /\ termination' \in
                [reason : Reasons, term : BOOLEAN, kill : BOOLEAN, cleared : BOOLEAN]
           /\ pc' \in {"close", "after"}
           /\ returnCode' \in {"none", "zero", "nonzero", "signal"}
BY DEF TypeOK, Return

(* So is what it starts with, and what it says after SIGTERM.              *)
LEMMA TerminationTyped ==
  /\ \A r \in Reasons : [NoTermination EXCEPT !.reason = r] \in
       [reason : Reasons, term : BOOLEAN, kill : BOOLEAN, cleared : BOOLEAN]
  /\ \A t \in [reason : Reasons, term : BOOLEAN, kill : BOOLEAN, cleared : BOOLEAN] :
       [t EXCEPT !.term = TRUE] \in
         [reason : Reasons, term : BOOLEAN, kill : BOOLEAN, cleared : BOOLEAN]
<1> DEFINE Records == [reason : Reasons, term : BOOLEAN, kill : BOOLEAN, cleared : BOOLEAN]
<1>1. "none" \in Reasons
  BY DEF Reasons
<1>2. NoTermination \in Records
  BY <1>1 DEF NoTermination
<1> QED
  BY <1>2

(* Every step keeps the invariant.                                         *)
LEMMA InvStep ==
  ASSUME IInv, [Next]_vars
  PROVE  IInv'
<1> USE ProcessAssumption, InterruptsAssumption
    DEF IInv, system, collected, Terminating, Terminated, Locations, Waiting
<1>0. CASE CommandStep
  <2>1. TypeOK' /\ ParentInv'
    BY <1>0, CommandFacts DEF RunnerUnchanged, ParentInv
  <2>2. GoneInv' /\ CodeInv'
    BY <1>0, CommandFacts DEF RunnerUnchanged, GoneInv, CodeInv, OwnExit, SpawnFailed
  <2>3. VerdictInv'
    BY <1>0, CommandFacts DEF RunnerUnchanged, VerdictInv, SpawnFailed, Verdict, CodeStatus
  <2> QED
    BY <2>1, <2>2, <2>3
<1>1. CASE ReadChunk
  <2>1. TypeOK'
    <3>1. {data', expired', timedOut', internalError'} \subseteq BOOLEAN
      BY <1>1 DEF ReadChunk, TypeOK
    <3> QED
      BY <3>1, <1>1, SystemKept DEF ReadChunk, TypeOK
  <2>2. ParentInv'
    BY <1>1, SystemKept DEF ReadChunk, TypeOK, ParentInv
  <2>3. GoneInv'
    BY <1>1, SystemKept DEF ReadChunk, TypeOK, ParentInv, GoneInv
  <2>4. CodeInv'
    BY <1>1, SystemKept DEF ReadChunk, TypeOK, ParentInv, CodeInv, OwnExit,
       VerdictInv, SpawnFailed
  <2>5. VerdictInv'
    BY <1>1 DEF ReadChunk, VerdictInv, Verdict, CodeStatus, SpawnFailed
  <2> QED
    BY <2>1, <2>2, <2>3, <2>4, <2>5
<1>2. CASE PassDeadline
  <2>1. TypeOK'
    BY <1>2, SystemKept DEF PassDeadline, TypeOK
  <2>2. ParentInv'
    BY <1>2, SystemKept DEF PassDeadline, TypeOK, ParentInv
  <2>3. GoneInv'
    BY <1>2, SystemKept DEF PassDeadline, TypeOK, ParentInv, GoneInv
  <2>4. CodeInv'
    BY <1>2, SystemKept DEF PassDeadline, TypeOK, ParentInv, CodeInv, OwnExit,
       VerdictInv, SpawnFailed
  <2>5. VerdictInv'
    BY <1>2 DEF PassDeadline, VerdictInv, Verdict, CodeStatus, SpawnFailed
  <2> QED
    BY <2>1, <2>2, <2>3, <2>4, <2>5
<1>3. CASE SpawnFails
  <2>1. TypeOK'
    BY <1>3, SystemKept DEF SpawnFails, TypeOK
  <2>2. ParentInv'
    BY <1>3, SystemKept DEF SpawnFails, TypeOK, ParentInv
  <2>3. GoneInv'
    BY <1>3, SystemKept DEF SpawnFails, TypeOK, ParentInv, GoneInv, Group, PipeHolders
  <2>4. CodeInv'
    BY <1>3, SystemKept DEF SpawnFails, TypeOK, ParentInv, CodeInv, OwnExit,
       VerdictInv, SpawnFailed, Group, PipeHolders
  <2>5. VerdictInv'
    BY <1>3 DEF SpawnFails, VerdictInv, Verdict, CodeStatus, SpawnFailed
  <2> QED
    BY <2>1, <2>2, <2>3, <2>4, <2>5
<1>4. CASE Spawn
  <2>1. TypeOK'
    BY <1>4 DEF Spawn, TypeOK, Processes
  <2>2. ParentInv'
    BY <1>4 DEF Spawn, TypeOK, ParentInv
  <2>3. GoneInv'
    BY <1>4 DEF Spawn, TypeOK, ParentInv, GoneInv
  <2>4. CodeInv'
    BY <1>4 DEF Spawn, TypeOK, ParentInv, CodeInv, OwnExit,
       VerdictInv, SpawnFailed
  <2>5. VerdictInv'
    BY <1>4 DEF Spawn, VerdictInv, Verdict, CodeStatus, SpawnFailed
  <2> QED
    BY <2>1, <2>2, <2>3, <2>4, <2>5
<1>5. CASE CollectExit
  <2>1. TypeOK'
    BY <1>5, PollFacts DEF CollectExit, TypeOK
  <2>2. ParentInv'
    BY <1>5, PollFacts DEF CollectExit, TypeOK, ParentInv
  <2>3. GoneInv'
    BY <1>5, PollFacts DEF CollectExit, TypeOK, ParentInv, GoneInv, Exited
  <2>4. CodeInv'
    BY <1>5, PollFacts DEF CollectExit, TypeOK, ParentInv, CodeInv, OwnExit,
       VerdictInv, SpawnFailed, Exited
  <2>5. VerdictInv'
    BY <1>5 DEF CollectExit, VerdictInv, Verdict, CodeStatus, SpawnFailed
  <2> QED
    BY <2>1, <2>2, <2>3, <2>4, <2>5
<1>6. CASE CollectTimeout
  <2>1. TypeOK'
    <3>1. "timeout" \in Reasons
      BY DEF Reasons
    <3>2. termination' \in [reason : Reasons, term : BOOLEAN, kill : BOOLEAN, cleared : BOOLEAN]
      BY <1>6, <3>1, TerminationTyped DEF CollectTimeout, Terminate, TypeOK
    <3> QED
      BY <1>6, <3>2 DEF CollectTimeout, Terminate, TypeOK
  <2>2. ParentInv'
    BY <1>6, SystemKept DEF CollectTimeout, Terminate, TypeOK, ParentInv
  <2>3. GoneInv'
    BY <1>6, SystemKept DEF CollectTimeout, Terminate, TypeOK, ParentInv, GoneInv
  <2>4. CodeInv'
    BY <1>6, SystemKept DEF CollectTimeout, Terminate, TypeOK, ParentInv, CodeInv, OwnExit,
       VerdictInv, SpawnFailed
  <2>5. VerdictInv'
    BY <1>6 DEF CollectTimeout, Terminate, VerdictInv, Verdict, CodeStatus, SpawnFailed
  <2> QED
    BY <2>1, <2>2, <2>3, <2>4, <2>5
<1>7. CASE Residual
  <2>1. TypeOK'
    <3>1. "residual_process" \in Reasons
      BY DEF Reasons
    <3>2. termination' \in [reason : Reasons, term : BOOLEAN, kill : BOOLEAN, cleared : BOOLEAN]
      BY <1>7, <3>1, TerminationTyped DEF Residual, Terminate, TypeOK
    <3> QED
      BY <1>7, <3>2 DEF Residual, Terminate, TypeOK
  <2>2. ParentInv'
    BY <1>7, SystemKept DEF Residual, Terminate, TypeOK, ParentInv
  <2>3. GoneInv'
    BY <1>7, SystemKept DEF Residual, Terminate, TypeOK, ParentInv, GoneInv, NoTermination
  <2>4. CodeInv'
    BY <1>7, SystemKept DEF Residual, Terminate, TypeOK, ParentInv, CodeInv, OwnExit,
       VerdictInv, SpawnFailed, NoTermination
  <2>5. VerdictInv'
    BY <1>7 DEF Residual, Terminate, VerdictInv, Verdict, CodeStatus, SpawnFailed
  <2> QED
    BY <2>1, <2>2, <2>3, <2>4, <2>5
<1>8. CASE CollectionRaises
  <2>1. TypeOK'
    <3>1. "emergency_cleanup" \in Reasons
      BY DEF Reasons
    <3>2. termination' \in [reason : Reasons, term : BOOLEAN, kill : BOOLEAN, cleared : BOOLEAN]
      BY <1>8, <3>1, TerminationTyped DEF CollectionRaises, Terminate, TypeOK
    <3> QED
      BY <1>8, <3>2 DEF CollectionRaises, Terminate, TypeOK
  <2>2. ParentInv'
    BY <1>8, SystemKept DEF CollectionRaises, Terminate, TypeOK, ParentInv
  <2>3. GoneInv'
    BY <1>8, SystemKept DEF CollectionRaises, Terminate, TypeOK, ParentInv, GoneInv
  <2>4. CodeInv'
    BY <1>8, SystemKept DEF CollectionRaises, Terminate, TypeOK, ParentInv, CodeInv,
       OwnExit,
       VerdictInv, SpawnFailed
  <2>5. VerdictInv'
    BY <1>8 DEF CollectionRaises, Terminate, VerdictInv, Verdict, CodeStatus, SpawnFailed
  <2> QED
    BY <2>1, <2>2, <2>3, <2>4, <2>5
<1>9. CASE Inspect
  <2>1. TypeOK'
    <3>1. proc' \in [Processes -> {"unborn", "running", "zombie", "gone"}]
      BY <1>9, PollFacts, SystemKept DEF Inspect, Return, TypeOK
    <3>2. PolledCode \in {"none", "zero", "nonzero", "signal"}
      BY DEF TypeOK, PolledCode
    <3>3. TRUE \in BOOLEAN /\ FALSE \in BOOLEAN
      OBVIOUS
    <3>4. /\ termination' \in [reason : Reasons, term : BOOLEAN, kill : BOOLEAN, cleared : BOOLEAN]
          /\ pc' \in Locations /\ returnCode' \in {"none", "zero", "nonzero", "signal"}
      BY <1>9, <3>2, <3>3, ReturnTyped DEF Inspect, TypeOK
    <3> QED
      BY <1>9, <3>1, <3>4 DEF Inspect, TypeOK
  <2>2. ParentInv'
    BY <1>9, PollFacts, SystemKept DEF Inspect, Return, TypeOK, ParentInv
  <2>3. GoneInv'
    BY <1>9, PollFacts, SystemKept DEF Inspect, Return, TypeOK, ParentInv, GoneInv, Exited
  <2>4. CodeInv'
    BY <1>9, PollFacts, SystemKept DEF Inspect, Return, PolledCode, TypeOK, ParentInv,
       CodeInv, OwnExit,
       VerdictInv, SpawnFailed, Exited
  <2>5. VerdictInv'
    BY <1>9 DEF Inspect, Return, PolledCode, VerdictInv, Verdict, CodeStatus, SpawnFailed
  <2> QED
    BY <2>1, <2>2, <2>3, <2>4, <2>5
<1>10. CASE SendTerm
  <2>1. TypeOK'
    <3>1. termination' \in [reason : Reasons, term : BOOLEAN, kill : BOOLEAN, cleared : BOOLEAN]
      BY <1>10, TerminationTyped DEF SendTerm, TypeOK
    <3>2. doomed' \in [Processes -> BOOLEAN]
      BY <1>10 DEF SendTerm, DeliverTerm, TypeOK
    <3> QED
      BY <1>10, <3>1, <3>2 DEF SendTerm, TypeOK
  <2>2. ParentInv'
    BY <1>10, SystemKept DEF SendTerm, DeliverTerm, TypeOK, ParentInv
  <2>3. GoneInv'
    BY <1>10, SystemKept DEF SendTerm, DeliverTerm, TypeOK, ParentInv, GoneInv
  <2>4. CodeInv'
    BY <1>10, SystemKept DEF SendTerm, DeliverTerm, TypeOK, ParentInv, CodeInv, OwnExit,
       VerdictInv, SpawnFailed
  <2>5. VerdictInv'
    BY <1>10 DEF SendTerm, DeliverTerm, VerdictInv, Verdict, CodeStatus, SpawnFailed
  <2> QED
    BY <2>1, <2>2, <2>3, <2>4, <2>5
<1>11. CASE WaitAfterTerm
  <2>1. TypeOK'
    <3>1. proc' \in [Processes -> {"unborn", "running", "zombie", "gone"}]
      BY <1>11, PollFacts DEF WaitAfterTerm, Wait, Return, TypeOK
    <3>2. PolledCode \in {"none", "zero", "nonzero", "signal"}
      BY DEF TypeOK, PolledCode
    <3>3. TRUE \in BOOLEAN /\ FALSE \in BOOLEAN
      OBVIOUS
    <3>4. /\ termination' \in [reason : Reasons, term : BOOLEAN, kill : BOOLEAN, cleared : BOOLEAN]
          /\ pc' \in Locations /\ returnCode' \in {"none", "zero", "nonzero", "signal"}
      BY <1>11, <3>2, <3>3, ReturnTyped DEF WaitAfterTerm, Wait, TypeOK
    <3> QED
      BY <1>11, <3>1, <3>4 DEF WaitAfterTerm, Wait, TypeOK
  <2>2. ParentInv'
    BY <1>11, PollFacts DEF WaitAfterTerm, Wait, Return, TypeOK, ParentInv
  <2>3. GoneInv'
    BY <1>11, PollFacts DEF WaitAfterTerm, Wait, Return, TypeOK, ParentInv, GoneInv, Exited
  <2>4. CodeInv'
    BY <1>11, PollFacts DEF WaitAfterTerm, Wait, Return, PolledCode, TypeOK, ParentInv,
       CodeInv, OwnExit,
       VerdictInv, SpawnFailed, Exited
  <2>5. VerdictInv'
    BY <1>11 DEF WaitAfterTerm, Wait, Return, PolledCode, VerdictInv, Verdict,
       CodeStatus, SpawnFailed
  <2> QED
    BY <2>1, <2>2, <2>3, <2>4, <2>5
<1>12. CASE SendKill
  <2>1. TypeOK'
    BY <1>12, SystemKept DEF SendKill, DeliverKill, TypeOK
  <2>2. ParentInv'
    BY <1>12, SystemKept DEF SendKill, DeliverKill, TypeOK, ParentInv
  <2>3. GoneInv'
    BY <1>12, SystemKept DEF SendKill, DeliverKill, TypeOK, ParentInv, GoneInv
  <2>4. CodeInv'
    BY <1>12, SystemKept DEF SendKill, DeliverKill, TypeOK, ParentInv, CodeInv, OwnExit,
       VerdictInv, SpawnFailed
  <2>5. VerdictInv'
    BY <1>12 DEF SendKill, DeliverKill, VerdictInv, Verdict, CodeStatus, SpawnFailed
  <2> QED
    BY <2>1, <2>2, <2>3, <2>4, <2>5
<1>13. CASE WaitAfterKill
  <2>1. TypeOK'
    <3>1. proc' \in [Processes -> {"unborn", "running", "zombie", "gone"}]
      BY <1>13, PollFacts DEF WaitAfterKill, Wait, Return, TypeOK
    <3>2. PolledCode \in {"none", "zero", "nonzero", "signal"}
      BY DEF TypeOK, PolledCode
    <3>3. TRUE \in BOOLEAN /\ FALSE \in BOOLEAN
      OBVIOUS
    <3>4. /\ termination' \in [reason : Reasons, term : BOOLEAN, kill : BOOLEAN, cleared : BOOLEAN]
          /\ pc' \in Locations /\ returnCode' \in {"none", "zero", "nonzero", "signal"}
      BY <1>13, <3>2, <3>3, ReturnTyped DEF WaitAfterKill, Wait, TypeOK
    <3> QED
      BY <1>13, <3>1, <3>4 DEF WaitAfterKill, Wait, TypeOK
  <2>2. ParentInv'
    BY <1>13, PollFacts DEF WaitAfterKill, Wait, Return, TypeOK, ParentInv
  <2>3. GoneInv'
    BY <1>13, PollFacts DEF WaitAfterKill, Wait, Return, TypeOK, ParentInv, GoneInv, Exited
  <2>4. CodeInv'
    BY <1>13, PollFacts DEF WaitAfterKill, Wait, Return, PolledCode, TypeOK, ParentInv,
       CodeInv, OwnExit,
       VerdictInv, SpawnFailed, Exited
  <2>5. VerdictInv'
    BY <1>13 DEF WaitAfterKill, Wait, Return, PolledCode, VerdictInv, Verdict,
       CodeStatus, SpawnFailed
  <2> QED
    BY <2>1, <2>2, <2>3, <2>4, <2>5
<1>14. CASE GroupCallFails
  <2>1. TypeOK'
    <3>1. proc' \in [Processes -> {"unborn", "running", "zombie", "gone"}]
      BY <1>14, PollFacts, SystemKept DEF GroupCallFails, Return, TypeOK
    <3>2. PolledCode \in {"none", "zero", "nonzero", "signal"}
      BY DEF TypeOK, PolledCode
    <3>3. TRUE \in BOOLEAN /\ FALSE \in BOOLEAN
      OBVIOUS
    <3>4. /\ termination' \in [reason : Reasons, term : BOOLEAN, kill : BOOLEAN, cleared : BOOLEAN]
          /\ pc' \in Locations /\ returnCode' \in {"none", "zero", "nonzero", "signal"}
      BY <1>14, <3>2, <3>3, ReturnTyped DEF GroupCallFails, TypeOK, NoTermination, Reasons
    <3> QED
      BY <1>14, <3>1, <3>4 DEF GroupCallFails, TypeOK
  <2>2. ParentInv'
    BY <1>14, PollFacts, SystemKept DEF GroupCallFails, Return, TypeOK, ParentInv
  <2>3. GoneInv'
    BY <1>14, PollFacts, SystemKept DEF GroupCallFails, Return, TypeOK, ParentInv,
       GoneInv, NoTermination, Exited
  <2>4. CodeInv'
    BY <1>14, PollFacts, SystemKept DEF GroupCallFails, Return, PolledCode, TypeOK,
       ParentInv, CodeInv, OwnExit,
       VerdictInv, SpawnFailed, NoTermination, Exited
  <2>5. VerdictInv'
    BY <1>14 DEF GroupCallFails, Return, PolledCode, VerdictInv, Verdict, CodeStatus,
       SpawnFailed
  <2> QED
    BY <2>1, <2>2, <2>3, <2>4, <2>5
<1>15. CASE After
  <2>1. TypeOK'
    <3>1. UNCHANGED << termination, inGroup, holdsPipe, exitStatus, data, collected, verdict,
                       interrupts >>
      BY <1>15 DEF After
    <3>2. doomed' \in [Processes -> BOOLEAN]
      BY <1>15 DEF After, TypeOK
    <3>3. proc' \in [Processes -> {"unborn", "running", "zombie", "gone"}]
      BY <1>15, PollFacts DEF After, TypeOK
    <3>4. pc' \in Locations /\ expired' \in BOOLEAN
      BY <1>15 DEF After, StartOutput
    <3> QED
      BY <3>1, <3>2, <3>3, <3>4 DEF TypeOK
  <2>2. ParentInv'
    BY <1>15, PollFacts, SystemKept DEF After, StartOutput, TypeOK, ParentInv
  <2>3. GoneInv'
    BY <1>15, PollFacts, SystemKept DEF After, StartOutput, TypeOK, ParentInv, GoneInv,
       Exited, Group, Processes
  <2>4. CodeInv'
    BY <1>15, PollFacts, SystemKept DEF After, StartOutput, TypeOK, ParentInv, CodeInv,
       OwnExit,
       VerdictInv, SpawnFailed, Exited, Group, Processes
  <2>5. VerdictInv'
    BY <1>15 DEF After, StartOutput, VerdictInv, Verdict, CodeStatus, SpawnFailed
  <2> QED
    BY <2>1, <2>2, <2>3, <2>4, <2>5
<1>16. CASE DirectWait
  <2>1. TypeOK'
    <3>1. proc' \in [Processes -> {"unborn", "running", "zombie", "gone"}]
      BY <1>16, PollFacts DEF DirectWait, StartOutput, TypeOK
    <3>2. PolledCode \in {"none", "zero", "nonzero", "signal"}
      BY DEF TypeOK, PolledCode
    <3>3. termination' \in [reason : Reasons, term : BOOLEAN, kill : BOOLEAN, cleared : BOOLEAN]
      <4>1. PICK reason \in Reasons :
              termination' = [termination EXCEPT !.reason = reason, !.cleared = FALSE]
        BY <1>16 DEF DirectWait, StartOutput, TypeOK, Reasons
      <4> QED
        BY <4>1 DEF TypeOK
    <3> QED
      BY <1>16, <3>1, <3>2, <3>3 DEF DirectWait, StartOutput, TypeOK
  <2>2. ParentInv'
    BY <1>16, PollFacts DEF DirectWait, StartOutput, TypeOK, ParentInv
  <2>3. GoneInv'
    BY <1>16, PollFacts DEF DirectWait, StartOutput, TypeOK, ParentInv, GoneInv, Exited
  <2>4. CodeInv'
    BY <1>16, PollFacts DEF DirectWait, StartOutput, PolledCode, TypeOK, ParentInv,
       CodeInv, OwnExit,
       VerdictInv, SpawnFailed, Exited
  <2>5. VerdictInv'
    BY <1>16 DEF DirectWait, StartOutput, PolledCode, VerdictInv, Verdict, CodeStatus,
       SpawnFailed
  <2> QED
    BY <2>1, <2>2, <2>3, <2>4, <2>5
<1>17. CASE DrainOutput
  <2>1. TypeOK'
    <3>1. {data', expired', timedOut', internalError'} \subseteq BOOLEAN
      BY <1>17 DEF DrainOutput, TypeOK
    <3> QED
      BY <3>1, <1>17, SystemKept DEF DrainOutput, TypeOK
  <2>2. ParentInv'
    BY <1>17, SystemKept DEF DrainOutput, TypeOK, ParentInv
  <2>3. GoneInv'
    BY <1>17, SystemKept DEF DrainOutput, TypeOK, ParentInv, GoneInv
  <2>4. CodeInv'
    BY <1>17, SystemKept DEF DrainOutput, TypeOK, ParentInv, CodeInv, OwnExit,
       VerdictInv, SpawnFailed
  <2>5. VerdictInv'
    BY <1>17 DEF DrainOutput, VerdictInv, Verdict, CodeStatus, SpawnFailed
  <2> QED
    BY <2>1, <2>2, <2>3, <2>4, <2>5
<1>18. CASE DrainFails
  <2>1. TypeOK'
    BY <1>18, SystemKept DEF DrainFails, TypeOK
  <2>2. ParentInv'
    BY <1>18, SystemKept DEF DrainFails, TypeOK, ParentInv
  <2>3. GoneInv'
    BY <1>18, SystemKept DEF DrainFails, TypeOK, ParentInv, GoneInv
  <2>4. CodeInv'
    BY <1>18, SystemKept DEF DrainFails, TypeOK, ParentInv, CodeInv, OwnExit,
       VerdictInv, SpawnFailed
  <2>5. VerdictInv'
    BY <1>18 DEF DrainFails, VerdictInv, Verdict, CodeStatus, SpawnFailed
  <2> QED
    BY <2>1, <2>2, <2>3, <2>4, <2>5
<1>19. CASE Close
  <2>1. TypeOK'
    BY <1>19, SystemKept DEF Close, TypeOK, Verdict, CodeStatus
  <2>2. ParentInv'
    BY <1>19, SystemKept DEF Close, TypeOK, ParentInv
  <2>3. GoneInv'
    BY <1>19, SystemKept DEF Close, TypeOK, ParentInv, GoneInv
  <2>4. CodeInv'
    BY <1>19, SystemKept DEF Close, TypeOK, ParentInv, CodeInv, OwnExit,
       VerdictInv, SpawnFailed
  <2>5. VerdictInv'
    BY <1>19 DEF Close, VerdictInv, Verdict, CodeStatus, SpawnFailed
  <2> QED
    BY <2>1, <2>2, <2>3, <2>4, <2>5
<1>20. CASE CloseFails
  <2>1. TypeOK'
    BY <1>20, SystemKept DEF CloseFails, TypeOK
  <2>2. ParentInv'
    BY <1>20, SystemKept DEF CloseFails, TypeOK, ParentInv
  <2>3. GoneInv'
    BY <1>20, SystemKept DEF CloseFails, TypeOK, ParentInv, GoneInv
  <2>4. CodeInv'
    BY <1>20, SystemKept DEF CloseFails, TypeOK, ParentInv, CodeInv, OwnExit,
       VerdictInv, SpawnFailed
  <2>5. VerdictInv'
    BY <1>20 DEF CloseFails, VerdictInv, Verdict, CodeStatus, SpawnFailed
  <2> QED
    BY <2>1, <2>2, <2>3, <2>4, <2>5
<1>21. CASE Interrupt
  <2>1. TypeOK'
    <3>1. {data', expired', timedOut', internalError'} \subseteq BOOLEAN
      BY <1>21 DEF Interrupt, TypeOK
    <3> QED
      BY <3>1, <1>21, SystemKept DEF Interrupt, TypeOK
  <2>2. ParentInv'
    BY <1>21, SystemKept DEF Interrupt, TypeOK, ParentInv
  <2>3. GoneInv'
    BY <1>21, SystemKept DEF Interrupt, TypeOK, ParentInv, GoneInv
  <2>4. CodeInv'
    BY <1>21, SystemKept DEF Interrupt, TypeOK, ParentInv, CodeInv, OwnExit,
       VerdictInv, SpawnFailed
  <2>5. VerdictInv'
    BY <1>21 DEF Interrupt, VerdictInv, Verdict, CodeStatus, SpawnFailed
  <2> QED
    BY <2>1, <2>2, <2>3, <2>4, <2>5
<1>22. CASE UNCHANGED vars
  <2>1. TypeOK'
    BY <1>22, SystemKept DEF vars, TypeOK
  <2>2. ParentInv'
    BY <1>22, SystemKept DEF vars, TypeOK, ParentInv
  <2>3. GoneInv'
    BY <1>22, SystemKept DEF vars, TypeOK, ParentInv, GoneInv
  <2>4. CodeInv'
    BY <1>22, SystemKept DEF vars, TypeOK, ParentInv, CodeInv, OwnExit,
       VerdictInv, SpawnFailed
  <2>5. VerdictInv'
    BY <1>22 DEF vars, VerdictInv, Verdict, CodeStatus, SpawnFailed
  <2> QED
    BY <2>1, <2>2, <2>3, <2>4, <2>5
<1> QED
  BY <1>0, <1>1, <1>2, <1>3, <1>4, <1>5, <1>6, <1>7, <1>8, <1>9, <1>10, <1>11, <1>12,
     <1>13, <1>14, <1>15, <1>16, <1>17, <1>18, <1>19, <1>20, <1>21, <1>22
  DEF Next, RunnerStep, RunnerFault, Done

(* The inductive invariant holds in every reachable state.                 *)
THEOREM Inductive == Spec => []IInv
<1>1. Init => IInv
  BY InvInit
<1>2. IInv /\ [Next]_vars => IInv'
  BY InvStep
<1> QED
  BY <1>1, <1>2, PTL DEF Spec

(* Evidence that says process_group_cleared is true then and for ever,     *)
(* whatever the command did and still does.                                *)
THEOREM ClearedIsTrue == Spec => []ClearedMeansGone
<1>1. IInv => ClearedMeansGone
  BY DEF IInv, GoneInv, ClearedMeansGone, Terminated
<1> QED
  BY <1>1, Inductive, PTL

(* The runner's own signals reach a command only after its time is over or *)
(* its collection failed: a group is otherwise terminated once Parent is   *)
(* reaped.                                                                 *)
DoomInv == ~internalError /\ ~timedOut => ~doomed[Parent]

(* Every step keeps it.                                                    *)
LEMMA DoomInvStep == IInv /\ DoomInv /\ [Next]_vars => DoomInv'
<1> SUFFICES ASSUME IInv, DoomInv, [Next]_vars PROVE DoomInv'
  OBVIOUS
<1> USE DEF DoomInv, system, collected
<1>1. ASSUME doomed' = doomed, internalError => internalError', timedOut => timedOut'
      PROVE  DoomInv'
  BY <1>1
<1>2. CASE CommandStep
  BY <1>1, <1>2 DEF CommandStep, RunnerUnchanged, Fork, LeaveGroup, ClosePipe, WriteOutput,
     EndProcess
<1>3. CASE ReadChunk \/ PassDeadline \/ Interrupt \/ Done \/ UNCHANGED vars
  BY <1>1, <1>3 DEF ReadChunk, PassDeadline, Interrupt, Done, vars
<1>4. CASE SpawnFails \/ CollectionRaises \/ GroupCallFails \/ DrainFails \/ CloseFails
  BY <1>1, <1>4 DEF SpawnFails, CollectionRaises, GroupCallFails, DrainFails, CloseFails
<1>5. CASE Spawn \/ CollectExit \/ CollectTimeout \/ Residual \/ Inspect
  BY <1>1, <1>5 DEF Spawn, CollectExit, CollectTimeout, Residual, Inspect
<1>6. CASE WaitAfterTerm \/ WaitAfterKill
  BY <1>1, <1>6 DEF WaitAfterTerm, WaitAfterKill, Wait
<1>7. CASE DirectWait \/ DrainOutput \/ Close
  BY <1>1, <1>7 DEF DirectWait, DrainOutput, Close
<1>8. ASSUME pc \in Terminating \cup {"after"}, ~internalError, ~timedOut
      PROVE  proc[Parent] = "gone"
  <2>1. ~SpawnFailed
    BY <1>8 DEF IInv, VerdictInv, Terminating
  <2> QED
    BY <1>8, <2>1 DEF IInv, CodeInv, OwnExit, Terminated
<1>9. CASE SendTerm \/ SendKill
  <2>1. doomed'[Parent] => doomed[Parent] \/ proc[Parent] = "running"
    BY <1>9 DEF SendTerm, SendKill, DeliverTerm, DeliverKill, Processes
  <2>2. pc \in Terminating /\ UNCHANGED << internalError, timedOut >>
    BY <1>9 DEF SendTerm, SendKill, Terminating
  <2> QED
    BY <1>8, <2>1, <2>2
<1>10. CASE After
  <2>1. pc = "after" /\ UNCHANGED << internalError, timedOut >>
    BY <1>10 DEF After
  <2>2. Exited => doomed' = doomed
    BY <1>10 DEF After
  <2> QED
    BY <1>8, <2>1, <2>2 DEF Exited
<1> QED
  BY <1>2, <1>3, <1>4, <1>5, <1>6, <1>7, <1>9, <1>10 DEF Next, RunnerStep, RunnerFault

(* A verdict without harness failure, and one of a death by a signal, are  *)
(* the command's own: it ended by itself in that way, and nobody is left   *)
(* in its group or on its pipes.                                           *)
THEOREM CleanVerdictIsTrue == Spec => []CleanVerdictIsFinal
<1>1. ASSUME IInv, DoomInv, pc = "ended",
             verdict.failure \in {"none", "signal_termination"}
      PROVE  /\ Group = {} /\ PipeHolders = {}
             /\ ~doomed[Parent]
             /\ << exitStatus, verdict.status, verdict.failure >> \in
                  { << "zero", "passed", "none" >>, << "nonzero", "failed", "none" >>,
                    << "signal", "signal_terminated", "signal_termination" >> }
  <2>1. ~SpawnFailed /\ verdict = Verdict
    BY <1>1 DEF IInv, VerdictInv, SpawnFailed
  <2>2. termination.cleared /\ ~internalError /\ ~timedOut
    BY <1>1, <2>1 DEF Verdict, IInv, TypeOK
  <2>3. verdict.status = CodeStatus
        /\ verdict.failure = IF returnCode = "signal" THEN "signal_termination" ELSE "none"
    BY <2>1, <2>2 DEF Verdict
  <2>4. OwnExit /\ exitStatus # "none"
    BY <1>1, <2>1, <2>2 DEF IInv, CodeInv, ParentInv, OwnExit, Terminated
  <2>5. exitStatus \in {"zero", "nonzero", "signal"} /\ returnCode = exitStatus
    BY <1>1, <2>4 DEF IInv, TypeOK, OwnExit
  <2> QED
    BY <1>1, <2>2, <2>3, <2>5 DEF IInv, GoneInv, Terminated, CodeStatus, DoomInv
<1>2. IInv /\ DoomInv => CleanVerdictIsFinal
  BY <1>1 DEF CleanVerdictIsFinal
<1>3. Init => DoomInv
  BY DEF Init, DoomInv, Processes
<1>4. IInv /\ DoomInv /\ [Next]_vars => DoomInv'
  BY DoomInvStep
<1> QED
  BY <1>2, <1>3, <1>4, Inductive, PTL DEF Spec

-----------------------------------------------------------------------------
(* What the two programs that run gates expect of a command: LiveRun and   *)
(* Phase6Campaign do not have the steps of this module, they take any of   *)
(* GateResults.                                                            *)
Gates == INSTANCE GateResults

CommandResult ==
  [status |-> verdict.status, cleared |-> termination.cleared, harness |-> verdict.failure]

CallersExpect == pc = "ended" => CommandResult \in Gates!CommandResults

(* A command that could not be spawned has nothing to terminate.           *)
SpawnInv ==
  /\ pc = "spawn" => termination.cleared = TRUE
  /\ SpawnFailed => pc = "ended" /\ verdict.status = "spawn_error" /\ termination.cleared = TRUE

(* Every step keeps it.                                                    *)
LEMMA SpawnInvStep == IInv /\ SpawnInv /\ [Next]_vars => SpawnInv'
<1> SUFFICES ASSUME IInv, SpawnInv, [Next]_vars PROVE SpawnInv'
  OBVIOUS
<1>1. ASSUME UNCHANGED << pc, termination, verdict >> PROVE SpawnInv'
  BY <1>1 DEF SpawnInv, SpawnFailed
<1>2. ASSUME pc # "ended", pc' # "spawn", verdict' = verdict PROVE SpawnInv'
  BY <1>2 DEF SpawnInv, SpawnFailed
<1>3. CASE CommandStep
  <2>1. RunnerUnchanged
    BY <1>3, CommandFacts DEF IInv
  <2> QED BY <1>1, <2>1 DEF RunnerUnchanged
<1>4. CASE ReadChunk \/ PassDeadline \/ Done \/ UNCHANGED vars \/ CloseFails
  BY <1>1, <1>4 DEF ReadChunk, PassDeadline, Done, vars, CloseFails
<1>5. CASE SpawnFails
  BY <1>5 DEF SpawnFails, SpawnInv, SpawnFailed
<1>6. CASE Spawn \/ CollectExit \/ CollectTimeout \/ Residual \/ SendTerm \/ SendKill
  BY <1>2, <1>6 DEF Spawn, CollectExit, CollectTimeout, Residual, SendTerm, SendKill, Terminate
<1>7. CASE Inspect \/ WaitAfterTerm \/ WaitAfterKill \/ GroupCallFails
  BY <1>2, <1>7 DEF Inspect, WaitAfterTerm, WaitAfterKill, Wait, GroupCallFails, Return
<1>8. CASE After \/ DirectWait \/ DrainOutput \/ DrainFails \/ CollectionRaises
  BY <1>2, <1>8 DEF After, DirectWait, DrainOutput, DrainFails, CollectionRaises, StartOutput,
     Terminate, Locations
<1>9. CASE Interrupt
  BY <1>2, <1>9 DEF Interrupt
<1>10. CASE Close
  BY <1>10 DEF Close, SpawnInv, SpawnFailed, Verdict
<1> QED
  BY <1>3, <1>4, <1>5, <1>6, <1>7, <1>8, <1>9, <1>10 DEF Next, RunnerStep, RunnerFault

(* The result of every command is one of those the two programs that run   *)
(* gates go on from.                                                       *)
THEOREM GateResultsAreExpected == Spec => []CallersExpect
<1>1. Init => SpawnInv
  BY DEF Init, SpawnInv, SpawnFailed, NoVerdict, NoTermination
<1>2. ASSUME IInv, SpawnInv, pc = "ended" PROVE CommandResult \in Gates!CommandResults
  <2>1. PICK r : r = CommandResult
    OBVIOUS
  <2>2. /\ r = [status |-> verdict.status, cleared |-> termination.cleared,
                harness |-> verdict.failure]
        /\ termination.cleared \in BOOLEAN
    BY <1>2, <2>1 DEF CommandResult, IInv, TypeOK
  <2>3. CASE SpawnFailed
    <3>1. \/ r = Gates!Cleared("spawn_error", "command_unavailable")
          \/ r = Gates!Cleared("spawn_error", "spawn_error")
      BY <1>2, <2>2, <2>3 DEF SpawnInv, SpawnFailed, Gates!Cleared
    <3> QED BY <2>1, <3>1 DEF Gates!CommandResults
  <2>4. CASE ~ SpawnFailed /\ termination.cleared = FALSE
    <3>1. /\ verdict.failure = "process_cleanup_error"
          /\ verdict.status \in {"passed", "failed", "timed_out", "signal_terminated",
                                 "collection_error"}
      BY <1>2, <2>4 DEF IInv, VerdictInv, Verdict, CodeStatus
    <3>2. r = Gates!GroupRemains(verdict.status)
      BY <2>2, <2>4, <3>1 DEF Gates!GroupRemains
    <3> QED BY <2>1, <3>1, <3>2 DEF Gates!CommandResults
  <2>5. CASE ~ SpawnFailed /\ termination.cleared = TRUE
    <3>1. \/ verdict.status = "collection_error" /\ verdict.failure = "evidence_error"
          \/ verdict.status = "timed_out" /\ verdict.failure = "timeout"
          \/ verdict.status = "signal_terminated" /\ verdict.failure = "signal_termination"
          \/ verdict.status \in {"passed", "failed"} /\ verdict.failure = "none"
      BY <1>2, <2>5 DEF IInv, VerdictInv, Verdict, CodeStatus, TypeOK
    <3>2. r \in {Gates!Cleared("passed", "none"), Gates!Cleared("failed", "none"),
                 Gates!Cleared("timed_out", "timeout"),
                 Gates!Cleared("signal_terminated", "signal_termination"),
                 Gates!Cleared("collection_error", "evidence_error")}
      BY <2>2, <2>5, <3>1 DEF Gates!Cleared
    <3> QED BY <2>1, <3>2 DEF Gates!CommandResults
  <2> QED BY <2>2, <2>3, <2>4, <2>5
<1>3. IInv /\ SpawnInv => CallersExpect
  BY <1>2 DEF CallersExpect
<1>4. IInv /\ SpawnInv /\ [Next]_vars => SpawnInv'
  BY SpawnInvStep
<1> QED
  BY <1>1, <1>3, <1>4, Inductive, PTL DEF Spec
=============================================================================
