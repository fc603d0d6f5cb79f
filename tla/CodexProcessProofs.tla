--------------------------- MODULE CodexProcessProofs --------------------------
(***************************************************************************)
(* CodexProcessRunner: the record of every run is accepted and true, every *)
(* verdict is the Provider's, and one Ctrl-C collects the group.           *)
(*                                                                         *)
(* CodexInv is inductive; there is one lemma per action, and under it one  *)
(* step per conjunct. What the parser made of the output is taken from the *)
(* lemmas of CodexStreamProofs.                                            *)
(***************************************************************************)
EXTENDS CodexProcess, CodexStreamProofs
-----------------------------------------------------------------------------
(* What was written behind the first m units.                              *)
LEMMA SubSeqFacts ==
  ASSUME NEW S, NEW s \in Seq(S), NEW m \in Nat, NEW n \in Nat, m <= n, n <= Len(s)
  PROVE  /\ SubSeq(s, m + 1, n) \in Seq(S) /\ Len(SubSeq(s, m + 1, n)) = n - m
         /\ \A i \in 1 .. n - m : SubSeq(s, m + 1, n)[i] = s[m + i]
<1>1. Len(s) \in Nat /\ m + 1 \in Nat /\ n - (m + 1) + 1 = n - m
  OBVIOUS
<1> QED BY <1>1

(* The record made from the tracker after CodexRunnerError satisfies the   *)
(* contract, if the tracker agrees with the termination, or nothing was    *)
(* started.                                                                *)
LEMMA RunnerErrorAccepted ==
  ASSUME NEW stage \in {HandoffStage, "provider_process_collection"}, NEW limit,
         RaiseRunnerError(stage, limit), Sound(parser'),
         \/ /\ invocation' = "process_started"
            /\ cleanup' = IF termination'.cleared THEN "cleared" ELSE "failed"
         \/ /\ invocation' \in {"not_attempted", "spawn_attempted"}
            /\ cleanup' = "not_applicable" /\ code' = "none" /\ offset = 0
            /\ parser' = NewParser /\ stage = HandoffStage
  PROVE  /\ pc' = "ended" /\ Accepted(evidence') /\ evidence'.kind \in HarnessKinds
         /\ evidence'.invocation = invocation' /\ evidence'.cleared = termination'.cleared
<1> DEFINE e == evidence'
<1>1. PICK kind : /\ kind = IF cleanup' = "failed" THEN "process_cleanup_error"
                            ELSE "evidence_error"
                  /\ e = Evidence(kind, stage, parser', limit) /\ pc' = "ended"
  BY DEF RaiseRunnerError, Ends
<1>2. /\ e.kind = kind /\ e.stage = stage /\ e.runner = "started"
      /\ e.execution = ExecutionStage(invocation')
      /\ e.invocation = invocation' /\ e.cleanup = cleanup' /\ e.stdin = StdinState
      /\ e.code = code' /\ e.events = parser'.events /\ e.errors = parser'.errors
      /\ e.terminal = parser'.terminal
  BY <1>1 DEF Evidence
<1>3. e.hint = (parser'.terminal # "turn_completed" /\ parser'.hints)
  BY <1>1 DEF Evidence
<1>4. e.cleared = termination'.cleared
  BY <1>1 DEF Evidence
<1> HIDE DEF e
<1>5. e.kind \in HarnessKinds /\ e.stage # "none" /\ e.kind # "none"
  BY <1>1, <1>2 DEF HarnessKinds, HandoffStage
<1>6. StageAgrees(e)
  BY <1>2, <1>5 DEF StageAgrees, HarnessKinds, HandoffStage, HandoffStages,
     OrchestrationStages, RunnerStages, PreSpawnStages, PostSpawnStages, SpawnKinds
<1>7. KindAgrees(e)
  <2>1. e.kind = "process_cleanup_error" => ~ e.cleared
    BY <1>1, <1>2, <1>4
  <2> QED BY <1>5, <2>1 DEF KindAgrees, Kinds, HarnessKinds, SpawnKinds, ProviderKinds
<1>8. LifecycleAgrees(e)
  <2>1. CASE invocation' = "process_started"
    <3>1. e.cleanup = IF e.cleared THEN "cleared" ELSE "failed"
      BY <1>2, <1>4, <2>1
    <3> QED BY <1>2, <2>1, <3>1 DEF LifecycleAgrees, HandoffStage, OrchestrationStages,
         RunnerStages, PreSpawnStages, PostSpawnStages, ExecutionStage
  <2>2. CASE invocation' # "process_started"
    <3>1. ~ e.hint
      <4>1. parser'.hints = FALSE
        BY <2>2 DEF NewParser
      <4>2. e.hint = FALSE
        BY <1>3, <4>1
      <4> QED BY <4>2
    <3>2. e.stdin = "not_started"
      <4>1. offset = 0 /\ offset # PromptSize
        BY <2>2, PromptAssumption
      <4> QED BY <1>2, <4>1 DEF StdinState
    <3>3. e.code = "none" /\ e.events = 0 /\ e.terminal = "none"
      BY <1>2, <2>2 DEF NewParser
    <3> QED BY <1>2, <2>2, <3>1, <3>2, <3>3 DEF LifecycleAgrees, HandoffStage, OrchestrationStages,
         RunnerStages, PreSpawnStages, PostSpawnStages, ExecutionStage
  <2> QED BY <2>1, <2>2
<1>9. e.terminal = "turn_completed" => e.errors = 0
  BY <1>2 DEF Sound
<1> QED BY <1>1, <1>2, <1>4, <1>5, <1>6, <1>7, <1>8, <1>9 DEF Accepted, e

(* Evidence is returned only if it satisfies the contract, and what        *)
(* replaces it otherwise does, as a failure of the harness.                *)
LEMMA ReturnAccepted ==
  ASSUME NEW e, NEW limit, ReturnEvidence(e, limit), Sound(parser'),
         \/ /\ invocation' = "process_started"
            /\ cleanup' = IF termination'.cleared THEN "cleared" ELSE "failed"
         \/ /\ invocation' \in {"not_attempted", "spawn_attempted"}
            /\ cleanup' = "not_applicable" /\ code' = "none" /\ offset = 0
            /\ parser' = NewParser,
         e.invocation = invocation', e.cleared = termination'.cleared
  PROVE  /\ pc' = "ended" /\ Accepted(evidence')
         /\ evidence' = e \/ evidence'.kind \in HarnessKinds
         /\ evidence'.invocation = invocation' /\ evidence'.cleared = termination'.cleared
<1>1. CASE Accepted(e) /\ Ends("result", e)
  BY <1>1 DEF Ends
<1>2. CASE RaiseRunnerError(HandoffStage, limit)
  <2>1. /\ pc' = "ended" /\ Accepted(evidence') /\ evidence'.kind \in HarnessKinds
        /\ evidence'.invocation = invocation' /\ evidence'.cleared = termination'.cleared
    BY <1>2, RunnerErrorAccepted
  <2> QED BY <2>1
<1> QED BY <1>1, <1>2 DEF ReturnEvidence

-----------------------------------------------------------------------------
(* The locations of _run and of the handlers around it.                    *)
Final == {"ended", "interrupted"}
PreMark == {"start", "spawn", "mark"}
Locations ==
  Collecting \cup Final \cup PreMark \cup {"pipes", "close", "judge"}

(* Nobody will write to stdout any more, and all of it was read.           *)
NoMore == ~HasWriter /\ Unread = << >>

(* A ProcessGroupTermination, and the failures seen during the collection. *)
IsTermination(t) ==
  \E r : t = [reason |-> r, cleared |-> TRUE] \/ t = [reason |-> r, cleared |-> FALSE]

Failures ==
  {"none", "provider_input_error", "provider_output_limit", "provider_protocol_error"}
  \cup HarnessKinds

(* The parser never got more than was written.                             *)
Typed ==
  /\ script \in Seq(Units) /\ emitted \in 0 .. Len(script)
  /\ parent \in {"unborn", "running", "zombie", "reaped"}
  /\ child \in {"none", "member", "escaped", "gone"}
  /\ pc \in Locations /\ ready \subseteq registered /\ offset \in Nat
  /\ Sound(parser) /\ parser.total <= emitted
  /\ failure \in Failures /\ IsTermination(termination)
  /\ interrupts \in Nat

(* Without a signal of the runner an ended parent ended by itself.         *)
ProviderOK ==
  /\ parent = "unborn" => child = "none"
  /\ ~signalled /\ Exited => ownExit

(* The tracker follows the process: between mark_process_started and the   *)
(* end of _run it is started and its cleanup not observed.                 *)
Lifecycle ==
  /\ pc = "start" => invocation = "not_attempted" /\ cleanup = "not_applicable"
  /\ pc \in {"spawn", "mark"} =>
       invocation = "spawn_attempted" /\ cleanup = "not_applicable"
  /\ pc \notin PreMark \cup Final => Tracked
  /\ pc \notin Final => (parent = "unborn" <=> pc \in {"start", "spawn"})

(* Before the collection nothing is collected.                             *)
Fresh ==
  pc \in PreMark \cup {"pipes"} =>
    /\ ready = {} /\ loop = "collect" /\ offset = 0 /\ parser = NewParser /\ failure = "none"
    /\ protocol = "none" /\ ~timedOut /\ ~raised /\ code = "none"
    /\ termination = NoTermination

(* Which loop or handler works at which location.                          *)
Places ==
  /\ pc \in {"select", "handle", "check"} => loop \in TryLoops
  /\ pc = "after" => loop \in {"collect", "terminate"}
  /\ pc = "direct" => loop = "terminate"
  /\ pc \in {"inspect", "wait"} =>
       loop \in {"terminate", "except", "pipes_failed", "emergency"}
  /\ pc \in {"close", "judge"} => loop \in {"output", "except"}
  /\ loop = "emergency" => interrupts > 0

(* The parent ended by itself and poll has returned its code.              *)
Finished == parent = "reaped" /\ ownExit /\ code = exitCode

(* A collection that saw neither a failure nor the deadline ends with a    *)
(* parent that ended by itself: a signal is sent only after one of them,   *)
(* or to the members that a parent which had ended left behind.            *)
Collected ==
  pc \notin Final =>
    /\ loop = "collect" => ~timedOut /\ ~signalled
    /\ pc = "after" /\ loop = "collect" => failure = "none"
    /\ (loop \in {"terminate", "output"} \/ pc = "after") /\ failure = "none" /\ ~timedOut
         => Finished

(* A termination reported as cleared left the group empty, and nobody      *)
(* joins an empty group.                                                   *)
ClearedIsEmpty ==
  /\ \/ pc \in {"after", "close", "judge"}
     \/ loop = "output" /\ pc \notin Final
  /\ termination.cleared
  => Group = {}

(* stdout is unregistered at its end only, unless something failed.        *)
AllRead ==
  /\ \/ loop \in TryLoops /\ pc \in Collecting /\ "stdout" \notin registered
     \/ pc \in {"close", "judge"}
  /\ failure = "none"
  => NoMore

(* A protocol error is a failure, and without one the parser has read what *)
(* it was fed.                                                             *)
Parsed ==
  /\ protocol # "none" => failure # "none"
  /\ pc # "ended" /\ protocol = "none" /\ ~raised =>
       parser.total <= MaxTotal /\ Reads(script, parser.total, parser)

(* After an unknown exception only its handler (or that of Ctrl-C) works,  *)
(* whose failure is one of the harness.                                    *)
RaisedIsHandled ==
  pc \notin Final =>
    /\ loop = "except" => raised /\ termination.reason = "emergency_cleanup"
    /\ raised => loop \in {"except", "emergency"}
    /\ loop = "except" /\ pc \in {"close", "judge"} => failure \in HarnessKinds

(* A second Ctrl-C may fall into the cleanup of the first.                 *)
OneInterruptCollects == interrupts <= 1 => InterruptCollects

(* The inductive invariant.                                                *)
CodexInv ==
  /\ Typed /\ ProviderOK /\ Lifecycle /\ Fresh /\ Places /\ Collected
  /\ ClearedIsEmpty /\ AllRead /\ Parsed /\ RaisedIsHandled
  /\ OneInterruptCollects /\ EvidenceIsAccepted /\ ClassificationIsTrue

(* It holds initially.                                                     *)
LEMMA InitInv == Init => CodexInv
<1> SUFFICES ASSUME Init PROVE CodexInv
  OBVIOUS
<1> USE DEF Init
<1>1. Typed
  <2>1. script \in Seq(Units) /\ Len(script) \in Nat
    BY ScriptAssumption
  <2>2. IsTermination(termination)
    BY DEF NoTermination, IsTermination
  <2>3. Sound(parser) /\ parser.total = 0
    BY NewParserSound DEF NewParser
  <2>4. pc \in Locations
    BY DEF Locations, PreMark
  <2> QED BY <2>1, <2>2, <2>3, <2>4 DEF Typed, Failures
<1>2. ProviderOK /\ Lifecycle /\ Fresh /\ Places /\ Collected
  BY DEF ProviderOK, Lifecycle, Fresh, Places, Collected, Exited, PreMark, Final
<1>3. ClearedIsEmpty /\ AllRead /\ RaisedIsHandled
  BY DEF ClearedIsEmpty, AllRead, RaisedIsHandled, Collecting, Final
<1>4. Parsed
  <2>1. script \in Seq(Units) /\ Len(script) \in Nat
    BY ScriptAssumption
  <2>2. Reads(script, 0, parser) /\ parser.total = 0
    BY <2>1, NewParserReads DEF NewParser
  <2>3. 0 <= MaxTotal
    BY LimitAssumption
  <2> QED BY <2>2, <2>3 DEF Parsed
<1>5. OneInterruptCollects /\ EvidenceIsAccepted /\ ClassificationIsTrue
  BY DEF OneInterruptCollects, InterruptCollects, EvidenceIsAccepted, ClassificationIsTrue,
     VerdictIsTheProviders, UnknownExceptionIsHarness
<1> QED BY <1>1, <1>2, <1>3, <1>4, <1>5 DEF CodexInv

(* What the Provider does on its own disturbs nothing the runner knows.    *)
LEMMA ProviderInv == CodexInv /\ ProviderStep => CodexInv'
<1> SUFFICES ASSUME CodexInv, ProviderStep PROVE CodexInv'
  OBVIOUS
<1>1. /\ UNCHANGED << signalled, pc, loop, ready, registered, expired, termination, interrupts >>
      /\ UNCHANGED << collected, lifecycle, ended >>
      /\ script' = script
  BY DEF ProviderStep, Emit, CloseInput, ForkChild, ChildMoves, EndParent, RunnerUnchanged
<1> USE DEF collected, lifecycle, ended
<1>2. /\ \/ parent' = parent /\ ownExit' = ownExit /\ exitCode' = exitCode
         \/ parent = "running" /\ parent' = "zombie" /\ ownExit' = ~signalled
      /\ parent # "running" => emitted' = emitted
      /\ \/ child' = child
         \/ parent = "running" /\ child = "none" /\ child' = "member"
         \/ child = "member" /\ child' = "escaped"
         \/ child \in {"member", "escaped"} /\ child' = "gone"
  <2>1. CASE Emit
    BY <2>1 DEF Emit
  <2>2. CASE CloseInput
    BY <2>2 DEF CloseInput
  <2>3. CASE ForkChild
    BY <2>3 DEF ForkChild
  <2>4. CASE ChildMoves
    BY <2>4 DEF ChildMoves
  <2>5. CASE EndParent
    BY <2>5 DEF EndParent
  <2> QED BY <2>1, <2>2, <2>3, <2>4, <2>5 DEF ProviderStep
<1>3. emitted \in Nat /\ emitted' \in 0 .. Len(script) /\ emitted <= emitted'
  <2>1. emitted \in 0 .. Len(script) /\ Len(script) \in Nat
    BY DEF CodexInv, Typed
  <2>2. CASE Emit
    <3>1. PICK n \in WriteEnds \cup {Len(script)} :
            emitted < n /\ n <= Len(script) /\ emitted' = n
      BY <2>2 DEF Emit
    <3>2. n \in Nat
      BY <2>1, WriteAssumption
    <3> QED BY <2>1, <3>1, <3>2
  <2>3. CASE ~Emit
    BY <2>1, <2>3 DEF ProviderStep, CloseInput, ForkChild, ChildMoves, EndParent
  <2> QED BY <2>2, <2>3
<1>4. Typed'
  <2>1. parser.total \in Nat
    BY DEF CodexInv, Typed, Sound, Parsers
  <2> QED BY <1>1, <1>2, <1>3, <2>1 DEF CodexInv, Typed
<1>5. ProviderOK'
  <2>1. ProviderOK
    BY DEF CodexInv
  <2>2. parent' = "unborn" => parent = "unborn" /\ child' = child
    BY <1>2, <2>1 DEF ProviderOK
  <2>3. ~ signalled' /\ Exited' => ownExit'
    <3>1. CASE parent' = parent /\ ownExit' = ownExit
      BY <1>1, <2>1, <3>1 DEF ProviderOK, Exited
    <3>2. CASE ownExit' = ~ signalled
      BY <1>1, <3>2
    <3> QED BY <1>2, <3>1, <3>2
  <2> QED BY <2>1, <2>2, <2>3 DEF ProviderOK
<1>6. Lifecycle'
  BY <1>1, <1>2 DEF CodexInv, Lifecycle, Tracked, Typed
<1>7. Fresh' /\ Places' /\ RaisedIsHandled'
  BY <1>1 DEF CodexInv, Fresh, Places, RaisedIsHandled
<1>8. Collected'
  BY <1>1, <1>2 DEF CodexInv, Collected, Finished
<1>9. Group = {} => Group' = {}
  BY <1>2 DEF Group
<1>10. ClearedIsEmpty'
  BY <1>1, <1>9 DEF CodexInv, ClearedIsEmpty
<1>11. NoMore => NoMore'
  BY <1>1, <1>2 DEF NoMore, HasWriter, ChildAlive, Unread
<1>12. AllRead'
  BY <1>1, <1>11 DEF CodexInv, AllRead
<1>13. Parsed'
  BY <1>1 DEF CodexInv, Parsed
<1>14. OneInterruptCollects'
  BY <1>1, <1>9 DEF CodexInv, OneInterruptCollects, InterruptCollects
<1>15. EvidenceIsAccepted'
  BY <1>1, <1>2, <1>9 DEF CodexInv, EvidenceIsAccepted
<1>16. ClassificationIsTrue'
  <2>1. VerdictIsTheProviders'
    <3>1. SUFFICES ASSUME pc = "ended", evidence.kind \in VerdictKinds
                   PROVE  VerdictIsTheProviders'
      BY <1>1 DEF VerdictIsTheProviders
    <3>2. /\ ownExit /\ evidence.code = exitCode /\ Group = {} /\ ~HasWriter /\ Unread = << >>
          /\ evidence.kind = "none" =>
               /\ exitCode = "zero" /\ offset = PromptSize /\ IsCompletedTurn(Written)
      BY <3>1 DEF CodexInv, ClassificationIsTrue, VerdictIsTheProviders
    <3>3. parent # "running" /\ parent' = parent
      BY <1>2, <3>2 DEF HasWriter
    <3>4. Written' = Written
      BY <1>1, <1>2, <3>3 DEF Written
    <3>5. NoMore'
      BY <1>11, <3>2 DEF NoMore
    <3> QED BY <1>1, <1>2, <1>9, <3>2, <3>3, <3>4, <3>5 DEF VerdictIsTheProviders, NoMore
  <2>2. UnknownExceptionIsHarness'
    BY <1>1 DEF CodexInv, ClassificationIsTrue, UnknownExceptionIsHarness
  <2> QED BY <2>1, <2>2 DEF ClassificationIsTrue
<1> QED BY <1>4, <1>5, <1>6, <1>7, <1>8, <1>10, <1>12, <1>13, <1>14, <1>15, <1>16 DEF CodexInv

(* poll reaps the parent: the group may lose it, the writers of stdout do  *)
(* not change.                                                             *)
LEMMA PollFacts ==
  ASSUME Poll
  PROVE  /\ UNCHANGED << script, emitted, child, exitCode, takesInput, ownExit >>
         /\ parent' = parent \/ (parent = "zombie" /\ parent' = "reaped")
         /\ Exited => parent' = "reaped"
         /\ Exited' <=> Exited
         /\ Group' = GroupAfterPoll /\ Group' \subseteq Group
         /\ HasWriter' <=> HasWriter
BY DEF Poll, Exited, Group, GroupAfterPoll, HasWriter, ChildAlive

(* The promises speak of a run that is over.                               *)
LEMMA StillRunning ==
  ASSUME pc' \notin Final
  PROVE  OneInterruptCollects' /\ EvidenceIsAccepted' /\ ClassificationIsTrue'
BY DEF Final, OneInterruptCollects, InterruptCollects, EvidenceIsAccepted, ClassificationIsTrue,
   VerdictIsTheProviders, UnknownExceptionIsHarness

(* A step that does not feed the parser.                                   *)
LEMMA SameParse ==
  ASSUME Parsed, UNCHANGED << script, parser, protocol >>, pc # "ended", raised => raised',
         failure # "none" => failure' # "none"
  PROVE  Parsed'
BY DEF Parsed

(* Up to the collection: nothing is known of a process yet.                *)
LEMMA PrepareInv == CodexInv /\ Prepare => CodexInv'
<1> SUFFICES ASSUME CodexInv, Prepare PROVE CodexInv'
  OBVIOUS
<1> USE DEF Prepare, BeforeCollection, collected, ended, provider
<1>1. Typed'
  BY DEF CodexInv, Typed, Locations, PreMark
<1>2. ProviderOK'
  BY DEF CodexInv, ProviderOK, Exited
<1>3. Lifecycle'
  BY DEF CodexInv, Lifecycle, Final, PreMark
<1>4. Fresh'
  BY DEF CodexInv, Fresh, PreMark
<1>5. Places'
  BY DEF CodexInv, Places
<1>6. Collected'
  BY DEF CodexInv, Collected, Fresh, Final, PreMark
<1>7. ClearedIsEmpty'
  BY DEF CodexInv, ClearedIsEmpty, Fresh, PreMark
<1>8. AllRead'
  BY DEF CodexInv, AllRead, Collecting
<1>9. Parsed'
  BY SameParse DEF CodexInv, Collecting
<1>10. RaisedIsHandled'
  BY DEF CodexInv, RaisedIsHandled, Final
<1>11. OneInterruptCollects' /\ EvidenceIsAccepted' /\ ClassificationIsTrue'
  BY StillRunning DEF Final
<1> QED BY <1>1, <1>2, <1>3, <1>4, <1>5, <1>6, <1>7, <1>8, <1>9, <1>10, <1>11 DEF CodexInv

(* The process lives from here on, although the tracker learns of it only  *)
(* in the next step.                                                       *)
LEMMA SpawnInv == CodexInv /\ Spawn => CodexInv'
<1> SUFFICES ASSUME CodexInv, Spawn PROVE CodexInv'
  OBVIOUS
<1> USE DEF Spawn, BeforeCollection, collected, lifecycle, ended
<1>1. Typed'
  BY DEF CodexInv, Typed, Locations, PreMark
<1>2. ProviderOK'
  BY DEF CodexInv, ProviderOK, Exited
<1>3. Lifecycle'
  BY DEF CodexInv, Lifecycle, PreMark
<1>4. Fresh'
  BY DEF CodexInv, Fresh, PreMark
<1>5. Places'
  BY DEF CodexInv, Places
<1>6. Collected'
  BY DEF CodexInv, Collected, Fresh, Final, PreMark
<1>7. ClearedIsEmpty'
  BY DEF CodexInv, ClearedIsEmpty, Fresh, PreMark
<1>8. AllRead'
  BY DEF CodexInv, AllRead, Collecting
<1>9. Parsed'
  BY SameParse DEF CodexInv, Collecting
<1>10. RaisedIsHandled'
  BY DEF CodexInv, RaisedIsHandled, Final
<1>11. OneInterruptCollects' /\ EvidenceIsAccepted' /\ ClassificationIsTrue'
  BY StillRunning DEF Final
<1> QED BY <1>1, <1>2, <1>3, <1>4, <1>5, <1>6, <1>7, <1>8, <1>9, <1>10, <1>11 DEF CodexInv

(* The tracker learns of the process.                                      *)
LEMMA MarkProcessStartedInv == CodexInv /\ MarkProcessStarted => CodexInv'
<1> SUFFICES ASSUME CodexInv, MarkProcessStarted PROVE CodexInv'
  OBVIOUS
<1> USE DEF MarkProcessStarted, BeforeCollection, collected, ended, provider
<1>1. Typed'
  BY DEF CodexInv, Typed, Locations
<1>2. ProviderOK'
  BY DEF CodexInv, ProviderOK, Exited
<1>3. Lifecycle'
  BY DEF CodexInv, Lifecycle, Tracked, Final
<1>4. Fresh'
  BY DEF CodexInv, Fresh, PreMark
<1>5. Places'
  BY DEF CodexInv, Places
<1>6. Collected'
  BY DEF CodexInv, Collected, Fresh, Final, PreMark
<1>7. ClearedIsEmpty'
  BY DEF CodexInv, ClearedIsEmpty, Fresh, PreMark
<1>8. AllRead'
  BY DEF CodexInv, AllRead, Collecting
<1>9. Parsed'
  BY SameParse DEF CodexInv, Collecting
<1>10. RaisedIsHandled'
  BY DEF CodexInv, RaisedIsHandled, Final
<1>11. OneInterruptCollects' /\ EvidenceIsAccepted' /\ ClassificationIsTrue'
  BY StillRunning DEF Final
<1> QED BY <1>1, <1>2, <1>3, <1>4, <1>5, <1>6, <1>7, <1>8, <1>9, <1>10, <1>11 DEF CodexInv

(* Both streams are registered, so nothing is said of the output yet.      *)
LEMMA OpenPipesInv == CodexInv /\ OpenPipes => CodexInv'
<1> SUFFICES ASSUME CodexInv, OpenPipes PROVE CodexInv'
  OBVIOUS
<1> USE DEF OpenPipes, collected, lifecycle, ended, provider
<1>1. Typed'
  BY DEF CodexInv, Typed, Fresh, Locations, Collecting
<1>2. ProviderOK'
  BY DEF CodexInv, ProviderOK, Exited
<1>3. Lifecycle'
  BY DEF CodexInv, Lifecycle, Tracked, Final, PreMark
<1>4. Fresh'
  BY DEF CodexInv, Fresh
<1>5. Places'
  BY DEF CodexInv, Places, Fresh, TryLoops
<1>6. Collected'
  BY DEF CodexInv, Collected, Fresh, Final
<1>7. ClearedIsEmpty'
  BY DEF CodexInv, ClearedIsEmpty, Fresh
<1>8. AllRead'
  BY DEF CodexInv, AllRead
<1>9. Parsed'
  BY SameParse DEF CodexInv, Collecting
<1>10. RaisedIsHandled'
  BY DEF CodexInv, RaisedIsHandled, Fresh
<1>11. OneInterruptCollects' /\ EvidenceIsAccepted' /\ ClassificationIsTrue'
  BY StillRunning DEF Final
<1> QED BY <1>1, <1>2, <1>3, <1>4, <1>5, <1>6, <1>7, <1>8, <1>9, <1>10, <1>11 DEF CodexInv

(* The termination starts without a collection.                            *)
LEMMA PipesFailInv == CodexInv /\ PipesFail => CodexInv'
<1> SUFFICES ASSUME CodexInv, PipesFail PROVE CodexInv'
  OBVIOUS
<1> USE DEF PipesFail, BeforeCollection, StartTermination, collected, lifecycle, ended, provider
<1>1. Typed'
  BY DEF CodexInv, Typed, Locations, IsTermination, NoTermination, Collecting
<1>2. ProviderOK'
  BY DEF CodexInv, ProviderOK, Exited
<1>3. Lifecycle'
  BY DEF CodexInv, Lifecycle, Tracked, Final, PreMark
<1>4. Fresh'
  BY DEF CodexInv, Fresh, PreMark
<1>5. Places'
  BY DEF CodexInv, Places
<1>6. Collected'
  BY DEF CodexInv, Collected
<1>7. ClearedIsEmpty'
  BY DEF CodexInv, ClearedIsEmpty
<1>8. AllRead'
  BY DEF CodexInv, AllRead, TryLoops
<1>9. Parsed'
  BY SameParse DEF CodexInv, Collecting
<1>10. RaisedIsHandled'
  BY DEF CodexInv, RaisedIsHandled, Fresh
<1>11. OneInterruptCollects' /\ EvidenceIsAccepted' /\ ClassificationIsTrue'
  BY StillRunning DEF Final
<1> QED BY <1>1, <1>2, <1>3, <1>4, <1>5, <1>6, <1>7, <1>8, <1>9, <1>10, <1>11 DEF CodexInv

(* The collection: only registered streams are ready.                      *)
LEMMA SelectInv == CodexInv /\ Select => CodexInv'
<1> SUFFICES ASSUME CodexInv, Select PROVE CodexInv'
  OBVIOUS
<1> USE DEF Select, collected, lifecycle, ended, provider
<1>1. Typed'
  BY DEF CodexInv, Typed, Locations, Collecting
<1>2. ProviderOK'
  BY DEF CodexInv, ProviderOK, Exited
<1>3. Lifecycle'
  BY DEF CodexInv, Lifecycle, Tracked, Final, PreMark
<1>4. Fresh'
  BY DEF CodexInv, Fresh, PreMark
<1>5. Places'
  BY DEF CodexInv, Places
<1>6. Collected'
  BY DEF CodexInv, Collected, Finished, Final
<1>7. ClearedIsEmpty'
  BY DEF CodexInv, ClearedIsEmpty, Group, Final
<1>8. AllRead'
  BY DEF CodexInv, AllRead, NoMore, HasWriter, ChildAlive, Unread, Collecting
<1>9. Parsed'
  BY SameParse DEF CodexInv, Collecting
<1>10. RaisedIsHandled'
  BY DEF CodexInv, RaisedIsHandled, Final
<1>11. OneInterruptCollects' /\ EvidenceIsAccepted' /\ ClassificationIsTrue'
  BY StillRunning DEF Final
<1> QED BY <1>1, <1>2, <1>3, <1>4, <1>5, <1>6, <1>7, <1>8, <1>9, <1>10, <1>11 DEF CodexInv

(* A failing select is a failure, after which AllRead says nothing.        *)
LEMMA SelectFailsInv == CodexInv /\ SelectFails => CodexInv'
<1> SUFFICES ASSUME CodexInv, SelectFails PROVE CodexInv'
  OBVIOUS
<1> USE DEF SelectFails, Fail, lifecycle, ended, provider
<1>1. Typed'
  BY DEF CodexInv, Typed, Locations, Failures, HarnessKinds, Collecting
<1>2. ProviderOK'
  BY DEF CodexInv, ProviderOK, Exited
<1>3. Lifecycle'
  BY DEF CodexInv, Lifecycle, Tracked, Final, PreMark
<1>4. Fresh'
  BY DEF CodexInv, Fresh, PreMark
<1>5. Places'
  BY DEF CodexInv, Places
<1>6. Collected'
  BY DEF CodexInv, Collected, Final
<1>7. ClearedIsEmpty'
  BY DEF CodexInv, ClearedIsEmpty, Group, Final
<1>8. AllRead'
  BY DEF CodexInv, AllRead
<1>9. Parsed'
  BY SameParse DEF CodexInv, Collecting
<1>10. RaisedIsHandled'
  BY DEF CodexInv, RaisedIsHandled, Final
<1>11. OneInterruptCollects' /\ EvidenceIsAccepted' /\ ClassificationIsTrue'
  BY StillRunning DEF Final
<1> QED BY <1>1, <1>2, <1>3, <1>4, <1>5, <1>6, <1>7, <1>8, <1>9, <1>10, <1>11 DEF CodexInv

(* stdin does not concern the output.                                      *)
LEMMA WriteStdinInv == CodexInv /\ WriteStdin => CodexInv'
<1> SUFFICES ASSUME CodexInv, WriteStdin PROVE CodexInv'
  OBVIOUS
<1> USE DEF WriteStdin, Close, Handled, InHandle, StaysInHandle, lifecycle, ended, provider
<1>1. Typed'
  BY DEF CodexInv, Typed
<1>2. ProviderOK'
  BY DEF CodexInv, ProviderOK, Exited
<1>3. Lifecycle'
  BY DEF CodexInv, Lifecycle, Tracked
<1>4. Fresh'
  BY DEF CodexInv, Fresh
<1>5. Places'
  BY DEF CodexInv, Places
<1>6. Collected'
  BY DEF CodexInv, Collected, Finished
<1>7. ClearedIsEmpty'
  BY DEF CodexInv, ClearedIsEmpty, Group
<1>8. AllRead'
  BY DEF CodexInv, AllRead, NoMore, HasWriter, ChildAlive, Unread
<1>9. Parsed'
  BY SameParse DEF CodexInv, Collecting
<1>10. RaisedIsHandled'
  BY DEF CodexInv, RaisedIsHandled
<1>11. OneInterruptCollects' /\ EvidenceIsAccepted' /\ ClassificationIsTrue'
  BY StillRunning DEF Final
<1> QED BY <1>1, <1>2, <1>3, <1>4, <1>5, <1>6, <1>7, <1>8, <1>9, <1>10, <1>11 DEF CodexInv

(* A broken stdin is a failure.                                            *)
LEMMA StdinBreaksInv == CodexInv /\ StdinBreaks => CodexInv'
<1> SUFFICES ASSUME CodexInv, StdinBreaks PROVE CodexInv'
  OBVIOUS
<1> USE DEF StdinBreaks, Close, Handled, InHandle, StaysInHandle, lifecycle, ended, provider
<1>1. Typed'
  BY DEF CodexInv, Typed, Failures
<1>2. ProviderOK'
  BY DEF CodexInv, ProviderOK, Exited
<1>3. Lifecycle'
  BY DEF CodexInv, Lifecycle, Tracked
<1>4. Fresh'
  BY DEF CodexInv, Fresh
<1>5. Places'
  BY DEF CodexInv, Places
<1>6. Collected'
  BY DEF CodexInv, Collected
<1>7. ClearedIsEmpty'
  BY DEF CodexInv, ClearedIsEmpty, Group
<1>8. AllRead'
  BY DEF CodexInv, AllRead
<1>9. Parsed'
  BY SameParse DEF CodexInv, Collecting
<1>10. RaisedIsHandled'
  BY DEF CodexInv, RaisedIsHandled
<1>11. OneInterruptCollects' /\ EvidenceIsAccepted' /\ ClassificationIsTrue'
  BY StillRunning DEF Final
<1> QED BY <1>1, <1>2, <1>3, <1>4, <1>5, <1>6, <1>7, <1>8, <1>9, <1>10, <1>11 DEF CodexInv

(* A chunk is fed: FeedSound and FeedReads, or the failure it raises.      *)
LEMMA ReadStdoutInv == CodexInv /\ ReadStdout => CodexInv'
<1> SUFFICES ASSUME CodexInv, ReadStdout PROVE CodexInv'
  OBVIOUS
<1> USE DEF ReadStdout, StartTermination, Handled, InHandle, StaysInHandle, lifecycle, ended,
            provider
<1>0. PICK fed : fed = Feed(parser, Unread)
  OBVIOUS
<1>20. /\ parser' = fed.parser /\ loop \in TryLoops /\ ~ raised
       /\ \/ /\ fed.raised = "none"
             /\ UNCHANGED << failure, protocol, pc, loop, termination, raised >>
          \/ /\ fed.raised = "exception" /\ StartTermination("except", "emergency_cleanup")
             /\ raised' = TRUE /\ UNCHANGED << failure, protocol >>
          \/ /\ protocol' = fed.raised /\ failure' # "none" /\ fed.raised # "none"
             /\ UNCHANGED << pc, loop, termination, raised >>
  BY <1>0 DEF CodexInv, Places, RaisedIsHandled, TryLoops, Final
<1>21. /\ Unread \in Seq(Units) /\ Len(Unread) = emitted - parser.total
       /\ emitted \in Nat /\ parser.total \in Nat /\ emitted <= Len(script)
       /\ parser.total + Len(Unread) = emitted
       /\ \A i \in 1 .. Len(Unread) : Unread[i] = script[parser.total + i]
       /\ script \in Seq(Units) /\ Sound(parser)
  <2>1. /\ script \in Seq(Units) /\ emitted \in 0 .. Len(script) /\ Len(script) \in Nat
        /\ Sound(parser) /\ parser.total <= emitted /\ parser.total \in Nat
    BY DEF CodexInv, Typed, Sound, Parsers
  <2>2. PICK t : t = parser.total
    OBVIOUS
  <2>3. /\ SubSeq(script, t + 1, emitted) \in Seq(Units)
        /\ Len(SubSeq(script, t + 1, emitted)) = emitted - t
        /\ \A i \in 1 .. emitted - t : SubSeq(script, t + 1, emitted)[i] = script[t + i]
    BY <2>1, <2>2, SubSeqFacts
  <2> QED BY <2>1, <2>2, <2>3 DEF Unread
<1>22. Sound(fed.parser) /\ fed.parser.total = emitted
  BY <1>0, <1>21, FeedSound
<1>1. Typed'
  BY <1>20, <1>22 DEF CodexInv, Typed, Locations, Failures, IsTermination, NoTermination,
     Collecting
<1>2. ProviderOK'
  BY DEF CodexInv, ProviderOK, Exited
<1>3. Lifecycle'
  BY DEF CodexInv, Lifecycle, Tracked, Final, PreMark
<1>4. Fresh'
  BY DEF CodexInv, Fresh, PreMark
<1>5. Places'
  BY DEF CodexInv, Places
<1>6. Collected'
  BY DEF CodexInv, Collected, Finished
<1>7. ClearedIsEmpty'
  BY DEF CodexInv, ClearedIsEmpty, Group
<1>8. AllRead'
  BY DEF CodexInv, AllRead, NoMore, TryLoops
<1>9. Parsed'
  <2>1. protocol' # "none" => failure' # "none"
    BY DEF CodexInv, Parsed
  <2>2. ASSUME protocol' = "none", ~ raised'
        PROVE  parser'.total <= MaxTotal /\ Reads(script, parser'.total, parser')
    <3>1. fed.raised = "none" /\ protocol = "none"
      BY <1>20, <2>2
    <3>2. Reads(script, parser.total, parser)
      BY <1>20, <3>1 DEF CodexInv, Parsed
    <3>3. Reads(script, emitted, fed.parser) /\ emitted <= MaxTotal
      <4>1. PICK t, n, chunk : t = parser.total /\ n = Len(Unread) /\ chunk = Unread
        OBVIOUS
      <4>2. /\ t \in Nat /\ n \in Nat /\ t + n = emitted /\ t + n <= Len(script)
            /\ chunk \in Seq(Units) /\ Len(chunk) = n
            /\ \A i \in 1 .. n : chunk[i] = script[t + i]
        BY <1>21, <4>1
      <4>3. /\ parser.total = t /\ Reads(script, t, parser) /\ fed = Feed(parser, chunk)
            /\ Sound(parser) /\ script \in Seq(Units)
        BY <1>0, <1>21, <3>2, <4>1
      <4>4. Reads(script, t + n, Feed(parser, chunk).parser) /\ t + n <= MaxTotal
        BY <3>1, <4>2, <4>3, FeedReads
      <4> QED BY <4>2, <4>3, <4>4
    <3> QED BY <1>20, <1>22, <3>3
  <2> QED BY <2>1, <2>2 DEF Parsed
<1>10. RaisedIsHandled'
  <2>1. CASE raised' = raised /\ loop' = loop
    BY <1>20, <2>1 DEF RaisedIsHandled, TryLoops
  <2>2. CASE raised' = TRUE /\ StartTermination("except", "emergency_cleanup")
    BY <2>2 DEF RaisedIsHandled
  <2> QED BY <1>20, <2>1, <2>2
<1>11. OneInterruptCollects' /\ EvidenceIsAccepted' /\ ClassificationIsTrue'
  BY StillRunning DEF Final
<1> QED BY <1>1, <1>2, <1>3, <1>4, <1>5, <1>6, <1>7, <1>8, <1>9, <1>10, <1>11 DEF CodexInv

(* stdout is closed where AllRead asks for it: no writer, nothing unread.  *)
LEMMA StdoutEndsInv == CodexInv /\ StdoutEnds => CodexInv'
<1> SUFFICES ASSUME CodexInv, StdoutEnds PROVE CodexInv'
  OBVIOUS
<1> USE DEF StdoutEnds, Close, Handled, InHandle, StaysInHandle, lifecycle, ended, provider
<1>1. Typed'
  BY DEF CodexInv, Typed
<1>2. ProviderOK'
  BY DEF CodexInv, ProviderOK, Exited
<1>3. Lifecycle'
  BY DEF CodexInv, Lifecycle, Tracked
<1>4. Fresh'
  BY DEF CodexInv, Fresh
<1>5. Places'
  BY DEF CodexInv, Places
<1>6. Collected'
  BY DEF CodexInv, Collected, Finished
<1>7. ClearedIsEmpty'
  BY DEF CodexInv, ClearedIsEmpty, Group
<1>8. AllRead'
  BY DEF CodexInv, AllRead, NoMore, HasWriter, ChildAlive, Unread
<1>9. Parsed'
  BY SameParse DEF CodexInv, Collecting
<1>10. RaisedIsHandled'
  BY DEF CodexInv, RaisedIsHandled
<1>11. OneInterruptCollects' /\ EvidenceIsAccepted' /\ ClassificationIsTrue'
  BY StillRunning DEF Final
<1> QED BY <1>1, <1>2, <1>3, <1>4, <1>5, <1>6, <1>7, <1>8, <1>9, <1>10, <1>11 DEF CodexInv

(* A stream closed after a failing read is a failure.                      *)
LEMMA ReadFailsInv == CodexInv /\ ReadFails => CodexInv'
<1> SUFFICES ASSUME CodexInv, ReadFails PROVE CodexInv'
  OBVIOUS
<1> USE DEF ReadFails, Fail, Close, Handled, InHandle, StaysInHandle, lifecycle, ended, provider
<1>1. Typed'
  BY DEF CodexInv, Typed, Failures, HarnessKinds
<1>2. ProviderOK'
  BY DEF CodexInv, ProviderOK, Exited
<1>3. Lifecycle'
  BY DEF CodexInv, Lifecycle, Tracked
<1>4. Fresh'
  BY DEF CodexInv, Fresh
<1>5. Places'
  BY DEF CodexInv, Places
<1>6. Collected'
  BY DEF CodexInv, Collected
<1>7. ClearedIsEmpty'
  BY DEF CodexInv, ClearedIsEmpty, Group
<1>8. AllRead'
  BY DEF CodexInv, AllRead
<1>9. Parsed'
  BY SameParse DEF CodexInv, Collecting
<1>10. RaisedIsHandled'
  BY DEF CodexInv, RaisedIsHandled
<1>11. OneInterruptCollects' /\ EvidenceIsAccepted' /\ ClassificationIsTrue'
  BY StillRunning DEF Final
<1> QED BY <1>1, <1>2, <1>3, <1>4, <1>5, <1>6, <1>7, <1>8, <1>9, <1>10, <1>11 DEF CodexInv

(* Back in the loop that drains.                                           *)
LEMMA EndDrainInv == CodexInv /\ EndDrain => CodexInv'
<1> SUFFICES ASSUME CodexInv, EndDrain PROVE CodexInv'
  OBVIOUS
<1> USE DEF EndDrain, InHandle, lifecycle, ended, provider
<1>1. Typed'
  BY DEF CodexInv, Typed, Locations, Collecting
<1>2. ProviderOK'
  BY DEF CodexInv, ProviderOK, Exited
<1>3. Lifecycle'
  BY DEF CodexInv, Lifecycle, Tracked, Final, PreMark
<1>4. Fresh'
  BY DEF CodexInv, Fresh, PreMark
<1>5. Places'
  BY DEF CodexInv, Places
<1>6. Collected'
  BY DEF CodexInv, Collected, Finished, Final
<1>7. ClearedIsEmpty'
  BY DEF CodexInv, ClearedIsEmpty, Group, Final
<1>8. AllRead'
  BY DEF CodexInv, AllRead, NoMore, HasWriter, ChildAlive, Unread, Collecting
<1>9. Parsed'
  BY SameParse DEF CodexInv, Collecting
<1>10. RaisedIsHandled'
  BY DEF CodexInv, RaisedIsHandled, Final
<1>11. OneInterruptCollects' /\ EvidenceIsAccepted' /\ ClassificationIsTrue'
  BY StillRunning DEF Final
<1> QED BY <1>1, <1>2, <1>3, <1>4, <1>5, <1>6, <1>7, <1>8, <1>9, <1>10, <1>11 DEF CodexInv

(* The end of the collection: the parent has ended before any signal, or   *)
(* there is a failure or a timeout.                                        *)
LEMMA CheckCollectionInv == CodexInv /\ CheckCollection => CodexInv'
<1> SUFFICES ASSUME CodexInv, CheckCollection PROVE CodexInv'
  OBVIOUS
<1> USE DEF CheckCollection, StartTermination, lifecycle, ended
<1>0. Poll
  OBVIOUS
<1>1. Typed'
  BY PollFacts DEF CodexInv, Typed, Locations, IsTermination, NoTermination, Collecting
<1>2. ProviderOK'
  BY PollFacts DEF CodexInv, ProviderOK
<1>3. Lifecycle'
  BY PollFacts DEF CodexInv, Lifecycle, Tracked, Final, PreMark
<1>4. Fresh'
  BY DEF CodexInv, Fresh, PreMark
<1>5. Places'
  BY DEF CodexInv, Places
<1>6. Collected'
  BY PollFacts DEF CodexInv, Collected, Finished, ProviderOK, PolledCode, Final
<1>7. ClearedIsEmpty'
  BY PollFacts DEF CodexInv, ClearedIsEmpty
<1>8. AllRead'
  BY PollFacts DEF CodexInv, AllRead, NoMore, Unread, Collecting, TryLoops
<1>9. Parsed'
  BY PollFacts, SameParse DEF CodexInv, Collecting
<1>10. RaisedIsHandled'
  BY DEF CodexInv, RaisedIsHandled, Final
<1>11. OneInterruptCollects' /\ EvidenceIsAccepted' /\ ClassificationIsTrue'
  BY StillRunning DEF Final
<1> QED BY <1>1, <1>2, <1>3, <1>4, <1>5, <1>6, <1>7, <1>8, <1>9, <1>10, <1>11 DEF CodexInv

(* An unknown group is not cleared.                                        *)
LEMMA InspectionFailsInv == CodexInv /\ InspectionFails => CodexInv'
<1> SUFFICES ASSUME CodexInv, InspectionFails PROVE CodexInv'
  OBVIOUS
<1> USE DEF InspectionFails, lifecycle, ended
<1>0. Poll
  OBVIOUS
<1>1. Typed'
  BY PollFacts DEF CodexInv, Typed, Locations, IsTermination, Collecting
<1>2. ProviderOK'
  BY PollFacts DEF CodexInv, ProviderOK
<1>3. Lifecycle'
  BY PollFacts DEF CodexInv, Lifecycle, Tracked, Final, PreMark
<1>4. Fresh'
  BY DEF CodexInv, Fresh, PreMark
<1>5. Places'
  BY DEF CodexInv, Places
<1>6. Collected'
  BY PollFacts DEF CodexInv, Collected, Finished, ProviderOK, PolledCode, Final
<1>7. ClearedIsEmpty'
  BY DEF CodexInv, ClearedIsEmpty
<1>8. AllRead'
  BY PollFacts DEF CodexInv, AllRead, NoMore, Unread, Collecting
<1>9. Parsed'
  BY PollFacts, SameParse DEF CodexInv, Collecting
<1>10. RaisedIsHandled'
  BY DEF CodexInv, RaisedIsHandled, Final
<1>11. OneInterruptCollects' /\ EvidenceIsAccepted' /\ ClassificationIsTrue'
  BY StillRunning DEF Final
<1> QED BY <1>1, <1>2, <1>3, <1>4, <1>5, <1>6, <1>7, <1>8, <1>9, <1>10, <1>11 DEF CodexInv

(* Signals are sent by the terminations only.                              *)
LEMMA SignalGroupInv == CodexInv /\ SignalGroup => CodexInv'
<1> SUFFICES ASSUME CodexInv, SignalGroup PROVE CodexInv'
  OBVIOUS
<1> USE DEF SignalGroup, collected, lifecycle, ended, provider
<1>1. Typed'
  BY DEF CodexInv, Typed, Locations, Collecting
<1>2. ProviderOK'
  BY DEF CodexInv, ProviderOK
<1>3. Lifecycle'
  BY DEF CodexInv, Lifecycle, Tracked, Final, PreMark
<1>4. Fresh'
  BY DEF CodexInv, Fresh, PreMark
<1>5. Places'
  BY DEF CodexInv, Places
<1>6. Collected'
  BY DEF CodexInv, Collected, Finished, Places, Final
<1>7. ClearedIsEmpty'
  BY DEF CodexInv, ClearedIsEmpty, Places
<1>8. AllRead'
  BY DEF CodexInv, AllRead, NoMore, HasWriter, ChildAlive, Unread, Collecting
<1>9. Parsed'
  BY SameParse DEF CodexInv, Collecting
<1>10. RaisedIsHandled'
  BY DEF CodexInv, RaisedIsHandled, Final
<1>11. OneInterruptCollects' /\ EvidenceIsAccepted' /\ ClassificationIsTrue'
  BY StillRunning DEF Final
<1> QED BY <1>1, <1>2, <1>3, <1>4, <1>5, <1>6, <1>7, <1>8, <1>9, <1>10, <1>11 DEF CodexInv

(* The pipes are drained while the termination waits.                      *)
LEMMA DrainInTerminationInv == CodexInv /\ DrainInTermination => CodexInv'
<1> SUFFICES ASSUME CodexInv, DrainInTermination PROVE CodexInv'
  OBVIOUS
<1> USE DEF DrainInTermination, collected, lifecycle, ended, provider
<1>1. Typed'
  BY DEF CodexInv, Typed, Locations, Collecting
<1>2. ProviderOK'
  BY DEF CodexInv, ProviderOK, Exited
<1>3. Lifecycle'
  BY DEF CodexInv, Lifecycle, Tracked, Final, PreMark
<1>4. Fresh'
  BY DEF CodexInv, Fresh, PreMark
<1>5. Places'
  BY DEF CodexInv, Places, TryLoops
<1>6. Collected'
  BY DEF CodexInv, Collected, Finished, Final
<1>7. ClearedIsEmpty'
  BY DEF CodexInv, ClearedIsEmpty
<1>8. AllRead'
  BY DEF CodexInv, AllRead, NoMore, HasWriter, ChildAlive, Unread, Collecting
<1>9. Parsed'
  BY SameParse DEF CodexInv, Collecting
<1>10. RaisedIsHandled'
  BY DEF CodexInv, RaisedIsHandled, Final
<1>11. OneInterruptCollects' /\ EvidenceIsAccepted' /\ ClassificationIsTrue'
  BY StillRunning DEF Final
<1> QED BY <1>1, <1>2, <1>3, <1>4, <1>5, <1>6, <1>7, <1>8, <1>9, <1>10, <1>11 DEF CodexInv

(* A parent still running has failed or timed out.                         *)
LEMMA AfterInv == CodexInv /\ After => CodexInv'
<1> SUFFICES ASSUME CodexInv, After PROVE CodexInv'
  OBVIOUS
<1> USE DEF After, StartOutput, collected, lifecycle, ended
<1>0. Poll
  OBVIOUS
<1>1. Typed'
  BY PollFacts DEF CodexInv, Typed, Locations, Collecting
<1>2. ProviderOK'
  BY PollFacts DEF CodexInv, ProviderOK
<1>3. Lifecycle'
  BY PollFacts DEF CodexInv, Lifecycle, Tracked, Final, PreMark
<1>4. Fresh'
  BY DEF CodexInv, Fresh, PreMark
<1>5. Places'
  BY DEF CodexInv, Places, Collected, Finished, Exited, TryLoops, Final
<1>6. Collected'
  BY PollFacts DEF CodexInv, Collected, Finished, Exited, Final
<1>7. ClearedIsEmpty'
  BY PollFacts DEF CodexInv, ClearedIsEmpty
<1>8. AllRead'
  BY PollFacts DEF CodexInv, AllRead, NoMore, Unread, Places, Collecting, TryLoops
<1>9. Parsed'
  BY PollFacts, SameParse DEF CodexInv, Collecting
<1>10. RaisedIsHandled'
  BY DEF CodexInv, RaisedIsHandled, Places, Final
<1>11. OneInterruptCollects' /\ EvidenceIsAccepted' /\ ClassificationIsTrue'
  BY StillRunning DEF Final
<1> QED BY <1>1, <1>2, <1>3, <1>4, <1>5, <1>6, <1>7, <1>8, <1>9, <1>10, <1>11 DEF CodexInv

(* The parent was killed, so the group does not count as cleared.          *)
LEMMA DirectWaitInv == CodexInv /\ DirectWait => CodexInv'
<1> SUFFICES ASSUME CodexInv, DirectWait PROVE CodexInv'
  OBVIOUS
<1> USE DEF DirectWait, StartOutput, lifecycle, ended
<1>0. Poll
  OBVIOUS
<1>1. Typed'
  BY PollFacts DEF CodexInv, Typed, Locations, IsTermination, Collecting
<1>2. ProviderOK'
  BY PollFacts DEF CodexInv, ProviderOK
<1>3. Lifecycle'
  BY PollFacts DEF CodexInv, Lifecycle, Tracked, Final, PreMark
<1>4. Fresh'
  BY DEF CodexInv, Fresh, PreMark
<1>5. Places'
  BY DEF CodexInv, Places, TryLoops
<1>6. Collected'
  BY PollFacts DEF CodexInv, Collected, Finished, Places, Exited, PolledCode, Final
<1>7. ClearedIsEmpty'
  BY DEF CodexInv, ClearedIsEmpty
<1>8. AllRead'
  BY PollFacts DEF CodexInv, AllRead, NoMore, Unread, Places, Collecting, TryLoops
<1>9. Parsed'
  BY PollFacts, SameParse DEF CodexInv, Collecting
<1>10. RaisedIsHandled'
  BY DEF CodexInv, RaisedIsHandled, Places, Final
<1>11. OneInterruptCollects' /\ EvidenceIsAccepted' /\ ClassificationIsTrue'
  BY StillRunning DEF Final
<1> QED BY <1>1, <1>2, <1>3, <1>4, <1>5, <1>6, <1>7, <1>8, <1>9, <1>10, <1>11 DEF CodexInv

(* The output is given up with a failure, if it does not end.              *)
LEMMA CheckOutputInv == CodexInv /\ CheckOutput => CodexInv'
<1> SUFFICES ASSUME CodexInv, CheckOutput PROVE CodexInv'
  OBVIOUS
<1> USE DEF CheckOutput, Fail, lifecycle, ended, provider
<1>1. Typed'
  BY DEF CodexInv, Typed, Locations, Failures, HarnessKinds, Collecting
<1>2. ProviderOK'
  BY DEF CodexInv, ProviderOK, Exited
<1>3. Lifecycle'
  BY DEF CodexInv, Lifecycle, Tracked, Final, PreMark
<1>4. Fresh'
  BY DEF CodexInv, Fresh, PreMark
<1>5. Places'
  BY DEF CodexInv, Places
<1>6. Collected'
  BY DEF CodexInv, Collected, Finished, Final
<1>7. ClearedIsEmpty'
  BY DEF CodexInv, ClearedIsEmpty, Group, Final
<1>8. AllRead'
  BY DEF CodexInv, AllRead, NoMore, HasWriter, ChildAlive, Unread, Collecting, TryLoops
<1>9. Parsed'
  BY SameParse DEF CodexInv, Collecting
<1>10. RaisedIsHandled'
  BY DEF CodexInv, RaisedIsHandled, Final
<1>11. OneInterruptCollects' /\ EvidenceIsAccepted' /\ ClassificationIsTrue'
  BY StillRunning DEF Final
<1> QED BY <1>1, <1>2, <1>3, <1>4, <1>5, <1>6, <1>7, <1>8, <1>9, <1>10, <1>11 DEF CodexInv

(* An unknown exception goes to its handler.                               *)
LEMMA CollectionRaisesInv == CodexInv /\ CollectionRaises => CodexInv'
<1> SUFFICES ASSUME CodexInv, CollectionRaises PROVE CodexInv'
  OBVIOUS
<1> USE DEF CollectionRaises, StartTermination, lifecycle, ended, provider, Collecting, TryLoops
<1>1. Typed'
  BY DEF CodexInv, Typed, Locations, IsTermination, NoTermination
<1>2. ProviderOK'
  BY DEF CodexInv, ProviderOK, Exited
<1>3. Lifecycle'
  BY DEF CodexInv, Lifecycle, Tracked, Final, PreMark
<1>4. Fresh'
  BY DEF CodexInv, Fresh, PreMark
<1>5. Places'
  BY DEF CodexInv, Places
<1>6. Collected'
  BY DEF CodexInv, Collected
<1>7. ClearedIsEmpty'
  BY DEF CodexInv, ClearedIsEmpty
<1>8. AllRead'
  BY DEF CodexInv, AllRead
<1>9. Parsed'
  BY SameParse DEF CodexInv, Waiting
<1>10. RaisedIsHandled'
  BY DEF CodexInv, RaisedIsHandled
<1>11. OneInterruptCollects' /\ EvidenceIsAccepted' /\ ClassificationIsTrue'
  BY StillRunning DEF Final
<1> QED BY <1>1, <1>2, <1>3, <1>4, <1>5, <1>6, <1>7, <1>8, <1>9, <1>10, <1>11 DEF CodexInv

(* The streams are closed; what was read of them is not touched.           *)
LEMMA CloseStreamsInv == CodexInv /\ CloseStreams => CodexInv'
<1> SUFFICES ASSUME CodexInv, CloseStreams PROVE CodexInv'
  OBVIOUS
<1> USE DEF CloseStreams, collected, lifecycle, ended, provider
<1>1. Typed'
  BY DEF CodexInv, Typed, Locations
<1>2. ProviderOK'
  BY DEF CodexInv, ProviderOK, Exited
<1>3. Lifecycle'
  BY DEF CodexInv, Lifecycle, Tracked, Final, PreMark
<1>4. Fresh'
  BY DEF CodexInv, Fresh, PreMark
<1>5. Places'
  BY DEF CodexInv, Places
<1>6. Collected'
  BY DEF CodexInv, Collected, Finished, Final
<1>7. ClearedIsEmpty'
  BY DEF CodexInv, ClearedIsEmpty, Group
<1>8. AllRead'
  BY DEF CodexInv, AllRead, NoMore, HasWriter, ChildAlive, Unread
<1>9. Parsed'
  BY SameParse DEF CodexInv, Collecting
<1>10. RaisedIsHandled'
  BY DEF CodexInv, RaisedIsHandled, Final
<1>11. OneInterruptCollects' /\ EvidenceIsAccepted' /\ ClassificationIsTrue'
  BY StillRunning DEF Final
<1> QED BY <1>1, <1>2, <1>3, <1>4, <1>5, <1>6, <1>7, <1>8, <1>9, <1>10, <1>11 DEF CodexInv

(* A failing close is a failure.                                           *)
LEMMA CloseFailsInv == CodexInv /\ CloseFails => CodexInv'
<1> SUFFICES ASSUME CodexInv, CloseFails PROVE CodexInv'
  OBVIOUS
<1> USE DEF CloseFails, Fail, lifecycle, ended, provider
<1>1. Typed'
  BY DEF CodexInv, Typed, Locations, Failures, HarnessKinds
<1>2. ProviderOK'
  BY DEF CodexInv, ProviderOK, Exited
<1>3. Lifecycle'
  BY DEF CodexInv, Lifecycle, Tracked, Final, PreMark
<1>4. Fresh'
  BY DEF CodexInv, Fresh, PreMark
<1>5. Places'
  BY DEF CodexInv, Places
<1>6. Collected'
  BY DEF CodexInv, Collected, Places
<1>7. ClearedIsEmpty'
  BY DEF CodexInv, ClearedIsEmpty, Group
<1>8. AllRead'
  BY DEF CodexInv, AllRead
<1>9. Parsed'
  BY SameParse DEF CodexInv, Collecting
<1>10. RaisedIsHandled'
  BY DEF CodexInv, RaisedIsHandled, HarnessKinds, Final
<1>11. OneInterruptCollects' /\ EvidenceIsAccepted' /\ ClassificationIsTrue'
  BY StillRunning DEF Final
<1> QED BY <1>1, <1>2, <1>3, <1>4, <1>5, <1>6, <1>7, <1>8, <1>9, <1>10, <1>11 DEF CodexInv

(* Time passes.                                                            *)
LEMMA PassDeadlineInv == CodexInv /\ PassDeadline => CodexInv'
<1> SUFFICES ASSUME CodexInv, PassDeadline PROVE CodexInv'
  OBVIOUS
<1> USE DEF PassDeadline, collected, lifecycle, ended, provider, Waiting
<1>1. Typed'
  BY DEF CodexInv, Typed
<1>2. ProviderOK'
  BY DEF CodexInv, ProviderOK, Exited
<1>3. Lifecycle'
  BY DEF CodexInv, Lifecycle, Tracked
<1>4. Fresh'
  BY DEF CodexInv, Fresh
<1>5. Places'
  BY DEF CodexInv, Places
<1>6. Collected'
  BY DEF CodexInv, Collected, Finished
<1>7. ClearedIsEmpty'
  BY DEF CodexInv, ClearedIsEmpty, Group
<1>8. AllRead'
  BY DEF CodexInv, AllRead, NoMore, HasWriter, ChildAlive, Unread
<1>9. Parsed'
  BY SameParse DEF CodexInv, Collecting
<1>10. RaisedIsHandled'
  BY DEF CodexInv, RaisedIsHandled
<1>11. OneInterruptCollects' /\ EvidenceIsAccepted' /\ ClassificationIsTrue'
  BY StillRunning DEF Final
<1> QED BY <1>1, <1>2, <1>3, <1>4, <1>5, <1>6, <1>7, <1>8, <1>9, <1>10, <1>11 DEF CodexInv

(* Once the run has ended only its record matters.                         *)
LEMMA Ending ==
  ASSUME CodexInv, pc' = "ended", Typed', ProviderOK', loop' = loop, interrupts' = interrupts,
         UNCHANGED << failure, protocol >>, EvidenceIsAccepted', ClassificationIsTrue'
  PROVE  CodexInv'
<1>1. Lifecycle' /\ Fresh' /\ Places' /\ Collected'
  BY DEF CodexInv, Lifecycle, Fresh, Places, Collected, PreMark, Final
<1>2. ClearedIsEmpty' /\ AllRead' /\ Parsed' /\ RaisedIsHandled' /\ OneInterruptCollects'
  BY DEF CodexInv, ClearedIsEmpty, AllRead, Parsed, RaisedIsHandled, OneInterruptCollects,
     InterruptCollects, Collecting, Final
<1> QED BY <1>1, <1>2 DEF CodexInv

(* A run that ends before there is a process.                              *)
LEMMA EndsBeforeSpawn ==
  ASSUME CodexInv, pc \in {"start", "spawn"}, pc' = "ended",
         UNCHANGED << provider, loop, termination, lifecycle, signalled, ready, registered,
                      collected, interrupts >>,
         Accepted(evidence'), evidence'.kind \notin VerdictKinds,
         evidence'.invocation = invocation'
  PROVE  CodexInv'
<1> USE DEF provider, lifecycle, collected
<1>1. Typed' /\ ProviderOK'
  BY DEF CodexInv, Typed, ProviderOK, Locations, Final, Exited
<1>2. /\ invocation' # "process_started" /\ parent' = "unborn" /\ child' = "none" /\ ~ raised'
  BY DEF CodexInv, Lifecycle, ProviderOK, Fresh, Final, PreMark
<1>3. EvidenceIsAccepted'
  BY <1>2 DEF EvidenceIsAccepted, Group
<1>4. ClassificationIsTrue'
  BY <1>2 DEF ClassificationIsTrue, VerdictIsTheProviders, UnknownExceptionIsHarness
<1> QED BY <1>1, <1>3, <1>4, Ending

(* Its record is accepted whatever failed, also on an unsupported          *)
(* platform.                                                               *)
LEMMA PrepareFailsInv == CodexInv /\ PrepareFails => CodexInv'
<1> SUFFICES ASSUME CodexInv, PrepareFails PROVE CodexInv'
  OBVIOUS
<1> USE DEF provider, lifecycle, collected
<1>1. /\ pc = "start"
      /\ UNCHANGED << provider, loop, termination, lifecycle, signalled, ready, registered,
                      collected, interrupts >>
  BY DEF PrepareFails, BeforeCollection
<1>2. /\ invocation' = "not_attempted" /\ cleanup' = "not_applicable" /\ code' = "none"
      /\ offset = 0 /\ parser = NewParser /\ parser' = NewParser /\ Sound(parser')
      /\ termination' = NoTermination
  BY <1>1, NewParserSound DEF CodexInv, Lifecycle, Fresh, PreMark
<1>3. ASSUME NEW stage \in PreSpawnStages \ {"provider_runtime_precheck"},
             ReturnEvidence(Evidence("evidence_error", stage, parser, FALSE), FALSE)
      PROVE  CodexInv'
  <2>1. PICK e : e = Evidence("evidence_error", stage, parser, FALSE)
    OBVIOUS
  <2>2. /\ e.invocation = invocation' /\ e.cleared = termination'.cleared
        /\ e.kind = "evidence_error"
    BY <2>1 DEF Evidence
  <2>3. /\ pc' = "ended" /\ Accepted(evidence')
        /\ evidence' = e \/ evidence'.kind \in HarnessKinds
        /\ evidence'.invocation = invocation'
    BY <1>2, <1>3, <2>1, <2>2, ReturnAccepted
  <2>4. evidence'.kind \notin VerdictKinds
    BY <2>2, <2>3 DEF VerdictKinds, HarnessKinds
  <2> QED BY <1>1, <2>3, <2>4, EndsBeforeSpawn
<1>4. ASSUME Ends("unsupported",
                  Evidence("unsupported_platform", "provider_runtime_precheck", parser, FALSE))
      PROVE  CodexInv'
  <2>1. PICK e : e = Evidence("unsupported_platform", "provider_runtime_precheck", parser, FALSE)
    OBVIOUS
  <2>2. evidence' = e /\ pc' = "ended"
    BY <1>4, <2>1 DEF Ends
  <2>3. /\ e.kind = "unsupported_platform" /\ e.stage = "provider_runtime_precheck"
        /\ e.runner = "started" /\ e.execution = ExecutionStage(invocation')
        /\ e.invocation = invocation' /\ e.cleanup = cleanup' /\ e.stdin = StdinState
        /\ e.code = code' /\ e.events = parser.events /\ e.terminal = parser.terminal
        /\ e.hint = (parser.terminal # "turn_completed" /\ parser.hints)
    BY <2>1 DEF Evidence
  <2>4. e.stdin = "not_started" /\ e.hint = FALSE /\ e.events = 0 /\ e.terminal = "none"
    <3>1. parser.hints = FALSE /\ parser.events = 0 /\ parser.terminal = "none"
      BY <1>2 DEF NewParser
    <3>2. StdinState = "not_started"
      BY <1>2, PromptAssumption DEF StdinState
    <3>3. e.hint = FALSE
      BY <2>3, <3>1
    <3> QED BY <2>3, <3>1, <3>2, <3>3
  <2>5. StageAgrees(e) /\ KindAgrees(e)
    BY <1>2, <2>3 DEF StageAgrees, KindAgrees, Kinds, HarnessKinds, SpawnKinds, ProviderKinds,
       HandoffStage, HandoffStages, OrchestrationStages, RunnerStages, PreSpawnStages
  <2>6. LifecycleAgrees(e)
    BY <1>2, <2>3, <2>4 DEF LifecycleAgrees, ExecutionStage, OrchestrationStages,
       RunnerStages, PreSpawnStages, PostSpawnStages
  <2>7. Accepted(evidence')
    BY <2>2, <2>4, <2>5, <2>6 DEF Accepted
  <2>8. evidence'.kind \notin VerdictKinds /\ evidence'.invocation = invocation'
    BY <2>2, <2>3 DEF VerdictKinds
  <2> QED BY <1>1, <2>2, <2>7, <2>8, EndsBeforeSpawn
<1> QED BY <1>3, <1>4 DEF PrepareFails

(* A failing Popen is reported as such.                                    *)
LEMMA SpawnFailsInv == CodexInv /\ SpawnFails => CodexInv'
<1> SUFFICES ASSUME CodexInv, SpawnFails PROVE CodexInv'
  OBVIOUS
<1> USE DEF provider, lifecycle, collected
<1>1. /\ pc = "spawn"
      /\ UNCHANGED << provider, loop, termination, lifecycle, signalled, ready, registered,
                      collected, interrupts >>
  BY DEF SpawnFails, BeforeCollection
<1>2. /\ invocation' = "spawn_attempted" /\ cleanup' = "not_applicable" /\ code' = "none"
      /\ offset = 0 /\ parser' = NewParser /\ Sound(parser')
  BY <1>1, NewParserSound DEF CodexInv, Lifecycle, Fresh, PreMark
<1>3. PICK kind \in SpawnKinds :
        ReturnEvidence(Evidence(kind, "provider_process_spawn", parser, FALSE), FALSE)
  BY DEF SpawnFails
<1>4. PICK e : e = Evidence(kind, "provider_process_spawn", parser, FALSE)
  OBVIOUS
<1>5. e.invocation = invocation' /\ e.cleared = termination'.cleared /\ e.kind = kind
  BY <1>4 DEF Evidence
<1>6. /\ pc' = "ended" /\ Accepted(evidence')
      /\ evidence' = e \/ evidence'.kind \in HarnessKinds
      /\ evidence'.invocation = invocation'
  BY <1>2, <1>3, <1>4, <1>5, ReturnAccepted
<1>7. evidence'.kind \notin VerdictKinds
  BY <1>5, <1>6 DEF VerdictKinds, HarnessKinds, SpawnKinds
<1> QED BY <1>1, <1>6, <1>7, EndsBeforeSpawn

(* The end of a termination: what its four callers make of the result.     *)
LEMMA TerminatedInv ==
  ASSUME CodexInv, NEW cleared \in BOOLEAN, pc \in {"inspect", "wait"}, Terminated(cleared),
         cleared => GroupAfterPoll = {}
  PROVE  CodexInv'
<1> USE DEF collected, lifecycle
<1>1. /\ Poll
      /\ termination' = [termination EXCEPT !.cleared = cleared]
      /\ code' = IF termination.reason = "residual_process" THEN code ELSE PolledCode
      /\ UNCHANGED << signalled, loop, ready, registered, offset, parser, protocol, timedOut,
                      raised, expired, invocation, interrupts >>
  BY DEF Terminated
<1>2. /\ loop \in {"terminate", "except", "pipes_failed", "emergency"} /\ Tracked
      /\ cleanup' = IF loop \notin {"pipes_failed", "emergency"} THEN cleanup
                    ELSE IF cleared THEN "cleared" ELSE "failed"
  BY DEF Terminated, CodexInv, Places, Lifecycle, PreMark, Final
<1>3. PICK kind : kind = IF cleared THEN "evidence_error" ELSE "process_cleanup_error"
  OBVIOUS
<1>4. \/ loop = "terminate" /\ pc' = "after" /\ UNCHANGED << failure, ended >>
      \/ loop = "except" /\ pc' = "close" /\ failure' = kind /\ UNCHANGED ended
      \/ /\ loop = "pipes_failed" /\ UNCHANGED failure
         /\ ReturnEvidence(Evidence(kind, "provider_pipe_selector_initialization", parser,
                                    FALSE), FALSE)
      \/ loop = "emergency" /\ pc' = "interrupted" /\ UNCHANGED << failure, ended >>
  BY <1>2, <1>3 DEF Terminated
<1>5. /\ IsTermination(termination') /\ termination'.cleared = cleared
      /\ termination'.reason = termination.reason
  BY <1>1 DEF CodexInv, Typed, IsTermination
<1>6. cleared => Group' = {}
  BY <1>1, PollFacts
<1>7. Typed' \/ pc' \notin Locations
  BY <1>1, <1>3, <1>4, <1>5, PollFacts DEF CodexInv, Typed, Failures, HarnessKinds
<1>8. ProviderOK'
  BY <1>1, PollFacts DEF CodexInv, ProviderOK, Exited
<1>9. CASE pc' \in {"after", "close", "interrupted"}
  <2>1. Typed'
    BY <1>7, <1>9 DEF Locations, Collecting, Final
  <2>10. loop # "pipes_failed"
    BY <1>4, <1>9 DEF ReturnEvidence, RaiseRunnerError, Ends
  <2>9. /\ parent' = parent \/ (parent' = "reaped" /\ parent # "unborn")
        /\ Exited => parent' = "reaped"
        /\ ownExit' = ownExit /\ exitCode' = exitCode /\ script' = script /\ emitted' = emitted
        /\ HasWriter' <=> HasWriter
    BY <1>1, PollFacts
  <2>2. Lifecycle' /\ Fresh' /\ Places'
    <3>1. Lifecycle'
      BY <1>1, <1>2, <1>4, <1>9, <2>10, <2>9 DEF CodexInv, Lifecycle, Tracked, PreMark, Final
    <3>2. Fresh'
      BY <1>9 DEF Fresh, PreMark
    <3>3. Places'
      BY <1>1, <1>2, <1>4, <1>9, <2>10 DEF CodexInv, Places
    <3> QED BY <3>1, <3>2, <3>3
  <2>3. Collected'
    BY <1>1, <1>2, <1>4, <1>9, <2>10, <2>9 DEF CodexInv, Collected, Finished, PolledCode, Exited,
       Final
  <2>4. ClearedIsEmpty'
    BY <1>1, <1>2, <1>4, <1>5, <1>6, <1>9 DEF ClearedIsEmpty, Final
  <2>5. AllRead'
    BY <1>1, <1>2, <1>3, <1>4, <1>9, <2>10, <2>9
       DEF CodexInv, AllRead, NoMore, Unread, Collecting, TryLoops
  <2>6. Parsed'
    BY <1>1, <1>3, <1>4, <1>9, PollFacts, SameParse DEF CodexInv
  <2>7. RaisedIsHandled'
    BY <1>1, <1>2, <1>3, <1>4, <1>5, <1>9 DEF CodexInv, RaisedIsHandled, HarnessKinds, Final
  <2>8. OneInterruptCollects' /\ EvidenceIsAccepted' /\ ClassificationIsTrue'
    BY <1>2, <1>4, <1>6, <1>9 DEF OneInterruptCollects, InterruptCollects, EvidenceIsAccepted,
       ClassificationIsTrue, VerdictIsTheProviders, UnknownExceptionIsHarness
  <2> QED BY <1>8, <2>1, <2>2, <2>3, <2>4, <2>5, <2>6, <2>7, <2>8 DEF CodexInv
<1>10. CASE loop = "pipes_failed"
  <2>1. PICK e : e = Evidence(kind, "provider_pipe_selector_initialization", parser, FALSE)
    OBVIOUS
  <2>2. e.invocation = invocation' /\ e.cleared = termination'.cleared /\ e.kind = kind
    BY <2>1 DEF Evidence
  <2>3. /\ invocation' = "process_started" /\ Sound(parser')
        /\ cleanup' = IF termination'.cleared THEN "cleared" ELSE "failed"
    BY <1>1, <1>2, <1>5, <1>10 DEF Tracked, CodexInv, Typed
  <2>4. ReturnEvidence(e, FALSE) /\ failure' = failure
    BY <1>4, <1>10, <2>1
  <2>5. /\ pc' = "ended" /\ Accepted(evidence')
        /\ evidence' = e \/ evidence'.kind \in HarnessKinds
        /\ evidence'.invocation = invocation' /\ evidence'.cleared = termination'.cleared
    BY <2>2, <2>3, <2>4, ReturnAccepted
  <2>6. evidence'.kind \in HarnessKinds
    BY <1>3, <2>2, <2>5 DEF HarnessKinds
  <2>7. parent' # "unborn"
    BY <1>1, PollFacts DEF CodexInv, Lifecycle, Final
  <2>8. EvidenceIsAccepted'
    BY <1>5, <1>6, <2>3, <2>5, <2>7 DEF EvidenceIsAccepted
  <2>9. ClassificationIsTrue'
    BY <2>6 DEF ClassificationIsTrue, VerdictIsTheProviders, UnknownExceptionIsHarness,
       VerdictKinds, HarnessKinds
  <2>10. Typed'
    BY <1>7, <2>5 DEF Locations, Final
  <2> QED BY <1>1, <1>8, <2>4, <2>5, <2>8, <2>9, <2>10, Ending
<1> QED BY <1>4, <1>9, <1>10

(* A termination says cleared only of a group without members.             *)
LEMMA GroupEndsInv ==
  CodexInv /\ (GroupCleared \/ GroupRemains \/ GroupCallFails) => CodexInv'
<1>1. ASSUME CodexInv, GroupCleared PROVE CodexInv'
  <2>1. pc \in {"inspect", "wait"} /\ Terminated(TRUE) /\ GroupAfterPoll = {}
    BY <1>1 DEF GroupCleared, GroupAfterPoll
  <2> QED BY <1>1, <2>1, TerminatedInv
<1>2. ASSUME CodexInv, GroupRemains \/ GroupCallFails PROVE CodexInv'
  <2>1. pc \in {"inspect", "wait"} /\ Terminated(FALSE)
    BY <1>2 DEF GroupRemains, GroupCallFails
  <2> QED BY <1>2, <2>1, TerminatedInv
<1> QED BY <1>1, <1>2

(* At the verdict, if nothing failed, the whole output has been read, so   *)
(* what finish accepts is a completed turn.                                *)
LEMMA WholeTurn ==
  ASSUME CodexInv, pc = "judge", failure = "none", ~ raised,
         Finish(parser).raised = "none", Finish(parser).parser.terminal = "turn_completed"
  PROVE  IsCompletedTurn(Written)
<1>1. /\ script \in Seq(Units) /\ emitted \in 0 .. Len(script) /\ Len(script) \in Nat
      /\ Sound(parser) /\ parser.total <= emitted /\ parser.total \in Nat
  BY DEF CodexInv, Typed, Sound, Parsers
<1>2. Unread = << >>
  BY DEF CodexInv, AllRead, NoMore
<1>3. PICK t : t = parser.total
  OBVIOUS
<1>4. t = emitted
  <2>1. t \in Nat /\ t <= emitted /\ SubSeq(script, t + 1, emitted) = << >>
    BY <1>1, <1>2, <1>3 DEF Unread
  <2>2. emitted \in Nat /\ emitted <= Len(script) /\ script \in Seq(Units)
    BY <1>1
  <2>3. Len(SubSeq(script, t + 1, emitted)) = emitted - t
    BY <2>1, <2>2, SubSeqFacts
  <2>4. Len(SubSeq(script, t + 1, emitted)) = 0
    <3>1. PICK z : z = SubSeq(script, t + 1, emitted)
      OBVIOUS
    <3>2. z = << >>
      BY <2>1, <3>1
    <3>3. Len(z) = 0
      BY <3>2
    <3> QED BY <3>1, <3>3
  <2> QED BY <2>1, <2>2, <2>3, <2>4
<1>5. t <= MaxTotal /\ Reads(script, t, parser)
  BY <1>3 DEF CodexInv, Parsed
<1>6. PICK v : v = SubSeq(script, 1, emitted)
  OBVIOUS
<1>7. v \in Seq(Units) /\ Len(v) = emitted /\ \A j \in 1 .. emitted : v[j] = script[j]
  <2>1. emitted \in Nat /\ emitted <= Len(script)
    BY <1>1
  <2>2. PICK z \in Nat : z = 0
    OBVIOUS
  <2>3. /\ SubSeq(script, z + 1, emitted) \in Seq(Units)
        /\ Len(SubSeq(script, z + 1, emitted)) = emitted - z
        /\ \A j \in 1 .. emitted - z : SubSeq(script, z + 1, emitted)[j] = script[z + j]
    BY <1>1, <2>1, <2>2, SubSeqFacts
  <2>4. z + 1 = 1 /\ emitted - z = emitted /\ \A j \in 1 .. emitted : z + j = j
    BY <2>1, <2>2
  <2> QED BY <1>6, <2>3, <2>4
<1>8. Reads(v, t, parser)
  BY <1>1, <1>3, <1>4, <1>5, <1>7, ReadsAgrees
<1>9. IsCompletedTurn(v)
  BY <1>1, <1>4, <1>5, <1>7, <1>8, FinishReads
<1> QED BY <1>6, <1>9 DEF Written

(* The verdict. Evidence that is returned is the one Classify chose; a     *)
(* verdict on the Provider is chosen only without failure, timeout and     *)
(* remaining group, where Collected, AllRead and WholeTurn say the rest. A *)
(* timeout seen before an unknown exception is refused by the contract,    *)
(* because the handler has replaced the reason of the termination.         *)
LEMMA JudgeInv == CodexInv /\ Judge => CodexInv'
<1> SUFFICES ASSUME CodexInv, Judge PROVE CodexInv'
  OBVIOUS
<1>1. PICK fin : fin = IF protocol = "none" THEN Finish(parser)
                       ELSE [parser |-> parser, raised |-> "none", buffered |-> FALSE]
  OBVIOUS
<1>2. PICK summary : summary = IF fin.raised = "none" THEN fin.parser ELSE parser
  OBVIOUS
<1>3. PICK kind : kind = Classify(summary.terminal = "turn_failed", fin)
  OBVIOUS
<1>4. PICK limit : limit = ("output_limit" = protocol \/ failure = "provider_output_limit")
  OBVIOUS
<1>5. PICK e : e = Evidence(kind, IF kind = "none" THEN "none"
                                 ELSE "provider_process_collection", summary, limit)
  OBVIOUS
<1>6. /\ pc = "judge"
      /\ UNCHANGED << provider, signalled, loop, ready, registered, offset, failure, protocol,
                      timedOut, expired, code, termination, invocation, interrupts >>
      /\ cleanup' = IF termination.cleared THEN "cleared" ELSE "failed"
      /\ parser' = fin.parser
  BY <1>1 DEF Judge
<1>7. \/ /\ fin.raised = "exception" /\ raised' = TRUE
         /\ RaiseRunnerError("provider_process_collection", FALSE)
      \/ /\ fin.raised # "exception" /\ raised' = raised
         /\ ReturnEvidence(e, limit)
  BY <1>1, <1>2, <1>3, <1>4, <1>5 DEF Judge
<1>8. /\ Sound(parser) /\ Sound(parser') /\ parser'.total = parser.total
      /\ protocol = "none" => fin.raised \in {"none"} \cup Errors
  <2>1. Sound(parser)
    BY DEF CodexInv, Typed
  <2>2. CASE protocol = "none"
    BY <1>1, <1>6, <2>1, <2>2, FinishSound
  <2>3. CASE protocol # "none"
    BY <1>1, <1>6, <2>1, <2>3
  <2> QED BY <2>2, <2>3, <2>1
<1>9. /\ invocation' = "process_started" /\ parent' # "unborn"
      /\ cleanup' = IF termination'.cleared THEN "cleared" ELSE "failed"
      /\ loop \in {"output", "except"}
  BY <1>6 DEF CodexInv, Lifecycle, Tracked, Places, PreMark, Final, provider
<1>10. e.invocation = invocation' /\ e.cleared = termination'.cleared /\ e.kind = kind
       /\ e.reason = termination'.reason /\ e.code = code' /\ e.terminal = summary.terminal
  BY <1>5 DEF Evidence
<1>11. /\ pc' = "ended" /\ Accepted(evidence')
       /\ \/ evidence'.kind \in HarnessKinds
          \/ evidence' = e /\ fin.raised # "exception" /\ raised' = raised
       /\ evidence'.invocation = invocation' /\ evidence'.cleared = termination'.cleared
  <2>1. CASE fin.raised = "exception" /\ RaiseRunnerError("provider_process_collection", FALSE)
    BY <1>8, <1>9, <2>1, RunnerErrorAccepted
  <2>2. CASE fin.raised # "exception" /\ raised' = raised /\ ReturnEvidence(e, limit)
    BY <1>8, <1>9, <1>10, <2>2, ReturnAccepted
  <2> QED BY <1>7, <2>1, <2>2
<1>12. Typed' /\ ProviderOK'
  BY <1>6, <1>8, <1>11 DEF CodexInv, Typed, ProviderOK, Exited, Locations, Final, provider
<1>13. termination.cleared => Group' = {}
  BY <1>6 DEF CodexInv, ClearedIsEmpty, Group, provider
<1>14. EvidenceIsAccepted'
  BY <1>6, <1>9, <1>11, <1>13 DEF EvidenceIsAccepted
<1>15. raised => failure \in HarnessKinds /\ termination.reason = "emergency_cleanup"
  BY <1>6, <1>9 DEF CodexInv, RaisedIsHandled, Final
<1>16. UnknownExceptionIsHarness'
  <2>1. SUFFICES ASSUME raised, evidence' = e PROVE e.kind \in HarnessKinds
    BY <1>11 DEF UnknownExceptionIsHarness
  <2>2. failure \in HarnessKinds /\ e.reason = "emergency_cleanup"
    BY <1>6, <1>10, <1>15, <2>1
  <2>3. kind # "provider_timeout"
    BY <1>10, <1>11, <2>1, <2>2 DEF Accepted, KindAgrees
  <2> QED BY <1>3, <1>10, <2>2, <2>3 DEF Classify, HarnessKinds
<1>17. VerdictIsTheProviders'
  <2>1. SUFFICES ASSUME evidence'.kind \in VerdictKinds PROVE VerdictIsTheProviders'
    BY DEF VerdictIsTheProviders
  <2>2. evidence' = e /\ fin.raised # "exception" /\ kind \in VerdictKinds /\ Accepted(e)
    BY <1>10, <1>11, <2>1 DEF VerdictKinds, HarnessKinds
  <2>3. failure \in Failures
    BY DEF CodexInv, Typed
  <2>4. /\ termination.cleared /\ ~ timedOut /\ failure = "none"
        /\ kind = ProviderVerdict(summary.terminal = "turn_failed", fin)
    BY <1>3, <2>2, <2>3 DEF Classify, VerdictKinds, Failures, HarnessKinds
  <2>5. ~ raised /\ loop = "output"
    BY <1>6, <1>9, <1>15, <2>4 DEF CodexInv, RaisedIsHandled, HarnessKinds, Final
  <2>6. parent = "reaped" /\ ownExit /\ code = exitCode
    BY <1>6, <2>4, <2>5 DEF CodexInv, Collected, Finished, Final
  <2>7. Group = {} /\ ~ HasWriter /\ Unread = << >>
    BY <1>6, <2>4 DEF CodexInv, ClearedIsEmpty, AllRead, NoMore
  <2>8. /\ ownExit' /\ evidence'.code = exitCode'
        /\ Group' = {} /\ ~ HasWriter' /\ Unread' = << >>
    BY <1>6, <1>8, <1>10, <2>2, <2>6, <2>7 DEF provider, Group, HasWriter, ChildAlive, Unread
  <2>9. ASSUME kind = "none"
        PROVE  exitCode = "zero" /\ offset = PromptSize /\ IsCompletedTurn(Written)
    <3>1. /\ code = "zero" /\ offset = PromptSize /\ fin.raised # "protocol_error"
      BY <2>4, <2>9 DEF ProviderVerdict
    <3>2. protocol = "none"
      BY <2>4 DEF CodexInv, Parsed
    <3>3. fin.raised = "none" /\ fin = Finish(parser)
      BY <1>1, <1>8, <2>2, <3>1, <3>2 DEF Errors
    <3>4. Finish(parser).parser.terminal = "turn_completed"
      BY <1>2, <1>10, <2>2, <2>9, <3>3 DEF Accepted, KindAgrees
    <3>5. IsCompletedTurn(Written)
      BY <1>6, <2>4, <2>5, <3>3, <3>4, WholeTurn
    <3> QED BY <2>6, <3>1, <3>5
  <2>10. /\ Written' = Written /\ exitCode' = exitCode /\ offset' = offset
    BY <1>6 DEF Written, provider
  <2>11. evidence'.kind = "none" =>
           exitCode' = "zero" /\ offset' = PromptSize /\ IsCompletedTurn(Written')
    BY <1>10, <2>2, <2>9, <2>10
  <2> QED BY <2>8, <2>11 DEF VerdictIsTheProviders
<1>18. ClassificationIsTrue'
  BY <1>16, <1>17 DEF ClassificationIsTrue
<1>19. loop' = loop /\ interrupts' = interrupts /\ UNCHANGED << failure, protocol >>
  BY <1>6
<1> QED BY <1>11, <1>12, <1>14, <1>18, <1>19, Ending

(* Ctrl-C: a started process that nobody has cleaned up is terminated,     *)
(* unless that is what Ctrl-C interrupts.                                  *)
LEMMA InterruptInv == CodexInv /\ Interrupt => CodexInv'
<1> SUFFICES ASSUME CodexInv, Interrupt PROVE CodexInv'
  OBVIOUS
<1> USE DEF provider, collected, lifecycle
<1>1. /\ interrupts' = interrupts + 1 /\ interrupts \in Nat /\ interrupts' > 0
      /\ pc \notin Final /\ ready' = {} /\ registered' = {}
      /\ UNCHANGED << provider, signalled, collected, expired, lifecycle, outcome, evidence >>
  BY DEF Interrupt, Interrupted, CodexInv, Typed, Final, ended
<1>2. \/ /\ Tracked /\ pc' = "inspect" /\ loop' = "emergency"
         /\ termination' = [NoTermination EXCEPT !.reason = "emergency_cleanup"]
      \/ /\ ~ (Tracked /\ loop # "emergency") /\ pc' = "interrupted"
         /\ UNCHANGED << loop, termination >>
  BY DEF Interrupt, Interrupted, StartTermination
<1>3. Typed'
  BY <1>1, <1>2 DEF CodexInv, Typed, Locations, Collecting, Final, IsTermination, NoTermination
<1>4. ProviderOK'
  BY <1>1 DEF CodexInv, ProviderOK, Exited
<1>5. Lifecycle'
  BY <1>1, <1>2 DEF CodexInv, Lifecycle, Tracked, PreMark, Final
<1>6. Fresh' /\ Places'
  BY <1>1, <1>2 DEF Fresh, Places, PreMark
<1>7. Collected' /\ ClearedIsEmpty' /\ AllRead'
  BY <1>1, <1>2 DEF Collected, ClearedIsEmpty, AllRead, TryLoops, Collecting, Final
<1>8. Parsed'
  BY <1>1, SameParse DEF CodexInv, Final
<1>9. RaisedIsHandled'
  BY <1>1, <1>2 DEF RaisedIsHandled, Final
<1>10. OneInterruptCollects'
  <2>1. SUFFICES ASSUME pc' = "interrupted", interrupts = 0, invocation = "process_started"
                 PROVE  FALSE
    BY <1>1, <1>2 DEF OneInterruptCollects, InterruptCollects
  <2>2. loop # "emergency"
    BY <2>1 DEF CodexInv, Places
  <2>3. Tracked
    BY <1>1, <2>1 DEF CodexInv, Lifecycle, PreMark
  <2> QED BY <1>2, <2>1, <2>2, <2>3
<1>11. EvidenceIsAccepted' /\ ClassificationIsTrue'
  BY <1>2 DEF EvidenceIsAccepted, ClassificationIsTrue, VerdictIsTheProviders,
     UnknownExceptionIsHarness
<1> QED BY <1>3, <1>4, <1>5, <1>6, <1>7, <1>8, <1>9, <1>10, <1>11 DEF CodexInv

(* Nothing changes.                                                        *)
LEMMA StutterInv == CodexInv /\ UNCHANGED vars => CodexInv'
<1> SUFFICES ASSUME CodexInv, UNCHANGED vars PROVE CodexInv'
  OBVIOUS
<1>1. /\ UNCHANGED << script, emitted, parent, child, exitCode, takesInput, ownExit >>
      /\ UNCHANGED << signalled, pc, loop, ready, registered, offset, parser, failure, protocol >>
      /\ UNCHANGED << timedOut, raised, expired, code, termination, invocation, cleanup >>
      /\ UNCHANGED << outcome, evidence, interrupts >>
  BY DEF vars, provider, collected, lifecycle, ended
<1>2. Typed' /\ ProviderOK' /\ Lifecycle' /\ Fresh' /\ Places' /\ Collected'
  BY <1>1 DEF CodexInv, Typed, ProviderOK, Exited, Lifecycle, Tracked, Fresh, Places, Collected,
     Finished
<1>3. ClearedIsEmpty' /\ AllRead' /\ Parsed' /\ RaisedIsHandled'
  BY <1>1 DEF CodexInv, ClearedIsEmpty, Group, AllRead, NoMore, HasWriter, ChildAlive, Unread,
     Parsed, RaisedIsHandled
<1>4. OneInterruptCollects' /\ EvidenceIsAccepted'
  BY <1>1 DEF CodexInv, OneInterruptCollects, InterruptCollects, EvidenceIsAccepted, Group
<1>5. ClassificationIsTrue'
  BY <1>1 DEF CodexInv, ClassificationIsTrue, VerdictIsTheProviders, UnknownExceptionIsHarness,
     Group, HasWriter, ChildAlive, Unread, Written
<1> QED BY <1>2, <1>3, <1>4, <1>5 DEF CodexInv

(* Every step keeps the invariant.                                         *)
LEMMA NextInv == CodexInv /\ [Next]_vars => CodexInv'
<1> SUFFICES ASSUME CodexInv, [Next]_vars PROVE CodexInv'
  OBVIOUS
<1>1. CASE ProviderStep
  BY <1>1, ProviderInv
<1>2. CASE Prepare \/ Spawn \/ MarkProcessStarted \/ OpenPipes
  BY <1>2, PrepareInv, SpawnInv, MarkProcessStartedInv, OpenPipesInv
<1>3. CASE DrainStep
  BY <1>3, SelectInv, WriteStdinInv, StdinBreaksInv, ReadStdoutInv, StdoutEndsInv, EndDrainInv
     DEF DrainStep
<1>4. CASE CheckCollection \/ SignalGroup \/ DrainInTermination
  BY <1>4, CheckCollectionInv, SignalGroupInv, DrainInTerminationInv
<1>5. CASE GroupCleared \/ GroupRemains \/ GroupCallFails
  BY <1>5, GroupEndsInv
<1>6. CASE After \/ DirectWait \/ CheckOutput \/ CloseStreams \/ Judge
  BY <1>6, AfterInv, DirectWaitInv, CheckOutputInv, CloseStreamsInv, JudgeInv
<1>7. CASE PrepareFails \/ SpawnFails \/ PipesFail \/ SelectFails \/ ReadFails
  BY <1>7, PrepareFailsInv, SpawnFailsInv, PipesFailInv, SelectFailsInv, ReadFailsInv
<1>8. CASE InspectionFails \/ CollectionRaises \/ CloseFails \/ PassDeadline \/ Interrupt
  BY <1>8, InspectionFailsInv, CollectionRaisesInv, CloseFailsInv, PassDeadlineInv, InterruptInv
<1>9. CASE Done \/ UNCHANGED vars
  BY <1>9, StutterInv DEF Done
<1> QED
  BY <1>1, <1>2, <1>3, <1>4, <1>5, <1>6, <1>7, <1>8, <1>9 DEF Next, RunnerStep, RunnerFault

(* The invariant holds in every state, for every set of scripts, every     *)
(* size of the Prompt and every number of Ctrl-C.                          *)
LEMMA CodexInvHolds == Spec => []CodexInv
BY InitInv, NextInv, PTL DEF Spec

(* Whatever fails, and wherever Ctrl-C falls, a run that ends leaves a     *)
(* record that the strict contract of CodexExecutionEvidence accepts and   *)
(* that is true of the process.                                            *)
THEOREM EvidenceAlwaysAccepted == Spec => []EvidenceIsAccepted
<1>1. CodexInv => EvidenceIsAccepted
  BY DEF CodexInv
<1> QED BY <1>1, CodexInvHolds, PTL

(* A verdict on the Provider is the Provider's own doing, a success is one *)
(* completed turn after the whole Prompt, and an unknown exception is      *)
(* never a verdict.                                                        *)
THEOREM ClassificationTrue == Spec => []ClassificationIsTrue
<1>1. CodexInv => ClassificationIsTrue
  BY DEF CodexInv
<1> QED BY <1>1, CodexInvHolds, PTL

(* One Ctrl-C after mark_process_started leaves no member of the group, or *)
(* the tracker says that it failed.                                        *)
THEOREM OneInterruptIsCollected == Spec => [](interrupts <= 1 => InterruptCollects)
<1>1. CodexInv => (interrupts <= 1 => InterruptCollects)
  BY DEF CodexInv, OneInterruptCollects
<1> QED BY <1>1, CodexInvHolds, PTL

-----------------------------------------------------------------------------
(* What the callers of the adapter expect of it. LiveRun and Phase6Campaign *)
(* do not have the steps of this module: they take any of CodexResults.    *)
Results == INSTANCE CodexResults

(* Two records tell the same of the life cycle and of the failure.         *)
SameLifecycle(e, r) ==
  /\ e.kind = r.kind /\ e.stage = r.stage /\ e.runner = r.runner
  /\ e.execution = r.execution /\ e.invocation = r.invocation
  /\ e.cleared = r.cleared /\ e.cleanup = r.cleanup

(* The tracker that CodexRunnerError carries: what is built of it is the   *)
(* evidence of the run.                                                    *)
TrackerLeft ==
  [runner |-> evidence.runner, invocation |-> evidence.invocation,
   stage |-> evidence.stage, cleanup |-> evidence.cleanup]

IsResult(e) == \E r \in Results!RunnerResults : SameLifecycle(e, r)

ErrorIsExpected ==
  /\ TrackerLeft \in Results!RunnerErrors
  /\ SameLifecycle(evidence, Results!LifecycleEvidence(TrackerLeft))

CallersExpect ==
  /\ outcome = "result" => IsResult(evidence)
  /\ outcome = "runner_error" => ErrorIsExpected
  /\ outcome = "unsupported" => SameLifecycle(evidence, Results!UnsupportedEvidence)

(* The contract is the same one on both sides.                             *)
LEMMA SameContract ==
  /\ \A e : Results!Accepted(e) <=> Accepted(e)
  /\ Results!Invocations = Invocations /\ Results!Kinds = Kinds
  /\ Results!PreSpawnStages = PreSpawnStages /\ Results!HarnessKinds = HarnessKinds
  /\ Results!PostSpawnStages = PostSpawnStages /\ Results!HandoffStage = HandoffStage
  /\ \A i : Results!ExecutionStage(i) = ExecutionStage(i)
<1>1. /\ Results!Invocations = Invocations /\ Results!Kinds = Kinds
      /\ Results!PreSpawnStages = PreSpawnStages /\ Results!HarnessKinds = HarnessKinds
      /\ Results!PostSpawnStages = PostSpawnStages /\ Results!HandoffStage = HandoffStage
      /\ Results!RunnerStages = RunnerStages /\ Results!SpawnKinds = SpawnKinds
      /\ Results!OrchestrationStages = OrchestrationStages
      /\ Results!HandoffStages = HandoffStages
  BY DEF Results!Invocations, Invocations, Results!Kinds, Kinds, Results!ProviderKinds,
     ProviderKinds, Results!SpawnKinds, SpawnKinds, Results!HarnessKinds, HarnessKinds,
     Results!PreSpawnStages, PreSpawnStages, Results!PostSpawnStages, PostSpawnStages,
     Results!HandoffStage, HandoffStage, Results!RunnerStages, RunnerStages,
     Results!OrchestrationStages, OrchestrationStages, Results!HandoffStages, HandoffStages
<1>2. \A i : Results!ExecutionStage(i) = ExecutionStage(i)
  BY DEF Results!ExecutionStage, ExecutionStage
<1>3. ASSUME NEW e PROVE Results!LifecycleAgrees(e) <=> LifecycleAgrees(e)
  BY <1>1 DEF Results!LifecycleAgrees, LifecycleAgrees
<1>4. ASSUME NEW e PROVE Results!StageAgrees(e) <=> StageAgrees(e)
  BY <1>1 DEF Results!StageAgrees, StageAgrees
<1>5. ASSUME NEW e PROVE Results!KindAgrees(e) <=> KindAgrees(e)
  BY <1>1 DEF Results!KindAgrees, KindAgrees
<1>6. ASSUME NEW e PROVE Results!Accepted(e) <=> Accepted(e)
  BY <1>3, <1>4, <1>5 DEF Results!Accepted, Accepted
<1> QED BY <1>1, <1>2, <1>6

(* Accepted evidence of the runner is one of its results, if the cleanup   *)
(* failure is the kind exactly when the group remains.                     *)
LEMMA AcceptedIsResult ==
  ASSUME NEW e, Accepted(e), e.runner = "started", e.invocation \in Invocations,
         e.execution = ExecutionStage(e.invocation), e.stage \in Results!ResultStages,
         e.cleared = (e.kind # "process_cleanup_error"),
         e.kind = "process_cleanup_error" => e.invocation = "process_started",
         e.stage \in PreSpawnStages => e.invocation = "not_attempted",
         e.stage = "provider_pipe_selector_initialization" => e.kind \in HarnessKinds
  PROVE  IsResult(e)
<1>1. PICK r : r = Results!Evidence("started", Results!ExecutionStage(e.invocation), e.invocation,
                                    e.stage, e.kind, e.kind # "process_cleanup_error")
  OBVIOUS
<1>2. /\ r.kind = e.kind /\ r.stage = e.stage /\ r.runner = "started"
      /\ r.execution = ExecutionStage(e.invocation) /\ r.invocation = e.invocation
      /\ r.cleared = (e.kind # "process_cleanup_error")
      /\ r.cleanup = IF e.invocation # "process_started" THEN "not_applicable"
                     ELSE IF e.kind # "process_cleanup_error" THEN "cleared" ELSE "failed"
      /\ r.stdin = IF e.invocation = "process_started" THEN "complete" ELSE "not_started"
      /\ r.code = CASE e.invocation # "process_started" -> "none"
                    [] e.kind = "provider_cli_nonzero" -> "positive"
                    [] e.kind = "provider_signal_termination" -> "signal"
                    [] OTHER -> "zero"
      /\ r.events = IF e.invocation = "process_started" THEN 3 ELSE 0
      /\ r.threads = 1 /\ r.turns = 1 /\ r.errors = 0
      /\ r.terminal = CASE e.invocation # "process_started" -> "none"
                        [] e.kind = "provider_turn_failed" -> "turn_failed"
                        [] OTHER -> "turn_completed"
      /\ r.hint = (e.kind = "provider_turn_failed")
      /\ r.limit = (e.kind = "provider_output_limit")
      /\ r.reason = IF e.kind = "provider_timeout" THEN "timeout" ELSE "none"
  BY <1>1 DEF Results!Evidence, Results!ExecutionStage, ExecutionStage
<1>3. SameLifecycle(e, r)
  BY <1>2 DEF SameLifecycle, Accepted, LifecycleAgrees
<1>4. /\ LifecycleAgrees(e) /\ StageAgrees(e) /\ KindAgrees(e)
      /\ e.kind \in Kinds
  BY DEF Accepted, KindAgrees
<1>5. e.invocation # "process_started" =>
        /\ e.execution = ExecutionStage(e.invocation) /\ e.kind # "none"
        /\ e.kind \notin {"provider_turn_failed", "provider_cli_nonzero",
                          "provider_signal_termination"}
  BY <1>4 DEF LifecycleAgrees, KindAgrees
<1>6. StageAgrees(r)
  BY <1>2, <1>4 DEF StageAgrees
<1>7. KindAgrees(r)
  <2>1. CASE e.invocation = "process_started"
    <3>1. e.kind = "none" => ~ r.hint /\ ~ r.limit /\ r.cleared
      BY <1>2
    <3>2. /\ e.kind = "provider_turn_failed" => r.hint
          /\ e.kind = "provider_output_limit" => r.limit
          /\ e.kind = "process_cleanup_error" => ~ r.cleared
      BY <1>2
    <3>3. /\ e.kind = "none" => r.code = "zero" /\ r.terminal = "turn_completed"
          /\ e.kind = "provider_cli_nonzero" => r.code = "positive"
          /\ e.kind = "provider_signal_termination" => r.code = "signal"
          /\ e.kind = "provider_turn_failed" => r.terminal = "turn_failed"
      BY <1>2, <2>1
    <3>4. e.kind \in SpawnKinds \cup {"unsupported_platform"} => FALSE
      BY <1>4, <2>1 DEF KindAgrees
    <3> QED BY <1>2, <1>4, <2>1, <3>1, <3>2, <3>3, <3>4 DEF KindAgrees
  <2>2. CASE e.invocation # "process_started"
    <3>1. /\ e.kind = "provider_output_limit" => r.limit
          /\ e.kind = "process_cleanup_error" => ~ r.cleared
      BY <1>2
    <3> QED BY <1>2, <1>4, <1>5, <2>2, <3>1 DEF KindAgrees
  <2> QED BY <2>1, <2>2
<1>8. LifecycleAgrees(r)
  <2>1. CASE e.invocation = "process_started"
    <3>1. r.cleanup = IF r.cleared THEN "cleared" ELSE "failed"
      BY <1>2, <2>1
    <3>2. /\ r.runner = "started" /\ r.stage = e.stage
          /\ r.execution = e.execution /\ r.invocation = e.invocation
      BY <1>2
    <3> QED BY <1>4, <2>1, <3>1, <3>2 DEF LifecycleAgrees
  <2>2. CASE e.invocation # "process_started"
    <3>1. ~ r.hint
      BY <1>2, <1>5, <2>2
    <3>2. /\ r.code = "none" /\ r.terminal = "none" /\ r.events = 0 /\ r.stdin = "not_started"
          /\ r.cleanup = "not_applicable" /\ r.runner = "started"
          /\ r.stage = e.stage /\ r.execution = e.execution /\ r.invocation = e.invocation
      BY <1>2, <1>5, <2>2
    <3> QED BY <1>4, <2>2, <3>1, <3>2 DEF LifecycleAgrees
  <2> QED BY <2>1, <2>2
<1>9. Results!Accepted(r)
  BY <1>2, <1>6, <1>7, <1>8, SameContract DEF Accepted
<1>10. r \in Results!RunnerResults
  <2>1. /\ e.invocation \in Results!Invocations /\ e.kind \in Results!Kinds
        /\ Results!PreSpawnStages = PreSpawnStages /\ Results!HarnessKinds = HarnessKinds
    BY <1>4, SameContract
  <2> QED BY <1>1, <1>2, <1>9, <2>1 DEF Results!RunnerResults
<1> QED BY <1>3, <1>10 DEF IsResult

(* The contract accepts the evidence of a failed step before the spawn, of *)
(* a failed spawn, and of a failure of the harness after it.               *)
LEMMA BuiltAccepted ==
  ASSUME NEW kind, NEW stage, NEW p, NEW limit, Sound(p),
         kind = "process_cleanup_error" => ~ termination'.cleared,
         \/ /\ invocation' = "process_started"
            /\ cleanup' = IF termination'.cleared THEN "cleared" ELSE "failed"
            /\ stage \in PostSpawnStages /\ kind \in HarnessKinds
         \/ /\ cleanup' = "not_applicable" /\ code' = "none" /\ offset = 0 /\ p = NewParser
            /\ \/ /\ invocation' = "not_attempted" /\ kind = "evidence_error"
                  /\ stage \in PreSpawnStages \ {"provider_runtime_precheck"}
               \/ /\ invocation' = "spawn_attempted" /\ kind \in SpawnKinds
                  /\ stage = "provider_process_spawn"
  PROVE  Accepted(Evidence(kind, stage, p, limit))
<1>1. PICK e : e = Evidence(kind, stage, p, limit)
  OBVIOUS
<1>2. /\ e.kind = kind /\ e.stage = stage /\ e.runner = "started"
      /\ e.execution = ExecutionStage(invocation')
      /\ e.invocation = invocation' /\ e.cleanup = cleanup' /\ e.stdin = StdinState
      /\ e.code = code' /\ e.events = p.events /\ e.errors = p.errors
      /\ e.terminal = p.terminal
  BY <1>1 DEF Evidence
<1>3. e.hint = (p.terminal # "turn_completed" /\ p.hints) /\ e.cleared = termination'.cleared
  BY <1>1 DEF Evidence
<1>4. StageAgrees(e)
  BY <1>2 DEF StageAgrees, HarnessKinds, HandoffStage, HandoffStages, OrchestrationStages,
     RunnerStages, PreSpawnStages, PostSpawnStages, SpawnKinds
<1>5. KindAgrees(e)
  <2>1. e.kind = "process_cleanup_error" => ~ e.cleared
    BY <1>2, <1>3
  <2> QED BY <1>2, <2>1 DEF KindAgrees, Kinds, HarnessKinds, SpawnKinds, ProviderKinds
<1>6. LifecycleAgrees(e)
  <2>1. CASE invocation' = "process_started"
    <3>1. e.cleanup = IF e.cleared THEN "cleared" ELSE "failed"
      BY <1>2, <1>3, <2>1
    <3>2. e.stage \in PostSpawnStages
      BY <1>2, <2>1
    <3> QED BY <1>2, <2>1, <3>1, <3>2 DEF LifecycleAgrees, OrchestrationStages,
         RunnerStages, PreSpawnStages, PostSpawnStages, ExecutionStage
  <2>2. CASE invocation' # "process_started"
    <3>1. p.hints = FALSE /\ p.events = 0 /\ p.terminal = "none"
      BY <2>2 DEF NewParser
    <3>2. e.hint = FALSE
      BY <1>3, <3>1
    <3>3. e.stdin = "not_started"
      BY <1>2, <2>2, PromptAssumption DEF StdinState
    <3> QED BY <1>2, <2>2, <3>1, <3>2, <3>3 DEF LifecycleAgrees, OrchestrationStages,
         RunnerStages, PreSpawnStages, PostSpawnStages, ExecutionStage
  <2> QED BY <2>1, <2>2
<1>7. e.terminal = "turn_completed" => e.errors = 0
  BY <1>2 DEF Sound
<1> QED BY <1>1, <1>4, <1>5, <1>6, <1>7 DEF Accepted

(* The tracker behind CodexRunnerError is one of RunnerErrors.             *)
LEMMA RunnerErrorExpected ==
  ASSUME NEW stage \in {HandoffStage, "provider_process_collection"}, NEW limit,
         RaiseRunnerError(stage, limit), invocation' = "process_started",
         cleanup' = IF termination'.cleared THEN "cleared" ELSE "failed",
         stage = HandoffStage => termination'.cleared, IsTermination(termination')
  PROVE  CallersExpect'
<1>1. PICK kind : /\ kind = IF cleanup' = "failed" THEN "process_cleanup_error"
                            ELSE "evidence_error"
                  /\ evidence' = Evidence(kind, stage, parser', limit)
                  /\ outcome' = "runner_error"
  BY DEF RaiseRunnerError, Ends
<1>2. PICK e : e = evidence'
  OBVIOUS
<1>3. /\ e.kind = kind /\ e.stage = stage /\ e.runner = "started"
      /\ e.execution = ExecutionStage("process_started") /\ e.invocation = "process_started"
      /\ e.cleanup = cleanup' /\ e.cleared = termination'.cleared
  BY <1>1, <1>2 DEF Evidence
<1>4. PICK t : t = TrackerLeft'
  OBVIOUS
<1>5. t = [runner |-> "started", invocation |-> "process_started", stage |-> stage,
           cleanup |-> cleanup']
  BY <1>2, <1>3, <1>4 DEF TrackerLeft
<1>6. t \in Results!RunnerErrors
  <2>1. CASE stage = HandoffStage
    <3>1. t = Results!StaleTimeout
      BY <1>5, <2>1, SameContract DEF Results!StaleTimeout, Results!Tracked
    <3> QED BY <3>1 DEF Results!RunnerErrors
  <2>2. CASE stage = "provider_process_collection"
    <3>1. stage \in Results!PostSpawnStages
      BY <2>2 DEF Results!PostSpawnStages
    <3>2. PICK b \in BOOLEAN : t = Results!Tracked("process_started", b, stage)
      <4>1. \/ t = Results!Tracked("process_started", TRUE, stage)
            \/ t = Results!Tracked("process_started", FALSE, stage)
        BY <1>5 DEF Results!Tracked
      <4> QED BY <4>1
    <3> DEFINE before == {Results!Tracked("not_attempted", TRUE, s) : s \in Results!RunnerStages}
               after == {Results!Tracked("process_started", c, s) : c \in BOOLEAN,
                           s \in Results!PostSpawnStages
                                 \cup {"provider_runner_result_construction"}}
    <3>3. t \in after
      BY <3>1, <3>2
    <3>4. Results!RunnerErrors = {Results!StaleTimeout} \cup before \cup after
      BY DEF Results!RunnerErrors
    <3> HIDE DEF before, after
    <3> QED BY <3>3, <3>4
  <2> QED BY <2>1, <2>2
<1>7. SameLifecycle(e, Results!LifecycleEvidence(t))
  <2>1. PICK r : r = Results!LifecycleEvidence(t)
    OBVIOUS
  <2>2. /\ r.kind = kind /\ r.stage = stage /\ r.runner = "started"
        /\ r.execution = ExecutionStage("process_started") /\ r.invocation = "process_started"
        /\ r.cleared = (cleanup' # "failed")
        /\ r.cleanup = IF cleanup' # "failed" THEN "cleared" ELSE "failed"
    BY <1>1, <1>5, <2>1, SameContract DEF Results!LifecycleEvidence, Results!Evidence
  <2>3. e.cleared = r.cleared /\ e.cleanup = r.cleanup
    <3>1. PICK reason : \/ termination' = [reason |-> reason, cleared |-> TRUE]
                        \/ termination' = [reason |-> reason, cleared |-> FALSE]
      BY DEF IsTermination
    <3>2. termination'.cleared = TRUE \/ termination'.cleared = FALSE
      BY <3>1
    <3>3. CASE termination'.cleared = TRUE
      <4>1. cleanup' = "cleared" /\ r.cleared = TRUE
        BY <2>2, <3>3
      <4> QED BY <1>3, <2>2, <3>3, <4>1
    <3>4. CASE termination'.cleared = FALSE
      <4>1. cleanup' = "failed" /\ r.cleared = FALSE
        BY <2>2, <3>4
      <4> QED BY <1>3, <2>2, <3>4, <4>1
    <3> QED BY <3>2, <3>3, <3>4
  <2> QED BY <1>3, <2>1, <2>2, <2>3 DEF SameLifecycle
<1>8. ErrorIsExpected'
  BY <1>2, <1>4, <1>6, <1>7 DEF ErrorIsExpected, SameLifecycle
<1> QED BY <1>1, <1>8 DEF CallersExpect

(* Evidence the runner returns is one of RunnerResults; what the contract  *)
(* refuses after a cleared termination leaves StaleTimeout.                *)
LEMMA ReturnExpected ==
  ASSUME NEW e, NEW limit, ReturnEvidence(e, limit),
         e.runner = "started", e.invocation \in Invocations,
         e.execution = ExecutionStage(e.invocation), e.stage \in Results!ResultStages,
         e.cleared = (e.kind # "process_cleanup_error"),
         e.kind = "process_cleanup_error" => e.invocation = "process_started",
         e.stage \in PreSpawnStages => e.invocation = "not_attempted",
         e.stage = "provider_pipe_selector_initialization" => e.kind \in HarnessKinds,
         \/ Accepted(e)
         \/ /\ invocation' = "process_started" /\ cleanup' = "cleared"
            /\ termination'.cleared /\ IsTermination(termination')
  PROVE  CallersExpect'
<1>1. CASE Accepted(e) /\ Ends("result", e)
  <2>1. outcome' = "result" /\ evidence' = e
    BY <1>1 DEF Ends
  <2>2. IsResult(e)
    BY <1>1, AcceptedIsResult
  <2>3. IsResult(evidence)'
    BY <2>1, <2>2 DEF IsResult, SameLifecycle
  <2> QED BY <2>1, <2>3 DEF CallersExpect
<1>2. CASE ~ Accepted(e) /\ RaiseRunnerError(HandoffStage, limit)
  BY <1>2, RunnerErrorExpected
<1> QED BY <1>1, <1>2 DEF ReturnEvidence

(* A failed step before the spawn, or an unsupported platform.             *)
LEMMA PrepareFailsExpected == CodexInv /\ PrepareFails => CallersExpect'
<1> SUFFICES ASSUME CodexInv, PrepareFails PROVE CallersExpect'
  OBVIOUS
<1> USE DEF provider, lifecycle, collected
<1>1. /\ pc = "start"
      /\ UNCHANGED << termination, lifecycle, collected >>
  BY DEF PrepareFails, BeforeCollection
<1>2. /\ invocation' = "not_attempted" /\ cleanup' = "not_applicable" /\ code' = "none"
      /\ offset = 0 /\ parser = NewParser /\ Sound(parser)
      /\ termination' = NoTermination
  BY <1>1, NewParserSound DEF CodexInv, Lifecycle, Fresh, PreMark
<1>3. ASSUME NEW stage \in PreSpawnStages \ {"provider_runtime_precheck"},
             ReturnEvidence(Evidence("evidence_error", stage, parser, FALSE), FALSE)
      PROVE  CallersExpect'
  <2>1. PICK e : e = Evidence("evidence_error", stage, parser, FALSE)
    OBVIOUS
  <2>2. /\ e.kind = "evidence_error" /\ e.stage = stage /\ e.runner = "started"
        /\ e.invocation = "not_attempted" /\ e.execution = ExecutionStage("not_attempted")
        /\ e.cleared = TRUE
    BY <1>2, <2>1 DEF Evidence, NoTermination
  <2>3. Accepted(e)
    BY <1>2, <2>1, BuiltAccepted
  <2>4. e.stage \in Results!ResultStages /\ e.stage # "provider_pipe_selector_initialization"
    BY <2>2, SameContract DEF Results!ResultStages, PreSpawnStages
  <2>5. e.invocation \in Invocations
    BY <2>2 DEF Invocations
  <2> QED BY <1>3, <2>1, <2>2, <2>3, <2>4, <2>5, ReturnExpected
<1>4. ASSUME Ends("unsupported",
                  Evidence("unsupported_platform", "provider_runtime_precheck", parser, FALSE))
      PROVE  CallersExpect'
  <2>1. outcome' = "unsupported"
    BY <1>4 DEF Ends
  <2>2. PICK e : e = evidence'
    OBVIOUS
  <2>3. /\ e.kind = "unsupported_platform" /\ e.stage = "provider_runtime_precheck"
        /\ e.runner = "started" /\ e.invocation = "not_attempted"
        /\ e.execution = "preflight_completed"
        /\ e.cleared = TRUE /\ e.cleanup = "not_applicable"
    BY <1>2, <1>4, <2>2 DEF Ends, Evidence, NoTermination, ExecutionStage
  <2>4. SameLifecycle(e, Results!UnsupportedEvidence)
    BY <2>3 DEF SameLifecycle, Results!UnsupportedEvidence, Results!Evidence
  <2> QED BY <2>1, <2>2, <2>4 DEF CallersExpect, SameLifecycle
<1> QED BY <1>3, <1>4 DEF PrepareFails

(* A failed spawn.                                                         *)
LEMMA SpawnFailsExpected == CodexInv /\ SpawnFails => CallersExpect'
<1> SUFFICES ASSUME CodexInv, SpawnFails PROVE CallersExpect'
  OBVIOUS
<1> USE DEF provider, lifecycle, collected
<1>1. /\ pc = "spawn"
      /\ UNCHANGED << termination, lifecycle, collected >>
  BY DEF SpawnFails, BeforeCollection
<1>2. /\ invocation' = "spawn_attempted" /\ cleanup' = "not_applicable" /\ code' = "none"
      /\ offset = 0 /\ parser = NewParser /\ Sound(parser)
      /\ termination' = NoTermination
  <2>1. invocation = "spawn_attempted" /\ cleanup = "not_applicable"
    BY <1>1 DEF CodexInv, Lifecycle
  <2>2. /\ code = "none" /\ offset = 0 /\ parser = NewParser /\ termination = NoTermination
    BY <1>1 DEF CodexInv, Fresh, PreMark
  <2> QED BY <1>1, <2>1, <2>2, NewParserSound
<1>3. PICK kind \in SpawnKinds :
        ReturnEvidence(Evidence(kind, "provider_process_spawn", parser, FALSE), FALSE)
  BY DEF SpawnFails
<1>4. PICK e : e = Evidence(kind, "provider_process_spawn", parser, FALSE)
  OBVIOUS
<1>5. /\ e.kind = kind /\ e.stage = "provider_process_spawn" /\ e.runner = "started"
      /\ e.invocation = "spawn_attempted" /\ e.execution = ExecutionStage("spawn_attempted")
      /\ e.cleared = TRUE
  BY <1>2, <1>4 DEF Evidence, NoTermination
<1>6. kind # "process_cleanup_error"
  BY DEF SpawnKinds
<1>7. Accepted(e)
  BY <1>2, <1>4, <1>6, BuiltAccepted
<1>8. /\ e.stage \in Results!ResultStages /\ e.stage \notin PreSpawnStages
      /\ e.stage # "provider_pipe_selector_initialization" /\ e.invocation \in Invocations
  BY <1>5 DEF Results!ResultStages, PreSpawnStages, Invocations
<1> QED BY <1>3, <1>4, <1>5, <1>6, <1>7, <1>8, ReturnExpected

(* A termination: only the one after failed pipes ends the run.            *)
LEMMA TerminatedExpected ==
  ASSUME CodexInv, CallersExpect, NEW cleared \in BOOLEAN, pc \in {"inspect", "wait"},
         Terminated(cleared)
  PROVE  CallersExpect'
<1> USE DEF collected, lifecycle, ended
<1>1. PICK kind : kind = IF cleared THEN "evidence_error" ELSE "process_cleanup_error"
  OBVIOUS
<1>2. /\ loop \in {"terminate", "except", "pipes_failed", "emergency"} /\ Tracked
      /\ cleanup' = IF loop \notin {"pipes_failed", "emergency"} THEN cleanup
                    ELSE IF cleared THEN "cleared" ELSE "failed"
      /\ termination' = [termination EXCEPT !.cleared = cleared]
      /\ UNCHANGED << parser, invocation >>
  BY DEF Terminated, CodexInv, Places, Lifecycle, PreMark, Final
<1>3. \/ UNCHANGED ended
      \/ /\ loop = "pipes_failed"
         /\ ReturnEvidence(Evidence(kind, "provider_pipe_selector_initialization", parser,
                                    FALSE), FALSE)
  BY <1>1, <1>2 DEF Terminated
<1>4. CASE UNCHANGED ended
  BY <1>4 DEF CallersExpect, ErrorIsExpected, IsResult, SameLifecycle, TrackerLeft
<1>5. CASE /\ loop = "pipes_failed"
           /\ ReturnEvidence(Evidence(kind, "provider_pipe_selector_initialization", parser,
                                      FALSE), FALSE)
  <2>1. IsTermination(termination') /\ termination'.cleared = cleared
    BY <1>2 DEF CodexInv, Typed, IsTermination
  <2>2. PICK e : e = Evidence(kind, "provider_pipe_selector_initialization", parser, FALSE)
    OBVIOUS
  <2>3. /\ e.kind = kind /\ e.stage = "provider_pipe_selector_initialization"
        /\ e.runner = "started" /\ e.invocation = "process_started"
        /\ e.execution = ExecutionStage("process_started") /\ e.cleared = cleared
    BY <1>2, <2>1, <2>2 DEF Evidence, Tracked
  <2>4. kind \in HarnessKinds /\ (kind = "process_cleanup_error" <=> ~ cleared)
    BY <1>1 DEF HarnessKinds
  <2>5. Accepted(e)
    <3>1. /\ invocation' = "process_started" /\ Sound(parser)
          /\ cleanup' = IF termination'.cleared THEN "cleared" ELSE "failed"
      BY <1>2, <1>5, <2>1 DEF Tracked, CodexInv, Typed
    <3>2. "provider_pipe_selector_initialization" \in PostSpawnStages
      BY DEF PostSpawnStages
    <3> QED BY <2>1, <2>2, <2>4, <3>1, <3>2, BuiltAccepted
  <2>6. /\ e.stage \in Results!ResultStages /\ e.stage \notin PreSpawnStages
        /\ e.invocation \in Invocations
    BY <2>3 DEF Results!ResultStages, Results!PostSpawnStages, PreSpawnStages, Invocations
  <2>7. e.cleared = (e.kind # "process_cleanup_error")
    BY <2>3, <2>4
  <2> QED BY <1>5, <2>2, <2>3, <2>4, <2>5, <2>6, <2>7, ReturnExpected
<1> QED BY <1>3, <1>4, <1>5

(* The verdict: while the group remains the evidence is a cleanup error,   *)
(* which the contract accepts, so only a cleared one can be refused.       *)
LEMMA JudgeExpected == CodexInv /\ Judge => CallersExpect'
<1> SUFFICES ASSUME CodexInv, Judge PROVE CallersExpect'
  OBVIOUS
<1>1. PICK fin : fin = IF protocol = "none" THEN Finish(parser)
                       ELSE [parser |-> parser, raised |-> "none", buffered |-> FALSE]
  OBVIOUS
<1>2. PICK summary : summary = IF fin.raised = "none" THEN fin.parser ELSE parser
  OBVIOUS
<1>3. PICK kind : kind = Classify(summary.terminal = "turn_failed", fin)
  OBVIOUS
<1>4. PICK limit : limit = ("output_limit" = protocol \/ failure = "provider_output_limit")
  OBVIOUS
<1>5. PICK stage : stage = IF kind = "none" THEN "none" ELSE "provider_process_collection"
  OBVIOUS
<1>6. PICK e : e = Evidence(kind, stage, summary, limit)
  OBVIOUS
<1>7. /\ pc = "judge" /\ UNCHANGED << termination, invocation, code, offset >>
      /\ cleanup' = IF termination.cleared THEN "cleared" ELSE "failed"
  BY DEF Judge
<1>8. \/ RaiseRunnerError("provider_process_collection", FALSE)
      \/ ReturnEvidence(e, limit)
  BY <1>1, <1>2, <1>3, <1>4, <1>5, <1>6 DEF Judge
<1>9. /\ invocation' = "process_started" /\ IsTermination(termination')
      /\ termination'.cleared = termination.cleared
      /\ cleanup' = IF termination'.cleared THEN "cleared" ELSE "failed"
  BY <1>7 DEF CodexInv, Lifecycle, Typed, Tracked, PreMark, Final
<1>10. CASE RaiseRunnerError("provider_process_collection", FALSE)
  <2>1. "provider_process_collection" # HandoffStage
    BY DEF HandoffStage
  <2> QED BY <1>9, <1>10, <2>1, RunnerErrorExpected
<1>11. CASE ReturnEvidence(e, limit)
  <2>1. /\ e.kind = kind /\ e.stage = stage /\ e.runner = "started"
        /\ e.invocation = "process_started" /\ e.execution = ExecutionStage("process_started")
        /\ e.cleared = termination'.cleared
    BY <1>6, <1>9 DEF Evidence
  <2>2. PICK reason : \/ termination' = [reason |-> reason, cleared |-> TRUE]
                      \/ termination' = [reason |-> reason, cleared |-> FALSE]
    BY <1>9 DEF IsTermination
  <2>3. Sound(summary)
    <3>1. Sound(parser)
      BY DEF CodexInv, Typed
    <3>2. CASE protocol = "none"
      BY <1>1, <1>2, <3>1, <3>2, FinishSound
    <3>3. CASE protocol # "none"
      BY <1>1, <1>2, <3>1, <3>3
    <3> QED BY <3>2, <3>3
  <2>4. CASE termination'.cleared = FALSE
    <3>1. kind = "process_cleanup_error" /\ stage = "provider_process_collection"
      BY <1>3, <1>5, <1>9, <2>4 DEF Classify
    <3>2. Accepted(e)
      <4>1. stage \in PostSpawnStages /\ kind \in HarnessKinds
        BY <3>1 DEF PostSpawnStages, HarnessKinds
      <4> QED BY <1>6, <1>9, <2>3, <2>4, <4>1, BuiltAccepted
    <3>3. /\ e.stage \in Results!ResultStages /\ e.stage \notin PreSpawnStages
          /\ e.stage # "provider_pipe_selector_initialization" /\ e.invocation \in Invocations
      BY <2>1, <3>1 DEF Results!ResultStages, Results!PostSpawnStages, PreSpawnStages,
         Invocations
    <3>4. e.cleared = (e.kind # "process_cleanup_error")
      BY <2>1, <2>4, <3>1
    <3> QED BY <1>11, <2>1, <3>2, <3>3, <3>4, ReturnExpected
  <2>5. CASE termination'.cleared = TRUE
    <3>1. kind # "process_cleanup_error" \/ ~ Accepted(e)
      BY <2>1, <2>5 DEF Accepted, KindAgrees
    <3>2. CASE kind # "process_cleanup_error"
      <4>1. /\ e.stage \in Results!ResultStages /\ e.stage \notin PreSpawnStages
            /\ e.stage # "provider_pipe_selector_initialization"
            /\ e.invocation \in Invocations
        BY <1>5, <2>1 DEF Results!ResultStages, Results!PostSpawnStages, PreSpawnStages,
           Invocations
      <4>2. e.cleared = (e.kind # "process_cleanup_error")
        BY <2>1, <2>5, <3>2
      <4>3. cleanup' = "cleared"
        BY <1>9, <2>5
      <4>4. termination'.cleared
        BY <2>5
      <4>5. e.execution = ExecutionStage(e.invocation)
        BY <2>1
      <4>6. (e.stage \in PreSpawnStages => e.invocation = "not_attempted")
            /\ (e.kind = "process_cleanup_error" => e.invocation = "process_started")
        BY <2>1, <4>1
      <4>7. e.stage = "provider_pipe_selector_initialization" => e.kind \in HarnessKinds
        BY <4>1
      <4>8. e.runner = "started"
        BY <2>1
      <4> QED BY <1>9, <1>11, <4>1, <4>2, <4>3, <4>4, <4>5, <4>6, <4>7, <4>8, ReturnExpected
    <3>3. CASE ~ Accepted(e)
      <4>1. RaiseRunnerError(HandoffStage, limit)
        BY <1>11, <3>3 DEF ReturnEvidence
      <4>2. termination'.cleared
        BY <2>5
      <4> QED BY <1>9, <4>1, <4>2, RunnerErrorExpected
    <3> QED BY <3>1, <3>2, <3>3
  <2>6. termination'.cleared = TRUE \/ termination'.cleared = FALSE
    BY <2>2
  <2> QED BY <2>4, <2>5, <2>6
<1> QED BY <1>8, <1>10, <1>11

(* No other step touches the outcome.                                      *)
LEMMA NextExpected == CodexInv /\ CallersExpect /\ [Next]_vars => CallersExpect'
<1> SUFFICES ASSUME CodexInv, CallersExpect, [Next]_vars PROVE CallersExpect'
  OBVIOUS
<1>1. ASSUME UNCHANGED ended PROVE CallersExpect'
  BY <1>1 DEF ended, CallersExpect, ErrorIsExpected, IsResult, SameLifecycle, TrackerLeft
<1>2. CASE ProviderStep
  BY <1>1, <1>2 DEF ProviderStep, Emit, CloseInput, ForkChild, ChildMoves, EndParent,
     RunnerUnchanged
<1>3. CASE Prepare \/ Spawn \/ MarkProcessStarted \/ OpenPipes \/ PipesFail
  BY <1>1, <1>3 DEF Prepare, Spawn, MarkProcessStarted, OpenPipes, PipesFail
<1>4. CASE DrainStep \/ ReadFails \/ SelectFails
  BY <1>1, <1>4 DEF DrainStep, Select, WriteStdin, StdinBreaks, ReadStdout, StdoutEnds, EndDrain,
     ReadFails, SelectFails, InHandle
<1>5. CASE CheckCollection \/ SignalGroup \/ DrainInTermination \/ InspectionFails
  BY <1>1, <1>5 DEF CheckCollection, SignalGroup, DrainInTermination, InspectionFails
<1>6. CASE After \/ DirectWait \/ CheckOutput \/ CloseStreams \/ CloseFails \/ CollectionRaises
  BY <1>1, <1>6 DEF After, DirectWait, CheckOutput, CloseStreams, CloseFails, CollectionRaises
<1>7. CASE PassDeadline \/ Interrupt \/ Done \/ UNCHANGED vars
  BY <1>1, <1>7 DEF PassDeadline, Interrupt, Interrupted, Done, vars
<1>8. CASE GroupCleared \/ GroupRemains \/ GroupCallFails
  <2>1. pc \in {"inspect", "wait"} /\ (Terminated(TRUE) \/ Terminated(FALSE))
    BY <1>8 DEF GroupCleared, GroupRemains, GroupCallFails
  <2> QED BY <2>1, TerminatedExpected
<1>9. CASE PrepareFails \/ SpawnFails \/ Judge
  BY <1>9, PrepareFailsExpected, SpawnFailsExpected, JudgeExpected
<1> QED
  BY <1>2, <1>3, <1>4, <1>5, <1>6, <1>7, <1>8, <1>9 DEF Next, RunnerStep, RunnerFault

(* Whatever the runner gives back, evidence, CodexRunnerError or the       *)
(* report of an unsupported platform, is one of the ends that the models   *)
(* of its two callers go through, and the record that                      *)
(* lifecycle_failure_evidence makes of the tracker tells the same.         *)
THEOREM ResultsAreExpected == Spec => []CallersExpect
<1>1. Init => CallersExpect
  BY DEF Init, CallersExpect
<1>2. CodexInv /\ CallersExpect /\ [Next]_vars => CallersExpect'
  BY NextExpected
<1> QED BY <1>1, <1>2, CodexInvHolds, PTL DEF Spec
-----------------------------------------------------------------------------
(* When the contract refuses what the runner has built. The classification *)
(* and the contract were written apart; they agree but for one case, a     *)
(* timeout that is stale because an unknown exception fell into its        *)
(* termination.                                                            *)

(* What the operating system returns for an ended process.                 *)
CodeKnown == Exited => exitCode \in Codes \ {"none"}

(* The termination of a timed-out process keeps its reason until an        *)
(* exception or Ctrl-C starts another.                                     *)
TimeoutReason ==
  pc \notin Final /\ timedOut /\ loop \in {"terminate", "output"} =>
    termination.reason = "timeout"

(* The handler reports a failed cleanup only of its own termination.       *)
CleanupFailure ==
  pc \notin Final /\ failure = "process_cleanup_error" /\ loop # "emergency" =>
    pc \in {"close", "judge"} /\ ~ termination.cleared

OnlyStaleTimeoutIsRefused ==
  pc = "ended" /\ outcome = "runner_error" /\ evidence.stage = HandoffStage =>
    timedOut /\ raised

Refusals == CodeKnown /\ TimeoutReason /\ CleanupFailure /\ OnlyStaleTimeoutIsRefused

(* Evidence of a started process is accepted if it is right about its kind. *)
LEMMA KindDecides ==
  ASSUME NEW kind, NEW p, NEW limit, NEW e, Sound(p),
         e = Evidence(kind, IF kind = "none" THEN "none" ELSE "provider_process_collection",
                      p, limit),
         invocation' = "process_started",
         cleanup' = IF termination'.cleared THEN "cleared" ELSE "failed", KindAgrees(e)
  PROVE  Accepted(e)
<1>1. PICK stage : stage = IF kind = "none" THEN "none" ELSE "provider_process_collection"
  OBVIOUS
<1>2. /\ e.kind = kind /\ e.stage = stage /\ e.runner = "started"
      /\ e.execution = ExecutionStage("process_started")
      /\ e.invocation = "process_started" /\ e.cleanup = cleanup'
      /\ e.terminal = p.terminal /\ e.errors = p.errors /\ e.cleared = termination'.cleared
  BY <1>1 DEF Evidence
<1>3. StageAgrees(e)
  BY <1>1, <1>2 DEF StageAgrees, HandoffStage, HandoffStages, OrchestrationStages,
     RunnerStages, PreSpawnStages
<1>4. LifecycleAgrees(e)
  <2>1. e.cleanup = IF e.cleared THEN "cleared" ELSE "failed"
    BY <1>2
  <2> QED BY <1>1, <1>2, <2>1 DEF LifecycleAgrees, OrchestrationStages, RunnerStages,
       PreSpawnStages, PostSpawnStages, ExecutionStage
<1>5. e.terminal = "turn_completed" => e.errors = 0
  BY <1>2 DEF Sound
<1> QED BY <1>3, <1>4, <1>5 DEF Accepted

(* The kind that Classify chooses is one the rest of the evidence bears    *)
(* out, unless the timeout is stale.                                       *)
LEMMA ClassifiedKindAgrees ==
  ASSUME CodexInv, Refusals, Judge, ~ (timedOut /\ raised), NEW fin, NEW summary, NEW kind,
         NEW limit, NEW e,
         fin = IF protocol = "none" THEN Finish(parser)
               ELSE [parser |-> parser, raised |-> "none", buffered |-> FALSE],
         fin.raised # "exception",
         summary = IF fin.raised = "none" THEN fin.parser ELSE parser,
         kind = Classify(summary.terminal = "turn_failed", fin),
         limit = ("output_limit" = protocol \/ failure = "provider_output_limit"),
         e = Evidence(kind, IF kind = "none" THEN "none" ELSE "provider_process_collection",
                      summary, limit)
  PROVE  KindAgrees(e) /\ Sound(summary)
<1>1. /\ pc = "judge" /\ UNCHANGED << termination, invocation, code, offset >>
  BY DEF Judge
<1>2. /\ invocation' = "process_started" /\ failure \in Failures
      /\ termination'.reason = termination.reason /\ termination'.cleared = termination.cleared
      /\ loop \in {"output", "except"} /\ pc \notin Final
  BY <1>1 DEF CodexInv, Lifecycle, Typed, Tracked, Places, PreMark, Final
<1>3. /\ e.kind = kind /\ e.invocation = "process_started" /\ e.stdin = StdinState
      /\ e.code = code /\ e.events = summary.events /\ e.threads = summary.threads
      /\ e.turns = summary.turns /\ e.errors = summary.errors /\ e.terminal = summary.terminal
      /\ e.hint = (summary.terminal # "turn_completed" /\ summary.hints)
      /\ e.limit = limit /\ e.reason = termination.reason /\ e.cleared = termination.cleared
  BY <1>1, <1>2 DEF Evidence
<1>4. /\ Sound(summary)
      /\ protocol = "none" => fin.raised \in {"none"} \cup Errors
  <2>1. Sound(parser)
    BY DEF CodexInv, Typed
  <2>2. CASE protocol = "none"
    BY <2>1, <2>2, FinishSound
  <2>3. CASE protocol # "none"
    BY <2>1, <2>3
  <2> QED BY <2>2, <2>3
<1>5. kind = "process_cleanup_error" => ~ e.cleared
  <2>1. SUFFICES ASSUME kind = "process_cleanup_error", termination.cleared PROVE FALSE
    BY <1>3
  <2>2. failure = "process_cleanup_error"
    BY <2>1 DEF Classify, ProviderVerdict
  <2> QED BY <1>1, <1>2, <2>1, <2>2 DEF Refusals, CleanupFailure
<1>6. CASE kind \in {"evidence_error", "process_cleanup_error"}
  BY <1>3, <1>4, <1>5, <1>6 DEF KindAgrees, Kinds, HarnessKinds, SpawnKinds, ProviderKinds
<1>7. CASE termination.cleared /\ timedOut
  <2>1. loop = "output" /\ kind = "provider_timeout"
    BY <1>2, <1>7 DEF CodexInv, RaisedIsHandled, Classify
  <2>2. e.reason = "timeout"
    BY <1>2, <1>3, <1>7, <2>1 DEF Refusals, TimeoutReason
  <2> QED BY <1>3, <1>4, <2>1, <2>2 DEF KindAgrees, Kinds, HarnessKinds, SpawnKinds, ProviderKinds
<1>8. CASE /\ termination.cleared /\ ~ timedOut
           /\ failure \in {"provider_input_error", "provider_output_limit",
                           "provider_protocol_error"}
  <2>1. kind = failure
    BY <1>8 DEF Classify
  <2>2. kind = "provider_output_limit" => e.limit
    BY <1>3, <2>1
  <2> QED BY <1>3, <1>4, <1>8, <2>1, <2>2
       DEF KindAgrees, Kinds, HarnessKinds, SpawnKinds, ProviderKinds
<1>9. CASE termination.cleared /\ ~ timedOut /\ failure = "none"
  <2>1. kind = ProviderVerdict(summary.terminal = "turn_failed", fin)
    BY <1>9 DEF Classify
  <2>2. loop = "output"
    BY <1>1, <1>2, <1>9 DEF CodexInv, RaisedIsHandled, HarnessKinds
  <2>3. code \in Codes \ {"none"}
    <3>1. parent = "reaped" /\ code = exitCode
      BY <1>2, <1>9, <2>2 DEF CodexInv, Collected, Finished
    <3> QED BY <3>1 DEF Refusals, CodeKnown, Exited
  <2>4. kind \in {"provider_signal_termination", "provider_turn_failed",
                  "provider_protocol_error", "provider_cli_nonzero", "provider_input_error",
                  "none"}
    BY <2>1 DEF ProviderVerdict
  <2>5. /\ kind = "provider_signal_termination" => e.code = "signal"
        /\ kind = "provider_cli_nonzero" => e.code = "positive"
    BY <1>3, <2>1, <2>3 DEF ProviderVerdict, Codes
  <2>6. kind = "provider_turn_failed" => e.terminal = "turn_failed" /\ e.hint
    <3>1. SUFFICES ASSUME kind = "provider_turn_failed"
                   PROVE  e.terminal = "turn_failed" /\ e.hint
      OBVIOUS
    <3>2. summary.terminal = "turn_failed"
      BY <2>1, <3>1 DEF ProviderVerdict
    <3> QED BY <1>3, <1>4, <3>2 DEF Sound
  <2>7. ASSUME kind = "none"
        PROVE  /\ e.code = "zero" /\ e.events >= 3
               /\ e.threads = 1 /\ e.turns = 1 /\ e.errors = 0 /\ e.terminal = "turn_completed"
               /\ ~ e.limit /\ e.cleared
               /\ e.stdin = "complete" /\ ~ e.hint
    <3>1. /\ code = "zero" /\ offset = PromptSize /\ fin.raised # "protocol_error"
          /\ summary.terminal # "turn_failed"
      BY <2>1, <2>7 DEF ProviderVerdict
    <3>2. protocol = "none"
      BY <1>9 DEF CodexInv, Parsed
    <3>3. fin = Finish(parser) /\ fin.raised = "none" /\ summary = fin.parser
      BY <1>4, <3>1, <3>2 DEF Errors
    <3>4. summary.terminal = "turn_completed"
      BY <3>1, <3>3 DEF Finish
    <3>5. /\ summary.threads = 1 /\ summary.turns = 1 /\ summary.errors = 0
          /\ summary.events >= 3
      BY <1>4, <3>4 DEF Sound, OneTurn, Parsers
    <3>6. e.stdin = "complete"
      BY <1>3, <3>1, PromptAssumption DEF StdinState
    <3>7. ~ e.hint /\ ~ e.limit /\ e.cleared
      <4>1. e.hint = FALSE
        BY <1>3, <3>4
      <4>2. limit = FALSE
        BY <1>9, <3>2
      <4> QED BY <1>3, <1>9, <4>1, <4>2
    <3> QED BY <1>3, <3>1, <3>4, <3>5, <3>6, <3>7
  <2> QED BY <1>3, <1>4, <2>4, <2>5, <2>6, <2>7
       DEF KindAgrees, Kinds, HarnessKinds, SpawnKinds, ProviderKinds
<1>10. CASE ~ termination.cleared
  <2>1. kind = "process_cleanup_error"
    BY <1>10 DEF Classify
  <2> QED BY <1>4, <1>6, <2>1
<1>11. CASE termination.cleared /\ ~ timedOut /\ failure \in HarnessKinds
  <2>1. kind = failure
    BY <1>11 DEF Classify, HarnessKinds
  <2> QED BY <1>4, <1>6, <1>11, <2>1 DEF HarnessKinds
<1> QED BY <1>2, <1>4, <1>7, <1>8, <1>9, <1>10, <1>11 DEF Failures

(* The verdict.                                                            *)
LEMMA JudgeRefusals == CodexInv /\ Refusals /\ Judge => Refusals'
<1> SUFFICES ASSUME CodexInv, Refusals, Judge PROVE Refusals'
  OBVIOUS
<1>1. PICK fin : fin = IF protocol = "none" THEN Finish(parser)
                       ELSE [parser |-> parser, raised |-> "none", buffered |-> FALSE]
  OBVIOUS
<1>2. PICK summary : summary = IF fin.raised = "none" THEN fin.parser ELSE parser
  OBVIOUS
<1>3. PICK kind : kind = Classify(summary.terminal = "turn_failed", fin)
  OBVIOUS
<1>4. PICK limit : limit = ("output_limit" = protocol \/ failure = "provider_output_limit")
  OBVIOUS
<1>5. PICK e : e = Evidence(kind, IF kind = "none" THEN "none"
                                 ELSE "provider_process_collection", summary, limit)
  OBVIOUS
<1>6. /\ pc = "judge" /\ UNCHANGED << provider, timedOut, termination, invocation >>
      /\ cleanup' = IF termination.cleared THEN "cleared" ELSE "failed"
  BY DEF Judge
<1>7. \/ RaiseRunnerError("provider_process_collection", FALSE)
      \/ fin.raised # "exception" /\ raised' = raised /\ ReturnEvidence(e, limit)
  BY <1>1, <1>2, <1>3, <1>4, <1>5 DEF Judge
<1>8. pc' = "ended"
  BY <1>7 DEF ReturnEvidence, RaiseRunnerError, Ends
<1>9. CodeKnown' /\ TimeoutReason' /\ CleanupFailure'
  BY <1>6, <1>8 DEF Refusals, CodeKnown, TimeoutReason, CleanupFailure, Exited, provider, Final
<1>10. OnlyStaleTimeoutIsRefused'
  <2>1. CASE RaiseRunnerError("provider_process_collection", FALSE)
    <3>1. evidence'.stage = "provider_process_collection"
      BY <2>1 DEF RaiseRunnerError, Ends, Evidence
    <3> QED BY <3>1 DEF OnlyStaleTimeoutIsRefused, HandoffStage
  <2>2. CASE fin.raised # "exception" /\ raised' = raised /\ ReturnEvidence(e, limit)
    <3>1. CASE timedOut /\ raised
      BY <1>6, <2>2, <3>1 DEF OnlyStaleTimeoutIsRefused
    <3>2. CASE ~ (timedOut /\ raised)
      <4>1. KindAgrees(e) /\ Sound(summary)
        BY <1>1, <1>2, <1>3, <1>4, <1>5, <2>2, <3>2, ClassifiedKindAgrees
      <4>2. /\ invocation' = "process_started"
            /\ cleanup' = IF termination'.cleared THEN "cleared" ELSE "failed"
        BY <1>6 DEF CodexInv, Lifecycle, Tracked, PreMark, Final
      <4>3. Accepted(e)
        BY <1>5, <4>1, <4>2, KindDecides
      <4>4. outcome' = "result"
        BY <2>2, <4>3 DEF ReturnEvidence, Ends
      <4> QED BY <4>4 DEF OnlyStaleTimeoutIsRefused
    <3> QED BY <3>1, <3>2
  <2> QED BY <1>7, <2>1, <2>2
<1> QED BY <1>9, <1>10 DEF Refusals

(* The ends before the collection: what is built there is accepted.        *)
LEMMA EarlyEndRefusals ==
  CodexInv /\ Refusals /\ (PrepareFails \/ SpawnFails) => Refusals'
<1> SUFFICES ASSUME CodexInv, Refusals, PrepareFails \/ SpawnFails PROVE Refusals'
  OBVIOUS
<1> USE DEF provider, lifecycle, collected
<1>1. UNCHANGED << provider, termination, lifecycle, collected >>
  BY DEF PrepareFails, SpawnFails, BeforeCollection
<1>2. /\ cleanup' = "not_applicable" /\ code' = "none" /\ offset = 0 /\ parser = NewParser
      /\ Sound(parser) /\ termination' = NoTermination
  <2>1. pc \in {"start", "spawn"}
    BY DEF PrepareFails, SpawnFails
  <2>2. cleanup = "not_applicable"
    BY <2>1 DEF CodexInv, Lifecycle
  <2>3. code = "none" /\ offset = 0 /\ parser = NewParser /\ termination = NoTermination
    BY <2>1 DEF CodexInv, Fresh, PreMark
  <2> QED BY <1>1, <2>2, <2>3, NewParserSound
<1>3. pc' = "ended" /\ outcome' # "runner_error"
  <2>1. CASE PrepareFails
    <3>1. invocation' = "not_attempted"
      BY <1>1, <2>1 DEF PrepareFails, CodexInv, Lifecycle
    <3>2. ASSUME NEW stage \in PreSpawnStages \ {"provider_runtime_precheck"},
                 ReturnEvidence(Evidence("evidence_error", stage, parser, FALSE), FALSE)
          PROVE  pc' = "ended" /\ outcome' # "runner_error"
      <4>1. Accepted(Evidence("evidence_error", stage, parser, FALSE))
        BY <1>2, <3>1, BuiltAccepted
      <4> QED BY <3>2, <4>1 DEF ReturnEvidence, Ends
    <3>3. ASSUME Ends("unsupported", Evidence("unsupported_platform",
                                              "provider_runtime_precheck", parser, FALSE))
          PROVE  pc' = "ended" /\ outcome' # "runner_error"
      BY <3>3 DEF Ends
    <3> QED BY <2>1, <3>2, <3>3 DEF PrepareFails
  <2>2. CASE SpawnFails
    <3>1. PICK kind \in SpawnKinds :
            ReturnEvidence(Evidence(kind, "provider_process_spawn", parser, FALSE), FALSE)
      BY <2>2 DEF SpawnFails
    <3>2. invocation' = "spawn_attempted" /\ kind # "process_cleanup_error"
      BY <1>1, <2>2 DEF SpawnFails, CodexInv, Lifecycle, SpawnKinds
    <3>3. Accepted(Evidence(kind, "provider_process_spawn", parser, FALSE))
      BY <1>2, <3>2, BuiltAccepted
    <3> QED BY <3>1, <3>3 DEF ReturnEvidence, Ends
  <2> QED BY <2>1, <2>2
<1> QED BY <1>1, <1>3 DEF Refusals, CodeKnown, TimeoutReason, CleanupFailure,
     OnlyStaleTimeoutIsRefused, Exited, Final

(* A termination: the handler takes over whether it cleared the group.     *)
LEMMA TerminatedRefusals ==
  ASSUME CodexInv, Refusals, NEW cleared \in BOOLEAN, pc \in {"inspect", "wait"},
         Terminated(cleared)
  PROVE  Refusals'
<1> USE DEF collected, lifecycle
<1>1. PICK kind : kind = IF cleared THEN "evidence_error" ELSE "process_cleanup_error"
  OBVIOUS
<1>2. /\ loop \in {"terminate", "except", "pipes_failed", "emergency"} /\ Tracked
      /\ cleanup' = IF loop \notin {"pipes_failed", "emergency"} THEN cleanup
                    ELSE IF cleared THEN "cleared" ELSE "failed"
      /\ termination' = [termination EXCEPT !.cleared = cleared] /\ Poll
      /\ UNCHANGED << parser, invocation, loop, timedOut, raised >>
  BY DEF Terminated, CodexInv, Places, Lifecycle, PreMark, Final
<1>3. \/ loop = "terminate" /\ pc' = "after" /\ failure' = failure
      \/ loop = "except" /\ pc' = "close" /\ failure' = kind
      \/ loop = "emergency" /\ pc' = "interrupted"
      \/ /\ loop = "pipes_failed"
         /\ ReturnEvidence(Evidence(kind, "provider_pipe_selector_initialization", parser,
                                    FALSE), FALSE)
  BY <1>1, <1>2 DEF Terminated
<1>4. /\ IsTermination(termination') /\ termination'.cleared = cleared
      /\ termination'.reason = termination.reason
  BY <1>2 DEF CodexInv, Typed, IsTermination
<1>5. CodeKnown'
  BY <1>2 DEF Refusals, CodeKnown, Exited, Poll
<1>6. CASE loop # "pipes_failed"
  <2>1. /\ pc' # "ended" /\ pc \notin Final
    BY <1>3, <1>6 DEF Final
  <2>2. TimeoutReason'
    BY <1>2, <1>3, <1>4, <1>6, <2>1 DEF Refusals, TimeoutReason
  <2>3. CleanupFailure'
    BY <1>1, <1>2, <1>3, <1>4, <1>6, <2>1 DEF Refusals, CleanupFailure, Final
  <2> QED BY <1>5, <2>1, <2>2, <2>3 DEF Refusals, OnlyStaleTimeoutIsRefused
<1>7. CASE loop = "pipes_failed"
  <2>1. ReturnEvidence(Evidence(kind, "provider_pipe_selector_initialization", parser,
                                FALSE), FALSE)
    BY <1>3, <1>7
  <2>2. /\ invocation' = "process_started" /\ Sound(parser)
        /\ cleanup' = IF termination'.cleared THEN "cleared" ELSE "failed"
    BY <1>2, <1>4, <1>7 DEF Tracked, CodexInv, Typed
  <2>3. /\ "provider_pipe_selector_initialization" \in PostSpawnStages /\ kind \in HarnessKinds
        /\ kind = "process_cleanup_error" => ~ termination'.cleared
    BY <1>1, <1>4 DEF PostSpawnStages, HarnessKinds
  <2>4. Accepted(Evidence(kind, "provider_pipe_selector_initialization", parser, FALSE))
    BY <2>2, <2>3, BuiltAccepted
  <2>5. pc' = "ended" /\ outcome' = "result"
    BY <2>1, <2>4 DEF ReturnEvidence, Ends
  <2> QED BY <1>5, <2>5 DEF Refusals, TimeoutReason, CleanupFailure,
       OnlyStaleTimeoutIsRefused, Final
<1> QED BY <1>6, <1>7

(* A step of the runner that neither ends the run nor terminates: poll may *)
(* reap the parent, and reason, timeout and failure are as the locations   *)
(* allow.                                                                  *)
LEMMA ContinuesRefusals ==
  ASSUME CodexInv, Refusals, Poll \/ UNCHANGED provider \/ (Spawn /\ ~ Exited), pc' # "ended",
         pc' \in Final \/ TimeoutReason', pc' \in Final \/ CleanupFailure'
  PROVE  Refusals'
<1>1. CodeKnown'
  BY DEF Refusals, CodeKnown, Exited, Poll, Spawn, provider
<1>2. TimeoutReason' /\ CleanupFailure'
  BY DEF TimeoutReason, CleanupFailure
<1> QED BY <1>1, <1>2 DEF Refusals, OnlyStaleTimeoutIsRefused

(* Every step keeps it.                                                    *)
LEMMA NextRefusals == CodexInv /\ Refusals /\ [Next]_vars => Refusals'
<1> SUFFICES ASSUME CodexInv, Refusals, [Next]_vars PROVE Refusals'
  OBVIOUS
<1> USE DEF collected, lifecycle
<1>1. CASE ProviderStep
  <2>1. /\ UNCHANGED << pc, timedOut, loop, termination, failure, outcome, evidence, raised >>
    BY <1>1 DEF ProviderStep, Emit, CloseInput, ForkChild, ChildMoves, EndParent,
       RunnerUnchanged, ended
  <2>2. CodeKnown'
    BY <1>1 DEF Refusals, CodeKnown, Exited, Codes, ProviderStep, Emit, CloseInput, ForkChild,
       ChildMoves, EndParent
  <2> QED BY <2>1, <2>2 DEF Refusals, TimeoutReason, CleanupFailure, OnlyStaleTimeoutIsRefused,
       Final
<1>2. CASE UNCHANGED vars \/ Done
  BY <1>2 DEF Done, vars, provider, ended, Refusals, CodeKnown, Exited, TimeoutReason,
     CleanupFailure, OnlyStaleTimeoutIsRefused, Final
<1>3. CASE Prepare \/ Spawn \/ MarkProcessStarted \/ OpenPipes \/ PipesFail
  <2>1. /\ ~ timedOut' /\ failure' = "none" /\ pc' # "ended"
    BY <1>3 DEF Prepare, Spawn, MarkProcessStarted, OpenPipes, PipesFail, BeforeCollection,
       StartTermination, CodexInv, Fresh, PreMark
  <2>2. UNCHANGED provider \/ (Spawn /\ ~ Exited)
    BY <1>3 DEF Prepare, Spawn, MarkProcessStarted, OpenPipes, PipesFail, CodexInv, Lifecycle,
       Exited, Final
  <2> QED BY <2>1, <2>2, ContinuesRefusals DEF TimeoutReason, CleanupFailure
<1>4. CASE DrainStep \/ ReadFails \/ SelectFails
  <2>1. /\ pc \in {"select", "handle"} /\ loop \in TryLoops /\ UNCHANGED << provider, timedOut >>
        /\ pc \notin Final
    BY <1>4 DEF DrainStep, Select, WriteStdin, StdinBreaks, ReadStdout, StdoutEnds, EndDrain,
       ReadFails, SelectFails, InHandle, CodexInv, Places, Final
  <2>2. failure # "process_cleanup_error"
    BY <2>1 DEF Refusals, CleanupFailure, TryLoops
  <2>3. pc' # "ended" /\ failure' # "process_cleanup_error"
    BY <1>4, <2>2 DEF DrainStep, Select, WriteStdin, StdinBreaks, ReadStdout, StdoutEnds,
       EndDrain, ReadFails, SelectFails, InHandle, StaysInHandle, StartTermination, Fail
  <2>4. (loop' = loop /\ termination' = termination) \/ loop' = "except"
    BY <1>4 DEF DrainStep, Select, WriteStdin, StdinBreaks, ReadStdout, StdoutEnds,
       EndDrain, ReadFails, SelectFails, InHandle, StaysInHandle, StartTermination
  <2>5. TimeoutReason'
    BY <2>1, <2>4 DEF Refusals, TimeoutReason
  <2> QED BY <2>1, <2>3, <2>5, ContinuesRefusals DEF CleanupFailure
<1>5. CASE CheckCollection \/ InspectionFails
  <2>1. /\ pc = "check" /\ loop = "collect" /\ ~ timedOut /\ failure # "process_cleanup_error"
        /\ Poll /\ failure' = failure
    BY <1>5 DEF CheckCollection, InspectionFails, CodexInv, Collected, Refusals, CleanupFailure,
       Final
  <2>2. pc' # "ended" /\ (timedOut' => termination'.reason = "timeout")
    BY <1>5, <2>1 DEF CheckCollection, InspectionFails, StartTermination, NoTermination
  <2> QED BY <2>1, <2>2, ContinuesRefusals DEF TimeoutReason, CleanupFailure
<1>6. CASE SignalGroup \/ DrainInTermination
  <2>1. /\ pc \notin Final /\ pc \notin {"close", "judge"} /\ pc' # "ended"
        /\ UNCHANGED << provider, timedOut, loop, termination, failure >>
    BY <1>6 DEF SignalGroup, DrainInTermination, Final
  <2> QED BY <2>1, ContinuesRefusals DEF Refusals, TimeoutReason, CleanupFailure
<1>7. CASE After \/ CheckOutput
  <2>1. /\ pc \notin Final /\ pc \notin {"close", "judge"} /\ pc' # "ended"
        /\ Poll \/ UNCHANGED provider
        /\ UNCHANGED << timedOut, termination >> /\ loop # "emergency"
        /\ loop' \in {loop, "output"}
        /\ failure' = failure \/ failure' = "evidence_error"
    BY <1>7 DEF After, CheckOutput, StartOutput, Fail, CodexInv, Places, Final
  <2>2. failure # "process_cleanup_error"
    BY <2>1 DEF Refusals, CleanupFailure
  <2>3. timedOut => loop \in {"terminate", "output"}
    BY <1>7, <2>1 DEF After, CheckOutput, CodexInv, Places, Collected
  <2> QED BY <2>1, <2>2, <2>3, ContinuesRefusals DEF Refusals, TimeoutReason, CleanupFailure
<1>8. CASE DirectWait
  <2>1. /\ pc = "direct" /\ loop = "terminate" /\ pc' # "ended" /\ Poll
        /\ UNCHANGED << timedOut, failure >>
        /\ termination.reason = "timeout" => termination'.reason = "timeout"
    BY <1>8 DEF DirectWait, StartOutput, CodexInv, Places
  <2>2. failure # "process_cleanup_error"
    BY <2>1 DEF Refusals, CleanupFailure, Final
  <2> QED BY <2>1, <2>2, ContinuesRefusals DEF Refusals, TimeoutReason, CleanupFailure, Final
<1>9. CASE CloseStreams \/ CloseFails
  <2>1. /\ pc = "close" /\ pc' = "judge" /\ UNCHANGED << provider, timedOut, loop, termination >>
        /\ failure' = failure \/ failure' = "evidence_error"
    BY <1>9 DEF CloseStreams, CloseFails, Fail
  <2> QED BY <2>1, ContinuesRefusals DEF Refusals, TimeoutReason, CleanupFailure, Final
<1>10. CASE CollectionRaises
  <2>1. /\ pc \in Collecting /\ loop \in TryLoops /\ loop' = "except" /\ pc' # "ended"
        /\ UNCHANGED << provider, failure >>
    BY <1>10 DEF CollectionRaises, StartTermination
  <2>2. failure # "process_cleanup_error"
    BY <2>1 DEF Refusals, CleanupFailure, Collecting, TryLoops, Final
  <2> QED BY <2>1, <2>2, ContinuesRefusals DEF TimeoutReason, CleanupFailure
<1>11. CASE PassDeadline
  <2>1. /\ pc' # "ended" /\ UNCHANGED << provider, pc, timedOut, loop, termination, failure >>
    BY <1>11 DEF PassDeadline, Waiting
  <2> QED BY <2>1, ContinuesRefusals DEF Refusals, TimeoutReason, CleanupFailure, Final
<1>12. CASE Interrupt
  <2>1. /\ pc' # "ended" /\ UNCHANGED provider
        /\ pc' \in Final \/ loop' = "emergency"
    BY <1>12 DEF Interrupt, Interrupted, StartTermination, Final
  <2> QED BY <2>1, ContinuesRefusals DEF TimeoutReason, CleanupFailure
<1>13. CASE GroupCleared \/ GroupRemains \/ GroupCallFails
  <2>1. pc \in {"inspect", "wait"} /\ (Terminated(TRUE) \/ Terminated(FALSE))
    BY <1>13 DEF GroupCleared, GroupRemains, GroupCallFails
  <2> QED BY <2>1, TerminatedRefusals
<1>14. CASE PrepareFails \/ SpawnFails \/ Judge
  BY <1>14, EarlyEndRefusals, JudgeRefusals
<1> QED
  BY <1>1, <1>2, <1>3, <1>4, <1>5, <1>6, <1>7, <1>8, <1>9, <1>10, <1>11, <1>12, <1>13, <1>14
     DEF Next, RunnerStep, RunnerFault

(* The evidence a run builds is refused by its own contract only when an   *)
(* unknown exception fell into the run after its timeout: every other kind *)
(* that _run assigns is borne out by the rest of the evidence.             *)
THEOREM RefusalIsStaleTimeout == Spec => []OnlyStaleTimeoutIsRefused
<1>1. Init => Refusals
  BY DEF Init, Refusals, CodeKnown, TimeoutReason, CleanupFailure, OnlyStaleTimeoutIsRefused,
     Exited
<1>2. CodexInv /\ Refusals /\ [Next]_vars => Refusals'
  BY NextRefusals
<1>3. Refusals => OnlyStaleTimeoutIsRefused
  BY DEF Refusals
<1> QED BY <1>1, <1>2, <1>3, CodexInvHolds, PTL DEF Spec
=============================================================================
