------------------------ MODULE WorkflowCampaignProofs ------------------------
(***************************************************************************)
(* Proofs about WorkflowCampaign for every Plan length and every bound on  *)
(* invocations and signals: type correctness, the write-ahead rule and the *)
(* absence of retries, that signals are never swallowed and the stop       *)
(* conditions honoured, that the scheduler implements CampaignJournal, and *)
(* that the files it leaves are accepted and true.                         *)
(***************************************************************************)
EXTENDS ReportedCampaign, FiniteSetTheorems, TLAPS

(* Inside the loop body the current run exists.                            *)
InRun == Executing \cup (Bookkeeping \ {"check"})
IndexInPlan == pc \in InRun => index <= RunCount

(* The scheduler holds the outcome of a finished executor wherever it      *)
(* records or judges it.                                                   *)
Recording == {"account", "append_terminal", "bump_terminal", "stop_check"}
ExecutionKnown ==
  pc \in Recording \/ (pc = "cleanup" /\ caught = "nothing")
    => execution.outcome \in ExecutionOutcomes

(* The file names no run the loop has not reached.                         *)
Unreached(r) ==
  IF pc \in {"check", "append_started"} THEN r >= index ELSE r > index
NothingAhead ==
  pc \in {"check"} \cup InRun => \A r \in Runs : Unreached(r) => ~StartedIn(log, r)

(* The run being executed has its line, and its Provider is still          *)
(* uncalled as long as the executor has not recorded the invocation.       *)
CurrentAnnounced ==
  pc \in InRun \ {"append_started"} => StartedIn(log, index)
CurrentUncalled ==
  pc \in {"bump_started", "adapter"} \/ (pc = "live" /\ stage = "not_attempted")
    => called[index] = 0

IInv ==
  /\ TypeOK
  /\ IndexInPlan
  /\ ExecutionKnown
  /\ NothingAhead
  /\ CurrentAnnounced
  /\ CurrentUncalled
  /\ WriteAhead
  /\ NoRetry

-----------------------------------------------------------------------------
(* The file operations.                                                    *)

(* An append adds one line and announces a run only if that line does.     *)
LEMMA AppendStartedIn ==
  ASSUME NEW f \in Seq(Lines), NEW e \in Lines, NEW r \in Runs
  PROVE  /\ Append(f, e) \in Seq(Lines)
         /\ StartedIn(Append(f, e), r) <=> StartedIn(f, r) \/ IsStarted(e, r)
<1> DEFINE g == Append(f, e)
<1>1. g \in Seq(Lines) /\ Len(f) \in Nat /\ Len(g) = Len(f) + 1
      /\ g[Len(f) + 1] = e /\ \A i \in 1 .. Len(f) : g[i] = f[i]
  OBVIOUS
<1>2. DOMAIN f = 1 .. Len(f) /\ DOMAIN g = 1 .. Len(f) + 1
  BY <1>1
<1>3. ASSUME StartedIn(g, r) PROVE StartedIn(f, r) \/ IsStarted(e, r)
  <2>1. PICK i \in DOMAIN g : IsStarted(g[i], r)
    BY <1>3 DEF StartedIn
  <2>2. CASE i = Len(f) + 1
    BY <2>1, <2>2, <1>1
  <2>3. CASE i \in DOMAIN f
    BY <2>1, <2>3, <1>1, <1>2 DEF StartedIn
  <2> QED
    BY <2>2, <2>3, <1>1, <1>2
<1>4. ASSUME StartedIn(f, r) PROVE StartedIn(g, r)
  <2>1. PICK i \in DOMAIN f : IsStarted(f[i], r)
    BY <1>4 DEF StartedIn
  <2>2. i \in DOMAIN g /\ g[i] = f[i]
    BY <1>1, <1>2
  <2> QED
    BY <2>1, <2>2 DEF StartedIn
<1>5. ASSUME IsStarted(e, r) PROVE StartedIn(g, r)
  <2>1. Len(f) + 1 \in DOMAIN g /\ g[Len(f) + 1] = e
    BY <1>1, <1>2
  <2> QED
    BY <2>1, <1>5 DEF StartedIn
<1> QED
  BY <1>1, <1>3, <1>4, <1>5

(* The line every appending statement writes is a well-typed event, and    *)
(* only append_started announces a run: the current one.                   *)
LEMMA NextEventTyped ==
  ASSUME TypeOK, IndexInPlan, ExecutionKnown, pc \in Appending
  PROVE  /\ NextEvent \in Lines
         /\ \A r \in Runs :
              IsStarted(NextEvent, r) <=> pc = "append_started" /\ r = index
<1> USE DEF TypeOK, Lines, RunEvents, FinishedEvents, RunEvent, CampaignFinished,
            Statuses, CleanupStates, CallCounts, Outcomes, ExecutionOutcomes,
            IsStarted, Runs
<1>1. CASE pc = "append_started"
  <2>1. index \in Runs
    BY <1>1, RunCountAssumption DEF IndexInPlan, InRun, Bookkeeping
  <2>2. NextEvent = RunEvent(sequence, index, "started", "none", "none", Unknown,
                             "not_applicable")
    BY <1>1 DEF NextEvent, Tails
  <2> QED
    BY <1>1, <2>1, <2>2 DEF StopReasons
<1>2. CASE pc = "append_terminal"
  <2>1. index \in Runs /\ execution.outcome \in ExecutionOutcomes
        /\ execution.calls \in CallCounts /\ execution.cleanup \in CleanupStates
    BY <1>2, RunCountAssumption
    DEF IndexInPlan, InRun, Bookkeeping, ExecutionKnown, Recording, Executions
  <2>2. NextEvent = RunEvent(sequence, index, StatusOf(execution.outcome),
                             execution.outcome, "none", execution.calls, execution.cleanup)
    BY <1>2 DEF NextEvent, Tails
  <2>3. StatusOf(execution.outcome) \in {"completed", "failed"}
    BY DEF StatusOf
  <2> QED
    BY <1>2, <2>1, <2>2, <2>3 DEF StopReasons
<1>3. CASE pc = "append_interrupted"
  <2>1. index \in Runs
    BY <1>3, RunCountAssumption DEF IndexInPlan, InRun, Bookkeeping
  <2>2. NextEvent = RunEvent(sequence, index, "interrupted", "human_interruption",
                             "human_interruption", Unknown, "not_applicable")
    BY <1>3 DEF NextEvent, Tails
  <2> QED
    BY <1>3, <2>1, <2>2 DEF StopReasons
<1>4. CASE pc \in Tails /\ WritesNotRun
  <2>1. index \in Runs /\ ClosingReason \in StopReasons
    BY <1>4, RunCountAssumption DEF WritesNotRun, ClosingReason, StopReasons
  <2>2. NextEvent = RunEvent(sequence, index, "not_run", "stop_condition",
                             ClosingReason, 0, "not_applicable")
    BY <1>4 DEF NextEvent, Tails
  <2> QED
    BY <1>4, <2>1, <2>2 DEF Tails
<1>5. CASE pc \in Tails /\ ~WritesNotRun
  <2>1. ClosingReason \in StopReasons
    BY <1>5 DEF ClosingReason, StopReasons
  <2>2. NextEvent = CampaignFinished(sequence, ClosingReason, attempted, providerCalls,
                                     unknownCallRuns)
    BY <1>5 DEF NextEvent, Tails
  <2> QED
    BY <1>5, <2>1, <2>2 DEF Tails
<1> QED
  BY <1>1, <1>2, <1>3, <1>4, <1>5 DEF Appending, Tails

(* Appending the next event keeps the file well typed.                     *)
LEMMA AppendTyped ==
  ASSUME TypeOK, IndexInPlan, ExecutionKnown, pc \in Appending
  PROVE  /\ Append(log, NextEvent) \in Seq(Lines)
         /\ Append(log, TornLine) \in Seq(Lines)
<1>1. NextEvent \in Lines /\ TornLine \in Lines /\ log \in Seq(Lines)
  BY NextEventTyped DEF Lines, TypeOK
<1> QED
  BY <1>1

-----------------------------------------------------------------------------
(* Types.                                                                  *)

TypeInv == TypeOK /\ IndexInPlan /\ ExecutionKnown

(* The executions the program builds are well typed.                       *)
LEMMA ExecutionTypes ==
  /\ NoExecution \in Executions
  /\ HarnessFailure \in Executions /\ HarnessFailure.outcome \in ExecutionOutcomes
  /\ \A s : \A e \in ArtifactExecutions(s) :
       e \in Executions /\ e.outcome \in ExecutionOutcomes
<1>1. ASSUME NEW s, NEW e \in ArtifactExecutions(s)
      PROVE  e \in Executions /\ e.outcome \in ExecutionOutcomes
  <2>1. CASE s = "attempted"
    BY <1>1, <2>1 DEF ArtifactExecutions, Executions, CallCounts, CleanupStates
  <2>2. CASE s = "signal_replaced"
    BY <1>1, <2>2
    DEF ArtifactExecutions, Executions, ExecutionOutcomes, FailedOutcomes, CallCounts,
        CleanupStates
  <2>3. CASE s \notin {"attempted", "signal_replaced"}
    BY <1>1, <2>3
    DEF ArtifactExecutions, Executions, ExecutionOutcomes, CallCounts, CleanupStates
  <2> QED
    BY <2>1, <2>2, <2>3
<1>2. NoExecution \in Executions
  BY DEF NoExecution, Executions, CallCounts, CleanupStates
<1>3. HarnessFailure \in Executions /\ HarnessFailure.outcome \in ExecutionOutcomes
  BY DEF HarnessFailure, Executions, ExecutionOutcomes, FailedOutcomes, CallCounts,
         CleanupStates
<1> QED
  BY <1>1, <1>2, <1>3

(* The locals a finished invocation leaves are well typed.                 *)
LEMMA ExitTyped ==
  ASSUME TypeOK,
         NEW how \in {"returned", "raised", "signal", "killed"}, Exit(how), log' \in Seq(Lines),
         UNCHANGED << called, invocations, replaced, policy >>,
         interrupts' \in 0 .. MaxInterrupts
  PROVE  TypeInv'
<1>1. execution' \in Executions /\ 1 \in 1 .. RunCount + 1
  BY ExecutionTypes, RunCountAssumption DEF Exit
<1>2. TypeOK'
  BY <1>1 DEF TypeOK, Exit, Locations, StopReasons
<1> QED
  BY <1>2 DEF Exit, TypeInv, IndexInPlan, ExecutionKnown, InRun, Executing, Bookkeeping,
              Recording

(* The initial states are typed.                                           *)
LEMMA TypeInit ==
  ASSUME Init
  PROVE  TypeInv
<1>1. execution \in Executions /\ 1 \in 1 .. RunCount + 1
  BY ExecutionTypes, RunCountAssumption DEF Init, FreshLocals
<1>2. log \in Seq(Lines) /\ called \in [Runs -> Nat]
  BY DEF Init
<1>3. invocations \in 0 .. MaxInvocations /\ interrupts \in 0 .. MaxInterrupts
  BY BoundsAssumption DEF Init
<1>4. TypeOK
  BY <1>1, <1>2, <1>3 DEF Init, FreshLocals, TypeOK, Locations, StopReasons
<1> QED
  BY <1>4 DEF Init, TypeInv, IndexInPlan, ExecutionKnown, InRun, Executing, Bookkeeping,
              Recording

(* Every step keeps the types.                                             *)
LEMMA TypeStep ==
  ASSUME TypeInv, [Next]_vars
  PROVE  TypeInv'
<1> USE RunCountAssumption, BoundsAssumption
    DEF TypeInv, TypeOK, IndexInPlan, ExecutionKnown, InRun, Executing, Bookkeeping,
        Recording, Tails, Locations, environment, locals, executorLocals
<1>1. CASE Invoke
  <2>1. replaced' \in BOOLEAN
    BY <1>1, Zenon DEF Invoke
  <2>2. interrupts' \in 0 .. MaxInterrupts
    BY <1>1 DEF Invoke
  <2> QED
    BY <1>1, <2>1, <2>2 DEF Invoke
<1>2. CASE LoopEnds
  BY <1>2 DEF LoopEnds
<1>3. CASE StopBeforeRun
  BY <1>3 DEF StopBeforeRun, Stop, StopReasons
<1>4. CASE BeginRun
  BY <1>4 DEF BeginRun
<1>5. CASE BumpStarted
  BY <1>5 DEF BumpStarted, NoExecution, Executions, CallCounts, CleanupStates
<1>6. CASE PrepareAdapter
  BY <1>6 DEF PrepareAdapter, Catch, ExecutorStep
<1>7. CASE CallProvider
  BY <1>7 DEF CallProvider, ExecutorStep, Runs
<1>8. CASE EndLive
  BY <1>8 DEF EndLive, Catch, ExecutorStep
<1>9. CASE PublishPair
  <2>1. execution' \in Executions
        /\ (caught' = "nothing" => execution'.outcome \in ExecutionOutcomes)
    BY <1>9, ExecutionTypes DEF PublishPair, Catch
  <2> QED
    BY <1>9, <2>1 DEF PublishPair, Catch, ExecutorStep
<1>10. CASE InterruptExecutor \/ InterruptReplaced
  <2>1. replaced' \in BOOLEAN
    BY <1>10, Zenon DEF InterruptExecutor, InterruptReplaced
  <2>2. interrupts' \in 0 .. MaxInterrupts
    BY <1>10 DEF InterruptExecutor, InterruptReplaced
  <2> QED
    BY <1>10, <2>1, <2>2 DEF InterruptExecutor, InterruptReplaced, Catch
<1>11. CASE AdapterCleared
  BY <1>11 DEF AdapterCleared, ExecutorStep, HarnessFailure, Executions, ExecutionOutcomes,
           FailedOutcomes, CallCounts, CleanupStates
<1>12. CASE AdapterNotCleared
  <2>1. execution' \in Executions /\ execution'.outcome \in ExecutionOutcomes
    BY <1>12 DEF AdapterNotCleared, Executions, ExecutionOutcomes, FailedOutcomes,
                 CleanupStates
  <2>2. pendingInterrupt' \in BOOLEAN /\ interrupts' \in 0 .. MaxInterrupts
    BY <1>12 DEF AdapterNotCleared
  <2> QED
    BY <1>12, <2>1, <2>2 DEF AdapterNotCleared
<1>13. CASE Account
  BY <1>13 DEF Account, Executions, CallCounts
<1>14. CASE BumpTerminal
  BY <1>14 DEF BumpTerminal
<1>15. CASE StopCheck
  <2>1. \A failures : StopAfter(failures) \in StopReasons
    BY DEF StopAfter, StopReasons
  <2>2. countedFailures' \in Nat /\ index <= RunCount
    BY <1>15 DEF StopCheck
  <2>3. PICK reason \in StopReasons :
          \/ index' = index + 1 /\ pc' = "check" /\ UNCHANGED stopReason
          \/ Stop(reason, nextIndex)
    BY <1>15, <2>1 DEF StopCheck
  <2> QED
    BY <1>15, <2>2, <2>3 DEF StopCheck, Stop
<1>16. CASE BumpInterrupted
  BY <1>16 DEF BumpInterrupted, StopReasons
<1>17. CASE InterruptScheduler
  BY <1>17 DEF InterruptScheduler
<1>18. CASE CreateCampaign
  BY <1>18 DEF CreateCampaign, Lines
<1>19. CASE AppendStarted
  BY <1>19, AppendTyped DEF AppendStarted, AppendCampaign, Appending
<1>20. CASE AppendTerminal
  BY <1>20, AppendTyped DEF AppendTerminal, AppendCampaign, Appending
<1>21. CASE AppendInterrupted
  BY <1>21, AppendTyped DEF AppendInterrupted, AppendCampaign, Appending
<1>22. CASE AppendNotRun
  BY <1>22, AppendTyped DEF AppendNotRun, AppendCampaign, Appending, WritesNotRun
<1>23. CASE AppendFinished
  BY <1>23, AppendTyped, ExitTyped DEF AppendFinished, AppendCampaign, Appending
<1>24. CASE AppendFails
  BY <1>24, AppendTyped, ExitTyped DEF AppendFails
<1>25. CASE RefuseCampaign
  BY <1>25, ExitTyped DEF RefuseCampaign
<1>26. CASE PropagateOther
  BY <1>26, ExitTyped DEF PropagateOther
<1>27. CASE InterruptTail
  BY <1>27, ExitTyped DEF InterruptTail
<1>28. CASE Crash
  BY <1>28, ExitTyped DEF Crash
<1>29. CASE UNCHANGED vars
  BY <1>29 DEF vars
<1> QED
  BY <1>1, <1>2, <1>3, <1>4, <1>5, <1>6, <1>7, <1>8, <1>9, <1>10, <1>11, <1>12, <1>13,
     <1>14, <1>15, <1>16, <1>17, <1>18, <1>19, <1>20, <1>21, <1>22, <1>23, <1>24,
     <1>25, <1>26, <1>27, <1>28, <1>29 DEF Next, ProgramStep, Done

-----------------------------------------------------------------------------
(* The write-ahead rule and the absence of retries.                        *)

JournalInv == NothingAhead /\ CurrentAnnounced /\ CurrentUncalled /\ WriteAhead /\ NoRetry

(* The inductive invariant is the types and the journal part.              *)
LEMMA IInvParts == IInv <=> TypeInv /\ JournalInv
BY DEF IInv, TypeInv, JournalInv

(* What the next append announces.                                         *)
LEMMA AppendAnnounces ==
  ASSUME TypeInv, pc \in Appending, NEW r \in Runs
  PROVE  /\ StartedIn(Append(log, NextEvent), r)
              <=> StartedIn(log, r) \/ (pc = "append_started" /\ r = index)
         /\ StartedIn(Append(log, TornLine), r) <=> StartedIn(log, r)
<1>1. log \in Seq(Lines) /\ NextEvent \in Lines /\ TornLine \in Lines
  BY NextEventTyped DEF TypeInv, TypeOK, Lines
<1>2. IsStarted(NextEvent, r) <=> pc = "append_started" /\ r = index
  BY NextEventTyped DEF TypeInv
<1>3. ~IsStarted(TornLine, r)
  BY DEF IsStarted, TornLine
<1> QED
  BY <1>1, <1>2, <1>3, AppendStartedIn

(* The initial states have an empty journal.                               *)
LEMMA JournalInit ==
  ASSUME Init
  PROVE  JournalInv
<1>1. \A r \in Runs : called[r] = 0
  BY DEF Init
<1> QED
  BY <1>1 DEF Init, JournalInv, NothingAhead, CurrentAnnounced, CurrentUncalled, WriteAhead,
              NoRetry, InRun, Executing, Bookkeeping

(* An invocation that ends leaves at least the announcements it made.      *)
LEMMA ExitJournal ==
  ASSUME JournalInv, NEW how, Exit(how), UNCHANGED called,
         \A r \in Runs : StartedIn(log, r) => StartedIn(log', r)
  PROVE  JournalInv'
BY DEF JournalInv, NothingAhead, CurrentAnnounced, CurrentUncalled, WriteAhead,
   NoRetry, Exit,
       InRun, Executing, Bookkeeping

(* Every step keeps the journal part of the invariant.                     *)
LEMMA JournalStep ==
  ASSUME TypeInv, JournalInv, [Next]_vars
  PROVE  JournalInv'
<1> USE DEF environment, locals, executorLocals, InRun, Executing, Bookkeeping, JournalInv,
            NothingAhead, CurrentAnnounced, CurrentUncalled, WriteAhead, NoRetry, Unreached
<1>0. index \in Int /\ RunCount \in Nat /\ Runs = 1 .. RunCount
      /\ called \in [Runs -> Nat] /\ (pc \in InRun => index \in Runs)
  BY RunCountAssumption DEF TypeInv, TypeOK, IndexInPlan, Runs
<1>1. CASE Invoke
  BY <1>0, <1>1 DEF Invoke
<1>2. CASE LoopEnds
  BY <1>0, <1>2 DEF LoopEnds, Tails
<1>3. CASE StopBeforeRun
  BY <1>0, <1>3 DEF StopBeforeRun, Stop
<1>4. CASE BeginRun
  BY <1>0, <1>4 DEF BeginRun
<1>5. CASE BumpStarted
  BY <1>0, <1>5 DEF BumpStarted
<1>6. CASE PrepareAdapter
  BY <1>0, <1>6 DEF PrepareAdapter, Catch, ExecutorStep
<1>7. CASE CallProvider
  BY <1>0, <1>7 DEF CallProvider, ExecutorStep
<1>8. CASE EndLive
  BY <1>0, <1>8 DEF EndLive, Catch, ExecutorStep
<1>9. CASE PublishPair
  BY <1>0, <1>9 DEF PublishPair, Catch, ExecutorStep
<1>10. CASE InterruptExecutor \/ InterruptReplaced
  BY <1>0, <1>10 DEF InterruptExecutor, InterruptReplaced, Catch
<1>11. CASE AdapterCleared
  BY <1>0, <1>11 DEF AdapterCleared, ExecutorStep
<1>12. CASE AdapterNotCleared
  BY <1>0, <1>12 DEF AdapterNotCleared
<1>13. CASE Account
  BY <1>0, <1>13 DEF Account
<1>14. CASE BumpTerminal
  BY <1>0, <1>14 DEF BumpTerminal
<1>15. CASE StopCheck
  BY <1>0, <1>15 DEF StopCheck, Stop
<1>16. CASE BumpInterrupted
  BY <1>0, <1>16 DEF BumpInterrupted
<1>17. CASE InterruptScheduler
  BY <1>0, <1>17 DEF InterruptScheduler
<1>18. CASE CreateCampaign
  <2>1. \A r \in Runs : called[r] = 0
    BY <1>0, <1>18 DEF CreateCampaign, StartedIn
  <2>2. \A r \in Runs : ~StartedIn(log', r)
    BY <1>18 DEF CreateCampaign, StartedIn, IsStarted, CampaignStarted
  <2> QED
    BY <1>0, <1>18, <2>1, <2>2 DEF CreateCampaign
<1>19. CASE AppendStarted
  <2>1. \A r \in Runs : StartedIn(log', r)
                      <=> StartedIn(log, r) \/ (pc = "append_started" /\ r = index)
    BY <1>19, AppendAnnounces DEF AppendStarted, AppendCampaign, Appending
  <2> QED
    BY <1>0, <1>19, <2>1 DEF AppendStarted
<1>20. CASE AppendTerminal
  <2>1. \A r \in Runs : StartedIn(log', r)
                      <=> StartedIn(log, r) \/ (pc = "append_started" /\ r = index)
    BY <1>20, AppendAnnounces DEF AppendTerminal, AppendCampaign, Appending
  <2> QED
    BY <1>0, <1>20, <2>1 DEF AppendTerminal
<1>21. CASE AppendInterrupted
  <2>1. \A r \in Runs : StartedIn(log', r)
                      <=> StartedIn(log, r) \/ (pc = "append_started" /\ r = index)
    BY <1>21, AppendAnnounces DEF AppendInterrupted, AppendCampaign, Appending
  <2> QED
    BY <1>0, <1>21, <2>1 DEF AppendInterrupted
<1>22. CASE AppendNotRun
  <2>1. \A r \in Runs : StartedIn(log', r)
                      <=> StartedIn(log, r) \/ (pc = "append_started" /\ r = index)
    BY <1>22, AppendAnnounces DEF AppendNotRun, AppendCampaign, Appending, Tails
  <2> QED
    BY <1>0, <1>22, <2>1 DEF AppendNotRun, Tails
<1>23. CASE AppendFinished
  BY <1>23, AppendAnnounces, ExitJournal DEF AppendFinished, AppendCampaign, Appending,
     Tails
<1>24. CASE AppendFails
  BY <1>24, AppendAnnounces, ExitJournal DEF AppendFails
<1>25. CASE RefuseCampaign
  BY <1>25, ExitJournal DEF RefuseCampaign
<1>26. CASE PropagateOther
  BY <1>26, ExitJournal DEF PropagateOther
<1>27. CASE InterruptTail
  BY <1>27, ExitJournal DEF InterruptTail
<1>28. CASE Crash
  BY <1>28, ExitJournal DEF Crash
<1>29. CASE UNCHANGED vars
  BY <1>29 DEF vars
<1> QED
  BY <1>1, <1>2, <1>3, <1>4, <1>5, <1>6, <1>7, <1>8, <1>9, <1>10, <1>11, <1>12, <1>13,
     <1>14, <1>15, <1>16, <1>17, <1>18, <1>19, <1>20, <1>21, <1>22, <1>23, <1>24,
     <1>25, <1>26, <1>27, <1>28, <1>29 DEF Next, ProgramStep, Done

(* The inductive invariant holds in every reachable state.                 *)
THEOREM Inductive == Spec => []IInv
<1>1. Init => IInv
  BY TypeInit, JournalInit, IInvParts
<1>2. IInv /\ [Next]_vars => IInv'
  <2>1. ASSUME IInv, [Next]_vars PROVE TypeInv' /\ JournalInv'
    BY <2>1, IInvParts, TypeStep, JournalStep
  <2> QED
    BY <2>1 DEF IInv, TypeInv, JournalInv
<1> QED
  BY <1>1, <1>2, PTL DEF Spec

(* Every variable of the scheduler and every line of the Campaign file     *)
(* keeps its type (the events are ones the contract in campaign.py can     *)
(* hold), for every Plan length and every bound.                           *)
THEOREM TypeCorrect == Spec => []TypeOK
<1>1. IInv => TypeOK
  BY DEF IInv
<1> QED
  BY <1>1, Inductive, PTL

(* A Provider is called only for a run whose `started` line is already in  *)
(* the synced Campaign file.                                               *)
THEOREM WriteAheadHolds == Spec => []WriteAhead
<1>1. IInv => WriteAhead
  BY DEF IInv
<1> QED
  BY <1>1, Inductive, PTL

(* No run's Provider is called twice, whatever crashes, failed appends,    *)
(* signals and further invocations on the same Campaign path occur.        *)
THEOREM NoRetryHolds == Spec => []NoRetry
<1>1. IInv => NoRetry
  BY DEF IInv
<1> QED
  BY <1>1, Inductive, PTL

(* The file is written ahead of every Provider call, and no call is made   *)
(* twice.                                                                  *)
THEOREM CalledOnce == Spec => []CalledOnceAndAnnounced
<1>1. IInv => CalledOnceAndAnnounced
  BY DEF IInv, CalledOnceAndAnnounced
<1> QED
  BY <1>1, Inductive, PTL

-----------------------------------------------------------------------------
(* A running invocation that received a signal has it in hand: held back   *)
(* over the cleanup, on its way out of the executor, or being recorded. A  *)
(* held-back one made the run a cleanup failure, which ends the loop; so   *)
(* does the failure that has replaced one.                                 *)
HarnessStops == {"harness_failure", "cleanup_failure"}
FailureInHand ==
  /\ interrupts = 1 /\ replaced
  /\ \/ pc \in {"live", "publish"} /\ stage = "signal_replaced"
     \/ pc = "cleanup" /\ caught \in {"error", "other"}
     \/ pc = "cleanup" /\ execution.outcome = "harness_failure"
     \/ pc \in Recording /\ execution.outcome \in HarnessStops
     \/ pc = "tail" /\ stopReason \in HarnessStops
SignalInHand ==
  pc # "idle" /\ interrupts > 0 =>
    \/ pendingInterrupt
    \/ pc = "cleanup" /\ caught = "interrupt"
    \/ pc \in {"append_interrupted", "bump_interrupted", "human_tail"}
    \/ FailureInHand
PendingEndsTheLoop ==
  /\ pc \in {"idle", "create", "check", "append_started", "bump_started"} \cup Executing
       => ~pendingInterrupt
  /\ pendingInterrupt /\ pc \in Recording => execution.outcome = "cleanup_failure"

NoExitYet == pc # "idle" => exit = "none"

SignalInv == SignalInHand /\ PendingEndsTheLoop /\ NoExitYet /\ SignalNeverSwallowed

(* The runs before the current one are concluded, none of their lines says *)
(* stop, and countedFailures is the number of counted ones among them.     *)
InLoop == {"check"} \cup InRun
Concluded == {"bump_terminal", "stop_check"}
NoStopBefore(r) == \A i \in TerminalLines(log) : log[i].run < r => ~Stops(log[i])
EarlierRuns ==
  pc \in InLoop =>
    /\ \A s \in 1 .. index - 1 : TerminalIn(log, s)
    /\ NoStopBefore(index)
    /\ countedFailures = Cardinality(CountedLinesBefore(index))
    /\ policy.maxFailures # 0 => countedFailures < policy.maxFailures

(* No line concludes the current run before its own terminal line, which   *)
(* then is the last one and carries the outcome the stop check looks at.   *)
CurrentRun ==
  /\ pc \in InLoop \ (Concluded \cup {"bump_interrupted"}) =>
       \A i \in TerminalLines(log) : log[i].run < index
  /\ pc \in Concluded =>
       /\ Len(log) \in TerminalLines(log)
       /\ log[Len(log)].run = index
       /\ log[Len(log)].status \in {"completed", "failed"}
       /\ log[Len(log)].outcome = execution.outcome
       /\ \A i \in TerminalLines(log) : i # Len(log) => log[i].run < index

(* No Provider was called for a run beyond the loop's index, nor beyond    *)
(* the first run a tail declares not_run.                                  *)
CalledBehind ==
  /\ pc \in InLoop \cup Tails => \A r \in Runs : called[r] > 0 => r <= index
  /\ pc \in InLoop => index <= nextIndex
  /\ pc = "stop_check" => nextIndex = index + 1

StopInv == EarlierRuns /\ CurrentRun /\ CalledBehind /\ StopHonoured

-----------------------------------------------------------------------------
(* Signals.                                                                *)

LEMMA SignalInit ==
  ASSUME Init
  PROVE  SignalInv
BY DEF Init, FreshLocals, SignalInv, SignalInHand, PendingEndsTheLoop, NoExitYet,
   SignalNeverSwallowed, FailureInHand, Executing, Recording

(* Every step keeps SignalInv.                                             *)
LEMMA SignalStep ==
  ASSUME TypeInv, SignalInv, [Next]_vars
  PROVE  SignalInv'
<1> USE BoundsAssumption
    DEF SignalInv, SignalInHand, PendingEndsTheLoop, NoExitYet, SignalNeverSwallowed,
        FailureInHand, HarnessStops, Executing, Bookkeeping, Recording, Tails, environment,
        locals, executorLocals
<1>0. interrupts \in Nat /\ pendingInterrupt \in BOOLEAN
  BY DEF TypeInv, TypeOK
<1>1. CASE Invoke
  BY <1>0, <1>1 DEF Invoke
<1>2. CASE LoopEnds
  BY <1>0, <1>2 DEF LoopEnds, Tails
<1>3. CASE StopBeforeRun
  BY <1>0, <1>3 DEF StopBeforeRun, Stop
<1>4. CASE BeginRun
  BY <1>0, <1>4 DEF BeginRun
<1>5. CASE BumpStarted
  BY <1>0, <1>5 DEF BumpStarted
<1>6. CASE PrepareAdapter
  BY <1>0, <1>6 DEF PrepareAdapter, Catch, ExecutorStep
<1>7. CASE CallProvider
  BY <1>0, <1>7 DEF CallProvider, ExecutorStep
<1>8. CASE EndLive
  BY <1>0, <1>8 DEF EndLive, Catch, ExecutorStep
<1>9. CASE PublishPair
  <2>1. \A e \in ArtifactExecutions("signal_replaced") : e.outcome = "harness_failure"
    BY DEF ArtifactExecutions
  <2>2. /\ pc = "publish" /\ pc' = "cleanup" /\ exit' = exit
        /\ UNCHANGED << interrupts, replaced, pendingInterrupt >>
        /\ caught' = "error" \/ caught' = caught
    BY <1>9 DEF PublishPair, Catch, ExecutorStep
  <2>3. caught' = "error" \/ execution' \in ArtifactExecutions(stage)
    BY <1>9 DEF PublishPair, Catch
  <2> QED
    BY <1>0, <2>1, <2>2, <2>3
<1>10. CASE InterruptExecutor \/ InterruptReplaced
  BY <1>0, <1>10 DEF InterruptExecutor, InterruptReplaced, Catch
<1>11. CASE AdapterCleared
  <2>1. [execution EXCEPT !.cleanup = "cleared"].outcome = execution.outcome
    BY DEF TypeInv, TypeOK, Executions
  <2>2. execution' = HarnessFailure => execution'.outcome = "harness_failure"
    BY DEF HarnessFailure
  <2> QED
    BY <1>0, <1>11, <2>1, <2>2 DEF AdapterCleared, ExecutorStep
<1>12. CASE AdapterNotCleared
  <2>1. execution'.outcome = "cleanup_failure"
    BY <1>12 DEF AdapterNotCleared, TypeInv, TypeOK, Executions
  <2>2. interrupts' > 0 => pendingInterrupt' \/ (interrupts' = 1 /\ replaced')
    <3>1. interrupts > 0 => caught = "interrupt" \/ (interrupts = 1 /\ replaced)
      BY <1>12 DEF AdapterNotCleared
    <3>2. \/ interrupts' = interrupts + 1 /\ pendingInterrupt' = TRUE
          \/ interrupts' = interrupts /\ pendingInterrupt' = (caught = "interrupt")
      BY <1>0, <1>12 DEF AdapterNotCleared
    <3>3. replaced' = replaced
      BY <1>12 DEF AdapterNotCleared
    <3> QED
      BY <3>1, <3>2, <3>3
  <2>3. exit' = "none" /\ pc' = "account"
    BY <1>12 DEF AdapterNotCleared
  <2> QED
    BY <2>1, <2>2, <2>3
<1>13. CASE Account
  BY <1>0, <1>13 DEF Account
<1>14. CASE BumpTerminal
  BY <1>0, <1>14 DEF BumpTerminal
<1>15. CASE StopCheck
  BY <1>0, <1>15 DEF StopCheck, Stop, StopAfter
<1>16. CASE BumpInterrupted
  BY <1>0, <1>16 DEF BumpInterrupted
<1>17. CASE InterruptScheduler
  BY <1>0, <1>17 DEF InterruptScheduler
<1>18. CASE CreateCampaign
  BY <1>0, <1>18 DEF CreateCampaign
<1>19. CASE AppendStarted
  BY <1>0, <1>19 DEF AppendStarted
<1>20. CASE AppendTerminal
  BY <1>0, <1>20 DEF AppendTerminal
<1>21. CASE AppendInterrupted
  BY <1>0, <1>21 DEF AppendInterrupted
<1>22. CASE AppendNotRun
  BY <1>0, <1>22 DEF AppendNotRun, Tails
<1>23. CASE AppendFinished
  <2>1. \/ exit' = "signal"
        \/ exit' = "returned" /\ pc = "tail" /\ ~pendingInterrupt
    BY <1>23 DEF AppendFinished, Exit
  <2>2. pc' = "idle" /\ pendingInterrupt' = FALSE /\ UNCHANGED << interrupts, replaced >>
    BY <1>23 DEF AppendFinished, Exit
  <2>3. pc = "tail" =>
          log' = Append(log, CampaignFinished(sequence, stopReason, attempted, providerCalls,
                                              unknownCallRuns))
    BY <1>23 DEF AppendFinished, AppendCampaign, NextEvent, ClosingReason
  <2>4. \A e : Append(log, e)[Len(Append(log, e))] = e
    BY DEF TypeInv, TypeOK
  <2>5. pc = "tail" => /\ log'[Len(log')].type = "campaign_finished"
                       /\ log'[Len(log')].stop = stopReason
    BY <2>3, <2>4 DEF CampaignFinished
  <2> QED
    BY <1>0, <2>1, <2>2, <2>5
<1>24. CASE AppendFails
  BY <1>0, <1>24 DEF AppendFails, Exit, Appending, Tails
<1>25. CASE RefuseCampaign
  BY <1>0, <1>25 DEF RefuseCampaign, Exit
<1>26. CASE PropagateOther
  BY <1>0, <1>26 DEF PropagateOther, Exit
<1>27. CASE InterruptTail
  BY <1>0, <1>27 DEF InterruptTail, Exit
<1>28. CASE Crash
  BY <1>0, <1>28 DEF Crash, Exit
<1>29. CASE UNCHANGED vars
  BY <1>29 DEF vars
<1> QED
  BY <1>1, <1>2, <1>3, <1>4, <1>5, <1>6, <1>7, <1>8, <1>9, <1>10, <1>11, <1>12, <1>13,
     <1>14, <1>15, <1>16, <1>17, <1>18, <1>19, <1>20, <1>21, <1>22, <1>23, <1>24, <1>25,
     <1>26, <1>27, <1>28, <1>29 DEF Next, ProgramStep, Done

(* A Ctrl-C or SystemExit is never swallowed, wherever it lands: no        *)
(* invocation that received one returns a summary.                         *)
THEOREM SignalsSurface == Spec => []SignalNeverSwallowed
<1>1. Init => SignalInv
  BY SignalInit
<1>2. IInv /\ SignalInv /\ [Next]_vars => SignalInv'
  BY SignalStep, IInvParts
<1>3. SignalInv => SignalNeverSwallowed
  BY DEF SignalInv
<1> QED
  BY <1>1, <1>2, <1>3, Inductive, PTL DEF Spec

-----------------------------------------------------------------------------
(* Stop conditions: what an append adds to the concluded runs.             *)

Concludes(e) == e.type = "run_state" /\ e.status # "started"

(* Which indices of the file are terminal lines after an append.           *)
LEMMA AppendConcludes ==
  ASSUME NEW f \in Seq(Lines), NEW e \in Lines
  PROVE  /\ Len(f) \in Nat /\ Len(Append(f, e)) = Len(f) + 1
         /\ Append(f, e)[Len(f) + 1] = e
         /\ Len(f) + 1 \notin TerminalLines(f)
         /\ \A i \in TerminalLines(f) : Append(f, e)[i] = f[i]
         /\ TerminalLines(Append(f, e)) =
              TerminalLines(f) \cup (IF Concludes(e) THEN {Len(f) + 1} ELSE {})
<1> DEFINE g == Append(f, e)
<1>1. g \in Seq(Lines) /\ Len(f) \in Nat /\ Len(g) = Len(f) + 1
      /\ g[Len(f) + 1] = e /\ \A i \in 1 .. Len(f) : g[i] = f[i]
  OBVIOUS
<1>2. DOMAIN f = 1 .. Len(f) /\ DOMAIN g = 1 .. Len(f) + 1
  BY <1>1
<1>3. 1 .. Len(f) + 1 = (1 .. Len(f)) \cup {Len(f) + 1} /\ Len(f) + 1 \notin 1 .. Len(f)
  BY <1>1
<1> QED
  BY <1>1, <1>2, <1>3 DEF TerminalLines, Concludes

(* Which runs have a terminal line after an append.                        *)
LEMMA AppendTerminalIn ==
  ASSUME NEW f \in Seq(Lines), NEW e \in Lines, NEW s \in Runs
  PROVE  TerminalIn(Append(f, e), s) <=> TerminalIn(f, s) \/ (Concludes(e) /\ e.run = s)
<1> DEFINE g == Append(f, e)
<1>1. \A h : TerminalIn(h, s) <=> \E i \in TerminalLines(h) : h[i].run = s
  BY DEF TerminalIn, TerminalLines, IsTerminal
<1>2. TerminalIn(f, s) <=> \E i \in TerminalLines(f) : f[i].run = s
  BY <1>1
<1>3. TerminalIn(g, s) <=> \E i \in TerminalLines(g) : g[i].run = s
  BY <1>1
<1>4. /\ g[Len(f) + 1] = e /\ \A i \in TerminalLines(f) : g[i] = f[i]
      /\ TerminalLines(g) = TerminalLines(f) \cup (IF Concludes(e) THEN {Len(f) + 1} ELSE {})
  BY AppendConcludes
<1> HIDE DEF g
<1>5. TerminalIn(g, s) <=> TerminalIn(f, s) \/ (Concludes(e) /\ e.run = s)
  BY <1>2, <1>3, <1>4
<1> QED
  BY <1>5 DEF g

(* Terminal lines are about runs of the Plan.                              *)
LEMMA TerminalRuns ==
  ASSUME log \in Seq(Lines)
  PROVE  \A i \in TerminalLines(log) : log[i].run \in Runs
BY DEF TerminalLines, Lines, RunEvents, FinishedEvents, CampaignStarted, TornLine

(* The counted lines before a run are finitely many.                       *)
LEMMA CountedFinite ==
  ASSUME log \in Seq(Lines), NEW r
  PROVE  IsFiniteSet(CountedLinesBefore(r)) /\ Cardinality(CountedLinesBefore(r)) \in Nat
<1>1. CountedLinesBefore(r) \subseteq 1 .. Len(log) /\ Len(log) \in Nat
  BY DEF CountedLinesBefore, TerminalLines
<1>2. IsFiniteSet(1 .. Len(log))
  BY <1>1, FS_Interval
<1> QED
  BY <1>1, <1>2, FS_Subset, FS_CardinalityType

(* The line the next append writes concludes no run but the current one.   *)
LEMMA NextEventConcludes ==
  ASSUME TypeInv, pc \in Appending
  PROVE  /\ Concludes(NextEvent) => NextEvent.run = index /\ index \in Runs
         /\ pc = "append_started" => ~Concludes(NextEvent)
         /\ pc \in {"append_terminal", "append_interrupted"} => Concludes(NextEvent)
         /\ pc = "append_terminal" =>
              /\ NextEvent.status \in {"completed", "failed"}
              /\ NextEvent.outcome = execution.outcome
<1> USE RunCountAssumption
    DEF NextEvent, RunEvent, CampaignFinished, Concludes, TypeInv, TypeOK, IndexInPlan,
        InRun,
        Bookkeeping, Tails, Runs, StatusOf, WritesNotRun
<1>1. CASE pc = "append_started"
  BY <1>1
<1>2. CASE pc = "append_terminal"
  BY <1>2
<1>3. CASE pc = "append_interrupted"
  BY <1>3
<1>4. CASE pc \in Tails
  BY <1>4
<1> QED
  BY <1>1, <1>2, <1>3, <1>4 DEF Appending

(* Lines that conclude no run below index leave everything said about the  *)
(* runs below it as it was.                                                *)
LEMMA AppendFrame ==
  ASSUME TypeOK, NEW e \in Lines, log' = Append(log, e), UNCHANGED policy,
         Concludes(e) => e.run = index,
         NEW r \in 1 .. index
  PROVE  /\ CountedLinesBefore(r)' = CountedLinesBefore(r)
         /\ NoStopBefore(r) => NoStopBefore(r)'
         /\ \A s \in Runs : TerminalIn(log, s) => TerminalIn(log, s)'
<1>0. log \in Seq(Lines) /\ index \in Nat /\ r \in Nat /\ r <= index
  BY DEF TypeOK
<1>1. \A i \in TerminalLines(log') : log'[i].run < r => i \in TerminalLines(log)
  BY <1>0, AppendConcludes
<1>2. \A i \in TerminalLines(log) : i \in TerminalLines(log') /\ log'[i] = log[i]
  BY <1>0, AppendConcludes
<1>3. CountedLinesBefore(r)' = CountedLinesBefore(r)
  BY <1>1, <1>2 DEF CountedLinesBefore
<1>4. NoStopBefore(r) => NoStopBefore(r)'
  BY <1>1, <1>2 DEF NoStopBefore, Stops
<1>5. ASSUME NEW s \in Runs, TerminalIn(log, s) PROVE TerminalIn(log, s)'
  BY <1>0, <1>5, AppendTerminalIn
<1> QED
  BY <1>3, <1>4, <1>5

(* StopHonoured with its second part named.                                *)
LEMMA HonouredParts ==
  StopHonoured <=> \A r \in Runs : called[r] > 0 =>
    /\ \A s \in 1 .. r - 1 : TerminalIn(log, s)
    /\ NoStopBefore(r)
    /\ policy.maxFailures # 0 => Cardinality(CountedLinesBefore(r)) < policy.maxFailures
BY DEF StopHonoured, NoStopBefore

(* So StopHonoured survives every append: no Provider was called beyond    *)
(* the run it concludes.                                                   *)
LEMMA AppendHonours ==
  ASSUME TypeOK, StopHonoured, NEW e \in Lines, log' = Append(log, e),
         UNCHANGED << policy, called >>,
         Concludes(e) => e.run = index,
         \A r \in Runs : called[r] > 0 => r <= index
  PROVE  StopHonoured'
<1>1. ASSUME NEW r \in Runs, called[r] > 0
      PROVE  /\ \A s \in 1 .. r - 1 : TerminalIn(log, s)'
             /\ NoStopBefore(r)'
             /\ policy.maxFailures # 0 =>
                  Cardinality(CountedLinesBefore(r)') < policy.maxFailures
  <2>1. r \in 1 .. index /\ \A s \in 1 .. r - 1 : s \in Runs
    BY <1>1, RunCountAssumption DEF Runs, TypeOK
  <2>2. /\ CountedLinesBefore(r)' = CountedLinesBefore(r)
        /\ NoStopBefore(r) => NoStopBefore(r)'
        /\ \A s \in Runs : TerminalIn(log, s) => TerminalIn(log, s)'
    BY <2>1, AppendFrame
  <2> QED
    BY <1>1, <2>1, <2>2, HonouredParts
<1> QED
  BY <1>1 DEF StopHonoured, NoStopBefore

(* Appending either the next event or a torn line.                         *)
LEMMA AppendStopHonoured ==
  ASSUME TypeInv, StopInv, pc \in Appending, UNCHANGED << policy, called >>,
         log' \in {Append(log, TornLine), Append(log, NextEvent)}
  PROVE  StopHonoured'
<1>1. \A r \in Runs : called[r] > 0 => r <= index
  BY DEF StopInv, CalledBehind, InLoop, InRun, Bookkeeping, Appending, Tails
<1>2. TornLine \in Lines /\ ~Concludes(TornLine) /\ NextEvent \in Lines
  BY NextEventTyped DEF Lines, TornLine, Concludes, TypeInv
<1>3. Concludes(NextEvent) => NextEvent.run = index
  BY NextEventConcludes
<1>4. TypeOK /\ StopHonoured
  BY DEF TypeInv, StopInv
<1>5. CASE log' = Append(log, TornLine)
  BY <1>1, <1>2, <1>4, <1>5, AppendHonours
<1>6. CASE log' = Append(log, NextEvent)
  BY <1>1, <1>2, <1>3, <1>4, <1>6, AppendHonours
<1> QED
  BY <1>5, <1>6

(* An append inside the loop keeps what is known of the runs before the    *)
(* current one.                                                            *)
LEMMA AppendKeepsEarlier ==
  ASSUME TypeInv, StopInv, pc \in Appending \cap InLoop, pc' \in InLoop,
         log' = Append(log, NextEvent), UNCHANGED << policy, index, countedFailures >>
  PROVE  EarlierRuns'
<1>1. TypeOK /\ NextEvent \in Lines /\ (Concludes(NextEvent) => NextEvent.run = index)
  BY NextEventTyped, NextEventConcludes DEF TypeInv
<1>2. index \in 1 .. index /\ \A s \in 1 .. index - 1 : s \in Runs
  BY RunCountAssumption DEF TypeInv, TypeOK, Runs
<1>3. /\ CountedLinesBefore(index)' = CountedLinesBefore(index)
      /\ NoStopBefore(index) => NoStopBefore(index)'
      /\ \A s \in Runs : TerminalIn(log, s) => TerminalIn(log, s)'
  <2>1. PICK r \in 1 .. index : r = index
    BY <1>2
  <2>2. /\ CountedLinesBefore(r)' = CountedLinesBefore(r)
        /\ NoStopBefore(r) => NoStopBefore(r)'
        /\ \A s \in Runs : TerminalIn(log, s) => TerminalIn(log, s)'
    BY <1>1, <2>1, AppendFrame
  <2> QED
    BY <2>1, <2>2 DEF CountedLinesBefore, NoStopBefore, Stops
<1> QED
  BY <1>2, <1>3 DEF StopInv, EarlierRuns

(* Steps that leave the file alone.                                        *)
LEMMA QuietHonours ==
  ASSUME StopInv, UNCHANGED << log, policy, called >>
  PROVE  StopHonoured'
BY DEF StopInv, StopHonoured, CountedLinesBefore, Stops

(* A step inside the loop that leaves the file and the counters alone      *)
(* keeps StopInv.                                                          *)
LEMMA QuietStop ==
  ASSUME StopInv, UNCHANGED << log, policy, called, index, countedFailures >>,
         pc \in InLoop, pc' \in InLoop,
         pc' \in Concluded => pc \in Concluded /\ UNCHANGED execution,
         pc \in Concluded => pc' \in Concluded,
         pc' # "bump_interrupted" /\ pc # "bump_interrupted",
         CalledBehind'
  PROVE  StopInv'
<1>1. EarlierRuns'
  BY DEF StopInv, EarlierRuns, NoStopBefore, CountedLinesBefore, Stops
<1>2. CurrentRun'
  BY DEF StopInv, CurrentRun
<1> QED
  BY <1>1, <1>2, QuietHonours DEF StopInv

(* A finished invocation is in no loop; a new one starts at the first run. *)
FreshInv ==
  pc \in {"idle", "create"} => index = 1 /\ nextIndex = 1 /\ countedFailures = 0

(* The end of an invocation keeps StopInv.                                 *)
LEMMA ExitStop ==
  ASSUME NEW how, Exit(how), StopHonoured'
  PROVE  StopInv'
BY DEF Exit, StopInv, EarlierRuns, CurrentRun, CalledBehind, InLoop, InRun, Executing,
       Bookkeeping, Concluded, Tails

(* The initial states satisfy StopInv.                                     *)
LEMMA StopInit ==
  ASSUME Init
  PROVE  StopInv /\ FreshInv
<1>1. \A r \in Runs : called[r] = 0
  BY DEF Init
<1> QED
  BY <1>1 DEF Init, FreshLocals, FreshInv, StopInv, EarlierRuns, CurrentRun, CalledBehind,
         StopHonoured, InLoop, InRun, Executing, Bookkeeping, Concluded, Tails

(* Every step keeps StopInv.                                               *)
LEMMA StopStep ==
  ASSUME TypeInv, IInv, StopInv, FreshInv, [Next]_vars
  PROVE  StopInv'
<1> USE DEF environment, locals, executorLocals, InLoop, InRun, Executing, Bookkeeping,
    Tails,
            CalledBehind, StopInv
<1>0. /\ index \in Nat /\ nextIndex \in Nat /\ countedFailures \in Nat /\ RunCount \in Nat
      /\ Runs = 1 .. RunCount /\ called \in [Runs -> Nat] /\ log \in Seq(Lines)
      /\ policy.maxFailures \in Nat /\ (pc \in InRun => index \in Runs)
  BY RunCountAssumption DEF TypeInv, TypeOK, IndexInPlan, Runs, Policies
<1>1. CASE Invoke
  <2>1. UNCHANGED << log, policy, called >> /\ pc' = "create"
    BY <1>1 DEF Invoke
  <2> QED
    BY <2>1, QuietHonours DEF EarlierRuns, CurrentRun, Concluded
<1>2. CASE LoopEnds
  <2>1. UNCHANGED << log, policy, called >> /\ pc' \in Tails
    BY <1>2 DEF LoopEnds, Tails
  <2>2. CalledBehind'
    BY <1>0, <1>2 DEF LoopEnds
  <2> QED
    BY <2>1, <2>2, QuietHonours DEF StopInv, EarlierRuns, CurrentRun, Concluded
<1>3. CASE StopBeforeRun
  <2>1. UNCHANGED << log, policy, called >> /\ pc' \in Tails
    BY <1>3 DEF StopBeforeRun, Stop, Tails
  <2>2. CalledBehind'
    BY <1>0, <1>3 DEF StopBeforeRun, Stop
  <2> QED
    BY <2>1, <2>2, QuietHonours DEF StopInv, EarlierRuns, CurrentRun, Concluded
<1>4. CASE BeginRun
  <2>1. /\ UNCHANGED << log, policy, called, index, countedFailures >>
        /\ pc \in InLoop /\ pc' \in InLoop
        /\ pc' \in Concluded => pc \in Concluded /\ UNCHANGED execution
        /\ pc \in Concluded => pc' \in Concluded
        /\ pc' # "bump_interrupted" /\ pc # "bump_interrupted"
    BY <1>4 DEF BeginRun, Concluded
  <2>2. CalledBehind'
    BY <1>0, <2>1, <1>4 DEF BeginRun
  <2> QED
    BY <2>1, <2>2, QuietStop
<1>5. CASE BumpStarted
  <2>1. /\ UNCHANGED << log, policy, called, index, countedFailures >>
        /\ pc \in InLoop /\ pc' \in InLoop
        /\ pc' \in Concluded => pc \in Concluded /\ UNCHANGED execution
        /\ pc \in Concluded => pc' \in Concluded
        /\ pc' # "bump_interrupted" /\ pc # "bump_interrupted"
    BY <1>5 DEF BumpStarted, Concluded
  <2>2. CalledBehind'
    BY <1>0, <2>1, <1>5 DEF BumpStarted
  <2> QED
    BY <2>1, <2>2, QuietStop
<1>6. CASE PrepareAdapter
  <2>1. /\ UNCHANGED << log, policy, called, index, countedFailures >>
        /\ pc \in InLoop /\ pc' \in InLoop
        /\ pc' \in Concluded => pc \in Concluded /\ UNCHANGED execution
        /\ pc \in Concluded => pc' \in Concluded
        /\ pc' # "bump_interrupted" /\ pc # "bump_interrupted"
    BY <1>6 DEF PrepareAdapter, Catch, ExecutorStep, Concluded
  <2>2. CalledBehind'
    BY <1>0, <2>1, <1>6 DEF PrepareAdapter, Catch, ExecutorStep
  <2> QED
    BY <2>1, <2>2, QuietStop
<1>7. CASE CallProvider
  <2>1. pc = "live" /\ index \in Runs /\ called' = [called EXCEPT ![index] = called[index] + 1]
        /\ UNCHANGED << log, policy, index, nextIndex, pc, countedFailures, execution >>
    BY <1>7, <1>0 DEF CallProvider, ExecutorStep
  <2>2. EarlierRuns' /\ CurrentRun'
    BY <2>1
    DEF StopInv, EarlierRuns, CurrentRun, NoStopBefore, CountedLinesBefore, Stops, Concluded
  <2>3. CalledBehind'
    BY <1>0, <2>1
  <2>4. ASSUME NEW r \in Runs, called'[r] > 0
        PROVE  /\ \A s \in 1 .. r - 1 : TerminalIn(log, s)
               /\ NoStopBefore(r)
               /\ policy.maxFailures # 0
                    => Cardinality(CountedLinesBefore(r)) < policy.maxFailures
    <3>1. CASE r = index
      BY <2>1, <3>1 DEF EarlierRuns
    <3>2. CASE r # index
      BY <1>0, <2>1, <2>4, <3>2, HonouredParts
    <3> QED
      BY <3>1, <3>2
  <2>5. StopHonoured'
    BY <2>1, <2>4 DEF StopHonoured, NoStopBefore, CountedLinesBefore, Stops
  <2> QED
    BY <2>2, <2>3, <2>5
<1>8. CASE EndLive
  <2>1. /\ UNCHANGED << log, policy, called, index, countedFailures >>
        /\ pc \in InLoop /\ pc' \in InLoop
        /\ pc' \in Concluded => pc \in Concluded /\ UNCHANGED execution
        /\ pc \in Concluded => pc' \in Concluded
        /\ pc' # "bump_interrupted" /\ pc # "bump_interrupted"
    BY <1>8 DEF EndLive, Catch, ExecutorStep, Concluded
  <2>2. CalledBehind'
    BY <1>0, <2>1, <1>8 DEF EndLive, Catch, ExecutorStep
  <2> QED
    BY <2>1, <2>2, QuietStop
<1>9. CASE PublishPair
  <2>1. /\ UNCHANGED << log, policy, called, index, countedFailures >>
        /\ pc \in InLoop /\ pc' \in InLoop
        /\ pc' \in Concluded => pc \in Concluded /\ UNCHANGED execution
        /\ pc \in Concluded => pc' \in Concluded
        /\ pc' # "bump_interrupted" /\ pc # "bump_interrupted"
    BY <1>9 DEF PublishPair, Catch, ExecutorStep, Concluded
  <2>2. CalledBehind'
    BY <1>0, <2>1, <1>9 DEF PublishPair, Catch, ExecutorStep
  <2> QED
    BY <2>1, <2>2, QuietStop
<1>10. CASE InterruptExecutor \/ InterruptReplaced
  <2>1. /\ UNCHANGED << log, policy, called, index, countedFailures >>
        /\ pc \in InLoop /\ pc' \in InLoop
        /\ pc' \in Concluded => pc \in Concluded /\ UNCHANGED execution
        /\ pc \in Concluded => pc' \in Concluded
        /\ pc' # "bump_interrupted" /\ pc # "bump_interrupted"
    BY <1>10 DEF InterruptExecutor, InterruptReplaced, Catch, Concluded
  <2>2. CalledBehind'
    BY <1>0, <2>1, <1>10 DEF InterruptExecutor, InterruptReplaced, Catch
  <2> QED
    BY <2>1, <2>2, QuietStop
<1>11. CASE AdapterCleared
  <2>1. /\ UNCHANGED << log, policy, called, index, countedFailures >>
        /\ pc \in InLoop /\ pc' \in InLoop
        /\ pc' \in Concluded => pc \in Concluded /\ UNCHANGED execution
        /\ pc \in Concluded => pc' \in Concluded
        /\ pc' # "bump_interrupted" /\ pc # "bump_interrupted"
    BY <1>11 DEF AdapterCleared, ExecutorStep, Concluded
  <2>2. CalledBehind'
    BY <1>0, <2>1, <1>11 DEF AdapterCleared, ExecutorStep
  <2> QED
    BY <2>1, <2>2, QuietStop
<1>12. CASE AdapterNotCleared
  <2>1. /\ UNCHANGED << log, policy, called, index, countedFailures >>
        /\ pc \in InLoop /\ pc' \in InLoop
        /\ pc' \in Concluded => pc \in Concluded /\ UNCHANGED execution
        /\ pc \in Concluded => pc' \in Concluded
        /\ pc' # "bump_interrupted" /\ pc # "bump_interrupted"
    BY <1>12 DEF AdapterNotCleared, Concluded
  <2>2. CalledBehind'
    BY <1>0, <2>1, <1>12 DEF AdapterNotCleared
  <2> QED
    BY <2>1, <2>2, QuietStop
<1>13. CASE Account
  <2>1. /\ UNCHANGED << log, policy, called, index, countedFailures >>
        /\ pc \in InLoop /\ pc' \in InLoop
        /\ pc' \in Concluded => pc \in Concluded /\ UNCHANGED execution
        /\ pc \in Concluded => pc' \in Concluded
        /\ pc' # "bump_interrupted" /\ pc # "bump_interrupted"
    BY <1>13 DEF Account, Concluded
  <2>2. CalledBehind'
    BY <1>0, <2>1, <1>13 DEF Account
  <2> QED
    BY <2>1, <2>2, QuietStop
<1>14. CASE BumpTerminal
  <2>1. /\ UNCHANGED << log, policy, called, index, countedFailures >>
        /\ pc \in InLoop /\ pc' \in InLoop
        /\ pc' \in Concluded => pc \in Concluded /\ UNCHANGED execution
        /\ pc \in Concluded => pc' \in Concluded
        /\ pc' # "bump_interrupted" /\ pc # "bump_interrupted"
    BY <1>14 DEF BumpTerminal, Concluded
  <2>2. CalledBehind'
    BY <1>0, <2>1, <1>14 DEF BumpTerminal
  <2> QED
    BY <2>1, <2>2, QuietStop
<1>15. CASE StopCheck
  <2> DEFINE n == Len(log)
             counted == execution.outcome \in CountedOutcomes
             failures == countedFailures + (IF counted THEN 1 ELSE 0)
             reason == StopAfter(failures)
  <2>1. /\ pc = "stop_check" /\ countedFailures' = failures
        /\ UNCHANGED << log, called, policy, nextIndex >>
        /\ \/ reason = "none" /\ index' = index + 1 /\ pc' = "check"
           \/ reason # "none" /\ index' = nextIndex /\ pc' = "tail"
    BY <1>15 DEF StopCheck, Stop
  <2>2. /\ n \in TerminalLines(log) /\ log[n].run = index /\ log[n].outcome = execution.outcome
        /\ log[n].status \in {"completed", "failed"}
        /\ \A i \in TerminalLines(log) : i # n => log[i].run < index
    BY <2>1 DEF CurrentRun, Concluded
  <2>3. /\ \A s \in 1 .. index - 1 : TerminalIn(log, s)
        /\ NoStopBefore(index) /\ countedFailures = Cardinality(CountedLinesBefore(index))
        /\ policy.maxFailures # 0 => countedFailures < policy.maxFailures
    BY <2>1 DEF EarlierRuns, InLoop
  <2>4. StopHonoured'
    BY <2>1 DEF StopHonoured, CountedLinesBefore, Stops
  <2>5. CalledBehind' /\ index \in Runs
    BY <1>0, <2>1
  <2>6. CASE pc' = "tail"
    BY <2>4, <2>5, <2>6 DEF EarlierRuns, CurrentRun, Concluded
  <2>7. CASE reason = "none" /\ index' = index + 1 /\ pc' = "check"
    <3>1. /\ execution.outcome \notin {"harness_failure", "cleanup_failure"}
          /\ counted => ~policy.failFast
          /\ counted /\ policy.maxFailures # 0 => ~(failures >= policy.maxFailures)
      BY <2>7 DEF StopAfter
    <3>2. NoStopBefore(index + 1)
      BY <1>0, <2>2, <2>3, <3>1 DEF NoStopBefore, Stops
    <3>3. CountedLinesBefore(index + 1)
            = IF counted THEN CountedLinesBefore(index) \cup {n} ELSE CountedLinesBefore(index)
      <4>1. \A i \in TerminalLines(log) : log[i].run < index + 1
        BY <1>0, <2>2, TerminalRuns
      <4>2. \A i \in TerminalLines(log) : log[i].run < index <=> i # n
        BY <1>0, <2>2, TerminalRuns
      <4>3. CASE counted
        BY <2>2, <4>1, <4>2, <4>3 DEF CountedLinesBefore
      <4>4. CASE ~counted
        BY <2>2, <4>1, <4>2, <4>4 DEF CountedLinesBefore
      <4> QED
        BY <4>3, <4>4
    <3>4. n \notin CountedLinesBefore(index)
      BY <1>0, <2>2 DEF CountedLinesBefore
    <3>5. failures = Cardinality(CountedLinesBefore(index + 1))
      <4>1. IsFiniteSet(CountedLinesBefore(index))
        BY <1>0, CountedFinite
      <4>2. Cardinality(CountedLinesBefore(index) \cup {n})
              = Cardinality(CountedLinesBefore(index)) + 1
        BY <3>4, <4>1, FS_AddElement
      <4> QED
        BY <1>0, <2>3, <3>3, <4>2
    <3>6. policy.maxFailures # 0 => failures < policy.maxFailures
      BY <1>0, <2>3, <3>1
    <3>7. \A s \in 1 .. index : TerminalIn(log, s)
      BY <1>0, <2>2, <2>3 DEF TerminalIn, TerminalLines, IsTerminal
    <3>8. EarlierRuns'
      <4>1. NoStopBefore(index)'
        BY <2>1, <2>7, <3>2 DEF NoStopBefore, Stops
      <4>2. (countedFailures = Cardinality(CountedLinesBefore(index)))'
        BY <2>1, <2>7, <3>5 DEF CountedLinesBefore
      <4>3. (\A s \in 1 .. index - 1 : TerminalIn(log, s))'
        BY <1>0, <2>1, <2>7, <3>7
      <4> QED
        BY <2>1, <3>6, <4>1, <4>2, <4>3 DEF EarlierRuns
    <3>9. CurrentRun'
      <4>1. \A i \in TerminalLines(log) : log[i].run < index + 1
        BY <1>0, <2>2, TerminalRuns
      <4> QED
        BY <2>1, <2>7, <4>1 DEF CurrentRun, Concluded
    <3> QED
      BY <2>4, <2>5, <3>8, <3>9
  <2> QED
    BY <2>1, <2>6, <2>7
<1>16. CASE BumpInterrupted
  <2>1. UNCHANGED << log, policy, called >> /\ pc' \in Tails
    BY <1>16 DEF BumpInterrupted, Tails
  <2>2. CalledBehind'
    BY <1>0, <1>16 DEF BumpInterrupted
  <2> QED
    BY <2>1, <2>2, QuietHonours DEF StopInv, EarlierRuns, CurrentRun, Concluded
<1>17. CASE InterruptScheduler
  <2>1. UNCHANGED << log, policy, called >> /\ pc' \in Tails
    BY <1>17 DEF InterruptScheduler, Tails
  <2>2. CalledBehind'
    BY <1>0, <1>17 DEF InterruptScheduler
  <2> QED
    BY <2>1, <2>2, QuietHonours DEF StopInv, EarlierRuns, CurrentRun, Concluded
<1>18. CASE CreateCampaign
  <2>1. \A r \in Runs : called[r] = 0
    BY <1>18, <1>0 DEF CreateCampaign, IInv, WriteAhead, StartedIn
  <2>2. TerminalLines(log') = {} /\ pc' = "check"
    BY <1>18 DEF CreateCampaign, TerminalLines, CampaignStarted
  <2>3. index = 1 /\ nextIndex = 1 /\ countedFailures = 0
        /\ UNCHANGED << index, nextIndex, countedFailures, called, policy >>
    BY <1>18 DEF CreateCampaign, FreshInv
  <2>4. NoStopBefore(index)' /\ CountedLinesBefore(index)' = {}
    BY <2>2 DEF NoStopBefore, CountedLinesBefore
  <2>5. Cardinality({}) = 0
    BY FS_EmptySet
  <2>6. EarlierRuns'
    <3>1. 1 .. index' - 1 = {} /\ (policy'.maxFailures # 0 => 0 < policy'.maxFailures)
      BY <1>0, <2>3
    <3> QED
      BY <2>3, <2>4, <2>5, <3>1 DEF EarlierRuns
  <2>7. StopHonoured' /\ CalledBehind'
    BY <2>1, <2>2, <2>3 DEF StopHonoured
  <2>8. CurrentRun'
    BY <2>2 DEF CurrentRun, Concluded
  <2> QED
    BY <2>6, <2>7, <2>8
<1>19. CASE AppendStarted
  <2>1. log' = Append(log, NextEvent)
        /\ UNCHANGED << policy, called, index, countedFailures, nextIndex >>
        /\ pc \in Appending
    BY <1>19 DEF AppendStarted, AppendCampaign, Appending, Tails
  <2>2. StopHonoured'
    BY <2>1, AppendStopHonoured
  <2>3. pc = "append_started" /\ pc' = "bump_started"
    BY <1>19 DEF AppendStarted
  <2>4. EarlierRuns'
    BY <2>1, <2>3, AppendKeepsEarlier
  <2>5. CurrentRun' /\ CalledBehind'
    <3>0. NextEvent \in Lines /\ ~Concludes(NextEvent)
      BY <2>1, <2>3, NextEventConcludes, NextEventTyped DEF TypeInv
    <3>1. TerminalLines(log') = TerminalLines(log)
          /\ \A i \in TerminalLines(log) : log'[i] = log[i]
      BY <1>0, <2>1, <3>0, AppendConcludes
    <3>2. \A i \in TerminalLines(log) : log[i].run < index
      BY <2>3 DEF CurrentRun, Concluded
    <3> QED
      BY <2>1, <2>3, <3>1, <3>2 DEF CurrentRun, Concluded
  <2> QED
    BY <2>2, <2>4, <2>5
<1>20. CASE AppendTerminal
  <2>1. log' = Append(log, NextEvent)
        /\ UNCHANGED << policy, called, index, countedFailures, nextIndex >>
        /\ pc \in Appending
    BY <1>20 DEF AppendTerminal, AppendCampaign, Appending, Tails
  <2>2. StopHonoured'
    BY <2>1, AppendStopHonoured
  <2>3. pc = "append_terminal" /\ pc' = "bump_terminal" /\ UNCHANGED execution
    BY <1>20 DEF AppendTerminal
  <2>4. EarlierRuns'
    BY <2>1, <2>3, AppendKeepsEarlier
  <2>5. /\ Concludes(NextEvent) /\ NextEvent.run = index /\ NextEvent.outcome = execution.outcome
        /\ NextEvent.status \in {"completed", "failed"} /\ NextEvent \in Lines
    BY <2>1, <2>3, NextEventConcludes, NextEventTyped DEF TypeInv
  <2>6. /\ Len(log) \in Nat /\ Len(log') = Len(log) + 1 /\ log'[Len(log) + 1] = NextEvent
        /\ \A i \in TerminalLines(log) : log'[i] = log[i]
        /\ TerminalLines(log') = TerminalLines(log) \cup {Len(log) + 1}
    BY <1>0, <2>1, <2>5, AppendConcludes
  <2>7. \A i \in TerminalLines(log) : log[i].run < index
    BY <2>3 DEF CurrentRun, Concluded
  <2>8. CurrentRun'
    BY <2>1, <2>3, <2>5, <2>6, <2>7 DEF CurrentRun, Concluded
  <2>9. CalledBehind'
    BY <2>1, <2>3
  <2> QED
    BY <2>2, <2>4, <2>8, <2>9
<1>21. CASE AppendInterrupted
  <2>1. log' = Append(log, NextEvent)
        /\ UNCHANGED << policy, called, index, countedFailures, nextIndex >>
        /\ pc \in Appending
    BY <1>21 DEF AppendInterrupted, AppendCampaign, Appending, Tails
  <2>2. StopHonoured'
    BY <2>1, AppendStopHonoured
  <2>3. pc = "append_interrupted" /\ pc' = "bump_interrupted"
    BY <1>21 DEF AppendInterrupted
  <2>4. EarlierRuns'
    BY <2>1, <2>3, AppendKeepsEarlier
  <2>5. CurrentRun' /\ CalledBehind'
    BY <2>1, <2>3 DEF CurrentRun, Concluded
  <2> QED
    BY <2>2, <2>4, <2>5
<1>22. CASE AppendNotRun
  <2>1. log' = Append(log, NextEvent)
        /\ UNCHANGED << policy, called, pc >>
        /\ pc \in Tails /\ pc \in Appending /\ index' = index + 1
    BY <1>22 DEF AppendNotRun, AppendCampaign, Appending, Tails
  <2>2. StopHonoured'
    BY <2>1, AppendStopHonoured
  <2>3. CalledBehind'
    BY <1>0, <2>1
  <2>4. EarlierRuns' /\ CurrentRun'
    BY <2>1 DEF EarlierRuns, CurrentRun, Concluded
  <2> QED
    BY <2>2, <2>3, <2>4
<1>23. CASE AppendFinished
  <2>1. log' = Append(log, NextEvent) /\ pc \in Appending /\ UNCHANGED << policy, called >>
    BY <1>23 DEF AppendFinished, AppendCampaign, Appending, Tails
  <2>2. StopHonoured'
    BY <2>1, AppendStopHonoured
  <2> QED
    BY <1>23, <2>2, ExitStop DEF AppendFinished
<1>24. CASE AppendFails
  <2>1. pc \in Appending /\ UNCHANGED << policy, called >>
        /\ log' \in {log, Append(log, TornLine), Append(log, NextEvent)}
    BY <1>24 DEF AppendFails
  <2>2. StopHonoured'
    <3>1. CASE log' = log
      BY <2>1, <3>1, QuietHonours
    <3>2. CASE log' \in {Append(log, TornLine), Append(log, NextEvent)}
      BY <2>1, <3>2, AppendStopHonoured
    <3> QED
      BY <2>1, <3>1, <3>2
  <2> QED
    BY <1>24, <2>2, ExitStop DEF AppendFails
<1>25. CASE RefuseCampaign
  BY <1>25, QuietHonours, ExitStop DEF RefuseCampaign
<1>26. CASE PropagateOther
  BY <1>26, QuietHonours, ExitStop DEF PropagateOther
<1>27. CASE InterruptTail
  BY <1>27, QuietHonours, ExitStop DEF InterruptTail
<1>28. CASE Crash
  BY <1>28, QuietHonours, ExitStop DEF Crash
<1>29. CASE UNCHANGED vars
  <2>1. UNCHANGED << log, called, policy, pc, index, nextIndex, countedFailures, execution >>
    BY <1>29 DEF vars
  <2>2. EarlierRuns' /\ CurrentRun' /\ CalledBehind'
    BY <2>1 DEF EarlierRuns, CurrentRun, NoStopBefore, CountedLinesBefore, Stops, Concluded
  <2> QED
    BY <2>1, <2>2, QuietHonours
<1> QED
  BY <1>1, <1>2, <1>3, <1>4, <1>5, <1>6, <1>7, <1>8, <1>9, <1>10, <1>11, <1>12, <1>13,
     <1>14, <1>15, <1>16, <1>17, <1>18, <1>19, <1>20, <1>21, <1>22, <1>23, <1>24, <1>25,
     <1>26, <1>27, <1>28, <1>29 DEF Next, ProgramStep, Done

(* Every step keeps FreshInv.                                              *)
LEMMA FreshStep ==
  ASSUME FreshInv, [Next]_vars
  PROVE  FreshInv'
<1> USE DEF environment, locals, executorLocals, FreshInv, Executing, Bookkeeping, Tails
<1>1. CASE Invoke
  BY <1>1 DEF Invoke
<1>2. CASE LoopEnds
  BY <1>2 DEF LoopEnds, Tails
<1>3. CASE StopBeforeRun
  BY <1>3 DEF StopBeforeRun, Stop
<1>4. CASE BeginRun
  BY <1>4 DEF BeginRun
<1>5. CASE BumpStarted
  BY <1>5 DEF BumpStarted
<1>6. CASE PrepareAdapter
  BY <1>6 DEF PrepareAdapter, Catch, ExecutorStep
<1>7. CASE CallProvider
  BY <1>7 DEF CallProvider, ExecutorStep
<1>8. CASE EndLive
  BY <1>8 DEF EndLive, Catch, ExecutorStep
<1>9. CASE PublishPair
  BY <1>9 DEF PublishPair, Catch, ExecutorStep
<1>10. CASE InterruptExecutor \/ InterruptReplaced
  BY <1>10 DEF InterruptExecutor, InterruptReplaced, Catch
<1>11. CASE AdapterCleared
  BY <1>11 DEF AdapterCleared, ExecutorStep, HarnessFailure
<1>12. CASE AdapterNotCleared
  BY <1>12 DEF AdapterNotCleared
<1>13. CASE Account
  BY <1>13 DEF Account
<1>14. CASE BumpTerminal
  BY <1>14 DEF BumpTerminal
<1>15. CASE StopCheck
  BY <1>15 DEF StopCheck, Stop
<1>16. CASE BumpInterrupted
  BY <1>16 DEF BumpInterrupted
<1>17. CASE InterruptScheduler
  BY <1>17 DEF InterruptScheduler
<1>18. CASE CreateCampaign
  BY <1>18 DEF CreateCampaign
<1>19. CASE AppendStarted
  BY <1>19 DEF AppendStarted
<1>20. CASE AppendTerminal
  BY <1>20 DEF AppendTerminal
<1>21. CASE AppendInterrupted
  BY <1>21 DEF AppendInterrupted
<1>22. CASE AppendNotRun
  BY <1>22 DEF AppendNotRun, Tails
<1>23. CASE AppendFinished
  BY <1>23 DEF AppendFinished, Exit
<1>24. CASE AppendFails
  BY <1>24 DEF AppendFails, Exit, Appending, Tails
<1>25. CASE RefuseCampaign
  BY <1>25 DEF RefuseCampaign, Exit
<1>26. CASE PropagateOther
  BY <1>26 DEF PropagateOther, Exit
<1>27. CASE InterruptTail
  BY <1>27 DEF InterruptTail, Exit
<1>28. CASE Crash
  BY <1>28 DEF Crash, Exit
<1>29. CASE UNCHANGED vars
  BY <1>29 DEF vars
<1> QED
  BY <1>1, <1>2, <1>3, <1>4, <1>5, <1>6, <1>7, <1>8, <1>9, <1>10, <1>11, <1>12, <1>13,
     <1>14, <1>15, <1>16, <1>17, <1>18, <1>19, <1>20, <1>21, <1>22, <1>23, <1>24, <1>25,
     <1>26, <1>27, <1>28, <1>29 DEF Next, ProgramStep, Done

(* A stop condition that was met ends the Campaign: when a run's Provider  *)
(* has been called, every run before it was concluded in the file and no   *)
(* line of theirs should have stopped the loop, for every Plan length, any *)
(* stop conditions, and signals, crashes and failed appends anywhere.      *)
THEOREM StopConditionsHonoured == Spec => []StopHonoured
<1>1. Init => StopInv /\ FreshInv
  BY StopInit
<1>2. IInv /\ StopInv /\ FreshInv /\ [Next]_vars => (StopInv /\ FreshInv)'
  BY StopStep, FreshStep, IInvParts
<1>3. StopInv => StopHonoured
  BY DEF StopInv
<1> QED
  BY <1>1, <1>2, <1>3, Inductive, PTL DEF Spec

-----------------------------------------------------------------------------
(***************************************************************************)
(* The scheduler implements CampaignJournal for every Plan length and      *)
(* every bound: each of its steps is a step of the abstract Campaign or    *)
(* leaves it as it is, with status and phase read off the Campaign file.   *)
(* The signals have to land where the counters agree with the file: in the *)
(* other windows the handler declares a run not_run that was called.       *)
(***************************************************************************)

CountersAgree ==
  InterruptLocations \cap Bookkeeping \subseteq {"check", "append_started", "stop_check"}

(* What a file says of a run: JournalPhase, for any file.                  *)
PhaseIn(f, r) ==
  IF NotRunIn(f, r) THEN "not_run"
  ELSE IF EndedIn(f, r) THEN "ended"
  ELSE IF StartedIn(f, r) THEN "started" ELSE "planned"

EndedRun == {"bump_terminal", "stop_check", "bump_interrupted"}

(* A running invocation works on an open Campaign.                         *)
FileOpen == pc \notin {"idle", "create"} => log # << >> /\ ~FinishedIn(log)

(* An invocation starts at the first run, and next_index lags behind only  *)
(* between the executor and the stop check.                                *)
Position ==
  /\ pc \in {"idle", "create"} => index = 1 /\ nextIndex = 1
  /\ pc \in InLoop \ {"stop_check"} => nextIndex = index
  /\ pc = "stop_check" => nextIndex = index + 1

(* The file says of every run what the location of the program implies; a  *)
(* tail without a stop reason has no run left.                             *)
PhasesFit ==
  /\ pc \in InLoop => \A r \in Runs :
       /\ r < index => PhaseIn(log, r) = "ended"
       /\ r > index => PhaseIn(log, r) = "planned"
  /\ pc \in {"check", "append_started"} =>
       \A r \in Runs : r = index => PhaseIn(log, r) = "planned"
  /\ pc \in InRun \ (EndedRun \cup {"append_started"}) => PhaseIn(log, index) = "started"
  /\ pc \in EndedRun => PhaseIn(log, index) = "ended"
  /\ pc \in Tails => \A r \in Runs :
       /\ r < index => PhaseIn(log, r) \in {"ended", "not_run"}
       /\ r >= index => PhaseIn(log, r) = "planned"
  /\ pc = "tail" /\ stopReason = "none" => index = RunCount + 1

RefInv == FileOpen /\ Position /\ PhasesFit

-----------------------------------------------------------------------------
(* What an append does to the phases.                                      *)

(* The new line counts beside the old ones.                                *)
LEMMA AppendExists ==
  ASSUME NEW f \in Seq(Lines), NEW e \in Lines, NEW r
  PROVE  LET g == Append(f, e) IN
         /\ g # << >>
         /\ NotRunIn(g, r) <=> NotRunIn(f, r) \/ (IsTerminal(e, r) /\ e.status = "not_run")
         /\ EndedIn(g, r) <=> EndedIn(f, r) \/ (IsTerminal(e, r) /\ e.status # "not_run")
         /\ StartedIn(g, r) <=> StartedIn(f, r) \/ IsStarted(e, r)
         /\ FinishedIn(g) <=> FinishedIn(f) \/ e.type = "campaign_finished"
<1> DEFINE g == Append(f, e)
<1>1. /\ g # << >> /\ Len(f) \in Nat
      /\ DOMAIN f = 1 .. Len(f) /\ DOMAIN g = 1 .. Len(f) + 1
      /\ g[Len(f) + 1] = e /\ \A i \in DOMAIN f : g[i] = f[i]
  OBVIOUS
<1>2. \A i : i \in DOMAIN g <=> i \in DOMAIN f \/ i = Len(f) + 1
  BY <1>1
<1> HIDE DEF g
<1>3. NotRunIn(g, r) <=> NotRunIn(f, r) \/ (IsTerminal(e, r) /\ e.status = "not_run")
  BY <1>1, <1>2 DEF NotRunIn
<1>4. EndedIn(g, r) <=> EndedIn(f, r) \/ (IsTerminal(e, r) /\ e.status # "not_run")
  BY <1>1, <1>2 DEF EndedIn
<1>5. StartedIn(g, r) <=> StartedIn(f, r) \/ IsStarted(e, r)
  BY <1>1, <1>2 DEF StartedIn
<1>6. FinishedIn(g) <=> FinishedIn(f) \/ e.type = "campaign_finished"
  BY <1>1, <1>2 DEF FinishedIn
<1> QED
  BY <1>1, <1>3, <1>4, <1>5, <1>6 DEF g

(* A line that is no event of a run changes no phase.                      *)
LEMMA AppendOther ==
  ASSUME NEW f \in Seq(Lines), NEW e \in Lines, NEW r, e.type # "run_state" \/ e.run # r
  PROVE  PhaseIn(Append(f, e), r) = PhaseIn(f, r)
BY AppendExists DEF PhaseIn, IsStarted, IsTerminal

(* A line about a run moves it to the phase the line names.                *)
LEMMA AppendMoves ==
  ASSUME NEW f \in Seq(Lines), NEW e \in Lines, NEW r, e.type = "run_state", e.run = r
  PROVE  /\ e.status = "started" /\ PhaseIn(f, r) = "planned" =>
              PhaseIn(Append(f, e), r) = "started"
         /\ e.status = "not_run" => PhaseIn(Append(f, e), r) = "not_run"
         /\ e.status \notin {"started", "not_run"} /\ PhaseIn(f, r) = "started" =>
              PhaseIn(Append(f, e), r) = "ended"
BY AppendExists DEF PhaseIn, IsStarted, IsTerminal

(* The line the program writes next.                                       *)
LEMMA NextLine ==
  ASSUME TypeInv, pc \in Appending
  PROVE  /\ NextEvent \in Lines /\ TornLine \in Lines
         /\ pc = "append_started" =>
              NextEvent.type = "run_state" /\ NextEvent.run = index
              /\ NextEvent.status = "started" /\ index \in Runs
         /\ pc \in {"append_terminal", "append_interrupted"} =>
              NextEvent.type = "run_state" /\ NextEvent.run = index
              /\ NextEvent.status \notin {"started", "not_run"} /\ index \in Runs
         /\ pc \in Tails /\ WritesNotRun =>
              NextEvent.type = "run_state" /\ NextEvent.run = index
              /\ NextEvent.status = "not_run" /\ index \in Runs
         /\ pc \in Tails /\ ~WritesNotRun => NextEvent.type = "campaign_finished"
<1>1. NextEvent \in Lines /\ TornLine \in Lines
  BY NextEventTyped DEF TypeInv, Lines
<1>2. pc \in InRun \/ (pc \in Tails /\ WritesNotRun) => index \in Runs
  BY RunCountAssumption DEF TypeInv, TypeOK, IndexInPlan, WritesNotRun, Runs
<1>3. CASE pc = "append_started"
  BY <1>1, <1>2, <1>3 DEF NextEvent, RunEvent, Tails, InRun, Bookkeeping
<1>4. CASE pc = "append_terminal"
  BY <1>1, <1>2, <1>4 DEF NextEvent, RunEvent, StatusOf, Tails, InRun, Bookkeeping
<1>5. CASE pc = "append_interrupted"
  BY <1>1, <1>2, <1>5 DEF NextEvent, RunEvent, Tails, InRun, Bookkeeping
<1>6. CASE pc \in Tails /\ WritesNotRun
  BY <1>1, <1>2, <1>6 DEF NextEvent, RunEvent, Tails
<1>7. CASE pc \in Tails /\ ~WritesNotRun
  BY <1>1, <1>7 DEF NextEvent, CampaignFinished, Tails
<1> QED
  BY <1>3, <1>4, <1>5, <1>6, <1>7 DEF Appending, Tails

-----------------------------------------------------------------------------
(* What the steps are to the abstract Campaign.                            *)

(* The refinement mapping, now and after a step.                           *)
LEMMA PhaseMap ==
  /\ JournalPhase = [r \in Runs |-> PhaseIn(log, r)]
  /\ JournalPhase' = [r \in Runs |-> PhaseIn(log', r)]
BY DEF JournalPhase, PhaseIn

(* A step that changes neither the file nor the calls is a stutter.        *)
LEMMA SameFile ==
  ASSUME UNCHANGED << log, called >>
  PROVE  UNCHANGED Journal!journalVars
BY DEF Journal!journalVars, JournalStatus, JournalPhase

(* A torn line leaves the abstract Campaign as it is.                      *)
LEMMA TornSimulates ==
  ASSUME log \in Seq(Lines), log # << >>, log' = Append(log, TornLine), UNCHANGED called
  PROVE  UNCHANGED Journal!journalVars
<1>1. TornLine \in Lines /\ TornLine.type = "torn"
  BY DEF TornLine, Lines
<1>2. \A r : PhaseIn(log', r) = PhaseIn(log, r)
  BY <1>1, AppendOther
<1>3. log' # << >> /\ (FinishedIn(log') <=> FinishedIn(log))
  BY <1>1, AppendExists
<1> QED
  BY <1>2, <1>3, PhaseMap DEF Journal!journalVars, JournalStatus

(* An append moves the run it is about.                                    *)
LEMMA MoveSimulates ==
  ASSUME log \in Seq(Lines), log # << >>, ~FinishedIn(log), NEW e \in Lines,
         log' = Append(log, e), UNCHANGED called,
         e.type = "run_state", e.run \in Runs,
         NEW from, NEW to, PhaseIn(log, e.run) = from, PhaseIn(log', e.run) = to
  PROVE  Journal!Advance(e.run, from, to)
<1>1. \A r \in Runs : r # e.run => PhaseIn(log', r) = PhaseIn(log, r)
  BY AppendOther
<1>2. log' # << >> /\ ~FinishedIn(log')
  BY AppendExists
<1>3. JournalPhase' = [JournalPhase EXCEPT ![e.run] = to]
  BY <1>1, PhaseMap
<1>4. JournalPhase[e.run] = from
  BY PhaseMap
<1> QED
  BY <1>2, <1>3, <1>4 DEF Journal!Advance, JournalStatus

(* Every line the program appends is a step of the abstract Campaign.      *)
LEMMA AppendSimulates ==
  ASSUME TypeInv, RefInv, pc \in Appending, AppendCampaign, UNCHANGED called
  PROVE  Journal!Next
<1> DEFINE e == NextEvent
<1>1. log \in Seq(Lines) /\ e \in Lines /\ log' = Append(log, e)
  BY NextLine DEF TypeInv, TypeOK, AppendCampaign
<1>2. log # << >> /\ ~FinishedIn(log)
  BY DEF RefInv, FileOpen, Appending
<1>3. index \in 1 .. RunCount + 1 /\ RunCount \in Nat
  BY RunCountAssumption DEF TypeInv, TypeOK
<1>4. CASE pc = "append_started"
  <2>1. e.type = "run_state" /\ e.run = index /\ e.status = "started" /\ index \in Runs
    BY <1>4, NextLine
  <2>2. PhaseIn(log, index) = "planned"
        /\ \A r \in Runs : r < index => PhaseIn(log, r) = "ended"
    BY <1>4, <2>1 DEF RefInv, PhasesFit, InLoop, InRun, Bookkeeping
  <2>3. PhaseIn(log', index) = "started"
    BY <1>1, <2>1, <2>2, AppendMoves
  <2>4. Journal!Advance(index, "planned", "started")
    BY <1>1, <1>2, <2>1, <2>2, <2>3, MoveSimulates
  <2>5. \A s \in 1 .. index - 1 : JournalPhase[s] = "ended"
    BY <1>3, <2>2, PhaseMap DEF Runs
  <2> QED
    BY <2>1, <2>4, <2>5 DEF Journal!Next, Journal!Start, Journal!Runs, Runs
<1>5. CASE pc \in {"append_terminal", "append_interrupted"}
  <2>1. e.type = "run_state" /\ e.run = index /\ e.status \notin {"started", "not_run"}
        /\ index \in Runs
    BY <1>5, NextLine
  <2>2. PhaseIn(log, index) = "started"
    BY <1>5 DEF RefInv, PhasesFit, InRun, Bookkeeping, EndedRun
  <2>3. PhaseIn(log', index) = "ended"
    BY <1>1, <2>1, <2>2, AppendMoves
  <2>4. Journal!Advance(index, "started", "ended")
    BY <1>1, <1>2, <2>1, <2>2, <2>3, MoveSimulates
  <2> QED
    BY <2>1, <2>4 DEF Journal!Next, Journal!End, Journal!Runs, Runs
<1>6. CASE pc \in Tails /\ WritesNotRun
  <2>1. e.type = "run_state" /\ e.run = index /\ e.status = "not_run" /\ index \in Runs
    BY <1>6, NextLine
  <2>2. PhaseIn(log, index) = "planned"
        /\ \A r \in Runs : r < index => PhaseIn(log, r) \in {"ended", "not_run"}
    BY <1>3, <1>6, <2>1 DEF RefInv, PhasesFit, Tails
  <2>3. PhaseIn(log', index) = "not_run"
    BY <1>1, <2>1, AppendMoves
  <2>4. Journal!Advance(index, "planned", "not_run")
    BY <1>1, <1>2, <2>1, <2>2, <2>3, MoveSimulates
  <2>5. \A s \in 1 .. index - 1 : JournalPhase[s] \in {"ended", "not_run"}
    BY <1>3, <2>2, PhaseMap DEF Runs
  <2> QED
    BY <2>1, <2>4, <2>5 DEF Journal!Next, Journal!Skip, Journal!Runs, Runs
<1>7. CASE pc \in Tails /\ ~WritesNotRun
  <2>1. e.type = "campaign_finished"
    BY <1>7, NextLine
  <2>2. index = RunCount + 1
    BY <1>3, <1>7 DEF RefInv, PhasesFit, WritesNotRun, ClosingReason, Tails
  <2>3. \A r \in Runs : JournalPhase[r] \in {"ended", "not_run"}
    BY <1>3, <1>7, <2>2, PhaseMap DEF RefInv, PhasesFit, Tails, Runs
  <2>4. log' # << >> /\ FinishedIn(log')
    BY <1>1, <2>1, AppendExists
  <2>5. \A r : PhaseIn(log', r) = PhaseIn(log, r)
    BY <1>1, <2>1, AppendOther
  <2>6. JournalPhase' = JournalPhase
    BY <2>5, PhaseMap
  <2> QED
    BY <1>2, <2>3, <2>4, <2>6 DEF Journal!Next, Journal!Close, Journal!Runs, Runs, JournalStatus
<1> QED
  BY <1>4, <1>5, <1>6, <1>7 DEF Appending, Tails

(* So is the creation of the file,                                         *)
LEMMA CreateSimulates ==
  ASSUME TypeInv, CreateCampaign
  PROVE  Journal!Next
<1>1. log = << >> /\ log' = << CampaignStarted >> /\ UNCHANGED called
  BY DEF CreateCampaign
<1>2. log' = Append(<< >>, CampaignStarted) /\ << >> \in Seq(Lines) /\ CampaignStarted \in Lines
      /\ CampaignStarted.type = "campaign_started"
  BY <1>1 DEF Lines, CampaignStarted
<1>3. \A r : PhaseIn(log', r) = PhaseIn(log, r)
  BY <1>1, <1>2, AppendOther
<1>4. log' # << >> /\ ~FinishedIn(log')
  BY <1>1, <1>2, AppendExists DEF FinishedIn
<1> QED
  BY <1>1, <1>3, <1>4, PhaseMap DEF Journal!Next, Journal!Open, JournalStatus

(* and the call of a Provider.                                             *)
LEMMA CallSimulates ==
  ASSUME IInv, RefInv, CallProvider
  PROVE  Journal!Next
<1>1. /\ pc = "live" /\ stage = "not_attempted" /\ UNCHANGED log
      /\ called' = [called EXCEPT ![index] = called[index] + 1]
  BY DEF CallProvider, ExecutorStep
<1>2. index \in Runs /\ called[index] = 0
  BY <1>1, RunCountAssumption
  DEF IInv, TypeOK, IndexInPlan, InRun, Executing, Runs, CurrentUncalled
<1>3. PhaseIn(log, index) = "started" /\ log # << >> /\ ~FinishedIn(log)
  BY <1>1 DEF RefInv, FileOpen, PhasesFit, InRun, Executing, EndedRun
<1>4. JournalPhase[index] = "started" /\ JournalStatus = "open"
  BY <1>2, <1>3, PhaseMap DEF JournalStatus
<1>5. UNCHANGED << JournalPhase, JournalStatus >>
  BY <1>1 DEF JournalPhase, JournalStatus
<1>6. called' = [called EXCEPT ![index] = 1]
  BY <1>1, <1>2
<1> QED
  BY <1>2, <1>4, <1>5, <1>6 DEF Journal!Next, Journal!Call, Journal!Runs, Runs

-----------------------------------------------------------------------------
(* The invariant.                                                          *)

(* The end of an invocation keeps RefInv: nothing is claimed while none    *)
(* runs.                                                                   *)
LEMMA ExitRef ==
  ASSUME NEW how, Exit(how)
  PROVE  RefInv'
BY DEF Exit, RefInv, FileOpen, Position, PhasesFit, InLoop, InRun, Executing, Bookkeeping,
       EndedRun, Tails

(* The initial states satisfy RefInv and map to the initial states of the  *)
(* abstract Campaign.                                                      *)
LEMMA RefInit ==
  ASSUME Init
  PROVE  RefInv /\ Journal!Init
<1>1. RefInv
  BY DEF Init, FreshLocals, RefInv, FileOpen, Position, PhasesFit, InLoop, InRun,
         Executing, Bookkeeping, EndedRun, Tails
<1>2. \A r : PhaseIn(log, r) = "planned"
  BY DEF Init, PhaseIn, NotRunIn, EndedIn, StartedIn
<1> QED
  BY <1>1, <1>2, PhaseMap DEF Init, Journal!Init, Journal!Runs, Runs, JournalStatus

(* Every step keeps RefInv as long as the counters agree with the file     *)
(* wherever a signal lands.                                                *)
LEMMA RefStep ==
  ASSUME CountersAgree, TypeInv, RefInv, [Next]_vars
  PROVE  RefInv'
<1> USE DEF environment, locals, executorLocals, InLoop, InRun, Executing, Bookkeeping, Tails,
            EndedRun, Runs
<1>0. /\ index \in 1 .. RunCount + 1 /\ RunCount \in Nat /\ log \in Seq(Lines)
      /\ pc \in InRun => index \in Runs
  BY RunCountAssumption DEF TypeInv, TypeOK, IndexInPlan
<1>1. CASE Invoke
  BY <1>0, <1>1 DEF Invoke, RefInv, FileOpen, Position, PhasesFit
<1>2. CASE CreateCampaign
  <2>1. log = << >> /\ log' = << CampaignStarted >> /\ pc' = "check"
        /\ UNCHANGED << index, nextIndex, stopReason >>
    BY <1>2 DEF CreateCampaign
  <2>2. log' = Append(<< >>, CampaignStarted) /\ << >> \in Seq(Lines)
        /\ CampaignStarted \in Lines
        /\ CampaignStarted.type = "campaign_started"
    BY <2>1 DEF Lines, CampaignStarted
  <2>3. \A r : PhaseIn(log', r) = "planned"
    <3>1. \A r : PhaseIn(<< >>, r) = "planned"
      BY DEF PhaseIn, NotRunIn, EndedIn, StartedIn
    <3> QED
      BY <2>2, <3>1, AppendOther
  <2>4. log' # << >> /\ ~FinishedIn(log')
    BY <2>2, AppendExists DEF FinishedIn
  <2>5. index = 1 /\ nextIndex = 1
    BY <1>2 DEF CreateCampaign, RefInv, Position
  <2> QED
    BY <1>0, <2>1, <2>3, <2>4, <2>5 DEF RefInv, FileOpen, Position, PhasesFit
<1>3. CASE RefuseCampaign
  <2>1. \E how : Exit(how)
    BY <1>3 DEF RefuseCampaign
  <2> QED
    BY <2>1, ExitRef
<1>4. CASE LoopEnds
  BY <1>0, <1>4 DEF LoopEnds, RefInv, FileOpen, Position, PhasesFit
<1>5. CASE StopBeforeRun
  BY <1>0, <1>5 DEF StopBeforeRun, Stop, RefInv, FileOpen, Position, PhasesFit
<1>6. CASE BeginRun
  BY <1>0, <1>6 DEF BeginRun, RefInv, FileOpen, Position, PhasesFit
<1>7. CASE AppendStarted
  <2> DEFINE e == NextEvent
  <2>1. pc = "append_started" /\ pc' = "bump_started"
        /\ log' = Append(log, e) /\ e \in Lines /\ UNCHANGED << index, nextIndex, stopReason >>
        /\ e.type = "run_state" /\ e.run = index /\ index \in Runs
    BY <1>7, NextLine DEF AppendStarted, AppendCampaign, Appending
  <2>2. PhaseIn(log', index) = "started"
    BY <1>0, <1>7, <2>1, NextLine, AppendMoves DEF RefInv, PhasesFit, Appending
  <2>3. \A r \in Runs : r # index => PhaseIn(log', r) = PhaseIn(log, r)
    BY <1>0, <2>1, AppendOther
  <2>4. log' # << >> /\ ~FinishedIn(log')
    BY <1>0, <2>1, AppendExists DEF RefInv, FileOpen
  <2> QED
    BY <1>0, <2>1, <2>2, <2>3, <2>4 DEF RefInv, FileOpen, Position, PhasesFit
<1>8. CASE BumpStarted
  BY <1>0, <1>8 DEF BumpStarted, RefInv, FileOpen, Position, PhasesFit
<1>9. CASE PrepareAdapter
  BY <1>0, <1>9 DEF PrepareAdapter, ExecutorStep, Catch, RefInv, FileOpen, Position, PhasesFit
<1>10. CASE CallProvider
  BY <1>0, <1>10 DEF CallProvider, ExecutorStep, Catch, RefInv, FileOpen, Position, PhasesFit
<1>11. CASE EndLive
  BY <1>0, <1>11 DEF EndLive, ExecutorStep, Catch, RefInv, FileOpen, Position, PhasesFit
<1>12. CASE PublishPair
  BY <1>0, <1>12 DEF PublishPair, ExecutorStep, Catch, RefInv, FileOpen, Position, PhasesFit
<1>13. CASE AdapterCleared
  BY <1>0, <1>13 DEF AdapterCleared, ExecutorStep, Catch, RefInv, FileOpen, Position, PhasesFit
<1>14. CASE PropagateOther
  <2>1. \E how : Exit(how)
    BY <1>14 DEF PropagateOther
  <2> QED
    BY <2>1, ExitRef
<1>15. CASE AdapterNotCleared
  BY <1>0, <1>15 DEF AdapterNotCleared, RefInv, FileOpen, Position, PhasesFit
<1>16. CASE Account
  BY <1>0, <1>16 DEF Account, RefInv, FileOpen, Position, PhasesFit
<1>17. CASE AppendTerminal
  <2> DEFINE e == NextEvent
  <2>1. pc = "append_terminal" /\ pc' = "bump_terminal"
        /\ log' = Append(log, e) /\ e \in Lines /\ UNCHANGED << index, nextIndex, stopReason >>
        /\ e.type = "run_state" /\ e.run = index /\ index \in Runs
    BY <1>17, NextLine DEF AppendTerminal, AppendCampaign, Appending
  <2>2. PhaseIn(log', index) = "ended"
    BY <1>0, <1>17, <2>1, NextLine, AppendMoves DEF RefInv, PhasesFit, Appending
  <2>3. \A r \in Runs : r # index => PhaseIn(log', r) = PhaseIn(log, r)
    BY <1>0, <2>1, AppendOther
  <2>4. log' # << >> /\ ~FinishedIn(log')
    BY <1>0, <2>1, AppendExists DEF RefInv, FileOpen
  <2> QED
    BY <1>0, <2>1, <2>2, <2>3, <2>4 DEF RefInv, FileOpen, Position, PhasesFit
<1>18. CASE BumpTerminal
  BY <1>0, <1>18 DEF BumpTerminal, RefInv, FileOpen, Position, PhasesFit
<1>19. CASE StopCheck
  BY <1>0, <1>19 DEF StopCheck, Stop, RefInv, FileOpen, Position, PhasesFit
<1>20. CASE AppendInterrupted
  <2> DEFINE e == NextEvent
  <2>1. pc = "append_interrupted" /\ pc' = "bump_interrupted"
        /\ log' = Append(log, e) /\ e \in Lines /\ UNCHANGED << index, nextIndex, stopReason >>
        /\ e.type = "run_state" /\ e.run = index /\ index \in Runs
    BY <1>20, NextLine DEF AppendInterrupted, AppendCampaign, Appending
  <2>2. PhaseIn(log', index) = "ended"
    BY <1>0, <1>20, <2>1, NextLine, AppendMoves DEF RefInv, PhasesFit, Appending
  <2>3. \A r \in Runs : r # index => PhaseIn(log', r) = PhaseIn(log, r)
    BY <1>0, <2>1, AppendOther
  <2>4. log' # << >> /\ ~FinishedIn(log')
    BY <1>0, <2>1, AppendExists DEF RefInv, FileOpen
  <2> QED
    BY <1>0, <2>1, <2>2, <2>3, <2>4 DEF RefInv, FileOpen, Position, PhasesFit
<1>21. CASE BumpInterrupted
  BY <1>0, <1>21 DEF BumpInterrupted, RefInv, FileOpen, Position, PhasesFit
<1>22. CASE AppendNotRun
  <2> DEFINE e == NextEvent
  <2>1. pc \in Tails /\ pc' = pc /\ log' = Append(log, e) /\ e \in Lines
        /\ index' = index + 1 /\ UNCHANGED stopReason
        /\ e.type = "run_state" /\ e.run = index /\ e.status = "not_run" /\ index \in Runs
    BY <1>22, NextLine DEF AppendNotRun, AppendCampaign, Appending
  <2>2. PhaseIn(log', index) = "not_run"
    BY <1>0, <2>1, AppendMoves
  <2>3. \A r \in Runs : r # index => PhaseIn(log', r) = PhaseIn(log, r)
    BY <1>0, <2>1, AppendOther
  <2>4. log' # << >> /\ ~FinishedIn(log')
    BY <1>0, <2>1, AppendExists DEF RefInv, FileOpen
  <2>5. ~(pc = "tail" /\ stopReason = "none")
    BY <1>22 DEF AppendNotRun, WritesNotRun, ClosingReason
  <2> QED
    BY <1>0, <2>1, <2>2, <2>3, <2>4, <2>5 DEF RefInv, FileOpen, Position, PhasesFit
<1>23. CASE AppendFinished
  <2>1. \E how : Exit(how)
    BY <1>23 DEF AppendFinished
  <2> QED
    BY <2>1, ExitRef
<1>24. CASE AppendFails
  <2>1. \E how : Exit(how)
    BY <1>24 DEF AppendFails
  <2> QED
    BY <2>1, ExitRef
<1>25. CASE InterruptExecutor \/ InterruptReplaced
  BY <1>0, <1>25
  DEF InterruptExecutor, InterruptReplaced, Catch, RefInv, FileOpen, Position, PhasesFit
<1>26. CASE InterruptScheduler
  <2>1. pc \in {"check", "append_started", "stop_check"}
    BY <1>26 DEF InterruptScheduler, CountersAgree
  <2> QED
    BY <1>0, <1>26, <2>1 DEF InterruptScheduler, RefInv, FileOpen, Position, PhasesFit
<1>27. CASE InterruptTail
  <2>1. \E how : Exit(how)
    BY <1>27 DEF InterruptTail
  <2> QED
    BY <2>1, ExitRef
<1>28. CASE Crash
  <2>1. \E how : Exit(how)
    BY <1>28 DEF Crash
  <2> QED
    BY <2>1, ExitRef
<1>29. CASE UNCHANGED vars
  BY <1>29 DEF vars, RefInv, FileOpen, Position, PhasesFit
<1> QED
    BY <1>1, <1>2, <1>3, <1>4, <1>5, <1>6, <1>7, <1>8, <1>9, <1>10, <1>11, <1>12, <1>13,
     <1>14, <1>15, <1>16, <1>17, <1>18, <1>19, <1>20, <1>21, <1>22, <1>23, <1>24, <1>25,
     <1>26, <1>27, <1>28, <1>29
  DEF Next, ProgramStep, Done

(* Every step is a step of the abstract Campaign, or a stutter.            *)
LEMMA StepSimulates ==
  ASSUME IInv, RefInv, [Next]_vars
  PROVE  [Journal!Next]_Journal!journalVars
<1>0. TypeInv /\ log \in Seq(Lines)
  BY DEF IInv, TypeInv, TypeOK
<1>1. CASE CreateCampaign
  BY <1>0, <1>1, CreateSimulates
<1>2. CASE CallProvider
  BY <1>2, CallSimulates
<1>3. CASE \/ AppendStarted \/ AppendTerminal \/ AppendInterrupted
           \/ AppendNotRun \/ AppendFinished
  <2>1. pc \in Appending /\ AppendCampaign /\ UNCHANGED called
    BY <1>3 DEF AppendStarted, AppendTerminal, AppendInterrupted, AppendNotRun, AppendFinished,
                Appending, Tails
  <2> QED
    BY <1>0, <2>1, AppendSimulates
<1>4. CASE AppendFails
  <2>1. pc \in Appending /\ UNCHANGED called
        /\ log' \in {log, Append(log, TornLine), Append(log, NextEvent)}
    BY <1>4 DEF AppendFails
  <2>2. CASE log' = log
    BY <2>1, <2>2, SameFile
  <2>3. CASE log' = Append(log, TornLine)
    BY <1>0, <2>1, <2>3, TornSimulates DEF RefInv, FileOpen, Appending
  <2>4. CASE log' = Append(log, NextEvent)
    BY <1>0, <2>1, <2>4, AppendSimulates DEF AppendCampaign
  <2> QED
    BY <2>1, <2>2, <2>3, <2>4
<1>5. CASE UNCHANGED << log, called >>
  BY <1>5, SameFile
<1>6. ASSUME Next PROVE \/ CreateCampaign \/ CallProvider \/ AppendFails
                        \/ AppendStarted \/ AppendTerminal \/ AppendInterrupted
                        \/ AppendNotRun \/ AppendFinished
                        \/ UNCHANGED << log, called >>
  BY <1>6 DEF Next, ProgramStep, Invoke, RefuseCampaign, LoopEnds, StopBeforeRun, BeginRun,
              BumpStarted, PrepareAdapter, EndLive, PublishPair, AdapterCleared, PropagateOther,
              AdapterNotCleared, Account, BumpTerminal, StopCheck, BumpInterrupted,
              InterruptExecutor, InterruptReplaced, InterruptScheduler, InterruptTail, Crash, Done,
              ExecutorStep,
              environment, vars
<1>7. UNCHANGED vars => UNCHANGED << log, called >>
  BY DEF vars
<1> QED
  BY <1>1, <1>2, <1>3, <1>4, <1>5, <1>6, <1>7

(* The scheduler implements the abstract Campaign, for every Plan length,  *)
(* any number of invocations, crashes, failed and torn appends, and        *)
(* signals in the executor and wherever the counters agree with the file.  *)
THEOREM ImplementsCampaignJournal ==
  ASSUME CountersAgree
  PROVE  Spec => ImplementsJournal
<1>1. Init => RefInv /\ Journal!Init
  BY RefInit
<1>2. IInv /\ RefInv /\ [Next]_vars => RefInv'
  BY RefStep, CountersAgree DEF IInv, TypeInv
<1>3. IInv /\ RefInv /\ [Next]_vars => [Journal!Next]_Journal!journalVars
  BY StepSimulates
<1> QED
  BY <1>1, <1>2, <1>3, Inductive, PTL DEF Spec, ImplementsJournal, Journal!Spec

(* In the abstract Campaign, and so in the file, only a run that was       *)
(* announced and not declared not_run has Provider calls.                  *)
CallsAreAnnounced ==
  \A r \in Runs : called[r] > 0 => JournalPhase[r] \in {"started", "ended"}

(* Every step of the abstract Campaign keeps it so.                        *)
LEMMA JournalKeepsCalls ==
  ASSUME called \in [Runs -> Nat], CallsAreAnnounced, [Journal!Next]_Journal!journalVars
  PROVE  CallsAreAnnounced'
<1> USE DEF CallsAreAnnounced, Journal!Runs, Runs
<1>0. JournalPhase = [r \in Runs |-> PhaseIn(log, r)]
  BY PhaseMap
<1>1. CASE Journal!Open \/ Journal!Close
  BY <1>1 DEF Journal!Open, Journal!Close
<1>2. CASE \E r \in Runs : Journal!Start(r) \/ Journal!End(r)
  BY <1>0, <1>2 DEF Journal!Start, Journal!End, Journal!Advance
<1>3. CASE \E r \in Runs : Journal!Skip(r)
  BY <1>0, <1>3 DEF Journal!Skip, Journal!Advance
<1>4. CASE \E r \in Runs : Journal!Call(r)
  BY <1>0, <1>4 DEF Journal!Call
<1>5. CASE UNCHANGED Journal!journalVars
  BY <1>5 DEF Journal!journalVars
<1> QED
  BY <1>1, <1>2, <1>3, <1>4, <1>5 DEF Journal!Next

(* A run that the file declares not_run was never called.                  *)
NotRunWasNotCalled == \A r \in Runs : NotRunIn(log, r) => called[r] = 0

(* It has no calls because the abstract Campaign gave it none.             *)
LEMMA AnnouncedNotRun ==
  ASSUME IInv, CallsAreAnnounced
  PROVE  NotRunWasNotCalled
BY PhaseMap DEF IInv, TypeOK, CallsAreAnnounced, NotRunWasNotCalled, PhaseIn

(* What WORKFLOW_AB.md states of a not_run run holds, whatever the rest of *)
(* the file says, unless a signal lands at one of the other locations of   *)
(* the scheduler.                                                          *)
THEOREM NotRunIsTrue ==
  ASSUME CountersAgree
  PROVE  Spec => []NotRunWasNotCalled
<1>0. Init => CallsAreAnnounced
  BY DEF Init, CallsAreAnnounced
<1>1. Init => RefInv /\ CallsAreAnnounced
  BY <1>0, RefInit
<1>2. IInv /\ RefInv /\ [Next]_vars => RefInv'
  BY RefStep, CountersAgree DEF IInv, TypeInv
<1>3. IInv /\ RefInv /\ CallsAreAnnounced /\ [Next]_vars => CallsAreAnnounced'
  BY StepSimulates, JournalKeepsCalls DEF IInv, TypeOK
<1>4. IInv /\ CallsAreAnnounced => NotRunWasNotCalled
  BY AnnouncedNotRun
<1> QED
  BY <1>1, <1>2, <1>3, <1>4, Inductive, PTL DEF Spec
-----------------------------------------------------------------------------
(***************************************************************************)
(* The truth of the file: what its lines say of the Provider is what       *)
(* happened, and so is what a whole accepted file says. Wherever signals   *)
(* fall, one line at most is wrong: the first not_run line of a Campaign   *)
(* that a signal ended.                                                    *)
(***************************************************************************)

(* A line that states a number of calls states the right one.              *)
LineTrue(i) == log[i].calls # Unknown => log[i].calls = called[log[i].run]
LostRun(i) ==
  /\ i \in NotRunLines(log) /\ log[i].stop = "human_interruption"
  /\ \A j \in NotRunLines(log) : i <= j
LinesTrueButOne == \A i \in TerminalLines(log) : LineTrue(i) \/ LostRun(i)

(* No not_run line is written in the loop, and only the first one of a     *)
(* tail that a signal began can be about a run that was called.            *)
TailBehind ==
  /\ pc \in InLoop => NotRunLines(log) = {}
  /\ pc = "tail" \/ (pc \in Tails /\ NotRunLines(log) # {}) =>
       \A r \in Runs : called[r] > 0 => r < index

(* `stage` and `execution` tell whether the Provider of the current run    *)
(* was called.                                                             *)
StageTrue == pc \in Executing => (stage = "attempted" <=> called[index] = 1)
ExecutionTrue ==
  /\ pc \in {"adapter", "live", "publish"} => execution.calls = Unknown
  /\ pc \in {"cleanup"} \cup Recording =>
       (execution.calls # Unknown => execution.calls = called[index])
FreshStage == pc = "adapter" => stage = "not_attempted"

TruthInv == LinesTrueButOne /\ TailBehind /\ StageTrue /\ ExecutionTrue /\ FreshStage

(* Appending a true line, or a first not_run line that names a signal,     *)
(* keeps the file true but for one line.                                   *)
LEMMA AppendLinesTrue ==
  ASSUME log \in Seq(Lines), LinesTrueButOne, NEW e \in Lines, log' = Append(log, e),
         UNCHANGED called,
         Concludes(e) => \/ e.calls # Unknown => e.calls = called[e.run]
                         \/ /\ e.status = "not_run" /\ e.stop = "human_interruption"
                            /\ NotRunLines(log) = {}
  PROVE  /\ LinesTrueButOne'
         /\ ~(Concludes(e) /\ e.status = "not_run") => NotRunLines(log') = NotRunLines(log)
<1>0. PICK n \in Nat : n = Len(log) + 1
  OBVIOUS
<1>1. /\ log'[n] = e
      /\ \A i \in TerminalLines(log) : log'[i] = log[i] /\ i \in 1 .. n - 1
      /\ TerminalLines(log') = TerminalLines(log) \cup (IF Concludes(e) THEN {n} ELSE {})
  BY <1>0, AppendConcludes DEF TerminalLines
<1>2. NotRunLines(log') =
        NotRunLines(log) \cup (IF Concludes(e) /\ e.status = "not_run" THEN {n} ELSE {})
  <2>1. \A i \in TerminalLines(log) : log'[i].status = log[i].status
    BY <1>1
  <2> QED
    BY <1>1, <2>1 DEF NotRunLines
<1>3. ASSUME NEW i \in TerminalLines(log) PROVE (LineTrue(i) \/ LostRun(i))'
  <2>1. CASE LineTrue(i)
    BY <1>1, <2>1 DEF LineTrue
  <2>2. CASE LostRun(i)
    <3>1. /\ i \in NotRunLines(log') /\ i <= n
          /\ log'[i] = log[i] /\ log[i].stop = "human_interruption"
      <4>1. i \in NotRunLines(log) /\ log[i].stop = "human_interruption"
        BY <2>2 DEF LostRun
      <4>2. i \in NotRunLines(log')
        BY <1>2, <4>1
      <4>3. log'[i] = log[i] /\ i \in 1 .. n - 1
        BY <1>1
      <4> QED
        BY <4>1, <4>2, <4>3
    <3>2. \A j \in NotRunLines(log') : i <= j
      BY <1>2, <2>2, <3>1 DEF LostRun
    <3> QED
      BY <3>1, <3>2 DEF LostRun
  <2> QED
    BY <2>1, <2>2 DEF LinesTrueButOne
<1>4. ASSUME Concludes(e) PROVE (LineTrue(n) \/ LostRun(n))'
  <2>1. CASE e.calls # Unknown => e.calls = called[e.run]
    BY <1>1, <2>1 DEF LineTrue
  <2>2. CASE e.status = "not_run" /\ e.stop = "human_interruption" /\ NotRunLines(log) = {}
    <3>1. NotRunLines(log') = {n} /\ log'[n].stop = "human_interruption"
      BY <1>1, <1>2, <1>4, <2>2
    <3> QED
      BY <3>1 DEF LostRun
  <2> QED
    BY <1>4, <2>1, <2>2
<1>5. LinesTrueButOne'
  BY <1>1, <1>3, <1>4 DEF LinesTrueButOne
<1> QED
  BY <1>2, <1>5

(* What the next line says of the calls of its run.                        *)
LEMMA NextEventTrue ==
  ASSUME IInv, TruthInv, pc \in Appending
  PROVE  /\ NextEvent \in Lines /\ TornLine \in Lines /\ ~Concludes(TornLine)
         /\ Concludes(NextEvent) =>
              \/ NextEvent.calls # Unknown => NextEvent.calls = called[NextEvent.run]
              \/ /\ NextEvent.status = "not_run" /\ NextEvent.stop = "human_interruption"
                 /\ NotRunLines(log) = {}
         /\ pc \notin Tails => ~(Concludes(NextEvent) /\ NextEvent.status = "not_run")
<1>0. TypeInv
  BY DEF IInv, TypeInv
<1>1. NextEvent \in Lines /\ TornLine \in Lines /\ ~Concludes(TornLine)
  BY <1>0, NextLine DEF Concludes, TornLine
<1>2. CASE pc = "append_started"
  BY <1>0, <1>1, <1>2, NextLine DEF Concludes, Tails
<1>3. CASE pc = "append_terminal"
  <2>1. NextEvent.run = index /\ NextEvent.calls = execution.calls
        /\ NextEvent.status # "not_run"
    BY <1>3 DEF NextEvent, RunEvent, Tails, StatusOf
  <2> QED
    BY <1>1, <1>3, <2>1 DEF TruthInv, ExecutionTrue, Recording
<1>4. CASE pc = "append_interrupted"
  <2>1. NextEvent.calls = Unknown /\ NextEvent.status # "not_run"
    BY <1>4 DEF NextEvent, RunEvent, Tails
  <2> QED
    BY <1>1, <2>1
<1>5. CASE pc \in Tails /\ WritesNotRun
  <2>1. /\ NextEvent.run = index /\ NextEvent.calls = 0 /\ index \in Runs
        /\ NextEvent.status = "not_run" /\ NextEvent.stop = ClosingReason
    BY <1>0, <1>5, NextLine DEF NextEvent, RunEvent, Tails
  <2>2. CASE called[index] = 0
    BY <1>1, <1>5, <2>1, <2>2
  <2>3. CASE called[index] # 0
    <3>1. called[index] > 0 /\ index \in Nat
      BY <2>1, <2>3 DEF IInv, TypeOK
    <3>2. pc = "human_tail" /\ NotRunLines(log) = {}
      BY <1>5, <2>1, <3>1 DEF TruthInv, TailBehind, Tails
    <3> QED
      BY <1>1, <1>5, <2>1, <3>2 DEF ClosingReason
  <2> QED
    BY <2>2, <2>3
<1>6. CASE pc \in Tails /\ ~WritesNotRun
  BY <1>0, <1>1, <1>6, NextLine DEF Concludes
<1> QED
  BY <1>2, <1>3, <1>4, <1>5, <1>6 DEF Appending, Tails

(* The initial states satisfy TruthInv.                                    *)
LEMMA TruthInit ==
  ASSUME Init
  PROVE  TruthInv
BY DEF Init, TruthInv, LinesTrueButOne, TailBehind, StageTrue, ExecutionTrue, FreshStage,
       TerminalLines, Executing, Recording, InLoop, InRun, Bookkeeping, Tails

(* The end of an invocation keeps it.                                      *)
LEMMA ExitTruth ==
  ASSUME NEW how, Exit(how), LinesTrueButOne'
  PROVE  TruthInv'
BY DEF Exit, TruthInv, TailBehind, StageTrue, ExecutionTrue, FreshStage, Executing, Recording,
       InLoop, InRun, Bookkeeping, Tails

(* Every step keeps it.                                                    *)
LEMMA TruthStep ==
  ASSUME IInv, StopInv, TruthInv, [Next]_vars
  PROVE  TruthInv'
<1> USE DEF environment, locals, executorLocals, Executing, Recording, TruthInv
<1>0. /\ TypeInv /\ log \in Seq(Lines) /\ called \in [Runs -> Nat]
      /\ \A r \in Runs : called[r] \in {0, 1}
      /\ pc \in InRun => index \in Runs
      /\ index \in Nat /\ RunCount \in Nat /\ Runs = 1 .. RunCount
  BY RunCountAssumption
  DEF IInv, TypeInv, TypeOK, IndexInPlan, Runs, NoRetry
<1>1. ASSUME UNCHANGED << log, called >>
      PROVE  LinesTrueButOne' /\ NotRunLines(log') = NotRunLines(log)
  BY <1>1 DEF LinesTrueButOne, LineTrue, LostRun
<1>2. ASSUME pc \in Appending, UNCHANGED called,
             log' \in {log, Append(log, TornLine), Append(log, NextEvent)}
      PROVE  /\ LinesTrueButOne'
             /\ pc \notin Tails => NotRunLines(log') = NotRunLines(log)
  <2>1. CASE log' = log
    BY <1>1, <1>2, <2>1
  <2>2. CASE log' = Append(log, TornLine)
    BY <1>0, <1>2, <2>2, NextEventTrue, AppendLinesTrue
  <2>3. CASE log' = Append(log, NextEvent)
    BY <1>0, <1>2, <2>3, NextEventTrue, AppendLinesTrue
  <2> QED
    BY <1>2, <2>1, <2>2, <2>3
<1>3. ASSUME LinesTrueButOne', TailBehind', pc' \notin Executing \cup Recording PROVE TruthInv'
  BY <1>3 DEF StageTrue, ExecutionTrue, FreshStage
<1>4. ASSUME pc \in InLoop, pc' \in InLoop, NotRunLines(log') = NotRunLines(log)
      PROVE  TailBehind'
  BY <1>4 DEF TailBehind, InLoop, InRun, Bookkeeping, Tails
<1>5. ASSUME pc \in InLoop, pc' = "human_tail", UNCHANGED << log, called >> PROVE TailBehind'
  BY <1>1, <1>5 DEF TailBehind, InLoop, InRun, Bookkeeping
<1>6. ASSUME pc' = "tail", \A r \in Runs : called'[r] > 0 => r < index' PROVE TailBehind'
  BY <1>6 DEF TailBehind, InLoop, InRun, Bookkeeping, Tails
<1>7. CASE CreateCampaign
  <2>1. TerminalLines(log') = {} /\ pc' = "check"
    BY <1>7 DEF CreateCampaign, TerminalLines, CampaignStarted
  <2>2. NotRunLines(log') = {} /\ LinesTrueButOne'
    BY <2>1 DEF NotRunLines, LinesTrueButOne
  <2> QED
    BY <1>3, <2>1, <2>2 DEF TailBehind, Tails
<1>8. CASE Invoke
  BY <1>1, <1>3, <1>8 DEF Invoke, TailBehind, InLoop, InRun, Bookkeeping, Tails
<1>9. CASE LoopEnds
  <2>1. /\ pc' = "tail" /\ UNCHANGED << log, called, index >> /\ index > RunCount
    BY <1>9 DEF LoopEnds
  <2> QED
    BY <1>0, <1>1, <1>3, <1>6, <2>1
<1>10. CASE StopBeforeRun
  <2>1. /\ pc = "check" /\ pc' = "tail" /\ UNCHANGED << log, called, index >>
    BY <1>10 DEF StopBeforeRun, Stop
  <2>2. ASSUME NEW r \in Runs, called[r] > 0 PROVE r < index
    <3>1. StartedIn(log, r)
      BY <2>2 DEF IInv, WriteAhead
    <3>2. ~Unreached(r)
      BY <2>1, <3>1 DEF IInv, NothingAhead
    <3> QED
      BY <1>0, <2>1, <3>2 DEF Unreached
  <2> QED
    BY <1>1, <1>3, <1>6, <2>1, <2>2
<1>11. CASE BeginRun
  <2>1. /\ pc = "check" /\ pc' = "append_started" /\ UNCHANGED << log, called >>
    BY <1>11 DEF BeginRun
  <2> QED
    BY <1>1, <1>3, <1>4, <2>1 DEF InLoop, InRun, Bookkeeping
<1>12. CASE BumpInterrupted \/ InterruptScheduler
  <2>1. /\ pc \in InLoop /\ pc' = "human_tail" /\ UNCHANGED << log, called >>
    BY <1>12 DEF BumpInterrupted, InterruptScheduler, InLoop, InRun, Bookkeeping
  <2> QED
    BY <1>1, <1>3, <1>5, <2>1
<1>13. CASE RefuseCampaign \/ PropagateOther \/ InterruptTail \/ Crash
  BY <1>1, <1>13, ExitTruth DEF RefuseCampaign, PropagateOther, InterruptTail, Crash
<1>14. CASE AppendStarted \/ AppendInterrupted
  <2>1. /\ pc \in {"append_started", "append_interrupted"}
        /\ pc' \in {"bump_started", "bump_interrupted"}
        /\ log' = Append(log, NextEvent) /\ UNCHANGED called
    BY <1>14 DEF AppendStarted, AppendInterrupted, AppendCampaign
  <2>2. LinesTrueButOne' /\ NotRunLines(log') = NotRunLines(log)
    BY <1>2, <2>1 DEF Appending, Tails
  <2> QED
    BY <1>3, <1>4, <2>1, <2>2 DEF InLoop, InRun, Bookkeeping
<1>15. CASE AppendNotRun
  <2>1. /\ pc \in Tails /\ pc' = pc /\ index' = index + 1 /\ UNCHANGED called
        /\ log' = Append(log, NextEvent)
    BY <1>15 DEF AppendNotRun, AppendCampaign
  <2>2. LinesTrueButOne'
    BY <1>2, <2>1 DEF Appending, Tails
  <2>3. \A r \in Runs : called[r] > 0 => r < index'
    BY <1>0, <2>1 DEF StopInv, CalledBehind
  <2>4. TailBehind'
    BY <2>1, <2>3 DEF TailBehind, InLoop, InRun, Bookkeeping, Tails
  <2> QED
    BY <1>3, <2>1, <2>2, <2>4 DEF Tails
<1>16. CASE AppendTerminal
  <2>1. /\ pc = "append_terminal" /\ pc' = "bump_terminal"
        /\ UNCHANGED << called, execution, index >> /\ log' = Append(log, NextEvent)
    BY <1>16 DEF AppendTerminal, AppendCampaign
  <2>2. LinesTrueButOne' /\ NotRunLines(log') = NotRunLines(log)
    BY <1>2, <2>1 DEF Appending, Tails
  <2>3. TailBehind'
    BY <1>4, <2>1, <2>2 DEF InLoop, InRun, Bookkeeping
  <2> QED
    BY <2>1, <2>2, <2>3 DEF StageTrue, ExecutionTrue, FreshStage
<1>17. CASE AppendFinished \/ AppendFails
  BY <1>2, <1>17, ExitTruth DEF AppendFinished, AppendFails, AppendCampaign, Appending, Tails
<1>18. CASE StopCheck
  <2>1. /\ pc = "stop_check" /\ UNCHANGED << log, called >>
        /\ pc' = "check" \/ (pc' = "tail" /\ index' = nextIndex)
    BY <1>18 DEF StopCheck, Stop
  <2>2. pc' = "tail" => \A r \in Runs : called[r] > 0 => r < index'
    BY <1>0, <2>1 DEF StopInv, CalledBehind, InLoop, InRun, Bookkeeping
  <2> QED
    BY <1>1, <1>3, <1>4, <1>6, <2>1, <2>2 DEF InLoop, InRun, Bookkeeping
<1>19. ASSUME pc \in InRun \ Appending, pc' \in Executing \cup Recording,
              UNCHANGED << log, called >>
       PROVE  LinesTrueButOne' /\ TailBehind'
  BY <1>1, <1>4, <1>19 DEF InLoop, InRun, Bookkeeping
<1>20. CASE BumpStarted
  <2>1. called[index] = 0
    BY <1>20 DEF BumpStarted, IInv, CurrentUncalled
  <2>2. LinesTrueButOne' /\ TailBehind'
    BY <1>19, <1>20 DEF BumpStarted, InRun, Bookkeeping, Appending
  <2> QED
    BY <1>20, <2>1, <2>2 DEF BumpStarted, NoExecution, StageTrue, ExecutionTrue, FreshStage
<1>21. CASE PrepareAdapter \/ EndLive
  <2>1. LinesTrueButOne' /\ TailBehind'
    BY <1>19, <1>21 DEF PrepareAdapter, EndLive, Catch, ExecutorStep, InRun, Appending
  <2> QED
    BY <1>21, <2>1 DEF PrepareAdapter, EndLive, Catch, ExecutorStep, StageTrue, ExecutionTrue,
       FreshStage
<1>22. CASE CallProvider
  <2>1. /\ pc = "live" /\ stage' = "attempted" /\ index \in Runs
        /\ called' = [called EXCEPT ![index] = called[index] + 1]
        /\ UNCHANGED << pc, log, execution, index >>
    BY <1>0, <1>22 DEF CallProvider, ExecutorStep, InRun
  <2>2. called[index] = 0
    BY <1>22, <2>1 DEF CallProvider, IInv, CurrentUncalled
  <2>3. \A i \in TerminalLines(log) : log[i].run < index
    BY <2>1 DEF StopInv, CurrentRun, InLoop, InRun, Concluded
  <2>4. \A i \in TerminalLines(log) : called'[log[i].run] = called[log[i].run]
    BY <1>0, <2>1, <2>3, TerminalRuns
  <2>5. LinesTrueButOne'
    BY <2>1, <2>4 DEF LinesTrueButOne, LineTrue, LostRun
  <2>6. TailBehind'
    BY <2>1 DEF TailBehind, InLoop, InRun, Tails
  <2> QED
    BY <1>0, <2>1, <2>2, <2>5, <2>6 DEF StageTrue, ExecutionTrue, FreshStage
<1>23. CASE PublishPair
  <2>1. stage = "attempted" <=> called[index] = 1
    BY <1>23 DEF PublishPair, StageTrue
  <2>2. called[index] \in {0, 1}
    BY <1>0, <1>23 DEF PublishPair, InRun
  <2>3. \A e \in ArtifactExecutions(stage) : e.calls = called[index]
    BY <2>1, <2>2 DEF ArtifactExecutions
  <2>4. LinesTrueButOne' /\ TailBehind'
    BY <1>19, <1>23 DEF PublishPair, Catch, ExecutorStep, InRun, Appending
  <2> QED
    BY <1>23, <2>1, <2>3, <2>4 DEF PublishPair, Catch, ExecutorStep, StageTrue, ExecutionTrue,
       FreshStage
<1>24. CASE InterruptExecutor \/ InterruptReplaced
  <2>1. LinesTrueButOne' /\ TailBehind'
    BY <1>19, <1>24 DEF InterruptExecutor, InterruptReplaced, Catch, InRun, Appending
  <2> QED
    BY <1>24, <2>1
    DEF InterruptExecutor, InterruptReplaced, Catch, StageTrue, ExecutionTrue, FreshStage
<1>25. CASE AdapterCleared
  <2>1. execution \in Executions
    BY <1>0 DEF TypeInv, TypeOK
  <2>2. LinesTrueButOne' /\ TailBehind'
    BY <1>1, <1>4, <1>25 DEF AdapterCleared, ExecutorStep, InLoop, InRun, Bookkeeping
  <2> QED
    BY <1>25, <2>1, <2>2
    DEF AdapterCleared, ExecutorStep, HarnessFailure, Executions, StageTrue, ExecutionTrue,
        FreshStage
<1>26. CASE AdapterNotCleared
  <2>1. execution \in Executions
    BY <1>0 DEF TypeInv, TypeOK
  <2>2. execution'.calls = execution.calls /\ pc = "cleanup" /\ pc' = "account"
        /\ UNCHANGED << log, called, index >>
    BY <1>26, <2>1 DEF AdapterNotCleared, Executions
  <2>3. LinesTrueButOne' /\ TailBehind'
    BY <1>19, <2>2 DEF InRun, Appending
  <2> QED
    BY <2>2, <2>3 DEF StageTrue, ExecutionTrue, FreshStage
<1>27. CASE Account
  <2>1. LinesTrueButOne' /\ TailBehind'
    BY <1>1, <1>4, <1>27 DEF Account, InLoop, InRun, Bookkeeping
  <2> QED
    BY <1>27, <2>1 DEF Account, StageTrue, ExecutionTrue, FreshStage
<1>28. CASE BumpTerminal
  <2>1. LinesTrueButOne' /\ TailBehind'
    BY <1>1, <1>4, <1>28 DEF BumpTerminal, InLoop, InRun, Bookkeeping
  <2> QED
    BY <1>28, <2>1 DEF BumpTerminal, StageTrue, ExecutionTrue, FreshStage
<1>29. CASE UNCHANGED vars
  <2>1. TailBehind'
    BY <1>1, <1>29 DEF vars, TailBehind
  <2> QED
    BY <1>1, <1>29, <2>1 DEF vars, StageTrue, ExecutionTrue, FreshStage
<1> QED
  BY <1>7, <1>8, <1>9, <1>10, <1>11, <1>12, <1>13, <1>14, <1>15, <1>16, <1>17, <1>18,
     <1>20, <1>21, <1>22, <1>23, <1>24, <1>25, <1>26, <1>27, <1>28, <1>29
     DEF Next, ProgramStep, Done

-----------------------------------------------------------------------------
(* What the loader's checks say of an accepted file: each run has exactly  *)
(* one terminal line, so the lines counted by call state stand for runs.   *)

(* Finite sets of lines and of runs.                                       *)
LEMMA FiniteLines ==
  ASSUME log \in Seq(Lines)
  PROVE  /\ IsFiniteSet(Runs) /\ Cardinality(Runs) = RunCount
         /\ IsFiniteSet(TerminalLines(log))
         /\ \A S : S \subseteq TerminalLines(log) =>
              IsFiniteSet(S) /\ Cardinality(S) \in Nat
         /\ \A S : S \subseteq Runs => IsFiniteSet(S) /\ Cardinality(S) \in Nat
<1>1. IsFiniteSet(Runs) /\ Cardinality(Runs) = RunCount
  BY RunCountAssumption, FS_Interval DEF Runs
<1>2. TerminalLines(log) \subseteq 1 .. Len(log) /\ Len(log) \in Nat
  BY DEF TerminalLines
<1>3. IsFiniteSet(1 .. Len(log))
  BY <1>2, FS_Interval
<1>4. IsFiniteSet(TerminalLines(log))
  BY <1>2, <1>3, FS_Subset
<1> QED
  BY <1>1, <1>4, FS_Subset, FS_CardinalityType

(* The terminal line of a run.                                             *)
LineOf(f, r) == CHOOSE i \in TerminalLines(f) : f[i].run = r

(* In an accepted file every run has its terminal line, and no other line  *)
(* is one.                                                                 *)
LEMMA OneLinePerRun ==
  ASSUME log \in Seq(Lines), CampaignLoads(log)
  PROVE  /\ \A i, j \in TerminalLines(log) : log[i].run = log[j].run => i = j
         /\ \A r \in Runs : LineOf(log, r) \in TerminalLines(log) /\ log[LineOf(log, r)].run = r
<1>1. /\ log # << >> /\ OneHeaderOneFooter(log) /\ RunsWellFormed(log) /\ CountsMatch(log)
      /\ \A i \in TerminalLines(log) : log[i].run \in Runs
  BY TerminalRuns DEF CampaignLoads
<1>2. log[1] = CampaignStarted
  <2>1. log[1] \in Lines /\ log[1].type = "campaign_started"
    BY <1>1 DEF OneHeaderOneFooter
  <2> QED
    BY <2>1 DEF Lines, RunEvents, FinishedEvents, TornLine, CampaignStarted
<1>3. Cardinality(TerminalLines(log)) = RunCount
  BY <1>1, <1>2 DEF CountsMatch, CampaignStarted
<1>4. \A i, j \in TerminalLines(log) : log[i].run = log[j].run => i = j
  BY <1>1 DEF RunsWellFormed, TerminalLines, IsTerminal
<1> DEFINE runOf == [i \in TerminalLines(log) |-> log[i].run]
<1>5. runOf \in Injection(TerminalLines(log), Runs)
  BY <1>1, <1>4 DEF Injection, IsInjective
<1>6. runOf \in Surjection(TerminalLines(log), Runs)
  BY <1>3, <1>5, FiniteLines, FS_Injection
<1>7. \A r \in Runs : \E i \in TerminalLines(log) : log[i].run = r
  BY <1>6 DEF Surjection
<1> QED
  BY <1>4, <1>7 DEF LineOf

(* A property of runs that is a property of their terminal lines counts    *)
(* the same either way.                                                    *)
LEMMA CountByLine ==
  ASSUME log \in Seq(Lines), CampaignLoads(log),
         NEW L \in SUBSET TerminalLines(log), NEW R \in SUBSET Runs,
         \A i \in TerminalLines(log) : i \in L <=> log[i].run \in R
  PROVE  Cardinality(L) = Cardinality(R)
<1> DEFINE runOf == [i \in L |-> log[i].run]
<1>1. runOf \in Bijection(L, R)
  <2>1. runOf \in [L -> R]
    OBVIOUS
  <2>2. \A i, j \in L : runOf[i] = runOf[j] => i = j
    BY OneLinePerRun
  <2>3. \A r \in R : \E i \in L : runOf[i] = r
    <3>1. ASSUME NEW r \in R PROVE LineOf(log, r) \in L /\ runOf[LineOf(log, r)] = r
      BY OneLinePerRun
    <3> QED
      BY <3>1
  <2> QED
    BY <2>1, <2>2, <2>3 DEF Bijection, Injection, Surjection, IsInjective
<1>2. IsFiniteSet(L) /\ IsFiniteSet(R)
  BY FiniteLines
<1>3. ExistsBijection(L, R)
  BY <1>1 DEF ExistsBijection
<1> QED
  BY <1>2, <1>3, FS_Bijection

(* The union of two finite sets is no larger than both together.           *)
LEMMA UnionCount ==
  ASSUME NEW A, NEW B, IsFiniteSet(A), IsFiniteSet(B)
  PROVE  /\ IsFiniteSet(A \cup B) /\ Cardinality(A \cup B) \in Nat
         /\ Cardinality(A \cup B) <= Cardinality(A) + Cardinality(B)
<1>1. /\ IsFiniteSet(A \cup B) /\ IsFiniteSet(A \cap B)
      /\ Cardinality(A \cup B) = Cardinality(A) + Cardinality(B) - Cardinality(A \cap B)
  BY FS_Union, FS_Intersection
<1>2. /\ Cardinality(A) \in Nat /\ Cardinality(B) \in Nat
      /\ Cardinality(A \cap B) \in Nat /\ Cardinality(A \cup B) \in Nat
  BY <1>1, FS_CardinalityType
<1> QED
  BY <1>1, <1>2

(* The runs an accepted file declares not_run although they were called:   *)
(* one at most, and none in a Campaign no signal ended.                    *)
Lost == {r \in Runs : called[r] = 1 /\ log[LineOf(log, r)].status = "not_run"}

LEMMA OneRunIsLost ==
  ASSUME log \in Seq(Lines), CampaignLoads(log), called \in [Runs -> {0, 1}], LinesTrueButOne
  PROVE  /\ IsFiniteSet(Lost) /\ Cardinality(Lost) \in {0, 1}
         /\ Lost = {} => Cardinality(Lost) = 0 /\ \A i \in TerminalLines(log) : LineTrue(i)
         /\ Lost # {} => log[Len(log)].stop = "human_interruption"
<1>1. IsFiniteSet(Lost) /\ Cardinality(Lost) \in Nat
  BY FiniteLines DEF Lost
<1>2. ASSUME NEW r \in Lost PROVE LostRun(LineOf(log, r)) /\ log[LineOf(log, r)].run = r
  <2> DEFINE i == LineOf(log, r)
  <2>1. i \in TerminalLines(log) /\ log[i].run = r /\ called[r] = 1 /\ log[i].status = "not_run"
    BY OneLinePerRun DEF Lost
  <2>2. log[i].calls = 0
    BY <2>1 DEF CampaignLoads, ValidRunEvent, TerminalLines
  <2>3. ~LineTrue(i)
    BY <2>1, <2>2, UnknownAssumption DEF LineTrue
  <2> QED
    BY <2>1, <2>3 DEF LinesTrueButOne
<1>3. ASSUME NEW r \in Lost, NEW s \in Lost PROVE r = s
  <2> DEFINE i == LineOf(log, r)
             j == LineOf(log, s)
  <2>1. /\ i \in NotRunLines(log) /\ j \in NotRunLines(log) /\ i <= j /\ j <= i
        /\ log[i].run = r /\ log[j].run = s
    BY <1>2 DEF LostRun
  <2>2. i \in Nat /\ j \in Nat
    BY <2>1 DEF NotRunLines, TerminalLines
  <2> QED
    BY <2>1, <2>2
<1>4. Cardinality(Lost) \in {0, 1}
  <2>1. CASE Lost = {}
    BY <2>1, FS_EmptySet
  <2>2. CASE Lost # {}
    <3>1. PICK r : r \in Lost
      BY <2>2
    <3>2. Lost = {r}
      BY <1>3, <3>1
    <3> QED
      BY <3>2, FS_Singleton
  <2> QED
    BY <2>1, <2>2
<1>5. ASSUME Lost # {} PROVE log[Len(log)].stop = "human_interruption"
  <2>1. PICK r : r \in Lost
    BY <1>5
  <2> DEFINE i == LineOf(log, r)
  <2>2. i \in NotRunLines(log) /\ log[i].stop = "human_interruption"
    BY <1>2, <2>1 DEF LostRun
  <2> QED
    BY <2>2 DEF CampaignLoads, StopReasonsMatch
<1>6. ASSUME Lost = {}, NEW i \in TerminalLines(log) PROVE LineTrue(i)
  <2>1. i = LineOf(log, log[i].run) /\ log[i].run \in Runs
    BY OneLinePerRun, TerminalRuns
  <2>2. CASE LostRun(i)
    <3>1. log[i].status = "not_run" /\ log[i].calls = 0
      BY <2>2 DEF LostRun, NotRunLines, TerminalLines, CampaignLoads, ValidRunEvent
    <3> QED
      BY <1>6, <2>1, <3>1 DEF Lost, LineTrue
  <2> QED
    BY <2>2 DEF LinesTrueButOne
<1> QED
  BY <1>1, <1>4, <1>5, <1>6, FS_EmptySet

(* A file that loads and is true but for one line brackets the calls made, *)
(* but for the one lost.                                                   *)
LEMMA TrueFileBrackets ==
  ASSUME log \in Seq(Lines), CampaignLoads(log), called \in [Runs -> {0, 1}], LinesTrueButOne
  PROVE  LET finished == log[Len(log)]
             made == Cardinality({r \in Runs : called[r] = 1})
         IN /\ made \in Nat /\ finished.calls \in Nat /\ finished.unknown \in Nat
            /\ finished.calls <= made
            /\ made <= finished.calls + finished.unknown + Cardinality(Lost)
<1> DEFINE finished == log[Len(log)]
           made == {r \in Runs : called[r] = 1}
           knownLines == {i \in TerminalLines(log) : log[i].calls = 1}
           unknownLines == {i \in TerminalLines(log) \ NotRunLines(log) : log[i].calls = Unknown}
           known == {r \in Runs : log[LineOf(log, r)].calls = 1}
           unknown == {r \in Runs : log[LineOf(log, r)].calls = Unknown
                                     /\ log[LineOf(log, r)].status # "not_run"}
<1>1. Cardinality(knownLines) = finished.calls /\ Cardinality(unknownLines) = finished.unknown
  BY DEF CampaignLoads, CountsMatch, KnownCalls, UnknownCallRuns
<1>2. \A i \in TerminalLines(log) : i = LineOf(log, log[i].run) /\ log[i].run \in Runs
  BY OneLinePerRun, TerminalRuns
<1>3. Cardinality(knownLines) = Cardinality(known)
  <2>1. \A i \in TerminalLines(log) : i \in knownLines <=> log[i].run \in known
    BY <1>2
  <2> QED
    BY <2>1, CountByLine
<1>4. Cardinality(unknownLines) = Cardinality(unknown)
  <2>1. \A i \in TerminalLines(log) : i \in unknownLines <=> log[i].run \in unknown
    BY <1>2 DEF NotRunLines
  <2> QED
    BY <2>1, CountByLine
<1>5. IsFiniteSet(made) /\ IsFiniteSet(known) /\ IsFiniteSet(unknown) /\ IsFiniteSet(Lost)
      /\ Cardinality(known) \in Nat /\ Cardinality(unknown) \in Nat /\ Cardinality(made) \in Nat
      /\ Cardinality(Lost) \in Nat
  BY FiniteLines, OneRunIsLost
<1>6. \A r \in Runs : log[LineOf(log, r)].status = "not_run" => log[LineOf(log, r)].calls = 0
  BY OneLinePerRun DEF CampaignLoads, ValidRunEvent, TerminalLines
<1>7. \A r \in Runs : log[LineOf(log, r)].status # "not_run" => LineTrue(LineOf(log, r))
  BY OneLinePerRun DEF LinesTrueButOne, LostRun, NotRunLines
<1>8. known \subseteq made
  <2>1. ASSUME NEW r \in known PROVE called[r] = 1
    <3>1. log[LineOf(log, r)].run = r /\ log[LineOf(log, r)].calls = 1
      BY OneLinePerRun
    <3> QED
      BY <1>6, <1>7, <3>1, UnknownAssumption DEF LineTrue
  <2> QED
    BY <2>1
<1>9. made \subseteq (known \cup unknown) \cup Lost
  <2>1. ASSUME NEW r \in made, r \notin Lost PROVE r \in known \cup unknown
    <3> DEFINE i == LineOf(log, r)
    <3>1. i \in TerminalLines(log) /\ log[i].run = r /\ called[r] = 1
      BY OneLinePerRun
    <3>2. log[i].status # "not_run"
      BY <2>1, <3>1 DEF Lost
    <3>3. log[i].calls # Unknown => log[i].calls = 1
      BY <1>7, <3>1, <3>2 DEF LineTrue
    <3> QED
      BY <3>1, <3>2, <3>3
  <2> QED
    BY <2>1
<1>10. Cardinality(known) <= Cardinality(made)
  BY <1>5, <1>8, FS_Subset
<1>11. IsFiniteSet(known \cup unknown) /\ Cardinality(known \cup unknown) \in Nat
       /\ Cardinality(known \cup unknown) <= Cardinality(known) + Cardinality(unknown)
  BY <1>5, UnionCount
<1>12. IsFiniteSet((known \cup unknown) \cup Lost)
       /\ Cardinality((known \cup unknown) \cup Lost) \in Nat
       /\ Cardinality((known \cup unknown) \cup Lost)
            <= Cardinality(known \cup unknown) + Cardinality(Lost)
  BY <1>5, <1>11, UnionCount
<1>13. Cardinality(made) <= Cardinality((known \cup unknown) \cup Lost)
  BY <1>9, <1>12, FS_Subset
<1> HIDE DEF made, known, unknown, knownLines, unknownLines
<1>14. Cardinality(made) <= Cardinality(known) + Cardinality(unknown) + Cardinality(Lost)
  BY <1>5, <1>11, <1>12, <1>13
<1> QED
  BY <1>1, <1>3, <1>4, <1>5, <1>10, <1>14 DEF made

(* What load_campaign vouches for, wherever signals fall: an accepted file *)
(* misses at most one of the calls made, whose run is the first one it     *)
(* declares not_run, and it misses none unless a signal ended the Campaign *)
(* (the handler at campaign.py 926 found next_index behind the executor).  *)
AtMostOneCallIsLost ==
  CampaignLoads(log) =>
    LET finished == log[Len(log)]
        made == Cardinality({r \in Runs : called[r] = 1})
    IN /\ LinesTrueButOne
       /\ finished.calls <= made /\ made <= finished.calls + finished.unknown + 1
       /\ finished.stop # "human_interruption" => AcceptedLogIsTruthful

(* The lines and the totals of an accepted file that lost no run.          *)
LEMMA NothingLost ==
  ASSUME log \in Seq(Lines), called \in [Runs -> {0, 1}], LinesTrueButOne,
         CampaignLoads(log) => Lost = {}
  PROVE  AcceptedLogIsTruthful
<1> SUFFICES ASSUME CampaignLoads(log) PROVE AcceptedLogIsTruthful
  BY DEF AcceptedLogIsTruthful
<1>1. \A i \in TerminalLines(log) : LineTrue(i)
  BY OneRunIsLost
<1>2. Cardinality(Lost) = 0
  BY OneRunIsLost
<1> QED
  BY <1>1, <1>2, TrueFileBrackets DEF AcceptedLogIsTruthful, LineTrue

(* For every Plan and every set of locations at which signals may fall.    *)
THEOREM AcceptedLosesOneCallAtMost == Spec => []AtMostOneCallIsLost
<1>1. Init => StopInv /\ FreshInv /\ TruthInv
  BY StopInit, TruthInit
<1>2. IInv /\ StopInv /\ FreshInv /\ [Next]_vars => (StopInv /\ FreshInv)'
  BY StopStep, FreshStep, IInvParts
<1>3. IInv /\ StopInv /\ TruthInv /\ [Next]_vars => TruthInv'
  BY TruthStep
<1>4. IInv /\ TruthInv => AtMostOneCallIsLost
  <2> SUFFICES ASSUME IInv, TruthInv, CampaignLoads(log) PROVE AtMostOneCallIsLost
    BY DEF AtMostOneCallIsLost
  <2>1. called \in [Runs -> {0, 1}] /\ log \in Seq(Lines) /\ LinesTrueButOne
    BY DEF IInv, TypeOK, NoRetry, TruthInv
  <2>2. Cardinality(Lost) \in {0, 1}
    BY <2>1, OneRunIsLost
  <2>3. log[Len(log)].stop # "human_interruption" => AcceptedLogIsTruthful
    BY <2>1, OneRunIsLost, NothingLost
  <2> QED
    BY <2>1, <2>2, <2>3, TrueFileBrackets DEF AtMostOneCallIsLost
<1> QED
  BY <1>1, <1>2, <1>3, <1>4, Inductive, PTL DEF Spec

(* Where the file declares no called run not_run, every line of an         *)
(* accepted file is true.                                                  *)
CallsTrue == \A i \in TerminalLines(log) : LineTrue(i)

LEMMA NotRunCallsTrue ==
  ASSUME IInv, TruthInv, NotRunWasNotCalled, CampaignLoads(log)
  PROVE  Lost = {} /\ CallsTrue
<1>1. log \in Seq(Lines) /\ called \in [Runs -> {0, 1}] /\ LinesTrueButOne
  BY DEF IInv, TypeOK, NoRetry, TruthInv
<1>2. ASSUME NEW r \in Lost PROVE FALSE
  <2>1. /\ LineOf(log, r) \in TerminalLines(log) /\ log[LineOf(log, r)].run = r
        /\ log[LineOf(log, r)].status = "not_run" /\ called[r] = 1 /\ r \in Runs
    BY <1>1, OneLinePerRun DEF Lost
  <2>2. NotRunIn(log, r)
    BY <2>1 DEF NotRunIn, IsTerminal, TerminalLines
  <2> QED
    BY <2>1, <2>2 DEF NotRunWasNotCalled
<1>3. Lost = {}
  BY <1>2
<1> QED
  BY <1>1, <1>3, OneRunIsLost DEF CallsTrue

(* A Campaign file the strict loader accepts tells the truth about the     *)
(* Provider, for every Plan, as long as signals fall where the scheduler's *)
(* counters agree with its file.                                           *)
THEOREM AcceptedTellsTheTruth ==
  ASSUME CountersAgree
  PROVE  Spec => []AcceptedLogIsTruthful
<1>0. Init => CallsAreAnnounced
  BY DEF Init, CallsAreAnnounced
<1>1. Init => RefInv /\ CallsAreAnnounced /\ StopInv /\ FreshInv /\ TruthInv
  BY <1>0, RefInit, StopInit, TruthInit
<1>2. IInv /\ RefInv /\ [Next]_vars => RefInv'
  BY RefStep, CountersAgree DEF IInv, TypeInv
<1>3. IInv /\ RefInv /\ CallsAreAnnounced /\ [Next]_vars => CallsAreAnnounced'
  BY StepSimulates, JournalKeepsCalls DEF IInv, TypeOK
<1>4. IInv /\ StopInv /\ FreshInv /\ TruthInv /\ [Next]_vars => (StopInv /\ FreshInv /\ TruthInv)'
  BY StopStep, FreshStep, TruthStep, IInvParts
<1>5. IInv /\ CallsAreAnnounced /\ TruthInv => AcceptedLogIsTruthful
  <2> SUFFICES ASSUME IInv, CallsAreAnnounced, TruthInv PROVE AcceptedLogIsTruthful
    OBVIOUS
  <2>1. called \in [Runs -> {0, 1}] /\ log \in Seq(Lines) /\ LinesTrueButOne
    BY DEF IInv, TypeOK, NoRetry, TruthInv
  <2>2. NotRunWasNotCalled
    BY AnnouncedNotRun
  <2> QED
    BY <2>1, <2>2, NotRunCallsTrue, NothingLost
<1> QED
  BY <1>1, <1>2, <1>3, <1>4, <1>5, Inductive, PTL DEF Spec

-----------------------------------------------------------------------------
(***************************************************************************)
(* The finished file: its lines follow the contract one by one, and the    *)
(* counters the footer repeats are the counts of its lines.                *)
(***************************************************************************)

Running == pc \notin {"idle", "create"}

(* A header, then run events that are valid and numbered.                  *)
Body(f) ==
  /\ f # << >> /\ f[1] = CampaignStarted
  /\ \A i \in 2 .. Len(f) :
       f[i].type = "run_state" /\ ValidRunEvent(f[i]) /\ f[i].sequence = i - 1

LinesGood == Running => Body(log) /\ RunsWellFormed(log)

(* A failed cleanup is only reported by a cleanup failure.                 *)
CleanupTold ==
  /\ pc \in Executing => execution.cleanup # "failed"
  /\ pc \in Recording => (execution.cleanup = "failed" => execution.outcome = "cleanup_failure")

(* not_run lines carry the reason the footer will repeat.                  *)
ReasonsAgree ==
  Running => \A i \in NotRunLines(log) :
    pc \in Tails /\ ClosingReason # "none" /\ log[i].stop = ClosingReason

(* The counters lag behind the file between an append and the statement    *)
(* that follows it, and run ahead of it between Account and its append.    *)
One(condition) == IF condition THEN 1 ELSE 0
Bumping == {"bump_started", "bump_terminal", "bump_interrupted"}
CountersFit ==
  Running =>
    /\ sequence = Len(log) - One(pc \in Bumping)
    /\ attempted = Cardinality({r \in Runs : StartedIn(log, r)}) - One(pc = "bump_started")
    /\ providerCalls = KnownCalls(log) + One(pc = "append_terminal" /\ execution.calls = 1)
    /\ unknownCallRuns =
         UnknownCallRuns(log) + One(pc = "append_terminal" /\ execution.calls = Unknown)
           - One(pc = "bump_interrupted")
(* An invocation starts to count at zero.                                  *)
FreshCounters ==
  pc \in {"idle", "create"} =>
    sequence = 1 /\ attempted = 0 /\ providerCalls = 0 /\ unknownCallRuns = 0

FinInv ==
  /\ LinesGood /\ CleanupTold /\ ReasonsAgree /\ CountersFit /\ FreshCounters
  /\ FinishedLogLoadsUnlessLastRunStopped

-----------------------------------------------------------------------------
(* What one more line adds to the counts and to the contract.              *)

(* The counts of the loader after an append.                               *)
LEMMA AppendCounts ==
  ASSUME NEW f \in Seq(Lines), NEW e \in Lines
  PROVE  LET g == Append(f, e) IN
         /\ KnownCalls(f) \in Nat /\ UnknownCallRuns(f) \in Nat
         /\ KnownCalls(g) = KnownCalls(f) + One(Concludes(e) /\ e.calls = 1)
         /\ UnknownCallRuns(g) =
              UnknownCallRuns(f)
                + One(Concludes(e) /\ e.status # "not_run" /\ e.calls = Unknown)
         /\ NotRunLines(g) =
              NotRunLines(f)
                \cup (IF Concludes(e) /\ e.status = "not_run" THEN {Len(f) + 1} ELSE {})
<1> DEFINE g == Append(f, e)
           n == Len(f) + 1
           K(h) == {i \in TerminalLines(h) : h[i].calls = 1}
           U(h) == {i \in TerminalLines(h) \ NotRunLines(h) : h[i].calls = Unknown}
<1>1. /\ g[n] = e /\ n \notin TerminalLines(f) /\ \A i \in TerminalLines(f) : g[i] = f[i]
      /\ TerminalLines(g) = TerminalLines(f) \cup (IF Concludes(e) THEN {n} ELSE {})
  BY AppendConcludes
<1>2. IsFiniteSet(TerminalLines(f))
  <2>1. TerminalLines(f) \subseteq 1 .. Len(f) /\ Len(f) \in Nat
    BY DEF TerminalLines
  <2>2. IsFiniteSet(1 .. Len(f))
    BY <2>1, FS_Interval
  <2> QED
    BY <2>1, <2>2, FS_Subset
<1> HIDE DEF g, n
<1>3. NotRunLines(g) = NotRunLines(f)
                         \cup (IF Concludes(e) /\ e.status = "not_run" THEN {n} ELSE {})
  BY <1>1 DEF NotRunLines
<1>4. K(g) = K(f) \cup (IF Concludes(e) /\ e.calls = 1 THEN {n} ELSE {}) /\ n \notin K(f)
  BY <1>1
<1>5. U(g) = U(f) \cup (IF Concludes(e) /\ e.status # "not_run" /\ e.calls = Unknown
                        THEN {n} ELSE {})
      /\ n \notin U(f)
  BY <1>1, <1>3 DEF NotRunLines
<1>6. IsFiniteSet(K(f)) /\ IsFiniteSet(U(f))
      /\ Cardinality(K(f)) \in Nat /\ Cardinality(U(f)) \in Nat
  BY <1>2, FS_Subset, FS_CardinalityType
<1>7. Cardinality(K(g)) = Cardinality(K(f)) + One(Concludes(e) /\ e.calls = 1)
  <2> HIDE DEF K
  <2>1. CASE Concludes(e) /\ e.calls = 1
    BY <1>4, <1>6, <2>1, FS_AddElement DEF One
  <2>2. CASE ~(Concludes(e) /\ e.calls = 1)
    <3>1. K(g) = K(f)
      BY <1>4, <2>2
    <3> QED
      BY <1>6, <2>2, <3>1 DEF One
  <2> QED
    BY <2>1, <2>2
<1>8. Cardinality(U(g)) =
        Cardinality(U(f)) + One(Concludes(e) /\ e.status # "not_run" /\ e.calls = Unknown)
  <2> HIDE DEF U
  <2>1. CASE Concludes(e) /\ e.status # "not_run" /\ e.calls = Unknown
    BY <1>5, <1>6, <2>1, FS_AddElement DEF One
  <2>2. CASE ~(Concludes(e) /\ e.status # "not_run" /\ e.calls = Unknown)
    <3>1. U(g) = U(f)
      BY <1>5, <2>2
    <3> QED
      BY <1>6, <2>2, <3>1 DEF One
  <2> QED
    BY <2>1, <2>2
<1> QED
  BY <1>3, <1>6, <1>7, <1>8 DEF KnownCalls, UnknownCallRuns, g, n

(* The number of runs announced after an append.                           *)
LEMMA AppendAttempts ==
  ASSUME NEW f \in Seq(Lines), NEW e \in Lines
  PROVE  /\ Cardinality({r \in Runs : StartedIn(f, r)}) \in Nat
         /\ \A x \in Runs : IsStarted(e, x) /\ ~StartedIn(f, x) =>
              Cardinality({r \in Runs : StartedIn(Append(f, e), r)})
                = Cardinality({r \in Runs : StartedIn(f, r)}) + 1
         /\ (\A x : ~IsStarted(e, x)) =>
              Cardinality({r \in Runs : StartedIn(Append(f, e), r)})
                = Cardinality({r \in Runs : StartedIn(f, r)})
<1> DEFINE A(h) == {r \in Runs : StartedIn(h, r)}
           g == Append(f, e)
<1>1. \A r \in Runs : StartedIn(g, r) <=> StartedIn(f, r) \/ IsStarted(e, r)
  BY AppendExists
<1>2. IsFiniteSet(A(f)) /\ Cardinality(A(f)) \in Nat
  <2>1. IsFiniteSet(Runs)
    BY RunCountAssumption, FS_Interval DEF Runs
  <2> QED
    BY <2>1, FS_Subset, FS_CardinalityType
<1> HIDE DEF g
<1>3. ASSUME NEW x \in Runs, IsStarted(e, x), ~StartedIn(f, x)
      PROVE  Cardinality(A(g)) = Cardinality(A(f)) + 1
  <2>1. A(g) = A(f) \cup {x} /\ x \notin A(f)
    BY <1>1, <1>3 DEF IsStarted
  <2> QED
    BY <1>2, <2>1, FS_AddElement
<1>4. ASSUME \A x : ~IsStarted(e, x)
      PROVE  Cardinality(A(g)) = Cardinality(A(f))
  <2>1. A(g) = A(f)
    BY <1>1, <1>4
  <2> QED
    BY <2>1
<1> QED
  BY <1>2, <1>3, <1>4 DEF g

(* A valid run event with the next number keeps the body valid.            *)
LEMMA AppendBody ==
  ASSUME NEW f \in Seq(Lines), NEW e \in Lines, Body(f),
         e.type = "run_state", ValidRunEvent(e), e.sequence = Len(f)
  PROVE  Body(Append(f, e))
<1> DEFINE g == Append(f, e)
<1>1. g # << >> /\ Len(f) \in Nat /\ Len(g) = Len(f) + 1
      /\ g[Len(f) + 1] = e /\ \A i \in 1 .. Len(f) : g[i] = f[i]
  OBVIOUS
<1>2. Len(f) # 0
  BY DEF Body
<1> HIDE DEF g
<1>3. g[1] = CampaignStarted
  BY <1>1, <1>2 DEF Body
<1>4. ASSUME NEW i \in 2 .. Len(g)
      PROVE  g[i].type = "run_state" /\ ValidRunEvent(g[i]) /\ g[i].sequence = i - 1
  <2>1. CASE i = Len(f) + 1
    BY <1>1, <2>1
  <2>2. CASE i # Len(f) + 1
    <3>1. i \in 2 .. Len(f) /\ g[i] = f[i]
      BY <1>1, <2>2
    <3> QED
      BY <3>1 DEF Body
  <2> QED
    BY <2>1, <2>2
<1>5. Body(g)
  BY <1>1, <1>3, <1>4 DEF Body
<1> QED
  BY <1>5 DEF g

(* A line that announces an unannounced run, or concludes an announced (or *)
(* for not_run any) run that nothing concluded, keeps the runs well        *)
(* formed; so does a line about no run.                                    *)
LEMMA AppendRuns ==
  ASSUME NEW f \in Seq(Lines), NEW e \in Lines, RunsWellFormed(f),
         \A r \in Runs : IsStarted(e, r) => ~StartedIn(f, r),
         \A r \in Runs : IsTerminal(e, r) =>
           ~TerminalIn(f, r) /\ (e.status # "not_run" => StartedIn(f, r))
  PROVE  RunsWellFormed(Append(f, e))
<1> DEFINE g == Append(f, e)
           n == Len(f) + 1
<1>1. /\ g[n] = e /\ Len(f) \in Nat /\ DOMAIN f = 1 .. Len(f) /\ DOMAIN g = 1 .. n
      /\ \A i \in DOMAIN f : g[i] = f[i]
  OBVIOUS
<1> HIDE DEF g
<1>2. \A i \in DOMAIN g : i \in DOMAIN f \/ i = n
  BY <1>1
<1>3. SUFFICES ASSUME NEW r \in Runs
               PROVE  /\ \A i, j \in DOMAIN g :
                           IsStarted(g[i], r) /\ IsStarted(g[j], r) => i = j
                      /\ \A i, j \in DOMAIN g :
                           IsTerminal(g[i], r) /\ IsTerminal(g[j], r) => i = j
                      /\ \A j \in DOMAIN g :
                           IsTerminal(g[j], r) /\ g[j].status # "not_run" =>
                             \E i \in 1 .. j - 1 : IsStarted(g[i], r)
  BY <1>3 DEF RunsWellFormed, g
<1>4. \A i, j \in DOMAIN g : IsStarted(g[i], r) /\ IsStarted(g[j], r) => i = j
  BY <1>1, <1>2 DEF RunsWellFormed, StartedIn
<1>5. \A i, j \in DOMAIN g : IsTerminal(g[i], r) /\ IsTerminal(g[j], r) => i = j
  BY <1>1, <1>2 DEF RunsWellFormed, TerminalIn
<1>6. ASSUME NEW j \in DOMAIN g, IsTerminal(g[j], r), g[j].status # "not_run"
      PROVE  \E i \in 1 .. j - 1 : IsStarted(g[i], r)
  <2>1. CASE j \in DOMAIN f
    <3>1. PICK i \in 1 .. j - 1 : IsStarted(f[i], r)
      BY <1>1, <1>6, <2>1 DEF RunsWellFormed
    <3>2. i \in DOMAIN f
      BY <1>1, <2>1
    <3> QED
      BY <1>1, <3>1, <3>2
  <2>2. CASE j = n
    <3>1. PICK i \in DOMAIN f : IsStarted(f[i], r)
      BY <1>1, <1>6, <2>2 DEF StartedIn
    <3> QED
      BY <1>1, <2>2, <3>1
  <2> QED
    BY <1>2, <2>1, <2>2
<1> QED
  BY <1>4, <1>5, <1>6

-----------------------------------------------------------------------------
(* The line the program writes next, as the contract sees it.              *)

(* It is a valid run event with the next number, about the current run,    *)
(* which the file left in the phase the line needs.                        *)
LEMMA NextLineValid ==
  ASSUME IInv, RefInv, FinInv, pc \in Appending, pc \in Tails => WritesNotRun
  PROVE  /\ NextEvent \in Lines /\ NextEvent.type = "run_state"
         /\ NextEvent.run = index /\ index \in Runs
         /\ ValidRunEvent(NextEvent) /\ NextEvent.sequence = Len(log)
         /\ pc = "append_started" => NextEvent.status = "started"
         /\ pc = "append_terminal" =>
              NextEvent.status \notin {"started", "not_run"} /\ NextEvent.calls = execution.calls
         /\ pc = "append_interrupted" =>
              NextEvent.status \notin {"started", "not_run"} /\ NextEvent.calls = Unknown
         /\ pc \in Tails =>
              NextEvent.status = "not_run" /\ NextEvent.calls = 0
              /\ NextEvent.stop = ClosingReason /\ ClosingReason # "none"
<1>0. TypeInv /\ log \in Seq(Lines)
  BY DEF IInv, TypeInv, TypeOK
<1>1. NextEvent \in Lines /\ NextEvent.type = "run_state" /\ NextEvent.run = index
      /\ index \in Runs
  BY <1>0, NextLine DEF Appending, Tails
<1>2. sequence = Len(log) /\ sequence \in Nat /\ Len(log) > 0
  <2>1. Running /\ pc \notin Bumping /\ log # << >>
    BY DEF Running, Bumping, Appending, FinInv, LinesGood, Body
  <2> QED
    BY <1>0, <2>1 DEF FinInv, CountersFit, One
<1>3. CASE pc = "append_started"
  <2>1. NextEvent = RunEvent(sequence, index, "started", "none", "none", Unknown,
                             "not_applicable")
    BY <1>3 DEF NextEvent, Tails
  <2> QED
    BY <1>1, <1>2, <1>3, <2>1 DEF RunEvent, ValidRunEvent, Tails
<1>4. CASE pc = "append_terminal"
  <2>1. NextEvent = RunEvent(sequence, index, StatusOf(execution.outcome), execution.outcome,
                             "none", execution.calls, execution.cleanup)
    BY <1>4 DEF NextEvent, Tails
  <2>2. execution.outcome \in ExecutionOutcomes
        /\ (execution.cleanup = "failed" => execution.outcome = "cleanup_failure")
    BY <1>4 DEF IInv, ExecutionKnown, Recording, FinInv, CleanupTold
  <2>3. execution.outcome \in CompletedOutcomes =>
          StatusOf(execution.outcome) = "completed"
    BY DEF StatusOf
  <2>4. execution.outcome \notin CompletedOutcomes =>
          StatusOf(execution.outcome) = "failed" /\ execution.outcome # "none"
    BY <2>2 DEF StatusOf, ExecutionOutcomes, FailedOutcomes
  <2> QED
    BY <1>1, <1>2, <1>4, <2>1, <2>2, <2>3, <2>4 DEF RunEvent, ValidRunEvent, Tails
<1>5. CASE pc = "append_interrupted"
  <2>1. NextEvent = RunEvent(sequence, index, "interrupted", "human_interruption",
                             "human_interruption", Unknown, "not_applicable")
    BY <1>5 DEF NextEvent, Tails
  <2> QED
    BY <1>1, <1>2, <1>5, <2>1 DEF RunEvent, ValidRunEvent, Tails
<1>6. CASE pc \in Tails
  <2>1. NextEvent = RunEvent(sequence, index, "not_run", "stop_condition", ClosingReason, 0,
                             "not_applicable")
        /\ ClosingReason # "none"
    BY <1>6 DEF NextEvent, Tails, WritesNotRun
  <2> QED
    BY <1>1, <1>2, <1>6, <2>1 DEF RunEvent, ValidRunEvent, Tails
<1> QED
  BY <1>3, <1>4, <1>5, <1>6 DEF Appending, Tails

(* So the file stays a valid body, its counts move by that line, and it is *)
(* not finished.                                                           *)
LEMMA NextLineCounts ==
  ASSUME IInv, RefInv, FinInv, pc \in Appending, pc \in Tails => WritesNotRun,
         AppendCampaign
  PROVE  /\ Body(log') /\ RunsWellFormed(log') /\ ~FinishedIn(log')
         /\ Len(log') = Len(log) + 1 /\ Len(log) \in Nat
         /\ Cardinality({r \in Runs : StartedIn(log', r)})
              = Cardinality({r \in Runs : StartedIn(log, r)}) + One(pc = "append_started")
         /\ KnownCalls(log') =
              KnownCalls(log) + One(pc = "append_terminal" /\ execution.calls = 1)
         /\ UnknownCallRuns(log') =
              UnknownCallRuns(log)
                + One(pc = "append_terminal" /\ execution.calls = Unknown)
                + One(pc = "append_interrupted")
         /\ pc \notin Tails => NotRunLines(log') = NotRunLines(log)
         /\ NotRunLines(log') \subseteq NotRunLines(log) \cup {Len(log) + 1}
         /\ \A i \in NotRunLines(log) : log'[i] = log[i]
         /\ log'[Len(log) + 1] = NextEvent
         /\ KnownCalls(log) \in Nat /\ UnknownCallRuns(log) \in Nat
         /\ Cardinality({r \in Runs : StartedIn(log, r)}) \in Nat
<1> DEFINE e == NextEvent
<1>0. log \in Seq(Lines) /\ log' = Append(log, e)
  BY DEF IInv, TypeOK, AppendCampaign
<1>1. Running /\ Body(log) /\ RunsWellFormed(log) /\ ~FinishedIn(log)
  BY DEF Running, Appending, Tails, FinInv, LinesGood, RefInv, FileOpen
<1>2. /\ e \in Lines /\ e.type = "run_state" /\ e.run = index /\ index \in Runs
      /\ ValidRunEvent(e) /\ e.sequence = Len(log)
  BY NextLineValid
<1>3. /\ pc \in {"append_started"} \cup Tails => PhaseIn(log, index) = "planned"
      /\ pc \in {"append_terminal", "append_interrupted"} => PhaseIn(log, index) = "started"
  BY <1>2 DEF RefInv, PhasesFit, InRun, Bookkeeping, EndedRun, Runs
<1>4. /\ PhaseIn(log, index) = "planned" => ~StartedIn(log, index) /\ ~TerminalIn(log, index)
      /\ PhaseIn(log, index) = "started" => StartedIn(log, index) /\ ~TerminalIn(log, index)
  BY DEF PhaseIn, TerminalIn, NotRunIn, EndedIn
<1>5. /\ e.status = "started" <=> pc = "append_started"
      /\ e.status = "not_run" <=> pc \in Tails
  BY NextLineValid DEF Appending, Tails
<1>6. RunsWellFormed(log')
  <2>1. \A r \in Runs : IsStarted(e, r) => ~StartedIn(log, r)
    BY <1>2, <1>3, <1>4, <1>5 DEF IsStarted
  <2>2. \A r \in Runs : IsTerminal(e, r) =>
          ~TerminalIn(log, r) /\ (e.status # "not_run" => StartedIn(log, r))
    BY <1>2, <1>3, <1>4, <1>5 DEF IsTerminal, Appending, Tails
  <2> QED
    BY <1>0, <1>1, <1>2, <2>1, <2>2, AppendRuns
<1>7. Body(log')
  BY <1>0, <1>1, <1>2, AppendBody
<1>8. ~FinishedIn(log')
  BY <1>0, <1>1, <1>2, AppendExists
<1>9. /\ KnownCalls(log) \in Nat /\ UnknownCallRuns(log) \in Nat
      /\ KnownCalls(log') = KnownCalls(log) + One(Concludes(e) /\ e.calls = 1)
      /\ UnknownCallRuns(log') =
           UnknownCallRuns(log) + One(Concludes(e) /\ e.status # "not_run" /\ e.calls = Unknown)
      /\ NotRunLines(log') =
           NotRunLines(log)
             \cup (IF Concludes(e) /\ e.status = "not_run" THEN {Len(log) + 1} ELSE {})
  BY <1>0, <1>2, AppendCounts
<1>10. /\ Concludes(e) <=> pc # "append_started"
       /\ pc = "append_terminal" => e.calls = execution.calls
       /\ pc = "append_interrupted" => e.calls = Unknown
       /\ pc \in Tails => e.calls = 0
  BY <1>2, <1>5, NextLineValid DEF Concludes
<1>11. /\ KnownCalls(log') =
            KnownCalls(log) + One(pc = "append_terminal" /\ execution.calls = 1)
       /\ UnknownCallRuns(log') =
            UnknownCallRuns(log) + One(pc = "append_terminal" /\ execution.calls = Unknown)
              + One(pc = "append_interrupted")
  <2>1. One(Concludes(e) /\ e.calls = 1) = One(pc = "append_terminal" /\ execution.calls = 1)
    BY <1>10, UnknownAssumption DEF One, Appending, Tails
  <2>2. One(Concludes(e) /\ e.status # "not_run" /\ e.calls = Unknown)
          = One(pc = "append_terminal" /\ execution.calls = Unknown)
              + One(pc = "append_interrupted")
    BY <1>5, <1>10, UnknownAssumption DEF One, Appending, Tails
  <2>3. /\ One(pc = "append_terminal" /\ execution.calls = Unknown) \in Nat
        /\ One(pc = "append_interrupted") \in Nat
    BY DEF One
  <2> QED
    BY <1>9, <2>1, <2>2, <2>3
<1>12. Cardinality({r \in Runs : StartedIn(log', r)})
         = Cardinality({r \in Runs : StartedIn(log, r)}) + One(pc = "append_started")
       /\ Cardinality({r \in Runs : StartedIn(log, r)}) \in Nat
  <2>1. CASE pc = "append_started"
    <3>1. IsStarted(e, index) /\ ~StartedIn(log, index)
      BY <1>2, <1>3, <1>4, <1>5, <2>1 DEF IsStarted
    <3> QED
      BY <1>0, <1>2, <2>1, <3>1, AppendAttempts DEF One
  <2>2. CASE pc # "append_started"
    <3>1. \A x : ~IsStarted(e, x)
      BY <1>5, <2>2 DEF IsStarted
    <3> QED
      BY <1>0, <1>2, <2>2, <3>1, AppendAttempts DEF One
  <2> QED
    BY <2>1, <2>2
<1>13. pc \notin Tails => NotRunLines(log') = NotRunLines(log)
  BY <1>5, <1>9
<1>14. /\ Len(log') = Len(log) + 1 /\ Len(log) \in Nat /\ log'[Len(log) + 1] = e
       /\ \A i \in NotRunLines(log) : log'[i] = log[i]
  BY <1>0, <1>2, AppendConcludes DEF NotRunLines
<1> QED
  BY <1>6, <1>7, <1>8, <1>9, <1>11, <1>12, <1>13, <1>14

-----------------------------------------------------------------------------
(* The footer: what the tail writes last is a file the loader accepts.     *)

(* Without runs left in another phase every run has one terminal line.     *)
LEMMA TerminalPerRun ==
  ASSUME log \in Seq(Lines), RunsWellFormed(log),
         \A r \in Runs : PhaseIn(log, r) \in {"ended", "not_run"}
  PROVE  Cardinality(TerminalLines(log)) = RunCount
<1> DEFINE runOf == [i \in TerminalLines(log) |-> log[i].run]
<1>1. \A i, j \in TerminalLines(log) : log[i].run = log[j].run => i = j
  BY TerminalRuns DEF RunsWellFormed, TerminalLines, IsTerminal
<1>2. \A r \in Runs : \E i \in TerminalLines(log) : log[i].run = r
  BY DEF PhaseIn, NotRunIn, EndedIn, TerminalLines, IsTerminal
<1>3. runOf \in Bijection(TerminalLines(log), Runs)
  BY <1>1, <1>2, TerminalRuns DEF Bijection, Injection, Surjection, IsInjective
<1>4. ExistsBijection(TerminalLines(log), Runs)
  BY <1>3 DEF ExistsBijection
<1> QED
  BY <1>4, FiniteLines, FS_Bijection

(* The footer closes a file that loads, if a stop reason has a not_run     *)
(* line to carry it.                                                       *)
LEMMA FooterLoads ==
  ASSUME IInv, RefInv, FinInv, pc \in Tails, ~WritesNotRun, log' = Append(log, NextEvent)
  PROVE  FinishedLogLoadsUnlessLastRunStopped'
<1> DEFINE e == NextEvent
           n == Len(log) + 1
<1>0. /\ log \in Seq(Lines) /\ index \in Nat /\ RunCount \in Nat /\ Len(log) \in Nat
      /\ e \in Lines
  <2>1. TypeInv /\ pc \in Appending
    BY DEF IInv, TypeInv, Appending, Tails
  <2> QED
    BY <2>1, NextLine, RunCountAssumption DEF TypeInv, TypeOK
<1>1. e = CampaignFinished(sequence, ClosingReason, attempted, providerCalls, unknownCallRuns)
  BY DEF NextEvent, Tails
<1>2. /\ e.type = "campaign_finished" /\ e.sequence = sequence /\ e.stop = ClosingReason
      /\ e.attempted = attempted /\ e.calls = providerCalls /\ e.unknown = unknownCallRuns
  BY <1>1 DEF CampaignFinished
<1>3. Running /\ Body(log) /\ RunsWellFormed(log) /\ pc \notin Bumping
      /\ pc # "append_terminal" /\ pc # "bump_started"
  BY DEF Running, Tails, Bumping, FinInv, LinesGood
<1>4. /\ sequence = Len(log)
      /\ attempted = Cardinality({r \in Runs : StartedIn(log, r)})
      /\ providerCalls = KnownCalls(log) /\ unknownCallRuns = UnknownCallRuns(log)
  <2>1. KnownCalls(log) \in Nat /\ UnknownCallRuns(log) \in Nat
        /\ Cardinality({r \in Runs : StartedIn(log, r)}) \in Nat
    BY <1>0, AppendCounts, AppendAttempts
  <2> QED
    BY <1>0, <1>3, <2>1 DEF FinInv, CountersFit, One, Tails, Bumping
<1>5. \A r \in Runs : PhaseIn(log, r) \in {"ended", "not_run"}
  <2>1. index > RunCount
    BY <1>0 DEF WritesNotRun, ClosingReason, RefInv, PhasesFit, Tails
  <2> QED
    BY <1>0, <2>1 DEF RefInv, PhasesFit, Runs
<1>6. Cardinality(TerminalLines(log)) = RunCount
  BY <1>0, <1>3, <1>5, TerminalPerRun
<1>7. /\ log' # << >> /\ Len(log') = n /\ DOMAIN log' = 1 .. n /\ log'[n] = e
      /\ \A i \in 1 .. Len(log) : log'[i] = log[i]
      /\ Len(log) > 0 /\ log'[1] = CampaignStarted
  BY <1>0, <1>3 DEF Body
<1>8. \A i \in 2 .. Len(log) :
        log'[i].type = "run_state" /\ ValidRunEvent(log'[i]) /\ log'[i].sequence = i - 1
  BY <1>3, <1>7 DEF Body
<1>9. \A i \in 1 .. n : i = 1 \/ i = n \/ i \in 2 .. Len(log)
  BY <1>0
<1>10. /\ \A i \in DOMAIN log' : log'[i].type # "torn"
       /\ \A i \in DOMAIN log' : log'[i].type = "run_state" => ValidRunEvent(log'[i])
       /\ OneHeaderOneFooter(log')
       /\ SequenceContiguous(log')
  <2>1. CampaignStarted.type = "campaign_started" /\ CampaignStarted.sequence = 0
    BY DEF CampaignStarted
  <2> QED
    BY <1>0, <1>2, <1>4, <1>7, <1>8, <1>9, <2>1 DEF OneHeaderOneFooter, SequenceContiguous
<1>11. RunsWellFormed(log')
  BY <1>0, <1>2, <1>3, AppendRuns DEF IsStarted, IsTerminal
<1>12. /\ TerminalLines(log') = TerminalLines(log)
       /\ NotRunLines(log') = NotRunLines(log)
       /\ KnownCalls(log') = KnownCalls(log) /\ UnknownCallRuns(log') = UnknownCallRuns(log)
       /\ Cardinality({r \in Runs : StartedIn(log', r)})
            = Cardinality({r \in Runs : StartedIn(log, r)})
       /\ \A i \in NotRunLines(log) : log'[i] = log[i]
  <2>1. ~Concludes(e) /\ \A x : ~IsStarted(e, x)
    BY <1>2 DEF Concludes, IsStarted
  <2>2. /\ TerminalLines(log') = TerminalLines(log)
        /\ \A i \in TerminalLines(log) : log'[i] = log[i]
    BY <1>0, <2>1, AppendConcludes
  <2>3. /\ KnownCalls(log) \in Nat /\ UnknownCallRuns(log) \in Nat
        /\ KnownCalls(log') = KnownCalls(log) + 0
        /\ UnknownCallRuns(log') = UnknownCallRuns(log) + 0
        /\ NotRunLines(log') = NotRunLines(log)
    BY <1>0, <2>1, AppendCounts DEF One
  <2>4. Cardinality({r \in Runs : StartedIn(log', r)})
          = Cardinality({r \in Runs : StartedIn(log, r)})
    BY <1>0, <2>1, AppendAttempts
  <2>5. \A i \in NotRunLines(log) : log'[i] = log[i]
    BY <2>2 DEF NotRunLines
  <2>6. KnownCalls(log') = KnownCalls(log) /\ UnknownCallRuns(log') = UnknownCallRuns(log)
    BY <2>3
  <2> QED
    BY <2>2, <2>3, <2>4, <2>5, <2>6
<1>13. CountsMatch(log')
  BY <1>2, <1>4, <1>6, <1>7, <1>12 DEF CountsMatch, CampaignStarted
<1>14. ASSUME e.stop = "none" \/ \E r \in Runs : NotRunIn(log', r)
       PROVE  StopReasonsMatch(log')
  <2>1. \A i \in NotRunLines(log') : log'[i].stop = e.stop /\ e.stop # "none"
    BY <1>2, <1>3, <1>12 DEF FinInv, ReasonsAgree
  <2>2. e.stop # "none" => NotRunLines(log') # {}
    BY <1>14 DEF NotRunIn, NotRunLines, TerminalLines, IsTerminal
  <2>3. {log'[i].stop : i \in NotRunLines(log')} = IF e.stop = "none" THEN {} ELSE {e.stop}
    BY <2>1, <2>2
  <2> QED
    BY <1>7, <2>3 DEF StopReasonsMatch
<1> QED
  BY <1>7, <1>10, <1>11, <1>13, <1>14
  DEF FinishedLogLoadsUnlessLastRunStopped, CampaignLoads

(* An append that failed leaves no other finished file.                    *)
LEMMA FailedAppendLoads ==
  ASSUME IInv, RefInv, FinInv, AppendFails
  PROVE  FinishedLogLoadsUnlessLastRunStopped'
<1>0. pc \in Appending /\ log \in Seq(Lines) /\ ~FinishedIn(log) /\ TypeInv
  BY DEF AppendFails, IInv, TypeInv, TypeOK, RefInv, FileOpen, Appending
<1>1. CASE log' = log
  BY <1>0, <1>1 DEF FinishedLogLoadsUnlessLastRunStopped
<1>2. CASE log' = Append(log, TornLine)
  <2>1. ~FinishedIn(log')
    BY <1>0, <1>2, AppendExists, NextLine DEF TornLine
  <2> QED
    BY <2>1 DEF FinishedLogLoadsUnlessLastRunStopped
<1>3. CASE log' = Append(log, NextEvent) /\ (pc \in Tails => WritesNotRun)
  <2>1. ~FinishedIn(log')
    BY <1>0, <1>3, NextLineCounts DEF AppendCampaign
  <2> QED
    BY <2>1 DEF FinishedLogLoadsUnlessLastRunStopped
<1>4. CASE log' = Append(log, NextEvent) /\ pc \in Tails /\ ~WritesNotRun
  BY <1>4, FooterLoads
<1> QED
  BY <1>1, <1>2, <1>3, <1>4 DEF AppendFails

-----------------------------------------------------------------------------
(* The end of an invocation keeps FinInv.                                  *)
LEMMA ExitFin ==
  ASSUME NEW how, Exit(how), FinishedLogLoadsUnlessLastRunStopped'
  PROVE  FinInv'
BY DEF Exit, FinInv, LinesGood, CleanupTold, ReasonsAgree, CountersFit, FreshCounters,
       Running, Executing, Recording

(* The initial states satisfy it.                                          *)
LEMMA FinInit ==
  ASSUME Init
  PROVE  FinInv
BY DEF Init, FreshLocals, FinInv, LinesGood, CleanupTold, ReasonsAgree, CountersFit,
       FreshCounters, Running, Executing, Recording, FinishedLogLoadsUnlessLastRunStopped,
       FinishedIn

(* Every step keeps it.                                                    *)
LEMMA FinStep ==
  ASSUME CountersAgree, IInv, RefInv, FinInv, [Next]_vars
  PROVE  FinInv'
<1> USE DEF environment, locals, executorLocals, Executing, Bookkeeping, Recording, Tails,
            Running, Bumping, FinInv
<1>0. /\ IInv /\ RefInv /\ TypeInv /\ log \in Seq(Lines) /\ sequence \in Nat /\ attempted \in Nat
      /\ providerCalls \in Nat /\ unknownCallRuns \in Nat /\ execution \in Executions
      /\ Len(log) \in Nat /\ KnownCalls(log) \in Nat /\ UnknownCallRuns(log) \in Nat
      /\ Cardinality({r \in Runs : StartedIn(log, r)}) \in Nat
  <2>1. TornLine \in Lines /\ log \in Seq(Lines)
    BY DEF IInv, TypeOK, Lines
  <2>2. /\ KnownCalls(log) \in Nat /\ UnknownCallRuns(log) \in Nat
        /\ Cardinality({r \in Runs : StartedIn(log, r)}) \in Nat
    BY <2>1, AppendCounts, AppendAttempts
  <2> QED
    BY <2>1, <2>2 DEF IInv, TypeInv, TypeOK
<1>1. ASSUME UNCHANGED log PROVE FinishedLogLoadsUnlessLastRunStopped'
  BY <1>1 DEF FinishedLogLoadsUnlessLastRunStopped
<1>2. CASE Invoke
  BY <1>1, <1>2 DEF Invoke, LinesGood, CleanupTold, ReasonsAgree, CountersFit, FreshCounters
<1>3. CASE CreateCampaign
  <2>1. /\ pc = "create" /\ pc' = "check" /\ log' = << CampaignStarted >>
        /\ UNCHANGED << sequence, attempted, providerCalls, unknownCallRuns, execution >>
    BY <1>3 DEF CreateCampaign
  <2>2. CampaignStarted.type = "campaign_started" /\ Len(log') = 1 /\ log'[1] = CampaignStarted
        /\ DOMAIN log' = {1}
    BY <2>1 DEF CampaignStarted
  <2>3. Body(log') /\ RunsWellFormed(log') /\ ~FinishedIn(log')
    BY <2>2 DEF Body, RunsWellFormed, IsStarted, IsTerminal, FinishedIn
  <2>4. TerminalLines(log') = {} /\ \A r : ~StartedIn(log', r)
    BY <2>2 DEF TerminalLines, StartedIn, IsStarted
  <2>5. KnownCalls(log') = 0 /\ UnknownCallRuns(log') = 0 /\ NotRunLines(log') = {}
        /\ Cardinality({r \in Runs : StartedIn(log', r)}) = 0
    <3>1. {r \in Runs : StartedIn(log', r)} = {}
      BY <2>4
    <3> QED
      BY <2>4, <3>1, FS_EmptySet DEF KnownCalls, UnknownCallRuns, NotRunLines
  <2> QED
    BY <2>1, <2>2, <2>3, <2>5
    DEF LinesGood, CleanupTold, ReasonsAgree, CountersFit, FreshCounters, One,
        FinishedLogLoadsUnlessLastRunStopped
<1>4. CASE \/ RefuseCampaign \/ PropagateOther \/ InterruptTail \/ Crash
  BY <1>1, <1>4, ExitFin DEF RefuseCampaign, PropagateOther, InterruptTail, Crash
<1>5. CASE AppendFails
  BY <1>0, <1>5, FailedAppendLoads, ExitFin DEF AppendFails
<1>6. CASE AppendFinished
  <2>1. FinishedLogLoadsUnlessLastRunStopped'
    BY <1>0, <1>6, FooterLoads DEF AppendFinished, AppendCampaign
  <2> QED
    BY <1>6, <2>1, ExitFin DEF AppendFinished
<1>7. ASSUME pc \in Appending, pc \in Tails => WritesNotRun, AppendCampaign
      PROVE  FinishedLogLoadsUnlessLastRunStopped' /\ LinesGood'
  <2>1. Body(log') /\ RunsWellFormed(log') /\ ~FinishedIn(log')
    BY <1>0, <1>7, NextLineCounts
  <2> QED
    BY <2>1 DEF FinishedLogLoadsUnlessLastRunStopped, LinesGood
<1>8. CASE AppendStarted \/ AppendTerminal \/ AppendInterrupted
  <2>1. /\ pc \in {"append_started", "append_terminal", "append_interrupted"}
        /\ pc = "append_started" => pc' = "bump_started"
        /\ pc = "append_terminal" => pc' = "bump_terminal"
        /\ pc = "append_interrupted" => pc' = "bump_interrupted"
        /\ AppendCampaign
        /\ UNCHANGED << sequence, attempted, providerCalls, unknownCallRuns, execution >>
    BY <1>8 DEF AppendStarted, AppendTerminal, AppendInterrupted
  <2>2. LinesGood' /\ FinishedLogLoadsUnlessLastRunStopped'
    BY <1>7, <2>1 DEF Appending
  <2>3. /\ Len(log') = Len(log) + 1
        /\ Cardinality({r \in Runs : StartedIn(log', r)})
             = Cardinality({r \in Runs : StartedIn(log, r)}) + One(pc = "append_started")
        /\ KnownCalls(log') =
             KnownCalls(log) + One(pc = "append_terminal" /\ execution.calls = 1)
        /\ UnknownCallRuns(log') =
             UnknownCallRuns(log)
               + One(pc = "append_terminal" /\ execution.calls = Unknown)
               + One(pc = "append_interrupted")
        /\ NotRunLines(log') = NotRunLines(log)
    BY <1>0, <2>1, NextLineCounts DEF Appending
  <2>4. NotRunLines(log') = {}
    BY <2>1, <2>3 DEF ReasonsAgree
  <2>5. CountersFit'
    BY <1>0, <2>1, <2>3 DEF CountersFit, One
  <2> QED
    BY <2>1, <2>2, <2>4, <2>5 DEF CleanupTold, ReasonsAgree, FreshCounters
<1>9. CASE AppendNotRun
  <2>1. /\ pc \in Tails /\ WritesNotRun /\ AppendCampaign /\ sequence' = sequence + 1
        /\ UNCHANGED << pc, attempted, providerCalls, unknownCallRuns, execution, stopReason >>
    BY <1>9 DEF AppendNotRun
  <2>2. LinesGood' /\ FinishedLogLoadsUnlessLastRunStopped'
    BY <1>7, <2>1 DEF Appending
  <2>3. /\ Len(log') = Len(log) + 1
        /\ Cardinality({r \in Runs : StartedIn(log', r)})
             = Cardinality({r \in Runs : StartedIn(log, r)}) + One(pc = "append_started")
        /\ KnownCalls(log') =
             KnownCalls(log) + One(pc = "append_terminal" /\ execution.calls = 1)
        /\ UnknownCallRuns(log') =
             UnknownCallRuns(log)
               + One(pc = "append_terminal" /\ execution.calls = Unknown)
               + One(pc = "append_interrupted")
        /\ NotRunLines(log') \subseteq NotRunLines(log) \cup {Len(log) + 1}
        /\ \A i \in NotRunLines(log) : log'[i] = log[i]
        /\ log'[Len(log) + 1] = NextEvent
    BY <1>0, <2>1, NextLineCounts DEF Appending
  <2>4. NextEvent.stop = ClosingReason /\ ClosingReason # "none"
    BY <1>0, <2>1, NextLineValid DEF Appending
  <2>5. ClosingReason' = ClosingReason
    BY <2>1 DEF ClosingReason
  <2>6. ReasonsAgree'
    BY <2>1, <2>3, <2>4, <2>5 DEF ReasonsAgree
  <2>7. CountersFit'
    BY <1>0, <2>1, <2>3 DEF CountersFit, One
  <2> QED
    BY <2>1, <2>2, <2>6, <2>7 DEF CleanupTold, FreshCounters
<1>10. ASSUME UNCHANGED log, pc \notin {"idle", "create"}, pc' \notin {"idle", "create"},
              pc \in Tails => UNCHANGED << pc, stopReason >>, CleanupTold', CountersFit'
       PROVE  FinInv'
  <2>1. ReasonsAgree'
    BY <1>10 DEF ReasonsAgree, ClosingReason, NotRunLines, TerminalLines
  <2> QED
    BY <1>1, <1>10, <2>1 DEF LinesGood, FreshCounters
<1>11. CASE LoopEnds \/ StopBeforeRun \/ BeginRun \/ BumpStarted \/ BumpTerminal \/ StopCheck
  <2>1. CleanupTold'
    BY <1>11 DEF LoopEnds, StopBeforeRun, Stop, BeginRun, BumpStarted, BumpTerminal, StopCheck,
       CleanupTold, NoExecution
  <2>2. CountersFit'
    <3>1. CASE LoopEnds \/ StopBeforeRun \/ BeginRun \/ StopCheck
      <4>1. /\ pc \in {"check", "stop_check"} /\ pc' \in {"check", "append_started", "tail"}
            /\ UNCHANGED << log, sequence, attempted, providerCalls, unknownCallRuns >>
        BY <3>1 DEF LoopEnds, StopBeforeRun, Stop, BeginRun, StopCheck
      <4> QED
        BY <1>0, <4>1 DEF CountersFit, One
    <3>2. CASE BumpStarted
      BY <1>0, <3>2 DEF BumpStarted, CountersFit, One
    <3>3. CASE BumpTerminal
      BY <1>0, <3>3 DEF BumpTerminal, CountersFit, One
    <3> QED
      BY <1>11, <3>1, <3>2, <3>3
  <2>3. UNCHANGED log /\ pc \notin {"idle", "create"} \cup Tails /\ pc' \notin {"idle", "create"}
    BY <1>11 DEF LoopEnds, StopBeforeRun, Stop, BeginRun, BumpStarted, BumpTerminal, StopCheck
  <2> QED
    BY <1>10, <2>1, <2>2, <2>3
<1>12. CASE PrepareAdapter \/ CallProvider \/ EndLive \/ PublishPair \/ AdapterCleared
  <2>1. \A e \in ArtifactExecutions(stage) : e.cleanup = "not_applicable"
    BY DEF ArtifactExecutions
  <2>2. CleanupTold'
    BY <1>0, <1>12, <2>1 DEF PrepareAdapter, CallProvider, EndLive, PublishPair, AdapterCleared,
       Catch, CleanupTold, HarnessFailure, Executions
  <2>3. /\ UNCHANGED << log, sequence, attempted, providerCalls, unknownCallRuns >>
        /\ pc \in Executing /\ pc' \in Executing \cup {"account", "append_interrupted"}
    BY <1>12 DEF PrepareAdapter, CallProvider, EndLive, PublishPair, AdapterCleared,
       Catch, ExecutorStep
  <2>4. CountersFit'
    BY <1>0, <2>3 DEF CountersFit, One
  <2> QED
    BY <1>10, <2>2, <2>3, <2>4
<1>13. CASE AdapterNotCleared \/ InterruptExecutor \/ InterruptReplaced
  <2>1. CleanupTold'
    BY <1>0, <1>13
    DEF AdapterNotCleared, InterruptExecutor, InterruptReplaced, Catch, CleanupTold, Executions
  <2>2. /\ UNCHANGED << log, sequence, attempted, providerCalls, unknownCallRuns >>
        /\ pc \in Executing /\ pc' \in {"live", "cleanup", "account"}
    BY <1>13 DEF AdapterNotCleared, InterruptExecutor, InterruptReplaced, Catch
  <2>3. CountersFit'
    BY <1>0, <2>2 DEF CountersFit, One
  <2> QED
    BY <1>10, <2>1, <2>2, <2>3
<1>14. CASE Account
  <2>1. /\ pc = "account" /\ pc' = "append_terminal"
        /\ UNCHANGED << log, sequence, attempted, execution >>
        /\ execution.calls \in {0, 1, Unknown}
        /\ execution.calls = Unknown =>
             unknownCallRuns' = unknownCallRuns + 1 /\ UNCHANGED providerCalls
        /\ execution.calls # Unknown =>
             providerCalls' = providerCalls + execution.calls /\ UNCHANGED unknownCallRuns
    BY <1>0, <1>14 DEF Account, Executions, CallCounts
  <2>2. CountersFit'
    BY <1>0, <2>1, UnknownAssumption DEF CountersFit, One
  <2> QED
    BY <1>10, <2>1, <2>2 DEF CleanupTold
<1>15. CASE BumpInterrupted
  <2>1. CountersFit'
    BY <1>0, <1>15 DEF BumpInterrupted, CountersFit, One
  <2> QED
    BY <1>10, <1>15, <2>1 DEF BumpInterrupted, CleanupTold
<1>16. CASE InterruptScheduler
  <2>1. pc \in {"check", "append_started", "stop_check"} /\ pc' = "human_tail"
        /\ UNCHANGED << log, sequence, attempted, providerCalls, unknownCallRuns >>
    BY <1>16 DEF InterruptScheduler, CountersAgree
  <2>2. CountersFit'
    BY <1>0, <2>1 DEF CountersFit, One
  <2> QED
    BY <1>10, <2>1, <2>2 DEF CleanupTold
<1>17. CASE UNCHANGED vars
  BY <1>1, <1>17 DEF vars, LinesGood, CleanupTold, ReasonsAgree, ClosingReason, NotRunLines,
     TerminalLines, CountersFit, FreshCounters, One
<1> QED
  BY <1>2, <1>3, <1>4, <1>5, <1>6, <1>8, <1>9, <1>11, <1>12, <1>13, <1>14, <1>15, <1>16, <1>17
  DEF Next, ProgramStep, Done

(* Every Campaign file the scheduler finished is one load_campaign         *)
(* accepts, unless it was stopped by its very last run; for every Plan, as *)
(* long as signals fall where the scheduler's counters agree with its      *)
(* file.                                                                   *)
THEOREM FinishedLoads ==
  ASSUME CountersAgree
  PROVE  Spec => []FinishedLogLoadsUnlessLastRunStopped
<1>1. Init => RefInv /\ FinInv
  BY RefInit, FinInit
<1>2. IInv /\ RefInv /\ [Next]_vars => RefInv'
  BY RefStep, CountersAgree DEF IInv, TypeInv
<1>3. IInv /\ RefInv /\ FinInv /\ [Next]_vars => FinInv'
  BY FinStep, CountersAgree
<1>4. FinInv => FinishedLogLoadsUnlessLastRunStopped
  BY DEF FinInv
<1> QED
  BY <1>1, <1>2, <1>3, <1>4, Inductive, PTL DEF Spec

-----------------------------------------------------------------------------
(***************************************************************************)
(* The report: the Artifacts at the paths of the Plan and the lines of the *)
(* Campaign file tell the same story of every run.                         *)
(***************************************************************************)

Ours(r) == saved[r].recording = "ours"

(* The files of a run belong together; only a publication that was cut off *)
(* leaves a Recording of this Campaign alone.                              *)
FilesFit ==
  /\ saved \in [Runs -> Saved]
  /\ \A r \in Runs :
       /\ saved[r].evidence # Nothing => saved[r].evidence.by = saved[r].recording
       /\ Ours(r) /\ ~spoiled => saved[r].evidence # Nothing

(* The Campaign publishes for runs it has announced and not skipped.       *)
OursAnnounced == \A r \in Runs : Ours(r) => PhaseIn(log, r) \in {"started", "ended"}

(* Evidence of this Campaign, with an Artifact that says what x, a line or *)
(* an execution, says.                                                     *)
Agrees(x, r) ==
  /\ Ours(r) /\ saved[r].evidence # Nothing
  /\ CampaignMatches(x, saved[r].evidence.artifact)

(* A line that states its calls, and only such a line, has its Evidence.   *)
LineTold(line) ==
  /\ line.status # "not_run" /\ line.calls # Unknown => Agrees(line, line.run)
  /\ Ours(line.run) /\ ~spoiled =>
       line.status \notin {"interrupted", "not_run"} /\ line.calls # Unknown
  /\ line.outcome \in EvidenceRequired => line.calls # Unknown /\ line.status # "not_run"
  /\ line.status = "failed" => line.outcome \in FailedOutcomes
LinesTold == \A i \in TerminalLines(log) : LineTold(log[i])

(* The same of the execution of the current run on its way to its line.    *)
Unpublished == {"bump_started", "adapter", "live", "publish"}
Published == {"cleanup", "account", "append_terminal"}
ExecutionTold ==
  /\ pc \in Unpublished => ~Ours(index)
  /\ pc \in Unpublished \ {"bump_started"} => execution = NoExecution /\ caught = "nothing"
  /\ pc \in Published =>
       /\ execution.calls # Unknown => Agrees(execution, index)
       /\ Ours(index) /\ ~spoiled => execution.calls # Unknown
       /\ execution.outcome \in EvidenceRequired => execution.calls # Unknown
  /\ pc = "cleanup" => execution.cleanup # "failed"
  /\ pc = "cleanup" /\ Ours(index) /\ ~spoiled => caught = "nothing"
  /\ pc = "append_interrupted" /\ Ours(index) => spoiled

SavedInv == FilesFit /\ OursAnnounced /\ LinesTold /\ ExecutionTold

-----------------------------------------------------------------------------
(* What an Artifact says is what the report reads off it.                  *)
LEMMA ClassifiedMatches ==
  ASSUME NEW a \in Artifacts
  PROVE  /\ CampaignMatches(Classified(a), a)
         /\ Classified(a).calls = a.calls /\ a.calls \in {0, 1}
         /\ Classified(a).cleanup = "not_applicable"
BY DEF Artifacts, Classified, CampaignMatches, ArtifactOutcome

(* Lines keep telling what they told while the files of this Campaign that *)
(* they tell of stay.                                                      *)
LEMMA KeepLines ==
  ASSUME LinesTold, UNCHANGED log, spoiled => spoiled',
         \A i \in TerminalLines(log) :
           /\ Ours(log[i].run)' => Ours(log[i].run)
           /\ Ours(log[i].run) => UNCHANGED saved[log[i].run]
  PROVE  LinesTold'
BY DEF LinesTold, LineTold, Agrees, Ours

(* So does the file with one more line that tells the truth.               *)
LEMMA AppendTold ==
  ASSUME log \in Seq(Lines), LinesTold, NEW e \in Lines, log' = Append(log, e),
         UNCHANGED << saved, spoiled >>, Concludes(e) => LineTold(e)
  PROVE  LinesTold'
<1>1. ASSUME NEW i \in TerminalLines(log') PROVE LineTold(log'[i])
  <2>1. CASE i \in TerminalLines(log)
    <3>1. log'[i] = log[i]
      BY <2>1, AppendConcludes
    <3> QED
      BY <2>1, <3>1 DEF LinesTold
  <2>2. CASE i \notin TerminalLines(log)
    <3>1. Concludes(e) /\ log'[i] = e
      BY <1>1, <2>2, AppendConcludes
    <3> QED
      BY <3>1
  <2> QED
    BY <2>1, <2>2
<1> QED
  BY <1>1 DEF LinesTold, LineTold, Agrees, Ours

(* A terminal line the program writes tells what its execution told.       *)
LEMMA NextLineTold ==
  ASSUME IInv, RefInv, SavedInv, pc \in Appending
  PROVE  Concludes(NextEvent) => LineTold(NextEvent)
<1>0. TypeInv /\ log \in Seq(Lines)
  BY DEF IInv, TypeInv, TypeOK
<1>1. CASE pc = "append_started"
  BY <1>0, <1>1, NextLine DEF Concludes
<1>2. CASE pc = "append_terminal"
  <2>1. NextEvent = RunEvent(sequence, index, StatusOf(execution.outcome), execution.outcome,
                             "none", execution.calls, execution.cleanup)
    BY <1>2 DEF NextEvent, Tails
  <2>2. /\ NextEvent.run = index /\ NextEvent.outcome = execution.outcome
        /\ NextEvent.status = StatusOf(execution.outcome)
        /\ NextEvent.calls = execution.calls /\ NextEvent.cleanup = execution.cleanup
    BY <2>1 DEF RunEvent
  <2>3. StatusOf(execution.outcome) = "failed" => execution.outcome \in FailedOutcomes
    BY <1>2 DEF IInv, ExecutionKnown, Recording, StatusOf, ExecutionOutcomes
  <2>4. StatusOf(execution.outcome) \notin {"interrupted", "not_run"}
    BY DEF StatusOf
  <2>5. /\ execution.calls # Unknown => Agrees(execution, index)
        /\ Ours(index) /\ ~spoiled => execution.calls # Unknown
        /\ execution.outcome \in EvidenceRequired => execution.calls # Unknown
    BY <1>2 DEF SavedInv, ExecutionTold, Published
  <2>6. Agrees(execution, index) => Agrees(NextEvent, index)
    BY <2>2 DEF Agrees, CampaignMatches
  <2> QED
    BY <2>2, <2>3, <2>4, <2>5, <2>6 DEF LineTold
<1>3. CASE pc = "append_interrupted"
  <2>1. NextEvent = RunEvent(sequence, index, "interrupted", "human_interruption",
                             "human_interruption", Unknown, "not_applicable")
    BY <1>3 DEF NextEvent, Tails
  <2>2. Ours(index) => spoiled
    BY <1>3 DEF SavedInv, ExecutionTold
  <2> QED
    BY <2>1, <2>2 DEF RunEvent, LineTold, EvidenceRequired
<1>4. CASE pc \in Tails /\ WritesNotRun
  <2>1. NextEvent = RunEvent(sequence, index, "not_run", "stop_condition", ClosingReason, 0,
                             "not_applicable")
        /\ index \in Runs
    BY <1>0, <1>4, NextLine DEF NextEvent, Tails, Appending
  <2>2. PhaseIn(log, index) = "planned"
    BY <1>4, <2>1 DEF RefInv, PhasesFit, IInv, TypeOK, Runs
  <2>3. ~Ours(index)
    BY <2>1, <2>2 DEF SavedInv, OursAnnounced
  <2> QED
    BY <2>1, <2>3 DEF RunEvent, LineTold, EvidenceRequired
<1>5. CASE pc \in Tails /\ ~WritesNotRun
  BY <1>0, <1>5, NextLine DEF Concludes, Appending
<1> QED
  BY <1>1, <1>2, <1>3, <1>4, <1>5 DEF Appending, Tails

(* An append leaves every published run announced.                         *)
LEMMA AppendAnnounced ==
  ASSUME IInv, RefInv, SavedInv, pc \in Appending, UNCHANGED saved,
         log' \in {log, Append(log, TornLine), Append(log, NextEvent)}
  PROVE  OursAnnounced'
<1>0. TypeInv /\ log \in Seq(Lines) /\ NextEvent \in Lines /\ TornLine \in Lines
      /\ TornLine.type = "torn"
  <2>1. TypeInv /\ log \in Seq(Lines)
    BY DEF IInv, TypeInv, TypeOK
  <2> QED
    BY <2>1, NextLine DEF TornLine
<1>1. SUFFICES ASSUME NEW r \in Runs, Ours(r)
               PROVE  PhaseIn(log', r) \in {"started", "ended"}
  BY <1>1 DEF OursAnnounced, Ours, PhaseIn
<1>2. PhaseIn(log, r) \in {"started", "ended"}
  BY <1>1 DEF SavedInv, OursAnnounced
<1>3. CASE log' = log
  BY <1>2, <1>3
<1>4. CASE log' = Append(log, TornLine)
  BY <1>0, <1>2, <1>4, AppendOther
<1>5. CASE log' = Append(log, NextEvent)
  <2>1. CASE NextEvent.type # "run_state" \/ NextEvent.run # r
    BY <1>0, <1>2, <1>5, <2>1, AppendOther
  <2>2. CASE NextEvent.type = "run_state" /\ NextEvent.run = r
    <3>1. ~(pc \in Tails /\ ~WritesNotRun) /\ r = index
      BY <1>0, <2>2, NextLine DEF Appending, Tails
    <3>2. pc \in {"append_started"} \cup Tails => PhaseIn(log, index) = "planned"
      BY <1>0, <3>1, NextLine
      DEF RefInv, PhasesFit, Appending, Tails, TypeInv, TypeOK, Runs
    <3>3. pc \in {"append_terminal", "append_interrupted"} => PhaseIn(log, index) = "started"
      BY DEF RefInv, PhasesFit, InRun, Bookkeeping, EndedRun
    <3>4. pc \in {"append_terminal", "append_interrupted"} /\ PhaseIn(log, index) = "started"
          /\ NextEvent.status \notin {"started", "not_run"}
      BY <1>0, <1>2, <3>1, <3>2, <3>3, NextLine DEF Appending, Tails
    <3> QED
      BY <1>0, <1>5, <2>2, <3>1, <3>4, AppendMoves
  <2> QED
    BY <2>1, <2>2
<1> QED
  BY <1>3, <1>4, <1>5

(* The three parts about files and lines, when a step of the Campaign      *)
(* publishes nothing.                                                      *)
LEMMA FileStep ==
  ASSUME IInv, RefInv, SavedInv, [Next]_vars, UNCHANGED saved, spoiled => spoiled',
         UNCHANGED spoiled \/ UNCHANGED log
  PROVE  FilesFit' /\ OursAnnounced' /\ LinesTold'
<1>0. TypeInv /\ log \in Seq(Lines)
  BY DEF IInv, TypeInv, TypeOK
<1>1. FilesFit'
  BY DEF SavedInv, FilesFit, Ours
<1>2. CASE UNCHANGED log
  <2>1. OursAnnounced'
    BY <1>2 DEF SavedInv, OursAnnounced, Ours, PhaseIn
  <2>2. LinesTold'
    BY <1>2, KeepLines DEF SavedInv, Ours
  <2> QED
    BY <1>1, <2>1, <2>2
<1>3. ASSUME pc \in Appending, log' \in {log, Append(log, TornLine), Append(log, NextEvent)},
             UNCHANGED spoiled
      PROVE  OursAnnounced' /\ LinesTold'
  <2>1. NextEvent \in Lines /\ TornLine \in Lines /\ ~Concludes(TornLine)
    BY <1>0, <1>3, NextLine DEF Concludes, TornLine
  <2>2. Concludes(NextEvent) => LineTold(NextEvent)
    BY <1>3, NextLineTold
  <2>3. LinesTold'
    BY <1>0, <1>2, <1>3, <2>1, <2>2, AppendTold DEF SavedInv
  <2> QED
    BY <1>3, <2>3, AppendAnnounced
<1>4. CASE CreateCampaign
  <2>1. log = << >> /\ log' = << CampaignStarted >>
    BY <1>4 DEF CreateCampaign
  <2>2. \A r : PhaseIn(log, r) = "planned"
    BY <2>1 DEF PhaseIn, NotRunIn, EndedIn, StartedIn
  <2>3. \A r \in Runs : ~Ours(r)
    BY <2>2 DEF SavedInv, OursAnnounced
  <2>4. OursAnnounced'
    BY <2>3 DEF OursAnnounced, Ours
  <2>5. TerminalLines(log') = {}
    BY <2>1 DEF TerminalLines, CampaignStarted
  <2> QED
    BY <1>1, <2>4, <2>5 DEF LinesTold
<1>5. CASE \/ AppendStarted \/ AppendTerminal \/ AppendInterrupted \/ AppendNotRun
           \/ AppendFinished \/ AppendFails
  <2>1. pc \in Appending /\ log' \in {log, Append(log, TornLine), Append(log, NextEvent)}
    BY <1>5 DEF AppendStarted, AppendTerminal, AppendInterrupted, AppendNotRun, AppendFinished,
       AppendFails, AppendCampaign, Appending, Tails
  <2> QED
    BY <1>1, <1>2, <1>3, <2>1
<1>6. CASE ~(\/ CreateCampaign \/ AppendStarted \/ AppendTerminal \/ AppendInterrupted
             \/ AppendNotRun \/ AppendFinished \/ AppendFails)
  <2>1. UNCHANGED log
    BY <1>6 DEF Next, ProgramStep, Invoke, RefuseCampaign, LoopEnds, StopBeforeRun, BeginRun,
       BumpStarted, PrepareAdapter, CallProvider, EndLive, PublishPair, AdapterCleared,
       PropagateOther, AdapterNotCleared, Account, BumpTerminal, StopCheck, BumpInterrupted,
       InterruptExecutor, InterruptReplaced, InterruptScheduler, InterruptTail, Crash, Done,
       ExecutorStep, vars
  <2> QED
    BY <1>2, <2>1
<1> QED
  BY <1>4, <1>5, <1>6

(* The end of an invocation leaves no execution to tell of.                *)
LEMMA ExitTold ==
  ASSUME NEW how, Exit(how)
  PROVE  ExecutionTold'
BY DEF Exit, ExecutionTold, Unpublished, Published

(* ExecutionTold under the steps of the Campaign that publish nothing.     *)
LEMMA ExecutionStep ==
  ASSUME IInv, RefInv, SavedInv, [Next]_vars, UNCHANGED saved,
         pc = "publish" => caught' # caught \/ pc' = "idle" \/ UNCHANGED vars,
         spoiled' = spoiled \/ InterruptExecutor,
         InterruptExecutor /\ pc # "publish" => spoiled' = (spoiled \/ Ours(index)),
         spoiled => spoiled'
  PROVE  ExecutionTold'
<1> USE DEF environment, locals, executorLocals, Executing, Unpublished, Published, Ours,
            Agrees
<1>0. /\ TypeInv /\ ExecutionTold /\ execution \in Executions
      /\ NoExecution.calls = Unknown /\ NoExecution.cleanup = "not_applicable"
      /\ NoExecution.outcome = "none" /\ "none" \notin EvidenceRequired
  BY DEF IInv, TypeInv, TypeOK, SavedInv, NoExecution, EvidenceRequired
<1>1. CASE \/ CreateCampaign \/ LoopEnds \/ StopBeforeRun \/ BeginRun \/ AppendTerminal
           \/ BumpTerminal \/ StopCheck \/ AppendInterrupted \/ BumpInterrupted
           \/ AppendNotRun \/ InterruptScheduler \/ Invoke
  BY <1>1 DEF CreateCampaign, LoopEnds, StopBeforeRun, Stop, BeginRun, AppendTerminal,
     BumpTerminal, StopCheck, AppendInterrupted, BumpInterrupted, AppendNotRun,
     InterruptScheduler, Invoke, Tails, ExecutionTold
<1>2. CASE \/ RefuseCampaign \/ PropagateOther \/ AppendFinished \/ AppendFails
           \/ InterruptTail \/ Crash
  BY <1>2, ExitTold DEF RefuseCampaign, PropagateOther, AppendFinished, AppendFails,
     InterruptTail, Crash
<1>3. CASE AppendStarted
  <2>1. pc = "append_started" /\ index \in Runs
    BY <1>0, <1>3, NextLine DEF AppendStarted, Appending
  <2>2. PhaseIn(log, index) = "planned"
    BY <2>1 DEF RefInv, PhasesFit
  <2>3. ~Ours(index)
    BY <2>1, <2>2 DEF SavedInv, OursAnnounced
  <2> QED
    BY <1>3, <2>3 DEF AppendStarted, ExecutionTold
<1>4. CASE BumpStarted
  BY <1>0, <1>4 DEF BumpStarted, ExecutionTold
<1>5. CASE PrepareAdapter \/ CallProvider \/ EndLive \/ InterruptReplaced
  <2>1. /\ pc \in {"adapter", "live"} /\ pc' \in {"adapter", "live", "publish", "cleanup"}
        /\ UNCHANGED << index, execution >>
        /\ pc' # "cleanup" => UNCHANGED caught
    BY <1>5 DEF PrepareAdapter, CallProvider, EndLive, InterruptReplaced, Catch, ExecutorStep
  <2> QED
    BY <1>0, <2>1 DEF ExecutionTold
<1>6. CASE PublishPair
  <2>1. /\ pc = "publish" /\ pc' = "cleanup" /\ UNCHANGED index
        /\ caught' # caught \/ UNCHANGED vars
    BY <1>6 DEF PublishPair, Catch, ExecutorStep, vars
  <2>2. CASE caught' # caught
    <3>1. UNCHANGED execution
      BY <1>6, <2>2 DEF PublishPair
    <3> QED
      BY <1>0, <2>1, <3>1 DEF ExecutionTold
  <2>3. CASE UNCHANGED vars
    BY <2>1, <2>3 DEF vars
  <2> QED
    BY <2>1, <2>2, <2>3
<1>7. CASE InterruptExecutor
  <2>1. /\ pc \in Executing /\ pc' = "cleanup" /\ caught' = "interrupt"
        /\ UNCHANGED << index, execution >>
    BY <1>7 DEF InterruptExecutor, Catch
  <2>2. pc # "publish" => spoiled' = (spoiled \/ Ours(index))
    BY <1>7
  <2> QED
    BY <1>0, <2>1, <2>2 DEF ExecutionTold
<1>8. CASE AdapterCleared
  <2>1. /\ pc = "cleanup" /\ UNCHANGED index
        /\ \/ /\ caught = "nothing" /\ pc' = "account"
              /\ execution' = [execution EXCEPT !.cleanup = "cleared"]
           \/ caught = "error" /\ pc' = "account" /\ execution' = HarnessFailure
           \/ caught = "interrupt" /\ pc' = "append_interrupted" /\ UNCHANGED execution
        /\ UNCHANGED caught
    BY <1>8 DEF AdapterCleared, ExecutorStep
  <2>2. spoiled' = spoiled
    BY <1>8, <2>1 DEF InterruptExecutor, Catch
  <2>3. CASE caught = "nothing" /\ execution' = [execution EXCEPT !.cleanup = "cleared"]
             /\ pc' = "account"
    <3>1. /\ execution'.calls = execution.calls /\ execution'.outcome = execution.outcome
          /\ execution'.cleanup = "cleared"
      BY <1>0, <2>3 DEF Executions
    <3> QED
      BY <1>0, <2>1, <2>2, <2>3, <3>1 DEF ExecutionTold, CampaignMatches
  <2>4. CASE caught = "error" /\ pc' = "account" /\ execution' = HarnessFailure
    <3>1. execution'.calls = Unknown /\ execution'.outcome \notin EvidenceRequired
      BY <2>4 DEF HarnessFailure, EvidenceRequired
    <3> QED
      BY <1>0, <2>1, <2>2, <2>4, <3>1 DEF ExecutionTold
  <2>5. CASE caught = "interrupt" /\ pc' = "append_interrupted"
    BY <1>0, <2>1, <2>2, <2>5 DEF ExecutionTold
  <2> QED
    BY <2>1, <2>3, <2>4, <2>5
<1>9. CASE AdapterNotCleared
  <2>1. /\ pc = "cleanup" /\ pc' = "account" /\ UNCHANGED index
        /\ execution' = [execution EXCEPT !.outcome = "cleanup_failure", !.cleanup = "failed"]
    BY <1>9 DEF AdapterNotCleared
  <2>2. spoiled' = spoiled
    BY <1>9, <2>1 DEF InterruptExecutor, Catch
  <2>3. /\ execution'.calls = execution.calls /\ execution'.outcome = "cleanup_failure"
        /\ execution'.cleanup = "failed"
    BY <1>0, <2>1 DEF Executions
  <2> QED
    BY <1>0, <2>1, <2>2, <2>3 DEF ExecutionTold, CampaignMatches, EvidenceRequired
<1>10. CASE Account
  <2>1. pc = "account" /\ pc' = "append_terminal" /\ UNCHANGED << index, execution >>
    BY <1>10 DEF Account
  <2>2. spoiled' = spoiled
    BY <2>1 DEF InterruptExecutor
  <2> QED
    BY <1>0, <2>1, <2>2 DEF ExecutionTold
<1>11. CASE UNCHANGED vars
  <2>1. UNCHANGED << pc, index, execution, caught >>
    BY <1>11 DEF vars
  <2>2. spoiled => spoiled'
    OBVIOUS
  <2> QED
    BY <1>0, <2>1, <2>2 DEF ExecutionTold
<1> QED
  BY <1>1, <1>2, <1>3, <1>4, <1>5, <1>6, <1>7, <1>8, <1>9, <1>10, <1>11
  DEF Next, ProgramStep, Done


-----------------------------------------------------------------------------
(* The initial states satisfy SavedInv.                                    *)
LEMMA SavedInit ==
  ASSUME InitReported
  PROVE  SavedInv
<1>1. /\ saved = [r \in Runs |-> NothingSaved]
      /\ TerminalLines(log) = {} /\ pc = "idle"
  BY DEF InitReported, Init, TerminalLines
<1>2. NothingSaved \in Saved /\ NothingSaved.recording = "nobody"
      /\ NothingSaved.evidence = Nothing
  BY DEF NothingSaved, Saved
<1> QED
  BY <1>1, <1>2 DEF SavedInv, FilesFit, OursAnnounced, LinesTold, ExecutionTold, Ours,
     Unpublished, Published

(* Another Campaign touches no file of this one.                           *)
LEMMA RivalStep ==
  ASSUME SavedInv, IInv, UNCHANGED << vars, spoiled >>,
         NEW r \in Runs, ~Ours(r), NEW s \in Saved, s.recording # "ours",
         s.evidence # Nothing => s.evidence.by = s.recording,
         saved' = [saved EXCEPT ![r] = s]
  PROVE  SavedInv'
<1>0. saved \in [Runs -> Saved]
  BY DEF SavedInv, FilesFit
<1>1. /\ saved' \in [Runs -> Saved] /\ saved'[r] = s
      /\ \A x \in Runs : x # r => saved'[x] = saved[x]
      /\ \A x \in Runs : Ours(x)' <=> Ours(x)
      /\ \A x \in Runs : Ours(x) => saved'[x] = saved[x]
  BY <1>0 DEF Ours
<1>2. UNCHANGED << log, pc, index, execution, caught, spoiled >>
  BY DEF vars, locals, executorLocals
<1>3. FilesFit'
  <2>1. ASSUME NEW x \in Runs
        PROVE  /\ saved'[x].evidence # Nothing => saved'[x].evidence.by = saved'[x].recording
               /\ Ours(x)' /\ ~spoiled' => saved'[x].evidence # Nothing
    BY <1>1, <1>2 DEF SavedInv, FilesFit, Ours
  <2> QED
    BY <1>1, <2>1 DEF FilesFit, Ours
<1>4. OursAnnounced'
  BY <1>1, <1>2 DEF SavedInv, OursAnnounced, PhaseIn
<1>5. log \in Seq(Lines) /\ (pc \in InRun => index \in Runs)
  BY RunCountAssumption DEF IInv, TypeOK, IndexInPlan, Runs
<1>6. LinesTold'
  BY <1>1, <1>2, <1>5, KeepLines, TerminalRuns DEF SavedInv
<1>7. pc \in Unpublished \cup Published \cup {"append_interrupted"} => index \in Runs
  BY <1>5 DEF Unpublished, Published, InRun, Executing, Bookkeeping
<1>8. ExecutionTold'
  <2>1. ASSUME index \in Runs
        PROVE  /\ Ours(index)' <=> Ours(index)
               /\ Agrees(execution, index) => Agrees(execution, index)'
    BY <1>1, <1>2, <2>1 DEF Agrees, Ours
  <2> QED
    BY <1>2, <1>7, <2>1 DEF SavedInv, ExecutionTold, Unpublished, Published
<1> QED
  BY <1>3, <1>4, <1>6, <1>8 DEF SavedInv

(* A publication, whole or cut off, touches the files of the current run,  *)
(* which no line concludes yet.                                            *)
LEMMA PublishFiles ==
  ASSUME IInv, RefInv, SavedInv, pc = "publish", UNCHANGED log, spoiled => spoiled',
         NEW s \in Saved, saved' = [saved EXCEPT ![index] = s], s.recording = "ours",
         s.evidence # Nothing => s.evidence.by = "ours",
         s.evidence = Nothing => spoiled'
  PROVE  FilesFit' /\ OursAnnounced' /\ LinesTold'
<1>0. /\ saved \in [Runs -> Saved] /\ index \in Runs /\ log \in Seq(Lines)
      /\ PhaseIn(log, index) = "started"
  BY RunCountAssumption
  DEF SavedInv, FilesFit, IInv, TypeOK, IndexInPlan, InRun, Executing, Runs, RefInv, PhasesFit,
      EndedRun
<1>1. /\ saved' \in [Runs -> Saved] /\ saved'[index] = s
      /\ \A x \in Runs : x # index => saved'[x] = saved[x]
  BY <1>0
<1>2. FilesFit'
  <2>1. ASSUME NEW x \in Runs
        PROVE  /\ saved'[x].evidence # Nothing => saved'[x].evidence.by = saved'[x].recording
               /\ Ours(x)' /\ ~spoiled' => saved'[x].evidence # Nothing
    BY <1>1 DEF SavedInv, FilesFit, Ours
  <2> QED
    BY <1>1, <2>1 DEF FilesFit, Ours
<1>3. OursAnnounced'
  BY <1>0, <1>1 DEF SavedInv, OursAnnounced, PhaseIn, Ours
<1>4. \A i \in TerminalLines(log) : log[i].run # index
  BY <1>0 DEF PhaseIn, NotRunIn, EndedIn, TerminalLines, IsTerminal
<1>5. LinesTold'
  BY <1>0, <1>1, <1>4, KeepLines, TerminalRuns DEF SavedInv, Ours
<1> QED
  BY <1>2, <1>3, <1>5

(* What a publication may leave.                                           *)
LEMMA Leavings ==
  ASSUME IInv, SavedInv, pc = "publish", PathsAreFree
  PROVE  /\ \E s \in Saved : /\ Half = [saved EXCEPT ![index] = s]
                             /\ s.recording = "ours" /\ s.evidence = Nothing
         /\ \A a \in Artifacts :
              LET s == [recording |-> "ours", evidence |-> [by |-> "ours", artifact |-> a]] IN
              /\ Whole(a) = [saved EXCEPT ![index] = s] /\ s \in Saved
              /\ s.evidence # Nothing /\ s.evidence.by = "ours" /\ s.evidence.artifact = a
<1>0. saved \in [Runs -> Saved] /\ index \in Runs /\ saved[index] = NothingSaved
  BY RunCountAssumption
  DEF SavedInv, FilesFit, IInv, TypeOK, IndexInPlan, InRun, Executing, Runs, PathsAreFree
<1>1. \E s \in Saved : /\ Half = [saved EXCEPT ![index] = s]
                       /\ s.recording = "ours" /\ s.evidence = Nothing
  <2> DEFINE s == [recording |-> "ours", evidence |-> Nothing]
  <2>1. s \in Saved /\ s.recording = "ours" /\ s.evidence = Nothing
    BY DEF Saved
  <2>2. [saved[index] EXCEPT !.recording = "ours"] = s
    BY <1>0 DEF NothingSaved
  <2>3. Half = [saved EXCEPT ![index] = s]
    BY <1>0, <2>2 DEF Half
  <2> QED
    BY <2>1, <2>3
<1>2. ASSUME NEW a \in Artifacts
      PROVE  LET s == [recording |-> "ours", evidence |-> [by |-> "ours", artifact |-> a]] IN
             /\ Whole(a) = [saved EXCEPT ![index] = s] /\ s \in Saved
             /\ s.evidence # Nothing /\ s.evidence.by = "ours" /\ s.evidence.artifact = a
  <2>1. [by |-> "ours", artifact |-> a] # Nothing
    BY DEF Nothing
  <2> QED
    BY <2>1 DEF Whole, Saved
<1> QED
  BY <1>1, <1>2

(* The steps of the reported Campaign are steps of the Campaign.           *)
LEMMA ReportedSteps ==
  ASSUME [NextReported]_reportVars
  PROVE  [Next]_vars
BY DEF NextReported, InvokeReported, PublishSucceeds, PublishFails, PublishCutOff,
       InterruptAfterwards, OtherStep, RivalRecords, RivalRecordsEvidence, RivalWithdraws,
       NoneStarts, reportVars, Next, ProgramStep

(* Every step keeps SavedInv.                                              *)
LEMMA SavedStep ==
  ASSUME IInv, RefInv, SavedInv, [NextReported]_reportVars
  PROVE  SavedInv'
<1>0. /\ [Next]_vars /\ saved \in [Runs -> Saved]
  BY ReportedSteps DEF SavedInv, FilesFit
<1>1. ASSUME UNCHANGED << saved, spoiled >>,
             pc = "publish" => caught' # caught \/ pc' = "idle" \/ UNCHANGED vars,
             InterruptExecutor => pc = "publish"
      PROVE  SavedInv'
  <2>1. FilesFit' /\ OursAnnounced' /\ LinesTold'
    BY <1>0, <1>1, FileStep
  <2>2. ExecutionTold'
    <3>1. /\ InterruptExecutor /\ pc # "publish" => spoiled' = (spoiled \/ Ours(index))
          /\ (spoiled' = spoiled) \/ InterruptExecutor
          /\ spoiled => spoiled'
          /\ UNCHANGED saved
      BY <1>1
    <3> QED
      BY <1>0, <1>1, <3>1, ExecutionStep
  <2> QED
    BY <2>1, <2>2 DEF SavedInv
<1>2. CASE InvokeReported \/ OtherStep
  <2>1. pc # "publish" /\ UNCHANGED << saved, spoiled >>
    BY <1>2 DEF InvokeReported, OtherStep, Invoke
  <2>2. CASE ~InterruptExecutor
    BY <1>1, <2>1, <2>2
  <2>3. CASE InterruptExecutor
    <3>1. pc \in Executing /\ interrupts' = interrupts + 1 /\ interrupts \in Nat
          /\ pc' = "cleanup" /\ caught' = "interrupt"
      BY <2>3, BoundsAssumption DEF InterruptExecutor, Catch, IInv, TypeOK
    <3>2. FALSE
      <4>1. ~InvokeReported
        BY <3>1 DEF InvokeReported, Invoke, Executing
      <4>2. ProgramStep => interrupts' \in {interrupts} \/ AdapterNotCleared
        BY DEF ProgramStep, CreateCampaign, RefuseCampaign, LoopEnds, StopBeforeRun, BeginRun,
           AppendStarted, BumpStarted, PrepareAdapter, CallProvider, EndLive, PublishPair,
           AdapterCleared, PropagateOther, Account, AppendTerminal, BumpTerminal, StopCheck,
           AppendInterrupted, BumpInterrupted, AppendNotRun, AppendFinished, AppendFails,
           ExecutorStep, environment
      <4>3. ~ProgramStep
        BY <3>1, <4>2 DEF AdapterNotCleared
      <4>4. ~InterruptReplaced /\ ~InterruptScheduler /\ ~InterruptTail /\ ~Crash
        BY <3>1 DEF InterruptReplaced, InterruptScheduler, InterruptTail, Crash, Exit, Catch
      <4> QED
        BY <1>2, <4>1, <4>3, <4>4 DEF OtherStep
    <3> QED
      BY <3>2
  <2> QED
    BY <2>2, <2>3
<1>3. CASE PublishSucceeds
  <2>1. /\ pc = "publish" /\ pc' = "cleanup" /\ UNCHANGED << log, spoiled, index >>
        /\ PathsAreFree /\ caught' = caught
    BY <1>3 DEF PublishSucceeds, PublishPair, Catch, ExecutorStep, locals
  <2>2. PICK a \in Artifacts : execution' = Classified(a) /\ saved' = Whole(a)
    BY <1>3 DEF PublishSucceeds, PossibleArtifacts
  <2> DEFINE s == [recording |-> "ours", evidence |-> [by |-> "ours", artifact |-> a]]
  <2>3. /\ saved' = [saved EXCEPT ![index] = s] /\ s \in Saved /\ s.recording = "ours"
        /\ s.evidence # Nothing /\ s.evidence.by = "ours" /\ s.evidence.artifact = a
    BY <2>1, <2>2, Leavings
  <2> HIDE DEF s
  <2>4. FilesFit' /\ OursAnnounced' /\ LinesTold'
    BY <2>1, <2>3, PublishFiles
  <2>5. index \in Runs
    BY <2>1, RunCountAssumption DEF IInv, TypeOK, IndexInPlan, InRun, Executing, Runs
  <2>6. Agrees(execution, index)'
    BY <1>0, <2>1, <2>2, <2>3, <2>5, ClassifiedMatches DEF Agrees, Ours
  <2>7. execution'.calls # Unknown /\ execution'.cleanup # "failed"
    BY <2>2, ClassifiedMatches, UnknownAssumption
  <2>8. caught = "nothing"
    BY <2>1 DEF SavedInv, ExecutionTold, Unpublished
  <2>9. ExecutionTold'
    BY <2>1, <2>6, <2>7, <2>8 DEF ExecutionTold, Unpublished, Published
  <2> QED
    BY <2>4, <2>9 DEF SavedInv
<1>4. ASSUME pc = "publish", UNCHANGED log, spoiled',
             NEW s \in Saved, saved' = [saved EXCEPT ![index] = s], s.recording = "ours",
             s.evidence # Nothing => s.evidence.by = "ours",
             \/ pc' = "cleanup" /\ UNCHANGED << index, execution >>
             \/ \E how : Exit(how)
      PROVE  SavedInv'
  <2>1. FilesFit' /\ OursAnnounced' /\ LinesTold'
    BY <1>4, PublishFiles
  <2>2. CASE \E how : Exit(how)
    BY <2>1, <2>2, ExitTold DEF SavedInv
  <2>3. CASE pc' = "cleanup" /\ UNCHANGED << index, execution >>
    <3>1. execution = NoExecution
      BY <1>4 DEF SavedInv, ExecutionTold, Unpublished
    <3>2. ExecutionTold'
      BY <1>4, <2>3, <3>1
      DEF ExecutionTold, Unpublished, Published, NoExecution, EvidenceRequired
    <3> QED
      BY <2>1, <3>2 DEF SavedInv
  <2> QED
    BY <1>4, <2>2, <2>3
<1>5. CASE PublishFails
  <2>1. pc = "publish" /\ caught = "nothing" /\ caught' = "error"
    BY <1>5 DEF PublishFails, PublishPair, SavedInv, ExecutionTold, Unpublished
  <2>2. pc' = "cleanup" /\ UNCHANGED << log, index, execution >>
    BY <1>5, <2>1 DEF PublishFails, PublishPair, Catch, ExecutorStep, locals
  <2>3. CASE UNCHANGED << saved, spoiled >>
    <3>1. ~InterruptExecutor
      BY <2>1 DEF InterruptExecutor, Catch
    <3> QED
      BY <1>1, <2>1, <2>3, <3>1
  <2>4. CASE PathsAreFree /\ saved' = Half /\ spoiled' = TRUE
    BY <1>4, <2>1, <2>2, <2>4, Leavings
  <2> QED
    BY <1>5, <2>3, <2>4 DEF PublishFails
<1>6. CASE PublishCutOff
  <2>1. /\ pc = "publish" /\ UNCHANGED log
        /\ \/ pc' = "cleanup" /\ caught' = "interrupt" /\ UNCHANGED << index, execution >>
           \/ pc' = "idle" /\ \E how : Exit(how)
    BY <1>6 DEF PublishCutOff, InterruptExecutor, Catch, Crash, Exit, locals
  <2>2. caught = "nothing"
    BY <2>1 DEF SavedInv, ExecutionTold, Unpublished
  <2>3. CASE UNCHANGED << saved, spoiled >>
    BY <1>1, <2>1, <2>2, <2>3
  <2>4. CASE PathsAreFree /\ spoiled' = TRUE /\ saved' = Half
    BY <1>4, <2>1, <2>4, Leavings
  <2>5. CASE PathsAreFree /\ spoiled' = TRUE /\ \E a \in PossibleArtifacts : saved' = Whole(a)
    <3>1. PICK a \in Artifacts : saved' = Whole(a)
      BY <2>5 DEF PossibleArtifacts
    <3> DEFINE s == [recording |-> "ours", evidence |-> [by |-> "ours", artifact |-> a]]
    <3>2. /\ saved' = [saved EXCEPT ![index] = s] /\ s \in Saved /\ s.recording = "ours"
          /\ s.evidence.by = "ours"
      BY <2>1, <2>5, <3>1, Leavings
    <3> HIDE DEF s
    <3> QED
      BY <1>4, <2>1, <2>5, <3>2
  <2> QED
    BY <1>6, <2>3, <2>4, <2>5 DEF PublishCutOff
<1>7. CASE InterruptAfterwards
  <2>1. /\ pc # "publish" /\ InterruptExecutor /\ spoiled' = (spoiled \/ Ours(index))
        /\ UNCHANGED << saved, log >>
    BY <1>7 DEF InterruptAfterwards, InterruptExecutor, Ours
  <2>2. FilesFit' /\ OursAnnounced' /\ LinesTold'
    BY <1>0, <2>1, FileStep
  <2>3. ExecutionTold'
    BY <1>0, <2>1, ExecutionStep
  <2> QED
    BY <2>2, <2>3 DEF SavedInv
<1>8. CASE RivalRecords
  <2>1. PICK r \in Runs :
          saved[r] = NothingSaved /\ saved' = [saved EXCEPT ![r].recording = "other"]
    BY <1>8 DEF RivalRecords
  <2> DEFINE s == [recording |-> "other", evidence |-> Nothing]
  <2>2. /\ saved' = [saved EXCEPT ![r] = s] /\ s \in Saved /\ s.recording = "other"
        /\ s.evidence = Nothing /\ ~Ours(r)
    <3>1. [saved[r] EXCEPT !.recording = "other"] = s
      BY <2>1 DEF NothingSaved
    <3>2. saved' = [saved EXCEPT ![r] = s]
      BY <2>1, <3>1
    <3>3. s \in Saved /\ s.recording = "other" /\ s.evidence = Nothing
      BY DEF Saved
    <3>4. ~Ours(r)
      BY <2>1 DEF NothingSaved, Ours
    <3> QED
      BY <3>2, <3>3, <3>4
  <2> HIDE DEF s
  <2> QED
    BY <1>8, <2>2, RivalStep DEF RivalRecords
<1>9. CASE RivalRecordsEvidence
  <2>1. PICK r \in Runs, a \in Artifacts :
          /\ saved[r].recording = "other" /\ saved[r].evidence = Nothing
          /\ saved' = [saved EXCEPT ![r].evidence = [by |-> "other", artifact |-> a]]
    BY <1>9 DEF RivalRecordsEvidence
  <2> DEFINE s == [recording |-> "other", evidence |-> [by |-> "other", artifact |-> a]]
  <2>2. /\ saved' = [saved EXCEPT ![r] = s] /\ s \in Saved /\ s.recording = "other"
        /\ s.evidence.by = "other" /\ ~Ours(r)
    <3>1. saved[r] \in Saved
      BY <1>0
    <3>2. [saved[r] EXCEPT !.evidence = [by |-> "other", artifact |-> a]] = s
      BY <2>1, <3>1 DEF Saved
    <3> QED
      BY <2>1, <3>2 DEF Saved, Ours
  <2> HIDE DEF s
  <2> QED
    BY <1>9, <2>2, RivalStep DEF RivalRecordsEvidence
<1>10. CASE RivalWithdraws
  <2>1. PICK r \in Runs :
          /\ saved[r].recording = "other" /\ saved[r].evidence = Nothing
          /\ saved' = [saved EXCEPT ![r].recording = "nobody"]
    BY <1>10 DEF RivalWithdraws
  <2> DEFINE s == [recording |-> "nobody", evidence |-> Nothing]
  <2>2. /\ saved' = [saved EXCEPT ![r] = s] /\ s \in Saved /\ s.recording = "nobody"
        /\ s.evidence = Nothing /\ ~Ours(r)
    <3>1. saved[r] \in Saved
      BY <1>0
    <3>2. [saved[r] EXCEPT !.recording = "nobody"] = s
      BY <2>1, <3>1 DEF Saved
    <3> QED
      BY <2>1, <3>2 DEF Saved, Ours
  <2> HIDE DEF s
  <2> QED
    BY <1>10, <2>2, RivalStep DEF RivalWithdraws
<1>11. CASE NoneStarts \/ UNCHANGED reportVars
  <2>1. UNCHANGED << vars, saved, spoiled >>
    BY <1>11 DEF NoneStarts, reportVars
  <2>2. ~InterruptExecutor \/ pc = "publish"
    <3>1. interrupts' = interrupts /\ interrupts \in Nat
      BY <2>1, BoundsAssumption DEF vars, environment, IInv, TypeOK
    <3> QED
      BY <3>1 DEF InterruptExecutor
  <2> QED
    BY <1>1, <2>1, <2>2
<1> QED
  BY <1>2, <1>3, <1>5, <1>6, <1>7, <1>8, <1>9, <1>10, <1>11 DEF NextReported

-----------------------------------------------------------------------------
(* What follows for the report.                                            *)

(* The terminal line the report looks up is the one of the run.            *)
LEMMA TerminalIsLine ==
  ASSUME log \in Seq(Lines), CampaignLoads(log), NEW r \in Runs
  PROVE  Terminal(log, r) = log[LineOf(log, r)]
<1> DEFINE i == LineOf(log, r)
<1>1. i \in DOMAIN log /\ IsTerminal(log[i], r)
  BY OneLinePerRun DEF TerminalLines, IsTerminal
<1>2. \A j \in DOMAIN log : IsTerminal(log[j], r) => j = i
  BY OneLinePerRun DEF TerminalLines, IsTerminal
<1> HIDE DEF i
<1>3. (CHOOSE j \in DOMAIN log : IsTerminal(log[j], r)) = i
  BY <1>1, <1>2
<1> QED
  BY <1>3 DEF Terminal, i

(* An accepted Campaign whose publications were neither cut off nor joined *)
(* by another's can be reported.                                           *)
LEMMA AcceptedReportable ==
  ASSUME log \in Seq(Lines), SavedInv
  PROVE  AcceptedCampaignIsReportable
<1>1. SUFFICES ASSUME CampaignLoads(log), ~spoiled, \A r \in Runs : saved[r].recording # "other",
                      NEW r \in Runs
               PROVE  ArtifactLoads(Terminal(log, r), saved[r])
  BY <1>1 DEF AcceptedCampaignIsReportable, Reportable, RivalWasHere
<1> DEFINE line == log[LineOf(log, r)]
<1>2. Terminal(log, r) = line /\ line.run = r /\ LineTold(line)
  BY <1>1, TerminalIsLine, OneLinePerRun DEF SavedInv, LinesTold
<1>3. /\ saved[r].recording \in {"nobody", "ours"}
      /\ saved[r].evidence # Nothing => saved[r].evidence.by = saved[r].recording
      /\ Ours(r) => saved[r].evidence # Nothing
  BY <1>1 DEF SavedInv, FilesFit, Saved
<1>4. saved[r].evidence # Nothing => Ours(r)
  <2>1. ASSUME saved[r].evidence # Nothing, saved[r].recording = "nobody" PROVE FALSE
    BY <2>1 DEF SavedInv, FilesFit, Saved
  <2> QED
    BY <1>3, <2>1 DEF Ours
<1> HIDE DEF line
<1>5. CASE saved[r].evidence = Nothing
  <2>1. ~Ours(r) /\ saved[r].recording = "nobody"
    BY <1>3, <1>5 DEF Ours
  <2>2. line.outcome \notin EvidenceRequired
    BY <1>2, <2>1 DEF LineTold, Agrees
  <2> QED
    BY <1>2, <1>5, <2>1, <2>2 DEF ArtifactLoads
<1>6. CASE saved[r].evidence # Nothing
  <2>1. Ours(r) /\ saved[r].recording = saved[r].evidence.by
    BY <1>3, <1>4, <1>6
  <2>2. line.status \notin {"interrupted", "not_run"} /\ line.calls # Unknown
    BY <1>1, <1>2, <2>1 DEF LineTold
  <2>3. CampaignMatches(line, saved[r].evidence.artifact)
    BY <1>2, <2>2 DEF LineTold, Agrees
  <2> QED
    BY <1>2, <1>6, <2>1, <2>2, <2>3 DEF ArtifactLoads
<1> QED
  BY <1>5, <1>6

(* What the line and the files of a run say in a Campaign that can be      *)
(* reported.                                                               *)
LEMMA ReportedRun ==
  ASSUME log \in Seq(Lines), called \in [Runs -> {0, 1}], CampaignLoads(log) => CallsTrue, SavedInv,
         Reportable(log, saved), NEW r \in Runs
  PROVE  LET line == Terminal(log, r) IN
         /\ line \in RunEvents /\ line.status # "started" /\ line.run = r
         /\ ValidRunEvent(line)
         /\ line.status = "failed" => line.outcome \in FailedOutcomes
         /\ line.calls # Unknown => line.calls = called[r]
         /\ saved[r].evidence # Nothing =>
              /\ line.status \notin {"interrupted", "not_run"}
              /\ saved[r].evidence.by = "ours"
              /\ saved[r].evidence.artifact \in Artifacts
              /\ saved[r].evidence.artifact.calls = called[r]
              /\ CampaignMatches(line, saved[r].evidence.artifact)
<1> DEFINE line == Terminal(log, r)
           a == saved[r].evidence.artifact
<1>1. CampaignLoads(log) /\ ArtifactLoads(line, saved[r])
  BY DEF Reportable
<1>2. /\ line = log[LineOf(log, r)] /\ LineOf(log, r) \in TerminalLines(log) /\ line.run = r
      /\ line \in Lines /\ line.type = "run_state" /\ line.status # "started"
  <2>1. LineOf(log, r) \in DOMAIN log
    BY <1>1, OneLinePerRun DEF TerminalLines
  <2> QED
    BY <1>1, <2>1, TerminalIsLine, OneLinePerRun DEF TerminalLines
<1>3. LineTold(line) /\ ValidRunEvent(line) /\ (line.calls # Unknown => line.calls = called[r])
  BY <1>1, <1>2 DEF SavedInv, LinesTold, CallsTrue, LineTrue, CampaignLoads, TerminalLines
<1>4. line \in RunEvents
  BY <1>2 DEF Lines, FinishedEvents, CampaignStarted, TornLine
<1> HIDE DEF line
<1>5. ASSUME saved[r].evidence # Nothing
      PROVE  /\ line.status \notin {"interrupted", "not_run"}
             /\ saved[r].evidence.by = "ours" /\ a \in Artifacts /\ a.calls = called[r]
             /\ CampaignMatches(line, a)
  <2>1. /\ line.status \notin {"interrupted", "not_run"} /\ CampaignMatches(line, a)
        /\ saved[r].recording = saved[r].evidence.by
    BY <1>1, <1>5 DEF ArtifactLoads
  <2>2. a \in Artifacts /\ a.calls \in {0, 1}
    <3>1. saved[r] \in Saved
      BY DEF SavedInv, FilesFit
    <3>2. saved[r].evidence \in [by : {"ours", "other"}, artifact : Artifacts]
      BY <1>5, <3>1 DEF Saved
    <3>3. a \in Artifacts
      BY <3>2
    <3> HIDE DEF a
    <3> QED
      BY <3>3 DEF Artifacts
  <2>3. line.calls = a.calls /\ line.calls # Unknown
    BY <2>1, <2>2, UnknownAssumption DEF CampaignMatches
  <2>4. Ours(r)
    BY <1>2, <1>3, <2>1, <2>3 DEF LineTold, Agrees
  <2> QED
    BY <1>3, <2>1, <2>2, <2>3, <2>4 DEF Ours
<1> QED
  BY <1>2, <1>3, <1>4, <1>5 DEF line, LineTold

(* Sizes of two disjoint sets of runs and of their union.                  *)
LEMMA SplitRuns ==
  ASSUME NEW A \in SUBSET Runs, NEW B \in SUBSET Runs, A \cap B = {}
  PROVE  /\ Cardinality(A) \in Nat /\ Cardinality(B) \in Nat
         /\ Cardinality(A \cup B) = Cardinality(A) + Cardinality(B)
<1>1. IsFiniteSet(Runs)
  BY RunCountAssumption, FS_Interval DEF Runs
<1>2. IsFiniteSet(A) /\ IsFiniteSet(B)
  BY <1>1, FS_Subset
<1>3. Cardinality(A \cap B) = 0
  BY FS_EmptySet
<1>4. Cardinality(A) \in Nat /\ Cardinality(B) \in Nat
  BY <1>2, FS_CardinalityType
<1>5. Cardinality(A \cup B) = Cardinality(A) + Cardinality(B) - Cardinality(A \cap B)
  BY <1>2, FS_Union
<1> QED
  BY <1>3, <1>4, <1>5

(* A report that can be made is true.                                      *)
LEMMA ReportTrue ==
  ASSUME log \in Seq(Lines), called \in [Runs -> {0, 1}], CampaignLoads(log) => CallsTrue, SavedInv
  PROVE  ReportIsTrue
<1> SUFFICES ASSUME Reportable(log, saved)
             PROVE  /\ \A r \in Runs : saved[r].evidence # Nothing =>
                         saved[r].evidence.by = "ours"
                         /\ saved[r].evidence.artifact.calls = called[r]
                    /\ \A w \in Workflows :
                         LET made == Cardinality({r \in RunsOf(w) : called[r] = 1}) IN
                         /\ ObservedCalls(log, w) <= made
                         /\ made <= ObservedCalls(log, w) + MissingCalls(log, w)
                         /\ TaxonomyMatches(log, saved, w)
                    /\ \A r \in Runs : BlockOf[r] \in CompletePairs(log, saved) => called[r] = 1
  BY DEF ReportIsTrue
<1>1. ASSUME NEW r \in Runs, saved[r].evidence # Nothing
      PROVE  saved[r].evidence.by = "ours" /\ saved[r].evidence.artifact.calls = called[r]
  BY <1>1, ReportedRun
<1>2. ASSUME NEW r \in Runs, BlockOf[r] \in CompletePairs(log, saved)
      PROVE  called[r] = 1
  <2> DEFINE line == Terminal(log, r)
             a == saved[r].evidence.artifact
  <2>1. line.status = "completed" /\ saved[r].evidence # Nothing
    BY <1>2 DEF CompletePairs
  <2>2. /\ a \in Artifacts /\ a.calls = called[r] /\ CampaignMatches(line, a)
        /\ ValidRunEvent(line)
    BY <2>1, ReportedRun
  <2> HIDE DEF a, line
  <2>3. ArtifactOutcome(a) \in CompletedOutcomes
    BY <2>1, <2>2 DEF ValidRunEvent, CampaignMatches, CompletedOutcomes
  <2>4. a.status \in {"passed", "failed"}
    BY <2>2, <2>3 DEF ArtifactOutcome, CompletedOutcomes, Artifacts
  <2> QED
    BY <2>2, <2>4 DEF Artifacts
<1>3. ASSUME NEW w \in Workflows
      PROVE  LET made == Cardinality({r \in RunsOf(w) : called[r] = 1}) IN
             /\ ObservedCalls(log, w) <= made
             /\ made <= ObservedCalls(log, w) + MissingCalls(log, w)
  <2> DEFINE made == {r \in RunsOf(w) : called[r] = 1}
             observed == {r \in AttemptedRuns(log, w) : Terminal(log, r).calls = 1}
             missing == {r \in AttemptedRuns(log, w) : Terminal(log, r).calls = Unknown}
  <2>1. IsFiniteSet(Runs)
    BY RunCountAssumption, FS_Interval DEF Runs
  <2>2. made \subseteq Runs /\ observed \subseteq Runs /\ missing \subseteq Runs
    BY DEF AttemptedRuns, RunsOf
  <2>3. IsFiniteSet(made) /\ IsFiniteSet(observed) /\ IsFiniteSet(missing)
    BY <2>1, <2>2, FS_Subset
  <2>4. observed \subseteq made
    <3>1. ASSUME NEW r \in observed PROVE called[r] = 1 /\ r \in RunsOf(w)
      BY <2>2, ReportedRun, UnknownAssumption DEF AttemptedRuns
    <3> QED
      BY <3>1
  <2>5. made \subseteq observed \cup missing
    <3>1. ASSUME NEW r \in made PROVE r \in observed \cup missing
      <4>1. r \in Runs /\ r \in RunsOf(w) /\ called[r] = 1
        BY DEF RunsOf
      <4>2. /\ Terminal(log, r).calls # Unknown => Terminal(log, r).calls = 1
            /\ Terminal(log, r).status = "not_run" => Terminal(log, r).calls = 0
        BY <4>1, ReportedRun DEF ValidRunEvent
      <4> QED
        BY <4>1, <4>2, UnknownAssumption DEF AttemptedRuns
    <3> QED
      BY <3>1
  <2>6. observed \cap missing = {}
    BY UnknownAssumption
  <2> HIDE DEF made, observed, missing
  <2>7. Cardinality(observed) <= Cardinality(made)
    BY <2>3, <2>4, FS_Subset
  <2>8. /\ Cardinality(observed \cup missing) = Cardinality(observed) + Cardinality(missing)
        /\ Cardinality(made) <= Cardinality(observed \cup missing)
    <3>1. IsFiniteSet(observed \cup missing)
      BY <2>3, FS_Union
    <3>2. Cardinality(made) <= Cardinality(observed \cup missing)
      BY <2>5, <3>1, FS_Subset
    <3>3. observed \in SUBSET Runs /\ missing \in SUBSET Runs
      BY <2>2
    <3> QED
      BY <2>6, <3>2, <3>3, SplitRuns
  <2> QED
    BY <2>7, <2>8 DEF ObservedCalls, MissingCalls, made, observed, missing
<1>4. ASSUME NEW w \in Workflows
      PROVE  TaxonomyMatches(log, saved, w)
  <2> DEFINE T(r) == Terminal(log, r)
             attemptedRuns == AttemptedRuns(log, w)
             success == {r \in RunsOf(w) : T(r).outcome \in {"success"}}
             gates == {r \in RunsOf(w) : T(r).outcome \in {"quality_gate_failure"}}
             completed == {r \in RunsOf(w) : T(r).status = "completed"}
             provider ==
               {r \in RunsOf(w) : T(r).outcome \in {"provider_failure", "provider_timeout"}}
             harness ==
               {r \in RunsOf(w) : T(r).outcome \in {"harness_failure", "cleanup_failure"}}
             stopped == {r \in RunsOf(w) : T(r).status = "interrupted"}
             skipped == {r \in RunsOf(w) : T(r).status = "not_run"}
             evidence == EvidenceRuns(saved, w)
  <2>1. RunsOf(w) \subseteq Runs /\ attemptedRuns \subseteq Runs
    BY DEF RunsOf, AttemptedRuns
  <2>2. \A r \in RunsOf(w) :
          /\ T(r).status \in {"completed", "failed", "interrupted", "not_run"}
          /\ T(r).status = "completed" => T(r).outcome \in {"success", "quality_gate_failure"}
          /\ T(r).status = "failed" =>
               T(r).outcome \in {"provider_failure", "provider_timeout", "harness_failure",
                                 "cleanup_failure"}
          /\ T(r).status = "interrupted" => T(r).outcome = "human_interruption"
          /\ T(r).status = "not_run" => T(r).outcome = "stop_condition"
    BY <2>1, ReportedRun DEF ValidRunEvent, RunEvents, Statuses, CompletedOutcomes,
       FailedOutcomes
  <2>3. success \cup gates = completed /\ success \cap gates = {}
    BY <2>2
  <2>4. /\ attemptedRuns = completed \cup (provider \cup (harness \cup stopped))
        /\ completed \cap (provider \cup (harness \cup stopped)) = {}
        /\ provider \cap (harness \cup stopped) = {}
        /\ harness \cap stopped = {}
    BY <2>2 DEF AttemptedRuns
  <2>5. RunsOf(w) = attemptedRuns \cup skipped /\ attemptedRuns \cap skipped = {}
    BY DEF AttemptedRuns
  <2>6. evidence \subseteq attemptedRuns
    BY <2>1, ReportedRun DEF EvidenceRuns, AttemptedRuns
  <2>7. IsFiniteSet(attemptedRuns)
    BY <2>1, RunCountAssumption, FS_Interval, FS_Subset DEF Runs
  <2>8. /\ completed \in SUBSET Runs /\ success \in SUBSET Runs /\ gates \in SUBSET Runs
        /\ provider \in SUBSET Runs /\ harness \in SUBSET Runs /\ stopped \in SUBSET Runs
        /\ harness \cup stopped \in SUBSET Runs
        /\ provider \cup (harness \cup stopped) \in SUBSET Runs
    BY <2>1
  <2> HIDE DEF T, attemptedRuns, success, gates, completed, provider, harness, stopped, skipped,
               evidence
  <2>9. Cardinality(success) + Cardinality(gates) = Cardinality(completed)
    BY <2>3, <2>8, SplitRuns
  <2>10. Cardinality(completed) + Cardinality(provider) + Cardinality(harness)
           + Cardinality(stopped) = Cardinality(attemptedRuns)
    <3>1. /\ Cardinality(harness \cup stopped) = Cardinality(harness) + Cardinality(stopped)
          /\ Cardinality(harness) \in Nat /\ Cardinality(stopped) \in Nat
      BY <2>4, <2>8, SplitRuns
    <3>2. /\ Cardinality(provider \cup (harness \cup stopped))
               = Cardinality(provider) + Cardinality(harness \cup stopped)
          /\ Cardinality(provider) \in Nat
      BY <2>4, <2>8, SplitRuns
    <3>3. /\ Cardinality(attemptedRuns)
               = Cardinality(completed) + Cardinality(provider \cup (harness \cup stopped))
          /\ Cardinality(completed) \in Nat
      BY <2>1, <2>4, SplitRuns
    <3> QED
      BY <3>1, <3>2, <3>3
  <2>11. Cardinality(attemptedRuns) + Cardinality(skipped) = Cardinality(RunsOf(w))
    <3>1. skipped \in SUBSET Runs
      BY <2>1, <2>5
    <3>2. Cardinality(attemptedRuns \cup skipped)
            = Cardinality(attemptedRuns) + Cardinality(skipped)
      BY <2>1, <2>5, <3>1, SplitRuns
    <3> QED
      BY <2>5, <3>2
  <2>12. Cardinality(evidence) <= Cardinality(attemptedRuns)
    BY <2>6, <2>7, FS_Subset
  <2> QED
    BY <2>9, <2>10, <2>11, <2>12
    DEF TaxonomyMatches, WithOutcome, WithStatus, T, attemptedRuns, success, gates, completed,
        provider, harness, stopped, skipped, evidence
<1> QED
  BY <1>1, <1>2, <1>3, <1>4

(* The invariants of the Campaign hold with the publications added.        *)
LEMMA ReportedInvariant ==
  ASSUME CountersAgree
  PROVE  SpecReported =>
           [](IInv /\ RefInv /\ CallsAreAnnounced /\ TruthInv /\ SavedInv)
<1> DEFINE All == IInv /\ StopInv /\ FreshInv /\ RefInv /\ CallsAreAnnounced /\ TruthInv /\ SavedInv
<1>1. InitReported => All
  <2> SUFFICES ASSUME InitReported PROVE All
    OBVIOUS
  <2>1. Init
    BY DEF InitReported
  <2>2. IInv
    BY <2>1, TypeInit, JournalInit, IInvParts
  <2>3. RefInv /\ StopInv /\ FreshInv /\ TruthInv
    BY <2>1, RefInit, StopInit, TruthInit
  <2>4. SavedInv
    BY SavedInit
  <2>5. CallsAreAnnounced
    BY <2>1 DEF Init, CallsAreAnnounced
  <2> QED
    BY <2>2, <2>3, <2>4, <2>5
<1>2. All /\ [NextReported]_reportVars => All'
  <2> SUFFICES ASSUME All, [NextReported]_reportVars PROVE All'
    OBVIOUS
  <2>1. [Next]_vars /\ TypeInv
    BY ReportedSteps, IInvParts
  <2>2. IInv'
    <3>1. TypeInv' /\ JournalInv'
      BY <2>1, IInvParts, TypeStep, JournalStep
    <3> QED
      BY <3>1 DEF IInv, TypeInv, JournalInv
  <2>3. RefInv'
    BY <2>1, RefStep, CountersAgree
  <2>4. CallsAreAnnounced'
    BY <2>1, StepSimulates, JournalKeepsCalls DEF IInv, TypeOK
  <2>5. TruthInv'
    BY <2>1, TruthStep
  <2>6. (StopInv /\ FreshInv)'
    BY <2>1, StopStep, FreshStep
  <2>7. SavedInv'
    BY SavedStep
  <2> QED
    BY <2>2, <2>3, <2>4, <2>5, <2>6, <2>7
<1> QED
  BY <1>1, <1>2, PTL DEF SpecReported

(* Every Campaign that load_campaign accepts can be reported, unless a     *)
(* publication was cut off, a run was interrupted after its publication or *)
(* another Campaign published at the same paths.                           *)
THEOREM CampaignsAreReportable ==
  ASSUME CountersAgree
  PROVE  SpecReported => []AcceptedCampaignIsReportable
<1>1. IInv /\ SavedInv => AcceptedCampaignIsReportable
  BY AcceptedReportable DEF IInv, TypeOK
<1> QED
  BY <1>1, ReportedInvariant, CountersAgree, PTL

(* A report that can be made is true, whatever another Campaign published  *)
(* at the same paths: its Evidence is this Campaign's, its call counts     *)
(* bracket the calls made, and its taxonomy adds up.                       *)
THEOREM ReportsAreTrue ==
  ASSUME CountersAgree
  PROVE  SpecReported => []ReportIsTrue
<1>1. IInv /\ CallsAreAnnounced /\ TruthInv /\ SavedInv => ReportIsTrue
  <2> SUFFICES ASSUME IInv, CallsAreAnnounced, TruthInv, SavedInv PROVE ReportIsTrue
    OBVIOUS
  <2>1. log \in Seq(Lines) /\ called \in [Runs -> {0, 1}]
    BY DEF IInv, TypeOK, NoRetry
  <2>2. CampaignLoads(log) => CallsTrue
    BY AnnouncedNotRun, NotRunCallsTrue
  <2> QED
    BY <2>1, <2>2, ReportTrue
<1> QED
  BY <1>1, ReportedInvariant, CountersAgree, PTL
=============================================================================
