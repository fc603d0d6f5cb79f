------------------------- MODULE Phase6CampaignProofs -------------------------
(***************************************************************************)
(* Proofs about Phase6Campaign for every Plan length, list of gates, stop   *)
(* condition and bound: a Provider is called once at most and only for an   *)
(* announced run, never beside what an earlier run left behind and never    *)
(* after a run that met a stop condition; a terminal line is true of its    *)
(* run, a quality verdict is earned, the contracts accept every pair the    *)
(* Campaign builds and every file it finishes, and the Campaign implements  *)
(* CampaignJournal.                                                         *)
(***************************************************************************)
EXTENDS Phase6Campaign, FiniteSetTheorems, TLAPS

(* Before and while the Provider works; the loop body; the loop.           *)
BeforeCall == {"check", "append_started", "prepare", "provider", "running"}
AfterCall ==
  {"after_failure", "judge", "diff", "prepare_gates", "gate", "gate_running", "after_gates",
   "remove", "abandon"}
Concluded == {"write", "append_terminal", "stop_check"}
InLoop == BeforeCall \cup AfterCall \cup Concluded

(* The file is a sequence; it exists from the creation on.                 *)
FileInv ==
  /\ log \in Seq({log[i] : i \in DOMAIN log})
  /\ pc \notin {"idle", "create"} => log # << >>

IndexInv ==
  /\ pc \in Locations
  /\ index \in 1 .. RunCount + 1
  /\ pc \in InLoop \ {"check"} => index \in Runs

(* No Provider of a run the loop has not reached was called; the current   *)
(* run is announced before its Provider can be called.                     *)
Announced(r) == StartedIn(log, r) \/ \E i \in DOMAIN log : log[i] = TornLine
Uncalled(r) == IF pc \in BeforeCall THEN r >= index ELSE r > index
CallInv ==
  /\ called \in [Runs -> Nat]
  /\ pc \in InLoop => \A r \in Runs : Uncalled(r) => called[r] = 0
  /\ pc \in {"prepare", "provider", "running"} => Announced(index)
  /\ CalledOnceAndAnnounced

(* What a run leaves behind is known to it, and makes its outcome one that *)
(* ends the Campaign: a Provider group through its Evidence, a gate group  *)
(* through the harness failure, or, where the evidence of the gate is      *)
(* refused, through the verdict; a Workspace when it is removed.           *)
Known ==
  \/ ~run.codex.cleared
  \/ pc \in {"after_gates", "remove"} /\ run.harness = "process_cleanup_error"
  \/ pc = "remove" /\ run.outcome = "harness_failure"
Keys == {"codex", "harness", "outcome"}
LeftInv ==
  /\ Keys \subseteq DOMAIN run
  /\ log = << >> \/ pc \in BeforeCall => left = {}
  /\ pc \in AfterCall \ {"abandon"} /\ left # {} => Known
  /\ pc \in Concluded /\ left # {} => run.outcome \in {"harness_failure", "cleanup_failure"}

IInv == FileInv /\ IndexInv /\ CallInv /\ LeftInv

-----------------------------------------------------------------------------
(* The file only grows, and with it what it announces.                     *)
FileStep == UNCHANGED log \/ \E e : log' = Append(log, e)

(* Such a step keeps the file a sequence and every announcement in it.     *)
LEMMA FileGrows ==
  ASSUME FileInv, FileStep
  PROVE  /\ log' \in Seq({log'[i] : i \in DOMAIN log'})
         /\ log # << >> => log' # << >>
         /\ \A r \in Runs : Announced(r) => Announced(r)'
<1>1. CASE UNCHANGED log
  BY <1>1 DEF FileInv, Announced, StartedIn
<1>2. CASE \E e : log' = Append(log, e)
  <2> PICK e : log' = Append(log, e)
    BY <1>2
  <2> DEFINE S == {log[i] : i \in DOMAIN log} \cup {e}
             T == {log'[i] : i \in DOMAIN log'}
  <2>1. log \in Seq(S) /\ e \in S
    BY DEF FileInv
  <2>2. log' \in Seq(S) /\ Len(log) \in Nat /\ Len(log') = Len(log) + 1
        /\ log'[Len(log) + 1] = e /\ \A i \in 1 .. Len(log) : log'[i] = log[i]
    BY <2>1
  <2>3. DOMAIN log = 1 .. Len(log) /\ DOMAIN log' = 1 .. Len(log) + 1
    BY <2>1, <2>2
  <2>4. log' \in Seq(T)
    BY <2>2, <2>3
  <2>5. log' # << >>
    BY <2>2
  <2>6. \A i \in DOMAIN log : i \in DOMAIN log' /\ log'[i] = log[i]
    BY <2>2, <2>3
  <2> QED
    BY <2>4, <2>5, <2>6 DEF Announced, StartedIn
<1> QED
  BY <1>1, <1>2 DEF FileStep

(* The line of a run that is started, whole or torn, announces it.         *)
LEMMA LineAnnounces ==
  ASSUME FileInv, NEW r \in Runs, NEW e, log' = Append(log, e),
         IsStarted(e, r) \/ e = TornLine
  PROVE  Announced(r)'
<1> DEFINE S == {log[i] : i \in DOMAIN log} \cup {e}
<1>1. log \in Seq(S) /\ e \in S
  BY DEF FileInv
<1>2. Len(log) + 1 \in DOMAIN log' /\ log'[Len(log) + 1] = e
  BY <1>1
<1> QED
  BY <1>2 DEF Announced, StartedIn

(* Every step of the specification is such a step of the file.             *)
LEMMA EveryFileStep ==
  ASSUME [Next]_vars
  PROVE  FileStep
<1> USE DEF files, world, bounds, counters, ghosts, RunStep, InWorkspace, AppendStep,
    FileStep
<1>1. CASE Refuse
  BY <1>1 DEF Refuse
<1>2. CASE CreateCampaign
  BY <1>2 DEF CreateCampaign, AppendEvent
<1>3. CASE BeginRun
  BY <1>3 DEF BeginRun
<1>4. CASE StopForChangedInput
  BY <1>4 DEF StopForChangedInput
<1>5. CASE LoopEnds
  BY <1>5 DEF LoopEnds
<1>6. CASE AppendStarted
  BY <1>6 DEF AppendStarted, AppendEvent
<1>7. CASE PrepareWorkspace
  BY <1>7 DEF PrepareWorkspace
<1>8. CASE PrepareFails
  BY <1>8 DEF PrepareFails
<1>9. CASE PreflightFails
  BY <1>9 DEF PreflightFails, Receive, Abandon
<1>10. CASE ProviderRaises
  BY <1>10 DEF ProviderRaises, Abandon
<1>11. CASE InvokeProvider
  BY <1>11 DEF InvokeProvider
<1>12. CASE ProviderReturns
  BY <1>12 DEF ProviderReturns, Receive
<1>13. CASE PlatformUnsupported
  BY <1>13 DEF PlatformUnsupported, Receive
<1>14. CASE RunnerFails
  BY <1>14 DEF RunnerFails, Receive, Abandon
<1>15. CASE AbandonRun
  BY <1>15 DEF AbandonRun
<1>16. CASE AfterFailure
  BY <1>16 DEF AfterFailure
<1>17. CASE JudgeOutput
  BY <1>17 DEF JudgeOutput
<1>18. CASE CollectDiff
  BY <1>18 DEF CollectDiff
<1>19. CASE PrepareGates
  BY <1>19 DEF PrepareGates
<1>20. CASE StartGate
  BY <1>20 DEF StartGate
<1>21. CASE GateNotStarted
  BY <1>21 DEF GateNotStarted
<1>22. CASE GateEnds
  BY <1>22 DEF GateEnds
<1>23. CASE Conclude
  BY <1>23 DEF Conclude
<1>24. CASE RemoveWorkspace
  BY <1>24 DEF RemoveWorkspace
<1>25. CASE WriteOutputs
  BY <1>25 DEF WriteOutputs
<1>26. CASE AppendTerminal
  BY <1>26 DEF AppendTerminal, AppendEvent
<1>27. CASE StopCheck
  BY <1>27 DEF StopCheck
<1>28. CASE AppendNotRun
  BY <1>28 DEF AppendNotRun, AppendEvent
<1>29. CASE AppendFinished
  BY <1>29 DEF AppendFinished, AppendEvent
<1>30. CASE Reload
  BY <1>30 DEF Reload
<1>31. CASE AppendFails
  BY <1>31 DEF AppendFails, Written
<1>32. CASE Invoke
  BY <1>32 DEF Invoke
<1>33. CASE Interrupt
  BY <1>33 DEF Interrupt, Written
<1>34. CASE Crash
  BY <1>34 DEF Crash
<1>35. CASE SetClockBack
  BY <1>35 DEF SetClockBack
<1>36. CASE LateWrite
  BY <1>36 DEF LateWrite
<1>37. CASE UNCHANGED vars
  BY <1>37 DEF vars
<1> QED
  BY <1>1, <1>2, <1>3, <1>4, <1>5, <1>6, <1>7, <1>8, <1>9, <1>10, <1>11, <1>12, <1>13,
     <1>14,
     <1>15, <1>16, <1>17, <1>18, <1>19, <1>20, <1>21, <1>22, <1>23, <1>24, <1>25,
     <1>26, <1>27,
     <1>28, <1>29, <1>30, <1>31, <1>32, <1>33, <1>34, <1>35, <1>36, <1>37 DEF Next,
     ProgramStep, Done

(* The steps that end the work of the Provider, and what the loop body     *)
(* knows after them.                                                       *)
ProviderStep ==
  PreflightFails \/ ProviderRaises \/ ProviderReturns \/ PlatformUnsupported \/ RunnerFails

(* What a step of the Provider call does to the location, the file, the    *)
(* calls and the run.                                                      *)
LEMMA ProviderHandsOver ==
  ASSUME ProviderStep
  PROVE  /\ pc \in {"provider", "running"}
         /\ \/ \E e, began : \E next \in {"after_failure", "judge"} : Receive(e, began, next)
            \/ \E invocation, cleared : Abandon(invocation, cleared)
<1>1. CASE PreflightFails
  BY <1>1 DEF PreflightFails
<1>2. CASE ProviderRaises
  BY <1>2 DEF ProviderRaises
<1>3. CASE ProviderReturns
  BY <1>3 DEF ProviderReturns
<1>4. CASE PlatformUnsupported
  BY <1>4 DEF PlatformUnsupported
<1>5. CASE RunnerFails
  <2>1. pc = "running"
    BY <1>5 DEF RunnerFails
  <2>2. PICK t : \/ \E e, began : Receive(e, began, "after_failure")
                 \/ Abandon(t.invocation, t.cleanup # "failed")
    BY <1>5 DEF RunnerFails
  <2> QED
    BY <2>1, <2>2
<1> QED
  BY <1>1, <1>2, <1>3, <1>4, <1>5 DEF ProviderStep

(* The same, with what the run then knows of a group that is left.         *)
LEMMA ProviderFacts ==
  ASSUME ProviderStep
  PROVE  /\ pc \in {"provider", "running"} /\ pc' \in AfterCall \ {"gate_running"}
         /\ UNCHANGED << log, index >>
         /\ \E k \in 0 .. 1 : called' = [called EXCEPT ![index] = called[index] + k]
         /\ Keys \subseteq DOMAIN run => Keys \subseteq DOMAIN run'
         /\ Keys \subseteq DOMAIN run /\ pc' # "abandon" /\ left' # left => ~run'.codex.cleared
<1> USE DEF files, world, bounds, counters, ghosts, Goto, RunStep, AfterCall, Keys
<1>1. CASE \E e, began : \E next \in {"after_failure", "judge"} : Receive(e, began, next)
  <2> PICK e, began : \E next \in {"after_failure", "judge"} : Receive(e, began, next)
    BY <1>1
  <2> PICK next \in {"after_failure", "judge"} : Receive(e, began, next)
    OBVIOUS
  <2> DEFINE k == IF e.invocation = "not_attempted" THEN 0 ELSE 1
  <2>1. pc' = next /\ UNCHANGED << log, index >>
    BY DEF Receive
  <2>2. called' = [called EXCEPT ![index] = called[index] + k]
    BY DEF Receive
  <2>7. k \in 0 .. 1
    OBVIOUS
  <2>3. left' # left => ~e.cleared
    BY DEF Receive
  <2>4. run' = [run EXCEPT !.codex = Summary(e), !.codexBegan = began, !.codexEnded = clock]
    BY DEF Receive
  <2>5. Summary(e).cleared = e.cleared
    BY DEF Summary
  <2>6. DOMAIN run' = DOMAIN run /\ ("codex" \in DOMAIN run => run'.codex = Summary(e))
    BY <2>4
  <2> HIDE DEF k
  <2> QED
    BY <2>1, <2>2, <2>3, <2>5, <2>6, <2>7, ProviderHandsOver
<1>2. CASE \E invocation, cleared : Abandon(invocation, cleared)
  <2> PICK invocation, cleared : Abandon(invocation, cleared)
    BY <1>2
  <2> DEFINE k == IF invocation = "not_attempted" THEN 0 ELSE 1
  <2>1. called' = [called EXCEPT ![index] = called[index] + k]
    BY DEF Abandon
  <2>3. k \in 0 .. 1
    OBVIOUS
  <2>2. pc' = "abandon" /\ UNCHANGED << log, index, run >>
    BY DEF Abandon
  <2> HIDE DEF k
  <2> QED
    BY <2>1, <2>2, <2>3, ProviderHandsOver
<1> QED
  BY <1>1, <1>2, ProviderHandsOver

(* Where the next statement is, and of which run.                          *)
LEMMA IndexStep ==
  ASSUME FileInv, IndexInv, [Next]_vars
  PROVE  FileInv' /\ IndexInv'
<1> USE RunCountAssumption
    DEF files, world, bounds, counters, ghosts, Leave, Goto, RunStep, InWorkspace,
        AppendStep,
        IndexInv, InLoop, BeforeCall, AfterCall, Concluded, Locations, InTry, HasWorkspace,
        Appending, Runs
<1>0. /\ log' \in Seq({log'[i] : i \in DOMAIN log'}) /\ (log # << >> => log' # << >>)
      /\ (pc \notin {"idle", "create"} => log # << >>)
      /\ RunCount \in Nat \ {0}
  BY FileGrows, EveryFileStep DEF FileInv
<1> USE DEF FileInv
<1>1. CASE Refuse
  BY <1>0, <1>1 DEF Refuse
<1>2. CASE CreateCampaign
  <2>1. log' # << >>
    <3>1. PICK e : log' = Append(log, e)
      BY <1>2 DEF CreateCampaign, AppendEvent
    <3> QED
      BY <3>1
  <2> QED
    BY <1>0, <2>1, <1>2 DEF CreateCampaign
<1>3. CASE BeginRun
  BY <1>0, <1>3 DEF BeginRun
<1>4. CASE StopForChangedInput
  BY <1>0, <1>4 DEF StopForChangedInput
<1>5. CASE LoopEnds
  BY <1>0, <1>5 DEF LoopEnds
<1>6. CASE AppendStarted
  BY <1>0, <1>6 DEF AppendStarted
<1>7. CASE PrepareWorkspace
  BY <1>0, <1>7 DEF PrepareWorkspace
<1>8. CASE PrepareFails
  BY <1>0, <1>8 DEF PrepareFails
<1>9. CASE PreflightFails
  <2>1. pc \in {"provider", "running"} /\ pc' \in AfterCall /\ UNCHANGED << log, index >>
    BY <1>9, ProviderFacts DEF ProviderStep
  <2> QED
    BY <1>0, <2>1
<1>10. CASE ProviderRaises
  <2>1. pc \in {"provider", "running"} /\ pc' \in AfterCall /\ UNCHANGED << log, index >>
    BY <1>10, ProviderFacts DEF ProviderStep
  <2> QED
    BY <1>0, <2>1
<1>11. CASE InvokeProvider
  BY <1>0, <1>11 DEF InvokeProvider
<1>12. CASE ProviderReturns
  <2>1. pc \in {"provider", "running"} /\ pc' \in AfterCall /\ UNCHANGED << log, index >>
    BY <1>12, ProviderFacts DEF ProviderStep
  <2> QED
    BY <1>0, <2>1
<1>13. CASE PlatformUnsupported
  <2>1. pc \in {"provider", "running"} /\ pc' \in AfterCall /\ UNCHANGED << log, index >>
    BY <1>13, ProviderFacts DEF ProviderStep
  <2> QED
    BY <1>0, <2>1
<1>14. CASE RunnerFails
  <2>1. pc \in {"provider", "running"} /\ pc' \in AfterCall /\ UNCHANGED << log, index >>
    BY <1>14, ProviderFacts DEF ProviderStep
  <2> QED
    BY <1>0, <2>1
<1>15. CASE AbandonRun
  BY <1>0, <1>15 DEF AbandonRun
<1>16. CASE AfterFailure
  BY <1>0, <1>16 DEF AfterFailure
<1>17. CASE JudgeOutput
  BY <1>0, <1>17 DEF JudgeOutput
<1>18. CASE CollectDiff
  BY <1>0, <1>18 DEF CollectDiff
<1>19. CASE PrepareGates
  BY <1>0, <1>19 DEF PrepareGates
<1>20. CASE StartGate
  BY <1>0, <1>20 DEF StartGate
<1>21. CASE GateNotStarted
  BY <1>0, <1>21 DEF GateNotStarted
<1>22. CASE GateEnds
  BY <1>0, <1>22 DEF GateEnds
<1>23. CASE Conclude
  BY <1>0, <1>23 DEF Conclude
<1>24. CASE RemoveWorkspace
  BY <1>0, <1>24 DEF RemoveWorkspace
<1>25. CASE WriteOutputs
  BY <1>0, <1>25 DEF WriteOutputs
<1>26. CASE AppendTerminal
  BY <1>0, <1>26 DEF AppendTerminal
<1>27. CASE StopCheck
  BY <1>0, <1>27 DEF StopCheck
<1>28. CASE AppendNotRun
  BY <1>0, <1>28 DEF AppendNotRun
<1>29. CASE AppendFinished
  BY <1>0, <1>29 DEF AppendFinished
<1>30. CASE Reload
  BY <1>0, <1>30 DEF Reload
<1>31. CASE AppendFails
  BY <1>0, <1>31 DEF AppendFails, Written
<1>32. CASE Invoke
  BY <1>0, <1>32 DEF Invoke
<1>33. CASE Interrupt
  <2>1. pc' = "idle" /\ index' = 1
    BY <1>33 DEF Interrupt
  <2> QED
    BY <1>0, <2>1
<1>34. CASE Crash
  <2>1. pc' = "idle" /\ index' = 1
    BY <1>34 DEF Crash
  <2> QED
    BY <1>0, <2>1
<1>35. CASE SetClockBack
  BY <1>0, <1>35 DEF SetClockBack
<1>36. CASE LateWrite
  BY <1>0, <1>36 DEF LateWrite
<1>37. CASE UNCHANGED vars
  BY <1>37 DEF vars
<1> QED
  BY <1>1, <1>2, <1>3, <1>4, <1>5, <1>6, <1>7, <1>8, <1>9, <1>10, <1>11, <1>12, <1>13,
     <1>14,
     <1>15, <1>16, <1>17, <1>18, <1>19, <1>20, <1>21, <1>22, <1>23, <1>24, <1>25,
     <1>26, <1>27,
     <1>28, <1>29, <1>30, <1>31, <1>32, <1>33, <1>34, <1>35, <1>36, <1>37 DEF Next,
     ProgramStep, Done

-----------------------------------------------------------------------------
(* Provider calls.                                                         *)

(* A call counts for the current run, which is announced and uncalled.     *)
LEMMA CallStep ==
  ASSUME FileInv, IndexInv, CallInv, [Next]_vars
  PROVE  CallInv'
<1> USE RunCountAssumption
    DEF files, world, bounds, counters, ghosts, Leave, Goto, RunStep, InWorkspace,
        AppendStep,
        InLoop, BeforeCall, AfterCall, Concluded, InTry, HasWorkspace
<1>0. /\ index \in 1 .. RunCount + 1 /\ Runs = 1 .. RunCount /\ RunCount \in Nat
      /\ called \in [Runs -> Nat] /\ (pc \in InLoop \ {"check"} => index \in Runs)
      /\ \A r \in Runs : called[r] <= 1 /\ (called[r] = 1 => Announced(r))
      /\ \A r \in Runs : Announced(r) => Announced(r)'
      /\ pc \in InLoop => \A r \in Runs : Uncalled(r) => called[r] = 0
      /\ pc \in {"prepare", "provider", "running"} => Announced(index)
  BY FileGrows, EveryFileStep
  DEF IndexInv, CallInv, CalledOnceAndAnnounced, Announced, Runs
<1>g. SUFFICES ASSUME TRUE
      PROVE /\ called' \in [Runs -> Nat]
            /\ \A r \in Runs : called'[r] <= 1 /\ (called'[r] = 1 => Announced(r)')
            /\ pc' \in InLoop => \A r \in Runs : Uncalled(r)' => called'[r] = 0
            /\ pc' \in {"prepare", "provider", "running"} => Announced(index)'
  BY DEF CallInv, CalledOnceAndAnnounced, Announced
<1> USE DEF Uncalled
<1>1. CASE Refuse
  BY <1>0, <1>1 DEF Refuse
<1>2. CASE CreateCampaign
  <2>1. log = << >> /\ UNCHANGED << called, index >> /\ pc' = "check"
    BY <1>2 DEF CreateCampaign
  <2>2. \A r \in Runs : ~Announced(r)
    BY <2>1 DEF Announced, StartedIn
  <2> QED
    BY <1>0, <2>1, <2>2
<1>3. CASE BeginRun
  BY <1>0, <1>3 DEF BeginRun
<1>4. CASE StopForChangedInput
  BY <1>0, <1>4 DEF StopForChangedInput
<1>5. CASE LoopEnds
  BY <1>0, <1>5 DEF LoopEnds
<1>6. CASE AppendStarted
  <2>1. /\ pc = "append_started" /\ pc' = "prepare" /\ UNCHANGED << called, index >>
        /\ index \in Runs
    BY <1>0, <1>6 DEF AppendStarted
  <2>2. PICK e : log' = Append(log, e)
               /\ (e = StartedEvent(sequence', index, clock) \/ e = TornLine)
    BY <1>6 DEF AppendStarted, AppendEvent
  <2>3. IsStarted(e, index) \/ e = TornLine
    BY <2>2 DEF IsStarted, IsRunEvent, StartedEvent
  <2>4. Announced(index)'
    <3>1. \A r \in Runs : r = index => Announced(r)'
      BY <2>2, <2>3, LineAnnounces
    <3> QED
      BY <2>1, <3>1 DEF Announced, StartedIn
  <2> QED
    BY <1>0, <2>1, <2>4
<1>7. CASE PrepareWorkspace
  <2>1. pc' \in BeforeCall /\ pc \in BeforeCall /\ UNCHANGED << log, called, index >>
    BY <1>7 DEF PrepareWorkspace
  <2>2. Announced(index)'
    BY <1>0, <2>1, <1>7 DEF PrepareWorkspace, Announced, StartedIn
  <2> QED
    BY <1>0, <2>1, <2>2
<1>8. CASE PrepareFails
  BY <1>0, <1>8 DEF PrepareFails
<1>9. CASE PreflightFails
  <2>1. /\ pc \in {"provider", "running"} /\ pc' \in AfterCall /\ UNCHANGED index
        /\ \E k \in 0 .. 1 : called' = [called EXCEPT ![index] = called[index] + k]
    BY <1>9, ProviderFacts DEF ProviderStep
  <2> QED
    BY <1>0, <2>1
<1>10. CASE ProviderRaises
  <2>1. /\ pc \in {"provider", "running"} /\ pc' \in AfterCall /\ UNCHANGED index
        /\ \E k \in 0 .. 1 : called' = [called EXCEPT ![index] = called[index] + k]
    BY <1>10, ProviderFacts DEF ProviderStep
  <2> QED
    BY <1>0, <2>1
<1>11. CASE InvokeProvider
  <2>1. pc' \in BeforeCall /\ pc \in BeforeCall /\ UNCHANGED << log, called, index >>
    BY <1>11 DEF InvokeProvider
  <2>2. Announced(index)'
    BY <1>0, <2>1, <1>11 DEF InvokeProvider, Announced, StartedIn
  <2> QED
    BY <1>0, <2>1, <2>2
<1>12. CASE ProviderReturns
  <2>1. /\ pc \in {"provider", "running"} /\ pc' \in AfterCall /\ UNCHANGED index
        /\ \E k \in 0 .. 1 : called' = [called EXCEPT ![index] = called[index] + k]
    BY <1>12, ProviderFacts DEF ProviderStep
  <2> QED
    BY <1>0, <2>1
<1>13. CASE PlatformUnsupported
  <2>1. /\ pc \in {"provider", "running"} /\ pc' \in AfterCall /\ UNCHANGED index
        /\ \E k \in 0 .. 1 : called' = [called EXCEPT ![index] = called[index] + k]
    BY <1>13, ProviderFacts DEF ProviderStep
  <2> QED
    BY <1>0, <2>1
<1>14. CASE RunnerFails
  <2>1. /\ pc \in {"provider", "running"} /\ pc' \in AfterCall /\ UNCHANGED index
        /\ \E k \in 0 .. 1 : called' = [called EXCEPT ![index] = called[index] + k]
    BY <1>14, ProviderFacts DEF ProviderStep
  <2> QED
    BY <1>0, <2>1
<1>15. CASE AbandonRun
  BY <1>0, <1>15 DEF AbandonRun
<1>16. CASE AfterFailure
  BY <1>0, <1>16 DEF AfterFailure
<1>17. CASE JudgeOutput
  BY <1>0, <1>17 DEF JudgeOutput
<1>18. CASE CollectDiff
  BY <1>0, <1>18 DEF CollectDiff
<1>19. CASE PrepareGates
  BY <1>0, <1>19 DEF PrepareGates
<1>20. CASE StartGate
  BY <1>0, <1>20 DEF StartGate
<1>21. CASE GateNotStarted
  BY <1>0, <1>21 DEF GateNotStarted
<1>22. CASE GateEnds
  BY <1>0, <1>22 DEF GateEnds
<1>23. CASE Conclude
  BY <1>0, <1>23 DEF Conclude
<1>24. CASE RemoveWorkspace
  BY <1>0, <1>24 DEF RemoveWorkspace
<1>25. CASE WriteOutputs
  BY <1>0, <1>25 DEF WriteOutputs
<1>26. CASE AppendTerminal
  BY <1>0, <1>26 DEF AppendTerminal, AppendEvent
<1>27. CASE StopCheck
  BY <1>0, <1>27 DEF StopCheck
<1>28. CASE AppendNotRun
  BY <1>0, <1>28 DEF AppendNotRun, AppendEvent
<1>29. CASE AppendFinished
  BY <1>0, <1>29 DEF AppendFinished, AppendEvent
<1>30. CASE Reload
  BY <1>0, <1>30 DEF Reload
<1>31. CASE AppendFails
  BY <1>0, <1>31 DEF AppendFails, Written
<1>32. CASE Invoke
  BY <1>0, <1>32 DEF Invoke
<1>33. CASE Interrupt
  <2>1. /\ pc' = "idle"
        /\ called' = called
           \/ (pc = "running" /\ called' = [called EXCEPT ![index] = called[index] + 1])
    BY <1>33 DEF Interrupt
  <2> QED
    BY <1>0, <2>1
<1>34. CASE Crash
  <2>1. /\ pc' = "idle"
        /\ called' = called
           \/ (pc = "running" /\ called' = [called EXCEPT ![index] = called[index] + 1])
    BY <1>34 DEF Crash
  <2> QED
    BY <1>0, <2>1
<1>35. CASE SetClockBack
  <2>1. UNCHANGED << log, pc, called, index >>
    BY <1>35 DEF SetClockBack
  <2> QED
    BY <1>0, <2>1 DEF Announced, StartedIn
<1>36. CASE LateWrite
  <2>1. UNCHANGED << log, pc, called, index >>
    BY <1>36 DEF LateWrite
  <2> QED
    BY <1>0, <2>1 DEF Announced, StartedIn
<1>37. CASE UNCHANGED vars
  <2>1. UNCHANGED << log, pc, called, index >>
    BY <1>37 DEF vars
  <2> QED
    BY <1>0, <2>1 DEF Announced, StartedIn
<1> QED
  BY <1>1, <1>2, <1>3, <1>4, <1>5, <1>6, <1>7, <1>8, <1>9, <1>10, <1>11, <1>12, <1>13,
     <1>14,
     <1>15, <1>16, <1>17, <1>18, <1>19, <1>20, <1>21, <1>22, <1>23, <1>24, <1>25,
     <1>26, <1>27,
     <1>28, <1>29, <1>30, <1>31, <1>32, <1>33, <1>34, <1>35, <1>36, <1>37 DEF Next,
     ProgramStep, Done

-----------------------------------------------------------------------------
(* What is left behind.                                                    *)

(* A gate command whose group remains is a cleanup failure.                *)
LEMMA GateResultsClear ==
  \A c \in CommandResults : ~c.cleared => c.harness = "process_cleanup_error"
BY DEF CommandResults, GroupRemains, Cleared

(* A failure after the Provider changes nothing of what is known of it.    *)
LEMMA FailureKeeps ==
  ASSUME Keys \subseteq DOMAIN run
  PROVE  \A commands : LET f == PostCodexFailure(commands) IN
           /\ Keys \subseteq DOMAIN f /\ f.outcome = "harness_failure"
           /\ f.codex = run.codex /\ f.harness = run.harness
BY DEF PostCodexFailure, Judged, Keys

(* Every step keeps LeftInv, and a step that calls the Provider leaves     *)
(* nothing behind before it.                                               *)
LEMMA LeftStep ==
  ASSUME FileInv, IndexInv, LeftInv, [Next]_vars
  PROVE  LeftInv' /\ (called' # called => left = {})
<1> USE DEF files, world, bounds, counters, ghosts, Leave, Goto, RunStep, InWorkspace,
    AppendStep,
        LeftInv, Known, Keys, BeforeCall, AfterCall, Concluded, InTry, HasWorkspace
<1>0. /\ log # << >> => log' # << >>
      /\ pc \notin {"idle", "create"} => log # << >>
  BY FileGrows, EveryFileStep DEF FileInv
<1>1. CASE Refuse
  BY <1>0, <1>1 DEF Refuse, FreshRun
<1>2. CASE CreateCampaign
  BY <1>0, <1>2 DEF CreateCampaign
<1>3. CASE BeginRun
  BY <1>0, <1>3 DEF BeginRun
<1>4. CASE StopForChangedInput
  BY <1>0, <1>4 DEF StopForChangedInput
<1>5. CASE LoopEnds
  BY <1>0, <1>5 DEF LoopEnds
<1>6. CASE AppendStarted
  BY <1>0, <1>6 DEF AppendStarted, FreshRun
<1>7. CASE PrepareWorkspace
  BY <1>0, <1>7 DEF PrepareWorkspace
<1>8. CASE PrepareFails
  BY <1>0, <1>8 DEF PrepareFails, FreshRun
<1>9. CASE PreflightFails
  <2>1. /\ pc \in {"provider", "running"} /\ pc' \in AfterCall \ {"gate_running"}
        /\ UNCHANGED log /\ Keys \subseteq DOMAIN run'
        /\ pc' # "abandon" /\ left' # left => ~run'.codex.cleared
    BY <1>9, ProviderFacts DEF ProviderStep
  <2> QED
    BY <1>0, <2>1
<1>10. CASE ProviderRaises
  <2>1. /\ pc \in {"provider", "running"} /\ pc' \in AfterCall \ {"gate_running"}
        /\ UNCHANGED log /\ Keys \subseteq DOMAIN run'
        /\ pc' # "abandon" /\ left' # left => ~run'.codex.cleared
    BY <1>10, ProviderFacts DEF ProviderStep
  <2> QED
    BY <1>0, <2>1
<1>11. CASE InvokeProvider
  BY <1>0, <1>11 DEF InvokeProvider
<1>12. CASE ProviderReturns
  <2>1. /\ pc \in {"provider", "running"} /\ pc' \in AfterCall \ {"gate_running"}
        /\ UNCHANGED log /\ Keys \subseteq DOMAIN run'
        /\ pc' # "abandon" /\ left' # left => ~run'.codex.cleared
    BY <1>12, ProviderFacts DEF ProviderStep
  <2> QED
    BY <1>0, <2>1
<1>13. CASE PlatformUnsupported
  <2>1. /\ pc \in {"provider", "running"} /\ pc' \in AfterCall \ {"gate_running"}
        /\ UNCHANGED log /\ Keys \subseteq DOMAIN run'
        /\ pc' # "abandon" /\ left' # left => ~run'.codex.cleared
    BY <1>13, ProviderFacts DEF ProviderStep
  <2> QED
    BY <1>0, <2>1
<1>14. CASE RunnerFails
  <2>1. /\ pc \in {"provider", "running"} /\ pc' \in AfterCall \ {"gate_running"}
        /\ UNCHANGED log /\ Keys \subseteq DOMAIN run'
        /\ pc' # "abandon" /\ left' # left => ~run'.codex.cleared
    BY <1>14, ProviderFacts DEF ProviderStep
  <2> QED
    BY <1>0, <2>1
<1>15. CASE AbandonRun
  BY <1>0, <1>15 DEF AbandonRun, FreshRun
<1>16. CASE AfterFailure
  <2>1. CASE run' = PostCodexFailure(<< >>)
    BY <1>0, <1>16, <2>1, FailureKeeps DEF AfterFailure
  <2>2. CASE run' # PostCodexFailure(<< >>)
    BY <1>0, <1>16, <2>2 DEF AfterFailure, ProviderTerminal, Judged
  <2> QED
    BY <2>1, <2>2
<1>17. CASE JudgeOutput
  <2>1. CASE run' = PostCodexFailure(<< >>)
    BY <1>0, <1>17, <2>1, FailureKeeps DEF JudgeOutput
  <2>2. CASE run' # PostCodexFailure(<< >>)
    BY <1>0, <1>17, <2>2 DEF JudgeOutput, Rejected, Judged
  <2> QED
    BY <2>1, <2>2
<1>18. CASE CollectDiff
  BY <1>0, <1>18 DEF CollectDiff, Rejected, Judged
<1>19. CASE PrepareGates
  BY <1>0, <1>19 DEF PrepareGates, PostCodexFailure, Judged
<1>20. CASE StartGate
  BY <1>0, <1>20 DEF StartGate
<1>21. CASE GateNotStarted
  <2>1. pc = "gate" /\ UNCHANGED << log, called, left >>
    BY <1>21 DEF GateNotStarted
  <2>2. CASE run' = Collect(run, "evidence_error", TRUE) /\ pc' = "after_gates"
    <3>1. Keys \subseteq DOMAIN run' /\ run'.harness = "evidence_error" /\ run'.codex = run.codex
      BY <2>2 DEF Collect
    <3>2. pc' = "after_gates"
      BY <2>2
    <3> QED
      BY <1>0, <2>1, <3>1, <3>2
  <2>3. CASE run' = PostCodexFailure(<< >>) /\ pc' = "remove"
    BY <1>0, <2>1, <2>3, FailureKeeps
  <2> QED
    BY <2>2, <2>3, <1>21 DEF GateNotStarted
<1>22. CASE GateEnds
  <2>1. /\ pc = "gate_running" /\ UNCHANGED << log, called >>
        /\ left # {} => ~run.codex.cleared
    BY <1>22 DEF GateEnds
  <2>2. PICK c, recorded, harness :
          /\ c \in CommandResults
          /\ left' = left \cup (IF c.cleared THEN {} ELSE {"gate group"})
          /\ Keys \subseteq DOMAIN recorded
          /\ recorded.codex = run.codex /\ recorded.harness = run.harness
          /\ c.harness # "none" => harness = c.harness
          /\ \/ run' = PostCodexFailure(<< >>) /\ pc' = "remove"
             \/ \E toolchain \in BOOLEAN :
                  run' = Collect(recorded, harness, toolchain) /\ pc' = "after_gates"
             \/ c.harness = "none" /\ run' = recorded /\ pc' \in {"after_gates", "gate"}
    BY <1>22 DEF GateEnds
  <2>3. ~c.cleared => c.harness = "process_cleanup_error"
    BY <2>2, GateResultsClear
  <2>4. CASE run' = PostCodexFailure(<< >>) /\ pc' = "remove"
    BY <1>0, <2>1, <2>4, FailureKeeps
  <2>5. CASE \E toolchain \in BOOLEAN :
               run' = Collect(recorded, harness, toolchain) /\ pc' = "after_gates"
    <3>1. Keys \subseteq DOMAIN run' /\ run'.harness = harness /\ run'.codex = run.codex
      BY <2>2, <2>5 DEF Collect
    <3>2. pc' = "after_gates"
      BY <2>5
    <3>3. left' # {} => ~run.codex.cleared \/ harness = "process_cleanup_error"
      <4>1. left' = left \cup (IF c.cleared THEN {} ELSE {"gate group"})
        BY <2>2
      <4>2. c.harness # "none" => harness = c.harness
        BY <2>2
      <4> QED
        BY <2>1, <2>3, <4>1, <4>2
    <3> QED
      BY <1>0, <2>1, <3>1, <3>2, <3>3
  <2>6. CASE c.harness = "none" /\ run' = recorded /\ pc' \in {"after_gates", "gate"}
    BY <1>0, <2>1, <2>2, <2>3, <2>6
  <2> QED
    BY <2>2, <2>4, <2>5, <2>6
<1>23. CASE Conclude
  BY <1>0, <1>23 DEF Conclude, HarnessVerdict, QualityVerdict, PostCodexFailure, Judged
<1>24. CASE RemoveWorkspace
  BY <1>0, <1>24 DEF RemoveWorkspace, Judged
<1>25. CASE WriteOutputs
  BY <1>0, <1>25 DEF WriteOutputs, FreshRun, Completes
<1>26. CASE AppendTerminal
  BY <1>0, <1>26 DEF AppendTerminal
<1>27. CASE StopCheck
  BY <1>0, <1>27 DEF StopCheck, FreshRun, StopAfter
<1>28. CASE AppendNotRun
  BY <1>0, <1>28 DEF AppendNotRun
<1>29. CASE AppendFinished
  BY <1>0, <1>29 DEF AppendFinished
<1>30. CASE Reload
  BY <1>0, <1>30 DEF Reload, FreshRun
<1>31. CASE AppendFails
  <2>1. pc' = "idle" /\ run' = [FreshRun EXCEPT !.began = 0] /\ (pc = "idle" => FALSE)
    BY <1>31 DEF AppendFails, Appending
  <2>2. log' = << >> => left' = {} /\ called' = called
    BY <1>0, <2>1, <1>31 DEF AppendFails
  <2>3. called' # called => left = {}
    BY <1>31 DEF AppendFails
  <2>4. Keys \subseteq DOMAIN run'
    BY <2>1 DEF FreshRun
  <2> QED
    BY <2>1, <2>2, <2>3, <2>4
<1>32. CASE Invoke
  BY <1>0, <1>32 DEF Invoke
<1>33. CASE Interrupt
  <2>1. pc' = "idle" /\ run' = [FreshRun EXCEPT !.began = 0] /\ (pc = "idle" => FALSE)
    BY <1>33 DEF Interrupt, Appending
  <2>2. log' = << >> => left' = {} /\ called' = called
    BY <1>0, <2>1, <1>33 DEF Interrupt
  <2>3. called' # called => left = {}
    BY <1>33 DEF Interrupt
  <2>4. Keys \subseteq DOMAIN run'
    BY <2>1 DEF FreshRun
  <2> QED
    BY <2>1, <2>2, <2>3, <2>4
<1>34. CASE Crash
  <2>1. pc' = "idle" /\ run' = [FreshRun EXCEPT !.began = 0] /\ (pc = "idle" => FALSE)
    BY <1>34 DEF Crash, Appending
  <2>2. log' = << >> => left' = {} /\ called' = called
    BY <1>0, <2>1, <1>34 DEF Crash
  <2>3. called' # called => left = {}
    BY <1>34 DEF Crash
  <2>4. Keys \subseteq DOMAIN run'
    BY <2>1 DEF FreshRun
  <2> QED
    BY <2>1, <2>2, <2>3, <2>4
<1>35. CASE SetClockBack
  BY <1>0, <1>35 DEF SetClockBack
<1>36. CASE LateWrite
  BY <1>0, <1>36 DEF LateWrite
<1>37. CASE UNCHANGED vars
  BY <1>37 DEF vars
<1> QED
  BY <1>1, <1>2, <1>3, <1>4, <1>5, <1>6, <1>7, <1>8, <1>9, <1>10, <1>11, <1>12, <1>13,
     <1>14,
     <1>15, <1>16, <1>17, <1>18, <1>19, <1>20, <1>21, <1>22, <1>23, <1>24, <1>25,
     <1>26, <1>27,
     <1>28, <1>29, <1>30, <1>31, <1>32, <1>33, <1>34, <1>35, <1>36, <1>37 DEF Next,
     ProgramStep, Done

-----------------------------------------------------------------------------
(* The theorems about calls.                                               *)

LEMMA InvInit ==
  ASSUME Init
  PROVE  IInv
<1>1. log = << >> /\ pc = "idle" /\ index = 1 /\ left = {} /\ called = [r \in Runs |-> 0]
      /\ run = FreshRun
  BY DEF Init
<1>2. FileInv
  BY <1>1 DEF FileInv
<1>3. IndexInv
  BY <1>1, RunCountAssumption DEF IndexInv, Locations, InLoop, BeforeCall, AfterCall,
     Concluded
<1>4. CallInv
  BY <1>1 DEF CallInv, CalledOnceAndAnnounced, InLoop, BeforeCall, AfterCall, Concluded
<1>5. LeftInv
  BY <1>1 DEF LeftInv, Keys, FreshRun, AfterCall, Concluded
<1> QED
  BY <1>2, <1>3, <1>4, <1>5 DEF IInv

(* The inductive invariant holds in every reachable state.                 *)
THEOREM Inductive == Spec => []IInv
<1>1. Init => IInv
  BY InvInit
<1>2. IInv /\ [Next]_vars => IInv'
  BY IndexStep, CallStep, LeftStep DEF IInv
<1> QED
  BY <1>1, <1>2, PTL DEF Spec

(* A run's Provider is called once at most, by whatever invocation, and    *)
(* only for a run the Campaign file announces, unless a write came up      *)
(* short: for every Plan length, any gates, results and stop conditions,   *)
(* and any number of invocations and disturbances.                         *)
THEOREM CallsOnceAndAnnounced == Spec => []CalledOnceAndAnnounced
<1>1. IInv => CalledOnceAndAnnounced
  BY DEF IInv, CallInv
<1> QED
  BY <1>1, Inductive, PTL

(* No Provider is started beside a process group or a Workspace that an    *)
(* earlier run left.                                                       *)
THEOREM CallsBesideNothing == Spec => NoCallBesideRemains
<1>1. IInv /\ [Next]_vars => [called' # called => left = {}]_vars
  BY LeftStep DEF IInv
<1> QED
  BY <1>1, Inductive, PTL DEF Spec, NoCallBesideRemains

-----------------------------------------------------------------------------
(* Stop conditions.                                                        *)

CountedBefore(r) == {i \in TerminalLines(log) : log[i].run < r /\ log[i].counted}
AllowedBefore(r) == \A i \in TerminalLines(log) : log[i].run < r => Allows(log[i])

(* A failure is in `failures` when its line is written, and judged after.  *)
Pending == IF pc = "stop_check" /\ run.counted THEN 1 ELSE 0

(* The types the argument needs; an invocation starts with fresh locals.   *)
CountersTyped ==
  /\ policy \in Policies
  /\ failures \in Nat
  /\ nextIndex \in 1 .. RunCount + 1
  /\ \A i \in TerminalLines(log) : log[i].run \in Runs
  /\ pc \in {"idle", "create"} => index = 1 /\ failures = 0 /\ stop = "none"
  /\ pc \in InLoop => stop = "none"

(* In the loop the lines of the earlier runs allow to go on, and `failures`*)
(* is at least the number of the counted ones: a line torn by a short      *)
(* write is missing in the file.                                           *)
EarlierRuns ==
  pc \in InLoop =>
    /\ AllowedBefore(index)
    /\ Cardinality(CountedBefore(index)) + Pending <= failures
    /\ policy.maxFailures # 0 => failures - Pending < policy.maxFailures

(* No line concludes the current run before the stop check, which looks at *)
(* the run the last one was written for.                                   *)
CurrentRun ==
  /\ pc \in InLoop \ {"stop_check"} => \A i \in TerminalLines(log) : log[i].run < index
  /\ pc = "stop_check" =>
       /\ nextIndex = index + 1
       /\ \E k : \A i \in TerminalLines(log) :
            \/ log[i].run < index
            \/ i = k /\ log[i].run = index /\ log[i].outcome = run.outcome
               /\ log[i].counted = run.counted

(* The tail concludes only runs that were not reached.                     *)
TailInv ==
  pc = "tail" /\ stop # "none" => \A r \in Runs : r >= nextIndex => called[r] = 0

StopInv == CountersTyped /\ EarlierRuns /\ CurrentRun /\ TailInv /\ StopHonoured
              /\ run.outcome # "stop_condition"

(* StopHonoured with its parts named.                                      *)
LEMMA HonouredParts ==
  StopHonoured <=> \A r \in Runs : called[r] > 0 =>
    /\ AllowedBefore(r)
    /\ policy.maxFailures # 0 => Cardinality(CountedBefore(r)) < policy.maxFailures
BY DEF StopHonoured, AllowedBefore, CountedBefore

(* No verdict of the program is the outcome of a run that was not run.     *)
LEMMA OutcomeStep ==
  ASSUME IndexInv, LeftInv, run.outcome # "stop_condition", [Next]_vars
  PROVE  run'.outcome # "stop_condition"
<1> USE DEF files, world, bounds, counters, ghosts, Leave, RunStep, InWorkspace, AppendStep,
    FreshRun
<1>0. Keys \subseteq DOMAIN run
  BY DEF LeftInv
<1>1. CASE Refuse
  BY <1>1 DEF Refuse
<1>2. CASE CreateCampaign
  BY <1>2 DEF CreateCampaign
<1>3. CASE BeginRun
  BY <1>3 DEF BeginRun
<1>4. CASE StopForChangedInput
  BY <1>4 DEF StopForChangedInput
<1>5. CASE LoopEnds
  BY <1>5 DEF LoopEnds
<1>6. CASE AppendStarted
  BY <1>6 DEF AppendStarted
<1>7. CASE PrepareWorkspace
  BY <1>0, <1>7 DEF PrepareWorkspace
<1>8. CASE PrepareFails
  BY <1>8 DEF PrepareFails
<1>9. CASE ProviderStep
  <2>1. CASE \E e, began : \E next \in {"after_failure", "judge"} : Receive(e, began, next)
    BY <1>0, <2>1 DEF Receive, Keys
  <2>2. CASE \E invocation, cleared : Abandon(invocation, cleared)
    BY <2>2 DEF Abandon
  <2> QED
    BY <1>9, <2>1, <2>2, ProviderHandsOver
<1>10. CASE InvokeProvider
  BY <1>0, <1>10 DEF InvokeProvider
<1>11. CASE AbandonRun
  BY <1>11 DEF AbandonRun
<1>12. CASE AfterFailure
  <2>1. CASE run' = PostCodexFailure(<< >>)
    BY <1>0, <1>12, <2>1, FailureKeeps DEF AfterFailure
  <2>2. CASE run' # PostCodexFailure(<< >>)
    BY <1>0, <1>12, <2>2 DEF AfterFailure, ProviderTerminal, Judged, Keys
  <2> QED
    BY <2>1, <2>2
<1>13. CASE JudgeOutput
  <2>1. CASE run' = PostCodexFailure(<< >>)
    BY <1>0, <1>13, <2>1, FailureKeeps DEF JudgeOutput
  <2>2. CASE run' # PostCodexFailure(<< >>)
    BY <1>0, <1>13, <2>2 DEF JudgeOutput, Rejected, Judged, Keys
  <2> QED
    BY <2>1, <2>2
<1>14. CASE CollectDiff
  BY <1>0, <1>14 DEF CollectDiff, Rejected, Judged, Keys
<1>15. CASE PrepareGates
  BY <1>0, <1>15, FailureKeeps DEF PrepareGates
<1>16. CASE StartGate
  BY <1>0, <1>16 DEF StartGate
<1>17. CASE GateNotStarted
  <2>1. CASE run' = Collect(run, "evidence_error", TRUE)
    BY <1>0, <2>1 DEF Collect, Keys
  <2>2. CASE run' = PostCodexFailure(<< >>)
    BY <1>0, <2>2, FailureKeeps
  <2> QED
    BY <1>17, <2>1, <2>2 DEF GateNotStarted
<1>18. CASE GateEnds
  <2>1. PICK recorded, harness :
          /\ Keys \subseteq DOMAIN recorded /\ recorded.outcome = run.outcome
          /\ \/ run' = PostCodexFailure(<< >>)
             \/ \E toolchain \in BOOLEAN : run' = Collect(recorded, harness, toolchain)
             \/ run' = recorded
    BY <1>0, <1>18 DEF GateEnds, Keys
  <2>2. CASE run' = PostCodexFailure(<< >>)
    BY <1>0, <2>2, FailureKeeps
  <2>3. CASE \E toolchain \in BOOLEAN : run' = Collect(recorded, harness, toolchain)
    BY <2>1, <2>3 DEF Collect, Keys
  <2> QED
    BY <2>1, <2>2, <2>3
<1>19. CASE Conclude
  BY <1>0, <1>19, FailureKeeps DEF Conclude, HarnessVerdict, QualityVerdict, Judged, Keys
<1>20. CASE RemoveWorkspace
  BY <1>0, <1>20 DEF RemoveWorkspace, Judged, Keys
<1>21. CASE WriteOutputs
  <2>1. run' = Completes \/ run' = [FreshRun EXCEPT !.began = 0]
    BY <1>21 DEF WriteOutputs
  <2>2. Completes.outcome = run.outcome
    BY <1>0 DEF Completes, Keys
  <2> QED
    BY <2>1, <2>2
<1>22. CASE AppendTerminal
  BY <1>22 DEF AppendTerminal
<1>23. CASE StopCheck
  BY <1>23 DEF StopCheck
<1>24. CASE AppendNotRun
  BY <1>24 DEF AppendNotRun
<1>25. CASE AppendFinished
  BY <1>25 DEF AppendFinished
<1>26. CASE Reload \/ AppendFails \/ Interrupt \/ Crash
  BY <1>26 DEF Reload, AppendFails, Interrupt, Crash
<1>27. CASE Invoke \/ SetClockBack \/ LateWrite \/ UNCHANGED vars
  BY <1>27 DEF Invoke, SetClockBack, LateWrite, vars
<1> QED
  BY <1>1, <1>2, <1>3, <1>4, <1>5, <1>6, <1>7, <1>8, <1>9, <1>10, <1>11, <1>12, <1>13,
     <1>14, <1>15, <1>16, <1>17, <1>18, <1>19, <1>20, <1>21, <1>22, <1>23, <1>24, <1>25,
     <1>26, <1>27 DEF Next, ProgramStep, Done, ProviderStep

-----------------------------------------------------------------------------
(* The steps by what they do to the file and the calls.                    *)

(* Steps that leave file and calls alone.                                  *)
LEMMA QuietHonours ==
  ASSUME StopHonoured, UNCHANGED << log, policy, called >>
  PROVE  StopHonoured'
BY DEF StopHonoured, Allows

(* The counted lines are finitely many.                                    *)
LEMMA CountedFinite ==
  ASSUME FileInv, NEW r
  PROVE  IsFiniteSet(CountedBefore(r)) /\ Cardinality(CountedBefore(r)) \in Nat
<1>1. CountedBefore(r) \subseteq 1 .. Len(log) /\ Len(log) \in Nat
  BY DEF CountedBefore, TerminalLines, FileInv
<1>2. IsFiniteSet(1 .. Len(log))
  BY <1>1, FS_Interval
<1> QED
  BY <1>1, <1>2, FS_Subset, FS_CardinalityType

(* A call of the current run's Provider: the earlier runs allowed it.      *)
LEMMA CallHonours ==
  ASSUME FileInv, IndexInv, CallInv, StopInv, pc \in {"provider", "running"},
         UNCHANGED << log, policy >>,
         NEW k \in 0 .. 1, called' = [called EXCEPT ![index] = called[index] + k]
  PROVE  StopHonoured'
<1>1. /\ AllowedBefore(index) /\ failures \in Nat /\ Pending = 0
      /\ policy.maxFailures # 0 => failures - Pending < policy.maxFailures
      /\ Cardinality(CountedBefore(index)) + Pending <= failures
  BY DEF StopInv, EarlierRuns, CountersTyped, InLoop, BeforeCall, Pending
<1>0. policy.maxFailures \in Nat /\ index \in Runs /\ called \in [Runs -> Nat]
  BY RunCountAssumption, PoliciesAssumption
  DEF StopInv, CountersTyped, IndexInv, CallInv, InLoop, BeforeCall, Runs
<1>5. Cardinality(CountedBefore(index)) \in Nat
  BY CountedFinite
<1>2. policy.maxFailures # 0 => Cardinality(CountedBefore(index)) < policy.maxFailures
  BY <1>0, <1>1, <1>5
<1>3. \A r \in Runs : called'[r] > 0 => r = index \/ called[r] > 0
  BY <1>0
<1>4. \A r \in Runs : called'[r] > 0 =>
        /\ AllowedBefore(r)
        /\ policy.maxFailures # 0 => Cardinality(CountedBefore(r)) < policy.maxFailures
  BY <1>1, <1>2, <1>3, HonouredParts DEF StopInv
<1> QED
  BY <1>4 DEF StopHonoured, AllowedBefore, CountedBefore, Allows

Concludes(e) == IsRunEvent(e) /\ e.status # "started"

(* What an append adds to the concluded runs.                              *)
LEMMA AppendConcludes ==
  ASSUME FileInv, NEW e, log' = Append(log, e)
  PROVE  /\ Len(log) \in Nat /\ log'[Len(log) + 1] = e
         /\ Len(log) + 1 \notin TerminalLines(log)
         /\ \A i \in TerminalLines(log) : log'[i] = log[i]
         /\ TerminalLines(log') =
              TerminalLines(log) \cup (IF Concludes(e) THEN {Len(log) + 1} ELSE {})
<1> DEFINE S == {log[i] : i \in DOMAIN log} \cup {e}
<1>1. log \in Seq(S) /\ e \in S
  BY DEF FileInv
<1>2. Len(log) \in Nat /\ Len(log') = Len(log) + 1 /\ log' \in Seq(S)
      /\ log'[Len(log) + 1] = e /\ \A i \in 1 .. Len(log) : log'[i] = log[i]
  BY <1>1
<1>3. DOMAIN log = 1 .. Len(log) /\ DOMAIN log' = 1 .. Len(log) + 1
  BY <1>1, <1>2
<1>4. 1 .. Len(log) + 1 = (1 .. Len(log)) \cup {Len(log) + 1}
      /\ Len(log) + 1 \notin 1 .. Len(log)
  BY <1>2
<1> HIDE DEF S
<1> QED
  BY <1>2, <1>3, <1>4 DEF TerminalLines, Concludes

(* A line that concludes no run below r leaves what the file says of the   *)
(* runs below it as it was.                                                *)
LEMMA AppendFrame ==
  ASSUME FileInv, NEW e, log' = Append(log, e), UNCHANGED policy,
         NEW r, Concludes(e) => ~(e.run < r)
  PROVE  CountedBefore(r)' = CountedBefore(r) /\ (AllowedBefore(r) => AllowedBefore(r)')
<1>1. \A i \in TerminalLines(log') : log'[i].run < r => i \in TerminalLines(log)
  BY AppendConcludes
<1>2. \A i \in TerminalLines(log) : i \in TerminalLines(log') /\ log'[i] = log[i]
  BY AppendConcludes
<1>3. CountedBefore(r)' = CountedBefore(r)
  BY <1>1, <1>2 DEF CountedBefore
<1>4. AllowedBefore(r) => AllowedBefore(r)'
  BY <1>1, <1>2 DEF AllowedBefore, Allows
<1> QED
  BY <1>3, <1>4

(* So StopHonoured survives every append that concludes no run below one   *)
(* whose Provider was called.                                              *)
LEMMA AppendHonours ==
  ASSUME FileInv, StopHonoured, NEW e, log' = Append(log, e), UNCHANGED << policy, called >>,
         Concludes(e) => \A r \in Runs : called[r] > 0 => ~(e.run < r)
  PROVE  StopHonoured'
<1>1. ASSUME NEW r \in Runs, called[r] > 0
      PROVE  /\ AllowedBefore(r)'
             /\ policy.maxFailures # 0 => Cardinality(CountedBefore(r)') < policy.maxFailures
  <2>1. CountedBefore(r)' = CountedBefore(r) /\ (AllowedBefore(r) => AllowedBefore(r)')
    BY <1>1, AppendFrame
  <2> QED
    BY <1>1, <2>1, HonouredParts
<1> QED
  BY <1>1 DEF StopHonoured, AllowedBefore, CountedBefore

(* The line the next append writes, whole or torn, is such a line, about a *)
(* run of the Plan.                                                        *)
LEMMA LineConcludes ==
  ASSUME IndexInv, CallInv, StopInv, pc \in Appending,
         NEW e \in {TornLine, LineWritten}, Concludes(e)
  PROVE  e.run \in Runs /\ \A r \in Runs : called[r] > 0 => ~(e.run < r)
<1>0. /\ nextIndex \in 1 .. RunCount + 1 /\ RunCount \in Nat /\ Runs = 1 .. RunCount
      /\ called \in [Runs -> Nat]
  BY RunCountAssumption DEF StopInv, CountersTyped, CallInv, Runs
<1>1. e = LineWritten
  BY DEF Concludes, IsRunEvent, TornLine
<1>2. CASE pc = "create"
  BY <1>1, <1>2 DEF LineWritten, Concludes, IsRunEvent, CampaignStarted
<1>3. CASE pc = "append_started"
  BY <1>1, <1>3 DEF LineWritten, Concludes, IsRunEvent, StartedEvent
<1>4. CASE pc = "append_terminal"
  <2>1. e.run = index
    BY <1>1, <1>4 DEF LineWritten, TerminalLine, TerminalEvent
  <2>2. index \in Runs /\ \A r \in Runs : r > index => called[r] = 0
    BY <1>4 DEF IndexInv, CallInv, Uncalled, InLoop, Concluded, BeforeCall
  <2> QED
    BY <1>0, <2>1, <2>2
<1>5. CASE pc = "tail" /\ stop # "none" /\ nextIndex <= RunCount
  <2>1. e.run = nextIndex
    BY <1>1, <1>5 DEF LineWritten, NotRunEvent
  <2>2. \A r \in Runs : r >= nextIndex => called[r] = 0
    BY <1>5 DEF StopInv, TailInv
  <2> QED
    BY <1>0, <1>5, <2>1, <2>2
<1>6. CASE pc = "tail" /\ ~(stop # "none" /\ nextIndex <= RunCount)
  BY <1>1, <1>6 DEF LineWritten, Concludes, IsRunEvent, CampaignFinished
<1> QED
  BY <1>2, <1>3, <1>4, <1>5, <1>6 DEF Appending

LinesTyped == \A i \in TerminalLines(log) : log[i].run \in Runs

(* What every append, whole, torn or failed, keeps.                        *)
LEMMA WrittenHonours ==
  ASSUME FileInv, IndexInv, CallInv, StopInv, UNCHANGED << policy, called >>,
         log' = log \/ (pc \in Appending /\ log' \in Written)
  PROVE  StopHonoured' /\ LinesTyped'
<1>0. StopHonoured /\ LinesTyped
  BY DEF StopInv, CountersTyped, LinesTyped
<1>1. CASE log' = log
  BY <1>0, <1>1, QuietHonours DEF LinesTyped
<1>2. ASSUME pc \in Appending, NEW e \in {TornLine, LineWritten}, log' = Append(log, e)
      PROVE  StopHonoured' /\ LinesTyped'
  <2>1. Concludes(e) => e.run \in Runs /\ \A r \in Runs : called[r] > 0 => ~(e.run < r)
    BY <1>2, LineConcludes
  <2>2. StopHonoured'
    BY <1>0, <1>2, <2>1, AppendHonours
  <2>3. LinesTyped'
    BY <1>0, <1>2, <2>1, AppendConcludes DEF LinesTyped
  <2> QED
    BY <2>2, <2>3
<1> QED
  BY <1>1, <1>2 DEF Written

(* The end of an invocation keeps StopInv.                                 *)
LEMMA ExitStop ==
  ASSUME StopInv, UNCHANGED policy, Leave, StopHonoured', LinesTyped',
         run'.outcome # "stop_condition"
  PROVE  StopInv'
BY RunCountAssumption
DEF Leave, StopInv, CountersTyped, LinesTyped, EarlierRuns, CurrentRun, TailInv, InLoop,
    BeforeCall, AfterCall, Concluded

(* A step inside the loop body that leaves the file and the counters alone *)
(* keeps it.                                                               *)
LEMMA LoopStop ==
  ASSUME StopInv, UNCHANGED << log, policy, index, failures, stop >>,
         nextIndex' \in 1 .. RunCount + 1,
         pc \in InLoop \ {"stop_check"}, pc' \in InLoop \ {"stop_check"},
         StopHonoured', run'.outcome # "stop_condition"
  PROVE  StopInv'
<1>1. CountersTyped'
  BY DEF StopInv, CountersTyped, InLoop, BeforeCall, AfterCall, Concluded
<1>2. EarlierRuns'
  <2>1. Pending = 0 /\ Pending' = 0
    BY DEF Pending
  <2>2. CountedBefore(index)' = CountedBefore(index)
        /\ (AllowedBefore(index) => AllowedBefore(index)')
    BY DEF CountedBefore, AllowedBefore, Allows
  <2> QED
    BY <2>1, <2>2 DEF StopInv, EarlierRuns
<1>3. CurrentRun'
  BY DEF StopInv, CurrentRun
<1>4. TailInv'
  BY DEF TailInv, InLoop, BeforeCall, AfterCall, Concluded
<1> QED
  BY <1>1, <1>2, <1>3, <1>4 DEF StopInv

-----------------------------------------------------------------------------
(* Every step keeps StopInv.                                               *)

(* The steps of the loop body between the `started` line and the pair.     *)
BodyStep ==
  \/ PrepareWorkspace \/ InvokeProvider \/ AfterFailure \/ JudgeOutput \/ CollectDiff
  \/ PrepareGates \/ StartGate \/ GateNotStarted \/ GateEnds \/ Conclude \/ RemoveWorkspace

(* They leave the file, the calls and the counters alone.                  *)
LEMMA BodyFrame ==
  ASSUME BodyStep
  PROVE  /\ UNCHANGED << log, policy, called, index, failures, stop, nextIndex >>
         /\ pc \in InLoop \ {"stop_check"} /\ pc' \in InLoop \ {"stop_check"}
<1> USE DEF files, world, bounds, counters, ghosts, RunStep, InWorkspace, Goto,
    InLoop, BeforeCall, AfterCall, Concluded
<1>1. CASE PrepareWorkspace
  BY <1>1 DEF PrepareWorkspace
<1>2. CASE InvokeProvider
  BY <1>2 DEF InvokeProvider
<1>3. CASE AfterFailure
  BY <1>3 DEF AfterFailure
<1>4. CASE JudgeOutput
  BY <1>4 DEF JudgeOutput
<1>5. CASE CollectDiff
  BY <1>5 DEF CollectDiff
<1>6. CASE PrepareGates
  BY <1>6 DEF PrepareGates
<1>7. CASE StartGate
  BY <1>7 DEF StartGate
<1>8. CASE GateNotStarted
  BY <1>8 DEF GateNotStarted
<1>9. CASE GateEnds
  BY <1>9 DEF GateEnds
<1>10. CASE Conclude
  BY <1>10 DEF Conclude
<1>11. CASE RemoveWorkspace
  BY <1>11 DEF RemoveWorkspace
<1> QED
  BY <1>1, <1>2, <1>3, <1>4, <1>5, <1>6, <1>7, <1>8, <1>9, <1>10, <1>11 DEF BodyStep

(* The stop check: whatever lets the loop go on is what the earlier runs   *)
(* of the next one are allowed to say.                                     *)
LEMMA StopCheckStep ==
  ASSUME FileInv, IndexInv, CallInv, StopInv, StopCheck, run'.outcome # "stop_condition"
  PROVE  StopInv'
<1>0. /\ index \in Runs /\ Runs = 1 .. RunCount /\ RunCount \in Nat /\ failures \in Nat
      /\ nextIndex = index + 1 /\ nextIndex \in 1 .. RunCount + 1 /\ pc = "stop_check"
      /\ policy.maxFailures \in Nat /\ stop = "none"
  BY RunCountAssumption, PoliciesAssumption
  DEF StopCheck, IndexInv, StopInv, CountersTyped, CurrentRun, InLoop, Concluded, BeforeCall,
      Runs
<1>1. /\ UNCHANGED << log, policy, called, failures, nextIndex >> /\ stop' = StopAfter
      /\ \/ StopAfter = "none" /\ index' = index + 1 /\ pc' = "check"
         \/ StopAfter # "none" /\ index' = index /\ pc' = "tail"
  BY DEF StopCheck, files, world, bounds, ghosts, Goto
<1>2. StopHonoured'
  BY <1>1, QuietHonours DEF StopInv
<1>3. CountersTyped'
  BY <1>0, <1>1 DEF StopInv, CountersTyped, InLoop, BeforeCall, AfterCall, Concluded
<1>4. TailInv'
  BY <1>0, <1>1 DEF TailInv, CallInv, Uncalled, InLoop, BeforeCall, AfterCall, Concluded
<1>5. PICK k : \A i \in TerminalLines(log) :
        \/ log[i].run < index
        \/ i = k /\ log[i].run = index /\ log[i].outcome = run.outcome
           /\ log[i].counted = run.counted
  BY <1>0 DEF StopInv, CurrentRun
<1>6. \A i \in TerminalLines(log) : log[i].run \in Nat /\ log[i].run <= index
  BY <1>0, <1>5 DEF StopInv, CountersTyped
<1>7. CASE StopAfter # "none"
  BY <1>1, <1>2, <1>3, <1>4, <1>7
  DEF StopInv, EarlierRuns, CurrentRun, InLoop, BeforeCall, AfterCall, Concluded
<1>8. CASE StopAfter = "none"
  <2>1. /\ run.outcome \notin {"harness_failure", "cleanup_failure", "stop_condition"}
        /\ run.counted => ~policy.failFast
        /\ run.counted /\ policy.maxFailures # 0 => failures < policy.maxFailures
    BY <1>0, <1>8 DEF StopAfter, StopInv
  <2>2. /\ AllowedBefore(index)
        /\ Cardinality(CountedBefore(index)) + Pending <= failures
        /\ policy.maxFailures # 0 => failures - Pending < policy.maxFailures
    BY <1>0 DEF StopInv, EarlierRuns, InLoop, Concluded
  <2>3. AllowedBefore(index + 1)
    BY <1>5, <2>1, <2>2 DEF AllowedBefore, Allows
  <2>4. /\ CountedBefore(index + 1) \subseteq
             CountedBefore(index) \cup (IF run.counted THEN {k} ELSE {})
        /\ CountedBefore(index) \subseteq CountedBefore(index + 1)
    BY <1>0, <1>5, <1>6 DEF CountedBefore
  <2>5. Cardinality(CountedBefore(index + 1)) <= failures
    <3>1. /\ IsFiniteSet(CountedBefore(index)) /\ Cardinality(CountedBefore(index)) \in Nat
      BY CountedFinite
    <3>2. CASE run.counted
      <4>1. /\ IsFiniteSet(CountedBefore(index) \cup {k})
            /\ Cardinality(CountedBefore(index) \cup {k})
                 <= Cardinality(CountedBefore(index)) + 1
        BY <3>1, FS_AddElement
      <4>2. Cardinality(CountedBefore(index + 1)) <= Cardinality(CountedBefore(index) \cup {k})
        BY <2>4, <3>2, <4>1, FS_Subset
      <4>3. /\ Cardinality(CountedBefore(index + 1)) \in Nat
            /\ Cardinality(CountedBefore(index) \cup {k}) \in Nat /\ Pending = 1
        BY <1>0, <3>2, <4>1, CountedFinite, FS_CardinalityType DEF Pending
      <4> QED
        BY <1>0, <2>2, <3>1, <4>1, <4>2, <4>3
    <3>3. CASE ~run.counted
      <4>1. CountedBefore(index + 1) = CountedBefore(index) /\ Pending = 0
        BY <1>0, <2>4, <3>3 DEF Pending
      <4> QED
        BY <1>0, <2>2, <3>1, <4>1
    <3> QED
      BY <3>2, <3>3
  <2>6. policy.maxFailures # 0 => failures < policy.maxFailures
    BY <1>0, <2>1, <2>2 DEF Pending
  <2>7. EarlierRuns'
    <3>1. Pending' = 0 /\ pc' = "check"
      BY <1>1, <1>8 DEF Pending
    <3>2. CountedBefore(index)' = CountedBefore(index + 1) /\ AllowedBefore(index)'
      BY <1>1, <1>8, <2>3 DEF CountedBefore, AllowedBefore, Allows
    <3>3. Cardinality(CountedBefore(index + 1)) \in Nat
      BY CountedFinite
    <3> QED
      BY <1>0, <1>1, <2>5, <2>6, <3>1, <3>2, <3>3 DEF EarlierRuns
  <2>8. CurrentRun'
    BY <1>0, <1>1, <1>6, <1>8 DEF CurrentRun
  <2> QED
    BY <1>2, <1>3, <1>4, <2>7, <2>8 DEF StopInv
<1> QED
  BY <1>7, <1>8

(* The terminal line of the current run is the one the stop check will     *)
(* look at.                                                                *)
LEMMA TerminalStep ==
  ASSUME FileInv, IndexInv, CallInv, StopInv, AppendTerminal, run'.outcome # "stop_condition"
  PROVE  StopInv'
<1>0. /\ index \in Runs /\ Runs = 1 .. RunCount /\ RunCount \in Nat /\ failures \in Nat
      /\ policy.maxFailures \in Nat /\ stop = "none" /\ pc = "append_terminal"
  BY RunCountAssumption, PoliciesAssumption
  DEF AppendTerminal, IndexInv, StopInv, CountersTyped, InLoop, Concluded, BeforeCall, Runs
<1>1. /\ UNCHANGED << policy, called, index, stop, run >> /\ pc' = "stop_check"
      /\ failures' = failures + (IF run.counted THEN 1 ELSE 0) /\ nextIndex' = index + 1
      /\ \E e \in {TornLine, TerminalLine} : log' = Append(log, e)
  BY DEF AppendTerminal, AppendEvent, AppendStep, ghosts, Goto
<1>2. LineWritten = TerminalLine /\ pc \in Appending
  BY <1>0 DEF LineWritten, Appending
<1>3. StopHonoured' /\ LinesTyped'
  BY <1>1, <1>2, WrittenHonours DEF Written
<1>4. CountersTyped'
  <2>1. failures' \in Nat /\ nextIndex' \in 1 .. RunCount + 1
    BY <1>0, <1>1
  <2>2. policy' \in Policies
    BY <1>1 DEF StopInv, CountersTyped
  <2>3. pc' \notin {"idle", "create"} /\ stop' = "none"
    BY <1>0, <1>1
  <2> QED
    BY <1>3, <2>1, <2>2, <2>3 DEF CountersTyped, LinesTyped
<1>5. TailInv'
  BY <1>1 DEF TailInv
<1>6. PICK e \in {TornLine, TerminalLine} : log' = Append(log, e)
  BY <1>1
<1>7. Concludes(e) => e.run = index /\ e.outcome = run.outcome /\ e.counted = run.counted
  BY DEF Concludes, IsRunEvent, TornLine, TerminalLine, TerminalEvent
<1>8. EarlierRuns'
  <2>1. PICK r \in {index} : CountedBefore(r)' = CountedBefore(r)
                             /\ (AllowedBefore(r) => AllowedBefore(r)')
    BY <1>0, <1>1, <1>6, <1>7, AppendFrame
  <2>2. CountedBefore(index)' = CountedBefore(index)
        /\ (AllowedBefore(index) => AllowedBefore(index)')
    BY <1>1, <2>1 DEF CountedBefore, AllowedBefore, Allows
  <2>3. Pending = 0 /\ Pending' = IF run.counted THEN 1 ELSE 0
    BY <1>0, <1>1 DEF Pending
  <2>4. /\ AllowedBefore(index)
        /\ Cardinality(CountedBefore(index)) + Pending <= failures
        /\ policy.maxFailures # 0 => failures - Pending < policy.maxFailures
    BY <1>0 DEF StopInv, EarlierRuns, InLoop, Concluded
  <2>5. Cardinality(CountedBefore(index)) \in Nat
    BY CountedFinite
  <2> QED
    BY <1>0, <1>1, <2>2, <2>3, <2>4, <2>5 DEF EarlierRuns
<1>9. CurrentRun'
  <2>1. \A i \in TerminalLines(log) : log[i].run < index
    BY <1>0 DEF StopInv, CurrentRun, InLoop, Concluded
  <2>2. \A i \in TerminalLines(log') :
          \/ log'[i].run < index
          \/ i = Len(log) + 1 /\ log'[i] = e /\ Concludes(e)
    BY <1>6, <2>1, AppendConcludes
  <2>3. index' = index /\ run' = run /\ nextIndex' = index + 1 /\ pc' = "stop_check"
    BY <1>1
  <2>4. \A i \in TerminalLines(log') :
          \/ log'[i].run < index'
          \/ i = Len(log) + 1 /\ log'[i].run = index' /\ log'[i].outcome = run'.outcome
             /\ log'[i].counted = run'.counted
    BY <1>7, <2>2, <2>3
  <2> QED
    BY <2>3, <2>4 DEF CurrentRun
<1> QED
  BY <1>1, <1>3, <1>4, <1>5, <1>8, <1>9 DEF StopInv

(* A step of any other kind, too.                                          *)
LEMMA StopStep ==
  ASSUME IInv, StopInv, [Next]_vars
  PROVE  StopInv'
<1> USE DEF IInv, files, world, bounds, counters, ghosts, RunStep, AppendStep, Goto
<1>0. /\ index \in 1 .. RunCount + 1 /\ RunCount \in Nat /\ Runs = 1 .. RunCount
      /\ nextIndex \in 1 .. RunCount + 1 /\ called \in [Runs -> Nat]
      /\ run'.outcome # "stop_condition" /\ StopHonoured /\ LinesTyped
  BY RunCountAssumption, OutcomeStep
  DEF IndexInv, CallInv, StopInv, CountersTyped, LinesTyped, Runs
<1>1. CASE Refuse \/ PrepareFails \/ AbandonRun \/ Reload
  <2>1. UNCHANGED << log, policy, called >> /\ Leave
    BY <1>1 DEF Refuse, PrepareFails, AbandonRun, Reload
  <2> QED
    BY <1>0, <2>1, WrittenHonours, ExitStop
<1>2. CASE CreateCampaign
  <2>1. /\ log = << >> /\ pc = "create" /\ pc' = "check"
        /\ UNCHANGED << policy, called, index, failures, stop, nextIndex >>
    BY <1>2 DEF CreateCampaign
  <2>2. log' \in Written /\ pc \in Appending
    BY <1>2, <2>1 DEF CreateCampaign, AppendEvent, Written, LineWritten, Appending
  <2>3. StopHonoured' /\ LinesTyped'
    BY <2>1, <2>2, WrittenHonours
  <2>4. index = 1 /\ failures = 0 /\ stop = "none"
    BY <2>1 DEF StopInv, CountersTyped
  <2>5. CountersTyped'
    BY <2>1, <2>3, <2>4 DEF StopInv, CountersTyped, LinesTyped
  <2>6. TerminalLines(log') = {}
    <3>1. PICK e \in {TornLine, CampaignStarted(clock)} : log' = Append(log, e)
      BY <1>2 DEF CreateCampaign, AppendEvent
    <3>2. ~Concludes(e) /\ TerminalLines(log) = {}
      BY <2>1 DEF Concludes, IsRunEvent, TornLine, CampaignStarted, TerminalLines
    <3> QED
      BY <3>1, <3>2, AppendConcludes
  <2>7. EarlierRuns'
    <3>1. CountedBefore(index)' = {} /\ AllowedBefore(index)' /\ Pending' = 0
      BY <2>1, <2>6 DEF CountedBefore, AllowedBefore, Pending
    <3>2. policy.maxFailures \in Nat
      BY <1>0, PoliciesAssumption DEF StopInv, CountersTyped
    <3>3. Cardinality(CountedBefore(index)') = 0
      BY <3>1, FS_EmptySet
    <3>4. failures' = 0 /\ (policy'.maxFailures # 0 => 0 < policy'.maxFailures)
      BY <2>1, <2>4, <3>2
    <3> QED
      BY <3>1, <3>3, <3>4 DEF EarlierRuns
  <2> QED
    BY <1>0, <2>1, <2>3, <2>5, <2>6, <2>7 DEF StopInv, CurrentRun, TailInv
<1>3. CASE BeginRun
  <2>1. /\ UNCHANGED << log, policy, called, index, failures, stop >>
        /\ pc = "check" /\ pc' = "append_started" /\ nextIndex' \in 1 .. RunCount + 1
    BY <1>0, <1>3 DEF BeginRun
  <2> QED
    BY <1>0, <2>1, QuietHonours, LoopStop DEF InLoop, BeforeCall
<1>4. CASE StopForChangedInput \/ LoopEnds
  <2>1. /\ UNCHANGED << log, policy, called, index, failures >>
        /\ pc = "check" /\ pc' = "tail" /\ nextIndex' \in 1 .. RunCount + 1
        /\ nextIndex' = index \/ stop' = stop
    BY <1>0, <1>4 DEF StopForChangedInput, LoopEnds
  <2>2. stop = "none" /\ \A r \in Runs : r >= index => called[r] = 0
    BY <2>1 DEF StopInv, CountersTyped, CallInv, Uncalled, InLoop, BeforeCall
  <2>3. TailInv'
    BY <2>1, <2>2 DEF TailInv
  <2>4. CountersTyped'
    BY <2>1 DEF StopInv, CountersTyped, InLoop, BeforeCall, AfterCall, Concluded
  <2> QED
    BY <1>0, <2>1, <2>3, <2>4, QuietHonours
    DEF StopInv, EarlierRuns, CurrentRun, InLoop, BeforeCall, AfterCall, Concluded
<1>5. CASE AppendStarted
  <2>1. /\ UNCHANGED << policy, called, index, failures, stop, nextIndex >>
        /\ pc = "append_started" /\ pc' = "prepare"
    BY <1>5 DEF AppendStarted
  <2>2. PICK e \in {TornLine, StartedEvent(sequence + 1, index, clock)} : log' = Append(log, e)
    BY <1>5 DEF AppendStarted, AppendEvent
  <2>3. ~Concludes(e)
    BY DEF Concludes, IsRunEvent, TornLine, StartedEvent
  <2>4. TerminalLines(log') = TerminalLines(log)
        /\ \A i \in TerminalLines(log) : log'[i] = log[i]
    BY <2>2, <2>3, AppendConcludes
  <2>5. StopHonoured' /\ LinesTyped'
    BY <1>0, <2>1, <2>2, <2>3, <2>4, AppendHonours DEF LinesTyped
  <2>6. CountersTyped'
    BY <2>1, <2>5 DEF StopInv, CountersTyped, LinesTyped, InLoop, BeforeCall
  <2>7. EarlierRuns'
    <3>1. CountedBefore(index)' = CountedBefore(index)
          /\ (AllowedBefore(index) => AllowedBefore(index)')
      BY <2>1, <2>4 DEF CountedBefore, AllowedBefore, Allows
    <3>2. Pending = 0 /\ Pending' = 0
      BY <2>1 DEF Pending
    <3> QED
      BY <2>1, <3>1, <3>2 DEF StopInv, EarlierRuns, InLoop, BeforeCall
  <2>8. CurrentRun'
    BY <2>1, <2>4 DEF StopInv, CurrentRun, InLoop, BeforeCall
  <2> QED
    BY <1>0, <2>1, <2>5, <2>6, <2>7, <2>8 DEF StopInv, TailInv
<1>6. CASE BodyStep
  BY <1>0, <1>6, BodyFrame, QuietHonours, LoopStop
<1>7. CASE ProviderStep
  <2>1. /\ pc \in {"provider", "running"} /\ pc' \in AfterCall /\ UNCHANGED << log, index >>
        /\ \E k \in 0 .. 1 : called' = [called EXCEPT ![index] = called[index] + k]
    BY <1>7, ProviderFacts
  <2>2. UNCHANGED << policy, failures, stop, nextIndex >>
    BY <1>7, ProviderHandsOver DEF Receive, Abandon
  <2>3. StopHonoured'
    BY <2>1, <2>2, CallHonours
  <2> QED
    BY <1>0, <2>1, <2>2, <2>3, LoopStop DEF InLoop, BeforeCall, AfterCall, Concluded
<1>8. CASE WriteOutputs
  <2>1. UNCHANGED << log, policy, called >> /\ pc = "write"
    BY <1>8 DEF WriteOutputs
  <2>2. StopHonoured' /\ LinesTyped'
    BY <2>1, WrittenHonours
  <2>3. CASE Leave
    BY <1>0, <2>1, <2>2, <2>3, ExitStop
  <2>4. CASE UNCHANGED << index, failures, stop, nextIndex >> /\ pc' = "append_terminal"
    BY <1>0, <2>1, <2>2, <2>4, LoopStop DEF InLoop, Concluded
  <2> QED
    BY <1>8, <2>3, <2>4 DEF WriteOutputs
<1>9. CASE AppendTerminal
  BY <1>0, <1>9, TerminalStep
<1>10. CASE StopCheck
  BY <1>0, <1>10, StopCheckStep
<1>11. CASE AppendNotRun
  <2>1. /\ UNCHANGED << policy, called, pc, failures, stop >> /\ pc = "tail" /\ stop # "none"
        /\ nextIndex' = nextIndex + 1 /\ nextIndex <= RunCount
    BY <1>11 DEF AppendNotRun
  <2>2. log' \in Written /\ pc \in Appending
    BY <1>11, <2>1 DEF AppendNotRun, AppendEvent, Written, LineWritten, Appending
  <2>3. StopHonoured' /\ LinesTyped'
    BY <2>1, <2>2, WrittenHonours
  <2>4. CountersTyped'
    BY <1>0, <2>1, <2>3
    DEF StopInv, CountersTyped, LinesTyped, InLoop, BeforeCall, AfterCall, Concluded
  <2>5. TailInv'
    BY <1>0, <2>1 DEF StopInv, TailInv
  <2> QED
    BY <1>0, <2>1, <2>3, <2>4, <2>5
    DEF StopInv, EarlierRuns, CurrentRun, InLoop, BeforeCall, AfterCall, Concluded
<1>12. CASE AppendFinished
  <2>1. /\ UNCHANGED << policy, called, failures, stop, nextIndex >> /\ pc = "tail"
        /\ pc' = "reload"
    BY <1>12 DEF AppendFinished
  <2>2. log' \in Written /\ pc \in Appending
    BY <1>0, <1>12, <2>1 DEF AppendFinished, AppendEvent, Written, LineWritten, Appending
  <2>3. StopHonoured' /\ LinesTyped'
    BY <2>1, <2>2, WrittenHonours
  <2>4. CountersTyped'
    BY <2>1, <2>3
    DEF StopInv, CountersTyped, LinesTyped, InLoop, BeforeCall, AfterCall, Concluded
  <2> QED
    BY <1>0, <2>1, <2>3, <2>4
    DEF StopInv, TailInv, EarlierRuns, CurrentRun, InLoop, BeforeCall, AfterCall, Concluded
<1>13. CASE AppendFails
  <2>1. pc \in Appending /\ log' \in Written /\ UNCHANGED << policy, called >> /\ Leave
    BY <1>13 DEF AppendFails
  <2> QED
    BY <1>0, <2>1, WrittenHonours, ExitStop
<1>14. CASE Invoke
  <2>1. UNCHANGED << log, policy, called, index, failures, stop, nextIndex >>
        /\ pc = "idle" /\ pc' = "create"
    BY <1>14 DEF Invoke
  <2>2. CountersTyped'
    BY <2>1 DEF StopInv, CountersTyped, InLoop, BeforeCall, AfterCall, Concluded
  <2> QED
    BY <1>0, <2>1, <2>2, QuietHonours
    DEF StopInv, TailInv, EarlierRuns, CurrentRun, InLoop, BeforeCall, AfterCall, Concluded
<1>15. CASE Interrupt \/ Crash
  <2>1. /\ UNCHANGED policy /\ Leave
        /\ log' = log \/ (pc \in Appending /\ log' \in Written)
        /\ \/ called' = called
           \/ pc = "running" /\ called' = [called EXCEPT ![index] = called[index] + 1]
    BY <1>15 DEF Interrupt, Crash
  <2>2. CASE called' = called
    BY <1>0, <2>1, <2>2, WrittenHonours, ExitStop
  <2>3. CASE pc = "running" /\ called' = [called EXCEPT ![index] = called[index] + 1]
    <3>1. log' = log
      BY <2>1, <2>3 DEF Appending
    <3>2. StopHonoured'
      BY <2>1, <2>3, <3>1, CallHonours
    <3> QED
      BY <1>0, <2>1, <3>1, <3>2, ExitStop DEF LinesTyped
  <2> QED
    BY <2>1, <2>2, <2>3
<1>16. CASE SetClockBack \/ LateWrite \/ UNCHANGED vars
  <2>1. UNCHANGED << log, policy, called, index, failures, stop, nextIndex, pc, run >>
    BY <1>16 DEF SetClockBack, LateWrite, vars
  <2>2. EarlierRuns'
    BY <2>1 DEF StopInv, EarlierRuns, CountedBefore, AllowedBefore, Allows, Pending
  <2> QED
    BY <1>0, <2>1, <2>2, QuietHonours DEF StopInv, CountersTyped, CurrentRun, TailInv
<1> QED
  BY <1>1, <1>2, <1>3, <1>4, <1>5, <1>6, <1>7, <1>8, <1>9, <1>10, <1>11, <1>12, <1>13,
     <1>14, <1>15, <1>16 DEF Next, ProgramStep, Done, BodyStep, ProviderStep

(* The initial states satisfy it.                                          *)
LEMMA StopInit ==
  ASSUME Init
  PROVE  StopInv
<1>1. /\ log = << >> /\ pc = "idle" /\ index = 1 /\ failures = 0 /\ stop = "none"
      /\ nextIndex = 1 /\ policy \in Policies /\ run = FreshRun
      /\ \A r \in Runs : called[r] = 0
  BY DEF Init
<1>2. CountersTyped
  BY <1>1, RunCountAssumption
  DEF CountersTyped, TerminalLines, InLoop, BeforeCall, AfterCall, Concluded
<1> QED
  BY <1>1, <1>2
  DEF StopInv, EarlierRuns, CurrentRun, TailInv, StopHonoured, FreshRun, InLoop, BeforeCall,
      AfterCall, Concluded

(* A stop condition that was met ends the Campaign: when a run's Provider  *)
(* has been called, no line the file has of an earlier run is a harness or *)
(* cleanup failure, a run that was not run or, under fail_fast, a counted  *)
(* failure, and the counted ones are fewer than max_failures - whatever    *)
(* crash, signal, failed or short write came between.                      *)
THEOREM StopConditionsHonoured == Spec => []StopHonoured
<1>1. Init => StopInv
  BY StopInit
<1>2. IInv /\ StopInv /\ [Next]_vars => StopInv'
  BY StopStep
<1>3. StopInv => StopHonoured
  BY DEF StopInv
<1> QED
  BY <1>1, <1>2, <1>3, Inductive, PTL DEF Spec

-----------------------------------------------------------------------------
(* The truth of the terminal lines.                                        *)

Fields == {"codex", "commands", "kind", "launched", "ended"}

(* A command that ended had been started.                                  *)
GateInv ==
  /\ Fields \subseteq DOMAIN run
  /\ run.launched \in Nat
  /\ pc = "gate_running" \/ run.commands # << >> => run.launched > 0

(* No pair of a run the loop has not reached is there, nor that of the     *)
(* current one before it is written.                                       *)
Unwritten(r) ==
  IF pc \in {"append_terminal", "stop_check"} THEN r > index ELSE r >= index
PairsInv ==
  /\ DOMAIN pairs = Runs
  /\ log = << >> => \A r \in Runs : pairs[r] = NoPair
  /\ pc \in InLoop => \A r \in Runs : Unwritten(r) => pairs[r] = NoPair
  /\ pc = "tail" /\ stop # "none" => \A r \in Runs : r >= nextIndex => pairs[r] = NoPair

(* What the program holds of the current run is what happened: its Codex   *)
(* evidence is right about the Provider, and the line to be appended says  *)
(* what the pair says.                                                     *)
Agrees(pair) ==
  /\ pair # NoPair
  /\ pair.kind = run.kind /\ pair.calls = CallsOf(run.codex)
  /\ pair.gate = (run.commands # << >>) /\ pair.launched = (run.launched > 0)
RecordInv ==
  /\ pc \in (AfterCall \ {"abandon"}) \cup {"write", "append_terminal"} =>
       called[index] = CallsOf(run.codex)
  /\ pc = "append_terminal" => Agrees(pairs[index])

TruthInv == GateInv /\ PairsInv /\ RecordInv /\ TerminalLineIsTrue

(* Evidence the contract accepts is right about the Provider.              *)
LEMMA AcceptedCalls ==
  ASSUME NEW e, Accepted(e)
  PROVE  (e.execution = "provider_invocation_attempted") <=> e.invocation # "not_attempted"
BY DEF Accepted, LifecycleAgrees

(* A step of the Provider call gives the run such evidence, or none.       *)
LEMMA ReceivedCalls ==
  ASSUME ProviderStep
  PROVE  \/ /\ UNCHANGED run /\ pc' = "abandon"
         \/ \E e, began :
              /\ (e.execution = "provider_invocation_attempted") <=> e.invocation # "not_attempted"
              /\ run' = [run EXCEPT !.codex = Summary(e), !.codexBegan = began,
                                    !.codexEnded = clock]
              /\ called' = [called EXCEPT ![index] =
                              @ + (IF e.invocation = "not_attempted" THEN 0 ELSE 1)]
<1> USE DEF Receive, Abandon, Goto
<1>1. CASE PreflightFails
  BY <1>1, AcceptedCalls DEF PreflightFails
<1>2. CASE ProviderRaises
  BY <1>2 DEF ProviderRaises
<1>3. CASE ProviderReturns
  <2>1. PICK e \in RunnerResults : \E next : Receive(e, run.codexBegan, next)
    BY <1>3 DEF ProviderReturns
  <2>2. Accepted(e)
    BY DEF RunnerResults
  <2> QED
    BY <2>1, <2>2, AcceptedCalls
<1>4. CASE PlatformUnsupported
  <2>1. UnsupportedEvidence.execution = "preflight_completed"
        /\ UnsupportedEvidence.invocation = "not_attempted"
    BY DEF UnsupportedEvidence, Evidence
  <2> QED
    BY <1>4, <2>1 DEF PlatformUnsupported
<1>5. CASE RunnerFails
  <2>1. PICK t : LET e == LifecycleEvidence(t) IN
          \/ Accepted(e) /\ \E began : Receive(e, began, "after_failure")
          \/ Abandon(t.invocation, t.cleanup # "failed")
    BY <1>5 DEF RunnerFails
  <2>2. CASE Abandon(t.invocation, t.cleanup # "failed")
    BY <2>2 DEF RunStep
  <2>3. CASE Accepted(LifecycleEvidence(t))
             /\ \E began : Receive(LifecycleEvidence(t), began, "after_failure")
    BY <2>3, AcceptedCalls
  <2> QED
    BY <2>1, <2>2, <2>3
<1> QED
  BY <1>1, <1>2, <1>3, <1>4, <1>5 DEF ProviderStep

(* What the steps of the loop body do to the record of the run.            *)
LEMMA BodyRun ==
  ASSUME BodyStep, GateInv
  PROVE  GateInv' /\ run'.codex = run.codex
<1> USE DEF GateInv, Fields, Goto
<1>1. CASE PrepareWorkspace
  BY <1>1 DEF PrepareWorkspace
<1>2. CASE InvokeProvider
  BY <1>2 DEF InvokeProvider
<1>0. \A commands : commands = << >> \/ commands = run.commands =>
        LET f == PostCodexFailure(commands) IN
        /\ Fields \subseteq DOMAIN f /\ f.codex = run.codex /\ f.launched = run.launched
        /\ f.commands = commands
  BY DEF PostCodexFailure, Judged
<1>3. CASE AfterFailure
  <2>1. CASE run' = PostCodexFailure(<< >>)
    BY <1>0, <1>3, <2>1 DEF AfterFailure
  <2>2. CASE run' # PostCodexFailure(<< >>)
    BY <1>3, <2>2 DEF AfterFailure, ProviderTerminal, Judged
  <2> QED
    BY <2>1, <2>2
<1>4. CASE JudgeOutput
  <2>1. CASE run' = PostCodexFailure(<< >>)
    BY <1>0, <1>4, <2>1 DEF JudgeOutput
  <2>2. CASE run' # PostCodexFailure(<< >>)
    BY <1>4, <2>2 DEF JudgeOutput, Rejected, Judged
  <2> QED
    BY <2>1, <2>2
<1>5. CASE CollectDiff
  BY <1>5 DEF CollectDiff, Rejected, Judged
<1>6. CASE PrepareGates
  BY <1>0, <1>6 DEF PrepareGates
<1>7. CASE StartGate
  BY <1>7 DEF StartGate
<1>8. CASE GateNotStarted
  <2>1. CASE run' = Collect(run, "evidence_error", TRUE) /\ pc' = "after_gates"
    BY <2>1 DEF Collect
  <2>2. CASE run' = PostCodexFailure(<< >>) /\ pc' = "remove"
    BY <1>0, <2>2
  <2> QED
    BY <1>8, <2>1, <2>2 DEF GateNotStarted
<1>9. CASE GateEnds
  <2>1. PICK recorded, harness :
          /\ pc = "gate_running" /\ pc' # "gate_running"
          /\ Fields \subseteq DOMAIN recorded /\ recorded.codex = run.codex
          /\ recorded.launched = run.launched
          /\ \/ run' = PostCodexFailure(<< >>)
             \/ \E toolchain \in BOOLEAN : run' = Collect(recorded, harness, toolchain)
             \/ run' = recorded
    BY <1>9 DEF GateEnds
  <2>2. CASE run' = PostCodexFailure(<< >>)
    BY <1>0, <2>1, <2>2
  <2>3. CASE \E toolchain \in BOOLEAN : run' = Collect(recorded, harness, toolchain)
    BY <2>1, <2>3 DEF Collect
  <2> QED
    BY <2>1, <2>2, <2>3
<1>10. CASE Conclude
  BY <1>0, <1>10 DEF Conclude, HarnessVerdict, QualityVerdict, Judged
<1>11. CASE RemoveWorkspace
  BY <1>11 DEF RemoveWorkspace, Judged
<1> QED
  BY <1>1, <1>2, <1>3, <1>4, <1>5, <1>6, <1>7, <1>8, <1>9, <1>10, <1>11 DEF BodyStep

(* A fresh run, and one at the end of an invocation, has started nothing.  *)
LEMMA FreshGate ==
  ASSUME run' \in {FreshRun, [FreshRun EXCEPT !.began = 0]}, pc' # "gate_running"
  PROVE  GateInv'
BY DEF GateInv, Fields, FreshRun

LineTrue(e) ==
  /\ e.calls = called[e.run]
  /\ e.status = "not_run" => pairs[e.run] = NoPair
  /\ e.status # "not_run" =>
       /\ pairs[e.run] # NoPair
       /\ pairs[e.run].kind = e.kind /\ pairs[e.run].calls = e.calls
       /\ pairs[e.run].gate = e.gate /\ (e.gate => pairs[e.run].launched)

(* TerminalLineIsTrue, line by line.                                       *)
LEMMA TrueLines ==
  TerminalLineIsTrue <=> \A i \in TerminalLines(log) : LineTrue(log[i])
BY DEF TerminalLineIsTrue, LineTrue

(* Up to the stop check what a step does to the pair and the calls of the  *)
(* current run is no business of the lines that are there.                 *)
LEMMA OthersTrue ==
  ASSUME StopInv, IndexInv, TruthInv, pc \in InLoop \ {"stop_check"}, UNCHANGED log,
         \A r \in Runs : r # index => called'[r] = called[r] /\ pairs'[r] = pairs[r]
  PROVE  TerminalLineIsTrue'
<1>1. \A i \in TerminalLines(log) : log[i].run \in Runs /\ log[i].run < index
  BY DEF StopInv, CountersTyped, CurrentRun
<1>2. \A r \in Runs : r < index => r # index
  BY RunCountAssumption DEF IndexInv, Runs
<1>3. \A i \in TerminalLines(log) : called'[log[i].run] = called[log[i].run]
                                    /\ pairs'[log[i].run] = pairs[log[i].run]
  BY <1>1, <1>2
<1> QED
  BY <1>3 DEF TruthInv, TerminalLineIsTrue

(* What the program appends is true.                                       *)
LEMMA WrittenTrue ==
  ASSUME FileInv, IndexInv, StopInv, CallInv, TruthInv, UNCHANGED << called, pairs >>,
         log' = log \/ (pc \in Appending /\ log' \in Written)
  PROVE  TerminalLineIsTrue'
<1>0. TerminalLineIsTrue
  BY DEF TruthInv
<1>1. CASE log' = log
  BY <1>0, <1>1 DEF TerminalLineIsTrue
<1>2. ASSUME pc \in Appending, NEW e \in {TornLine, LineWritten}, log' = Append(log, e)
      PROVE  TerminalLineIsTrue'
  <2>1. ASSUME Concludes(e) PROVE LineTrue(e)
    <3>1. e = LineWritten
      BY <2>1 DEF Concludes, IsRunEvent, TornLine
    <3>2. CASE pc = "create"
      BY <2>1, <3>1, <3>2 DEF LineWritten, Concludes, IsRunEvent, CampaignStarted
    <3>3. CASE pc = "append_started"
      BY <2>1, <3>1, <3>3 DEF LineWritten, Concludes, IsRunEvent, StartedEvent
    <3>4. CASE pc = "append_terminal"
      <4>1. /\ e.run = index /\ e.status # "not_run" /\ e.calls = CallsOf(run.codex)
            /\ e.gate = (run.commands # << >>) /\ e.kind = run.kind
        BY <3>1, <3>4 DEF LineWritten, TerminalLine, TerminalEvent
      <4>2. Agrees(pairs[index]) /\ called[index] = CallsOf(run.codex)
            /\ (run.commands # << >> => run.launched > 0)
        BY <3>4 DEF TruthInv, RecordInv, GateInv
      <4> QED
        BY <4>1, <4>2 DEF LineTrue, Agrees
    <3>5. CASE pc = "tail" /\ stop # "none" /\ nextIndex <= RunCount
      <4>1. e.run = nextIndex /\ e.status = "not_run" /\ e.calls = 0
        BY <3>1, <3>5 DEF LineWritten, NotRunEvent
      <4>2. nextIndex \in Runs /\ nextIndex >= nextIndex
        BY <3>5, RunCountAssumption DEF StopInv, CountersTyped, Runs
      <4>3. called[nextIndex] = 0 /\ pairs[nextIndex] = NoPair
        BY <3>5, <4>2 DEF StopInv, TailInv, TruthInv, PairsInv
      <4> QED
        BY <4>1, <4>3 DEF LineTrue
    <3>6. CASE pc = "tail" /\ ~(stop # "none" /\ nextIndex <= RunCount)
      BY <2>1, <3>1, <3>6 DEF LineWritten, Concludes, IsRunEvent, CampaignFinished
    <3> QED
      BY <1>2, <3>2, <3>3, <3>4, <3>5, <3>6 DEF Appending
  <2>2. \A i \in TerminalLines(log') : LineTrue(log'[i])
    BY <1>0, <1>2, <2>1, TrueLines, AppendConcludes
  <2> QED
    BY <2>2 DEF TerminalLineIsTrue, LineTrue
<1> QED
  BY <1>1, <1>2 DEF Written

(* The end of an invocation.                                               *)
LEMMA ExitTruth ==
  ASSUME TruthInv, Leave, TerminalLineIsTrue', DOMAIN pairs' = Runs,
         log' = << >> => log = << >> /\ UNCHANGED pairs
  PROVE  TruthInv'
<1>1. GateInv'
  BY FreshGate DEF Leave
<1>2. PairsInv' /\ RecordInv'
  BY DEF TruthInv, PairsInv, RecordInv, Leave, InLoop, BeforeCall, AfterCall, Concluded
<1> QED
  BY <1>1, <1>2 DEF TruthInv

(* The file is never emptied.                                              *)
LEMMA FileStays ==
  ASSUME FileInv, [Next]_vars, log' = << >>
  PROVE  log = << >> /\ pc \in {"idle", "create"}
BY FileGrows, EveryFileStep DEF FileInv

(* Every step keeps TruthInv.                                              *)
LEMMA TruthStep ==
  ASSUME IInv, StopInv, TruthInv, [Next]_vars
  PROVE  TruthInv'
<1> USE DEF IInv, files, world, bounds, counters, ghosts, RunStep, AppendStep, Goto
<1>0. /\ index \in 1 .. RunCount + 1 /\ RunCount \in Nat /\ Runs = 1 .. RunCount
      /\ nextIndex \in 1 .. RunCount + 1 /\ called \in [Runs -> Nat]
      /\ pc \in InLoop \ {"check"} => index \in Runs
      /\ TerminalLineIsTrue /\ DOMAIN pairs = Runs
      /\ log' = << >> => log = << >> /\ pc \in {"idle", "create"}
  BY RunCountAssumption, FileStays
  DEF IndexInv, CallInv, StopInv, CountersTyped, TruthInv, PairsInv, Runs
<1>1. CASE Refuse \/ PrepareFails \/ AbandonRun \/ Reload
  <2>1. UNCHANGED << log, pairs, called >> /\ Leave
    BY <1>1 DEF Refuse, PrepareFails, AbandonRun, Reload
  <2> QED
    BY <1>0, <2>1, WrittenTrue, ExitTruth
<1>2. CASE CreateCampaign
  <2>1. /\ log = << >> /\ pc = "create" /\ pc' = "check" /\ UNCHANGED << pairs, called, run >>
    BY <1>2 DEF CreateCampaign
  <2>2. log' \in Written /\ pc \in Appending
    BY <1>2, <2>1 DEF CreateCampaign, AppendEvent, Written, LineWritten, Appending
  <2>3. TerminalLineIsTrue'
    BY <2>1, <2>2, WrittenTrue
  <2>4. PairsInv'
    BY <2>1 DEF TruthInv, PairsInv
  <2>5. GateInv' /\ RecordInv'
    BY <2>1 DEF TruthInv, GateInv, RecordInv, AfterCall
  <2> QED
    BY <2>3, <2>4, <2>5 DEF TruthInv
<1>3. CASE BeginRun \/ StopForChangedInput \/ LoopEnds
  <2>1. /\ UNCHANGED << log, pairs, called, run, index >>
        /\ pc = "check" /\ pc' \in {"append_started", "tail"}
        /\ pc' = "tail" => nextIndex' = index \/ (stop' = stop)
    BY <1>3 DEF BeginRun, StopForChangedInput, LoopEnds
  <2>2. stop = "none" /\ log # << >> /\ \A r \in Runs : r >= index => pairs[r] = NoPair
    BY <2>1 DEF StopInv, CountersTyped, TruthInv, PairsInv, Unwritten, InLoop, BeforeCall,
       FileInv
  <2>3. PairsInv'
    BY <1>0, <2>1, <2>2 DEF PairsInv, Unwritten
  <2>4. GateInv' /\ RecordInv'
    BY <2>1 DEF TruthInv, GateInv, RecordInv, AfterCall
  <2> QED
    BY <2>1, <2>3, <2>4, WrittenTrue DEF TruthInv
<1>4. CASE AppendStarted
  <2>1. /\ UNCHANGED << pairs, called, index >> /\ pc = "append_started" /\ pc' = "prepare"
        /\ run' = FreshRun
    BY <1>4 DEF AppendStarted
  <2>2. log' \in Written /\ pc \in Appending
    BY <1>4, <2>1 DEF AppendStarted, AppendEvent, Written, LineWritten, Appending
  <2>3. PairsInv'
    BY <1>0, <2>1 DEF TruthInv, PairsInv, Unwritten, InLoop, BeforeCall
  <2>4. RecordInv' /\ GateInv'
    BY <2>1, FreshGate DEF RecordInv, AfterCall
  <2> QED
    BY <2>1, <2>2, <2>3, <2>4, WrittenTrue DEF TruthInv
<1>5. CASE BodyStep
  <2>1. /\ UNCHANGED << log, called, index, pairs >>
        /\ pc \in InLoop \ {"stop_check", "append_terminal"}
        /\ pc' \in InLoop \ {"stop_check", "append_terminal"}
        /\ pc' \in (AfterCall \ {"abandon"}) \cup {"write"} =>
             pc \in (AfterCall \ {"abandon"}) \cup {"write"}
    <3> USE DEF InWorkspace, InLoop, BeforeCall, AfterCall, Concluded
    <3>1. CASE PrepareWorkspace \/ InvokeProvider \/ AfterFailure \/ JudgeOutput \/ CollectDiff
      BY <3>1 DEF PrepareWorkspace, InvokeProvider, AfterFailure, JudgeOutput, CollectDiff
    <3>2. CASE PrepareGates \/ StartGate \/ GateNotStarted \/ Conclude \/ RemoveWorkspace
      BY <3>2 DEF PrepareGates, StartGate, GateNotStarted, Conclude, RemoveWorkspace
    <3>3. CASE GateEnds
      BY <3>3 DEF GateEnds
    <3> QED
      BY <1>5, <3>1, <3>2, <3>3 DEF BodyStep
  <2>2. GateInv' /\ run'.codex = run.codex
    BY <1>5, BodyRun DEF TruthInv
  <2>3. RecordInv'
    BY <2>1, <2>2 DEF TruthInv, RecordInv
  <2>4. PairsInv'
    BY <1>0, <2>1 DEF TruthInv, PairsInv, Unwritten, InLoop, BeforeCall, AfterCall, Concluded
  <2> QED
    BY <2>1, <2>2, <2>3, <2>4, WrittenTrue DEF TruthInv
<1>6. CASE ProviderStep
  <2>1. /\ pc \in {"provider", "running"} /\ pc' \in AfterCall \ {"gate_running"}
        /\ UNCHANGED << log, index >>
        /\ \E k \in 0 .. 1 : called' = [called EXCEPT ![index] = called[index] + k]
    BY <1>6, ProviderFacts
  <2>2. UNCHANGED pairs
    BY <1>6, ProviderHandsOver DEF Receive, Abandon
  <2>3. index \in Runs /\ called[index] = 0
    BY <1>0, <2>1 DEF CallInv, Uncalled, InLoop, BeforeCall
  <2>4. TerminalLineIsTrue'
    BY <1>0, <2>1, <2>2, <2>3, OthersTrue DEF InLoop, BeforeCall
  <2>5. PairsInv'
    BY <1>0, <2>1, <2>2
    DEF TruthInv, PairsInv, Unwritten, InLoop, BeforeCall, AfterCall, Concluded
  <2>6. CASE UNCHANGED run /\ pc' = "abandon"
    BY <2>1, <2>4, <2>5, <2>6 DEF TruthInv, GateInv, RecordInv
  <2>7. ASSUME NEW e, NEW began,
               (e.execution = "provider_invocation_attempted") <=> e.invocation # "not_attempted",
               run' = [run EXCEPT !.codex = Summary(e), !.codexBegan = began,
                                  !.codexEnded = clock],
               called' = [called EXCEPT ![index] =
                            @ + (IF e.invocation = "not_attempted" THEN 0 ELSE 1)]
        PROVE  TruthInv'
    <3>1. run'.codex = Summary(e) /\ Summary(e).execution = e.execution
      BY <2>7 DEF TruthInv, GateInv, Fields, Summary
    <3>2. called'[index'] = CallsOf(run'.codex)
      BY <1>0, <2>1, <2>3, <2>7, <3>1 DEF CallsOf
    <3>3. GateInv'
      BY <2>1, <2>7 DEF TruthInv, GateInv, Fields
    <3> QED
      BY <2>1, <2>4, <2>5, <3>2, <3>3 DEF TruthInv, RecordInv, AfterCall
  <2> QED
    BY <1>6, <2>6, <2>7, ReceivedCalls
<1>7. CASE WriteOutputs
  <2>1. /\ UNCHANGED << log, called >> /\ pc = "write" /\ index \in Runs
        /\ \A r \in Runs : r # index => pairs'[r] = pairs[r]
        /\ DOMAIN pairs' = Runs
    BY <1>0, <1>7 DEF WriteOutputs, InLoop, Concluded, BeforeCall
  <2>2. TerminalLineIsTrue'
    BY <2>1, OthersTrue DEF InLoop, Concluded
  <2>3. CASE Leave
    BY <1>0, <2>1, <2>2, <2>3, ExitTruth
  <2>4. CASE /\ run' = Completes /\ pairs' = [pairs EXCEPT ![index] = PairOf(run)]
             /\ pc' = "append_terminal" /\ UNCHANGED index
    <3>1. /\ run'.codex = run.codex /\ run'.commands = run.commands /\ run'.kind = run.kind
          /\ run'.launched = run.launched /\ Fields \subseteq DOMAIN run'
      BY <2>4 DEF TruthInv, GateInv, Fields, Completes
    <3>2. PairOf(run) # NoPair
      <4>1. "overall" \in DOMAIN PairOf(run) /\ "overall" \notin DOMAIN NoPair
        BY DEF PairOf, NoPair
      <4> QED
        BY <4>1
    <3>3. Agrees(pairs[index])'
      BY <1>0, <2>1, <2>4, <3>1, <3>2 DEF Agrees, PairOf, GateExecuted
    <3>4. called[index] = CallsOf(run.codex)
      BY <2>1 DEF TruthInv, RecordInv
    <3>5. RecordInv'
      BY <2>1, <2>4, <3>1, <3>3, <3>4 DEF RecordInv
    <3>6. GateInv'
      BY <2>1, <2>4, <3>1 DEF TruthInv, GateInv
    <3>7. PairsInv'
      BY <1>0, <2>1, <2>4 DEF TruthInv, PairsInv, Unwritten, InLoop, Concluded
    <3> QED
      BY <2>2, <3>5, <3>6, <3>7 DEF TruthInv
  <2> QED
    BY <1>7, <2>3, <2>4 DEF WriteOutputs
<1>8. CASE AppendTerminal
  <2>1. /\ UNCHANGED << pairs, called, index, run >>
        /\ pc = "append_terminal" /\ pc' = "stop_check"
    BY <1>8 DEF AppendTerminal
  <2>2. log' \in Written /\ pc \in Appending
    BY <1>8, <2>1 DEF AppendTerminal, AppendEvent, Written, LineWritten, Appending
  <2>3. PairsInv'
    BY <1>0, <2>1 DEF TruthInv, PairsInv, Unwritten, InLoop, Concluded
  <2>4. RecordInv' /\ GateInv'
    BY <2>1 DEF TruthInv, GateInv, RecordInv, AfterCall
  <2> QED
    BY <2>1, <2>2, <2>3, <2>4, WrittenTrue DEF TruthInv
<1>9. CASE StopCheck
  <2>1. /\ UNCHANGED << log, pairs, called, nextIndex >> /\ pc = "stop_check"
        /\ run' = [FreshRun EXCEPT !.began = 0]
        /\ \/ index' = index + 1 /\ pc' = "check"
           \/ pc' = "tail"
    BY <1>9 DEF StopCheck
  <2>2. \A r \in Runs : r > index => pairs[r] = NoPair
    BY <2>1 DEF TruthInv, PairsInv, Unwritten, InLoop, Concluded
  <2>3. nextIndex = index + 1
    BY <2>1 DEF StopInv, CurrentRun
  <2>4. PairsInv'
    BY <1>0, <2>1, <2>2, <2>3
    DEF PairsInv, Unwritten, InLoop, BeforeCall, AfterCall, Concluded
  <2>5. RecordInv' /\ GateInv'
    BY <2>1, FreshGate DEF RecordInv, AfterCall
  <2> QED
    BY <2>1, <2>4, <2>5, WrittenTrue DEF TruthInv
<1>10. CASE AppendNotRun \/ AppendFinished
  <2>1. /\ UNCHANGED << pairs, called, run, stop >> /\ pc = "tail" /\ pc' \in {"tail", "reload"}
        /\ pc' = "tail" => nextIndex' = nextIndex + 1
    BY <1>10 DEF AppendNotRun, AppendFinished
  <2>2. log' \in Written /\ pc \in Appending
    BY <1>0, <1>10, <2>1
    DEF AppendNotRun, AppendFinished, AppendEvent, Written, LineWritten, Appending
  <2>3. PairsInv'
    BY <1>0, <2>1 DEF TruthInv, PairsInv, InLoop, BeforeCall, AfterCall, Concluded
  <2>4. RecordInv' /\ GateInv'
    BY <2>1 DEF TruthInv, GateInv, RecordInv, AfterCall
  <2> QED
    BY <2>1, <2>2, <2>3, <2>4, WrittenTrue DEF TruthInv
<1>11. CASE AppendFails
  <2>1. pc \in Appending /\ log' \in Written /\ UNCHANGED << pairs, called >> /\ Leave
    BY <1>11 DEF AppendFails
  <2> QED
    BY <1>0, <2>1, WrittenTrue, ExitTruth
<1>12. CASE Invoke
  <2>1. UNCHANGED << log, pairs, called, run >> /\ pc = "idle" /\ pc' = "create"
    BY <1>12 DEF Invoke
  <2>2. GateInv' /\ PairsInv' /\ RecordInv'
    BY <2>1 DEF TruthInv, GateInv, PairsInv, RecordInv, InLoop, BeforeCall, AfterCall, Concluded
  <2> QED
    BY <2>1, <2>2, WrittenTrue DEF TruthInv
<1>13. CASE Interrupt \/ Crash
  <2>1. /\ Leave
        /\ log' = log \/ (pc \in Appending /\ log' \in Written)
        /\ \/ called' = called
           \/ pc = "running" /\ called' = [called EXCEPT ![index] = called[index] + 1]
        /\ \/ pairs' = pairs
           \/ pc = "write" /\ pairs' = [pairs EXCEPT ![index] = PairOf(run)]
    BY <1>13 DEF Interrupt, Crash
  <2>2. CASE pc \in {"running", "write"}
    <3>1. log' = log /\ DOMAIN pairs' = Runs
          /\ \A r \in Runs : r # index => called'[r] = called[r] /\ pairs'[r] = pairs[r]
      BY <1>0, <2>1, <2>2 DEF Appending
    <3>2. TerminalLineIsTrue'
      BY <2>2, <3>1, OthersTrue DEF InLoop, BeforeCall, Concluded
    <3>3. log' = << >> => log = << >> /\ UNCHANGED pairs
      BY <1>0, <2>2
    <3> QED
      BY <2>1, <3>1, <3>2, <3>3, ExitTruth
  <2>3. CASE pc \notin {"running", "write"}
    <3>1. UNCHANGED << called, pairs >>
      BY <2>1, <2>3
    <3>2. TerminalLineIsTrue'
      BY <2>1, <3>1, WrittenTrue
    <3>3. DOMAIN pairs' = Runs /\ (log' = << >> => log = << >> /\ UNCHANGED pairs)
      BY <1>0, <3>1
    <3> QED
      BY <2>1, <3>2, <3>3, ExitTruth
  <2> QED
    BY <2>2, <2>3
<1>14. CASE SetClockBack \/ LateWrite \/ UNCHANGED vars
  <2>1. UNCHANGED << log, pairs, called, run, pc, index, nextIndex, stop >>
    BY <1>14 DEF SetClockBack, LateWrite, vars
  <2> QED
    BY <2>1 DEF TruthInv, GateInv, PairsInv, Unwritten, RecordInv, Agrees, TerminalLineIsTrue
<1> QED
  BY <1>1, <1>2, <1>3, <1>4, <1>5, <1>6, <1>7, <1>8, <1>9, <1>10, <1>11, <1>12, <1>13,
     <1>14 DEF Next, ProgramStep, Done, BodyStep, ProviderStep

(* The initial states satisfy it.                                          *)
LEMMA TruthInit ==
  ASSUME Init
  PROVE  TruthInv
<1>1. /\ log = << >> /\ pc = "idle" /\ run = FreshRun /\ pairs = [r \in Runs |-> NoPair]
  BY DEF Init
<1>2. GateInv
  BY <1>1 DEF GateInv, Fields, FreshRun
<1>3. PairsInv /\ RecordInv /\ TerminalLineIsTrue
  BY <1>1 DEF PairsInv, RecordInv, TerminalLineIsTrue, TerminalLines, InLoop, BeforeCall,
     AfterCall, Concluded
<1> QED
  BY <1>2, <1>3 DEF TruthInv

(* What a terminal line of the Campaign file says is true, in every state  *)
(* of every behaviour: it is right about the Provider call, the run it     *)
(* says ended has its pair with the same failure kind, calls and gates,    *)
(* gates it says ran were started, and a run it says was not run was       *)
(* neither called nor has a pair.                                          *)
THEOREM TerminalLinesAreTrue == Spec => []TerminalLineIsTrue
<1>1. Init => StopInv /\ TruthInv
  BY StopInit, TruthInit
<1>2. IInv /\ StopInv /\ TruthInv /\ [Next]_vars => (StopInv /\ TruthInv)'
  BY StopStep, TruthStep
<1>3. TruthInv => TerminalLineIsTrue
  BY DEF TruthInv
<1> QED
  BY <1>1, <1>2, <1>3, Inductive, PTL DEF Spec

-----------------------------------------------------------------------------
(* Quality verdicts.                                                       *)

VerdictFields ==
  {"commands", "launched", "gatesAt", "secureAt", "diffAt", "harness", "overall"}
BeforeGates ==
  {"prepare", "provider", "running", "after_failure", "judge", "diff", "prepare_gates"}
Gating == {"gate", "gate_running", "after_gates"}

(* The versions of the Workspace the policy, the diff and the gates saw    *)
(* only grow: if it is the first one in the end, they are all the same.    *)
VersionsInv ==
  /\ tree \in Nat
  /\ pc \in {"diff", "prepare_gates"} \cup Gating =>
       run.secureAt \in Nat /\ run.secureAt <= tree
  /\ pc \in {"prepare_gates"} \cup Gating =>
       run.diffAt \in Nat /\ run.secureAt <= run.diffAt /\ run.diffAt <= tree
  /\ pc \in Gating =>
       \A v \in run.gatesAt : v \in Nat /\ run.secureAt <= v /\ v <= tree

(* Without a harness failure the commands are the first of the gates, all  *)
(* ended by themselves.                                                    *)
InGateOrder ==
  /\ run.commands \in Seq({run.commands[i] : i \in DOMAIN run.commands})
  /\ \A i \in 1 .. Len(run.commands) :
       run.commands[i].gate = Gates[i] /\ Normal(run.commands[i])
CommandsInv ==
  /\ VerdictFields \subseteq DOMAIN run
  /\ pc \in BeforeGates =>
       /\ run.launched = 0 /\ run.gatesAt = {} /\ run.commands = << >>
       /\ run.harness = "none" /\ run.overall = "harness_error"
  /\ pc \in {"gate", "gate_running"} =>
       /\ run.harness = "none" /\ InGateOrder /\ Len(run.commands) < Len(Gates)
       /\ run.launched = Len(run.commands) + (IF pc = "gate_running" THEN 1 ELSE 0)
  /\ pc = "gate_running" => run.gatesAt # {}
  /\ pc = "after_gates" /\ run.harness = "none" =>
       /\ InGateOrder /\ Len(run.commands) = Len(Gates) /\ run.launched = Len(Gates)
       /\ run.gatesAt # {}

VerdictInv == VersionsInv /\ CommandsInv /\ QualityVerdictIsEarned

(* Outside the loop body, and where the run has no quality verdict, it is  *)
(* enough that the record is one.                                          *)
LEMMA OutsideVerdict ==
  ASSUME tree' \in Nat, VerdictFields \subseteq DOMAIN run',
         pc' \notin BeforeGates \cup Gating,
         pc' \in {"remove", "write"} => run'.overall \notin QualityStatuses
  PROVE  VerdictInv'
BY DEF VerdictInv, VersionsInv, CommandsInv, QualityVerdictIsEarned, BeforeGates, Gating

(* A failure after the Provider is no quality verdict.                     *)
LEMMA FailureIsNone ==
  ASSUME VerdictFields \subseteq DOMAIN run
  PROVE  \A commands : LET f == PostCodexFailure(commands) IN
           VerdictFields \subseteq DOMAIN f /\ f.overall \notin QualityStatuses
BY DEF PostCodexFailure, Judged, VerdictFields, QualityStatuses

(* A gate command that ended by itself is the next of the gates.           *)
LEMMA GateEndsStep ==
  ASSUME VerdictInv, GateEnds
  PROVE  VerdictInv'
<1>0. /\ pc = "gate_running" /\ run.harness = "none" /\ InGateOrder
      /\ Len(run.commands) < Len(Gates)
      /\ run.launched = Len(run.commands) + 1 /\ run.gatesAt # {}
      /\ VerdictFields \subseteq DOMAIN run /\ tree \in Nat
  BY DEF GateEnds, VerdictInv, CommandsInv, VersionsInv
<1>l. Len(run.commands) \in Nat /\ Len(Gates) \in Nat
  BY <1>0, GatesAssumption DEF InGateOrder
<1>1. PICK c \in CommandResults :
        LET command == [gate |-> Gates[Len(run.commands) + 1], status |-> c.status,
                        cleared |-> c.cleared]
            recorded == [run EXCEPT !.commands = Append(@, command),
                                    !.inOrder = @ /\ run.codexEnded <= run.gateBegan,
                                    !.gatesEnded = clock]
            harness == IF c.harness = "none" THEN "evidence_error" ELSE c.harness IN
        \/ run' = PostCodexFailure(<< >>) /\ pc' = "remove"
        \/ \E toolchain \in BOOLEAN :
             run' = Collect(recorded, harness, toolchain) /\ pc' = "after_gates"
        \/ /\ c.harness = "none" /\ c.status \in Completed /\ run' = recorded
           /\ pc' = IF Len(recorded.commands) = Len(Gates) THEN "after_gates" ELSE "gate"
  BY DEF GateEnds, Goto
<1> DEFINE command == [gate |-> Gates[Len(run.commands) + 1], status |-> c.status,
                       cleared |-> c.cleared]
           recorded == [run EXCEPT !.commands = Append(@, command),
                                   !.inOrder = @ /\ run.codexEnded <= run.gateBegan,
                                   !.gatesEnded = clock]
           harness == IF c.harness = "none" THEN "evidence_error" ELSE c.harness
<1>2. tree' \in Nat /\ tree <= tree'
  <2>1. tree' \in {tree, tree + 1}
    BY DEF GateEnds
  <2> QED
    BY <1>0, <2>1
<1>h. harness # "none"
  OBVIOUS
<1>e. \/ run' = PostCodexFailure(<< >>) /\ pc' = "remove"
      \/ \E toolchain \in BOOLEAN :
           run' = Collect(recorded, harness, toolchain) /\ pc' = "after_gates"
      \/ /\ c.harness = "none" /\ c.status \in Completed /\ run' = recorded
         /\ pc' = IF Len(recorded.commands) = Len(Gates) THEN "after_gates" ELSE "gate"
  BY <1>1
<1>3. /\ VerdictFields \subseteq DOMAIN recorded
      /\ recorded.commands = Append(run.commands, command) /\ recorded.harness = run.harness
      /\ recorded.launched = run.launched /\ recorded.gatesAt = run.gatesAt
      /\ recorded.secureAt = run.secureAt /\ recorded.diffAt = run.diffAt
  BY <1>0 DEF VerdictFields
<1>c. /\ command.gate = Gates[Len(run.commands) + 1] /\ command.status = c.status
      /\ command.cleared = c.cleared
  OBVIOUS
<1> HIDE DEF command, recorded, harness
<1>v. ASSUME VerdictFields \subseteq DOMAIN run', run'.gatesAt = run.gatesAt,
             run'.secureAt = run.secureAt, run'.diffAt = run.diffAt, pc' \in Gating
      PROVE  VersionsInv'
  BY <1>0, <1>2, <1>v DEF VerdictInv, VersionsInv, Gating
<1>4. CASE run' = PostCodexFailure(<< >>) /\ pc' = "remove"
  BY <1>0, <1>2, <1>4, FailureIsNone, OutsideVerdict DEF BeforeGates, Gating
<1>5. CASE \E toolchain \in BOOLEAN :
             run' = Collect(recorded, harness, toolchain) /\ pc' = "after_gates"
  <2>1. /\ VerdictFields \subseteq DOMAIN run' /\ run'.harness # "none"
        /\ run'.gatesAt = run.gatesAt /\ run'.secureAt = run.secureAt
        /\ run'.diffAt = run.diffAt /\ pc' = "after_gates"
    BY <1>3, <1>5, <1>h DEF Collect, VerdictFields
  <2>2. VersionsInv'
    BY <1>v, <2>1 DEF Gating
  <2>3. CommandsInv' /\ QualityVerdictIsEarned'
    BY <2>1 DEF CommandsInv, QualityVerdictIsEarned, BeforeGates
  <2> QED
    BY <2>2, <2>3 DEF VerdictInv
<1>6. CASE /\ c.harness = "none" /\ c.status \in Completed /\ run' = recorded
           /\ pc' = IF Len(recorded.commands) = Len(Gates) THEN "after_gates" ELSE "gate"
  <2>1. Normal(command)
    BY <1>6, <1>c, GateResultsClear DEF Normal
  <2>3. InGateOrder' /\ Len(run'.commands) = Len(run.commands) + 1
    <3> DEFINE S == {run.commands[i] : i \in DOMAIN run.commands} \cup {command}
    <3>1. run'.commands = Append(run.commands, command) /\ run.commands \in Seq(S)
          /\ command \in S
      BY <1>0, <1>3, <1>6 DEF InGateOrder
    <3>2. /\ run'.commands \in Seq(S)
          /\ Len(run'.commands) = Len(run.commands) + 1
          /\ run'.commands[Len(run.commands) + 1] = command
          /\ \A i \in 1 .. Len(run.commands) : run'.commands[i] = run.commands[i]
      BY <3>1
    <3>4. run'.commands \in Seq({run'.commands[i] : i \in DOMAIN run'.commands})
      BY <3>2
    <3>3. \A i \in 1 .. Len(run'.commands) :
            i = Len(run.commands) + 1 \/ i \in 1 .. Len(run.commands)
      BY <1>l, <3>2
    <3> QED
      BY <1>0, <1>c, <2>1, <3>2, <3>3, <3>4 DEF InGateOrder, Normal
  <2>4. pc' = IF Len(run'.commands) = Len(Gates) THEN "after_gates" ELSE "gate"
    BY <1>6
  <2>5. VersionsInv'
    BY <1>3, <1>6, <1>v, <2>4 DEF Gating
  <2>6. CommandsInv'
    BY <1>0, <1>3, <1>6, <1>l, <2>3, <2>4 DEF CommandsInv, BeforeGates
  <2>7. QualityVerdictIsEarned'
    BY <2>4 DEF QualityVerdictIsEarned
  <2> QED
    BY <2>5, <2>6, <2>7 DEF VerdictInv
<1> QED
  BY <1>e, <1>4, <1>5, <1>6

(* The conclusion reaches a quality verdict only where it is earned.       *)
LEMMA ConcludeStep ==
  ASSUME VerdictInv, Conclude
  PROVE  VerdictInv'
<1>0. /\ pc = "after_gates" /\ pc' = "remove" /\ UNCHANGED tree
      /\ VerdictFields \subseteq DOMAIN run /\ tree \in Nat
  BY DEF Conclude, InWorkspace, Goto, VerdictInv, CommandsInv, VersionsInv
<1>1. CASE run.harness = "none" /\ Verified /\ run' = QualityVerdict
  <2>1. /\ VerdictFields \subseteq DOMAIN run' /\ run'.launched = run.launched
        /\ run'.commands = run.commands /\ run'.gatesAt = run.gatesAt
        /\ run'.secureAt = run.secureAt /\ run'.diffAt = run.diffAt
    BY <1>0, <1>1 DEF QualityVerdict, Judged, VerdictFields
  <2>2. /\ InGateOrder /\ Len(run.commands) = Len(Gates) /\ run.launched = Len(Gates)
        /\ run.gatesAt # {} /\ run.secureAt = tree
    BY <1>0, <1>1 DEF VerdictInv, CommandsInv, Verified
  <2>3. run.gatesAt = {run.secureAt} /\ run.diffAt = run.secureAt
    BY <1>0, <2>2 DEF VerdictInv, VersionsInv, Gating
  <2>4. [i \in DOMAIN run.commands |-> run.commands[i].gate] = Gates
    <3>1. DOMAIN run.commands = 1 .. Len(Gates) /\ Gates = [i \in 1 .. Len(Gates) |-> Gates[i]]
      BY <2>2, GatesAssumption DEF InGateOrder
    <3> QED
      BY <2>2, <3>1 DEF InGateOrder
  <2>5. \A c \in Elements(run.commands) : Normal(c)
    BY <2>2 DEF InGateOrder, Elements
  <2>6. QualityVerdictIsEarned'
    BY <2>1, <2>2, <2>3, <2>4, <2>5 DEF QualityVerdictIsEarned, Elements
  <2>7. VersionsInv' /\ CommandsInv'
    BY <1>0, <2>1 DEF VersionsInv, CommandsInv, BeforeGates, Gating
  <2> QED
    BY <2>6, <2>7 DEF VerdictInv
<1>2. CASE ~(run.harness = "none" /\ Verified /\ run' = QualityVerdict)
  <2>1. VerdictFields \subseteq DOMAIN run' /\ run'.overall \notin QualityStatuses
    <3>1. PICK verified \in {Verified, FALSE} :
            LET diff == IF verified THEN run.diff ELSE "incomplete" IN
            \/ run' = PostCodexFailure(run.commands)
            \/ run' = IF run.harness # "none"
                      THEN [HarnessVerdict(run) EXCEPT
                              !.diff = IF @ = "incomplete" THEN @ ELSE diff]
                      ELSE IF ~verified
                      THEN [Judged("harness_error", "evidence_error", "harness_failure", "none")
                            EXCEPT !.diff = diff]
                      ELSE IF run.diff = "binary" THEN PostCodexFailure(run.commands)
                      ELSE QualityVerdict
      BY DEF Conclude
    <3> DEFINE diff == IF verified THEN run.diff ELSE "incomplete"
    <3>7. verified => Verified
      OBVIOUS
    <3>8. \/ run' = [HarnessVerdict(run) EXCEPT !.diff = IF @ = "incomplete" THEN @ ELSE diff]
          \/ run' = [Judged("harness_error", "evidence_error", "harness_failure", "none")
                     EXCEPT !.diff = diff]
          \/ run' = PostCodexFailure(run.commands)
      BY <1>2, <3>1, <3>7
    <3> HIDE DEF diff
    <3>2. VerdictFields \subseteq DOMAIN HarnessVerdict(run)
          /\ HarnessVerdict(run).overall = "harness_error"
      BY <1>0 DEF HarnessVerdict, Judged, VerdictFields
    <3>3. \A kind, outcome, reason : LET j == Judged("harness_error", kind, outcome, reason) IN
            VerdictFields \subseteq DOMAIN j /\ j.overall = "harness_error"
      BY <1>0 DEF Judged, VerdictFields
    <3>4. CASE run' = [HarnessVerdict(run) EXCEPT !.diff = IF @ = "incomplete" THEN @ ELSE diff]
      BY <3>2, <3>4 DEF VerdictFields, QualityStatuses
    <3>5. CASE run' = [Judged("harness_error", "evidence_error", "harness_failure", "none")
                       EXCEPT !.diff = diff]
      BY <3>3, <3>5 DEF VerdictFields, QualityStatuses
    <3>6. CASE run' = PostCodexFailure(run.commands)
      BY <1>0, <3>6, FailureIsNone
    <3> QED
      BY <3>8, <3>4, <3>5, <3>6
  <2> QED
    BY <1>0, <2>1, OutsideVerdict DEF BeforeGates, Gating
<1> QED
  BY <1>1, <1>2

(* A step within the part before the gates changes nothing a verdict rests *)
(* on.                                                                     *)
LEMMA EarlyVerdict ==
  ASSUME VerdictInv, pc \in BeforeGates, tree' \in Nat, tree <= tree',
         VerdictFields \subseteq DOMAIN run',
         \A f \in VerdictFields \ {"secureAt", "diffAt"} : run'[f] = run[f],
         pc' \in {"provider", "running", "after_failure", "judge"}
  PROVE  VerdictInv'
BY DEF VerdictInv, VersionsInv, CommandsInv, QualityVerdictIsEarned, BeforeGates, Gating,
       VerdictFields

(* Every step keeps VerdictInv.                                            *)
LEMMA VerdictStep ==
  ASSUME IndexInv, VerdictInv, [Next]_vars
  PROVE  VerdictInv'
<1> USE DEF files, world, bounds, counters, ghosts, RunStep, AppendStep, Goto, InWorkspace
<1>0. tree \in Nat /\ VerdictFields \subseteq DOMAIN run
  BY DEF VerdictInv, VersionsInv, CommandsInv
<1>f. \A r \in {FreshRun, [FreshRun EXCEPT !.began = 0]} :
        /\ VerdictFields \subseteq DOMAIN r /\ r.launched = 0 /\ r.gatesAt = {}
        /\ r.commands = << >> /\ r.harness = "none" /\ r.overall = "harness_error"
  BY DEF FreshRun, VerdictFields
<1>1. CASE Leave
  BY <1>0, <1>1, <1>f, OutsideVerdict DEF Leave, BeforeGates, Gating
<1>2. CASE /\ UNCHANGED << tree, run >>
           /\ pc' \notin BeforeGates \cup Gating \cup {"remove", "write"}
  BY <1>0, <1>2, OutsideVerdict
<1>3. CASE CreateCampaign \/ BeginRun \/ StopForChangedInput \/ LoopEnds
  <2>1. UNCHANGED << tree, run >>
        /\ pc' \notin BeforeGates \cup Gating \cup {"remove", "write"}
    BY <1>3 DEF CreateCampaign, BeginRun, StopForChangedInput, LoopEnds, BeforeGates, Gating
  <2> QED
    BY <1>2, <2>1
<1>4. CASE AppendTerminal \/ AppendNotRun \/ AppendFinished \/ Invoke
  <2>1. UNCHANGED << tree, run >>
        /\ pc' \notin BeforeGates \cup Gating \cup {"remove", "write"}
    BY <1>4 DEF AppendTerminal, AppendNotRun, AppendFinished, Invoke, BeforeGates, Gating
  <2> QED
    BY <1>2, <2>1
<1>5. CASE Refuse \/ PrepareFails \/ AbandonRun \/ Reload \/ AppendFails \/ Interrupt \/ Crash
  BY <1>1, <1>5 DEF Refuse, PrepareFails, AbandonRun, Reload, AppendFails, Interrupt, Crash
<1>6. CASE AppendStarted
  <2>1. UNCHANGED tree /\ run' = FreshRun /\ pc' = "prepare"
    BY <1>6 DEF AppendStarted
  <2> QED
    BY <1>0, <1>f, <2>1
    DEF VerdictInv, VersionsInv, CommandsInv, QualityVerdictIsEarned, BeforeGates, Gating
<1>7. CASE PrepareWorkspace \/ InvokeProvider
  <2>1. /\ UNCHANGED tree /\ pc \in BeforeGates /\ pc' \in {"provider", "running"}
        /\ VerdictFields \subseteq DOMAIN run'
        /\ \A f \in VerdictFields : run'[f] = run[f]
    BY <1>0, <1>7 DEF PrepareWorkspace, InvokeProvider, BeforeGates, VerdictFields
  <2> QED
    BY <1>0, <2>1, EarlyVerdict
<1>8. CASE ProviderStep
  <2>1. pc \in BeforeGates
    BY <1>8, ProviderHandsOver DEF BeforeGates
  <2>2. CASE \E invocation, cleared : Abandon(invocation, cleared)
    <3>1. UNCHANGED << tree, run >> /\ pc' = "abandon"
      BY <2>2 DEF Abandon
    <3> QED
      BY <1>2, <3>1 DEF BeforeGates, Gating
  <2>3. CASE \E e, began : \E next \in {"after_failure", "judge"} : Receive(e, began, next)
    <3>1. PICK e, began : \E next \in {"after_failure", "judge"} : Receive(e, began, next)
      BY <2>3
    <3>2. /\ run' = [run EXCEPT !.codex = Summary(e), !.codexBegan = began,
                                !.codexEnded = clock]
          /\ UNCHANGED tree /\ pc' \in {"after_failure", "judge"}
      BY <3>1 DEF Receive
    <3>3. /\ VerdictFields \subseteq DOMAIN run'
          /\ \A f \in VerdictFields : run'[f] = run[f]
      BY <1>0, <3>2 DEF VerdictFields
    <3> QED
      BY <1>0, <2>1, <3>2, <3>3, EarlyVerdict
  <2> QED
    BY <1>8, <2>2, <2>3, ProviderHandsOver
<1>12. CASE run' = PostCodexFailure(<< >>) /\ pc' = "remove" /\ UNCHANGED tree
  BY <1>0, <1>12, FailureIsNone, OutsideVerdict DEF BeforeGates, Gating
<1>9. CASE AfterFailure
  <2>0. UNCHANGED tree /\ pc' = "remove"
    BY <1>9 DEF AfterFailure
  <2>1. CASE run' # PostCodexFailure(<< >>)
    <3>1. VerdictFields \subseteq DOMAIN run' /\ run'.overall \notin QualityStatuses
      BY <1>0, <1>9, <2>1
      DEF AfterFailure, ProviderTerminal, Judged, VerdictFields, QualityStatuses
    <3> QED
      BY <1>0, <2>0, <3>1, OutsideVerdict DEF BeforeGates, Gating
  <2> QED
    BY <1>12, <2>0, <2>1
<1>10. CASE JudgeOutput
  <2>1. CASE run' = [run EXCEPT !.secureAt = tree] /\ pc' = "diff" /\ UNCHANGED tree
    BY <1>0, <1>10, <2>1
    DEF JudgeOutput, VerdictInv, VersionsInv, CommandsInv, QualityVerdictIsEarned,
        BeforeGates, Gating, VerdictFields
  <2>2. CASE run' = [Rejected EXCEPT !.diff = "rejected"] /\ pc' = "remove" /\ UNCHANGED tree
    <3>1. VerdictFields \subseteq DOMAIN run' /\ run'.overall \notin QualityStatuses
      BY <1>0, <2>2 DEF Rejected, Judged, VerdictFields, QualityStatuses
    <3> QED
      BY <1>0, <2>2, <3>1, OutsideVerdict DEF BeforeGates, Gating
  <2> QED
    BY <1>10, <1>12, <2>1, <2>2 DEF JudgeOutput
<1>11. CASE CollectDiff
  <2>0. pc = "diff" /\ UNCHANGED tree
    BY <1>11 DEF CollectDiff
  <2>1. CASE run' = run /\ pc' = "remove"
    <3>1. run.overall \notin QualityStatuses
      BY <2>0 DEF VerdictInv, CommandsInv, BeforeGates, QualityStatuses
    <3> QED
      BY <1>0, <2>0, <2>1, <3>1, OutsideVerdict DEF BeforeGates, Gating
  <2>2. ASSUME NEW d, run' = [Rejected EXCEPT !.diff = d], pc' = "remove"
        PROVE  VerdictInv'
    <3>1. VerdictFields \subseteq DOMAIN run' /\ run'.overall \notin QualityStatuses
      BY <1>0, <2>2 DEF Rejected, Judged, VerdictFields, QualityStatuses
    <3> QED
      BY <1>0, <2>0, <2>2, <3>1, OutsideVerdict DEF BeforeGates, Gating
  <2>3. ASSUME NEW d, run' = [run EXCEPT !.diff = d, !.diffAt = tree], pc' = "prepare_gates"
        PROVE  VerdictInv'
    BY <1>0, <2>0, <2>3
    DEF VerdictInv, VersionsInv, CommandsInv, QualityVerdictIsEarned, BeforeGates, Gating,
        VerdictFields
  <2> QED
    BY <1>11, <2>1, <2>2, <2>3 DEF CollectDiff
<1>13. CASE PrepareGates
  <2>1. CASE UNCHANGED run /\ pc' = "gate" /\ UNCHANGED tree /\ pc = "prepare_gates"
    <3>1. Len(Gates) \in Nat /\ Len(Gates) > 0
      BY GatesAssumption
    <3>2. /\ run.launched = 0 /\ run.gatesAt = {} /\ run.commands = << >>
          /\ run.harness = "none"
      BY <2>1 DEF VerdictInv, CommandsInv, BeforeGates
    <3>3. InGateOrder' /\ Len(run'.commands) = 0
      BY <2>1, <3>2 DEF InGateOrder
    <3> QED
      BY <1>0, <2>1, <3>1, <3>2, <3>3
      DEF VerdictInv, VersionsInv, CommandsInv, QualityVerdictIsEarned, BeforeGates, Gating
  <2> QED
    BY <1>12, <1>13, <2>1 DEF PrepareGates
<1>14. CASE StartGate
  <2>1. /\ run' = [run EXCEPT !.gateBegan = clock, !.launched = @ + 1,
                              !.gatesAt = @ \cup {tree}]
        /\ pc = "gate" /\ pc' = "gate_running" /\ UNCHANGED tree
    BY <1>14 DEF StartGate
  <2>2. /\ VerdictFields \subseteq DOMAIN run' /\ run'.commands = run.commands
        /\ run'.launched = run.launched + 1 /\ run'.gatesAt = run.gatesAt \cup {tree}
        /\ run'.secureAt = run.secureAt /\ run'.diffAt = run.diffAt
        /\ run'.harness = run.harness
    BY <1>0, <2>1 DEF VerdictFields
  <2>3. VersionsInv'
    BY <2>1, <2>2 DEF VerdictInv, VersionsInv, Gating
  <2>4. CommandsInv'
    BY <2>1, <2>2 DEF VerdictInv, CommandsInv, InGateOrder, BeforeGates
  <2> QED
    BY <2>1, <2>3, <2>4 DEF VerdictInv, QualityVerdictIsEarned
<1>15. CASE GateNotStarted
  <2>1. CASE run' = Collect(run, "evidence_error", TRUE) /\ pc' = "after_gates"
             /\ UNCHANGED tree /\ pc = "gate"
    <3>1. /\ VerdictFields \subseteq DOMAIN run' /\ run'.harness = "evidence_error"
          /\ run'.gatesAt = run.gatesAt /\ run'.secureAt = run.secureAt
          /\ run'.diffAt = run.diffAt
      BY <1>0, <2>1 DEF Collect, VerdictFields
    <3> QED
      BY <2>1, <3>1
      DEF VerdictInv, VersionsInv, CommandsInv, QualityVerdictIsEarned, BeforeGates, Gating
  <2> QED
    BY <1>12, <1>15, <2>1 DEF GateNotStarted
<1>16. CASE GateEnds
  BY <1>16, GateEndsStep
<1>17. CASE Conclude
  BY <1>17, ConcludeStep
<1>18. CASE RemoveWorkspace
  <2>1. PICK lifecycle :
          /\ pc = "remove" /\ pc' = "write" /\ tree' = 0
          /\ \/ \E reason : run' =
                  [[Judged("harness_error", "process_cleanup_error", "cleanup_failure", reason)
                    EXCEPT !.metrics = "none"] EXCEPT !.workspace = lifecycle]
             \/ run' = [run EXCEPT !.workspace = lifecycle]
    BY <1>18 DEF RemoveWorkspace
  <2>2. CASE run' = [run EXCEPT !.workspace = lifecycle]
    <3>1. VerdictFields \subseteq DOMAIN run' /\ \A f \in VerdictFields : run'[f] = run[f]
      BY <1>0, <2>2 DEF VerdictFields
    <3>2. QualityVerdictIsEarned'
      BY <2>1, <3>1 DEF VerdictInv, QualityVerdictIsEarned, VerdictFields
    <3> QED
      BY <2>1, <3>1, <3>2 DEF VerdictInv, VersionsInv, CommandsInv, BeforeGates, Gating
  <2>3. ASSUME NEW reason,
               run' =
                 [[Judged("harness_error", "process_cleanup_error", "cleanup_failure", reason)
                   EXCEPT !.metrics = "none"] EXCEPT !.workspace = lifecycle]
        PROVE  VerdictInv'
    <3>1. VerdictFields \subseteq DOMAIN run' /\ run'.overall \notin QualityStatuses
      BY <1>0, <2>3 DEF Judged, VerdictFields, QualityStatuses
    <3> QED
      BY <2>1, <3>1, OutsideVerdict DEF BeforeGates, Gating
  <2> QED
    BY <2>1, <2>2, <2>3
<1>19. CASE WriteOutputs
  <2>1. CASE run' = Completes /\ pc' = "append_terminal" /\ UNCHANGED tree
    <3>1. VerdictFields \subseteq DOMAIN run'
      BY <1>0, <2>1 DEF Completes
    <3> QED
      BY <1>0, <2>1, <3>1, OutsideVerdict DEF BeforeGates, Gating
  <2> QED
    BY <1>1, <1>19, <2>1 DEF WriteOutputs
<1>20. CASE StopCheck
  <2>1. /\ UNCHANGED tree /\ run' = [FreshRun EXCEPT !.began = 0]
        /\ pc' \in {"check", "tail"}
    BY <1>20 DEF StopCheck
  <2> QED
    BY <1>0, <1>f, <2>1, OutsideVerdict DEF BeforeGates, Gating
<1>21. CASE SetClockBack \/ UNCHANGED vars
  <2>1. UNCHANGED << tree, run, pc >>
    BY <1>21 DEF SetClockBack, vars
  <2> QED
    BY <2>1 DEF VerdictInv, VersionsInv, CommandsInv, InGateOrder, QualityVerdictIsEarned
<1>22. CASE LateWrite
  <2>1. tree' = tree + 1 /\ UNCHANGED << run, pc >>
    BY <1>22 DEF LateWrite
  <2>2. VersionsInv'
    BY <2>1 DEF VerdictInv, VersionsInv
  <2>3. CommandsInv' /\ QualityVerdictIsEarned'
    BY <2>1 DEF VerdictInv, CommandsInv, InGateOrder, QualityVerdictIsEarned
  <2> QED
    BY <2>2, <2>3 DEF VerdictInv
<1> QED
  BY <1>3, <1>4, <1>5, <1>6, <1>7, <1>8, <1>9, <1>10, <1>11, <1>13, <1>14, <1>15, <1>16,
     <1>17, <1>18, <1>19, <1>20, <1>21, <1>22 DEF Next, ProgramStep, Done, ProviderStep

(* The initial states satisfy it.                                          *)
LEMMA VerdictInit ==
  ASSUME Init
  PROVE  VerdictInv
BY DEF Init, FreshRun, VerdictInv, VersionsInv, CommandsInv, QualityVerdictIsEarned,
       VerdictFields, BeforeGates, Gating

(* A quality verdict of a run is earned, for any gates and however the     *)
(* Workspace changes beside the program: every gate was started and ended  *)
(* by itself, and the policy, the diff and every gate saw the same tree.   *)
THEOREM VerdictIsEarned == Spec => []QualityVerdictIsEarned
<1>1. Init => VerdictInv
  BY VerdictInit
<1>2. IInv /\ VerdictInv /\ [Next]_vars => VerdictInv'
  BY VerdictStep DEF IInv
<1>3. VerdictInv => QualityVerdictIsEarned
  BY DEF VerdictInv
<1> QED
  BY <1>1, <1>2, <1>3, Inductive, PTL DEF Spec

-----------------------------------------------------------------------------
(* The refinement of CampaignJournal, as long as no write came up short.   *)

(* What a file says of a run: JournalPhase, for any file.                  *)
PhaseIn(f, r) ==
  IF NotRunIn(f, r) THEN "not_run"
  ELSE IF EndedIn(f, r) THEN "ended"
  ELSE IF StartedIn(f, r) THEN "started" ELSE "planned"

Working == InLoop \ {"check", "append_started", "stop_check"}

(* A running invocation works on an open Campaign, until its last line.    *)
FileOpen == pc \notin {"idle", "create", "reload"} => log # << >> /\ ~FinishedIn(log)

(* The file says of every run what the location of the program implies; a  *)
(* tail without a stop reason has no run left.                             *)
PhasesFit ==
  /\ pc \in InLoop => \A r \in Runs :
       /\ r < index => PhaseIn(log, r) = "ended"
       /\ r > index => PhaseIn(log, r) = "planned"
  /\ pc \in {"check", "append_started"} =>
       \A r \in Runs : r = index => PhaseIn(log, r) = "planned"
  /\ pc \in Working => PhaseIn(log, index) = "started"
  /\ pc = "stop_check" => PhaseIn(log, index) = "ended"
  /\ pc = "tail" => \A r \in Runs :
       /\ stop = "none" \/ r < nextIndex => PhaseIn(log, r) \in {"ended", "not_run"}
       /\ stop # "none" /\ r >= nextIndex => PhaseIn(log, r) = "planned"

RefInv ==
  /\ shortWrites \in Nat
  /\ shortWrites = 0 => FileOpen /\ PhasesFit

(* The new line counts beside the old ones.                                *)
LEMMA AppendExists ==
  ASSUME FileInv, NEW e, NEW r
  PROVE  LET g == Append(log, e) IN
         /\ g # << >>
         /\ NotRunIn(g, r) <=> NotRunIn(log, r) \/ (IsTerminal(e, r) /\ e.status = "not_run")
         /\ EndedIn(g, r) <=> EndedIn(log, r) \/ (IsTerminal(e, r) /\ e.status # "not_run")
         /\ StartedIn(g, r) <=> StartedIn(log, r) \/ IsStarted(e, r)
         /\ FinishedIn(g) <=> FinishedIn(log) \/ e.type = "campaign_finished"
<1> DEFINE S == {log[i] : i \in DOMAIN log} \cup {e}
           g == Append(log, e)
<1>0. log \in Seq(S) /\ e \in S
  BY DEF FileInv
<1> HIDE DEF S
<1>1. /\ g # << >> /\ Len(log) \in Nat
      /\ DOMAIN log = 1 .. Len(log) /\ DOMAIN g = 1 .. Len(log) + 1
      /\ g[Len(log) + 1] = e /\ \A i \in DOMAIN log : g[i] = log[i]
  BY <1>0
<1>2. \A i : i \in DOMAIN g <=> i \in DOMAIN log \/ i = Len(log) + 1
  BY <1>1
<1> HIDE DEF g
<1>3. NotRunIn(g, r) <=> NotRunIn(log, r) \/ (IsTerminal(e, r) /\ e.status = "not_run")
  BY <1>1, <1>2 DEF NotRunIn
<1>4. EndedIn(g, r) <=> EndedIn(log, r) \/ (IsTerminal(e, r) /\ e.status # "not_run")
  BY <1>1, <1>2 DEF EndedIn
<1>5. StartedIn(g, r) <=> StartedIn(log, r) \/ IsStarted(e, r)
  BY <1>1, <1>2 DEF StartedIn
<1>6. FinishedIn(g) <=> FinishedIn(log) \/ e.type = "campaign_finished"
  BY <1>1, <1>2 DEF FinishedIn
<1> QED
  BY <1>1, <1>3, <1>4, <1>5, <1>6 DEF g

(* A line that is no event of a run changes no phase.                      *)
LEMMA AppendOther ==
  ASSUME FileInv, NEW e, NEW r, e.type # "run_state" \/ e.run # r
  PROVE  PhaseIn(Append(log, e), r) = PhaseIn(log, r)
BY AppendExists DEF PhaseIn, IsStarted, IsTerminal, IsRunEvent

(* A line about a run moves it to the phase the line names.                *)
LEMMA AppendMoves ==
  ASSUME FileInv, NEW e, NEW r, e.type = "run_state", e.run = r
  PROVE  /\ e.status = "started" /\ PhaseIn(log, r) = "planned" =>
              PhaseIn(Append(log, e), r) = "started"
         /\ e.status = "not_run" => PhaseIn(Append(log, e), r) = "not_run"
         /\ e.status \notin {"started", "not_run"} /\ PhaseIn(log, r) = "started" =>
              PhaseIn(Append(log, e), r) = "ended"
BY AppendExists DEF PhaseIn, IsStarted, IsTerminal, IsRunEvent

(* The line the program writes next, by its location.                      *)
LEMMA NextLine ==
  /\ pc = "create" => LineWritten.type = "campaign_started"
  /\ pc = "append_started" =>
       /\ LineWritten.type = "run_state" /\ LineWritten.run = index
       /\ LineWritten.status = "started"
  /\ pc = "append_terminal" =>
       /\ LineWritten.type = "run_state" /\ LineWritten.run = index
       /\ LineWritten.status \notin {"started", "not_run"}
  /\ pc = "tail" /\ stop # "none" /\ nextIndex <= RunCount =>
       /\ LineWritten.type = "run_state" /\ LineWritten.run = nextIndex
       /\ LineWritten.status = "not_run"
  /\ pc = "tail" /\ ~(stop # "none" /\ nextIndex <= RunCount) =>
       LineWritten.type = "campaign_finished"
BY DEF LineWritten, CampaignStarted, StartedEvent, TerminalLine, TerminalEvent, NotRunEvent,
       CampaignFinished

(* The refinement mapping, now and after a step.                           *)
LEMMA PhaseMap ==
  /\ JournalPhase = [r \in Runs |-> PhaseIn(log, r)]
  /\ JournalPhase' = [r \in Runs |-> PhaseIn(log', r)]
BY DEF JournalPhase, PhaseIn

(* A step that changes neither the file nor the calls is a stutter.        *)
LEMMA SameFile ==
  ASSUME UNCHANGED << log, called >>
  PROVE  UNCHANGED Journal!journalVars
BY DEF Journal!journalVars, JournalStatus, JournalPhase

(* The first line, whole or torn, opens the abstract Campaign.             *)
LEMMA OpenSimulates ==
  ASSUME FileInv, log = << >>, NEW e, e.type \in {"torn", "campaign_started"},
         log' = Append(log, e), UNCHANGED called
  PROVE  Journal!Next
<1>1. \A r : PhaseIn(log', r) = PhaseIn(log, r)
  BY AppendOther
<1>2. log' # << >> /\ ~FinishedIn(log')
  BY AppendExists DEF FinishedIn
<1> QED
  BY <1>1, <1>2, PhaseMap DEF Journal!Next, Journal!Open, JournalStatus

(* A later torn line leaves it as it is.                                   *)
LEMMA TornSimulates ==
  ASSUME FileInv, log # << >>, log' = Append(log, TornLine), UNCHANGED called
  PROVE  UNCHANGED Journal!journalVars
<1>1. TornLine.type = "torn"
  BY DEF TornLine
<1>2. \A r : PhaseIn(log', r) = PhaseIn(log, r)
  BY <1>1, AppendOther
<1>3. log' # << >> /\ (FinishedIn(log') <=> FinishedIn(log))
  BY <1>1, AppendExists
<1> QED
  BY <1>2, <1>3, PhaseMap DEF Journal!journalVars, JournalStatus

(* An append moves the run it is about.                                    *)
LEMMA MoveSimulates ==
  ASSUME FileInv, log # << >>, ~FinishedIn(log), NEW e, log' = Append(log, e),
         UNCHANGED called, e.type = "run_state", e.run \in Runs,
         NEW from, NEW to, PhaseIn(log, e.run) = from, PhaseIn(log', e.run) = to
  PROVE  Journal!Advance(e.run, from, to)
<1>1. \A r \in Runs : r # e.run => PhaseIn(log', r) = PhaseIn(log, r)
  BY AppendOther
<1>2. log' # << >> /\ ~FinishedIn(log')
  BY AppendExists
<1>3. JournalPhase' = [JournalPhase EXCEPT ![e.run] = to]
  BY <1>1, PhaseMap
<1>4. JournalPhase[e.run] = from
  BY PhaseMap
<1> QED
  BY <1>2, <1>3, <1>4 DEF Journal!Advance, JournalStatus

(* Every whole line is a step of the abstract Campaign.                    *)
LEMMA LineSimulates ==
  ASSUME IInv, StopInv, RefInv, shortWrites = 0, pc \in Appending,
         pc = "create" => log = << >>, log' = Append(log, LineWritten), UNCHANGED called
  PROVE  Journal!Next
<1> DEFINE e == LineWritten
<1>0. /\ FileInv /\ index \in 1 .. RunCount + 1 /\ nextIndex \in 1 .. RunCount + 1
      /\ RunCount \in Nat /\ Runs = 1 .. RunCount
      /\ pc \in {"append_started", "append_terminal"} => index \in Runs
  BY RunCountAssumption
  DEF IInv, IndexInv, StopInv, CountersTyped, InLoop, BeforeCall, AfterCall, Concluded, Runs
<1>1. pc # "create" => log # << >> /\ ~FinishedIn(log)
  BY DEF RefInv, FileOpen, Appending
<1>2. CASE pc = "create"
  BY <1>0, <1>2, NextLine, OpenSimulates
<1>3. CASE pc = "append_started"
  <2>1. e.type = "run_state" /\ e.run = index /\ e.status = "started" /\ index \in Runs
    BY <1>0, <1>3, NextLine
  <2>2. PhaseIn(log, index) = "planned"
        /\ \A r \in Runs : r < index => PhaseIn(log, r) = "ended"
    BY <1>3, <2>1 DEF RefInv, PhasesFit, InLoop, BeforeCall
  <2>3. PhaseIn(log', index) = "started"
    BY <1>0, <2>1, <2>2, AppendMoves
  <2>4. Journal!Advance(index, "planned", "started")
    BY <1>0, <1>1, <1>3, <2>1, <2>2, <2>3, MoveSimulates
  <2>5. \A s \in 1 .. index - 1 : JournalPhase[s] = "ended"
    BY <1>0, <2>2, PhaseMap
  <2> QED
    BY <2>1, <2>4, <2>5 DEF Journal!Next, Journal!Start, Journal!Runs, Runs
<1>4. CASE pc = "append_terminal"
  <2>1. e.type = "run_state" /\ e.run = index /\ e.status \notin {"started", "not_run"}
        /\ index \in Runs
    BY <1>0, <1>4, NextLine
  <2>2. PhaseIn(log, index) = "started"
    BY <1>4 DEF RefInv, PhasesFit, Working, InLoop, Concluded
  <2>3. PhaseIn(log', index) = "ended"
    BY <1>0, <2>1, <2>2, AppendMoves
  <2>4. Journal!Advance(index, "started", "ended")
    BY <1>0, <1>1, <1>4, <2>1, <2>2, <2>3, MoveSimulates
  <2> QED
    BY <2>1, <2>4 DEF Journal!Next, Journal!End, Journal!Runs, Runs
<1>5. CASE pc = "tail" /\ stop # "none" /\ nextIndex <= RunCount
  <2>1. e.type = "run_state" /\ e.run = nextIndex /\ e.status = "not_run"
        /\ nextIndex \in Runs
    BY <1>0, <1>5, NextLine
  <2>2. PhaseIn(log, nextIndex) = "planned"
        /\ \A r \in Runs : r < nextIndex => PhaseIn(log, r) \in {"ended", "not_run"}
    BY <1>0, <1>5, <2>1 DEF RefInv, PhasesFit
  <2>3. PhaseIn(log', nextIndex) = "not_run"
    BY <1>0, <2>1, AppendMoves
  <2>4. Journal!Advance(nextIndex, "planned", "not_run")
    BY <1>0, <1>1, <1>5, <2>1, <2>2, <2>3, MoveSimulates
  <2>5. \A s \in 1 .. nextIndex - 1 : JournalPhase[s] \in {"ended", "not_run"}
    BY <1>0, <2>2, PhaseMap
  <2> QED
    BY <2>1, <2>4, <2>5 DEF Journal!Next, Journal!Skip, Journal!Runs, Runs
<1>6. CASE pc = "tail" /\ ~(stop # "none" /\ nextIndex <= RunCount)
  <2>1. e.type = "campaign_finished"
    BY <1>6, NextLine
  <2>2. \A r \in Runs : JournalPhase[r] \in {"ended", "not_run"}
    BY <1>0, <1>6, PhaseMap DEF RefInv, PhasesFit
  <2>3. log' # << >> /\ FinishedIn(log')
    BY <1>0, <2>1, AppendExists
  <2>4. \A r : PhaseIn(log', r) = PhaseIn(log, r)
    BY <1>0, <2>1, AppendOther
  <2>5. JournalPhase' = JournalPhase
    BY <2>4, PhaseMap
  <2> QED
    BY <1>1, <1>6, <2>2, <2>3, <2>5
    DEF Journal!Next, Journal!Close, Journal!Runs, Runs, JournalStatus
<1> QED
  BY <1>2, <1>3, <1>4, <1>5, <1>6 DEF Appending

(* So is the call of the current run's Provider.                           *)
LEMMA CallSimulates ==
  ASSUME IInv, RefInv, shortWrites = 0, pc \in {"provider", "running"}, UNCHANGED log,
         NEW k \in 0 .. 1, called' = [called EXCEPT ![index] = called[index] + k]
  PROVE  [Journal!Next]_Journal!journalVars
<1>1. called \in [Runs -> Nat] /\ index \in Runs /\ called[index] = 0
  BY RunCountAssumption
  DEF IInv, IndexInv, CallInv, Uncalled, InLoop, BeforeCall, AfterCall, Concluded, Runs
<1>2. PhaseIn(log, index) = "started" /\ log # << >> /\ ~FinishedIn(log)
  BY DEF RefInv, FileOpen, PhasesFit, Working, InLoop, BeforeCall
<1>3. JournalPhase[index] = "started" /\ JournalStatus = "open"
  BY <1>1, <1>2, PhaseMap DEF JournalStatus
<1>4. UNCHANGED << JournalPhase, JournalStatus >>
  BY DEF JournalPhase, JournalStatus
<1>5. CASE k = 0
  BY <1>1, <1>4, <1>5 DEF Journal!journalVars
<1>6. CASE k = 1
  <2>1. called' = [called EXCEPT ![index] = 1]
    BY <1>1, <1>6
  <2> QED
    BY <1>1, <1>3, <1>4, <2>1 DEF Journal!Next, Journal!Call, Journal!Runs, Runs
<1> QED
  BY <1>5, <1>6

(* The end of an invocation keeps RefInv: nothing is claimed while none    *)
(* runs.                                                                   *)
LEMMA ExitRef ==
  ASSUME RefInv, UNCHANGED shortWrites, pc' = "idle"
  PROVE  RefInv'
BY DEF RefInv, FileOpen, PhasesFit, Working, InLoop, BeforeCall, AfterCall, Concluded

(* So does the work on a run between its lines.                            *)
LEMMA WorkRef ==
  ASSUME RefInv, UNCHANGED << log, index, shortWrites >>, pc \in Working, pc' \in Working
  PROVE  RefInv'
BY DEF RefInv, FileOpen, PhasesFit, Working, InLoop, BeforeCall, AfterCall, Concluded

(* A short write is remembered.                                            *)
LEMMA WholeWrite ==
  ASSUME RefInv, NEW e, AppendEvent(e)
  PROVE  shortWrites' \in Nat /\ (shortWrites' = 0 => shortWrites = 0 /\ log' = Append(log, e))
BY DEF RefInv, AppendEvent

(* Every step keeps RefInv.                                                *)
LEMMA RefStep ==
  ASSUME IInv, StopInv, RefInv, [Next]_vars
  PROVE  RefInv'
<1> USE DEF files, world, bounds, counters, ghosts, RunStep, AppendStep, Goto
<1>0. /\ FileInv /\ index \in 1 .. RunCount + 1 /\ nextIndex \in 1 .. RunCount + 1
      /\ RunCount \in Nat /\ Runs = 1 .. RunCount
      /\ pc \in InLoop \ {"check"} => index \in Runs
  BY RunCountAssumption DEF IInv, IndexInv, StopInv, CountersTyped, Runs
<1>1. CASE Refuse \/ PrepareFails \/ AbandonRun \/ Reload \/ AppendFails \/ Interrupt \/ Crash
  <2>1. pc' = "idle" /\ UNCHANGED shortWrites
    BY <1>1 DEF Refuse, PrepareFails, AbandonRun, Reload, AppendFails, Interrupt, Crash, Leave
  <2> QED
    BY <2>1, ExitRef
<1>2. CASE BodyStep
  <2>1. UNCHANGED shortWrites
    BY <1>2 DEF BodyStep, PrepareWorkspace, InvokeProvider, AfterFailure, JudgeOutput,
                CollectDiff, PrepareGates, StartGate, GateNotStarted, GateEnds, Conclude,
                RemoveWorkspace, InWorkspace
  <2>2. UNCHANGED << log, index >>
    BY <1>2, BodyFrame
  <2>3. pc \in Working /\ pc' \in Working
    BY <1>2 DEF BodyStep, PrepareWorkspace, InvokeProvider, AfterFailure, JudgeOutput,
                CollectDiff, PrepareGates, StartGate, GateNotStarted, GateEnds, Conclude,
                RemoveWorkspace, InWorkspace, Working, InLoop, BeforeCall, AfterCall, Concluded
  <2> QED
    BY <2>1, <2>2, <2>3, WorkRef
<1>3. CASE ProviderStep
  <2>1. pc \in Working /\ pc' \in Working /\ UNCHANGED << log, index >>
    BY <1>3, ProviderFacts DEF Working, InLoop, BeforeCall, AfterCall, Concluded
  <2>2. UNCHANGED shortWrites
    BY <1>3, ProviderHandsOver DEF Receive, Abandon
  <2> QED
    BY <2>1, <2>2, WorkRef
<1>4. CASE Invoke
  BY <1>4 DEF Invoke, RefInv, FileOpen, PhasesFit, Working, InLoop, BeforeCall, AfterCall,
              Concluded
<1>5. CASE CreateCampaign
  <2> DEFINE e == CampaignStarted(clock)
  <2>1. shortWrites' \in Nat /\ (shortWrites' = 0 => log' = Append(log, e))
    BY <1>5, WholeWrite DEF CreateCampaign
  <2>2. e.type = "campaign_started" /\ log = << >> /\ pc' = "check" /\ index' = 1
    BY <1>5 DEF CreateCampaign, CampaignStarted, StopInv, CountersTyped
  <2>3. \A r : PhaseIn(log, r) = "planned"
    BY <2>2 DEF PhaseIn, NotRunIn, EndedIn, StartedIn
  <2>4. ASSUME shortWrites' = 0
        PROVE  log' # << >> /\ ~FinishedIn(log') /\ \A r : PhaseIn(log', r) = "planned"
    BY <1>0, <2>1, <2>2, <2>3, <2>4, AppendExists, AppendOther DEF FinishedIn
  <2> QED
    BY <1>0, <2>1, <2>2, <2>4
    DEF RefInv, FileOpen, PhasesFit, Working, InLoop, BeforeCall, AfterCall, Concluded
<1>6. CASE BeginRun \/ StopForChangedInput \/ LoopEnds
  <2>1. UNCHANGED << log, index, shortWrites >> /\ pc = "check" /\ stop = "none"
    BY <1>6 DEF BeginRun, StopForChangedInput, LoopEnds, StopInv, CountersTyped, InLoop,
                BeforeCall
  <2>2. CASE BeginRun
    BY <2>1, <2>2
    DEF BeginRun, RefInv, FileOpen, PhasesFit, Working, InLoop, BeforeCall, AfterCall, Concluded
  <2>3. CASE StopForChangedInput
    <3>1. pc' = "tail" /\ nextIndex' = index /\ stop' = "input_changed"
      BY <2>3 DEF StopForChangedInput
    <3> QED
      BY <1>0, <2>1, <3>1
      DEF RefInv, FileOpen, PhasesFit, Working, InLoop, BeforeCall, AfterCall, Concluded
  <2>4. CASE LoopEnds
    <3>1. pc' = "tail" /\ index > RunCount /\ stop' = "none"
      BY <2>1, <2>4 DEF LoopEnds
    <3> QED
      BY <1>0, <2>1, <3>1
      DEF RefInv, FileOpen, PhasesFit, Working, InLoop, BeforeCall, AfterCall, Concluded
  <2> QED
    BY <1>6, <2>2, <2>3, <2>4
<1>7. CASE AppendStarted
  <2> DEFINE e == StartedEvent(sequence', index, clock)
  <2>1. shortWrites' \in Nat
        /\ (shortWrites' = 0 => shortWrites = 0 /\ log' = Append(log, e))
    BY <1>7, WholeWrite DEF AppendStarted
  <2>2. e.type = "run_state" /\ e.run = index /\ e.status = "started" /\ index \in Runs
        /\ pc = "append_started" /\ pc' = "prepare" /\ index' = index
    BY <1>0, <1>7 DEF AppendStarted, StartedEvent, InLoop, BeforeCall
  <2> HIDE DEF e
  <2>3. ASSUME shortWrites' = 0
        PROVE  FileOpen' /\ PhasesFit'
    <3>1. PhaseIn(log', index) = "started" /\ log' # << >> /\ ~FinishedIn(log')
      BY <1>0, <2>1, <2>2, <2>3, AppendExists, AppendMoves
      DEF RefInv, FileOpen, PhasesFit
    <3>2. \A r \in Runs : r # index => PhaseIn(log', r) = PhaseIn(log, r)
      BY <1>0, <2>1, <2>2, <2>3, AppendOther
    <3> QED
      BY <1>0, <2>1, <2>2, <2>3, <3>1, <3>2
      DEF RefInv, FileOpen, PhasesFit, Working, InLoop, BeforeCall, AfterCall, Concluded
  <2> QED
    BY <2>1, <2>3 DEF RefInv
<1>8. CASE AppendTerminal
  <2> DEFINE e == TerminalLine
  <2>1. shortWrites' \in Nat
        /\ (shortWrites' = 0 => shortWrites = 0 /\ log' = Append(log, e))
    BY <1>8, WholeWrite DEF AppendTerminal
  <2>2. e.type = "run_state" /\ e.run = index /\ e.status \notin {"started", "not_run"}
    BY DEF TerminalLine, TerminalEvent
  <2>3. index \in Runs /\ pc = "append_terminal" /\ pc' = "stop_check" /\ index' = index
    BY <1>0, <1>8 DEF AppendTerminal, InLoop, Concluded
  <2> HIDE DEF e
  <2>4. ASSUME shortWrites' = 0
        PROVE  FileOpen' /\ PhasesFit'
    <3>1. PhaseIn(log, index) = "started" /\ ~FinishedIn(log)
      BY <2>1, <2>3, <2>4 DEF RefInv, FileOpen, PhasesFit, Working, InLoop, Concluded
    <3>2. PhaseIn(log', index) = "ended" /\ log' # << >> /\ ~FinishedIn(log')
      BY <1>0, <2>1, <2>2, <2>4, <3>1, AppendExists, AppendMoves
    <3>3. \A r \in Runs : r # index => PhaseIn(log', r) = PhaseIn(log, r)
      BY <1>0, <2>1, <2>2, <2>4, AppendOther
    <3> QED
      BY <1>0, <2>1, <2>3, <2>4, <3>2, <3>3
      DEF RefInv, FileOpen, PhasesFit, Working, InLoop, BeforeCall, AfterCall, Concluded
  <2> QED
    BY <2>1, <2>4 DEF RefInv
<1>9. CASE WriteOutputs
  <2>1. CASE pc' = "idle"
    <3>1. UNCHANGED shortWrites
      BY <1>9 DEF WriteOutputs
    <3> QED
      BY <2>1, <3>1, ExitRef
  <2>2. CASE pc' # "idle"
    <3>1. /\ pc = "write" /\ pc' = "append_terminal" /\ UNCHANGED << log, index, shortWrites >>
      BY <1>9, <2>2 DEF WriteOutputs, Leave
    <3> QED
      BY <3>1, WorkRef DEF Working, InLoop, BeforeCall, AfterCall, Concluded
  <2> QED
    BY <2>1, <2>2
<1>10. CASE StopCheck
  <2>1. /\ pc = "stop_check" /\ UNCHANGED << log, nextIndex, shortWrites >>
        /\ nextIndex = index + 1 /\ index \in Runs
        /\ \/ pc' = "check" /\ index' = index + 1
           \/ pc' = "tail" /\ stop' # "none"
    BY <1>0, <1>10 DEF StopCheck, StopInv, CurrentRun, InLoop, Concluded
  <2> QED
    BY <1>0, <2>1
    DEF RefInv, FileOpen, PhasesFit, Working, InLoop, BeforeCall, AfterCall, Concluded
<1>11. CASE AppendNotRun
  <2> DEFINE e == NotRunEvent(sequence', nextIndex, stop, clock)
  <2>1. shortWrites' \in Nat
        /\ (shortWrites' = 0 => shortWrites = 0 /\ log' = Append(log, e))
    BY <1>11, WholeWrite DEF AppendNotRun
  <2>2. e.type = "run_state" /\ e.run = nextIndex /\ e.status = "not_run"
    BY DEF NotRunEvent
  <2>3. nextIndex \in Runs /\ nextIndex' = nextIndex + 1 /\ pc = "tail" /\ pc' = "tail"
        /\ stop # "none" /\ UNCHANGED stop
    BY <1>0, <1>11 DEF AppendNotRun
  <2> HIDE DEF e
  <2>4. ASSUME shortWrites' = 0
        PROVE  FileOpen' /\ PhasesFit'
    <3>1. PhaseIn(log', nextIndex) = "not_run" /\ log' # << >> /\ ~FinishedIn(log')
      BY <1>0, <2>1, <2>2, <2>3, <2>4, AppendExists, AppendMoves DEF RefInv, FileOpen
    <3>2. \A r \in Runs : r # nextIndex => PhaseIn(log', r) = PhaseIn(log, r)
      BY <1>0, <2>1, <2>2, <2>4, AppendOther
    <3> QED
      BY <1>0, <2>1, <2>3, <2>4, <3>1, <3>2
      DEF RefInv, FileOpen, PhasesFit, Working, InLoop, BeforeCall, AfterCall, Concluded
  <2> QED
    BY <2>1, <2>4 DEF RefInv
<1>12. CASE AppendFinished
  <2>1. shortWrites' \in Nat
    BY <1>12, WholeWrite DEF AppendFinished
  <2>2. pc' = "reload"
    BY <1>12 DEF AppendFinished
  <2> QED
    BY <2>1, <2>2
    DEF RefInv, FileOpen, PhasesFit, Working, InLoop, BeforeCall, AfterCall, Concluded
<1>13. CASE SetClockBack \/ LateWrite \/ UNCHANGED vars
  <2>1. UNCHANGED << log, shortWrites, pc, index, nextIndex, stop >>
    BY <1>13 DEF SetClockBack, LateWrite, vars
  <2> QED
    BY <2>1 DEF RefInv, FileOpen, PhasesFit
<1> QED
  BY <1>1, <1>2, <1>3, <1>4, <1>5, <1>6, <1>7, <1>8, <1>9, <1>10, <1>11, <1>12, <1>13
  DEF Next, ProgramStep, Done, BodyStep, ProviderStep

(* A step of the file: the line, part of it, or nothing.                   *)
LEMMA WrittenSimulates ==
  ASSUME IInv, StopInv, RefInv, shortWrites = 0, pc \in Appending,
         pc = "create" => log = << >>, log' \in Written, UNCHANGED called
  PROVE  [Journal!Next]_Journal!journalVars
<1>0. FileInv /\ TornLine.type = "torn"
  BY DEF IInv, TornLine
<1>1. CASE log' = log
  BY <1>1, SameFile
<1>2. CASE log' = Append(log, TornLine)
  BY <1>0, <1>2, OpenSimulates, TornSimulates
<1>3. CASE log' = Append(log, LineWritten)
  BY <1>3, LineSimulates
<1> QED
  BY <1>1, <1>2, <1>3 DEF Written

(* Every step is a step of the abstract Campaign, or a stutter.            *)
LEMMA StepSimulates ==
  ASSUME IInv, StopInv, RefInv, [Next]_vars
  PROVE  shortWrites' > 0 \/ [Journal!Next]_Journal!journalVars
<1> USE DEF files, world, bounds, counters, ghosts, RunStep, AppendStep, Goto
<1> SUFFICES ASSUME shortWrites' = 0
             PROVE  [Journal!Next]_Journal!journalVars
  <2>1. shortWrites' \in Nat
    BY RefStep DEF RefInv
  <2> QED
    BY <2>1
<1>1. CASE CreateCampaign \/ AppendStarted \/ AppendTerminal \/ AppendNotRun \/ AppendFinished
  <2>1. pc \in Appending /\ (pc = "create" => log = << >>) /\ UNCHANGED called
    BY <1>1 DEF CreateCampaign, AppendStarted, AppendTerminal, AppendNotRun, AppendFinished,
                Appending
  <2>2. AppendEvent(LineWritten)
    <3>1. CASE CreateCampaign
      BY <3>1 DEF CreateCampaign, LineWritten
    <3>2. CASE AppendStarted
      <4>1. pc = "append_started" /\ sequence' = sequence + 1
            /\ AppendEvent(StartedEvent(sequence', index, clock))
        BY <3>2 DEF AppendStarted
      <4> QED
        BY <4>1 DEF LineWritten
    <3>3. CASE AppendTerminal
      BY <3>3 DEF AppendTerminal, LineWritten
    <3>4. CASE AppendNotRun
      <4>1. pc = "tail" /\ stop # "none" /\ nextIndex <= RunCount /\ sequence' = sequence + 1
            /\ AppendEvent(NotRunEvent(sequence', nextIndex, stop, clock))
        BY <3>4 DEF AppendNotRun
      <4> QED
        BY <4>1 DEF LineWritten
    <3>5. CASE AppendFinished
      <4>1. pc = "tail" /\ (stop = "none" \/ nextIndex > RunCount) /\ sequence' = sequence + 1
            /\ AppendEvent(CampaignFinished(sequence', stop, attempted, calls, failures, clock))
        BY <3>5 DEF AppendFinished
      <4>2. ~(stop # "none" /\ nextIndex <= RunCount)
        BY <4>1, RunCountAssumption DEF StopInv, CountersTyped
      <4> QED
        BY <4>1, <4>2 DEF LineWritten
    <3> QED
      BY <1>1, <3>1, <3>2, <3>3, <3>4, <3>5
  <2>3. shortWrites = 0 /\ log' = Append(log, LineWritten)
    BY <2>2, WholeWrite
  <2> QED
    BY <2>1, <2>3, LineSimulates
<1>2. CASE AppendFails
  <2>1. /\ pc \in Appending /\ (pc = "create" => log = << >>) /\ log' \in Written
        /\ UNCHANGED << called, shortWrites >>
    BY <1>2 DEF AppendFails
  <2> QED
    BY <2>1, WrittenSimulates
<1>3. CASE ProviderStep
  <2>1. /\ pc \in {"provider", "running"} /\ UNCHANGED << log, shortWrites >>
        /\ \E k \in 0 .. 1 : called' = [called EXCEPT ![index] = called[index] + k]
    BY <1>3, ProviderFacts, ProviderHandsOver DEF Receive, Abandon
  <2> QED
    BY <2>1, CallSimulates
<1>4. CASE Interrupt \/ Crash
  <2>0. UNCHANGED shortWrites
    BY <1>4 DEF Interrupt, Crash
  <2>1. CASE pc = "running"
    <3>1. log' = log
      BY <1>4, <2>1 DEF Interrupt, Crash, Appending
    <3>2. called' = called \/ called' = [called EXCEPT ![index] = called[index] + 1]
      BY <1>4, <2>1 DEF Interrupt, Crash
    <3>3. CASE called' = called
      BY <3>1, <3>3, SameFile
    <3>4. CASE called' = [called EXCEPT ![index] = called[index] + 1]
      <4>1. 1 \in 0 .. 1
        OBVIOUS
      <4> QED
        BY <2>0, <2>1, <3>1, <3>4, <4>1, CallSimulates
    <3> QED
      BY <3>2, <3>3, <3>4
  <2>2. CASE pc # "running"
    <3>1. called' = called
      BY <1>4, <2>2 DEF Interrupt, Crash
    <3>2. \/ log' = log
          \/ pc \in Appending /\ (pc = "create" => log = << >>) /\ log' \in Written
      BY <1>4 DEF Interrupt, Crash
    <3> QED
      BY <2>0, <3>1, <3>2, SameFile, WrittenSimulates
  <2> QED
    BY <2>1, <2>2
<1>5. CASE UNCHANGED << log, called >>
  BY <1>5, SameFile
<1>6. CASE BodyStep
  BY <1>5, <1>6, BodyFrame
<1>7. ASSUME \/ Invoke \/ Refuse \/ BeginRun \/ StopForChangedInput \/ LoopEnds
             \/ PrepareFails \/ AbandonRun \/ WriteOutputs \/ StopCheck \/ Reload
             \/ SetClockBack \/ LateWrite \/ UNCHANGED vars
      PROVE  UNCHANGED << log, called >>
  BY <1>7 DEF Invoke, Refuse, BeginRun, StopForChangedInput, LoopEnds, PrepareFails, AbandonRun,
              WriteOutputs, StopCheck, Reload, SetClockBack, LateWrite, vars
<1> QED
  BY <1>1, <1>2, <1>3, <1>4, <1>5, <1>6, <1>7
  DEF Next, ProgramStep, Done, BodyStep, ProviderStep

(* The initial states satisfy RefInv and map to those of the abstract      *)
(* Campaign.                                                               *)
LEMMA RefInit ==
  ASSUME Init
  PROVE  RefInv /\ Journal!Init
<1>1. RefInv
  BY DEF Init, RefInv, FileOpen, PhasesFit, Working, InLoop, BeforeCall, AfterCall, Concluded
<1>2. \A r : PhaseIn(log, r) = "planned"
  BY DEF Init, PhaseIn, NotRunIn, EndedIn, StartedIn
<1> QED
  BY <1>1, <1>2, PhaseMap DEF Init, Journal!Init, Journal!Runs, Runs, JournalStatus

(* The Phase 6 Campaign implements the abstract one, for every Plan        *)
(* length, gates and stop conditions, and any number of crashes, signals   *)
(* and failed appends, until a write comes up short unnoticed.             *)
THEOREM ImplementsCampaignJournal == Spec => ImplementsJournal
<1>1. Init => StopInv /\ RefInv /\ Journal!Init
  BY StopInit, RefInit
<1>2. IInv /\ StopInv /\ [Next]_vars => StopInv'
  BY StopStep
<1>3. IInv /\ StopInv /\ RefInv /\ [Next]_vars => RefInv'
  BY RefStep
<1>4. IInv /\ StopInv /\ RefInv /\ [Next]_vars =>
        [shortWrites' > 0 \/ [Journal!Next]_Journal!journalVars]_vars
  BY StepSimulates
<1> QED
  BY <1>1, <1>2, <1>3, <1>4, Inductive, PTL DEF Spec, ImplementsJournal

-----------------------------------------------------------------------------
(* The contracts: every record the program builds is accepted.             *)

RunFields ==
  {"codex", "commands", "metrics", "diff", "overall", "kind", "outcome", "reason", "workspace",
   "counted", "harness", "gateError", "began", "codexBegan", "codexEnded", "gateBegan",
   "inOrder", "gatesEnded", "ended"}

(* What evidence the contract of the adapter accepts says of its kind.     *)
CodexFits(c) ==
  /\ c.kind \in Kinds
  /\ (c.kind = "process_cleanup_error") = (~c.cleared)
  /\ c.cleanup = "failed" => ~c.cleared
  /\ c.kind \in {"none", "provider_timeout"} => c.execution = "provider_invocation_attempted"
  /\ c.kind = "unsupported_platform" =>
       \/ c.execution = "preflight_not_completed"
       \/ c.execution = "preflight_completed" /\ c.stage = "provider_runtime_precheck"

(* A verdict, with all that follows from it.                               *)
Verdict(r, overall, kind, outcome, reason, metrics) ==
  /\ r.overall = overall /\ r.kind = kind /\ r.outcome = outcome /\ r.reason = reason
  /\ r.metrics = metrics /\ r.counted = (outcome \in CountedOutcomes)

AllNormal(r) == \A c \in Elements(r.commands) : Normal(c)
AllPassed(r) == \A c \in Elements(r.commands) : c.status = "passed"
HarnessReason(r) == IF r.commands # << >> THEN "none" ELSE "pre_gate_harness_failure"

(* The verdicts of a run that left nothing, each with what it rests on.    *)
ByProvider(r) ==
  /\ r.codex.kind \in ProviderKinds /\ r.commands = << >>
  /\ LET why == IF r.codex.kind = "provider_timeout" THEN "provider_timeout"
                ELSE "provider_failure" IN
     Verdict(r, "provider_error", r.codex.kind, why, why, "none")
ByRunner(r) ==
  /\ r.codex.kind \in {"unsupported_platform", "evidence_error"} /\ r.commands = << >>
  /\ Verdict(r, "harness_error", r.codex.kind, "harness_failure", "pre_gate_harness_failure",
             "none")
ByPolicy(r) ==
  /\ r.codex.kind = "none" /\ r.commands = << >> /\ r.diff # "incomplete"
  /\ Verdict(r, "rejected", "output_contract_violation", "output_contract_violation",
             "output_contract_violation", "none")
ByCollection(r) ==
  /\ r.codex.kind = "none" /\ AllNormal(r) /\ r.diff = "incomplete"
  /\ Verdict(r, "harness_error", "evidence_error", "harness_failure", HarnessReason(r), "none")
ByGate(r) ==
  /\ r.codex.kind = "none" /\ ~AllNormal(r) /\ \A c \in Elements(r.commands) : c.cleared
  /\ Verdict(r, "harness_error", "gate_harness_error", "harness_failure", HarnessReason(r), "none")
ByQuality(r) ==
  /\ r.codex.kind = "none" /\ r.commands # << >> /\ AllNormal(r) /\ r.diff = "complete"
  /\ IF AllPassed(r) THEN Verdict(r, "passed", "none", "success", "none", "pass")
     ELSE Verdict(r, "failed", "quality_gate_failure", "quality_gate_failure", "none", "fail")
ByHandler(r) ==
  /\ r.codex.kind # "none" /\ r.commands = << >>
  /\ Verdict(r, "harness_error", "evidence_error", "harness_failure",
             "pre_gate_harness_failure", "none")
Decided(r) ==
  \/ ByProvider(r) \/ ByRunner(r) \/ ByPolicy(r) \/ ByCollection(r) \/ ByGate(r) \/ ByQuality(r)
  \/ ByHandler(r)

(* At the removal of the Workspace the run knows of a group that is left,  *)
(* or has one of them; after it, a cleanup failure comes first.            *)
Remaining(r) ==
  r.codex.cleanup = "failed" \/ ~r.codex.cleared \/ r.harness = "process_cleanup_error"
WrittenAs(r) ==
  \/ Decided(r) /\ ~CleanupFailed(r)
  \/ /\ CleanupFailed(r)
     /\ Verdict(r, "harness_error", "process_cleanup_error", "cleanup_failure",
                HarnessReason(r), "none")

CommandsFit(r) ==
  /\ r.commands \in Seq({r.commands[i] : i \in DOMAIN r.commands})
  /\ r.commands # << >> => 1 \in DOMAIN r.commands /\ r.commands[1].gate = "acceptance"
  /\ r.commands = << >> => Elements(r.commands) = {}
  /\ ~AllNormal(r) => r.commands # << >>
  /\ r.codex.kind # "none" => r.commands = << >>

(* Its clock readings, if the clock was not set back.                      *)
InTime(r) ==
  /\ r.began <= r.codexBegan /\ r.codexBegan <= r.codexEnded /\ r.codexEnded <= r.ended
  /\ r.began <= r.ended /\ r.gatesEnded <= r.ended /\ r.inOrder

(* A record of such a run is accepted.                                     *)
LEMMA DecidedAccepted ==
  ASSUME NEW r, CodexFits(r.codex), CommandsFit(r), InTime(r), WrittenAs(r),
         r.workspace \in {"removed", "cleanup_failed"},
         r.codex.execution # "preflight_not_completed", ~Overwritten(r)
  PROVE  PairAccepted(Record(r))
<1> DEFINE a == Record(r)
<1>1. /\ a.codex = r.codex /\ a.commands = r.commands /\ a.diff = r.diff /\ a.metrics = r.metrics
      /\ a.overall = r.overall /\ a.kind = r.kind /\ a.reason = r.reason
      /\ a.workspace = r.workspace /\ a.began = r.began /\ a.codexBegan = r.codexBegan
      /\ a.codexEnded = r.codexEnded /\ a.inOrder = r.inOrder /\ a.gatesEnded = r.gatesEnded
      /\ a.ended = r.ended
  BY DEF Record
<1> HIDE DEF a
<1>2. /\ a.began <= a.ended /\ TimesOrdered(a)
  BY <1>1 DEF InTime, TimesOrdered, CommandsFit, GateExecuted
<1>3. CleanupFailed(a) = (IF CleanupFailed(r) THEN TRUE ELSE FALSE)
  BY <1>1 DEF CleanupFailed
<1>4. ~CleanupFailed(a) => a.workspace = "removed"
  BY <1>1 DEF CleanupFailed
<1>h. ByHandler(r) => ByRunner(r)
  BY DEF ByHandler, ByRunner, Overwritten, Verdict
<1>5. SUFFICES LifecycleFitsWorkspace(a) /\ HarnessClassified(a) /\ QualityComplete(a)
               /\ (IF a.overall \in QualityStatuses THEN CompletedCoherent(a)
                   ELSE FailedCoherent(a))
  BY <1>2 DEF PairAccepted, RecordingAccepted, ArtifactAccepted, ObservationsAgree, a
<1> USE DEF LifecycleFitsWorkspace, HarnessClassified, QualityComplete, CompletedCoherent,
            FailedCoherent, GateExecuted, HarnessTerminal, GateHarnessObserved,
            UnsupportedObserved, EvidenceErrorExpected, CollectionFailed, Verdict,
            QualityStatuses, ProviderKinds, SpawnKinds, HarnessStatusKinds,
            HarnessFailureKinds
<1>6. CASE ~CleanupFailed(r) /\ ByProvider(r)
  <2>0. CleanupFailed(a) = FALSE /\ a.workspace = "removed"
    BY <1>3, <1>4, <1>6
  <2> USE <1>1, <1>6, <2>0 DEF ByProvider, CommandsFit, CodexFits
  <2>1. LifecycleFitsWorkspace(a)
    OBVIOUS
  <2>2. HarnessClassified(a)
    OBVIOUS
  <2>3. QualityComplete(a)
    OBVIOUS
  <2>4. IF a.overall \in QualityStatuses THEN CompletedCoherent(a) ELSE FailedCoherent(a)
    OBVIOUS
  <2> QED
    BY <2>1, <2>2, <2>3, <2>4
<1>7. CASE ~CleanupFailed(r) /\ ByRunner(r)
  <2>0. CleanupFailed(a) = FALSE /\ a.workspace = "removed"
    BY <1>3, <1>4, <1>7
  <2> USE <1>1, <1>7, <2>0 DEF ByRunner, CommandsFit, CodexFits
  <2>1. LifecycleFitsWorkspace(a)
    OBVIOUS
  <2>2. HarnessClassified(a)
    OBVIOUS
  <2>3. QualityComplete(a)
    OBVIOUS
  <2>4. IF a.overall \in QualityStatuses THEN CompletedCoherent(a) ELSE FailedCoherent(a)
    OBVIOUS
  <2> QED
    BY <2>1, <2>2, <2>3, <2>4
<1>8. CASE ~CleanupFailed(r) /\ ByPolicy(r)
  <2>0. CleanupFailed(a) = FALSE /\ a.workspace = "removed"
    BY <1>3, <1>4, <1>8
  <2> USE <1>1, <1>8, <2>0 DEF ByPolicy, CommandsFit, CodexFits
  <2>1. LifecycleFitsWorkspace(a)
    OBVIOUS
  <2>2. HarnessClassified(a)
    OBVIOUS
  <2>3. QualityComplete(a)
    OBVIOUS
  <2>4. IF a.overall \in QualityStatuses THEN CompletedCoherent(a) ELSE FailedCoherent(a)
    OBVIOUS
  <2> QED
    BY <2>1, <2>2, <2>3, <2>4
<1>9. CASE ~CleanupFailed(r) /\ ByCollection(r)
  <2>0. CleanupFailed(a) = FALSE /\ a.workspace = "removed"
    BY <1>3, <1>4, <1>9
  <2> USE <1>1, <1>9, <2>0 DEF ByCollection, CommandsFit, CodexFits, HarnessReason, AllNormal
  <2>1. LifecycleFitsWorkspace(a)
    OBVIOUS
  <2>2. HarnessClassified(a)
    OBVIOUS
  <2>3. QualityComplete(a)
    OBVIOUS
  <2>4. IF a.overall \in QualityStatuses THEN CompletedCoherent(a) ELSE FailedCoherent(a)
    OBVIOUS
  <2> QED
    BY <2>1, <2>2, <2>3, <2>4
<1>10. CASE ~CleanupFailed(r) /\ ByGate(r)
  <2>0. CleanupFailed(a) = FALSE /\ a.workspace = "removed"
    BY <1>3, <1>4, <1>10
  <2> USE <1>1, <1>10, <2>0 DEF ByGate, CommandsFit, CodexFits, HarnessReason, AllNormal
  <2>1. LifecycleFitsWorkspace(a)
    OBVIOUS
  <2>2. HarnessClassified(a)
    OBVIOUS
  <2>3. QualityComplete(a)
    OBVIOUS
  <2>4. IF a.overall \in QualityStatuses THEN CompletedCoherent(a) ELSE FailedCoherent(a)
    OBVIOUS
  <2> QED
    BY <2>1, <2>2, <2>3, <2>4
<1>11. CASE ~CleanupFailed(r) /\ ByQuality(r)
  <2>0. CleanupFailed(a) = FALSE /\ a.workspace = "removed"
    BY <1>3, <1>4, <1>11
  <2> USE <1>1, <1>11, <2>0 DEF ByQuality, CommandsFit, CodexFits, AllNormal, AllPassed
  <2>1. LifecycleFitsWorkspace(a)
    OBVIOUS
  <2>2. HarnessClassified(a)
    OBVIOUS
  <2>3. QualityComplete(a)
    OBVIOUS
  <2>4. IF a.overall \in QualityStatuses THEN CompletedCoherent(a) ELSE FailedCoherent(a)
    OBVIOUS
  <2> QED
    BY <2>1, <2>2, <2>3, <2>4
<1>12. CASE /\ CleanupFailed(r)
            /\ Verdict(r, "harness_error", "process_cleanup_error", "cleanup_failure",
                       HarnessReason(r), "none")
  <2>0. CleanupFailed(a) = TRUE
    BY <1>3, <1>12
  <2> USE <1>1, <1>12, <2>0 DEF CommandsFit, CodexFits, HarnessReason
  <2>1. LifecycleFitsWorkspace(a)
    OBVIOUS
  <2>2. HarnessClassified(a)
    OBVIOUS
  <2>3. QualityComplete(a)
    OBVIOUS
  <2>4. IF a.overall \in QualityStatuses THEN CompletedCoherent(a) ELSE FailedCoherent(a)
    OBVIOUS
  <2> QED
    BY <2>1, <2>2, <2>3, <2>4
<1> QED
  BY <1>6, <1>7, <1>8, <1>9, <1>10, <1>11, <1>12, <1>h DEF WrittenAs, Decided

(* The public record of a run can be made of any accepted Artifact.        *)
LEMMA AcceptedPublic ==
  ASSUME NEW a, PairAccepted(a), NEW n \in Nat, DOMAIN a.commands = 1 .. n,
         a.commands = << >> => n = 0,
         Elements(a.commands) = {a.commands[i] : i \in 1 .. n},
         a.overall \in QualityStatuses =>
           \A i \in 1 .. n :
             a.commands[i].gate \in {"acceptance", "regression", "lint", "typecheck"}
  PROVE  PublicRunAccepted(PublicRun(a))
<1> DEFINE p == PublicRun(a)
           Of(gate, statuses) ==
             {i \in DOMAIN a.commands :
                a.commands[i].gate = gate /\ a.commands[i].status \in statuses}
           Other == {"regression", "lint", "typecheck"}
<1>1. /\ p.overall = a.overall /\ p.kind = a.kind /\ p.gate = GateExecuted(a)
      /\ p.reason = a.reason /\ p.metrics = (a.metrics # "none") /\ p.began = a.began
      /\ p.ended = a.ended /\ p.accepted = Cardinality(Of("acceptance", {"passed"}))
      /\ p.total = Cardinality(Of("acceptance", AnyStatus))
      /\ p.failures = {g \in Other : Cardinality(Of(g, {"failed"})) > 0}
  BY DEF PublicRun, CommandsOf
<1>2. ASSUME NEW gate, NEW statuses
      PROVE  /\ IsFiniteSet(Of(gate, statuses)) /\ Cardinality(Of(gate, statuses)) \in Nat
             /\ Cardinality(Of(gate, statuses)) = 0 <=> Of(gate, statuses) = {}
  <2>1. IsFiniteSet(1 .. n) /\ Of(gate, statuses) \subseteq 1 .. n
    BY FS_Interval
  <2>2. IsFiniteSet(Of(gate, statuses))
    BY <2>1, FS_Subset
  <2> HIDE DEF Of
  <2> QED
    BY <2>2, FS_CardinalityType, FS_EmptySet
<1>3. Of("acceptance", {"passed"}) \subseteq Of("acceptance", AnyStatus)
  BY DEF AnyStatus, Completed
<1>4. /\ p.accepted \in Nat /\ p.total \in Nat /\ p.accepted <= p.total
      /\ p.accepted = p.total => Of("acceptance", {"passed"}) = Of("acceptance", AnyStatus)
      /\ p.total = 0 <=> Of("acceptance", AnyStatus) = {}
      /\ p.failures = {} <=> \A g \in Other : Of(g, {"failed"}) = {}
  <2> HIDE DEF Of, Other, p
  <2>1. /\ Cardinality(Of("acceptance", {"passed"})) <= Cardinality(Of("acceptance", AnyStatus))
        /\ Cardinality(Of("acceptance", {"passed"})) = Cardinality(Of("acceptance", AnyStatus))
             => Of("acceptance", {"passed"}) = Of("acceptance", AnyStatus)
    BY <1>2, <1>3, FS_Subset
  <2>2. p.failures = {} <=> \A g \in Other : Of(g, {"failed"}) = {}
    BY <1>1, <1>2
  <2> QED
    BY <1>1, <1>2, <2>1, <2>2
<1>5. /\ GateExecuted(a) = (a.reason = "none") /\ a.began <= a.ended
      /\ GateExecuted(a) => \E i \in 1 .. n : a.commands[i].gate = "acceptance"
      /\ ~GateExecuted(a) => n = 0
      /\ QualityComplete(a)
      /\ IF a.overall \in QualityStatuses THEN CompletedCoherent(a) ELSE FailedCoherent(a)
  BY DEF PairAccepted, ArtifactAccepted, RecordingAccepted, ObservationsAgree,
         LifecycleFitsWorkspace, TimesOrdered, GateExecuted
<1>6. ~GateExecuted(a) => p.total = 0 /\ p.failures = {}
  BY <1>4, <1>5
<1>7. CASE a.overall \in QualityStatuses
  <2>1. /\ GateExecuted(a) /\ a.reason = "none" /\ a.metrics # "none"
        /\ a.kind = (IF a.overall = "passed" THEN "none" ELSE "quality_gate_failure")
        /\ \A i \in 1 .. n : Normal(a.commands[i])
        /\ (a.overall = "passed") <=> \A i \in 1 .. n : a.commands[i].status = "passed"
    BY <1>5, <1>7 DEF CompletedCoherent, QualityComplete
  <2>2. \A i \in 1 .. n : a.commands[i].status \in Completed
    BY <2>1 DEF Normal
  <2>3. p.total # 0
    BY <1>4, <1>5, <2>1, <2>2 DEF AnyStatus
  <2>4. (a.overall = "passed") <=> (p.accepted = p.total /\ p.failures = {})
    <3>1. ASSUME a.overall = "passed"
          PROVE  p.accepted = p.total /\ p.failures = {}
      <4>1. Of("acceptance", {"passed"}) = Of("acceptance", AnyStatus)
            /\ \A g \in Other : Of(g, {"failed"}) = {}
        BY <2>1, <3>1 DEF AnyStatus, Completed
      <4> HIDE DEF Of, Other, p
      <4> QED
        BY <1>1, <1>4, <4>1
    <3>2. ASSUME p.accepted = p.total, p.failures = {}
          PROVE  \A i \in 1 .. n : a.commands[i].status = "passed"
      <4>1. Of("acceptance", {"passed"}) = Of("acceptance", AnyStatus)
            /\ \A g \in Other : Of(g, {"failed"}) = {}
        BY <1>4, <3>2
      <4>2. ASSUME NEW i \in 1 .. n
            PROVE  a.commands[i].status = "passed"
        <5>1. /\ a.commands[i].gate \in {"acceptance"} \cup Other
              /\ a.commands[i].status \in {"passed", "failed"}
          BY <1>7, <2>2 DEF Completed
        <5>2. CASE a.commands[i].gate = "acceptance"
          <6>1. i \in Of("acceptance", AnyStatus)
            BY <5>1, <5>2 DEF AnyStatus, Completed
          <6>2. i \in Of("acceptance", {"passed"})
            BY <4>1, <6>1
          <6> QED
            BY <6>2
        <5>3. CASE a.commands[i].gate \in Other
          <6>1. i \notin Of(a.commands[i].gate, {"failed"})
            BY <4>1, <5>3
          <6> QED
            BY <5>1, <6>1
        <5> QED
          BY <5>1, <5>2, <5>3
      <4> QED
        BY <4>2
    <3> QED
      BY <2>1, <3>1, <3>2
  <2> HIDE DEF p
  <2>5. /\ p.began <= p.ended /\ p.accepted <= p.total /\ p.gate = TRUE /\ p.reason = "none"
        /\ p.metrics = TRUE /\ p.overall = a.overall
        /\ p.kind = (IF p.overall = "passed" THEN "none" ELSE "quality_gate_failure")
    BY <1>1, <1>4, <1>5, <2>1
  <2>6. (p.overall = "passed") = (p.accepted = p.total /\ p.failures = {})
    BY <2>4, <2>5
  <2>7. PublicRunAccepted(p)
    BY <1>7, <2>3, <2>5, <2>6 DEF PublicRunAccepted, QualityStatuses
  <2> QED
    BY <2>7 DEF p
<1>8. CASE a.overall \notin QualityStatuses
  <2>1. FailedCoherent(a)
    BY <1>5, <1>8
  <2> HIDE DEF p
  <2>2. /\ p.began <= p.ended /\ p.accepted <= p.total /\ p.gate = (p.reason = "none")
        /\ ~p.gate => p.total = 0 /\ p.failures = {}
        /\ ~p.metrics
    BY <1>1, <1>4, <1>5, <1>6, <2>1 DEF FailedCoherent
  <2>3. p.reason # "input_changed"
    BY <1>1, <1>5, <2>1 DEF FailedCoherent
  <2> QED
    BY <1>1, <1>5, <1>8, <2>1, <2>2, <2>3 DEF PublicRunAccepted, FailedCoherent, p
<1> QED
  BY <1>7, <1>8

Calling == {"prepare", "provider", "running"}
Judging == {"judge", "diff", "prepare_gates", "gate", "gate_running", "after_gates"}
Undecided == Calling \cup {"after_failure"} \cup Judging
Called == {"after_failure", "remove", "write"} \cup Judging

(* While the clock was not set back, everything the run has read of it is  *)
(* the same.                                                               *)
ClockInv ==
  clock = 1 =>
    /\ pc \in Undecided \cup {"remove", "write"} =>
         run.began = 1 /\ run.inOrder = TRUE /\ run.gatesEnded \in 0 .. 1
    /\ pc = "running" => run.codexBegan = 1
    /\ pc \in Called => run.codexBegan = 1 /\ run.codexEnded = 1
    /\ pc = "gate_running" => run.gateBegan = 1

(* A gate whose group remains is the harness failure of the run, and stays *)
(* among its commands.                                                     *)
CommandsKnown(r) ==
  /\ CommandsFit(r)
  /\ \A c \in Elements(r.commands) : ~c.cleared => r.harness = "process_cleanup_error"
  /\ r.harness = "process_cleanup_error" => \E c \in Elements(r.commands) : ~c.cleared

(* The run up to its verdict and with it.                                  *)
DecisionInv ==
  /\ pc \in Undecided =>
       Verdict(run, "harness_error", "evidence_error", "harness_failure",
               "pre_gate_harness_failure", "none")
  /\ pc \in (Undecided \ {"prepare"}) \cup {"remove"} => run.workspace = "removed"
  /\ pc \in Called \cup {"append_terminal"} => CodexFits(run.codex)
  /\ pc = "after_failure" => run.codex.kind # "none"
  /\ pc \in Judging => run.codex.kind = "none"
  /\ pc \in Calling \cup {"judge", "diff"} => run.diff = "incomplete"
  /\ pc \in {"prepare_gates", "gate", "gate_running"} => run.diff \in {"complete", "binary"}
  /\ pc = "after_gates" =>
       /\ run.harness = "none" => run.diff \in {"complete", "binary"}
       /\ CommandsKnown(run)
  /\ pc = "remove" => CommandsKnown(run) /\ (Remaining(run) \/ Decided(run))
  /\ pc \in {"write", "append_terminal"} =>
       /\ CommandsFit(run) /\ WrittenAs(run)
       /\ run.workspace \in {"removed", "cleanup_failed"}

WorldTyped == clock \in 0 .. 1 /\ sequence \in Nat /\ RunFields \subseteq DOMAIN run

BuiltInv == WorldTyped /\ ClockInv /\ DecisionInv

(* The evidence the run gets fits its kind.                                *)
LEMMA BuiltEvidence ==
  /\ \A k \in PreflightKinds : CodexFits(Summary(PreflightEvidence(k)))
                               /\ PreflightEvidence(k).kind # "none"
  /\ \A e \in RunnerResults : CodexFits(Summary(e))
  /\ CodexFits(Summary(UnsupportedEvidence)) /\ UnsupportedEvidence.kind # "none"
  /\ \A t : CodexFits(Summary(LifecycleEvidence(t))) /\ LifecycleEvidence(t).kind # "none"
<1> USE DEF CodexFits, Summary, Evidence, Kinds, ProviderKinds, SpawnKinds, HarnessKinds
<1>1. ASSUME NEW k \in PreflightKinds
      PROVE  CodexFits(Summary(PreflightEvidence(k))) /\ PreflightEvidence(k).kind # "none"
  BY <1>1 DEF PreflightEvidence, PreflightKinds
<1>2. ASSUME NEW e \in RunnerResults
      PROVE  CodexFits(Summary(e))
  <2>1. PICK i \in Invocations, s \in ResultStages, k \in Kinds :
          e = Evidence("started", ExecutionStage(i), i, s, k, k # "process_cleanup_error")
    BY <1>2 DEF RunnerResults
  <2>2. Accepted(e)
    BY <1>2 DEF RunnerResults
  <2>3. /\ e.kind = k /\ e.stage = s /\ e.invocation = i /\ e.execution = ExecutionStage(i)
        /\ e.cleared = (k # "process_cleanup_error")
        /\ e.cleanup \in {"not_applicable", "cleared"} \/ k = "process_cleanup_error"
    BY <2>1
  <2>4. k \in {"none", "provider_timeout"} => i # "not_attempted"
    BY <2>2, <2>3 DEF Accepted, LifecycleAgrees, StageAgrees, KindAgrees, ResultStages,
       PostSpawnStages, PreSpawnStages, OrchestrationStages, RunnerStages, HandoffStages,
       HandoffStage
  <2>5. k # "unsupported_platform"
    BY <2>2, <2>3 DEF Accepted, LifecycleAgrees, StageAgrees, KindAgrees, ResultStages,
       PostSpawnStages, PreSpawnStages, OrchestrationStages, RunnerStages, HandoffStages,
       HandoffStage
  <2> QED
    BY <2>3, <2>4, <2>5 DEF ExecutionStage
<1>3. CodexFits(Summary(UnsupportedEvidence)) /\ UnsupportedEvidence.kind # "none"
  BY DEF UnsupportedEvidence
<1>4. ASSUME NEW t
      PROVE  CodexFits(Summary(LifecycleEvidence(t))) /\ LifecycleEvidence(t).kind # "none"
  BY DEF LifecycleEvidence, ExecutionStage
<1> QED
  BY <1>1, <1>2, <1>3, <1>4

(* What a step of the Provider call hands over.                            *)
LEMMA HandedOver ==
  ASSUME WorldTyped, ClockInv, ProviderStep
  PROVE  /\ UNCHANGED << clock, sequence >> /\ pc \in {"provider", "running"}
         /\ \/ UNCHANGED run /\ pc' = "abandon"
            \/ \E e, began :
                 /\ CodexFits(Summary(e)) /\ (clock = 1 => began = 1)
                 /\ run' = [run EXCEPT !.codex = Summary(e), !.codexBegan = began,
                                       !.codexEnded = clock]
                 /\ pc' = IF e.kind = "none" THEN "judge" ELSE "after_failure"
<1> USE DEF Receive, Abandon, Goto, world, counters, RunStep
<1>1. CASE PreflightFails
  BY <1>1, BuiltEvidence DEF PreflightFails
<1>2. CASE ProviderRaises
  BY <1>2 DEF ProviderRaises
<1>3. CASE ProviderReturns
  <2>1. PICK e \in RunnerResults :
          Receive(e, run.codexBegan, IF e.kind = "none" THEN "judge" ELSE "after_failure")
    BY <1>3 DEF ProviderReturns
  <2>2. pc = "running"
    BY <1>3 DEF ProviderReturns
  <2>3. clock = 1 => run.codexBegan = 1
    BY <2>2 DEF ClockInv
  <2> QED
    BY <2>1, <2>2, <2>3, BuiltEvidence
<1>4. CASE PlatformUnsupported
  BY <1>4, BuiltEvidence DEF PlatformUnsupported
<1>5. CASE RunnerFails
  <2>1. pc = "running"
    BY <1>5 DEF RunnerFails
  <2>2. clock = 1 => run.codexBegan = 1
    BY <2>1 DEF ClockInv
  <2>3. PICK t : LET e == LifecycleEvidence(t) IN
          \/ \E began \in {clock, run.codexBegan} : Receive(e, began, "after_failure")
          \/ Abandon(t.invocation, t.cleanup # "failed")
    BY <1>5 DEF RunnerFails
  <2>4. CASE Abandon(t.invocation, t.cleanup # "failed")
    BY <2>1, <2>4
  <2>5. CASE \E began \in {clock, run.codexBegan} :
               Receive(LifecycleEvidence(t), began, "after_failure")
    <3> DEFINE e == LifecycleEvidence(t)
    <3>1. CodexFits(Summary(e)) /\ e.kind # "none"
      BY BuiltEvidence
    <3>2. PICK began \in {clock, run.codexBegan} : Receive(e, began, "after_failure")
      BY <2>5
    <3> HIDE DEF e
    <3> QED
      BY <2>1, <2>2, <3>1, <3>2
  <2> QED
    BY <2>3, <2>4, <2>5
<1> QED
  BY <1>1, <1>2, <1>3, <1>4, <1>5 DEF ProviderStep

(* A judgement changes the verdict only.                                   *)
SameReadings(s, r) ==
  /\ s.began = r.began /\ s.codexBegan = r.codexBegan /\ s.codexEnded = r.codexEnded
  /\ s.inOrder = r.inOrder /\ s.gatesEnded = r.gatesEnded

(* What a judgement keeps and what it says.                                *)
LEMMA JudgedParts ==
  ASSUME RunFields \subseteq DOMAIN run, NEW overall, NEW kind, NEW outcome, NEW reason
  PROVE  LET j == Judged(overall, kind, outcome, reason) IN
         /\ RunFields \subseteq DOMAIN j
         /\ SameReadings(j, run)
         /\ j.codex = run.codex /\ j.commands = run.commands /\ j.diff = run.diff
         /\ j.metrics = run.metrics /\ j.workspace = run.workspace /\ j.harness = run.harness
         /\ \A m : run.metrics = m => Verdict(j, overall, kind, outcome, reason, m)
BY DEF Judged, RunFields, Verdict, SameReadings

(* So does a failure after the Provider, and what it says of the diff, the *)
(* commands and the metrics.                                               *)
LEMMA FailureParts ==
  ASSUME RunFields \subseteq DOMAIN run
  PROVE  \A commands :
           LET f == PostCodexFailure(commands)
               abnormal == \E c \in Elements(commands) : ~Normal(c) IN
           /\ RunFields \subseteq DOMAIN f
           /\ SameReadings(f, run)
           /\ f.codex = run.codex /\ f.workspace = run.workspace /\ f.harness = run.harness
           /\ f.commands = commands /\ f.diff = "incomplete"
           /\ Verdict(f, "harness_error",
                      IF abnormal THEN "gate_harness_error" ELSE "evidence_error",
                      "harness_failure",
                      IF commands # << >> THEN "none" ELSE "pre_gate_harness_failure", "none")
BY DEF PostCodexFailure, Judged, RunFields, Verdict, SameReadings

(* What a gate command leaves behind: the record with its command, which   *)
(* is lost, collected as a failure or kept.                                *)
SameVerdict(s, r) ==
  /\ s.overall = r.overall /\ s.kind = r.kind /\ s.outcome = r.outcome /\ s.reason = r.reason
  /\ s.metrics = r.metrics /\ s.counted = r.counted
CommandOf(c) ==
  [gate |-> Gates[Len(run.commands) + 1], status |-> c.status, cleared |-> c.cleared]
Recorded(c) ==
  [run EXCEPT !.commands = Append(@, CommandOf(c)),
              !.inOrder = @ /\ run.codexEnded <= run.gateBegan, !.gatesEnded = clock]

(* What it changes in the record and what it keeps.                        *)
LEMMA RecordedParts ==
  ASSUME RunFields \subseteq DOMAIN run, NEW c
  PROVE  LET s == Recorded(c) IN
         /\ RunFields \subseteq DOMAIN s /\ SameVerdict(s, run)
         /\ s.codex = run.codex /\ s.diff = run.diff /\ s.workspace = run.workspace
         /\ s.harness = run.harness /\ s.began = run.began /\ s.codexBegan = run.codexBegan
         /\ s.codexEnded = run.codexEnded /\ s.gatesEnded = clock
         /\ s.inOrder = (run.inOrder /\ run.codexEnded <= run.gateBegan)
         /\ s.commands = Append(run.commands, CommandOf(c))
<1>1. run.commands = run["commands"]
  OBVIOUS
<1> USE DEF Recorded, RunFields
<1>2. RunFields \subseteq DOMAIN Recorded(c) /\ SameVerdict(Recorded(c), run)
  BY DEF SameVerdict
<1>3. Recorded(c).inOrder = (run.inOrder /\ run.codexEnded <= run.gateBegan)
  OBVIOUS
<1>4. Recorded(c).commands = Append(run.commands, CommandOf(c))
  OBVIOUS
<1>5. LET s == Recorded(c) IN
      /\ s.codex = run.codex /\ s.diff = run.diff /\ s.workspace = run.workspace
      /\ s.harness = run.harness /\ s.began = run.began /\ s.codexBegan = run.codexBegan
      /\ s.codexEnded = run.codexEnded /\ s.gatesEnded = clock
  OBVIOUS
<1> QED
  BY <1>2, <1>3, <1>4, <1>5

(* The ways the end of a gate command is taken.                            *)
LEMMA GateEndsForms ==
  ASSUME GateEnds
  PROVE  /\ pc = "gate_running" /\ UNCHANGED << clock, sequence >>
         /\ \E c \in CommandResults :
              \/ run' = PostCodexFailure(<< >>) /\ pc' = "remove"
              \/ /\ \E toolchain \in BOOLEAN :
                      run' = Collect(Recorded(c), IF c.harness = "none" THEN "evidence_error"
                                                  ELSE c.harness, toolchain)
                 /\ pc' = "after_gates"
              \/ /\ c.harness = "none" /\ c.status \in Completed /\ run' = Recorded(c)
                 /\ pc' = IF Len(Recorded(c).commands) = Len(Gates) THEN "after_gates" ELSE "gate"
BY DEF GateEnds, Goto, Recorded, CommandOf, RunStep, world, counters

(* The world and the fields of the record, at every step.                  *)
LEMMA WorldStep ==
  ASSUME WorldTyped, ClockInv, [Next]_vars
  PROVE  WorldTyped'
<1> USE DEF WorldTyped, world, counters, Goto, RunStep, AppendStep, InWorkspace
<1>f. \A r \in {FreshRun, [FreshRun EXCEPT !.began = 0]} : RunFields \subseteq DOMAIN r
  BY DEF FreshRun, RunFields
<1>1. CASE Leave /\ clock' = clock
  BY <1>1, <1>f DEF Leave
<1>2. CASE Refuse \/ PrepareFails \/ AbandonRun \/ Reload \/ AppendFails \/ Interrupt \/ Crash
  <2>1. Leave /\ clock' = clock
    BY <1>2 DEF Refuse, PrepareFails, AbandonRun, Reload, AppendFails, Interrupt, Crash
  <2> QED
    BY <1>1, <2>1
<1>3. CASE \/ CreateCampaign \/ BeginRun \/ StopForChangedInput \/ LoopEnds \/ AppendTerminal
           \/ AppendNotRun \/ AppendFinished \/ Invoke \/ LateWrite \/ SetClockBack
           \/ UNCHANGED vars
  <2>1. run' = run /\ clock' \in {clock, 0} /\ sequence' \in {sequence, sequence + 1}
    BY <1>3 DEF CreateCampaign, BeginRun, StopForChangedInput, LoopEnds, AppendTerminal,
                AppendNotRun, AppendFinished, Invoke, LateWrite, SetClockBack, vars
  <2> QED
    BY <2>1
<1>4. CASE AppendStarted \/ StopCheck
  <2>1. run' \in {FreshRun, [FreshRun EXCEPT !.began = 0]} /\ clock' = clock
        /\ sequence' \in {sequence, sequence + 1}
    BY <1>4 DEF AppendStarted, StopCheck
  <2> QED
    BY <1>f, <2>1
<1>5. CASE ProviderStep
  BY <1>5, HandedOver DEF RunFields
<1>6. CASE WriteOutputs
  <2>1. clock' = clock /\ (Leave \/ (run' = Completes /\ sequence' = sequence))
    BY <1>6 DEF WriteOutputs
  <2> QED
    BY <1>1, <2>1 DEF Completes, RunFields
<1>7. CASE BodyStep
  <2>1. clock' = clock /\ sequence' = sequence
    BY <1>7 DEF BodyStep, PrepareWorkspace, InvokeProvider, AfterFailure, JudgeOutput,
                CollectDiff, PrepareGates, StartGate, GateNotStarted, GateEnds, Conclude,
                RemoveWorkspace
  <2>2. DOMAIN run' = DOMAIN run
    BY <1>7 DEF BodyStep, PrepareWorkspace, InvokeProvider, AfterFailure, JudgeOutput,
                CollectDiff, PrepareGates, StartGate, GateNotStarted, GateEnds, Conclude,
                RemoveWorkspace, ProviderTerminal, Rejected, PostCodexFailure, Collect, Judged,
                HarnessVerdict, QualityVerdict
  <2> QED
    BY <2>1, <2>2
<1> QED
  BY <1>2, <1>3, <1>4, <1>5, <1>6, <1>7 DEF Next, ProgramStep, Done, BodyStep, ProviderStep

(* The four ways a run is concluded.                                       *)
LEMMA ConcludeForms ==
  ASSUME Conclude
  PROVE  /\ pc = "after_gates" /\ pc' = "remove" /\ UNCHANGED << clock, sequence >>
         /\ \/ /\ run.harness # "none"
               /\ \E d : run' = [HarnessVerdict(run) EXCEPT
                                   !.diff = IF @ = "incomplete" THEN @ ELSE d]
            \/ /\ run.harness = "none"
               /\ run' = [Judged("harness_error", "evidence_error", "harness_failure", "none")
                          EXCEPT !.diff = "incomplete"]
            \/ run' = PostCodexFailure(run.commands)
            \/ run.harness = "none" /\ run.diff # "binary" /\ run' = QualityVerdict
<1>1. pc = "after_gates" /\ pc' = "remove" /\ UNCHANGED << clock, sequence >>
  BY DEF Conclude, InWorkspace, RunStep, world, counters, Goto
<1>2. PICK verified \in {Verified, FALSE} :
        LET diff == IF verified THEN run.diff ELSE "incomplete" IN
        \/ run' = PostCodexFailure(run.commands)
        \/ run' = IF run.harness # "none"
                  THEN [HarnessVerdict(run) EXCEPT !.diff = IF @ = "incomplete" THEN @ ELSE diff]
                  ELSE IF ~verified
                  THEN [Judged("harness_error", "evidence_error", "harness_failure", "none")
                        EXCEPT !.diff = diff]
                  ELSE IF run.diff = "binary" THEN PostCodexFailure(run.commands)
                  ELSE QualityVerdict
  BY DEF Conclude
<1>3. CASE verified
  BY <1>1, <1>2, <1>3
<1>4. CASE ~verified
  BY <1>1, <1>2, <1>4
<1> QED
  BY <1>3, <1>4

(* The steps between the Provider and the pair that read no clock.         *)
Timeless ==
  \/ AfterFailure \/ JudgeOutput \/ CollectDiff \/ PrepareGates \/ GateNotStarted \/ Conclude
  \/ RemoveWorkspace

(* They keep the clock and what was read of it.                            *)
LEMMA TimelessStep ==
  ASSUME WorldTyped, Timeless
  PROVE  /\ UNCHANGED clock /\ pc \in Called /\ pc' \in Called \ {"gate_running"}
         /\ SameReadings(run', run)
<1> USE DEF WorldTyped, RunFields, SameReadings, InWorkspace, RunStep, world, Goto, Called,
            Judging
<1>1. CASE AfterFailure
  <2>1. CASE \E d : run' = [ProviderTerminal(run.codex.kind) EXCEPT !.diff = d]
    <3>1. PICK overall, kind, outcome, reason :
            ProviderTerminal(run.codex.kind) = Judged(overall, kind, outcome, reason)
      BY DEF ProviderTerminal
    <3> QED
      BY <1>1, <2>1, <3>1, JudgedParts DEF AfterFailure
  <2>2. CASE run' = PostCodexFailure(<< >>)
    BY <1>1, <2>2, FailureParts DEF AfterFailure
  <2> QED
    BY <1>1, <2>1, <2>2 DEF AfterFailure
<1>2. CASE JudgeOutput
  <2>1. CASE run' = PostCodexFailure(<< >>)
    BY <1>2, <2>1, FailureParts DEF JudgeOutput
  <2>2. CASE run' # PostCodexFailure(<< >>)
    BY <1>2, <2>2 DEF JudgeOutput, Rejected, Judged
  <2> QED
    BY <2>1, <2>2
<1>3. CASE CollectDiff
  BY <1>3 DEF CollectDiff, Rejected, Judged
<1>4. CASE PrepareGates
  BY <1>4, FailureParts DEF PrepareGates
<1>5. CASE GateNotStarted
  <2>1. CASE run' = Collect(run, "evidence_error", TRUE) /\ pc' = "after_gates"
    BY <1>5, <2>1 DEF Collect, GateNotStarted
  <2>2. CASE run' = PostCodexFailure(<< >>) /\ pc' = "remove"
    BY <1>5, <2>2, FailureParts DEF GateNotStarted
  <2> QED
    BY <1>5, <2>1, <2>2 DEF GateNotStarted
<1>6. CASE Conclude
  <2>1. CASE \E d : run' = [HarnessVerdict(run) EXCEPT !.diff = IF @ = "incomplete" THEN @ ELSE d]
    BY <1>6, <2>1, ConcludeForms DEF HarnessVerdict, Judged
  <2>2. CASE run' = [Judged("harness_error", "evidence_error", "harness_failure", "none")
                     EXCEPT !.diff = "incomplete"]
    BY <1>6, <2>2, ConcludeForms DEF Judged
  <2>3. CASE run' = PostCodexFailure(run.commands)
    BY <1>6, <2>3, ConcludeForms, FailureParts
  <2>4. CASE run' = QualityVerdict
    BY <1>6, <2>4, ConcludeForms DEF QualityVerdict, Judged
  <2> QED
    BY <1>6, <2>1, <2>2, <2>3, <2>4, ConcludeForms
<1>7. CASE RemoveWorkspace
  BY <1>7 DEF RemoveWorkspace, Judged
<1> QED
  BY <1>1, <1>2, <1>3, <1>4, <1>5, <1>6, <1>7 DEF Timeless

(* Every step keeps ClockInv.                                              *)
LEMMA ClockStep ==
  ASSUME WorldTyped, ClockInv, [Next]_vars
  PROVE  ClockInv'
<1> USE DEF Called, Judging, Undecided, Calling
<1>1. CASE pc' \notin Undecided \cup {"remove", "write"}
  BY <1>1 DEF ClockInv
<1>2. CASE Refuse \/ PrepareFails \/ AbandonRun \/ Reload \/ AppendFails \/ Interrupt \/ Crash
  <2>1. pc' = "idle"
    BY <1>2 DEF Refuse, PrepareFails, AbandonRun, Reload, AppendFails, Interrupt, Crash, Leave
  <2> QED
    BY <1>1, <2>1
<1>3. CASE \/ CreateCampaign \/ BeginRun \/ StopForChangedInput \/ LoopEnds \/ AppendTerminal
           \/ AppendNotRun \/ AppendFinished \/ Invoke \/ StopCheck \/ WriteOutputs
  <2>1. pc' \in {"check", "append_started", "tail", "stop_check", "reload", "create",
                 "append_terminal", "idle"}
    BY <1>3 DEF CreateCampaign, BeginRun, StopForChangedInput, LoopEnds, AppendTerminal,
                AppendNotRun, AppendFinished, Invoke, StopCheck, WriteOutputs, Goto, Leave
  <2> QED
    BY <1>1, <2>1
<1>4. CASE AppendStarted
  <2>1. run' = FreshRun /\ pc' = "prepare" /\ clock' = clock
    BY <1>4 DEF AppendStarted, AppendStep, Goto
  <2> QED
    BY <2>1 DEF ClockInv, FreshRun
<1>5. CASE PrepareWorkspace
  <2>1. run' = [run EXCEPT !.workspace = "removed"] /\ pc = "prepare" /\ pc' = "provider"
        /\ clock' = clock
    BY <1>5 DEF PrepareWorkspace, RunStep, world, Goto
  <2> QED
    BY <2>1 DEF ClockInv, WorldTyped, RunFields
<1>6. CASE InvokeProvider
  <2>1. run' = [run EXCEPT !.codexBegan = clock] /\ pc = "provider" /\ pc' = "running"
        /\ clock' = clock
    BY <1>6 DEF InvokeProvider, RunStep, world, Goto
  <2> QED
    BY <2>1 DEF ClockInv, WorldTyped, RunFields
<1>7. CASE ProviderStep
  <2>1. CASE pc' = "abandon"
    BY <1>1, <2>1
  <2>2. ASSUME NEW e, NEW began, clock = 1 => began = 1,
               run' = [run EXCEPT !.codex = Summary(e), !.codexBegan = began,
                                  !.codexEnded = clock],
               pc' \in {"judge", "after_failure"}, clock' = clock, pc \in {"provider", "running"}
        PROVE  ClockInv'
    BY <2>2 DEF ClockInv, WorldTyped, RunFields
  <2> QED
    BY <1>7, <2>1, <2>2, HandedOver
<1>8. CASE Timeless
  BY <1>8, TimelessStep DEF ClockInv, SameReadings
<1>9. CASE StartGate
  <2>1. run' = [run EXCEPT !.gateBegan = clock, !.launched = @ + 1, !.gatesAt = @ \cup {tree}]
        /\ pc = "gate" /\ pc' = "gate_running" /\ clock' = clock
    BY <1>9 DEF StartGate, InWorkspace, RunStep, world, Goto
  <2> QED
    BY <2>1 DEF ClockInv, WorldTyped, RunFields
<1>10. CASE GateEnds
  <2>1. pc = "gate_running" /\ clock' = clock
    BY <1>10, GateEndsForms
  <2>2. ASSUME NEW c, clock = 1
        PROVE  LET s == Recorded(c) IN
               /\ s.began = 1 /\ s.inOrder = TRUE /\ s.gatesEnded = 1
               /\ s.codexBegan = 1 /\ s.codexEnded = 1 /\ RunFields \subseteq DOMAIN s
    <3>1. /\ run.began = 1 /\ run.inOrder = TRUE /\ run.codexBegan = 1 /\ run.codexEnded = 1
          /\ run.gateBegan = 1
      BY <2>1, <2>2 DEF ClockInv
    <3>2. Recorded(c).inOrder = (run.inOrder /\ run.codexEnded <= run.gateBegan)
      BY RecordedParts DEF WorldTyped
    <3>3. run.codexEnded <= run.gateBegan
      BY <3>1
    <3>4. Recorded(c).inOrder = TRUE
      BY <3>1, <3>2, <3>3, Zenon
    <3> QED
      BY <2>2, <3>1, <3>4, RecordedParts DEF WorldTyped
  <2>3. ASSUME pc' \in {"after_gates", "gate"},
               clock = 1 => /\ run'.began = 1 /\ run'.inOrder = TRUE /\ run'.gatesEnded = 1
                            /\ run'.codexBegan = 1 /\ run'.codexEnded = 1
        PROVE  ClockInv'
    BY <2>1, <2>3 DEF ClockInv
  <2>4. CASE run' = PostCodexFailure(<< >>) /\ pc' = "remove"
    BY <2>1, <2>4, FailureParts DEF ClockInv, WorldTyped, SameReadings
  <2>5. ASSUME NEW c, NEW harness, NEW toolchain,
               run' = Collect(Recorded(c), harness, toolchain), pc' = "after_gates"
        PROVE  ClockInv'
    <3>1. clock = 1 => SameReadings(run', Recorded(c))
      BY <2>2, <2>5 DEF Collect, SameReadings, RunFields
    <3>2. clock = 1 => run'.inOrder = TRUE
      BY <2>2, <3>1, Zenon DEF SameReadings
    <3> QED
      BY <2>2, <2>3, <2>5, <3>1, <3>2 DEF SameReadings
  <2>6. ASSUME NEW c, run' = Recorded(c), pc' \in {"after_gates", "gate"}
        PROVE  ClockInv'
    <3>1. clock = 1 => /\ run'.began = 1 /\ run'.inOrder = TRUE /\ run'.gatesEnded = 1
                       /\ run'.codexBegan = 1 /\ run'.codexEnded = 1
      BY <2>2, <2>6, Zenon
    <3> QED
      BY <2>3, <2>6, <3>1
  <2> QED
    BY <1>10, <2>4, <2>5, <2>6, GateEndsForms
<1>11. CASE SetClockBack
  BY <1>11 DEF SetClockBack, ClockInv
<1>12. CASE LateWrite \/ UNCHANGED vars
  <2>1. UNCHANGED << clock, pc, run >>
    BY <1>12 DEF LateWrite, vars, world
  <2> QED
    BY <2>1 DEF ClockInv
<1> QED
  BY <1>2, <1>3, <1>4, <1>5, <1>6, <1>7, <1>8, <1>9, <1>10, <1>11, <1>12
  DEF Next, ProgramStep, Done, Timeless, ProviderStep

(* What the verdict of a run rests on.                                     *)
SameDecision(s, r) ==
  /\ s.codex = r.codex /\ s.commands = r.commands /\ s.diff = r.diff /\ SameVerdict(s, r)

(* Two records that agree in it agree in what is decided.                  *)
LEMMA SameIsDecided ==
  ASSUME NEW s, NEW r, SameDecision(s, r)
  PROVE  /\ Decided(r) => Decided(s)
         /\ CommandsFit(r) => CommandsFit(s)
         /\ CommandsKnown(r) /\ s.harness = r.harness => CommandsKnown(s)
         /\ \A overall, kind, outcome, reason, metrics :
              Verdict(r, overall, kind, outcome, reason, metrics)
                => Verdict(s, overall, kind, outcome, reason, metrics)
<1> USE DEF SameDecision, SameVerdict, Verdict, AllNormal, AllPassed, HarnessReason
<1>1. /\ ByProvider(r) => ByProvider(s)
      /\ ByRunner(r) => ByRunner(s)
      /\ ByPolicy(r) => ByPolicy(s)
      /\ ByHandler(r) => ByHandler(s)
  BY DEF ByProvider, ByRunner, ByPolicy, ByHandler
<1>2. /\ ByCollection(r) => ByCollection(s)
      /\ ByGate(r) => ByGate(s)
      /\ ByQuality(r) => ByQuality(s)
  BY DEF ByCollection, ByGate, ByQuality
<1>3. CommandsFit(r) => CommandsFit(s)
  BY DEF CommandsFit
<1>4. CommandsKnown(r) /\ s.harness = r.harness => CommandsKnown(s)
  BY <1>3 DEF CommandsKnown
<1> QED
  BY <1>1, <1>2, <1>3, <1>4 DEF Decided

(* No commands, no gate that remains.                                      *)
LEMMA NoCommands ==
  ASSUME NEW r, r.commands = << >>
  PROVE  /\ CommandsFit(r) /\ AllNormal(r) /\ AllPassed(r)
         /\ HarnessReason(r) = "pre_gate_harness_failure"
         /\ r.harness # "process_cleanup_error" => CommandsKnown(r)
<1>1. Elements(r.commands) = {}
  BY DEF Elements
<1> QED
  BY <1>1 DEF CommandsFit, CommandsKnown, AllNormal, AllPassed, HarnessReason

(* The commands of gates that all ended by themselves.                     *)
LEMMA OrderedCommands ==
  ASSUME InGateOrder, run.codex.kind = "none"
  PROVE  CommandsFit(run) /\ AllNormal(run) /\ \A c \in Elements(run.commands) : c.cleared
<1>1. \A c \in Elements(run.commands) : Normal(c)
  BY DEF InGateOrder, Elements
<1>2. /\ run.commands = << >> => Elements(run.commands) = {}
      /\ run.commands # << >> => 1 \in DOMAIN run.commands
  BY DEF InGateOrder, Elements
<1>3. run.commands # << >> => run.commands[1].gate = "acceptance"
  BY <1>2, GatesAssumption DEF InGateOrder
<1> QED
  BY <1>1, <1>2, <1>3 DEF CommandsFit, AllNormal, Normal, InGateOrder

(* Nothing is said of the program outside the body of the loop.            *)
LEMMA OutsideDecision ==
  ASSUME pc' \notin Undecided \cup {"remove", "write", "append_terminal"}
  PROVE  DecisionInv'
BY DEF DecisionInv, Undecided, Calling, Judging, Called

(* Up to the end of the Provider the verdict is the one of a run that      *)
(* broke off.                                                              *)
LEMMA CallingDecision ==
  ASSUME WorldTyped, ClockInv, DecisionInv,
         AppendStarted \/ PrepareWorkspace \/ InvokeProvider \/ ProviderStep
  PROVE  DecisionInv'
<1> USE DEF Undecided, Calling, Judging, Called, Verdict, Goto
<1>1. CASE AppendStarted
  <2>1. run' = FreshRun /\ pc' = "prepare"
    BY <1>1 DEF AppendStarted
  <2>2. /\ run'.overall = "harness_error" /\ run'.kind = "evidence_error"
        /\ run'.outcome = "harness_failure" /\ run'.reason = "pre_gate_harness_failure"
        /\ run'.metrics = "none" /\ run'.diff = "incomplete"
    BY <2>1 DEF FreshRun
  <2>3. run'.counted = FALSE
    BY <2>1 DEF FreshRun
  <2>4. ("harness_failure" \in CountedOutcomes) = FALSE
    BY DEF CountedOutcomes
  <2>5. run'.counted = ("harness_failure" \in CountedOutcomes)
    BY <2>3, <2>4, Zenon
  <2> QED
    BY <2>1, <2>2, <2>5 DEF DecisionInv
<1>2. CASE PrepareWorkspace
  <2>1. run' = [run EXCEPT !.workspace = "removed"] /\ pc = "prepare" /\ pc' = "provider"
    BY <1>2 DEF PrepareWorkspace
  <2> QED
    BY <2>1 DEF DecisionInv, WorldTyped, RunFields
<1>3. CASE InvokeProvider
  <2>1. run' = [run EXCEPT !.codexBegan = clock] /\ pc = "provider" /\ pc' = "running"
    BY <1>3 DEF InvokeProvider
  <2> QED
    BY <2>1 DEF DecisionInv, WorldTyped, RunFields
<1>4. CASE ProviderStep
  <2>1. CASE pc' = "abandon"
    BY <2>1, OutsideDecision
  <2>2. ASSUME NEW e, NEW began, CodexFits(Summary(e)), pc \in {"provider", "running"},
               run' = [run EXCEPT !.codex = Summary(e), !.codexBegan = began,
                                  !.codexEnded = clock],
               pc' = IF e.kind = "none" THEN "judge" ELSE "after_failure"
        PROVE  DecisionInv'
    <3>1. /\ run'.codex = Summary(e) /\ run'.codex.kind = e.kind
          /\ run'.diff = "incomplete" /\ run'.workspace = "removed"
          /\ Verdict(run', "harness_error", "evidence_error", "harness_failure",
                     "pre_gate_harness_failure", "none")
      BY <2>2 DEF DecisionInv, WorldTyped, RunFields, Summary
    <3> QED
      BY <2>2, <3>1 DEF DecisionInv
  <2> QED
    BY <1>4, <2>1, <2>2, HandedOver
<1> QED
  BY <1>1, <1>2, <1>3, <1>4

(* A verdict of the part before the gates.                                 *)
LEMMA EarlyDecision ==
  ASSUME WorldTyped, DecisionInv, CommandsInv, AfterFailure \/ JudgeOutput \/ CollectDiff
  PROVE  DecisionInv'
<1> USE DEF Undecided, Calling, Judging, Called, Goto, WorldTyped
<1>0. /\ run.commands = << >> /\ run.harness = "none" /\ CodexFits(run.codex)
      /\ run.workspace = "removed" /\ run.metrics = "none"
      /\ Verdict(run, "harness_error", "evidence_error", "harness_failure",
                 "pre_gate_harness_failure", "none")
  BY DEF DecisionInv, CommandsInv, BeforeGates, AfterFailure, JudgeOutput, CollectDiff, Verdict
<1>r. ASSUME pc' = "remove", run'.commands = << >>, run'.harness = "none",
             run'.codex = run.codex, run'.workspace = "removed",
             Remaining(run') \/ Decided(run')
      PROVE  DecisionInv'
  BY <1>0, <1>r, NoCommands DEF DecisionInv
<1>h. ASSUME run' = PostCodexFailure(<< >>), pc' = "remove"
      PROVE  DecisionInv'
  <2>1. ~\E c \in Elements(<< >>) : ~Normal(c)
    BY DEF Elements
  <2>2. /\ run'.codex = run.codex /\ run'.workspace = "removed" /\ run'.harness = "none"
        /\ run'.commands = << >> /\ run'.diff = "incomplete"
        /\ Verdict(run', "harness_error", "evidence_error", "harness_failure",
                   "pre_gate_harness_failure", "none")
    BY <1>0, <1>h, <2>1, FailureParts
  <2>3. ByHandler(run') \/ ByCollection(run')
    BY <2>2, NoCommands DEF ByHandler, ByCollection
  <2> QED
    BY <1>h, <1>r, <2>2, <2>3 DEF Decided
<1>1. ASSUME NEW d, AfterFailure, run' = [ProviderTerminal(run.codex.kind) EXCEPT !.diff = d]
      PROVE  DecisionInv'
  <2> DEFINE kind == run.codex.kind
  <2>1. run' = [ProviderTerminal(kind) EXCEPT !.diff = d]
    BY <1>1
  <2>2. pc' = "remove" /\ kind # "none" /\ kind \in Kinds
    BY <1>1, <1>0 DEF AfterFailure, DecisionInv, CodexFits
  <2>3. ASSUME NEW overall, NEW outcome, NEW reason,
               ProviderTerminal(kind) = Judged(overall, kind, outcome, reason)
        PROVE  /\ run'.commands = << >> /\ run'.harness = "none" /\ run'.codex = run.codex
               /\ run'.workspace = "removed"
               /\ Verdict(run', overall, kind, outcome, reason, "none")
    <3> DEFINE j == Judged(overall, kind, outcome, reason)
    <3>1. /\ RunFields \subseteq DOMAIN j /\ j.codex = run.codex /\ j.commands = << >>
          /\ j.workspace = "removed" /\ j.harness = "none"
          /\ Verdict(j, overall, kind, outcome, reason, "none")
      BY <1>0, JudgedParts
    <3> HIDE DEF j
    <3>2. /\ run'.commands = j.commands /\ run'.harness = j.harness /\ run'.codex = j.codex
          /\ run'.workspace = j.workspace /\ SameVerdict(run', j)
      BY <2>1, <2>3, <3>1 DEF j, RunFields, SameVerdict
    <3> QED
      BY <3>1, <3>2 DEF Verdict, SameVerdict
  <2>4. CASE kind = "process_cleanup_error"
    <3>1. ProviderTerminal(kind)
            = Judged("harness_error", kind, "cleanup_failure", "pre_gate_harness_failure")
      BY <2>4 DEF ProviderTerminal
    <3>2. ~run.codex.cleared
      BY <1>0, <2>4 DEF CodexFits
    <3> HIDE DEF kind
    <3>3. Remaining(run')
      BY <2>3, <3>1, <3>2 DEF Remaining
    <3> QED
      BY <1>r, <2>2, <2>3, <3>1, <3>3
  <2>5. CASE kind \in {"unsupported_platform", "evidence_error"}
    <3>1. ProviderTerminal(kind)
            = Judged("harness_error", kind, "harness_failure", "pre_gate_harness_failure")
      BY <2>5 DEF ProviderTerminal
    <3>2. ByRunner(run')
      BY <2>3, <2>5, <3>1 DEF ByRunner
    <3> HIDE DEF kind
    <3> QED
      BY <1>r, <2>2, <2>3, <3>1, <3>2 DEF Decided
  <2>6. CASE kind = "provider_timeout"
    <3>1. ProviderTerminal(kind)
            = Judged("provider_error", kind, "provider_timeout", "provider_timeout")
      BY <2>6 DEF ProviderTerminal
    <3>2. ByProvider(run')
      BY <2>3, <2>6, <3>1 DEF ByProvider, ProviderKinds
    <3> HIDE DEF kind
    <3> QED
      BY <1>r, <2>2, <2>3, <3>1, <3>2 DEF Decided
  <2>7. CASE kind \notin {"process_cleanup_error", "unsupported_platform", "evidence_error",
                          "provider_timeout"}
    <3>1. ProviderTerminal(kind)
            = Judged("provider_error", kind, "provider_failure", "provider_failure")
      BY <2>7 DEF ProviderTerminal
    <3>2. kind \in ProviderKinds
      BY <2>2, <2>7 DEF Kinds, HarnessKinds, ProviderKinds
    <3>3. ByProvider(run')
      BY <2>3, <2>7, <3>1, <3>2 DEF ByProvider
    <3> HIDE DEF kind
    <3> QED
      BY <1>r, <2>2, <2>3, <3>1, <3>3 DEF Decided
  <2> QED
    BY <2>4, <2>5, <2>6, <2>7
<1>p. ASSUME NEW d, d # "incomplete", run.codex.kind = "none", pc' = "remove",
             run' = [Rejected EXCEPT !.diff = d]
      PROVE  DecisionInv'
  <2>1. /\ RunFields \subseteq DOMAIN Rejected /\ Rejected.codex = run.codex
        /\ Rejected.commands = << >> /\ Rejected.workspace = "removed"
        /\ Rejected.harness = "none"
        /\ Verdict(Rejected, "rejected", "output_contract_violation",
                   "output_contract_violation", "output_contract_violation", "none")
    BY <1>0, JudgedParts DEF Rejected
  <2>2. /\ run'.commands = << >> /\ run'.harness = "none" /\ run'.codex = run.codex
        /\ run'.workspace = "removed" /\ SameVerdict(run', Rejected) /\ run'.diff = d
    BY <1>p, <2>1 DEF RunFields, SameVerdict
  <2>3. ByPolicy(run')
    BY <1>p, <2>1, <2>2 DEF ByPolicy, Verdict, SameVerdict
  <2> QED
    BY <1>r, <1>p, <2>2, <2>3 DEF Decided
<1>2. CASE JudgeOutput
  <2>1. pc = "judge" /\ run.codex.kind = "none" /\ run.diff = "incomplete"
    BY <1>2 DEF JudgeOutput, DecisionInv
  <2>2. CASE run' = [run EXCEPT !.secureAt = tree] /\ pc' = "diff"
    <3>1. /\ SameDecision(run', run) /\ run'.workspace = run.workspace
          /\ run'.harness = run.harness
      BY <2>2 DEF SameDecision, SameVerdict, RunFields
    <3> QED
      BY <1>0, <2>1, <2>2, <3>1, SameIsDecided DEF DecisionInv, SameDecision
  <2>3. CASE run' = [Rejected EXCEPT !.diff = "rejected"] /\ pc' = "remove"
    BY <1>p, <2>1, <2>3
  <2> QED
    BY <1>2, <1>h, <2>2, <2>3 DEF JudgeOutput
<1>4. CASE AfterFailure
  BY <1>1, <1>4, <1>h DEF AfterFailure
<1>3. CASE CollectDiff
  <2>1. pc = "diff" /\ run.codex.kind = "none" /\ run.diff = "incomplete"
    BY <1>3 DEF CollectDiff, DecisionInv
  <2>2. CASE run' = run /\ pc' = "remove"
    <3>1. ByCollection(run')
      BY <1>0, <2>1, <2>2, NoCommands DEF ByCollection
    <3> QED
      BY <1>0, <1>r, <2>2, <3>1 DEF Decided
  <2>3. ASSUME NEW d \in {"complete", "binary"}, pc' = "remove",
               run' = [Rejected EXCEPT !.diff = d]
        PROVE  DecisionInv'
    BY <1>p, <2>1, <2>3
  <2>4. ASSUME NEW d \in {"complete", "binary"}, pc' = "prepare_gates",
               run' = [run EXCEPT !.diff = d, !.diffAt = tree]
        PROVE  DecisionInv'
    <3>1. /\ run'.codex = run.codex /\ run'.workspace = run.workspace /\ run'.diff = d
          /\ SameVerdict(run', run)
      BY <2>4 DEF SameVerdict, RunFields
    <3> QED
      BY <1>0, <2>1, <2>4, <3>1 DEF DecisionInv, SameVerdict, Verdict
  <2> QED
    BY <1>3, <2>2, <2>3, <2>4 DEF CollectDiff
<1> QED
  BY <1>2, <1>3, <1>4

(* A failure after the Provider without commands is one of the collection. *)
LEMMA FailureDecided ==
  ASSUME WorldTyped, DecisionInv, pc \in Judging, run.harness = "none", pc' = "remove",
         run' = PostCodexFailure(<< >>)
  PROVE  DecisionInv'
<1>1. run.codex.kind = "none" /\ CodexFits(run.codex) /\ run.workspace = "removed"
  BY DEF DecisionInv, Judging, Called, Undecided
<1>2. ~\E c \in Elements(<< >>) : ~Normal(c)
  BY DEF Elements
<1>3. /\ run'.codex = run.codex /\ run'.workspace = "removed" /\ run'.harness = "none"
      /\ run'.commands = << >> /\ run'.diff = "incomplete"
      /\ Verdict(run', "harness_error", "evidence_error", "harness_failure",
                 "pre_gate_harness_failure", "none")
  BY <1>1, <1>2, FailureParts DEF WorldTyped
<1>4. ByCollection(run')
  BY <1>1, <1>3, NoCommands DEF ByCollection
<1> QED
  BY <1>1, <1>3, <1>4, NoCommands DEF DecisionInv, Undecided, Calling, Judging, Called, Decided

(* The command of a gate that ended is the next one of a list that fits.   *)
LEMMA RecordedCommands ==
  ASSUME WorldTyped, InGateOrder, Len(run.commands) < Len(Gates), run.codex.kind = "none",
         NEW c, NEW s, s.commands = Recorded(c).commands, s.codex = run.codex
  PROVE  /\ CommandsFit(s) /\ s.commands # << >>
         /\ \A x \in Elements(s.commands) : Normal(x) \/ x = CommandOf(c)
         /\ CommandOf(c) \in Elements(s.commands)
<1> DEFINE S == {run.commands[i] : i \in DOMAIN run.commands} \cup {CommandOf(c)}
           n == Len(run.commands)
<1>1. s.commands = Append(run.commands, CommandOf(c)) /\ run.commands \in Seq(S)
      /\ CommandOf(c) \in S
  BY RecordedParts DEF InGateOrder, WorldTyped
<1> HIDE DEF S
<1>2. /\ s.commands \in Seq(S) /\ Len(s.commands) = n + 1 /\ n \in Nat
      /\ s.commands[n + 1] = CommandOf(c)
      /\ \A i \in 1 .. n : s.commands[i] = run.commands[i]
  BY <1>1
<1>3. \A i \in 1 .. n + 1 : i = n + 1 \/ i \in 1 .. n
  BY <1>2
<1>4. \A x \in Elements(s.commands) : Normal(x) \/ x = CommandOf(c)
  BY <1>2, <1>3 DEF Elements, InGateOrder
<1>5. CommandOf(c) \in Elements(s.commands) /\ 1 \in DOMAIN s.commands /\ s.commands # << >>
  BY <1>2 DEF Elements
<1>6. s.commands[1].gate = "acceptance"
  <2>1. CASE n = 0
    <3>1. s.commands[1] = CommandOf(c) /\ CommandOf(c).gate = Gates[1]
      BY <1>2, <2>1 DEF CommandOf
    <3> QED
      BY <3>1, GatesAssumption
  <2>2. CASE n # 0
    <3>1. 1 \in 1 .. n /\ s.commands[1] = run.commands[1]
      BY <1>2, <2>2
    <3> QED
      BY <3>1, GatesAssumption DEF InGateOrder
  <2> QED
    BY <2>1, <2>2
<1>7. s.commands \in Seq({s.commands[i] : i \in DOMAIN s.commands})
  BY <1>2
<1> QED
  BY <1>4, <1>5, <1>6, <1>7 DEF CommandsFit

(* While the gates run, their commands are in order or a failure is known. *)
LEMMA GatingDecision ==
  ASSUME WorldTyped, DecisionInv, CommandsInv,
         PrepareGates \/ StartGate \/ GateNotStarted \/ GateEnds
  PROVE  DecisionInv'
<1> USE DEF Undecided, Calling, Judging, Called, Goto, WorldTyped
<1>0. /\ pc \in {"prepare_gates", "gate", "gate_running"}
      /\ run.harness = "none" /\ CodexFits(run.codex) /\ run.codex.kind = "none"
      /\ run.workspace = "removed" /\ run.diff \in {"complete", "binary"}
      /\ Verdict(run, "harness_error", "evidence_error", "harness_failure",
                 "pre_gate_harness_failure", "none")
      /\ pc # "prepare_gates" => InGateOrder /\ Len(run.commands) < Len(Gates)
  BY DEF DecisionInv, CommandsInv, BeforeGates, PrepareGates, StartGate, GateNotStarted,
         GateEnds
<1>f. CASE run' = PostCodexFailure(<< >>) /\ pc' = "remove"
  BY <1>0, <1>f, FailureDecided
<1>g. ASSUME pc' \in {"gate", "gate_running", "after_gates"}, run'.codex = run.codex,
             run'.workspace = run.workspace, SameVerdict(run', run),
             pc' # "after_gates" \/ run'.harness = "none" => run'.diff = run.diff,
             pc' = "after_gates" => CommandsKnown(run')
      PROVE  DecisionInv'
  BY <1>0, <1>g DEF DecisionInv, SameVerdict, Verdict
<1>1. CASE PrepareGates
  <2>1. CASE UNCHANGED run /\ pc' = "gate"
    BY <1>g, <2>1 DEF SameVerdict
  <2> QED
    BY <1>1, <1>f, <2>1 DEF PrepareGates
<1>2. CASE StartGate
  <2>1. /\ run' = [run EXCEPT !.gateBegan = clock, !.launched = @ + 1, !.gatesAt = @ \cup {tree}]
        /\ pc' = "gate_running"
    BY <1>2 DEF StartGate
  <2>2. /\ run'.codex = run.codex /\ run'.workspace = run.workspace /\ run'.diff = run.diff
        /\ SameVerdict(run', run)
    BY <2>1 DEF SameVerdict, RunFields
  <2> QED
    BY <1>g, <2>1, <2>2
<1>3. CASE GateNotStarted
  <2>1. CASE run' = Collect(run, "evidence_error", TRUE) /\ pc' = "after_gates"
    <3>1. /\ run'.codex = run.codex /\ run'.workspace = run.workspace
          /\ SameVerdict(run', run) /\ run'.commands = run.commands
          /\ run'.harness = "evidence_error"
      BY <2>1 DEF Collect, SameVerdict, RunFields
    <3>2. CommandsFit(run) /\ \A c \in Elements(run.commands) : c.cleared
      BY <1>0, <1>3, OrderedCommands DEF GateNotStarted
    <3>3. CommandsKnown(run')
      BY <3>1, <3>2 DEF CommandsKnown, CommandsFit, AllNormal
    <3> QED
      BY <1>g, <2>1, <3>1, <3>3
  <2> QED
    BY <1>3, <1>f, <2>1 DEF GateNotStarted
<1>4. CASE GateEnds
  <2>0. InGateOrder /\ Len(run.commands) < Len(Gates) /\ pc = "gate_running"
    BY <1>0, <1>4, GateEndsForms
  <2>1. ASSUME NEW c \in CommandResults, NEW toolchain \in BOOLEAN, pc' = "after_gates",
               run' = Collect(Recorded(c), IF c.harness = "none" THEN "evidence_error"
                                           ELSE c.harness, toolchain)
        PROVE  DecisionInv'
    <3>1. /\ RunFields \subseteq DOMAIN Recorded(c) /\ SameVerdict(Recorded(c), run)
          /\ Recorded(c).codex = run.codex /\ Recorded(c).workspace = run.workspace
      BY RecordedParts
    <3>2. /\ run'.codex = run.codex /\ run'.workspace = run.workspace
          /\ SameVerdict(run', run) /\ run'.commands = Recorded(c).commands
          /\ run'.harness = IF c.harness = "none" THEN "evidence_error" ELSE c.harness
      BY <2>1, <3>1 DEF Collect, SameVerdict, RunFields
    <3>3. /\ CommandsFit(run')
          /\ \A x \in Elements(run'.commands) : Normal(x) \/ x = CommandOf(c)
          /\ CommandOf(c) \in Elements(run'.commands)
      BY <1>0, <2>0, <3>2, RecordedCommands
    <3>4. /\ CommandOf(c).cleared = c.cleared
          /\ ~c.cleared <=> c.harness = "process_cleanup_error"
      BY <2>1 DEF CommandOf, CommandResults, GroupRemains, Cleared
    <3>5. CommandsKnown(run')
      BY <3>2, <3>3, <3>4 DEF CommandsKnown, Normal
    <3>6. run'.harness # "none"
      BY <3>2
    <3> QED
      BY <1>g, <2>1, <3>2, <3>5, <3>6
  <2>2. ASSUME NEW c \in CommandResults, c.harness = "none", c.status \in Completed,
               run' = Recorded(c), pc' \in {"gate", "after_gates"}
        PROVE  DecisionInv'
    <3>1. /\ SameVerdict(run', run) /\ run'.diff = run.diff /\ run'.harness = "none"
          /\ run'.codex = run.codex /\ run'.workspace = run.workspace
      BY <1>0, <2>2, RecordedParts
    <3>2. /\ CommandsFit(run')
          /\ \A x \in Elements(run'.commands) : Normal(x) \/ x = CommandOf(c)
      BY <1>0, <2>0, <2>2, <3>1, RecordedCommands
    <3>3. CommandOf(c).cleared = c.cleared /\ c.cleared
      BY <2>2 DEF CommandOf, CommandResults, GroupRemains, Cleared
    <3>4. CommandsKnown(run')
      BY <3>1, <3>2, <3>3 DEF CommandsKnown, Normal
    <3> QED
      BY <1>g, <2>2, <3>1, <3>4
  <2> QED
    BY <1>4, <1>f, <2>1, <2>2, GateEndsForms
<1> QED
  BY <1>1, <1>2, <1>3, <1>4

(* The conclusion decides, or knows of a group that remains.               *)
LEMMA ConcludeDecision ==
  ASSUME WorldTyped, DecisionInv, CommandsInv, Conclude
  PROVE  DecisionInv'
<1> USE DEF Undecided, Calling, Judging, Called, WorldTyped
<1>0. /\ pc = "after_gates" /\ pc' = "remove" /\ CodexFits(run.codex)
      /\ run.codex.kind = "none" /\ run.workspace = "removed" /\ run.metrics = "none"
      /\ CommandsKnown(run)
      /\ run.harness = "none" => run.diff \in {"complete", "binary"}
  BY ConcludeForms DEF DecisionInv, Verdict
<1>n. ASSUME run.harness = "none"
      PROVE  run.commands # << >> /\ AllNormal(run)
  <2>1. InGateOrder /\ Len(run.commands) = Len(Gates)
    BY <1>0, <1>n DEF CommandsInv
  <2>2. Len(Gates) # 0
    BY GatesAssumption
  <2> QED
    BY <1>0, <2>1, <2>2, OrderedCommands
<1>r. ASSUME run'.commands = run.commands, run'.harness = run.harness, run'.codex = run.codex,
             run'.workspace = "removed", Remaining(run') \/ Decided(run')
      PROVE  DecisionInv'
  <2>1. CommandsKnown(run')
    BY <1>0, <1>r DEF CommandsKnown, CommandsFit, AllNormal
  <2> QED
    BY <1>0, <1>r, <2>1 DEF DecisionInv
<1>j. ASSUME NEW overall, NEW kind, NEW outcome, NEW reason
      PROVE  LET j == Judged(overall, kind, outcome, reason) IN
             /\ RunFields \subseteq DOMAIN j /\ j.codex = run.codex
             /\ j.commands = run.commands /\ j.harness = run.harness
             /\ j.workspace = "removed"
             /\ Verdict(j, overall, kind, outcome, reason, "none")
  BY <1>0, JudgedParts
<1>s. ASSUME NEW j, NEW d, RunFields \subseteq DOMAIN j, run' = [j EXCEPT !.diff = d]
      PROVE  /\ run'.commands = j.commands /\ run'.harness = j.harness /\ run'.codex = j.codex
             /\ run'.workspace = j.workspace /\ SameVerdict(run', j) /\ run'.diff = d
  BY <1>s DEF RunFields, SameVerdict
<1>1. ASSUME NEW d, run.harness # "none",
             run' = [HarnessVerdict(run) EXCEPT !.diff = IF @ = "incomplete" THEN @ ELSE d]
      PROVE  DecisionInv'
  <2> DEFINE abnormal == \E c \in Elements(run.commands) : ~Normal(c)
             reason == IF run.commands # << >> THEN "none" ELSE "pre_gate_harness_failure"
  <2>1. CASE run.harness = "process_cleanup_error"
    <3> DEFINE j == Judged("harness_error", "process_cleanup_error", "cleanup_failure", reason)
    <3>1. HarnessVerdict(run) = j
      BY <2>1 DEF HarnessVerdict
    <3>2. /\ run'.commands = run.commands /\ run'.harness = run.harness
          /\ run'.codex = run.codex /\ run'.workspace = "removed"
      BY <1>1, <1>j, <1>s, <3>1
    <3> QED
      BY <1>r, <2>1, <3>2 DEF Remaining
  <2>2. CASE run.harness # "process_cleanup_error" /\ abnormal
    <3> DEFINE j == Judged("harness_error", "gate_harness_error", "harness_failure", reason)
    <3>1. HarnessVerdict(run) = j
      BY <2>2 DEF HarnessVerdict
    <3>5. /\ RunFields \subseteq DOMAIN j /\ j.codex = run.codex /\ j.commands = run.commands
          /\ j.harness = run.harness /\ j.workspace = "removed"
          /\ Verdict(j, "harness_error", "gate_harness_error", "harness_failure", reason, "none")
      BY <1>j
    <3>6. run' = [j EXCEPT !.diff = IF @ = "incomplete" THEN @ ELSE d]
      BY <1>1, <3>1
    <3> HIDE DEF j, reason
    <3>2. /\ run'.commands = run.commands /\ run'.harness = run.harness
          /\ run'.codex = run.codex /\ run'.workspace = "removed" /\ SameVerdict(run', j)
          /\ Verdict(j, "harness_error", "gate_harness_error", "harness_failure", reason, "none")
      BY <1>s, <3>5, <3>6
    <3>3. \A c \in Elements(run.commands) : c.cleared
      BY <1>0, <2>2 DEF CommandsKnown
    <3>4. ByGate(run')
      BY <1>0, <2>2, <3>2, <3>3
      DEF ByGate, AllNormal, HarnessReason, Verdict, SameVerdict, reason
    <3> QED
      BY <1>r, <3>2, <3>4 DEF Decided
  <2>3. CASE run.harness # "process_cleanup_error" /\ ~abnormal
    <3> DEFINE j == Judged("harness_error", "evidence_error", "harness_failure", reason)
               h == [j EXCEPT !.diff = "incomplete"]
    <3>1. HarnessVerdict(run) = h
      BY <2>3 DEF HarnessVerdict
    <3>2. /\ RunFields \subseteq DOMAIN j /\ j.codex = run.codex /\ j.commands = run.commands
          /\ j.harness = run.harness /\ j.workspace = "removed"
          /\ Verdict(j, "harness_error", "evidence_error", "harness_failure", reason, "none")
      BY <1>j
    <3> HIDE DEF j
    <3>3. /\ RunFields \subseteq DOMAIN h /\ h.codex = run.codex /\ h.commands = run.commands
          /\ h.harness = run.harness /\ h.workspace = "removed" /\ h.diff = "incomplete"
          /\ SameVerdict(h, j)
      BY <3>2 DEF RunFields, SameVerdict
    <3>4. run' = [h EXCEPT !.diff = IF @ = "incomplete" THEN @ ELSE d]
      BY <1>1, <3>1
    <3> HIDE DEF h
    <3>5. /\ run'.commands = run.commands /\ run'.harness = run.harness
          /\ run'.codex = run.codex /\ run'.workspace = "removed" /\ run'.diff = "incomplete"
          /\ SameVerdict(run', h)
      BY <3>3, <3>4 DEF RunFields, SameVerdict
    <3>6. ByCollection(run')
      BY <1>0, <2>3, <3>2, <3>3, <3>5
      DEF ByCollection, AllNormal, HarnessReason, Verdict, SameVerdict
    <3> QED
      BY <1>r, <3>5, <3>6 DEF Decided
  <2> QED
    BY <2>1, <2>2, <2>3
<1>2. ASSUME run.harness = "none",
             run' = [Judged("harness_error", "evidence_error", "harness_failure", "none")
                     EXCEPT !.diff = "incomplete"]
      PROVE  DecisionInv'
  <2> DEFINE j == Judged("harness_error", "evidence_error", "harness_failure", "none")
  <2>1. /\ run'.commands = run.commands /\ run'.harness = run.harness
        /\ run'.codex = run.codex /\ run'.workspace = "removed" /\ SameVerdict(run', j)
        /\ run'.diff = "incomplete"
        /\ Verdict(j, "harness_error", "evidence_error", "harness_failure", "none", "none")
    BY <1>2, <1>j, <1>s
  <2>2. ByCollection(run')
    BY <1>0, <1>2, <1>n, <2>1 DEF ByCollection, AllNormal, HarnessReason, Verdict, SameVerdict
  <2> QED
    BY <1>r, <2>1, <2>2 DEF Decided
<1>3. ASSUME run' = PostCodexFailure(run.commands)
      PROVE  DecisionInv'
  <2> DEFINE abnormal == \E c \in Elements(run.commands) : ~Normal(c)
             kind == IF abnormal THEN "gate_harness_error" ELSE "evidence_error"
  <2>1. /\ run'.commands = run.commands /\ run'.harness = run.harness
        /\ run'.codex = run.codex /\ run'.workspace = "removed" /\ run'.diff = "incomplete"
        /\ Verdict(run', "harness_error", kind, "harness_failure", HarnessReason(run), "none")
    BY <1>0, <1>3, FailureParts DEF HarnessReason
  <2>2. AllNormal(run') <=> ~abnormal
    BY <2>1 DEF AllNormal
  <2>3. HarnessReason(run') = HarnessReason(run)
    BY <2>1 DEF HarnessReason
  <2>4. CASE run.harness = "process_cleanup_error"
    BY <1>r, <2>1, <2>4 DEF Remaining
  <2>5. CASE run.harness # "process_cleanup_error" /\ abnormal
    <3>1. \A c \in Elements(run'.commands) : c.cleared
      BY <1>0, <2>1, <2>5 DEF CommandsKnown
    <3>2. Verdict(run', "harness_error", "gate_harness_error", "harness_failure",
                  HarnessReason(run'), "none")
      BY <2>1, <2>3, <2>5
    <3>3. ByGate(run')
      BY <1>0, <2>1, <2>2, <2>5, <3>1, <3>2 DEF ByGate
    <3> QED
      BY <1>r, <2>1, <3>3 DEF Decided
  <2>6. CASE ~abnormal
    <3>1. Verdict(run', "harness_error", "evidence_error", "harness_failure",
                  HarnessReason(run'), "none")
      BY <2>1, <2>3, <2>6
    <3>2. ByCollection(run')
      BY <1>0, <2>1, <2>2, <2>6, <3>1 DEF ByCollection
    <3> QED
      BY <1>r, <2>1, <3>2 DEF Decided
  <2> QED
    BY <2>4, <2>5, <2>6
<1>4. ASSUME run.harness = "none", run.diff # "binary", run' = QualityVerdict
      PROVE  DecisionInv'
  <2> DEFINE passed == \A c \in Elements(run.commands) : c.status = "passed"
             overall == IF passed THEN "passed" ELSE "failed"
             kind == IF passed THEN "none" ELSE "quality_gate_failure"
             outcome == IF passed THEN "success" ELSE "quality_gate_failure"
             metrics == IF passed THEN "pass" ELSE "fail"
             j == Judged(overall, kind, outcome, "none")
  <2>1. run' = [j EXCEPT !.metrics = metrics]
    BY <1>4 DEF QualityVerdict
  <2>2. /\ RunFields \subseteq DOMAIN j /\ j.codex = run.codex /\ j.commands = run.commands
        /\ j.harness = run.harness /\ j.workspace = "removed" /\ j.diff = run.diff
        /\ Verdict(j, overall, kind, outcome, "none", "none")
    BY <1>0, JudgedParts
  <2> HIDE DEF j, metrics, overall, kind, outcome
  <2>3. /\ run'.codex = run.codex /\ run'.commands = run.commands
        /\ run'.harness = run.harness /\ run'.workspace = "removed" /\ run'.diff = run.diff
        /\ Verdict(run', overall, kind, outcome, "none", metrics)
    BY <2>1, <2>2 DEF RunFields, Verdict
  <2>4. ByQuality(run')
    BY <1>0, <1>4, <1>n, <2>3
    DEF ByQuality, AllNormal, AllPassed, overall, kind, outcome, metrics
  <2> QED
    BY <1>r, <2>3, <2>4 DEF Decided
<1> QED
  BY <1>1, <1>2, <1>3, <1>4, ConcludeForms

(* The removal of the Workspace: a cleanup failure comes first.            *)
LEMMA RemoveDecision ==
  ASSUME WorldTyped, DecisionInv, RemoveWorkspace
  PROVE  DecisionInv'
<1> USE DEF Undecided, Calling, Judging, Called, WorldTyped
<1>0. /\ pc = "remove" /\ pc' = "write" /\ CodexFits(run.codex) /\ CommandsKnown(run)
      /\ Remaining(run) \/ Decided(run)
  BY DEF DecisionInv, RemoveWorkspace, Goto
<1>1. PICK removed \in BOOLEAN :
        LET lifecycle == IF removed THEN "removed" ELSE "cleanup_failed" IN
        IF ~removed \/ Remaining(run)
        THEN run' = [[Judged("harness_error", "process_cleanup_error", "cleanup_failure",
                             HarnessReason(run))
                      EXCEPT !.metrics = "none"] EXCEPT !.workspace = lifecycle]
        ELSE run' = [run EXCEPT !.workspace = lifecycle]
  BY DEF RemoveWorkspace, Remaining, HarnessReason
<1> DEFINE lifecycle == IF removed THEN "removed" ELSE "cleanup_failed"
<1>l. lifecycle \in {"removed", "cleanup_failed"} /\ (lifecycle = "cleanup_failed") = (~removed)
  OBVIOUS
<1> HIDE DEF lifecycle
<1>c. ASSUME run'.codex = run.codex, run'.commands = run.commands, run'.workspace = lifecycle
      PROVE  /\ CommandsFit(run')
             /\ CleanupFailed(run') <=> ~removed \/ Remaining(run)
  <2>1. CommandsFit(run')
    BY <1>0, <1>c DEF CommandsKnown, CommandsFit, AllNormal
  <2>2. CleanupFailed(run') <=> ~removed \/ Remaining(run)
    BY <1>0, <1>c, <1>l DEF CleanupFailed, Remaining, CommandsKnown, CodexFits
  <2> QED
    BY <2>1, <2>2
<1>2. CASE ~removed \/ Remaining(run)
  <2> DEFINE j == Judged("harness_error", "process_cleanup_error", "cleanup_failure",
                         HarnessReason(run))
  <2>1. run' = [[j EXCEPT !.metrics = "none"] EXCEPT !.workspace = lifecycle]
    BY <1>1, <1>2 DEF lifecycle
  <2>2. /\ RunFields \subseteq DOMAIN j /\ j.codex = run.codex /\ j.commands = run.commands
        /\ Verdict(j, "harness_error", "process_cleanup_error", "cleanup_failure",
                   HarnessReason(run), run.metrics)
    BY JudgedParts
  <2> HIDE DEF j
  <2>3. /\ run'.codex = run.codex /\ run'.commands = run.commands /\ run'.workspace = lifecycle
        /\ Verdict(run', "harness_error", "process_cleanup_error", "cleanup_failure",
                   HarnessReason(run), "none")
    BY <2>1, <2>2 DEF RunFields, Verdict
  <2>4. HarnessReason(run') = HarnessReason(run)
    BY <2>3 DEF HarnessReason
  <2>5. CommandsFit(run') /\ CleanupFailed(run')
    BY <1>2, <1>c, <2>3
  <2>6. WrittenAs(run')
    BY <2>3, <2>4, <2>5 DEF WrittenAs
  <2> QED
    BY <1>0, <1>l, <2>3, <2>5, <2>6 DEF DecisionInv
<1>3. CASE removed /\ ~Remaining(run)
  <2>1. run' = [run EXCEPT !.workspace = lifecycle]
    BY <1>1, <1>3 DEF lifecycle
  <2>2. SameDecision(run', run) /\ run'.workspace = lifecycle
    BY <2>1 DEF SameDecision, SameVerdict, RunFields
  <2>3. CommandsFit(run') /\ ~CleanupFailed(run')
    BY <1>3, <1>c, <2>2 DEF SameDecision
  <2>4. Decided(run')
    BY <1>0, <1>3, <2>2, SameIsDecided
  <2>5. WrittenAs(run')
    BY <2>3, <2>4 DEF WrittenAs
  <2> QED
    BY <1>0, <1>l, <2>2, <2>3, <2>5 DEF DecisionInv, SameDecision
<1> QED
  BY <1>2, <1>3

(* Every step keeps DecisionInv.                                           *)
LEMMA DecisionStep ==
  ASSUME WorldTyped, ClockInv, DecisionInv, CommandsInv, [Next]_vars
  PROVE  DecisionInv'
<1> USE DEF Undecided, Calling, Judging, Called, Goto
<1>1. CASE Refuse \/ PrepareFails \/ AbandonRun \/ Reload \/ AppendFails \/ Interrupt \/ Crash
  <2>1. pc' = "idle"
    BY <1>1 DEF Refuse, PrepareFails, AbandonRun, Reload, AppendFails, Interrupt, Crash, Leave
  <2> QED
    BY <2>1, OutsideDecision
<1>2. CASE \/ CreateCampaign \/ BeginRun \/ StopForChangedInput \/ LoopEnds \/ AppendTerminal
           \/ AppendNotRun \/ AppendFinished \/ Invoke \/ StopCheck
  <2>1. pc' \in {"check", "append_started", "tail", "stop_check", "reload", "create"}
    BY <1>2 DEF CreateCampaign, BeginRun, StopForChangedInput, LoopEnds, AppendTerminal,
                AppendNotRun, AppendFinished, Invoke, StopCheck
  <2> QED
    BY <2>1, OutsideDecision
<1>3. CASE AppendStarted \/ PrepareWorkspace \/ InvokeProvider \/ ProviderStep
  BY <1>3, CallingDecision
<1>4. CASE AfterFailure \/ JudgeOutput \/ CollectDiff
  BY <1>4, EarlyDecision
<1>5. CASE PrepareGates \/ StartGate \/ GateNotStarted \/ GateEnds
  BY <1>5, GatingDecision
<1>6. CASE Conclude
  BY <1>6, ConcludeDecision
<1>7. CASE RemoveWorkspace
  BY <1>7, RemoveDecision
<1>8. CASE WriteOutputs
  <2>1. pc = "write" /\ (pc' = "idle" \/ (pc' = "append_terminal" /\ run' = Completes))
    BY <1>8 DEF WriteOutputs, Leave
  <2>2. CASE pc' = "idle"
    BY <2>2, OutsideDecision
  <2>3. CASE pc' = "append_terminal" /\ run' = Completes
    <3>1. SameDecision(run', run) /\ run'.workspace = run.workspace
      BY <2>3 DEF Completes, SameDecision, SameVerdict, RunFields, WorldTyped
    <3>2. CommandsFit(run') /\ WrittenAs(run')
      BY <2>1, <3>1, SameIsDecided
      DEF DecisionInv, WrittenAs, SameDecision, CleanupFailed, HarnessReason
    <3> QED
      BY <2>1, <2>3, <3>1, <3>2 DEF DecisionInv, SameDecision
  <2> QED
    BY <2>1, <2>2, <2>3
<1>9. CASE LateWrite \/ SetClockBack \/ UNCHANGED vars
  <2>1. UNCHANGED << pc, run >>
    BY <1>9 DEF LateWrite, SetClockBack, vars
  <2> QED
    BY <2>1 DEF DecisionInv
<1> QED
  BY <1>1, <1>2, <1>3, <1>4, <1>5, <1>6, <1>7, <1>8, <1>9
  DEF Next, ProgramStep, Done, ProviderStep

(* The initial states satisfy BuiltInv.                                    *)
LEMMA BuiltInit ==
  ASSUME Init
  PROVE  BuiltInv
<1>1. WorldTyped
  BY DEF Init, WorldTyped, FreshRun, RunFields
<1>2. pc = "idle"
  BY DEF Init
<1>3. ClockInv /\ DecisionInv
  BY <1>2 DEF ClockInv, DecisionInv, Undecided, Calling, Judging, Called
<1> QED
  BY <1>1, <1>3 DEF BuiltInv

(* The line of a decided run is one the contract of the event takes.       *)
LEMMA DecidedLine ==
  ASSUME WorldTyped, DecisionInv, pc = "append_terminal"
  PROVE  RunEventExplicit(TerminalLine)
<1> DEFINE e == TerminalLine
<1>0. CommandsFit(run) /\ WrittenAs(run) /\ CodexFits(run.codex)
  BY DEF DecisionInv, Called, Judging
<1>1. /\ e.sequence = sequence + 1 /\ e.outcome = run.outcome /\ e.stop = "none"
      /\ e.calls = CallsOf(run.codex) /\ e.kind = run.kind
      /\ e.status = IF e.outcome \in {"success", "quality_gate_failure"} THEN "completed"
                    ELSE "failed"
  BY DEF TerminalLine, TerminalEvent
<1>2. e.gate = (run.commands # << >>) /\ e.counted = run.counted
  BY DEF TerminalLine, TerminalEvent
<1> HIDE DEF e
<1>3. e.sequence > 0
  BY <1>1 DEF WorldTyped
<1>4. e.calls # Unknown /\ (run.codex.kind \in {"none", "provider_timeout"} => e.calls = 1)
  BY <1>0, <1>1, UnknownAssumption DEF CallsOf, CodexFits
<1>5. run.counted = (run.outcome \in CountedOutcomes)
  BY <1>0 DEF WrittenAs, Decided, ByProvider, ByRunner, ByPolicy, ByCollection, ByGate,
              ByQuality, ByHandler, Verdict
<1>6. /\ e.outcome \in Outcomes
      /\ e.outcome \in {"success", "quality_gate_failure"} => e.calls = 1 /\ e.gate
      /\ e.outcome = "success" => e.kind = "none"
      /\ e.outcome = "quality_gate_failure" => e.kind = "quality_gate_failure"
      /\ e.outcome = "output_contract_violation" =>
           e.calls = 1 /\ ~e.gate /\ e.kind = "output_contract_violation"
      /\ e.outcome = "provider_failure" =>
           ~e.gate /\ e.kind \in ProviderKinds \ {"provider_timeout"}
      /\ e.outcome = "provider_timeout" => e.calls = 1 /\ ~e.gate /\ e.kind = "provider_timeout"
      /\ e.outcome = "harness_failure" => e.kind \in HarnessFailureKinds
      /\ e.outcome = "cleanup_failure" => e.kind = "process_cleanup_error"
  <2> USE <1>1, <1>2, <1>4 DEF Verdict, Outcomes, HarnessFailureKinds
  <2>1. CASE ByProvider(run)
    BY <2>1 DEF ByProvider
  <2>2. CASE ByRunner(run)
    BY <2>2 DEF ByRunner
  <2>3. CASE ByPolicy(run)
    BY <2>3 DEF ByPolicy
  <2>4. CASE ByCollection(run)
    BY <2>4 DEF ByCollection
  <2>5. CASE ByGate(run)
    BY <2>5 DEF ByGate
  <2>6. CASE ByQuality(run)
    BY <2>6 DEF ByQuality
  <2>7. CASE Verdict(run, "harness_error", "process_cleanup_error", "cleanup_failure",
                     HarnessReason(run), "none")
    BY <2>7
  <2>8. CASE ByHandler(run)
    BY <2>8 DEF ByHandler
  <2> QED
    BY <1>0, <2>1, <2>2, <2>3, <2>4, <2>5, <2>6, <2>7, <2>8 DEF WrittenAs, Decided
<1>7. e.counted = (e.outcome \in CountedOutcomes)
  BY <1>1, <1>2, <1>5, Zenon
<1> QED
  BY <1>1, <1>3, <1>4, <1>6, <1>7 DEF RunEventExplicit, OutcomeExplicit, e

(* The invariants imply that the pair is built.                            *)
LEMMA PairFollows ==
  ASSUME BuiltInv, VerdictInv
  PROVE  PairIsBuilt
<1>1. ASSUME pc = "append_terminal"
      PROVE  RunEventExplicit(TerminalLine)
  BY <1>1, DecidedLine DEF BuiltInv
<1>2. ASSUME pc = "write"
      PROVE  LET a == Record(Completes) IN
             /\ \/ PairAccepted(a) \/ clock = 0 \/ Overwritten(run)
                \/ run.codex.execution = "preflight_not_completed"
             /\ PairAccepted(a) /\ CallsOf(a.codex) = 1 => PublicRunAccepted(PublicRun(a))
  <2> DEFINE c == Completes
             a == Record(Completes)
  <2>1. /\ SameDecision(c, run) /\ c.workspace = run.workspace /\ c.ended = clock
        /\ c.began = run.began /\ c.codexBegan = run.codexBegan
        /\ c.codexEnded = run.codexEnded /\ c.gatesEnded = run.gatesEnded
        /\ c.inOrder = run.inOrder
    BY DEF Completes, SameDecision, SameVerdict, RunFields, BuiltInv, WorldTyped
  <2>2. /\ CodexFits(run.codex) /\ CommandsFit(run) /\ WrittenAs(run)
        /\ run.workspace \in {"removed", "cleanup_failed"}
    BY <1>2 DEF BuiltInv, DecisionInv, Called
  <2>3. a.commands = run.commands /\ a.overall = run.overall
    BY <2>1 DEF Record, SameDecision, SameVerdict
  <2> HIDE DEF c, a
  <2>4. CommandsFit(c) /\ WrittenAs(c) /\ CodexFits(c.codex)
    BY <2>1, <2>2, SameIsDecided
    DEF WrittenAs, SameDecision, CleanupFailed, HarnessReason
  <2>5. \/ PairAccepted(a) \/ clock = 0 \/ Overwritten(run)
        \/ run.codex.execution = "preflight_not_completed"
    <3>1. SUFFICES ASSUME clock # 0, run.codex.execution # "preflight_not_completed",
                          ~Overwritten(run)
                   PROVE  PairAccepted(a)
      OBVIOUS
    <3>2. clock = 1
      BY <3>1 DEF BuiltInv, WorldTyped
    <3>3. /\ run.began = 1 /\ run.codexBegan = 1 /\ run.codexEnded = 1
          /\ run.gatesEnded \in 0 .. 1
      BY <1>2, <3>2 DEF BuiltInv, ClockInv, Called
    <3>4. run.inOrder = TRUE
      BY <1>2, <3>2 DEF BuiltInv, ClockInv
    <3>5. c.inOrder = TRUE
      BY <2>1, <3>4, Zenon
    <3>6. /\ c.began <= c.codexBegan /\ c.codexBegan <= c.codexEnded /\ c.codexEnded <= c.ended
          /\ c.began <= c.ended /\ c.gatesEnded <= c.ended
      BY <2>1, <3>2, <3>3
    <3>7. InTime(c)
      BY <3>5, <3>6 DEF InTime
    <3>8. c.workspace \in {"removed", "cleanup_failed"}
          /\ c.codex.execution # "preflight_not_completed" /\ ~Overwritten(c)
      BY <2>1, <2>2, <3>1 DEF SameDecision, SameVerdict, Overwritten
    <3> QED
      BY <2>4, <3>7, <3>8, DecidedAccepted DEF a, c
  <2>6. ASSUME PairAccepted(a)
        PROVE  PublicRunAccepted(PublicRun(a))
    <3> DEFINE n == Len(a.commands)
    <3>1. n \in Nat /\ DOMAIN a.commands = 1 .. n /\ (a.commands = << >> => n = 0)
          /\ Elements(a.commands) = {a.commands[i] : i \in 1 .. n}
      BY <2>2, <2>3 DEF CommandsFit, Elements
    <3>2. ASSUME a.overall \in QualityStatuses, NEW i \in 1 .. n
          PROVE  a.commands[i].gate \in {"acceptance", "regression", "lint", "typecheck"}
      <4>1. [k \in DOMAIN run.commands |-> run.commands[k].gate] = Gates
        BY <1>2, <2>3, <3>2 DEF VerdictInv, QualityVerdictIsEarned
      <4>2. a.commands[i].gate = Gates[i] /\ i \in DOMAIN Gates
        BY <2>3, <3>1, <3>2, <4>1
      <4> QED
        BY <4>2, GatesAssumption
    <3> HIDE DEF n
    <3> QED
      BY <2>6, <3>1, <3>2, AcceptedPublic
  <2> QED
    BY <2>5, <2>6 DEF a
<1> QED
  BY <1>1, <1>2 DEF PairIsBuilt

(* Whatever failed in the Provider, the output, the gates or the cleanup,  *)
(* and for every list of gates: the verdict the code reaches is one its    *)
(* contracts accept, so that the run gets its Recording and Artifact and   *)
(* its terminal line, and a public record can be made of a run whose       *)
(* Provider was called. A clock set back, a preflight that failed and a    *)
(* verdict overwritten by the outer handler are excepted.                  *)
THEOREM PairAlwaysBuilt == Spec => []PairIsBuilt
<1>1. Init => BuiltInv /\ VerdictInv
  BY BuiltInit, VerdictInit
<1>2. IInv /\ BuiltInv /\ VerdictInv /\ [Next]_vars => (BuiltInv /\ VerdictInv)'
  BY WorldStep, ClockStep, DecisionStep, VerdictStep DEF BuiltInv, VerdictInv, IInv
<1>3. BuiltInv /\ VerdictInv => PairIsBuilt
  BY PairFollows
<1> QED
  BY <1>1, <1>2, <1>3, Inductive, PTL DEF Spec

-----------------------------------------------------------------------------
(* The finished file: as long as every write was whole and the clock was   *)
(* not set back, its lines follow the contract one by one, and the         *)
(* counters the last line repeats are the counts of its lines.             *)

Whole == shortWrites = 0 /\ clock = 1
Open == pc \notin {"idle", "create", "reload"}

(* A header, then explicit run events, numbered and of one time.           *)
Body(f) ==
  /\ f # << >> /\ f[1] = CampaignStarted(1)
  /\ \A i \in 2 .. Len(f) :
       /\ f[i].type = "run_state" /\ f[i].run \in Runs /\ RunEventExplicit(f[i])
       /\ f[i].sequence = i - 1 /\ f[i].at = 1
StartedOnce(f) ==
  \A i, j \in DOMAIN f, r \in Runs : IsStarted(f[i], r) /\ IsStarted(f[j], r) => i = j
WellFormed(f) == StartedOnce(f) /\ OneTerminalEach(f) /\ StartedBeforeTerminal(f)

NotRunLines(f) == {i \in TerminalLines(f) : f[i].status = "not_run"}
CallLines(f) == {i \in TerminalLines(f) : f[i].calls = 1}
CountedLines(f) == {i \in TerminalLines(f) : f[i].counted}
StartedRuns(f) == {r \in Runs : StartedIn(f, r)}

(* not_run lines carry the reason the last line will repeat; inputs that   *)
(* changed leave at least one.                                             *)
ReasonsAgree ==
  /\ \A i \in NotRunLines(log) : pc = "tail" /\ stop # "none" /\ log[i].stop = stop
  /\ pc = "tail" /\ stop = "input_changed" => nextIndex <= RunCount \/ NotRunLines(log) # {}

(* The call of the current run is counted before its line is written.      *)
CallPending == IF pc \in Called \cup {"append_terminal"} THEN CallsOf(run.codex) ELSE 0
CountersFit ==
  /\ sequence = Len(log) - 1
  /\ attempted = Cardinality(StartedRuns(log))
  /\ calls = Cardinality(CallLines(log)) + CallPending
  /\ failures = Cardinality(CountedLines(log))
LastReading == clock = 1 /\ pc = "append_terminal" => run.ended = 1
FreshCounters == pc \in {"idle", "create"} => sequence = 0 /\ attempted = 0 /\ calls = 0

FinInv ==
  /\ Whole /\ Open => Body(log) /\ WellFormed(log) /\ ReasonsAgree /\ CountersFit
  /\ LastReading /\ FreshCounters /\ FinishedFileLoads

(* What one more line adds to the counts of the loader.                    *)
One(condition) == IF condition THEN 1 ELSE 0

(* The lines and the runs are finitely many.                               *)
LEMMA FiniteLines ==
  ASSUME FileInv
  PROVE  /\ IsFiniteSet(Runs) /\ Cardinality(Runs) = RunCount
         /\ IsFiniteSet(TerminalLines(log))
         /\ \A S : S \subseteq TerminalLines(log) =>
              IsFiniteSet(S) /\ Cardinality(S) \in Nat
         /\ \A S : S \subseteq Runs => IsFiniteSet(S) /\ Cardinality(S) \in Nat
<1>1. IsFiniteSet(Runs) /\ Cardinality(Runs) = RunCount
  BY RunCountAssumption, FS_Interval DEF Runs
<1>2. TerminalLines(log) \subseteq 1 .. Len(log) /\ Len(log) \in Nat
  BY DEF TerminalLines, FileInv
<1>3. IsFiniteSet(1 .. Len(log))
  BY <1>2, FS_Interval
<1>4. IsFiniteSet(TerminalLines(log))
  BY <1>2, <1>3, FS_Subset
<1> QED
  BY <1>1, <1>4, FS_Subset, FS_CardinalityType

(* A set of terminal lines grows by the new one, or not at all.            *)
LEMMA OneMoreLine ==
  ASSUME FileInv, NEW n, n \notin TerminalLines(log),
         NEW S, S \subseteq TerminalLines(log), NEW T, NEW c \in BOOLEAN,
         T = S \cup (IF c THEN {n} ELSE {})
  PROVE  Cardinality(S) \in Nat /\ Cardinality(T) = Cardinality(S) + One(c)
<1>1. IsFiniteSet(S) /\ Cardinality(S) \in Nat /\ n \notin S
  BY FiniteLines
<1>2. CASE c
  BY <1>1, <1>2, FS_AddElement DEF One
<1>3. CASE ~c
  <2>1. T = S
    BY <1>3
  <2> QED
    BY <1>1, <1>3, <2>1 DEF One
<1> QED
  BY <1>2, <1>3

(* The counts after an append.                                             *)
LEMMA AppendCounts ==
  ASSUME FileInv, NEW e, log' = Append(log, e)
  PROVE  /\ Cardinality(CallLines(log)) \in Nat /\ Cardinality(CountedLines(log)) \in Nat
         /\ Cardinality(CallLines(log')) =
              Cardinality(CallLines(log)) + One(Concludes(e) /\ e.calls = 1)
         /\ Cardinality(CountedLines(log')) =
              Cardinality(CountedLines(log)) + One(Concludes(e) /\ e.counted)
         /\ NotRunLines(log') =
              NotRunLines(log)
                \cup (IF Concludes(e) /\ e.status = "not_run" THEN {Len(log) + 1} ELSE {})
         /\ \A i \in NotRunLines(log) : log'[i] = log[i]
<1> DEFINE n == Len(log) + 1
           c == Concludes(e) /\ e.counted
           d == Concludes(e) /\ e.calls = 1
<1>1. /\ log'[n] = e /\ n \notin TerminalLines(log)
      /\ \A i \in TerminalLines(log) : log'[i] = log[i]
      /\ TerminalLines(log') = TerminalLines(log) \cup (IF Concludes(e) THEN {n} ELSE {})
  BY AppendConcludes
<1> HIDE DEF n
<1>2. NotRunLines(log') = NotRunLines(log)
                            \cup (IF Concludes(e) /\ e.status = "not_run" THEN {n} ELSE {})
  BY <1>1 DEF NotRunLines
<1>3. CallLines(log') = CallLines(log)
                          \cup (IF d THEN {n} ELSE {})
  BY <1>1 DEF CallLines
<1>4. CountedLines(log') = CountedLines(log) \cup (IF c THEN {n} ELSE {})
  BY <1>1, Zenon DEF CountedLines
<1>5. CallLines(log) \subseteq TerminalLines(log) /\ CountedLines(log) \subseteq TerminalLines(log)
  BY DEF CallLines, CountedLines
<1>6. c \in BOOLEAN /\ d \in BOOLEAN
  BY DEF Concludes
<1> HIDE DEF c, d
<1>7. /\ Cardinality(CallLines(log)) \in Nat
      /\ Cardinality(CallLines(log')) =
           Cardinality(CallLines(log)) + One(d)
  BY <1>1, <1>3, <1>5, <1>6, OneMoreLine
<1>8. /\ Cardinality(CountedLines(log)) \in Nat
      /\ Cardinality(CountedLines(log')) =
           Cardinality(CountedLines(log)) + One(c)
  BY <1>1, <1>4, <1>5, <1>6, OneMoreLine
<1>9. \A i \in NotRunLines(log) : log'[i] = log[i]
  BY <1>1 DEF NotRunLines
<1> QED
  BY <1>2, <1>7, <1>8, <1>9 DEF n, c, d

(* The number of runs announced after an append.                           *)
LEMMA AppendAttempts ==
  ASSUME FileInv, NEW e, log' = Append(log, e)
  PROVE  /\ Cardinality(StartedRuns(log)) \in Nat
         /\ \A x \in Runs : IsStarted(e, x) /\ ~StartedIn(log, x) =>
              Cardinality(StartedRuns(log')) = Cardinality(StartedRuns(log)) + 1
         /\ (\A x : ~IsStarted(e, x)) => StartedRuns(log') = StartedRuns(log)
<1>1. \A r \in Runs : StartedIn(log', r) <=> StartedIn(log, r) \/ IsStarted(e, r)
  BY AppendExists
<1>2. IsFiniteSet(StartedRuns(log)) /\ Cardinality(StartedRuns(log)) \in Nat
  BY FiniteLines DEF StartedRuns
<1>3. ASSUME NEW x \in Runs, IsStarted(e, x), ~StartedIn(log, x)
      PROVE  Cardinality(StartedRuns(log')) = Cardinality(StartedRuns(log)) + 1
  <2>1. StartedRuns(log') = StartedRuns(log) \cup {x} /\ x \notin StartedRuns(log)
    BY <1>1, <1>3 DEF IsStarted, StartedRuns
  <2> QED
    BY <1>2, <2>1, FS_AddElement
<1>4. ASSUME \A x : ~IsStarted(e, x)
      PROVE  StartedRuns(log') = StartedRuns(log)
  BY <1>1, <1>4 DEF StartedRuns
<1> QED
  BY <1>2, <1>3, <1>4

(* The file after an append, place by place.                               *)
LEMMA AppendPlaces ==
  ASSUME FileInv, NEW e, log' = Append(log, e)
  PROVE  /\ Len(log) \in Nat /\ DOMAIN log = 1 .. Len(log)
         /\ Len(log') = Len(log) + 1 /\ DOMAIN log' = 1 .. Len(log) + 1
         /\ log'[Len(log) + 1] = e /\ \A i \in DOMAIN log : log'[i] = log[i]
         /\ log # << >> => Len(log) > 0
         /\ log' # << >>
<1> DEFINE S == {log[i] : i \in DOMAIN log} \cup {e}
<1>1. log \in Seq(S) /\ e \in S
  BY DEF FileInv
<1> HIDE DEF S
<1> QED
  BY <1>1

(* A valid run event with the next number keeps the body valid.            *)
LEMMA AppendBody ==
  ASSUME FileInv, NEW e, log' = Append(log, e), Body(log),
         e.type = "run_state", e.run \in Runs, RunEventExplicit(e), e.sequence = Len(log),
         e.at = 1
  PROVE  Body(log')
<1>1. /\ Len(log) \in Nat /\ DOMAIN log = 1 .. Len(log) /\ Len(log') = Len(log) + 1
      /\ log'[Len(log) + 1] = e /\ \A i \in DOMAIN log : log'[i] = log[i]
      /\ Len(log) > 0 /\ log' # << >>
  BY AppendPlaces DEF Body
<1>2. log'[1] = CampaignStarted(1)
  BY <1>1 DEF Body
<1>3. ASSUME NEW i \in 2 .. Len(log')
      PROVE  /\ log'[i].type = "run_state" /\ log'[i].run \in Runs
             /\ RunEventExplicit(log'[i]) /\ log'[i].sequence = i - 1 /\ log'[i].at = 1
  <2>1. CASE i = Len(log) + 1
    BY <1>1, <2>1
  <2>2. CASE i # Len(log) + 1
    <3>1. i \in 2 .. Len(log) /\ i \in DOMAIN log
      BY <1>1, <2>2
    <3>2. log'[i] = log[i]
      BY <1>1, <3>1
    <3> QED
      BY <3>1, <3>2 DEF Body
  <2> QED
    BY <2>1, <2>2
<1> QED
  BY <1>1, <1>2, <1>3 DEF Body

(* A line that announces a planned run, or concludes an announced (or for  *)
(* not_run a planned) run that nothing concluded, keeps the runs well      *)
(* formed; so does a line about no run.                                    *)
LEMMA AppendRuns ==
  ASSUME FileInv, NEW e, log' = Append(log, e), WellFormed(log),
         \A r \in Runs : IsStarted(e, r) => ~StartedIn(log, r) /\ ~TerminalIn(log, r),
         \A r \in Runs : IsTerminal(e, r) =>
           ~TerminalIn(log, r) /\ (e.status # "not_run" <=> StartedIn(log, r))
  PROVE  WellFormed(log')
<1> DEFINE n == Len(log) + 1
<1>1. /\ log'[n] = e /\ Len(log) \in Nat /\ DOMAIN log = 1 .. Len(log) /\ DOMAIN log' = 1 .. n
      /\ \A i \in DOMAIN log : log'[i] = log[i]
  BY AppendPlaces
<1>2. \A i \in DOMAIN log' : i \in DOMAIN log \/ i = n
  BY <1>1
<1>3. StartedOnce(log')
  <2> SUFFICES ASSUME NEW r \in Runs, NEW i \in DOMAIN log', NEW j \in DOMAIN log',
                      IsStarted(log'[i], r), IsStarted(log'[j], r)
               PROVE  i = j
    BY DEF StartedOnce
  <2> QED
    BY <1>1, <1>2 DEF WellFormed, StartedOnce, StartedIn
<1>4. OneTerminalEach(log')
  <2> SUFFICES ASSUME NEW r \in Runs, NEW i \in DOMAIN log', NEW j \in DOMAIN log',
                      IsTerminal(log'[i], r), IsTerminal(log'[j], r)
               PROVE  i = j
    BY DEF OneTerminalEach
  <2> QED
    BY <1>1, <1>2 DEF WellFormed, OneTerminalEach, TerminalIn
<1>5. \A r \in Runs : StartedIn(log', r) <=> StartedIn(log, r) \/ IsStarted(e, r)
  BY AppendExists
<1>6. StartedBeforeTerminal(log')
  <2> SUFFICES ASSUME NEW r \in Runs, NEW j \in DOMAIN log', IsTerminal(log'[j], r)
               PROVE  IF log'[j].status = "not_run" THEN ~StartedIn(log', r)
                      ELSE \E i \in 1 .. j - 1 : IsStarted(log'[i], r)
    BY DEF StartedBeforeTerminal
  <2>1. CASE j \in DOMAIN log
    <3>1. /\ IsTerminal(log[j], r) /\ log'[j] = log[j]
          /\ IF log[j].status = "not_run" THEN ~StartedIn(log, r)
             ELSE \E i \in 1 .. j - 1 : IsStarted(log[i], r)
      BY <1>1, <2>1 DEF WellFormed, StartedBeforeTerminal
    <3>2. ~IsStarted(e, r)
      BY <2>1, <3>1 DEF TerminalIn
    <3>3. \A i \in 1 .. j - 1 : i \in DOMAIN log /\ log'[i] = log[i]
      BY <1>1, <2>1
    <3> QED
      BY <1>5, <3>1, <3>2, <3>3
  <2>2. CASE j = n
    <3>1. e.status = "not_run" => ~StartedIn(log, r)
      BY <1>1, <2>2
    <3>2. ~IsStarted(e, r)
      BY <1>1, <2>2 DEF IsStarted, IsTerminal
    <3>3. ASSUME e.status # "not_run" PROVE \E i \in 1 .. j - 1 : IsStarted(log'[i], r)
      <4>1. PICK i \in DOMAIN log : IsStarted(log[i], r)
        BY <1>1, <2>2, <3>3 DEF StartedIn
      <4> QED
        BY <1>1, <2>2, <4>1
    <3> QED
      BY <1>1, <1>5, <2>2, <3>1, <3>2, <3>3
  <2> QED
    BY <1>2, <2>1, <2>2
<1> QED
  BY <1>3, <1>4, <1>6 DEF WellFormed

-----------------------------------------------------------------------------
(* The line the program writes next, as the contract sees it.              *)
WritesNotRun == stop # "none" /\ nextIndex <= RunCount
Announcing == pc = "append_started"
Concluding == pc = "append_terminal"
Skipping == pc = "tail" /\ WritesNotRun
Closing == pc = "tail" /\ ~WritesNotRun

(* It is an explicit run event with the next number, about a run of which  *)
(* the file says what the line needs.                                      *)
LEMMA NextLineValid ==
  ASSUME IInv, StopInv, BuiltInv, FinInv, Whole, Announcing \/ Concluding \/ Skipping
  PROVE  LET e == LineWritten IN
         /\ e.type = "run_state" /\ e.run = IF Skipping THEN nextIndex ELSE index
         /\ e.run \in Runs /\ RunEventExplicit(e) /\ e.sequence = Len(log) /\ e.at = 1
         /\ Announcing => e.status = "started"
         /\ Concluding =>
              /\ e.status \notin {"started", "not_run"} /\ e.calls = CallsOf(run.codex)
              /\ e.counted = run.counted
         /\ Skipping =>
              e.status = "not_run" /\ e.calls = 0 /\ e.counted = FALSE /\ e.stop = stop
<1> DEFINE e == LineWritten
<1> USE DEF Announcing, Concluding, Skipping, WritesNotRun
<1>1. sequence + 1 = Len(log) /\ Len(log) > 0 /\ clock = 1
  <2>1. Body(log) /\ CountersFit
    BY DEF FinInv, Open
  <2>2. Len(log) \in Nat /\ Len(log) > 0
    BY <2>1 DEF Body, IInv, FileInv
  <2> QED
    BY <2>1, <2>2 DEF CountersFit, Whole
<1>2. CASE Announcing
  <2>1. e = StartedEvent(sequence + 1, index, clock) /\ index \in Runs
    BY <1>2 DEF LineWritten, IInv, IndexInv, InLoop, BeforeCall
  <2> HIDE DEF e
  <2>2. /\ e.type = "run_state" /\ e.run = index /\ e.sequence = sequence + 1 /\ e.at = clock
        /\ e.status = "started"
    BY <2>1 DEF StartedEvent
  <2> QED
    BY <1>1, <1>2, <2>1, <2>2 DEF RunEventExplicit, e
<1>3. CASE Concluding
  <2>1. e = TerminalLine /\ index \in Runs
    BY <1>3 DEF LineWritten, IInv, IndexInv, InLoop, BeforeCall, Concluded
  <2>2. RunEventExplicit(e)
    BY <1>3, <2>1, DecidedLine DEF BuiltInv
  <2>3. run.ended = 1
    BY <1>1, <1>3 DEF FinInv, LastReading
  <2> HIDE DEF e
  <2>4. /\ e.type = "run_state" /\ e.run = index /\ e.sequence = sequence + 1
        /\ e.at = run.ended /\ e.status \notin {"started", "not_run"}
        /\ e.calls = CallsOf(run.codex)
    BY <2>1 DEF TerminalLine, TerminalEvent
  <2>5. e.counted = run.counted
    BY <2>1 DEF TerminalLine, TerminalEvent
  <2> QED
    BY <1>1, <1>3, <2>1, <2>2, <2>3, <2>4, <2>5 DEF e
<1>4. CASE Skipping
  <2>1. e = NotRunEvent(sequence + 1, nextIndex, stop, clock)
    BY <1>4 DEF LineWritten
  <2>2. nextIndex \in Runs
    BY <1>4, RunCountAssumption DEF StopInv, CountersTyped, Runs
  <2> HIDE DEF e
  <2>3. /\ e.type = "run_state" /\ e.run = nextIndex /\ e.sequence = sequence + 1
        /\ e.at = clock /\ e.status = "not_run" /\ e.calls = 0
        /\ e.counted = FALSE /\ e.stop = stop
    BY <2>1 DEF NotRunEvent
  <2> QED
    BY <1>1, <1>4, <2>2, <2>3 DEF RunEventExplicit, e
<1> QED
  BY <1>2, <1>3, <1>4

(* So the file stays well formed, its counts move by that line, and it is  *)
(* not finished.                                                           *)
LEMMA NextLineCounts ==
  ASSUME IInv, StopInv, RefInv, BuiltInv, FinInv, Whole, Announcing \/ Concluding \/ Skipping,
         log' = Append(log, LineWritten)
  PROVE  /\ Body(log') /\ WellFormed(log') /\ ~FinishedIn(log')
         /\ Len(log') = Len(log) + 1 /\ Len(log) \in Nat
         /\ Cardinality(StartedRuns(log')) = Cardinality(StartedRuns(log)) + One(Announcing)
         /\ Cardinality(CallLines(log')) =
              Cardinality(CallLines(log)) + One(Concluding /\ CallsOf(run.codex) = 1)
         /\ Cardinality(CountedLines(log')) =
              Cardinality(CountedLines(log)) + One(Concluding /\ run.counted)
         /\ ~Skipping => NotRunLines(log') = NotRunLines(log)
         /\ Skipping => NotRunLines(log') = NotRunLines(log) \cup {Len(log) + 1}
         /\ \A i \in NotRunLines(log) : log'[i] = log[i]
         /\ log'[Len(log) + 1] = LineWritten
<1> DEFINE e == LineWritten
<1>0. /\ FileInv /\ Body(log) /\ WellFormed(log) /\ ~FinishedIn(log)
      /\ index \in 1 .. RunCount + 1 /\ nextIndex \in 1 .. RunCount + 1
  BY DEF IInv, IndexInv, StopInv, CountersTyped, FinInv, Open, RefInv, FileOpen, Whole,
         Announcing, Concluding, Skipping
<1>1. /\ e.type = "run_state" /\ e.run = IF Skipping THEN nextIndex ELSE index
      /\ e.run \in Runs /\ RunEventExplicit(e) /\ e.sequence = Len(log) /\ e.at = 1
      /\ Announcing => e.status = "started"
      /\ Concluding => e.status \notin {"started", "not_run"} /\ e.calls = CallsOf(run.codex)
      /\ Skipping => e.status = "not_run" /\ e.calls = 0
  BY NextLineValid
<1>2. (Concluding => e.counted = run.counted) /\ (Skipping => e.counted = FALSE)
  BY NextLineValid
<1> HIDE DEF e
<1>3. /\ Announcing => ~Concluding /\ ~Skipping
      /\ Concluding => ~Skipping
  BY DEF Announcing, Concluding, Skipping
<1>4. /\ Announcing \/ Skipping => PhaseIn(log, e.run) = "planned"
      /\ Concluding => PhaseIn(log, e.run) = "started"
  BY <1>0, <1>1, RunCountAssumption
  DEF RefInv, PhasesFit, Whole, Announcing, Concluding, Skipping, WritesNotRun, Working, InLoop,
      BeforeCall, Concluded, Runs
<1>5. /\ PhaseIn(log, e.run) = "planned" => ~StartedIn(log, e.run) /\ ~TerminalIn(log, e.run)
      /\ PhaseIn(log, e.run) = "started" => StartedIn(log, e.run) /\ ~TerminalIn(log, e.run)
  BY DEF PhaseIn, TerminalIn, NotRunIn, EndedIn
<1>6. WellFormed(log')
  <2>1. \A r \in Runs : IsStarted(e, r) => ~StartedIn(log, r) /\ ~TerminalIn(log, r)
    BY <1>1, <1>4, <1>5 DEF IsStarted
  <2>2. \A r \in Runs : IsTerminal(e, r) =>
          ~TerminalIn(log, r) /\ (e.status # "not_run" <=> StartedIn(log, r))
    BY <1>1, <1>4, <1>5 DEF IsTerminal
  <2> QED
    BY <1>0, <2>1, <2>2, AppendRuns DEF e
<1>7. Body(log')
  BY <1>0, <1>1, AppendBody DEF e
<1>8. ~FinishedIn(log')
  BY <1>0, <1>1, AppendExists DEF e
<1>9. Concludes(e) <=> Concluding \/ Skipping
  BY <1>1, <1>3 DEF Concludes, IsRunEvent
<1>10. /\ Cardinality(CallLines(log)) \in Nat /\ Cardinality(CountedLines(log)) \in Nat
       /\ Cardinality(CallLines(log')) =
            Cardinality(CallLines(log)) + One(Concludes(e) /\ e.calls = 1)
       /\ Cardinality(CountedLines(log')) =
            Cardinality(CountedLines(log)) + One(Concludes(e) /\ e.counted)
       /\ NotRunLines(log') =
            NotRunLines(log)
              \cup (IF Concludes(e) /\ e.status = "not_run" THEN {Len(log) + 1} ELSE {})
       /\ \A i \in NotRunLines(log) : log'[i] = log[i]
  BY <1>0, AppendCounts DEF e
<1>11. One(Concludes(e) /\ e.calls = 1) = One(Concluding /\ CallsOf(run.codex) = 1)
  BY <1>1, <1>3, <1>9 DEF One
<1>12. One(Concludes(e) /\ e.counted) = One(Concluding /\ run.counted)
  <2>1. Concludes(e) /\ e.counted <=> Concluding /\ run.counted
    BY <1>2, <1>3, <1>9, Zenon
  <2> QED
    BY <2>1, Zenon DEF One
<1>13. /\ ~Skipping => NotRunLines(log') = NotRunLines(log)
       /\ Skipping => NotRunLines(log') = NotRunLines(log) \cup {Len(log) + 1}
  BY <1>1, <1>9, <1>10
<1>14. Cardinality(StartedRuns(log')) = Cardinality(StartedRuns(log)) + One(Announcing)
  <2>0. Cardinality(StartedRuns(log)) \in Nat
    BY <1>0, AppendAttempts
  <2>1. CASE Announcing
    <3>1. IsStarted(e, e.run) /\ ~StartedIn(log, e.run)
      BY <1>1, <1>4, <1>5, <2>1 DEF IsStarted, IsRunEvent
    <3> QED
      BY <1>0, <1>1, <2>1, <3>1, AppendAttempts DEF One, e
  <2>2. CASE ~Announcing
    <3>1. \A x : ~IsStarted(e, x)
      BY <1>1, <2>2 DEF IsStarted
    <3>2. StartedRuns(log') = StartedRuns(log)
      BY <1>0, <3>1, AppendAttempts DEF e
    <3> QED
      BY <2>0, <2>2, <3>2 DEF One
  <2> QED
    BY <2>1, <2>2
<1>15. /\ Len(log') = Len(log) + 1 /\ Len(log) \in Nat /\ log'[Len(log) + 1] = e
  BY <1>0, AppendPlaces DEF e
<1>16. Cardinality(CountedLines(log')) =
         Cardinality(CountedLines(log)) + One(Concluding /\ run.counted)
  BY <1>10, <1>12
<1> QED
  BY <1>6, <1>7, <1>8, <1>10, <1>11, <1>13, <1>14, <1>15, <1>16 DEF e

-----------------------------------------------------------------------------
(* The last line: what the tail writes is a file the loader accepts.       *)

(* Without runs left in another phase every run has one terminal line.     *)
LEMMA TerminalPerRun ==
  ASSUME FileInv, WellFormed(log), LinesTyped,
         \A r \in Runs : PhaseIn(log, r) \in {"ended", "not_run"}
  PROVE  Cardinality(TerminalLines(log)) = RunCount
<1> DEFINE runOf == [i \in TerminalLines(log) |-> log[i].run]
<1>1. \A i, j \in TerminalLines(log) : log[i].run = log[j].run => i = j
  BY DEF WellFormed, OneTerminalEach, TerminalLines, IsTerminal, LinesTyped
<1>2. \A r \in Runs : \E i \in TerminalLines(log) : log[i].run = r
  BY DEF PhaseIn, NotRunIn, EndedIn, TerminalLines, IsTerminal
<1>3. runOf \in Bijection(TerminalLines(log), Runs)
  BY <1>1, <1>2 DEF Bijection, Injection, Surjection, IsInjective, LinesTyped
<1>4. ExistsBijection(TerminalLines(log), Runs)
  BY <1>3 DEF ExistsBijection
<1> QED
  BY <1>4, FiniteLines, FS_Bijection

(* An explicit event that concludes a run knows its calls.                 *)
LEMMA ExplicitCalls ==
  ASSUME NEW e, RunEventExplicit(e), Concludes(e)
  PROVE  e.calls # Unknown
BY UnknownAssumption DEF RunEventExplicit, OutcomeExplicit, Concludes

(* The last line closes a file that loads.                                 *)
LEMMA FooterLoads ==
  ASSUME IInv, StopInv, RefInv, FinInv, Whole, Closing, log' = Append(log, LineWritten)
  PROVE  CampaignLoads(log')
<1> DEFINE e == LineWritten
           n == Len(log) + 1
<1>0. /\ FileInv /\ Body(log) /\ WellFormed(log) /\ ReasonsAgree /\ CountersFit /\ LinesTyped
      /\ pc = "tail" /\ clock = 1 /\ nextIndex \in 1 .. RunCount + 1 /\ RunCount \in Nat
      /\ (stop = "none" \/ nextIndex > RunCount)
  BY RunCountAssumption DEF IInv, FinInv, Open, Closing, WritesNotRun, StopInv, CountersTyped,
     LinesTyped, Whole
<1>1. /\ e.type = "campaign_finished" /\ e.sequence = sequence + 1 /\ e.stop = stop
      /\ e.attempted = attempted /\ e.calls = calls /\ e.failures = failures /\ e.at = 1
  BY <1>0 DEF LineWritten, Closing, WritesNotRun, CampaignFinished
<1> HIDE DEF e
<1>2. /\ Len(log) \in Nat /\ DOMAIN log = 1 .. Len(log) /\ Len(log') = n
      /\ DOMAIN log' = 1 .. n /\ log'[n] = e /\ \A i \in DOMAIN log : log'[i] = log[i]
      /\ Len(log) > 0 /\ log' # << >>
  BY <1>0, AppendPlaces DEF Body, e
<1>3. /\ sequence + 1 = Len(log)
      /\ attempted = Cardinality(StartedRuns(log))
      /\ calls = Cardinality(CallLines(log)) /\ failures = Cardinality(CountedLines(log))
  <2>1. Cardinality(CallLines(log)) \in Nat /\ CallPending = 0
    BY <1>0, FiniteLines DEF CallPending, Called, Judging, CallLines
  <2> QED
    BY <1>0, <1>2, <2>1 DEF CountersFit
<1>4. \A r \in Runs : PhaseIn(log, r) \in {"ended", "not_run"}
  BY <1>0 DEF RefInv, PhasesFit, Whole, Runs
<1>5. Cardinality(TerminalLines(log)) = RunCount
  BY <1>0, <1>4, TerminalPerRun
<1>6. /\ log'[1] = CampaignStarted(1)
      /\ \A i \in 2 .. Len(log) :
           /\ log'[i].type = "run_state" /\ log'[i].run \in Runs /\ RunEventExplicit(log'[i])
           /\ log'[i].sequence = i - 1 /\ log'[i].at = 1
  BY <1>0, <1>2 DEF Body
<1>7. \A i \in DOMAIN log' : i = 1 \/ i = n \/ i \in 2 .. Len(log)
  BY <1>2
<1>8. /\ \A i \in DOMAIN log' : log'[i].type # "torn"
      /\ Bounded(log')
      /\ \A i \in DOMAIN log' : IsRunEvent(log'[i]) => RunEventExplicit(log'[i])
      /\ SequenceContiguous(log') /\ TimesNonDecreasing(log')
  <2>1. /\ CampaignStarted(1).type = "campaign_started" /\ CampaignStarted(1).sequence = 0
        /\ CampaignStarted(1).at = 1
    BY DEF CampaignStarted
  <2>2. /\ \A i \in DOMAIN log' : log'[i].type # "torn"
        /\ \A i \in DOMAIN log' : IsRunEvent(log'[i]) => RunEventExplicit(log'[i])
    BY <1>1, <1>2, <1>6, <1>7, <2>1 DEF IsRunEvent
  <2>3. Bounded(log')
    BY <1>1, <1>2, <1>6, <2>1 DEF Bounded
  <2>4. SequenceContiguous(log')
    BY <1>1, <1>2, <1>3, <1>6, <1>7, <2>1 DEF SequenceContiguous
  <2>5. \A i \in DOMAIN log' : log'[i].at = 1
    BY <1>1, <1>2, <1>6, <1>7, <2>1
  <2> QED
    BY <2>2, <2>3, <2>4, <2>5 DEF TimesNonDecreasing
<1>9. ~Concludes(e) /\ \A x : ~IsStarted(e, x) /\ ~IsTerminal(e, x)
  BY <1>1 DEF Concludes, IsStarted, IsTerminal, IsRunEvent
<1>10. WellFormed(log')
  BY <1>0, <1>9, AppendRuns DEF e
<1>11. /\ TerminalLines(log') = TerminalLines(log)
       /\ \A i \in TerminalLines(log) : log'[i] = log[i]
       /\ StartedRuns(log') = StartedRuns(log)
  BY <1>0, <1>9, AppendConcludes, AppendAttempts DEF e
<1>12. /\ NotRunLines(log') = NotRunLines(log) /\ CallLines(log') = CallLines(log)
       /\ \A i \in NotRunLines(log) : log'[i] = log[i]
  BY <1>11 DEF NotRunLines, CallLines
<1>13. CountedLines(log') = CountedLines(log)
  BY <1>11, Zenon DEF CountedLines
<1>14. CountsMatch(log')
  <2>1. Cardinality(TerminalLines(log')) = log'[1].planned
    BY <1>5, <1>6, <1>11 DEF CampaignStarted
  <2>2. \A i, j \in DOMAIN log', r \in Runs :
          IsStarted(log'[i], r) /\ IsStarted(log'[j], r) => i = j
    BY <1>10 DEF WellFormed, StartedOnce
  <2>3. Cardinality({r \in Runs : StartedIn(log', r)}) = e.attempted
    BY <1>1, <1>3, <1>11 DEF StartedRuns
  <2>4. Cardinality({i \in TerminalLines(log') : log'[i].calls = 1}) = e.calls
    BY <1>1, <1>3, <1>12 DEF CallLines
  <2>5. Cardinality({i \in TerminalLines(log') : log'[i].counted}) = e.failures
    <3>1. {i \in TerminalLines(log') : log'[i].counted} = CountedLines(log)
      BY <1>13, Zenon DEF CountedLines
    <3> QED
      BY <1>1, <1>3, <3>1
  <2>6. \A i \in TerminalLines(log') : log'[i].calls # Unknown
    BY <1>8, ExplicitCalls DEF TerminalLines, Concludes
  <2> QED
    BY <1>2, <2>1, <2>2, <2>3, <2>4, <2>5, <2>6, Zenon DEF CountsMatch
<1>15. StopReasonsMatch(log')
  <2>1. \A i \in NotRunLines(log') : log'[i].stop = e.stop
    BY <1>0, <1>1, <1>12 DEF ReasonsAgree
  <2>2. e.stop = "input_changed" => NotRunLines(log') # {}
    BY <1>0, <1>1, <1>12 DEF ReasonsAgree
  <2> QED
    BY <1>2, <2>1, <2>2 DEF StopReasonsMatch, NotRunLines
<1> QED
  BY <1>8, <1>10, <1>14, <1>15 DEF CampaignLoads, WellFormed

(* An append, whole, torn or failed, leaves no other finished file.        *)
LEMMA WrittenLoads ==
  ASSUME IInv, StopInv, RefInv, BuiltInv, FinInv, pc \in Appending, pc = "create" => log = << >>,
         \/ log' \in Written /\ UNCHANGED << clock, shortWrites >>
         \/ log' = Append(log, LineWritten) /\ UNCHANGED << clock, shortWrites >>
         \/ log' = Append(log, TornLine) /\ shortWrites' > 0
  PROVE  FinishedFileLoads'
<1> SUFFICES ASSUME FinishedIn(log'), shortWrites' = 0, clock' = 1
             PROVE  CampaignLoads(log')
  <2>1. shortWrites \in Nat /\ clock \in 0 .. 1
    BY DEF RefInv, BuiltInv, WorldTyped
  <2>2. shortWrites' > 0 \/ shortWrites' = shortWrites
    OBVIOUS
  <2> QED
    BY <2>1, <2>2 DEF FinishedFileLoads, Undisturbed
<1>0. FileInv
  BY DEF IInv
<1>1. Whole
  BY DEF Whole
<1>2. CASE log' = log
  BY <1>1, <1>2 DEF FinInv, FinishedFileLoads, Whole
<1>3. CASE log' = Append(log, TornLine)
  <2>0. TornLine.type = "torn"
    BY DEF TornLine
  <2>1. FinishedIn(log)
    BY <1>0, <1>3, <2>0, AppendExists
  <2>2. ~FinishedIn(log)
    BY <1>1 DEF RefInv, FileOpen, Whole, Appending, FinishedIn
  <2> QED
    BY <2>1, <2>2
<1>4. CASE log' = Append(log, LineWritten)
  <2>1. CASE pc = "create"
    <3>1. ~FinishedIn(log')
      BY <1>0, <1>4, <2>1, AppendExists, NextLine DEF FinishedIn
    <3> QED
      BY <3>1
  <2>2. CASE Announcing \/ Concluding \/ Skipping
    BY <1>1, <1>4, <2>2, NextLineCounts
  <2>3. CASE Closing
    BY <1>1, <1>4, <2>3, FooterLoads
  <2> QED
    BY <2>1, <2>2, <2>3 DEF Appending, Announcing, Concluding, Skipping, Closing
<1> QED
  BY <1>2, <1>3, <1>4 DEF Written

-----------------------------------------------------------------------------
(* Every step keeps FinInv.                                                *)

(* The end of an invocation.                                               *)
LEMMA ExitFin ==
  ASSUME Leave, FinishedFileLoads'
  PROVE  FinInv'
BY DEF Leave, FinInv, Open, LastReading, FreshCounters

(* A step that leaves the file and the counters alone; ReasonsAgree, the   *)
(* calls and the reading of the clock are the step's business.             *)
LEMMA QuietFin ==
  ASSUME FileInv, FinInv, WorldTyped,
         UNCHANGED << log, shortWrites, sequence, attempted, failures >>,
         clock' \in {clock, 0},
         Open' => Open, ReasonsAgree => ReasonsAgree',
         Open' => \/ UNCHANGED << calls, CallPending >>
                  \/ CallPending = 0 /\ calls' = calls + CallPending',
         LastReading', FreshCounters'
  PROVE  FinInv'
<1>1. clock' = 1 => clock = 1
  BY DEF WorldTyped
<1>2. FinishedFileLoads'
  <2>1. clock = 0 => clock' = 0
    BY DEF WorldTyped
  <2> QED
    BY <2>1 DEF FinInv, FinishedFileLoads
<1>3. ASSUME Whole', Open'
      PROVE  (Body(log) /\ WellFormed(log) /\ ReasonsAgree /\ CountersFit)'
  <2>1. Body(log) /\ WellFormed(log) /\ ReasonsAgree /\ CountersFit
    BY <1>1, <1>3 DEF FinInv, Whole
  <2>3. (Body(log) /\ WellFormed(log))'
    BY <2>1 DEF Body, WellFormed, StartedOnce, OneTerminalEach, StartedBeforeTerminal, StartedIn
  <2>4. /\ CallLines(log)' = CallLines(log) /\ CountedLines(log)' = CountedLines(log)
        /\ StartedRuns(log)' = StartedRuns(log)
    BY DEF CallLines, CountedLines, StartedRuns, TerminalLines, StartedIn
  <2>5. CountersFit'
    <3> DEFINE c == Cardinality(CallLines(log))
    <3>1. calls = c + CallPending /\ c' = c
      BY <2>1, <2>4 DEF CountersFit
    <3>2. c \in Nat
      BY FiniteLines DEF CallLines
    <3>3. calls' = c + CallPending'
      <4> HIDE DEF c
      <4> QED
        BY <1>3, <3>1, <3>2
    <3> QED
      BY <2>1, <2>4, <3>1, <3>3 DEF CountersFit
  <2> QED
    BY <2>1, <2>3, <2>5
<1> QED
  BY <1>2, <1>3 DEF FinInv

(* The header opens a file whose counts are all zero.                      *)
LEMMA HeaderFin ==
  ASSUME FileInv, StopInv, RefInv, WorldTyped, FinInv, CreateCampaign
  PROVE  FinInv'
<1>0. /\ pc = "create" /\ log = << >> /\ pc' = "check" /\ clock' = clock
      /\ UNCHANGED << sequence, attempted, calls, failures, stop, nextIndex, run >>
      /\ AppendEvent(CampaignStarted(clock))
  BY DEF CreateCampaign, Goto, AppendStep, counters
<1>1. LastReading' /\ FreshCounters'
  BY <1>0 DEF LastReading, FreshCounters
<1>2. ~FinishedIn(log')
  <2>1. PICK e : log' = Append(log, e) /\ e.type \in {"campaign_started", "torn"}
    BY <1>0 DEF AppendEvent, CampaignStarted, TornLine
  <2> QED
    BY <1>0, <2>1, AppendExists DEF FinishedIn
<1>3. ASSUME Whole'
      PROVE  (Body(log) /\ WellFormed(log) /\ ReasonsAgree /\ CountersFit)'
  <2>1. clock = 1 /\ log' = Append(log, CampaignStarted(1))
    BY <1>0, <1>3, WholeWrite DEF Whole
  <2>2. /\ Len(log') = 1 /\ DOMAIN log' = {1} /\ log'[1] = CampaignStarted(1) /\ log' # << >>
        /\ CampaignStarted(1).type = "campaign_started"
    BY <1>0, <2>1 DEF CampaignStarted
  <2>3. Body(log')
    BY <2>2 DEF Body
  <2>4. WellFormed(log')
    BY <2>2 DEF WellFormed, StartedOnce, OneTerminalEach, StartedBeforeTerminal, IsStarted,
       IsTerminal, IsRunEvent
  <2>5. TerminalLines(log') = {} /\ StartedRuns(log') = {}
    BY <2>2 DEF TerminalLines, StartedRuns, StartedIn, IsStarted, IsRunEvent
  <2>6. CallLines(log') = {} /\ CountedLines(log') = {} /\ NotRunLines(log') = {}
    BY <2>5 DEF CallLines, CountedLines, NotRunLines
  <2>7. CountersFit'
    <3>1. sequence = 0 /\ attempted = 0 /\ calls = 0 /\ failures = 0
      BY <1>0 DEF FinInv, FreshCounters, StopInv, CountersTyped
    <3>2. CallPending' = 0
      BY <1>0 DEF CallPending, Called, Judging
    <3> QED
      BY <1>0, <2>2, <2>5, <2>6, <3>1, <3>2, FS_EmptySet DEF CountersFit
  <2>8. ReasonsAgree'
    BY <1>0, <2>6 DEF ReasonsAgree
  <2> QED
    BY <2>3, <2>4, <2>7, <2>8
<1> QED
  BY <1>1, <1>2, <1>3 DEF FinInv, FinishedFileLoads

(* The line of a run keeps the counters at the counts.                     *)
LEMMA LineFin ==
  ASSUME IInv, StopInv, RefInv, BuiltInv, FinInv,
         AppendStarted \/ AppendTerminal \/ AppendNotRun
  PROVE  FinInv'
<1> USE DEF Announcing, Concluding, Skipping, Closing, WritesNotRun
<1>0. /\ Announcing \/ Concluding \/ Skipping
      /\ Announcing => pc' = "prepare" /\ attempted' = attempted + 1 /\ failures' = failures
      /\ Concluding => /\ pc' = "stop_check" /\ attempted' = attempted
                       /\ failures' = failures + One(run.counted)
      /\ Skipping => /\ pc' = "tail" /\ attempted' = attempted /\ failures' = failures
                     /\ stop' = stop
      /\ sequence' = sequence + 1 /\ calls' = calls /\ clock' = clock
      /\ AppendEvent(LineWritten)
  <2>1. CASE AppendStarted
    <3>1. pc = "append_started" /\ sequence' = sequence + 1
          /\ AppendEvent(StartedEvent(sequence', index, clock))
      BY <2>1 DEF AppendStarted
    <3>2. LineWritten = StartedEvent(sequence', index, clock)
      BY <3>1 DEF LineWritten
    <3> QED
      BY <2>1, <3>1, <3>2 DEF AppendStarted, Goto, AppendStep
  <2>2. CASE AppendTerminal
    BY <2>2 DEF AppendTerminal, LineWritten, Goto, AppendStep, One
  <2>3. CASE AppendNotRun
    <3>1. pc = "tail" /\ stop # "none" /\ nextIndex <= RunCount /\ sequence' = sequence + 1
          /\ AppendEvent(NotRunEvent(sequence', nextIndex, stop, clock))
      BY <2>3 DEF AppendNotRun
    <3>2. LineWritten = NotRunEvent(sequence', nextIndex, stop, clock)
      BY <3>1 DEF LineWritten
    <3> QED
      BY <2>3, <3>1, <3>2 DEF AppendNotRun, AppendStep
  <2> QED
    BY <2>1, <2>2, <2>3
<1>1. LastReading' /\ FreshCounters'
  BY <1>0 DEF LastReading, FreshCounters
<1>2. FinishedFileLoads'
  <2>1. \/ log' = Append(log, LineWritten) /\ UNCHANGED << clock, shortWrites >>
        \/ log' = Append(log, TornLine) /\ shortWrites' > 0
    BY <1>0 DEF AppendEvent, RefInv
  <2> QED
    BY <1>0, <2>1, WrittenLoads DEF Appending
<1>3. ASSUME Whole'
      PROVE  (Body(log) /\ WellFormed(log) /\ ReasonsAgree /\ CountersFit)'
  <2>1. Whole /\ log' = Append(log, LineWritten)
    BY <1>0, <1>3, WholeWrite DEF Whole
  <2>2. /\ Body(log') /\ WellFormed(log')
        /\ Len(log') = Len(log) + 1 /\ Len(log) \in Nat
        /\ Cardinality(StartedRuns(log')) = Cardinality(StartedRuns(log)) + One(Announcing)
        /\ Cardinality(CallLines(log')) =
             Cardinality(CallLines(log)) + One(Concluding /\ CallsOf(run.codex) = 1)
        /\ Cardinality(CountedLines(log')) =
             Cardinality(CountedLines(log)) + One(Concluding /\ run.counted)
        /\ ~Skipping => NotRunLines(log') = NotRunLines(log)
        /\ Skipping => NotRunLines(log') = NotRunLines(log) \cup {Len(log) + 1}
        /\ \A i \in NotRunLines(log) : log'[i] = log[i]
        /\ log'[Len(log) + 1] = LineWritten
    BY <1>0, <2>1, NextLineCounts
  <2>3. Skipping => LineWritten.stop = stop
    BY <1>0, <2>1, NextLineValid
  <2>4. ReasonsAgree /\ CountersFit
    BY <1>0, <2>1 DEF FinInv, Open
  <2>5. ReasonsAgree'
    <3>1. CASE Skipping
      BY <1>0, <2>2, <2>3, <2>4, <3>1 DEF ReasonsAgree
    <3>2. CASE ~Skipping
      BY <1>0, <2>2, <2>4, <3>2 DEF ReasonsAgree
    <3> QED
      BY <3>1, <3>2
  <2>6. /\ Cardinality(StartedRuns(log)) \in Nat /\ Cardinality(CallLines(log)) \in Nat
        /\ Cardinality(CountedLines(log)) \in Nat
    BY FiniteLines DEF IInv, StartedRuns, CallLines, CountedLines
  <2>7. failures' = Cardinality(CountedLines(log'))
    <3>1. failures' = failures + One(Concluding /\ run.counted)
      <4>1. CASE Concluding
        <5>1. One(Concluding /\ run.counted) = One(run.counted)
          BY <4>1, Zenon DEF One
        <5> QED
          BY <1>0, <4>1, <5>1
      <4>2. CASE ~Concluding
        <5>1. One(Concluding /\ run.counted) = 0
          BY <4>2, Zenon DEF One
        <5>2. failures' = failures /\ failures \in Nat
          BY <1>0, <4>2 DEF StopInv, CountersTyped
        <5> QED
          BY <5>1, <5>2
      <4> QED
        BY <4>1, <4>2
    <3> QED
      BY <2>2, <2>4, <2>6, <3>1 DEF CountersFit
  <2>8. sequence' = Len(log') - 1 /\ attempted' = Cardinality(StartedRuns(log'))
    BY <1>0, <2>2, <2>4, <2>6 DEF CountersFit, One
  <2>9. calls' = Cardinality(CallLines(log')) + CallPending'
    <3>1. CallPending = (IF Concluding THEN CallsOf(run.codex) ELSE 0) /\ CallPending' = 0
      BY <1>0 DEF CallPending, Called, Judging
    <3>2. CallsOf(run.codex) \in 0 .. 1
      BY DEF CallsOf
    <3>3. One(Concluding /\ CallsOf(run.codex) = 1) =
            (IF Concluding THEN CallsOf(run.codex) ELSE 0)
      BY <3>2 DEF One
    <3> QED
      BY <1>0, <2>2, <2>4, <2>6, <3>1, <3>2, <3>3 DEF CountersFit
  <2> QED
    BY <2>2, <2>5, <2>7, <2>8, <2>9 DEF CountersFit
<1> QED
  BY <1>1, <1>2, <1>3 DEF FinInv

(* The work between the lines: the call counted is the one pending.        *)
LEMMA WorkFin ==
  ASSUME IInv, StopInv, TruthInv, BuiltInv, FinInv, BodyStep \/ ProviderStep
  PROVE  FinInv'
<1>1. CASE BodyStep
  <2>1. UNCHANGED << log, shortWrites, sequence, attempted, calls, failures, clock >>
    BY <1>1 DEF BodyStep, PrepareWorkspace, InvokeProvider, AfterFailure, JudgeOutput,
                CollectDiff, PrepareGates, StartGate, GateNotStarted, GateEnds, Conclude,
                RemoveWorkspace, InWorkspace, RunStep, files, world, bounds, counters
  <2>2. /\ pc \in InLoop \ {"stop_check"} /\ pc' \in Working \ {"append_terminal"}
        /\ pc \in Called \cup {"append_terminal"} <=> pc' \in Called \cup {"append_terminal"}
    BY <1>1 DEF BodyStep, PrepareWorkspace, InvokeProvider, AfterFailure, JudgeOutput,
                CollectDiff, PrepareGates, StartGate, GateNotStarted, GateEnds, Conclude,
                RemoveWorkspace, Goto, Called, Judging, Working, InLoop, BeforeCall, AfterCall,
                Concluded
  <2>3. run'.codex = run.codex
    BY <1>1, BodyRun DEF TruthInv
  <2>4. UNCHANGED << calls, CallPending >>
    BY <2>1, <2>2, <2>3 DEF CallPending, CallsOf
  <2>5. Open /\ pc # "tail" /\ pc' \notin {"idle", "create", "append_terminal", "tail"}
    BY <2>2 DEF Open, Working, InLoop, BeforeCall, AfterCall, Concluded
  <2>6. (ReasonsAgree => ReasonsAgree') /\ LastReading' /\ FreshCounters'
    BY <2>1, <2>5 DEF ReasonsAgree, NotRunLines, TerminalLines, LastReading, FreshCounters
  <2> QED
    BY <2>1, <2>4, <2>5, <2>6, QuietFin DEF IInv, BuiltInv
<1>2. CASE ProviderStep
  <2>0. Keys \subseteq DOMAIN run
    BY DEF IInv, LeftInv
  <2>1. /\ UNCHANGED << log, shortWrites, sequence, attempted, failures, clock >>
        /\ pc \in {"provider", "running"}
        /\ \/ pc' = "abandon" /\ calls' = calls
           \/ pc' \in {"after_failure", "judge"} /\ calls' = calls + CallsOf(run'.codex)
    <3>1. CASE \E e, began : \E next \in {"after_failure", "judge"} : Receive(e, began, next)
      <4>1. PICK e, began : \E next \in {"after_failure", "judge"} : Receive(e, began, next)
        BY <3>1
      <4>2. run'.codex = Summary(e) /\ CallsOf(Summary(e)) =
              (IF e.execution = "provider_invocation_attempted" THEN 1 ELSE 0)
        BY <2>0, <4>1 DEF Receive, Keys, Summary, CallsOf
      <4> QED
        BY <1>2, <4>1, <4>2, ProviderHandsOver DEF Receive, files, world, bounds, Goto
    <3>2. CASE \E invocation, cleared : Abandon(invocation, cleared)
      BY <1>2, <3>2, ProviderHandsOver DEF Abandon, RunStep, files, world, bounds, counters, Goto
    <3> QED
      BY <1>2, <3>1, <3>2, ProviderHandsOver
  <2>2. CallPending = 0 /\ (pc' = "abandon" => CallPending' = 0)
        /\ (pc' \in {"after_failure", "judge"} => CallPending' = CallsOf(run'.codex))
    BY <2>1 DEF CallPending, Called, Judging
  <2>3. Open /\ (ReasonsAgree => ReasonsAgree') /\ LastReading' /\ FreshCounters'
    BY <2>1 DEF Open, ReasonsAgree, NotRunLines, TerminalLines, LastReading, FreshCounters
  <2> QED
    BY <2>1, <2>2, <2>3, QuietFin DEF IInv, BuiltInv
<1> QED
  BY <1>1, <1>2

(* Every step keeps FinInv.                                                *)
LEMMA FinStep ==
  ASSUME IInv, StopInv, RefInv, TruthInv, BuiltInv, FinInv, [Next]_vars
  PROVE  FinInv'
<1> USE DEF files, world, bounds, counters, ghosts
<1>1. CASE Refuse \/ PrepareFails \/ AbandonRun \/ Reload \/ Crash
  <2>1. Leave /\ UNCHANGED << log, shortWrites, clock >>
    BY <1>1 DEF Refuse, PrepareFails, AbandonRun, Reload, Crash
  <2> QED
    BY <2>1, ExitFin DEF FinInv, FinishedFileLoads
<1>2. CASE AppendFails \/ Interrupt
  <2>1. /\ Leave /\ UNCHANGED << clock, shortWrites >>
        /\ \/ log' = log
           \/ pc \in Appending /\ (pc = "create" => log = << >>) /\ log' \in Written
    BY <1>2 DEF AppendFails, Interrupt
  <2>2. CASE log' = log
    BY <2>1, <2>2, ExitFin DEF FinInv, FinishedFileLoads
  <2>3. CASE pc \in Appending /\ (pc = "create" => log = << >>) /\ log' \in Written
    BY <2>1, <2>3, WrittenLoads, ExitFin
  <2> QED
    BY <2>1, <2>2, <2>3
<1>3. CASE CreateCampaign
  BY <1>3, HeaderFin DEF IInv, BuiltInv
<1>4. CASE AppendStarted \/ AppendTerminal \/ AppendNotRun
  BY <1>4, LineFin
<1>5. CASE AppendFinished
  <2>1. /\ pc = "tail" /\ (stop = "none" \/ nextIndex > RunCount) /\ pc' = "reload"
        /\ sequence' = sequence + 1 /\ clock' = clock
        /\ AppendEvent(CampaignFinished(sequence', stop, attempted, calls, failures, clock))
    BY <1>5 DEF AppendFinished, Goto, AppendStep
  <2>2. ~(stop # "none" /\ nextIndex <= RunCount)
    BY <2>1, RunCountAssumption DEF StopInv, CountersTyped
  <2>3. LineWritten = CampaignFinished(sequence', stop, attempted, calls, failures, clock)
    BY <2>1, <2>2 DEF LineWritten
  <2>4. \/ log' = Append(log, LineWritten) /\ UNCHANGED << clock, shortWrites >>
        \/ log' = Append(log, TornLine) /\ shortWrites' > 0
    BY <2>1, <2>3 DEF AppendEvent, RefInv
  <2>5. FinishedFileLoads'
    BY <2>1, <2>4, WrittenLoads DEF Appending
  <2> QED
    BY <2>1, <2>5 DEF FinInv, Open, LastReading, FreshCounters
<1>6. CASE BodyStep \/ ProviderStep
  BY <1>6, WorkFin
<1>7. CASE WriteOutputs
  <2>1. pc = "write" /\ UNCHANGED << log, shortWrites, clock >>
        /\ (Leave \/ /\ pc' = "append_terminal" /\ run' = Completes
                     /\ UNCHANGED << sequence, attempted, calls, failures >>)
    BY <1>7 DEF WriteOutputs, Goto
  <2>2. CASE Leave
    BY <2>1, <2>2, ExitFin DEF FinInv, FinishedFileLoads
  <2>3. CASE ~Leave
    <3>1. run'.codex = run.codex /\ run'.ended = clock
      BY <2>1, <2>3 DEF Completes, BuiltInv, WorldTyped, RunFields
    <3>2. UNCHANGED << calls, CallPending >>
      BY <2>1, <2>3, <3>1 DEF CallPending, Called, CallsOf
    <3>3. Open /\ (ReasonsAgree => ReasonsAgree') /\ LastReading' /\ FreshCounters'
      BY <2>1, <2>3, <3>1
      DEF Open, ReasonsAgree, NotRunLines, TerminalLines, LastReading, FreshCounters
    <3> QED
      BY <2>1, <2>3, <3>2, <3>3, QuietFin DEF IInv, BuiltInv
  <2> QED
    BY <2>2, <2>3
<1>8. CASE BeginRun \/ StopForChangedInput \/ LoopEnds \/ StopCheck
  <2>1. /\ UNCHANGED << log, shortWrites, clock, sequence, attempted, calls, failures >>
        /\ pc \in {"check", "stop_check"} /\ pc' \in {"append_started", "tail", "check"}
    BY <1>8 DEF BeginRun, StopForChangedInput, LoopEnds, StopCheck, Goto
  <2>2. UNCHANGED << calls, CallPending >>
    BY <2>1 DEF CallPending, Called, Judging
  <2>3. pc' = "tail" /\ stop' = "input_changed" => nextIndex' <= RunCount
    BY <1>8 DEF BeginRun, StopForChangedInput, LoopEnds, StopCheck, StopAfter, Goto, StopInv,
                CountersTyped, InLoop, BeforeCall
  <2>4. Open /\ LastReading' /\ FreshCounters'
    BY <2>1 DEF Open, LastReading, FreshCounters
  <2>5. ReasonsAgree => ReasonsAgree'
    BY <2>1, <2>3 DEF ReasonsAgree, NotRunLines, TerminalLines
  <2> QED
    BY <2>1, <2>2, <2>4, <2>5, QuietFin DEF IInv, BuiltInv
<1>9. CASE Invoke
  <2>1. UNCHANGED << log, shortWrites, clock, sequence, attempted, calls, failures >>
        /\ pc = "idle" /\ pc' = "create"
    BY <1>9 DEF Invoke
  <2> QED
    BY <2>1 DEF FinInv, Open, LastReading, FreshCounters, FinishedFileLoads
<1>10. CASE SetClockBack \/ LateWrite \/ UNCHANGED vars
  <2>1. /\ UNCHANGED << log, shortWrites, sequence, attempted, calls, failures, pc, run, stop,
                        nextIndex >>
        /\ clock' \in {clock, 0}
    BY <1>10 DEF SetClockBack, LateWrite, vars
  <2>2. UNCHANGED << calls, CallPending >>
    BY <2>1 DEF CallPending, CallsOf
  <2>3. LastReading' /\ FreshCounters' /\ (Open' => Open)
    BY <2>1 DEF Open, LastReading, FreshCounters, FinInv
  <2>4. ReasonsAgree => ReasonsAgree'
    BY <2>1 DEF ReasonsAgree, NotRunLines, TerminalLines
  <2> QED
    BY <2>1, <2>2, <2>3, <2>4, QuietFin DEF IInv, BuiltInv
<1> QED
  BY <1>1, <1>2, <1>3, <1>4, <1>5, <1>6, <1>7, <1>8, <1>9, <1>10
  DEF Next, ProgramStep, Done, BodyStep, ProviderStep

(* The initial states satisfy it.                                          *)
LEMMA FinInit ==
  ASSUME Init
  PROVE  FinInv
BY DEF Init, FinInv, Open, LastReading, FreshCounters, FinishedFileLoads, FinishedIn

(* Every Campaign file the Phase 6 Campaign finished is one its loader     *)
(* accepts, for every Plan, gates and stop conditions, and any number of   *)
(* crashes and failed appends, if no write came up short and the clock was *)
(* not set back.                                                           *)
THEOREM FinishedFilesLoad == Spec => []FinishedFileLoads
<1>1. Init => StopInv /\ RefInv /\ TruthInv /\ BuiltInv /\ FinInv
  BY StopInit, RefInit, TruthInit, BuiltInit, FinInit
<1>2. IInv /\ StopInv /\ [Next]_vars => StopInv'
  BY StopStep
<1>3. IInv /\ StopInv /\ RefInv /\ [Next]_vars => RefInv'
  BY RefStep
<1>4. IInv /\ StopInv /\ TruthInv /\ [Next]_vars => TruthInv'
  BY TruthStep
<1>5. IInv /\ BuiltInv /\ VerdictInv /\ [Next]_vars => (BuiltInv /\ VerdictInv)'
  BY WorldStep, ClockStep, DecisionStep, VerdictStep DEF BuiltInv, VerdictInv, IInv
<1>6. IInv /\ StopInv /\ RefInv /\ TruthInv /\ BuiltInv /\ FinInv /\ [Next]_vars => FinInv'
  BY FinStep
<1>7. Init => VerdictInv
  BY VerdictInit
<1>8. FinInv => FinishedFileLoads
  BY DEF FinInv
<1> QED
  BY <1>1, <1>2, <1>3, <1>4, <1>5, <1>6, <1>7, <1>8, Inductive, PTL DEF Spec

-----------------------------------------------------------------------------
(* The report of an accepted file: its lines and the pairs tell the same   *)
(* story.                                                                  *)

(* What a line says besides the calls: of a run that was not run nothing,  *)
(* of a run that ended what its pair says.                                 *)
NotRunTold(e) == e.outcome = "stop_condition" /\ e.calls = 0 /\ e.gate = FALSE
EndTold(e, pair) ==
  /\ pair.overall = ArtifactState(e)
  /\ pair.ended = e.at /\ e.at \in 0 .. 1
  /\ e.gate => e.calls = 1
  /\ ~e.gate => GateReasonOf(e) = pair.reason
LineTold(e) == IF e.status = "not_run" THEN NotRunTold(e) ELSE EndTold(e, pairs[e.run])
LinesTold == \A i \in TerminalLines(log) : LineTold(log[i])
HeadersTold ==
  \A i \in DOMAIN log : log[i].type = "campaign_started" => log[i].planned = RunCount

(* The run began when its `started` line was written, and so did its pair. *)
StartTold(e, pair) == e.at \in 0 .. 1 /\ (pair # NoPair => pair.began = e.at)
StartsTold ==
  shortWrites = 0 =>
    \A i \in DOMAIN log, r \in Runs : IsStarted(log[i], r) => StartTold(log[i], pairs[r])
ReadingTold ==
  shortWrites = 0 /\ pc \in Working =>
    \A i \in DOMAIN log : IsStarted(log[i], index) => run.began = log[i].at

(* A write that came up short left its torn line.                          *)
TornRemembered == shortWrites > 0 => \E i \in DOMAIN log : log[i].type = "torn"

(* What the pair says of its run, until its line is written.               *)
PairTold ==
  pc = "append_terminal" =>
    /\ pairs[index].overall = run.overall /\ pairs[index].reason = run.reason
    /\ pairs[index].ended = run.ended /\ run.ended \in 0 .. 1

ToldInv ==
  /\ LinesTold /\ HeadersTold /\ StartsTold /\ ReadingTold /\ TornRemembered /\ PairTold

(* The line of a run that ended says what the pair says.                   *)
LEMMA EndedTold ==
  ASSUME BuiltInv, PairTold, pc = "append_terminal"
  PROVE  EndTold(TerminalLine, pairs[index])
<1> DEFINE e == TerminalLine
<1>0. CommandsFit(run) /\ WrittenAs(run) /\ CodexFits(run.codex)
  BY DEF BuiltInv, DecisionInv, Called, Judging
<1>1. /\ e.outcome = run.outcome /\ e.stop = "none" /\ e.calls = CallsOf(run.codex)
      /\ e.kind = run.kind /\ e.at = run.ended
  BY DEF TerminalLine, TerminalEvent
<1>2. e.gate = (run.commands # << >>)
  BY DEF TerminalLine, TerminalEvent
<1> HIDE DEF e
<1>3. e.gate => e.calls = 1
  <2>1. run.commands # << >> => run.codex.kind = "none"
    BY <1>0 DEF CommandsFit
  <2> QED
    BY <1>0, <1>1, <1>2, <2>1 DEF CodexFits, CallsOf
<1>4. run.overall = ArtifactState(e) /\ (run.commands = << >> => GateReasonOf(e) = run.reason)
  <2> USE <1>1 DEF Verdict, ArtifactState, GateReasonOf, HarnessReason
  <2>1. CASE ByProvider(run)
    <3>1. run.codex.kind # "provider_timeout" => run.outcome = "provider_failure"
      BY <2>1 DEF ByProvider
    <3> QED
      BY <2>1, <3>1 DEF ByProvider
  <2>2. CASE ByRunner(run)
    BY <2>2 DEF ByRunner
  <2>3. CASE ByPolicy(run)
    BY <2>3 DEF ByPolicy
  <2>4. CASE ByCollection(run)
    BY <2>4 DEF ByCollection
  <2>5. CASE ByGate(run)
    BY <2>5 DEF ByGate
  <2>6. CASE ByQuality(run)
    BY <2>6 DEF ByQuality
  <2>7. CASE Verdict(run, "harness_error", "process_cleanup_error", "cleanup_failure",
                     HarnessReason(run), "none")
    BY <2>7
  <2>8. CASE ByHandler(run)
    BY <2>8 DEF ByHandler
  <2> QED
    BY <1>0, <2>1, <2>2, <2>3, <2>4, <2>5, <2>6, <2>7, <2>8 DEF WrittenAs, Decided
<1>5. ~e.gate => GateReasonOf(e) = run.reason
  BY <1>2, <1>4
<1> QED
  BY <1>1, <1>3, <1>4, <1>5 DEF EndTold, PairTold, e

(* Whatever is appended tells what the pairs tell.                         *)
LEMMA WrittenTold ==
  ASSUME IInv, StopInv, RefInv, TruthInv, BuiltInv, ToldInv, UNCHANGED pairs,
         log' = log \/ (pc \in Appending /\ log' \in Written),
         shortWrites' = 0 => shortWrites = 0
  PROVE  LinesTold' /\ HeadersTold' /\ StartsTold'
<1>0. /\ FileInv /\ clock \in 0 .. 1 /\ LinesTold /\ HeadersTold /\ StartsTold
      /\ pc = "append_started" => index \in Runs
  BY DEF IInv, BuiltInv, WorldTyped, ToldInv, IndexInv, InLoop, BeforeCall
<1>1. CASE log' = log
  BY <1>0, <1>1 DEF LinesTold, LineTold, HeadersTold, StartsTold
<1>2. ASSUME pc \in Appending, NEW e \in {TornLine, LineWritten}, log' = Append(log, e)
      PROVE  LinesTold' /\ HeadersTold' /\ StartsTold'
  <2> DEFINE n == Len(log) + 1
  <2>1. /\ log'[n] = e /\ \A i \in TerminalLines(log) : log'[i] = log[i]
        /\ TerminalLines(log') = TerminalLines(log) \cup (IF Concludes(e) THEN {n} ELSE {})
    BY <1>0, <1>2, AppendConcludes
  <2>2. /\ \A i : i \in DOMAIN log' <=> i \in DOMAIN log \/ i = n
        /\ \A i \in DOMAIN log : log'[i] = log[i]
    BY <1>0, <1>2, AppendPlaces
  <2> HIDE DEF n
  <2>3. CASE e = TornLine
    <3>1. ~Concludes(e) /\ e.type # "campaign_started" /\ \A r : ~IsStarted(e, r)
      BY <2>3 DEF Concludes, IsRunEvent, TornLine, IsStarted
    <3> QED
      BY <1>0, <1>2, <2>1, <2>2, <3>1
      DEF LinesTold, LineTold, HeadersTold, StartsTold
  <2>4. CASE e = LineWritten
    <3>1. Concludes(e) => LineTold(e)
      <4>1. CASE pc = "append_terminal"
        <5>1. e = TerminalLine /\ e.run = index /\ e.status # "not_run"
          BY <2>4, <4>1 DEF LineWritten, TerminalLine, TerminalEvent
        <5> QED
          BY <4>1, <5>1, EndedTold DEF LineTold, ToldInv
      <4>2. CASE pc = "tail" /\ stop # "none" /\ nextIndex <= RunCount
        <5>1. /\ e.status = "not_run" /\ e.outcome = "stop_condition" /\ e.calls = 0
              /\ e.gate = FALSE
          BY <2>4, <4>2 DEF LineWritten, NotRunEvent
        <5> QED
          BY <5>1 DEF LineTold, NotRunTold
      <4>3. CASE pc \notin {"append_terminal", "tail"}
                 \/ (pc = "tail" /\ ~(stop # "none" /\ nextIndex <= RunCount))
        BY <1>2, <2>4, <4>3, NextLine DEF Concludes, IsRunEvent, Appending
      <4> QED
        BY <4>1, <4>2, <4>3
    <3>2. e.type = "campaign_started" => e.planned = RunCount
      <4>1. CASE pc = "create"
        BY <2>4, <4>1 DEF LineWritten, CampaignStarted
      <4>2. CASE pc # "create"
        BY <1>2, <2>4, <4>2, NextLine DEF Appending
      <4> QED
        BY <4>1, <4>2
    <3>3. ASSUME NEW r \in Runs, IsStarted(e, r) PROVE StartTold(e, pairs[r])
      <4>1. pc = "append_started"
        BY <1>2, <2>4, <3>3, NextLine DEF Appending, IsStarted, IsRunEvent
      <4>2. r = index /\ e.at = clock
        BY <2>4, <3>3, <4>1 DEF LineWritten, StartedEvent, IsStarted
      <4>3. pairs[index] = NoPair
        BY <1>0, <4>1, RunCountAssumption
        DEF TruthInv, PairsInv, Unwritten, InLoop, BeforeCall, Runs
      <4> QED
        BY <1>0, <4>2, <4>3 DEF StartTold
    <3>4. LinesTold'
      BY <1>0, <2>1, <3>1 DEF LinesTold, LineTold
    <3> QED
      BY <1>0, <1>2, <2>2, <3>2, <3>3, <3>4 DEF HeadersTold, StartsTold
  <2> QED
    BY <2>3, <2>4
<1> QED
  BY <1>1, <1>2 DEF Written

(* In the loop body the run keeps the time it began at.                    *)
LEMMA BeganKept ==
  ASSUME WorldTyped, ClockInv, BodyStep \/ ProviderStep
  PROVE  /\ run'.began = run.began /\ UNCHANGED << files, index, shortWrites >>
         /\ pc \in Working \ {"append_terminal"} /\ pc' \in Working \ {"append_terminal"}
<1> USE DEF Working, InLoop, BeforeCall, AfterCall, Concluded, files, world, bounds, counters,
            RunStep, InWorkspace, Goto
<1>1. CASE PrepareWorkspace \/ InvokeProvider \/ StartGate
  BY <1>1 DEF PrepareWorkspace, InvokeProvider, StartGate, WorldTyped, RunFields
<1>2. CASE Timeless
  <2>1. run'.began = run.began /\ pc \in Called /\ pc' \in Called
    BY <1>2, TimelessStep DEF SameReadings
  <2>2. UNCHANGED << files, index, shortWrites >>
    BY <1>2 DEF Timeless, AfterFailure, JudgeOutput, CollectDiff, PrepareGates, GateNotStarted,
                Conclude, RemoveWorkspace
  <2> QED
    BY <2>1, <2>2 DEF Called, Judging
<1>3. CASE GateEnds
  <2>1. UNCHANGED << files, index, shortWrites >> /\ pc = "gate_running"
    BY <1>3 DEF GateEnds
  <2>2. \A c : Recorded(c).began = run.began /\ RunFields \subseteq DOMAIN Recorded(c)
    BY RecordedParts DEF WorldTyped
  <2>3. PostCodexFailure(<< >>).began = run.began
    BY FailureParts DEF WorldTyped, SameReadings
  <2>4. \A c, harness, toolchain : Collect(Recorded(c), harness, toolchain).began = run.began
    BY <2>2 DEF Collect, RunFields
  <2>5. run'.began = run.began /\ pc' \in {"remove", "after_gates", "gate"}
    BY <1>3, <2>2, <2>3, <2>4, GateEndsForms
  <2> QED
    BY <2>1, <2>5
<1>4. CASE ProviderStep
  <2>1. pc \in {"provider", "running"} /\ pc' \in AfterCall /\ UNCHANGED << log, index >>
    BY <1>4, ProviderFacts
  <2>2. UNCHANGED << files, shortWrites >>
    BY <1>4, ProviderHandsOver DEF Receive, Abandon
  <2>3. run'.began = run.began
    BY <1>4, HandedOver DEF WorldTyped, RunFields
  <2> QED
    BY <2>1, <2>2, <2>3
<1> QED
  BY <1>1, <1>2, <1>3, <1>4 DEF BodyStep, Timeless

(* The pair of the current run is written where no line tells of it yet,   *)
(* and it says when the run began.                                         *)
LEMMA NewPairTold ==
  ASSUME IInv, StopInv, TruthInv, BuiltInv, ToldInv, pc = "write",
         UNCHANGED << log, shortWrites >>, pairs' = [pairs EXCEPT ![index] = PairOf(run)]
  PROVE  LinesTold' /\ HeadersTold' /\ StartsTold'
<1>0. /\ index \in Runs /\ DOMAIN pairs = Runs /\ LinesTold /\ HeadersTold /\ StartsTold
      /\ ReadingTold
  BY DEF IInv, IndexInv, InLoop, Concluded, TruthInv, PairsInv, ToldInv
<1>1. \A i \in TerminalLines(log) : log[i].run \in Runs /\ log[i].run < index
  BY DEF StopInv, CountersTyped, CurrentRun, InLoop, Concluded
<1>2. \A i \in TerminalLines(log) : pairs'[log[i].run] = pairs[log[i].run]
  <2>1. \A i \in TerminalLines(log) : log[i].run # index
    BY <1>0, <1>1, RunCountAssumption DEF Runs
  <2> QED
    BY <1>0, <1>1, <2>1
<1>3. LinesTold'
  BY <1>0, <1>2 DEF LinesTold, LineTold
<1>4. pairs'[index].began = run.began
  BY <1>0 DEF PairOf
<1>5. StartsTold'
  <2> SUFFICES ASSUME shortWrites = 0, NEW i \in DOMAIN log, NEW r \in Runs,
                      IsStarted(log[i], r)
               PROVE  StartTold(log[i], pairs'[r])
    BY DEF StartsTold
  <2>1. StartTold(log[i], pairs[r])
    BY <1>0 DEF StartsTold
  <2>2. CASE r = index
    <3>1. run.began = log[i].at
      BY <1>0, <2>2 DEF ReadingTold, Working, InLoop, Concluded
    <3> QED
      BY <1>4, <2>1, <2>2, <3>1 DEF StartTold
  <2>3. CASE r # index
    BY <1>0, <2>1, <2>3
  <2> QED
    BY <2>2, <2>3
<1> QED
  BY <1>0, <1>3, <1>5 DEF HeadersTold

(* A line torn by a short write stays in the file.                         *)
LEMMA TornStays ==
  ASSUME FileInv, TornRemembered, RefInv,
         \/ log' = log /\ UNCHANGED shortWrites
         \/ log' \in Written /\ UNCHANGED shortWrites
         \/ \E e : AppendEvent(e)
  PROVE  TornRemembered'
<1>1. ASSUME NEW e, log' = Append(log, e), shortWrites' = shortWrites \/ e = TornLine
      PROVE  TornRemembered'
  <2>1. CASE e = TornLine
    BY <1>1, <2>1, AppendPlaces DEF TornRemembered, TornLine
  <2>2. CASE shortWrites' = shortWrites
    BY <1>1, <2>2, AppendPlaces DEF TornRemembered
  <2> QED
    BY <1>1, <2>1, <2>2
<1>2. CASE log' = log /\ UNCHANGED shortWrites
  BY <1>2 DEF TornRemembered
<1> QED
  BY <1>1, <1>2 DEF Written, AppendEvent

(* Every step keeps ToldInv.                                               *)
LEMMA ToldStep ==
  ASSUME IInv, StopInv, RefInv, TruthInv, BuiltInv, ToldInv, [Next]_vars
  PROVE  ToldInv'
<1> USE DEF files, world, bounds, counters, ghosts, RunStep, AppendStep, Goto
<1>0. /\ FileInv /\ shortWrites \in Nat /\ clock \in 0 .. 1 /\ WorldTyped /\ ClockInv
      /\ LinesTold /\ HeadersTold /\ StartsTold /\ ReadingTold /\ TornRemembered /\ PairTold
      /\ DOMAIN pairs = Runs /\ (pc \in InLoop \ {"check"} => index \in Runs)
  BY DEF IInv, IndexInv, RefInv, BuiltInv, WorldTyped, TruthInv, PairsInv, ToldInv
<1>1. CASE Refuse \/ PrepareFails \/ AbandonRun \/ Reload \/ Crash
  <2>1. UNCHANGED << log, pairs, shortWrites >> /\ pc' = "idle"
    BY <1>1 DEF Refuse, PrepareFails, AbandonRun, Reload, Crash, Leave
  <2> QED
    BY <1>0, <2>1, WrittenTold, TornStays
    DEF ToldInv, ReadingTold, PairTold, Working, InLoop, BeforeCall, AfterCall, Concluded
<1>2. CASE CreateCampaign \/ AppendNotRun \/ AppendFinished \/ AppendTerminal
  <2>1. /\ UNCHANGED pairs /\ pc \in Appending /\ AppendEvent(LineWritten)
        /\ pc' \in {"check", "tail", "reload", "stop_check"}
    <3> USE DEF LineWritten, Appending
    <3>1. CASE CreateCampaign
      BY <3>1 DEF CreateCampaign
    <3>2. CASE AppendNotRun
      BY <3>2 DEF AppendNotRun
    <3>3. CASE AppendFinished
      <4>1. nextIndex \in Nat /\ RunCount \in Nat
        BY RunCountAssumption DEF StopInv, CountersTyped
      <4>2. ~(stop # "none" /\ nextIndex <= RunCount)
        BY <3>3, <4>1 DEF AppendFinished
      <4> QED
        BY <3>3, <4>2 DEF AppendFinished
    <3>4. CASE AppendTerminal
      BY <3>4 DEF AppendTerminal
    <3> QED
      BY <1>2, <3>1, <3>2, <3>3, <3>4
  <2>2. log' \in Written /\ (shortWrites' = 0 => shortWrites = 0)
    BY <1>0, <2>1 DEF AppendEvent, Written
  <2> QED
    BY <1>0, <2>1, <2>2, WrittenTold, TornStays
    DEF ToldInv, ReadingTold, PairTold, Working, InLoop, BeforeCall, AfterCall, Concluded
<1>3. CASE AppendStarted
  <2>1. /\ UNCHANGED << pairs, index, clock >> /\ pc \in Appending /\ pc = "append_started"
        /\ AppendEvent(LineWritten) /\ pc' = "prepare" /\ run' = FreshRun
        /\ LineWritten = StartedEvent(sequence + 1, index, clock)
    BY <1>3 DEF AppendStarted, LineWritten, Appending
  <2>2. log' \in Written /\ (shortWrites' = 0 => shortWrites = 0 /\ log' = Append(log, LineWritten))
    BY <1>0, <2>1 DEF AppendEvent, Written
  <2>3. ReadingTold'
    <3> SUFFICES ASSUME shortWrites' = 0, NEW i \in DOMAIN log', IsStarted(log'[i], index)
                 PROVE  run'.began = log'[i].at
      BY <2>1 DEF ReadingTold
    <3>1. ~StartedIn(log, index)
      <4>1. PhaseIn(log, index) = "planned"
        BY <1>0, <2>1, <2>2 DEF RefInv, PhasesFit, InLoop, BeforeCall
      <4> QED
        BY <4>1 DEF PhaseIn
    <3>2. i = Len(log) + 1 /\ log'[i] = LineWritten
      <4>1. /\ log'[Len(log) + 1] = LineWritten /\ DOMAIN log = 1 .. Len(log)
            /\ Len(log) \in Nat
            /\ DOMAIN log' = 1 .. Len(log) + 1 /\ \A j \in DOMAIN log : log'[j] = log[j]
        BY <1>0, <2>2, AppendPlaces
      <4>2. i \notin DOMAIN log
        BY <3>1, <4>1 DEF StartedIn
      <4> QED
        BY <4>1, <4>2
    <3> QED
      BY <2>1, <3>2 DEF FreshRun, StartedEvent
  <2> QED
    BY <1>0, <2>1, <2>2, <2>3, WrittenTold, TornStays DEF ToldInv, PairTold
<1>4. CASE BeginRun \/ StopForChangedInput \/ LoopEnds \/ Invoke \/ StopCheck
  <2>1. UNCHANGED << log, pairs, shortWrites >>
        /\ pc' \in {"append_started", "tail", "create", "check"}
    BY <1>4 DEF BeginRun, StopForChangedInput, LoopEnds, Invoke, StopCheck
  <2> QED
    BY <1>0, <2>1, WrittenTold, TornStays
    DEF ToldInv, ReadingTold, PairTold, Working, InLoop, BeforeCall, AfterCall, Concluded
<1>5. CASE BodyStep \/ ProviderStep
  <2>1. /\ run'.began = run.began /\ UNCHANGED << log, pairs, index, shortWrites >>
        /\ pc \in Working \ {"append_terminal"} /\ pc' \in Working \ {"append_terminal"}
    BY <1>0, <1>5, BeganKept
  <2> QED
    BY <1>0, <2>1, WrittenTold, TornStays DEF ToldInv, ReadingTold, PairTold
<1>6. CASE WriteOutputs
  <2>1. /\ UNCHANGED << log, shortWrites >> /\ pc = "write" /\ index \in Runs
        /\ pairs' \in {pairs, [pairs EXCEPT ![index] = PairOf(run)]}
        /\ \/ pc' = "idle"
           \/ /\ pc' = "append_terminal" /\ run' = Completes /\ index' = index
              /\ pairs' = [pairs EXCEPT ![index] = PairOf(run)]
    BY <1>0, <1>6 DEF WriteOutputs, Leave, InLoop, Concluded
  <2>2. LinesTold' /\ HeadersTold' /\ StartsTold'
    BY <2>1, WrittenTold, NewPairTold
  <2>3. TornRemembered'
    BY <1>0, <2>1, TornStays
  <2>4. CASE pc' = "idle"
    BY <2>2, <2>3, <2>4
    DEF ToldInv, ReadingTold, PairTold, Working, InLoop, BeforeCall, AfterCall, Concluded
  <2>5. CASE /\ pc' = "append_terminal" /\ run' = Completes /\ index' = index
             /\ pairs' = [pairs EXCEPT ![index] = PairOf(run)]
    <3>1. /\ run'.overall = run.overall /\ run'.reason = run.reason /\ run'.began = run.began
          /\ run'.ended = clock
      BY <1>0, <2>5 DEF Completes, WorldTyped, RunFields
    <3>2. PairTold'
      BY <1>0, <2>1, <2>5, <3>1 DEF PairTold, PairOf
    <3>3. ReadingTold'
      BY <1>0, <2>1, <2>5, <3>1 DEF ReadingTold, Working, InLoop, Concluded
    <3> QED
      BY <2>2, <2>3, <3>2, <3>3 DEF ToldInv
  <2> QED
    BY <2>1, <2>4, <2>5
<1>7. CASE AppendFails \/ Interrupt
  <2>1. /\ UNCHANGED shortWrites /\ pc' = "idle"
        /\ log' = log \/ (pc \in Appending /\ log' \in Written)
        /\ \/ pairs' = pairs
           \/ pc = "write" /\ pairs' = [pairs EXCEPT ![index] = PairOf(run)]
    BY <1>7 DEF AppendFails, Interrupt, Leave
  <2>2. LinesTold' /\ HeadersTold' /\ StartsTold'
    BY <2>1, WrittenTold, NewPairTold DEF Appending
  <2>3. TornRemembered'
    BY <1>0, <2>1, TornStays
  <2> QED
    BY <2>1, <2>2, <2>3
    DEF ToldInv, ReadingTold, PairTold, Working, InLoop, BeforeCall, AfterCall, Concluded
<1>8. CASE SetClockBack \/ LateWrite \/ UNCHANGED vars
  <2>1. UNCHANGED << log, pairs, shortWrites, pc, run, index >>
    BY <1>8 DEF SetClockBack, LateWrite, vars
  <2> QED
    BY <1>0, <2>1, WrittenTold, TornStays DEF ToldInv, ReadingTold, PairTold
<1> QED
  BY <1>1, <1>2, <1>3, <1>4, <1>5, <1>6, <1>7, <1>8
  DEF Next, ProgramStep, Done, BodyStep, ProviderStep

(* The initial states satisfy it.                                          *)
LEMMA ToldInit ==
  ASSUME Init
  PROVE  ToldInv
BY DEF Init, ToldInv, LinesTold, HeadersTold, StartsTold, ReadingTold, TornRemembered, PairTold,
       TerminalLines, Working, InLoop, BeforeCall, AfterCall, Concluded

(* In an accepted file every run has its terminal line, and no other line  *)
(* is one.                                                                 *)
LEMMA OneLinePerRun ==
  ASSUME FileInv, LinesTyped, HeadersTold, CampaignLoads(log)
  PROVE  /\ \A i, j \in TerminalLines(log) : log[i].run = log[j].run => i = j
         /\ \A r \in Runs : \E i \in TerminalLines(log) :
              TerminalOf(log, r) = log[i] /\ log[i].run = r
<1>1. /\ Bounded(log) /\ CountsMatch(log) /\ OneTerminalEach(log)
      /\ \A i \in TerminalLines(log) : log[i].run \in Runs
  BY DEF CampaignLoads, LinesTyped
<1>2. log[1].planned = RunCount
  <2>1. log # << >> /\ log[1].type = "campaign_started"
    BY <1>1 DEF Bounded
  <2>2. 1 \in DOMAIN log
    BY <2>1 DEF FileInv
  <2> QED
    BY <2>1, <2>2 DEF HeadersTold
<1>3. Cardinality(TerminalLines(log)) = RunCount
  BY <1>1, <1>2 DEF CountsMatch
<1>4. \A i, j \in TerminalLines(log) : log[i].run = log[j].run => i = j
  BY <1>1 DEF OneTerminalEach, TerminalLines, IsTerminal
<1> DEFINE runOf == [i \in TerminalLines(log) |-> log[i].run]
<1>5. runOf \in Injection(TerminalLines(log), Runs)
  BY <1>1, <1>4 DEF Injection, IsInjective
<1>6. runOf \in Surjection(TerminalLines(log), Runs)
  BY <1>3, <1>5, FiniteLines, FS_Injection
<1>7. \A r \in Runs : \E i \in TerminalLines(log) : log[i].run = r
  BY <1>6 DEF Surjection
<1>8. ASSUME NEW r \in Runs
      PROVE  \E i \in TerminalLines(log) : TerminalOf(log, r) = log[i] /\ log[i].run = r
  <2> DEFINE i == CHOOSE i \in DOMAIN log : IsTerminal(log[i], r)
  <2>1. \E k \in DOMAIN log : IsTerminal(log[k], r)
    BY <1>7 DEF TerminalLines, IsTerminal
  <2>2. i \in DOMAIN log /\ IsTerminal(log[i], r)
    BY <2>1
  <2>3. TerminalOf(log, r) = log[i]
    BY DEF TerminalOf
  <2> HIDE DEF i
  <2> QED
    BY <2>2, <2>3 DEF TerminalLines, IsTerminal
<1> QED
  BY <1>4, <1>8

(* A property of runs that is a property of their terminal lines counts    *)
(* the same either way.                                                    *)
LEMMA CountByLine ==
  ASSUME FileInv, LinesTyped, HeadersTold, CampaignLoads(log),
         NEW L \in SUBSET TerminalLines(log), NEW R \in SUBSET Runs,
         \A i \in TerminalLines(log) : i \in L <=> log[i].run \in R
  PROVE  Cardinality(L) = Cardinality(R)
<1> DEFINE runOf == [i \in L |-> log[i].run]
<1>1. runOf \in Bijection(L, R)
  <2>1. runOf \in [L -> R]
    OBVIOUS
  <2>2. \A i, j \in L : runOf[i] = runOf[j] => i = j
    BY OneLinePerRun
  <2>3. \A r \in R : \E i \in L : runOf[i] = r
    BY OneLinePerRun
  <2> QED
    BY <2>1, <2>2, <2>3 DEF Bijection, Injection, Surjection, IsInjective
<1>2. IsFiniteSet(L) /\ IsFiniteSet(R)
  BY FiniteLines
<1>3. ExistsBijection(L, R)
  BY <1>1 DEF ExistsBijection
<1> QED
  BY <1>2, <1>3, FS_Bijection

(* The two forms of a terminal line of an accepted file.                   *)
LEMMA AcceptedLine ==
  ASSUME CampaignLoads(log), LinesTold, LinesTyped, TerminalLineIsTrue,
         NEW i \in TerminalLines(log)
  PROVE  LET e == log[i]
             pair == pairs[e.run] IN
         /\ e.run \in Runs /\ e.status \in {"completed", "failed", "not_run"}
         /\ e.status = "not_run" => NotRunTold(e)
         /\ e.status # "not_run" =>
              /\ OutcomeExplicit(e) /\ EndTold(e, pair) /\ pair # NoPair
              /\ pair.kind = e.kind /\ pair.calls = e.calls /\ pair.gate = e.gate
<1>1. RunEventExplicit(log[i]) /\ log[i].status # "started"
  BY DEF CampaignLoads, TerminalLines
<1>2. log[i].status # "not_run" => OutcomeExplicit(log[i])
  BY <1>1 DEF RunEventExplicit
<1>3. log[i].status # "not_run" => log[i].status \in {"completed", "failed"}
  BY <1>2 DEF OutcomeExplicit
<1>4. log[i].status = "not_run" => NotRunTold(log[i])
  BY DEF LinesTold, LineTold
<1>5. log[i].status # "not_run" => EndTold(log[i], pairs[log[i].run])
  BY DEF LinesTold, LineTold
<1>6. log[i].status # "not_run" =>
        /\ pairs[log[i].run] # NoPair
        /\ pairs[log[i].run].kind = log[i].kind /\ pairs[log[i].run].calls = log[i].calls
        /\ pairs[log[i].run].gate = log[i].gate
  BY DEF TerminalLineIsTrue
<1>7. log[i].run \in Runs
  BY DEF LinesTyped
<1> QED
  BY <1>2, <1>3, <1>4, <1>5, <1>6, <1>7

(* A line the contract accepts is of a completed run exactly when it       *)
(* stands for a quality verdict.                                           *)
LEMMA CompletedState ==
  ASSUME NEW e, OutcomeExplicit(e)
  PROVE  (e.status = "completed") <=> ArtifactState(e) \in QualityStatuses
<1>1. e.outcome \in Outcomes
      /\ e.status = IF e.outcome \in {"success", "quality_gate_failure"} THEN "completed"
                    ELSE "failed"
  BY DEF OutcomeExplicit
<1> QED
  BY <1>1 DEF ArtifactState, Outcomes, QualityStatuses

(* The lines of an accepted file and the pairs of the Campaign bind.       *)
LEMMA BindingsFollow ==
  ASSUME FileInv, LinesTyped, TerminalLineIsTrue, ToldInv, shortWrites = 0, CampaignLoads(log)
  PROVE  BindingsHold(log, pairs)
<1> DEFINE finished == log[Len(log)]
<1>0. LinesTold /\ HeadersTold /\ StartsTold
  BY DEF ToldInv
<1>1. \A r \in Runs : TerminalIn(log, r)
  BY <1>0, OneLinePerRun DEF TerminalIn, TerminalLines, IsTerminal
<1>2. ASSUME NEW r \in WithArtifacts(log)
      PROVE  /\ pairs[r] # NoPair
             /\ BoundToPair(TerminalOf(log, r), StartedOf(log, r), finished, pairs[r])
  <2>1. r \in Runs /\ TerminalOf(log, r).status \in {"completed", "failed"}
    BY DEF WithArtifacts
  <2>2. PICK i \in TerminalLines(log) : TerminalOf(log, r) = log[i] /\ log[i].run = r
    BY <1>0, <2>1, OneLinePerRun
  <2> DEFINE e == log[i]
             j == CHOOSE k \in DOMAIN log : IsStarted(log[k], r)
  <2>3. /\ OutcomeExplicit(e) /\ EndTold(e, pairs[r]) /\ pairs[r] # NoPair
        /\ pairs[r].kind = e.kind /\ pairs[r].calls = e.calls /\ pairs[r].gate = e.gate
    BY <1>0, <2>1, <2>2, AcceptedLine
  <2>4. pairs[r].overall = ArtifactState(e) /\ pairs[r].ended = e.at /\ e.at \in 0 .. 1
    BY <2>3 DEF EndTold
  <2>5. pairs[r].ended <= e.at /\ pairs[r].ended <= finished.at
    <3>1. /\ i \in 1 .. Len(log) /\ Len(log) \in Nat /\ DOMAIN log = 1 .. Len(log)
          /\ Len(log) \in DOMAIN log
      <4>1. i \in DOMAIN log /\ DOMAIN log = 1 .. Len(log) /\ Len(log) \in Nat
        BY DEF TerminalLines, FileInv
      <4> QED
        BY <4>1
    <3>2. CASE i = Len(log)
      BY <2>4, <3>2
    <3>3. CASE i # Len(log)
      <4>1. \A n \in Nat : \A k \in 1 .. n : k # n => k < n
        OBVIOUS
      <4>3. i < Len(log)
        BY <3>1, <3>3, <4>1
      <4>2. e.at <= finished.at
        BY <3>1, <4>3 DEF CampaignLoads, TimesNonDecreasing
      <4> QED
        BY <2>4, <4>2
    <3> QED
      BY <3>2, <3>3
  <2>6. StartedOf(log, r).at <= pairs[r].began
    <3>1. \E k \in DOMAIN log : IsStarted(log[k], r)
      <4>1. IsTerminal(log[i], r) /\ i \in DOMAIN log /\ log[i].status # "not_run"
        BY <2>1, <2>2 DEF TerminalLines, IsTerminal
      <4>2. \E k \in 1 .. i - 1 : IsStarted(log[k], r)
        BY <2>1, <4>1 DEF CampaignLoads, StartedBeforeTerminal
      <4>3. 1 .. i - 1 \subseteq DOMAIN log
        <5>1. DOMAIN log = 1 .. Len(log) /\ Len(log) \in Nat
          BY DEF FileInv
        <5> QED
          BY <4>1, <5>1
      <4> QED
        BY <4>2, <4>3
    <3>2. j \in DOMAIN log /\ IsStarted(log[j], r)
      BY <3>1
    <3>3. StartedOf(log, r) = log[j]
      BY DEF StartedOf
    <3> HIDE DEF j
    <3>4. StartTold(log[j], pairs[r])
      BY <1>0, <2>1, <3>2 DEF StartsTold
    <3> QED
      BY <2>3, <3>3, <3>4 DEF StartTold
  <2>7. (e.status = "completed") = (pairs[r].overall \in QualityStatuses)
    <3>1. (e.status = "completed") <=> (pairs[r].overall \in QualityStatuses)
      BY <2>3, <2>4, CompletedState
    <3> QED
      BY <3>1
  <2>8. pairs[r].gate = e.gate
    BY <2>3
  <2> HIDE DEF finished, e
  <2> QED
    BY <2>2, <2>3, <2>4, <2>5, <2>6, <2>7, <2>8 DEF BoundToPair, e
<1>3. finished.calls = Cardinality({r \in WithArtifacts(log) : pairs[r].calls = 1})
  <2> DEFINE L == {i \in TerminalLines(log) : log[i].calls = 1}
             R == {r \in WithArtifacts(log) : pairs[r].calls = 1}
  <2>1. Cardinality(L) = finished.calls
    BY DEF CampaignLoads, CountsMatch
  <2>2. R \subseteq Runs /\ L \subseteq TerminalLines(log)
    BY DEF WithArtifacts
  <2>3. ASSUME NEW i \in TerminalLines(log) PROVE i \in L <=> log[i].run \in R
    <3>1. log[i].run \in Runs /\ log[i].status \in {"completed", "failed", "not_run"}
      BY <1>0, AcceptedLine
    <3>2. TerminalOf(log, log[i].run) = log[i]
      <4>1. PICK k \in TerminalLines(log) :
              TerminalOf(log, log[i].run) = log[k] /\ log[k].run = log[i].run
        BY <1>0, <3>1, OneLinePerRun
      <4> QED
        BY <1>0, <4>1, OneLinePerRun
    <3>3. CASE log[i].status = "not_run"
      <4>1. log[i].calls = 0 /\ log[i].run \notin WithArtifacts(log)
        BY <1>0, <3>2, <3>3, AcceptedLine DEF NotRunTold, WithArtifacts
      <4> QED
        BY <4>1
    <3>4. CASE log[i].status # "not_run"
      <4>1. pairs[log[i].run].calls = log[i].calls /\ log[i].run \in WithArtifacts(log)
        BY <1>0, <3>1, <3>2, <3>4, AcceptedLine DEF WithArtifacts
      <4> QED
        BY <4>1
    <3> QED
      BY <3>3, <3>4
  <2> HIDE DEF L, R
  <2>4. Cardinality(L) = Cardinality(R)
    BY <1>0, <2>2, <2>3, CountByLine
  <2> QED
    BY <2>1, <2>4 DEF R
<1> HIDE DEF finished
<1> QED
  BY <1>1, <1>2, <1>3 DEF BindingsHold, finished

(* Disjoint sets of terminal lines: the size of their union.               *)
LEMMA SplitLines ==
  ASSUME FileInv
  PROVE  \A A, B \in SUBSET TerminalLines(log) :
           /\ A \cup B \in SUBSET TerminalLines(log)
           /\ Cardinality(A) \in Nat /\ Cardinality(B) \in Nat
           /\ A \cap B = {} => Cardinality(A \cup B) = Cardinality(A) + Cardinality(B)
<1> SUFFICES ASSUME NEW A \in SUBSET TerminalLines(log), NEW B \in SUBSET TerminalLines(log)
             PROVE  /\ Cardinality(A) \in Nat /\ Cardinality(B) \in Nat
                    /\ A \cap B = {} =>
                         Cardinality(A \cup B) = Cardinality(A) + Cardinality(B)
  OBVIOUS
<1>1. /\ IsFiniteSet(A) /\ IsFiniteSet(B)
      /\ Cardinality(A) \in Nat /\ Cardinality(B) \in Nat
  BY FiniteLines
<1>2. Cardinality({}) = 0
  BY FS_EmptySet
<1>3. Cardinality(A \cup B) = Cardinality(A) + Cardinality(B) - Cardinality(A \cap B)
  BY <1>1, FS_Union
<1>4. ASSUME A \cap B = {} PROVE Cardinality(A \cup B) = Cardinality(A) + Cardinality(B)
  <2>1. Cardinality(A \cap B) = 0
    BY <1>2, <1>4
  <2> QED
    BY <1>1, <1>3, <2>1
<1> QED
  BY <1>1, <1>4

(* Why no gate ran, as the report has it: never for no reason.             *)
LEMMA ReasonsOfLines ==
  \A e : GateReasonOf(e) \in {"input_changed", "output_contract_violation", "provider_timeout",
                              "provider_failure", "pre_gate_harness_failure", "not_run"}
BY DEF GateReasonOf

(* What the counts of the report rest on, line by line.                    *)
LEMMA CountedLine ==
  ASSUME CampaignLoads(log), LinesTold, LinesTyped, TerminalLineIsTrue,
         NEW i \in TerminalLines(log)
  PROVE  LET e == log[i] IN
         /\ e.status \in {"completed", "failed", "not_run"}
         /\ e.outcome = "output_contract_violation" <=>
              ~e.gate /\ GateReasonOf(e) = "output_contract_violation"
         /\ e.outcome = "output_contract_violation" => e.status = "failed"
         /\ e.calls = 0 => ~e.gate
<1>1. CASE log[i].status = "not_run"
  <2>1. NotRunTold(log[i])
    BY <1>1, AcceptedLine
  <2> QED
    BY <1>1, <2>1 DEF NotRunTold, GateReasonOf
<1>2. CASE log[i].status # "not_run"
  <2>1. OutcomeExplicit(log[i]) /\ EndTold(log[i], pairs[log[i].run])
    BY <1>2, AcceptedLine
  <2>2. log[i].status \in {"completed", "failed"}
        /\ (log[i].outcome = "output_contract_violation" => log[i].status = "failed")
    BY <2>1 DEF OutcomeExplicit
  <2>3. log[i].calls = 0 => ~log[i].gate
    BY <2>1 DEF EndTold
  <2>4. log[i].outcome = "output_contract_violation" =>
          ~log[i].gate /\ GateReasonOf(log[i]) = "output_contract_violation"
    <3>1. log[i].outcome = "output_contract_violation" =>
            ~log[i].gate /\ log[i].stop = "none" /\ log[i].kind = "output_contract_violation"
      BY <2>1 DEF OutcomeExplicit
    <3>2. log[i].outcome = "output_contract_violation" =>
            GateReasonOf(log[i]) = "output_contract_violation"
      BY <3>1 DEF GateReasonOf
    <3> QED
      BY <3>1, <3>2, Zenon
  <2>5. GateReasonOf(log[i]) = "output_contract_violation" =>
          log[i].outcome = "output_contract_violation"
    BY DEF GateReasonOf
  <2> QED
    BY <2>2, <2>3, <2>4, <2>5
<1> QED
  BY <1>1, <1>2

(* The counts of the report are coherent.                                  *)
LEMMA CountsFollow ==
  ASSUME FileInv, LinesTyped, TerminalLineIsTrue, LinesTold, CampaignLoads(log)
  PROVE  ReportAccepted(Counts(log))
<1> DEFINE T == TerminalLines(log)
           Status(s) == {i \in T : log[i].status = s}
           rejected == {i \in T : log[i].outcome = "output_contract_violation"}
           U == {i \in T : ~log[i].gate}
           Reason(x) == {i \in U : GateReasonOf(log[i]) = x}
           zero == {i \in T : log[i].calls = 0}
           names == {"provider_failure", "provider_timeout", "output_contract_violation",
                     "pre_gate_harness_failure", "input_changed", "not_run"}
           c == Counts(log)
<1>1. /\ \A i \in T : log[i].status \in {"completed", "failed", "not_run"}
      /\ rejected \subseteq Status("failed") /\ zero \subseteq U
      /\ Reason("output_contract_violation") = rejected
      /\ Reason("none") = {}
  <2>1. \A i \in T : log[i].status \in {"completed", "failed", "not_run"}
    BY CountedLine
  <2>2. rejected \subseteq Status("failed") /\ zero \subseteq U
    BY CountedLine
  <2>3. Reason("output_contract_violation") = rejected
    BY CountedLine
  <2>4. Reason("none") = {}
    BY ReasonsOfLines
  <2> QED
    BY <2>1, <2>2, <2>3, <2>4
<1>2. /\ c.scheduled = Cardinality(T)
      /\ c.completed = Cardinality(Status("completed"))
      /\ c.failed = Cardinality(Status("failed"))
      /\ c.not_run = Cardinality(Status("not_run"))
      /\ c.attempted = Cardinality(Status("completed")) + Cardinality(Status("failed"))
      /\ c.rejected = Cardinality(rejected) /\ c.zero_call = Cardinality(zero)
  BY DEF Counts, With
<1>3. c.ungated = Cardinality(U)
  BY Zenon DEF Counts
<1>4. \A x \in names \cup {"none"} : c.reasons[x] = Cardinality(Reason(x))
  <2>1. c.reasons = [x \in GateReasons \cup {"input_changed", "not_run"} |->
                       Cardinality(Reason(x))]
    BY Zenon DEF Counts
  <2> HIDE DEF c, Reason
  <2> QED
    BY <2>1 DEF GateReasons
<1>5. U \subseteq T /\ \A s : Status(s) \subseteq T
  OBVIOUS
<1>6. /\ T = Status("completed") \cup (Status("failed") \cup Status("not_run"))
      /\ Status("completed") \cap (Status("failed") \cup Status("not_run")) = {}
      /\ Status("failed") \cap Status("not_run") = {}
  BY <1>1
<1>7. \A x, y \in names : x # y => Reason(x) \cap Reason(y) = {}
  OBVIOUS
<1>8. U = Reason("provider_failure") \cup (Reason("provider_timeout")
            \cup (Reason("output_contract_violation") \cup (Reason("pre_gate_harness_failure")
            \cup (Reason("input_changed") \cup Reason("not_run")))))
  BY ReasonsOfLines
<1>9. \A x : Reason(x) \subseteq U
  OBVIOUS
<1> HIDE DEF T, Status, rejected, U, Reason, zero, c
<1>s. \A A, B \in SUBSET T :
        /\ A \cup B \in SUBSET T /\ Cardinality(A) \in Nat /\ Cardinality(B) \in Nat
        /\ A \cap B = {} => Cardinality(A \cup B) = Cardinality(A) + Cardinality(B)
  BY SplitLines DEF T
<1>10. Cardinality(Status("completed")) + Cardinality(Status("failed"))
         + Cardinality(Status("not_run")) = Cardinality(T)
  <2> DEFINE A == Status("completed")
             B == Status("failed")
             C == Status("not_run")
  <2>1. A \subseteq T /\ B \subseteq T /\ C \subseteq T
    BY <1>5
  <2>2. T = A \cup (B \cup C) /\ A \cap (B \cup C) = {} /\ B \cap C = {}
    BY <1>6
  <2> HIDE DEF A, B, C
  <2>3. /\ Cardinality(B \cup C) = Cardinality(B) + Cardinality(C)
        /\ Cardinality(B) \in Nat /\ Cardinality(C) \in Nat
    BY <1>s, <2>1, <2>2
  <2>4. Cardinality(T) = Cardinality(A) + Cardinality(B \cup C) /\ Cardinality(A) \in Nat
    BY <1>s, <2>1, <2>2, <2>3
  <2>5. Cardinality(A) + Cardinality(B) + Cardinality(C) = Cardinality(T)
    BY <2>3, <2>4
  <2> QED
    BY <2>5 DEF A, B, C
<1>11. Cardinality(U) = Cardinality(Reason("provider_failure"))
         + Cardinality(Reason("provider_timeout"))
         + Cardinality(Reason("output_contract_violation"))
         + Cardinality(Reason("pre_gate_harness_failure")) + Cardinality(Reason("input_changed"))
         + Cardinality(Reason("not_run"))
  <2> DEFINE R1 == Reason("provider_failure")
             R2 == Reason("provider_timeout")
             R3 == Reason("output_contract_violation")
             R4 == Reason("pre_gate_harness_failure")
             R5 == Reason("input_changed")
             R6 == Reason("not_run")
  <2>0. /\ U = R1 \cup (R2 \cup (R3 \cup (R4 \cup (R5 \cup R6))))
        /\ R1 \cap (R2 \cup (R3 \cup (R4 \cup (R5 \cup R6)))) = {}
        /\ R2 \cap (R3 \cup (R4 \cup (R5 \cup R6))) = {}
        /\ R3 \cap (R4 \cup (R5 \cup R6)) = {}
        /\ R4 \cap (R5 \cup R6) = {} /\ R5 \cap R6 = {}
        /\ R1 \subseteq T /\ R2 \subseteq T /\ R3 \subseteq T /\ R4 \subseteq T
        /\ R5 \subseteq T /\ R6 \subseteq T
    <3>1. /\ R1 \cap R2 = {} /\ R1 \cap R3 = {} /\ R1 \cap R4 = {} /\ R1 \cap R5 = {}
          /\ R1 \cap R6 = {} /\ R2 \cap R3 = {} /\ R2 \cap R4 = {} /\ R2 \cap R5 = {}
          /\ R2 \cap R6 = {} /\ R3 \cap R4 = {} /\ R3 \cap R5 = {} /\ R3 \cap R6 = {}
          /\ R4 \cap R5 = {} /\ R4 \cap R6 = {} /\ R5 \cap R6 = {}
      BY <1>7
    <3>2. /\ R1 \subseteq T /\ R2 \subseteq T /\ R3 \subseteq T /\ R4 \subseteq T
          /\ R5 \subseteq T /\ R6 \subseteq T
      BY <1>5, <1>9
    <3>3. U = R1 \cup (R2 \cup (R3 \cup (R4 \cup (R5 \cup R6))))
      BY <1>8
    <3> HIDE DEF R1, R2, R3, R4, R5, R6
    <3> QED
      BY <3>1, <3>2, <3>3
  <2> HIDE DEF R1, R2, R3, R4, R5, R6
  <2>s. /\ R5 \cup R6 \subseteq T /\ R4 \cup (R5 \cup R6) \subseteq T
        /\ R3 \cup (R4 \cup (R5 \cup R6)) \subseteq T
        /\ R2 \cup (R3 \cup (R4 \cup (R5 \cup R6))) \subseteq T
    BY <2>0
  <2>1. /\ Cardinality(R5 \cup R6) = Cardinality(R5) + Cardinality(R6)
        /\ Cardinality(R5) \in Nat /\ Cardinality(R6) \in Nat
    BY <1>s, <2>0, <2>s
  <2>2. /\ Cardinality(R4 \cup (R5 \cup R6)) = Cardinality(R4) + Cardinality(R5 \cup R6)
        /\ Cardinality(R4) \in Nat
    BY <1>s, <2>0, <2>s
  <2>3. /\ Cardinality(R3 \cup (R4 \cup (R5 \cup R6)))
             = Cardinality(R3) + Cardinality(R4 \cup (R5 \cup R6))
        /\ Cardinality(R3) \in Nat
    BY <1>s, <2>0, <2>s
  <2>4. /\ Cardinality(R2 \cup (R3 \cup (R4 \cup (R5 \cup R6))))
             = Cardinality(R2) + Cardinality(R3 \cup (R4 \cup (R5 \cup R6)))
        /\ Cardinality(R2) \in Nat
    BY <1>s, <2>0, <2>s
  <2>5. /\ Cardinality(U)
             = Cardinality(R1) + Cardinality(R2 \cup (R3 \cup (R4 \cup (R5 \cup R6))))
        /\ Cardinality(R1) \in Nat
    BY <1>s, <2>0, <2>s
  <2>6. Cardinality(U) = Cardinality(R1) + Cardinality(R2) + Cardinality(R3) + Cardinality(R4)
                         + Cardinality(R5) + Cardinality(R6)
    BY <2>1, <2>2, <2>3, <2>4, <2>5
  <2> QED
    BY <2>6 DEF R1, R2, R3, R4, R5, R6
<1>12. /\ Cardinality(rejected) <= Cardinality(Status("failed"))
       /\ Cardinality(U) <= Cardinality(T) /\ Cardinality(zero) <= Cardinality(U)
       /\ Cardinality({}) = 0
  <2>1. IsFiniteSet(T) /\ IsFiniteSet(U) /\ IsFiniteSet(Status("failed"))
    BY <1>5, FiniteLines DEF T
  <2> QED
    BY <1>1, <1>5, <2>1, FS_Subset, FS_EmptySet
<1>13. /\ Cardinality(Reason("none")) = 0
       /\ Cardinality(Reason("output_contract_violation")) = Cardinality(rejected)
  BY <1>1, <1>12
<1>14. /\ c.reasons["none"] = Cardinality(Reason("none"))
       /\ c.reasons["provider_failure"] = Cardinality(Reason("provider_failure"))
       /\ c.reasons["provider_timeout"] = Cardinality(Reason("provider_timeout"))
       /\ c.reasons["output_contract_violation"]
            = Cardinality(Reason("output_contract_violation"))
       /\ c.reasons["pre_gate_harness_failure"] = Cardinality(Reason("pre_gate_harness_failure"))
       /\ c.reasons["input_changed"] = Cardinality(Reason("input_changed"))
       /\ c.reasons["not_run"] = Cardinality(Reason("not_run"))
  BY <1>4
<1>15. ReportAccepted(c)
  BY <1>2, <1>3, <1>10, <1>11, <1>12, <1>13, <1>14 DEF ReportAccepted
<1> QED
  BY <1>15 DEF c

(* The language is evaluated exactly when the report counts a pair: a run  *)
(* that completed has its Artifact.                                        *)
LEMMA StatusFollows ==
  ASSUME FileInv, LinesTyped, TerminalLineIsTrue, HeadersTold, LinesTold, CampaignLoads(log)
  PROVE  (Counts(log).pairs > 0)
           = (LanguageStatus(log, {r \in Runs : pairs[r] # NoPair}) = "evaluated")
<1> DEFINE P == CompletePairs(log)
           evidence == {r \in Runs : pairs[r] # NoPair}
<1>1. Counts(log).pairs = Cardinality(P)
  BY DEF Counts
<1>2. IsFiniteSet(P) /\ Cardinality(P) \in Nat
  <2>1. IsFiniteSet({Block(r) : r \in Runs})
    <3> DEFINE S == {Block(r) : r \in Runs}
               blockOf == [r \in Runs |-> Block(r)]
    <3>1. blockOf \in Surjection(Runs, S)
      BY DEF Surjection
    <3> QED
      BY <3>1, FiniteLines, FS_Surjection
  <2> QED
    BY <2>1, FS_Subset, FS_CardinalityType DEF CompletePairs
<1>3. Cardinality(P) > 0 <=> P # {}
  BY <1>2, FS_EmptySet
<1>4. ASSUME NEW b \in P, NEW r \in Runs, Block(r) = b
      PROVE  r \in evidence
  <2>1. TerminalOf(log, r).status = "completed"
    BY <1>4 DEF CompletePairs
  <2>2. PICK i \in TerminalLines(log) : TerminalOf(log, r) = log[i] /\ log[i].run = r
    BY OneLinePerRun
  <2>3. pairs[r] # NoPair
    BY <2>1, <2>2, AcceptedLine
  <2> QED
    BY <2>3
<1>5. (LanguageStatus(log, evidence) = "evaluated") <=> P # {}
  BY <1>4 DEF LanguageStatus
<1> HIDE DEF P, evidence
<1>6. (Counts(log).pairs > 0) <=> (LanguageStatus(log, evidence) = "evaluated")
  BY <1>1, <1>3, <1>5
<1>7. (Counts(log).pairs > 0) = (LanguageStatus(log, evidence) = "evaluated")
  BY <1>1, <1>2, <1>6
<1> QED
  BY <1>7 DEF evidence

(* An accepted file can be reported.                                       *)
LEMMA ReportableFollows ==
  ASSUME IInv, StopInv, RefInv, TruthInv, ToldInv
  PROVE  AcceptedFileIsReportable
<1> SUFFICES ASSUME CampaignLoads(log)
             PROVE  /\ BindingsHold(log, pairs)
                    /\ ReportAccepted(Counts(log))
                    /\ (Counts(log).pairs > 0)
                         = (LanguageStatus(log, {r \in Runs : pairs[r] # NoPair}) = "evaluated")
                    /\ \A r \in WithArtifacts(log) :
                         LET e == TerminalOf(log, r) IN ~e.gate => GateReasonOf(e) = pairs[r].reason
  BY DEF AcceptedFileIsReportable
<1>1. /\ FileInv /\ LinesTyped /\ TerminalLineIsTrue /\ LinesTold /\ HeadersTold
      /\ shortWrites \in Nat
  BY DEF IInv, StopInv, CountersTyped, LinesTyped, TruthInv, RefInv, ToldInv
<1>2. shortWrites = 0
  BY <1>1 DEF CampaignLoads, ToldInv, TornRemembered
<1>3. ASSUME NEW r \in WithArtifacts(log)
      PROVE  ~TerminalOf(log, r).gate => GateReasonOf(TerminalOf(log, r)) = pairs[r].reason
  <2>1. r \in Runs /\ TerminalOf(log, r).status \in {"completed", "failed"}
    BY DEF WithArtifacts
  <2>2. PICK i \in TerminalLines(log) : TerminalOf(log, r) = log[i] /\ log[i].run = r
    BY <1>1, <2>1, OneLinePerRun
  <2>3. EndTold(log[i], pairs[r])
    BY <1>1, <2>1, <2>2, AcceptedLine
  <2>4. ~log[i].gate => GateReasonOf(log[i]) = pairs[r].reason
    BY <2>3 DEF EndTold
  <2> QED
    BY <2>2, <2>4
<1> QED
  BY <1>1, <1>2, <1>3, BindingsFollow, CountsFollow, StatusFollows

(* Whatever Campaign file the loader accepts, the public report can be     *)
(* made of it, in every state of every behaviour: its lines bind to the    *)
(* pairs, its counts are coherent, its language status follows from them,  *)
(* and the reason why no gate ran is the one of the Artifact.              *)
THEOREM AcceptedFilesAreReportable == Spec => []AcceptedFileIsReportable
<1> DEFINE All == StopInv /\ RefInv /\ TruthInv /\ BuiltInv /\ VerdictInv /\ ToldInv
<1>1. Init => All
  BY StopInit, RefInit, TruthInit, BuiltInit, VerdictInit, ToldInit
<1>2. IInv /\ All /\ [Next]_vars => All'
  <2>1. IInv /\ StopInv /\ [Next]_vars => StopInv'
    BY StopStep
  <2>2. IInv /\ StopInv /\ RefInv /\ [Next]_vars => RefInv'
    BY RefStep
  <2>3. IInv /\ StopInv /\ TruthInv /\ [Next]_vars => TruthInv'
    BY TruthStep
  <2>4. IInv /\ BuiltInv /\ VerdictInv /\ [Next]_vars => (BuiltInv /\ VerdictInv)'
    BY WorldStep, ClockStep, DecisionStep, VerdictStep DEF BuiltInv, VerdictInv, IInv
  <2>5. IInv /\ StopInv /\ RefInv /\ TruthInv /\ BuiltInv /\ ToldInv /\ [Next]_vars => ToldInv'
    BY ToldStep
  <2> QED
    BY <2>1, <2>2, <2>3, <2>4, <2>5
<1>3. IInv /\ All => AcceptedFileIsReportable
  BY ReportableFollows
<1> QED
  BY <1>1, <1>2, <1>3, Inductive, PTL DEF Spec
=============================================================================
