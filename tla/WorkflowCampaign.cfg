\* Signals land in the executor and wherever the scheduler's counters agree with the
\* file; crashes, failed and torn appends anywhere.
SPECIFICATION FairSpec
CONSTANTS
  RunCount = 3
  Unknown = Unknown
  MaxInvocations = 2
  MaxInterrupts = 2
  InterruptLocations = {"check", "append_started", "stop_check", "tail", "human_tail"}
INVARIANTS
  CalledOnceAndAnnounced
  SignalNeverSwallowed
  StopHonoured
  AcceptedLogIsTruthful
  FinishedLogLoadsUnlessLastRunStopped
PROPERTIES
  Terminates
  ImplementsJournal
