\* Two runs of one block, one invocation, signals in the executor and wherever the
\* counters agree with the file, crashes and torn appends anywhere.
SPECIFICATION SpecReported
CONSTANTS
  RunCount = 2
  Unknown = Unknown
  MaxInvocations = 1
  MaxInterrupts = 2
  InterruptLocations = {"check", "append_started", "stop_check", "tail", "human_tail"}
  WorkflowOf <- OneBlockWorkflows
  BlockOf <- OneBlock
INVARIANTS
  AcceptedCampaignIsReportable
  ReportIsTrue
