\* A Campaign stopped by its last run cannot be loaded again.
SPECIFICATION Spec
CONSTANTS
  RunCount = 2
  Unknown = Unknown
  MaxInvocations = 1
  MaxInterrupts = 0
  InterruptLocations = {}
INVARIANT FinishedLogLoads
