\* One Live run with everything that can go wrong in it.
SPECIFICATION FairSpec
CONSTANTS
  Plan <- TwoGates
  MaxInterrupts = 2
INVARIANTS
  PairIsBuiltOrExplained
  DiagnosticIsTruthful
  WorkspaceAccounted
PROPERTIES
  QualityVerdictIsEarned
  InterruptIsFinal
  ImplementsPromise
  RunEnds
