\* Two runs with everything that can go wrong in them.
SPECIFICATION Spec
CONSTANTS
  RunCount = 2
  Unknown = Unknown
  Gates <- AcceptanceAndLint
  Policies <- SmallPolicies
  ResultKinds = {"none", "provider_timeout", "provider_cli_nonzero", "provider_spawn_error",
                 "evidence_error", "process_cleanup_error"}
  MaxInvocations = 2
  MaxDisturbances = 1
INVARIANTS
  CalledOnceAndAnnounced
  StopHonoured
  PairIsBuilt
  TerminalLineIsTrue
  AcceptedFileIsReportable
  FinishedFileLoads
  QualityVerdictIsEarned
PROPERTIES
  NoCallBesideRemains
  ImplementsJournal
