\* A run whose Codex preflight fails: does it get its Recording and Artifact?
SPECIFICATION Spec
CONSTANTS
  RunCount = 2
  Unknown = Unknown
  Gates <- AcceptanceAndLint
  Policies <- SmallPolicies
  ResultKinds = {"none"}
  MaxInvocations = 1
  MaxDisturbances = 0
INVARIANT PreflightStopIsRecorded
