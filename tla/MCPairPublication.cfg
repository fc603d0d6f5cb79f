SPECIFICATION Spec
CONSTANTS
    Creators = {c}
    Forcers = {f1, f2}
    Publishers = {p}
    Old = Old
    NoFile = NoFile
    MaxFaults = 2
SYMMETRY ForcerSymmetry
INVARIANTS EvidenceKeepsItsRecording FailureChangesNothing NoLeftovers
PROPERTY CreateOnlyTouchesItsOwn
CHECK_DEADLOCK FALSE
