SPECIFICATION Spec
CONSTANTS
  MaxLine = 1
  MaxTotal = 7
  Scripts <- MCScripts
  WriteEnds = {2, 5}
  PromptSize = 2
  MaxInterrupts = 1
INVARIANTS
  ClassificationIsTrue
  EvidenceIsAccepted
  InterruptCollects
