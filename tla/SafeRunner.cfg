\* One command with two descendants, at most one Ctrl-C.
SPECIFICATION FairSpec
CONSTANTS
  Parent = Parent
  Children = {c1, c2}
  MaxInterrupts = 1
INVARIANTS
  ClearedMeansGone
  CleanVerdictIsFinal
PROPERTIES
  RunEnds
