\* Two publishers of one Suite, a recorder and an approver at the anchor's path.
SPECIFICATION Spec
CONSTANTS
  Publishers = {p1, p2}
  Recorders = {r}
  Approvers = {a}
  NoFile = NoFile
  MaxFaults = 2
SYMMETRY Exchange
INVARIANTS AnchorVouchesForBundle OutcomeIsTrue
PROPERTY TouchesOnlyItsOwn
\* A lock that its owner lost or died with stops every later publisher.
CHECK_DEADLOCK FALSE
