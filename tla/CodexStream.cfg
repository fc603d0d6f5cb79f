SPECIFICATION StreamSpec
CONSTANTS
  MaxLine = 2
  MaxTotal = 8
  MaxStream = 9
  MaxAfterError = 4
  PipeSize = 3
  Alphabet = {"thread", "turn", "warning", "item", "error", "completed", "failed", "unknown",
              "bad", "deep", "newline"}
INVARIANTS
  SuccessIsOneCompletedTurn
