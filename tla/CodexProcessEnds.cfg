SPECIFICATION FairSpec
CONSTANTS
  MaxLine = 1
  MaxTotal = 7
  Scripts <- MCShortScripts
  WriteEnds = {}
  PromptSize = 1
  MaxInterrupts = 0
PROPERTY RunEnds
