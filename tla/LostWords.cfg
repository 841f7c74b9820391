\* Windows of five words that overlap by four: what validate accepts.
CONSTANTS
  MaxTokens = 5
  Overlap = 4
  MaxBytes = 99
  WordSize = 64
  Notes <- MCNotes
  Inputs = {}
  NoSpace = NoSpace
  NoFile = NoFile
  MaxAlterations = 0
SPECIFICATION Spec
CHECK_DEADLOCK FALSE
INVARIANT
  EveryWordIsChunked
