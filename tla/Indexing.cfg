\* Notes of up to four lines, windows of five words that overlap by one,
\* chunks of five bytes; generations two rows of which are altered.
CONSTANTS
  MaxTokens = 5
  Overlap = 1
  MaxBytes = 5
  WordSize = 64
  Notes <- MCNotes
  Inputs <- MCInputs
  NoSpace = NoSpace
  NoFile = NoFile
  MaxAlterations = 2
SPECIFICATION Spec
CHECK_DEADLOCK FALSE
INVARIANTS
  EveryWordIsChunked
  ChunksAreAccepted
  OnlyWhatWasBuilt
