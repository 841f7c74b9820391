\* Four records and as many declarations, three instants, two hits, a budget that binds.
CONSTANTS
  Record <- MCRecord
  Declaration <- MCDeclaration
  NoTime = NoTime
  Instant = {0, 1, 2, 3}
  ValidFrom <- MCValidFrom
  SourceId <- MCSourceId
  SourcePath <- MCOwn
  Fingerprint <- MCOwn
  SourceDigest <- MCOwn
  Chunk <- MCChunk
  RecordOf <- MCRecordOf
  ChunkId <- MCOwn
  NoChunk = NoChunk
  ParentOf <- MCParentOf
  Spans <- MCSpans
  Overlap <- MCOverlap
  Limit = 2
  BaseBytes = 1
  HitBytes <- MCHitBytes
  MaxResultBytes = 5
  Denials <- MCDenials
  Embeddings <- MCEmbeddings
SPECIFICATION Spec
CHECK_DEADLOCK FALSE
INVARIANTS
  OnlyVisibleLeaves
  IOAfterCoverage
  SupersededIsHidden
  HistoryIsStable
  PointInTimeAgrees
