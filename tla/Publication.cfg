\* Two calls, one operator one of whose recoveries may die, and Full.
CONSTANTS
  Writer = {w1, w2}
  Gen = {g1, g2}
  Recoverer = {r1}
  NoFile = NoFile
  NoGen = NoGen
  ConcurrentRecovery = FALSE
  MaxRecoveryCrashes = 1
  CreationFaults = FALSE
  Phase3Contention = TRUE
SPECIFICATION Spec
SYMMETRY Symmetry
CHECK_DEADLOCK FALSE
INVARIANTS
  MutualExclusion
  TemporariesAreGuarded
  BuilderKeepsTemporary
PROPERTIES
  PublicationIsCompareAndSwap
  PublicationIsComplete
  OnlyItsBuilderWithdraws
  RecoveryIsAllOrNothing
  RecoveryRemovesOnlyItsLock
  ImplementsExclusivePublisher
