\* Two recoveries resume the claim of a dead one.
CONSTANTS
  Writer = {w1, w2}
  Gen = {g1}
  Recoverer = {r1, r2}
  NoFile = NoFile
  NoGen = NoGen
  ConcurrentRecovery = TRUE
  MaxRecoveryCrashes = 1
  CreationFaults = FALSE
  Phase3Contention = FALSE
SPECIFICATION Spec
CHECK_DEADLOCK FALSE
PROPERTY
  RecoveryRemovesOnlyItsLock
