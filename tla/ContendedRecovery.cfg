\* Two calls and a recovery that is not interrupted, or one call and recoveries
\* three of which die.
CONSTANTS
  Writer = {w1, w2}
  Gen = {g1}
  Recoverer = {r1}
  NoFile = NoFile
  NoGen = NoGen
  ConcurrentRecovery = FALSE
  MaxRecoveryCrashes = 3
  CreationFaults = TRUE
  Phase3Contention = FALSE
SPECIFICATION RecoverySpec
CHECK_DEADLOCK FALSE
PROPERTIES
  RecoveryCompletes
  OwnedLockIsReleased
