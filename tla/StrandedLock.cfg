\* Two calls, one of which read the prior pointer before the other published.
CONSTANTS
  Writer = {w1, w2}
  Gen = {g1, g2}
  Recoverer = {r1}
  NoFile = NoFile
  NoGen = NoGen
  ConcurrentRecovery = FALSE
  MaxRecoveryCrashes = 0
  CreationFaults = FALSE
  Phase3Contention = FALSE
SPECIFICATION Spec
CHECK_DEADLOCK FALSE
INVARIANT
  RetainedLockIsRecoverable
