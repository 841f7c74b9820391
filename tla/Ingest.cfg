CONSTANTS
  None = None
  Damaged = Damaged
  LongestText = 6
  MaxVerified = 2
  Baseline <- MCBaseline
  Raiseable <- MCRaiseable
  Text <- MCText
  Length <- MCLength
  Blank <- MCBlank
  SensitivityRank <- MCSensitivityRank
  Class <- MCClass
  CodeFloor <- MCCodeFloor
  Offered <- MCOffered
SPECIFICATION Spec
INVARIANTS
  EverySourceIsDecidedOnce
  NothingIsDropped
  PointerNamesOneBundle
  AuthorityIsOneActivation
  OnlyNarrows
CHECK_DEADLOCK FALSE
