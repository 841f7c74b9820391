\* Four chunks, three of which overlap, three hits, and a budget that binds.
CONSTANTS
  Chunk = {"first", "second", "whole", "other"}
  Sources = 2
  SourceOf <- MCSourceOf
  First <- MCFirst
  Last <- MCLast
  ParentOf <- MCParentOf
  NoChunk = NoChunk
  Limit = 3
  MaxResultBytes = 6
  MaxParentBytes = 3
  SmallChunk = 3
  Position = {0, 1}
SPECIFICATION Spec
CHECK_DEADLOCK FALSE
INVARIANTS
  OnlyEligibleLeaves
  FreshIsComplete
  EvidenceOnce
  ClaimedIsShown
  ResultFits
  NothingLost
