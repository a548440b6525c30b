CONSTANTS
  Start <- MCStart
  Size <- MCSmallSize
  Aligns <- MCSmallAligns
  Word <- MCWord
SPECIFICATION Spec
INVARIANT ChunkInBounds
CHECK_DEADLOCK FALSE
