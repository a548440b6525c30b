CONSTANTS
  t1 = t1
  t2 = t2
  v1 = v1
  v2 = v2
SPECIFICATION Spec
CHECK_DEADLOCK FALSE
INVARIANT TypeOK LenInRange GetReturnsTheValue  PoolChunksDisjoint OneChunkInBounds NoUnwrapPanic OneLogger ListMatchesDirectory
PROPERTY FifoSafety SpinEnds NoLostWakeup
