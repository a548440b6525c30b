CONSTANTS
  pA = pA
  pB = pB
  pC = pC
SPECIFICATION Spec
SYMMETRY Symmetry
INVARIANT TypeOK RefCountExact ExclusiveTeardown ConfigComplete LockStateCountsGuards  NoStaleSegments
PROPERTY LockedIsTransient
