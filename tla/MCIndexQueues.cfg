SPECIFICATION Spec
INVARIANT TypeOK SnapshotWasReal
PROPERTY FifoRefinement OverflowRefinement
