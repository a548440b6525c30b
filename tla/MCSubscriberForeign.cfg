CONSTANTS
  p1 = p1
  p2 = p2
  None = None
  PublisherIds <- MCPublisherIds
  Capacity = 2
  Buffer = 1
  MaxBorrowed = 1
  PoolSize = 1
SPECIFICATION Spec
INVARIANT ReleaseReachesOwner
