CONSTANTS
  Ptr <- MCPtr
  Size <- MCSize
  LayoutSize = 3
  LayoutAlign = 2
  Foreign <- MCForeignEnd
  Construction = "new_uninit"
  MAX_NUMBER_OF_BUCKETS = 0
  Word = 8
SPECIFICATION Spec
INVARIANT FreeIndicesInRange
