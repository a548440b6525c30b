CONSTANTS
  l1 = l1
  l2 = l2
  l3 = l3
  p1 = p1
  p2 = p2
  None = None
  pA = pA
  pB = pB
  pC = pC
SPECIFICATION Spec
CHECK_DEADLOCK FALSE
SYMMETRY Symmetry
INVARIANT TypeOK NoConnectionToEmptySlot DoesExistAnswersHeld
PROPERTY EventuallyConnected
