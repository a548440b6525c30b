CONSTANTS
  pA = pA
  pB = pB
  pC = pC
  Procs <- MCProcs
  MaxGen = 2
SPECIFICATION Spec
INVARIANT OpenPairsOneIncarnation
