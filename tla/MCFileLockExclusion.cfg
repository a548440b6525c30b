CONSTANTS
  pA = pA
  pB = pB
  Procs <- MCProcs
  Threads <- MCThreads
SPECIFICATION Spec
INVARIANT CrossProcessExclusion
