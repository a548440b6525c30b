CONSTANTS
  t1 = t1
  t2 = t2
  a = a
  b = b
  Threads <- MCThreads
  Names <- MCNames
  N = 2
  MaxInserts = 3
  MaxHeld = 1
SPECIFICATION Spec
VIEW view
SYMMETRY Symmetry
INVARIANT NoLeakedEntry
