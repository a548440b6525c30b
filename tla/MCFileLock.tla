---------------------------- MODULE MCFileLock ----------------------------
(* Two processes with two threads each lock the same file.                 *)
EXTENDS FileLock, TLC

CONSTANTS pA, pB

MCProcs == {pA, pB}

MCThreads == {1, 2}

Symmetry == Permutations(MCProcs)

====
