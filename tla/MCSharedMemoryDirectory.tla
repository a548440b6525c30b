----------------------- MODULE MCSharedMemoryDirectory -----------------------
(* Three processes create, open, drop, query and remove the directory of  *)
(* one name; two create() calls get as far as a management segment.       *)
EXTENDS SharedMemoryDirectory

CONSTANTS pA, pB, pC

MCProcs == {pA, pB, pC}

====
