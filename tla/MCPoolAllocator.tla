-------------------------- MODULE MCPoolAllocator --------------------------
(* A bucket layout of size 3 and alignment 2 over 10 bytes at address 1:   *)
(* the start is aligned up to 2 and two buckets of 4 aligned bytes fit.    *)
EXTENDS PoolAllocator

MCPtr == 1

MCSize == 10

(* The address just past the end of the memory.                            *)
MCForeignEnd == {11}

====
