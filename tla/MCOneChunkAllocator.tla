------------------------ MODULE MCOneChunkAllocator ------------------------
(* A one-chunk allocator over 2 bytes at address 3: less than the padding  *)
(* alignment 8 needs there.                                                *)
EXTENDS OneChunkAllocator

MCStart == 3

MCSmallSize == 2

MCSmallAligns == {1, 8}

(* usize of 5 bits.                                                        *)
MCWord == 32

====
