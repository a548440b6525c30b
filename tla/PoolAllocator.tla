---------------------------- MODULE PoolAllocator ----------------------------
(***************************************************************************)
(* The bucket allocator of elkodon_bb_memory (pool_allocator.rs) that      *)
(* backs a publisher's data segment.  new_uninit() aligns the start of the *)
(* memory to the bucket alignment and divides what is left by the aligned  *)
(* bucket size; FixedSizePoolAllocator::new() does the same and keeps at  *)
(* most MAX_NUMBER_OF_BUCKETS of them.  allocate() takes a free bucket     *)
(* index v from the lock-free                                              *)
(* UniqueIndexSet and hands out start + v * bucket_size; deallocate(),     *)
(* grow() and shrink() map a pointer back to its bucket with get_index().  *)
(*                                                                         *)
(* Addresses are small naturals.  The UniqueIndexSet (its code is not in   *)
(* the source tree) is a set of free indices acquired and released         *)
(* atomically, so every operation is one step.  Callers keep the           *)
(* contract of the unsafe calls: they pass a pointer they were handed out  *)
(* and its layout; the pointers in Foreign are the ones the allocator      *)
(* must reject ("does not belong to this allocator").                      *)
(***************************************************************************)
EXTENDS Integers, FiniteSets

CONSTANTS
  Ptr,          \* address of the memory given to new_uninit
  Size,         \* its length
  LayoutSize,   \* bucket_layout.size()
  LayoutAlign,  \* bucket_layout.align()
  Foreign,      \* pointers not handed out that callers pass to deallocate
  Construction, \* "new_uninit" (PoolAllocator) or "fixed" (FixedSizePoolAllocator)
  MAX_NUMBER_OF_BUCKETS, \* the FixedSizePoolAllocator's const parameter
  Word          \* bits of usize

ASSUME /\ LayoutSize \in Nat \ {0} /\ LayoutAlign \in {1, 2, 4, 8}
       /\ Construction \in {"new_uninit", "fixed"}
       /\ MAX_NUMBER_OF_BUCKETS \in Nat /\ Word \in Nat \ {0}

VARIABLES
  free,    \* indices the UniqueIndexSet holds
  chunks,  \* chunks handed out: [addr, len, align] of their current layout
  result   \* what the last call returned

vars == <<free, chunks, result>>

(* elkodon_bb_elementary::math::align: round value up to a multiple.       *)
align(value, alignment) ==
  IF value % alignment = 0 THEN value ELSE value + alignment - (value % alignment)

(* new_uninit(): the fields of the allocator.                              *)
start == align(Ptr, LayoutAlign)

bucket_size == LayoutSize

(* calc_number_of_buckets(): the buckets, of the aligned bucket size, that  *)
(* fit between the aligned start and the end of the memory; the usize      *)
(* subtraction wraps when the alignment padding exceeds the memory.        *)
calc_number_of_buckets ==
  ((Ptr + Size - start) % (2 ^ Word)) \div align(LayoutSize, LayoutAlign)

(* FixedSizePoolAllocator::new(): the same count, computed inline, capped *)
(* by the capacity of its next_free_index array.                           *)
fixed_number_of_buckets ==
  IF calc_number_of_buckets < MAX_NUMBER_OF_BUCKETS THEN calc_number_of_buckets
  ELSE MAX_NUMBER_OF_BUCKETS

Buckets ==
  IF Construction = "fixed" THEN 0..fixed_number_of_buckets - 1
  ELSE 0..calc_number_of_buckets - 1

(* get_index(): the bucket a pointer falls in, or -1 for None.             *)
get_index(position) ==
  IF position < start \/ position > start + Size THEN -1
  ELSE (position - start) \div bucket_size

(* Requests callers make: sizes up to one more than a bucket, alignments   *)
(* up to twice the bucket's.                                               *)
Sizes == 1..LayoutSize + 1

Aligns == {a \in {1, 2, 4, 8} : a <= 2 * LayoutAlign}

Addrs == {c.addr : c \in chunks}

ChunkAt(addr) == CHOOSE c \in chunks : c.addr = addr

Init ==
  /\ free = Buckets
  /\ chunks = {}
  /\ result = "none"

-----------------------------------------------------------------------------
(* Mutant forms of the definitions below, each a plausible slip in the     *)
(* code.                                                                   *)
FitsBucketAlways(n) == TRUE

-----------------------------------------------------------------------------
(* grow(): the new size still fits the bucket.                             *)
FitsBucket(n) == n <= bucket_size

(* allocate(): the size exceeds the bucket: SizeTooLarge.                  *)
AllocateTooLarge(s) ==
  /\ s > bucket_size
  /\ result' = "SizeTooLarge"
  /\ UNCHANGED <<free, chunks>>

(* allocate(): the alignment exceeds the bucket's: AlignmentFailure.       *)
AllocateMisaligned(s, a) ==
  /\ s <= bucket_size
  /\ a > LayoutAlign
  /\ result' = "AlignmentFailure"
  /\ UNCHANGED <<free, chunks>>

(* allocate(): acquire_raw_index() gives v; the chunk at                   *)
(* start + v * bucket_size of the requested size is handed out.            *)
AllocateBucket(s, a) ==
  /\ s <= bucket_size
  /\ a <= LayoutAlign
  /\ \E v \in free :
       /\ free' = free \ {v}
       /\ chunks' = chunks \cup {[addr |-> start + v * bucket_size,
                                  len |-> s, align |-> a]}
  /\ result' = "Ok"

(* allocate(): no index left: OutOfMemory.                                 *)
AllocateExhausted(s, a) ==
  /\ s <= bucket_size
  /\ a <= LayoutAlign
  /\ free = {}
  /\ result' = "OutOfMemory"
  /\ UNCHANGED <<free, chunks>>

(* deallocate(): get_index() finds a bucket: release_raw_index(index).     *)
DeallocateBucket(q) ==
  /\ get_index(q) # -1
  /\ free' = free \cup {get_index(q)}
  /\ chunks' = {c \in chunks : c.addr # q}
  /\ result' = "Ok"

(* deallocate(): get_index() gives None:                                   *)
(* ProvidedPointerNotContainedInAllocator.                                 *)
DeallocateForeign(q) ==
  /\ get_index(q) = -1
  /\ result' = "NotContained"
  /\ UNCHANGED <<free, chunks>>

(* grow(): the checks in the order of the code, then the chunk is the     *)
(* same pointer with the new size.                                         *)
Grow(q, n, a) ==
  LET c == ChunkAt(q) IN
  /\ get_index(q) # -1
  /\ IF c.len >= n THEN result' = "GrowWouldShrink" /\ UNCHANGED chunks
     ELSE IF LayoutAlign < a THEN result' = "AlignmentFailure"
                                 /\ UNCHANGED chunks
     ELSE IF ~FitsBucket(n) THEN result' = "OutOfMemory" /\ UNCHANGED chunks
     ELSE /\ chunks' = (chunks \ {c}) \cup {[c EXCEPT !.len = n, !.align = a]}
          /\ result' = "Ok"
  /\ UNCHANGED free

(* shrink(): the same for a smaller size; no bucket check is needed.       *)
Shrink(q, n, a) ==
  LET c == ChunkAt(q) IN
  /\ get_index(q) # -1
  /\ IF c.len <= n THEN result' = "ShrinkWouldGrow" /\ UNCHANGED chunks
     ELSE IF LayoutAlign < a THEN result' = "AlignmentFailure"
                                 /\ UNCHANGED chunks
     ELSE /\ chunks' = (chunks \ {c}) \cup {[c EXCEPT !.len = n, !.align = a]}
          /\ result' = "Ok"
  /\ UNCHANGED free

Next ==
  \/ \E s \in Sizes : AllocateTooLarge(s)
  \/ \E s \in Sizes, a \in Aligns :
       AllocateMisaligned(s, a) \/ AllocateBucket(s, a)
       \/ AllocateExhausted(s, a)
  \/ \E q \in Addrs \cup Foreign : DeallocateBucket(q) \/ DeallocateForeign(q)
  \/ \E q \in Addrs, n \in Sizes, a \in Aligns : Grow(q, n, a) \/ Shrink(q, n, a)

Spec == Init /\ [][Next]_vars

-----------------------------------------------------------------------------
(* Chunk c occupies the addresses c.addr .. c.addr + c.len - 1.            *)
Span(c) == c.addr..(c.addr + c.len - 1)

(* Every chunk handed out, grown or shrunk lies inside the memory given to *)
(* new_uninit, and no two chunks share an address, whatever sequence of    *)
(* allocate, grow, shrink and deallocate of pointers, its own or foreign,  *)
(* the callers make.                                                       *)
ChunksDisjoint ==
  /\ \A c \in chunks : Span(c) \subseteq Ptr..(Ptr + Size - 1)
  /\ \A c, d \in chunks : c # d => Span(c) \cap Span(d) = {}

(* deallocate() hands to the UniqueIndexSet only indices of buckets that   *)
(* exist, and rejects the pointers that do not belong to the allocator.    *)
FreeIndicesInRange == free \subseteq Buckets

====
