-------------------------- MODULE OneChunkAllocator --------------------------
(***************************************************************************)
(* The single-chunk allocator of elkodon_bb_memory                         *)
(* (one_chunk_allocator.rs): it hands out at most one chunk, all the       *)
(* memory after aligning its start, and records the chunk's address in    *)
(* allocated_chunk_start, 0 meaning "free".  It is not meant to be shared *)
(* between threads, so every call is one step.                            *)
(*                                                                         *)
(* usize arithmetic is taken modulo Word.  An unsigned subtraction that    *)
(* underflows panics in a debug build and wraps in a release build; the    *)
(* model lets either happen.  A panic ends the process.                    *)
(***************************************************************************)
EXTENDS Integers

CONSTANTS
  Start,    \* ptr given to new()
  Size,     \* size given to new()
  Aligns,   \* alignments callers ask for
  Word      \* 2^(bits of usize), scaled down

ASSUME Start \in Nat \ {0} /\ Start + Size < Word

VARIABLES
  allocated_chunk_start,
  chunk,     \* the chunk handed out, or NoChunk: its address, the length of
             \* the slice returned, and the size and alignment of the layout
             \* the caller holds it with
  result     \* what the last call returned

vars == <<allocated_chunk_start, chunk, result>>

NoChunk == [addr |-> 0, len |-> 0, size |-> 0, align |-> 1]

(* Sizes callers ask for: up to the whole memory.                          *)
Sizes == 1..Size

(* elkodon_bb_elementary::math::align.                                     *)
align(value, alignment) ==
  IF value % alignment = 0 THEN value
  ELSE value + alignment - (value % alignment)

(* The outcome of an underflow in a debug build.                          *)
Panic == -1

(* a - b on usize: the wrapped value, or Panic in a debug build.           *)
UsizeSub(a, b) == IF a >= b THEN {a - b} ELSE {(a + Word - b) % Word, Panic}

(* The pointer callers hold.                                              *)
Handed == IF chunk = NoChunk THEN {} ELSE {chunk.addr}

Init ==
  /\ allocated_chunk_start = 0
  /\ chunk = NoChunk
  /\ result = "none"

(* After a panic nothing runs.                                             *)
Running == result # "panic"

-----------------------------------------------------------------------------
(* Mutant forms of the definitions below, each a plausible slip in the     *)
(* code.                                                                   *)
AvailableUnpadded(adjusted_start) == {Size}

-----------------------------------------------------------------------------
has_chunk_available == allocated_chunk_start = 0

is_allocated_chunk(ptr) == ptr = allocated_chunk_start

(* self.size - (adjusted_start - self.start), as the build computes it.   *)
Available(adjusted_start) == UsizeSub(Size, adjusted_start - Start)

(* allocate(): the chunk is taken: OutOfMemory.                            *)
AllocateTaken(s, a) ==
  /\ Running
  /\ ~has_chunk_available
  /\ result' = "OutOfMemory"
  /\ UNCHANGED <<allocated_chunk_start, chunk>>

(* allocate(): available_size <= layout.size(): OutOfMemory; otherwise the *)
(* chunk at adjusted_start of length available_size.  The subtraction may  *)
(* panic.                                                                  *)
Allocate(s, a) ==
  LET adjusted_start == align(Start, a) IN
  /\ Running
  /\ has_chunk_available
  /\ \E available \in Available(adjusted_start) :
       IF available = Panic
         THEN /\ result' = "panic"
              /\ UNCHANGED <<allocated_chunk_start, chunk>>
       ELSE IF available <= s
         THEN /\ result' = "OutOfMemory"
              /\ UNCHANGED <<allocated_chunk_start, chunk>>
       ELSE /\ allocated_chunk_start' = adjusted_start
            /\ chunk' = [addr |-> adjusted_start, len |-> available,
                         size |-> s, align |-> a]
            /\ result' = "Ok"

(* deallocate(): the pointer is the chunk: release_chunk(); any other      *)
(* pointer: ProvidedPointerNotContainedInAllocator.                        *)
Deallocate(ptr) ==
  /\ Running
  /\ IF is_allocated_chunk(ptr)
       THEN /\ allocated_chunk_start' = 0
            /\ chunk' = NoChunk
            /\ result' = "Ok"
       ELSE /\ result' = "NotContained"
            /\ UNCHANGED <<allocated_chunk_start, chunk>>

(* grow() of the chunk to a layout of size n and alignment a: the checks *)
(* in the order of the code; on success the slice has available_size      *)
(* bytes again.                                                            *)
Grow(n, a) ==
  /\ Running
  /\ chunk # NoChunk
  /\ \/ /\ chunk.size >= n
        /\ result' = "GrowWouldShrink" /\ UNCHANGED chunk
     \/ /\ chunk.size < n /\ chunk.align < a
        /\ result' = "AlignmentFailure" /\ UNCHANGED chunk
     \/ /\ chunk.size < n /\ chunk.align >= a
        /\ \E available \in Available(allocated_chunk_start) :
             CASE available = Panic ->
                    result' = "panic" /\ UNCHANGED chunk
               [] available # Panic /\ available < n ->
                    result' = "OutOfMemory" /\ UNCHANGED chunk
               [] available # Panic /\ available >= n ->
                    /\ chunk' = [chunk EXCEPT !.len = available, !.size = n,
                                              !.align = a]
                    /\ result' = "Ok"
  /\ UNCHANGED allocated_chunk_start

(* shrink() of the chunk to a layout of size n and alignment a.           *)
Shrink(n, a) ==
  /\ Running
  /\ chunk # NoChunk
  /\ \/ /\ chunk.size <= n
        /\ result' = "ShrinkWouldGrow" /\ UNCHANGED chunk
     \/ /\ chunk.size > n /\ chunk.align < a
        /\ result' = "AlignmentFailure" /\ UNCHANGED chunk
     \/ /\ chunk.size > n /\ chunk.align >= a
        /\ chunk' = [chunk EXCEPT !.len = n, !.size = n, !.align = a]
        /\ result' = "Ok"
  /\ UNCHANGED allocated_chunk_start

Next ==
  \/ \E s \in Sizes, a \in Aligns : AllocateTaken(s, a) \/ Allocate(s, a)
  \/ \E ptr \in Handed \cup {Start + Size} : Deallocate(ptr)
  \/ \E n \in Sizes, a \in Aligns : Grow(n, a) \/ Shrink(n, a)

Spec == Init /\ [][Next]_vars

-----------------------------------------------------------------------------
(* The chunk allocate() hands out, and the slice grow() and shrink()       *)
(* return, lie inside the memory given to new(), whatever alignment the    *)
(* callers ask for.                                                        *)
ChunkInBounds ==
  chunk # NoChunk =>
    /\ chunk.addr >= Start
    /\ chunk.addr + chunk.len <= Start + Size

====
