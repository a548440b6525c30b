------------------------- MODULE MCBuildingBlocks -------------------------
(***************************************************************************)
(* Building blocks that share no state, checked in one run: the SPSC Queue *)
(* of elkodon_bb_lock_free, the LazySingleton of elkodon_bb_elementary,    *)
(* the ConditionVariable of elkodon_pal_concurrency_primitives, the       *)
(* logger selection of elkodon_bb_log, the allocators of elkodon_bb_memory *)
(* and the names of elkodon_cal's static storages.  Each behaviour        *)
(* exercises one of *)
(* them, chosen at the start, while the others keep their initial state;   *)
(* so the run explores their state spaces one after the other.            *)
(***************************************************************************)
EXTENDS Naturals, TLC

CONSTANTS t1, t2, v1, v2

MCThreads == {t1, t2}

VARIABLES
  part,   \* the building block this behaviour exercises
  data, write_position, read_position, has_producer, has_consumer, handles,
  pc, pos, val, snap, len, attempts, delivered, refused,
  ls_data, is_initialized, is_finalized, spc, arg, got,
  counter, holder, flag, wpc, value, npc,
  pool_free, pool_chunks, pool_result, one_start, one_chunk, one_result,
  fixed_free, fixed_chunks, fixed_result,
  lg_once, lg_LOGGER, lg_LOG_LEVEL, lg_counter, lg_printed, lg_pc, lg_arg,
  lg_level, lg_ret, lg_logs, lg_used,
  nc_entries, nc_listed

(* Two threads over a queue of capacity 2 with three push attempts: both   *)
(* handles can be held while a thread asks len(), and they change hands.  *)
Q == INSTANCE Queue WITH Threads <- MCThreads, Capacity <- 2, MaxPush <- 3

(* Two threads, each may call set_value() with one of two values or get().*)
L == INSTANCE LazySingleton WITH Threads <- MCThreads, Values <- {v1, v2},
       data <- ls_data

(* Two waiters and a notifier; the counter has 2 bits.                     *)
C == INSTANCE ConditionVariable WITH Waiters <- MCThreads, Width <- 2

(* A bucket layout of size 3 and alignment 2 over 10 bytes at address 1:   *)
(* the start is aligned up to 2 and two buckets of 4 aligned bytes fit;    *)
(* the caller also passes pointers below the start and past start + size.  *)
Pool == INSTANCE PoolAllocator
          WITH Ptr <- 1, Size <- 10, LayoutSize <- 3, LayoutAlign <- 2,
               Foreign <- {0, 13}, Construction <- "new_uninit",
               MAX_NUMBER_OF_BUCKETS <- 0, Word <- 8,
               free <- pool_free, chunks <- pool_chunks, result <- pool_result

(* A FixedSizePoolAllocator<2> with buckets of size and alignment 2 over   *)
(* 12 bytes at address 3: five buckets fit after the start, aligned to 4, *)
(* and the cap keeps two.                                                  *)
Fixed == INSTANCE PoolAllocator
           WITH Ptr <- 3, Size <- 12, LayoutSize <- 2, LayoutAlign <- 2,
                Foreign <- {2, 17}, Construction <- "fixed",
                MAX_NUMBER_OF_BUCKETS <- 2, Word <- 8,
                free <- fixed_free, chunks <- fixed_chunks,
                result <- fixed_result

(* A one-chunk allocator over 6 bytes at address 3, more than the padding  *)
(* any of the alignments 1, 2, 4 needs; usize of 5 bits.                  *)
One == INSTANCE OneChunkAllocator
         WITH Start <- 3, Size <- 6, Aligns <- {1, 2, 4}, Word <- 32,
              allocated_chunk_start <- one_start, chunk <- one_chunk,
              result <- one_result

q_vars == <<data, write_position, read_position, has_producer, has_consumer,
            handles, pc, pos, val, snap, len, attempts, delivered, refused>>
(* Two threads that log at level Debug or Error, set the level to one of   *)
(* them and may install a custom logger v1 or v2; three log calls.        *)
G == INSTANCE Log WITH Threads <- MCThreads, Custom <- {v1, v2},
       Levels <- {1, 4}, MaxLogs <- 3,
       once <- lg_once, LOGGER <- lg_LOGGER, LOG_LEVEL <- lg_LOG_LEVEL,
       counter <- lg_counter, printed <- lg_printed, pc <- lg_pc,
       arg <- lg_arg, level <- lg_level, ret <- lg_ret, logs <- lg_logs, used <- lg_used

g_vars == <<lg_once, lg_LOGGER, lg_LOG_LEVEL, lg_counter, lg_printed, lg_pc,
            lg_arg, lg_level, lg_ret, lg_logs, lg_used>>
(* A static storage configuration with the temp directory "/t" as path   *)
(* hint and ".a" as suffix, names of up to two characters of {a, .}, and  *)
(* two files in the directory: enough for a storage, a foreign file, and  *)
(* names equal to the suffix or ending with it.                           *)
NcHint == <<"/", "t">>
NcSuffix == <<".", "a">>
N == INSTANCE NamedConcept WITH Chars <- {"a", "."}, Hint <- NcHint,
       Suffix <- NcSuffix, MaxName <- 2, MaxEntries <- 2,
       entries <- nc_entries, listed <- nc_listed

n_vars == <<nc_entries, nc_listed>>
l_vars == <<ls_data, is_initialized, is_finalized, spc, arg, got>>
c_vars == <<counter, holder, flag, wpc, value, npc>>
a_vars == <<pool_free, pool_chunks, pool_result, one_start, one_chunk,
            one_result, fixed_free, fixed_chunks, fixed_result>>

Init ==
  /\ part \in {"queue", "singleton", "condvar", "pool", "one_chunk",
               "fixed_pool", "log", "names"}
  /\ Q!Init /\ L!Init /\ C!Init /\ Pool!Init /\ One!Init /\ Fixed!Init
  /\ G!Init /\ N!Init

Next ==
  \/ part = "queue" /\ Q!Next /\ UNCHANGED <<part, g_vars, n_vars, l_vars, c_vars, a_vars>>
  \/ part = "singleton" /\ L!Next /\ UNCHANGED <<part, g_vars, n_vars, q_vars, c_vars, a_vars>>
  \/ part = "condvar" /\ C!Next /\ UNCHANGED <<part, g_vars, n_vars, q_vars, l_vars, a_vars>>
  \/ part = "pool" /\ Pool!Next
     /\ UNCHANGED <<part, g_vars, n_vars, q_vars, l_vars, c_vars,
                    one_start, one_chunk, one_result,
                    fixed_free, fixed_chunks, fixed_result>>
  \/ part = "one_chunk" /\ One!Next
     /\ UNCHANGED <<part, g_vars, n_vars, q_vars, l_vars, c_vars,
                    pool_free, pool_chunks, pool_result,
                    fixed_free, fixed_chunks, fixed_result>>
  \/ part = "fixed_pool" /\ Fixed!Next
     /\ UNCHANGED <<part, g_vars, n_vars, q_vars, l_vars, c_vars,
                    pool_free, pool_chunks, pool_result,
                    one_start, one_chunk, one_result>>
  \/ part = "log" /\ G!Next
     /\ UNCHANGED <<part, n_vars, q_vars, l_vars, c_vars, a_vars>>
  \/ part = "names" /\ N!Next
     /\ UNCHANGED <<part, g_vars, q_vars, l_vars, c_vars, a_vars>>

(* A component's fairness is assumed in the behaviours that exercise it.   *)
Spec ==
  /\ Init /\ [][Next]_<<part, q_vars, l_vars, c_vars, a_vars, g_vars,
                     n_vars>>
  /\ part = "singleton" => L!Fairness
  /\ part = "condvar" => C!Fairness

TypeOK == Q!TypeOK /\ L!TypeOK /\ C!TypeOK /\ G!TypeOK /\ N!TypeOK

(* Queue: len() returns a length between 0 and the capacity.               *)
LenInRange == Q!LenInRange

(* Queue: pushes and pops behave as a bounded FIFO.                        *)
FifoSafety == Q!FifoSafety

(* LazySingleton: a get() returns the value the singleton keeps.           *)
GetReturnsTheValue == L!GetReturnsTheValue

(* LazySingleton: a spinning get() returns.                                *)
SpinEnds == L!SpinEnds

PoolChunksDisjoint == Pool!ChunksDisjoint /\ Fixed!ChunksDisjoint

(* OneChunkAllocator: the chunk stays inside its memory.                   *)
OneChunkInBounds == One!ChunkInBounds

(* Log: a log call never unwraps an empty LOGGER in get_logger().         *)
NoUnwrapPanic == G!NoUnwrapPanic

(* Log: all log calls go to one logger, the one a successful set_logger()  *)
(* installed.                                                              *)
OneLogger == G!OneLogger

(* Static storage: a list() that returns gives exactly the names of the   *)
(* storages in the directory, with foreign files beside them; a list that *)
(* ends in fatal_panic returns nothing and is not judged here.            *)
ListMatchesDirectory == N!ListMatchesDirectory

(* ConditionVariable: every waiter leaves its wait loop, in the behaviours  *)
(* that run the waiters.                                                   *)
NoLostWakeup == part = "condvar" => C!NoLostWakeup

====
