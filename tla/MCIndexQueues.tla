--------------------------- MODULE MCIndexQueues ---------------------------
(***************************************************************************)
(* The two index queues of elkodon_bb_lock_free::spsc, each with its own   *)
(* producer, consumer and observer thread: IndexQueue, which refuses a     *)
(* push when full, and SafelyOverflowingIndexQueue, which evicts the       *)
(* oldest index instead.  They share no state, so a behaviour exercises    *)
(* one of them, chosen by part, and the other stays in its initial state.  *)
(***************************************************************************)
EXTENDS Integers

VARIABLES
  iq_data, iq_write_position, iq_read_position, iq_ppc, iq_pval,
  iq_attempts, iq_cpc, iq_cval, iq_delivered, iq_refused, iq_opc,
  iq_snap, iq_window, iq_is_memory_initialized, iq_has_producer,
  iq_has_consumer, iq_ipc,
  so_data, so_write_position, so_read_position, so_ppc, so_pval, so_pr,
  so_pfull, so_cpc, so_cr, so_cval, so_delivered, so_evicted, so_opc,
  so_snap, so_window, so_is_memory_initialized, so_has_producer,
  so_has_consumer, so_ipc,
  part   \* the queue this behaviour exercises

(* Capacity 2 and four push attempts: the cursors wrap around the cells   *)
(* twice and the queue is both full and empty in reachable states.        *)
IQ == INSTANCE IndexQueue
        WITH Capacity <- 2, MaxPush <- 4,
             data <- iq_data, write_position <- iq_write_position,
             read_position <- iq_read_position, ppc <- iq_ppc,
             pval <- iq_pval, attempts <- iq_attempts, cpc <- iq_cpc,
             cval <- iq_cval, delivered <- iq_delivered, refused <- iq_refused,
             opc <- iq_opc, snap <- iq_snap, window <- iq_window,
             is_memory_initialized <- iq_is_memory_initialized,
             has_producer <- iq_has_producer,
             has_consumer <- iq_has_consumer, ipc <- iq_ipc

(* Capacity 2 (three cells) and four pushes: the queue overflows twice,   *)
(* the cursors wrap, and the consumer races the eviction CAS.            *)
SO == INSTANCE SafelyOverflowingIndexQueue
        WITH Capacity <- 2, MaxPush <- 4,
             data <- so_data, write_position <- so_write_position,
             read_position <- so_read_position, ppc <- so_ppc,
             pval <- so_pval, pr <- so_pr, pfull <- so_pfull, cpc <- so_cpc,
             cr <- so_cr, cval <- so_cval, delivered <- so_delivered,
             evicted <- so_evicted, opc <- so_opc, snap <- so_snap,
             window <- so_window,
             is_memory_initialized <- so_is_memory_initialized,
             has_producer <- so_has_producer,
             has_consumer <- so_has_consumer, ipc <- so_ipc

iq_vars == <<iq_data, iq_write_position, iq_read_position, iq_ppc, iq_pval,
             iq_attempts, iq_cpc, iq_cval, iq_delivered, iq_refused, iq_opc,
             iq_snap, iq_window, iq_is_memory_initialized, iq_has_producer,
             iq_has_consumer, iq_ipc>>

so_vars == <<so_data, so_write_position, so_read_position, so_ppc, so_pval,
             so_pr, so_pfull, so_cpc, so_cr, so_cval, so_delivered,
             so_evicted, so_opc, so_snap, so_window, so_is_memory_initialized,
             so_has_producer, so_has_consumer, so_ipc>>

(* The queue a behaviour does not exercise stays as new() made it.        *)
Init ==
  /\ IQ!Init /\ SO!Init /\ part \in {"iq", "so"}
  /\ part = "so" => iq_is_memory_initialized
  /\ part = "iq" => so_is_memory_initialized

Next ==
  \/ part = "iq" /\ IQ!Next /\ UNCHANGED <<so_vars, part>>
  \/ part = "so" /\ SO!Next /\ UNCHANGED <<iq_vars, part>>

Spec ==
  /\ Init /\ [][Next]_<<iq_vars, so_vars, part>>
  /\ (part = "iq" => IQ!Fairness) /\ (part = "so" => SO!Fairness)

(* Both queues' cursors and cells keep their types.                        *)
TypeOK == IQ!TypeOK /\ SO!TypeOK

(* IndexQueue implements a bounded FIFO that refuses pushes when full, and *)
(* under fair scheduling every index pushed is eventually popped.          *)
FifoRefinement == IQ!FifoRefinement

(* SafelyOverflowingIndexQueue implements a FIFO that hands the oldest     *)
(* index back to the producer on overflow, and loses and duplicates none.  *)
OverflowRefinement == SO!OverflowRefinement

(* is_empty(), len() and is_full() of either queue, called by a third      *)
(* thread while the producer and the consumer run, answer for a state the  *)
(* queue really was in during the call.                                    *)
SnapshotWasReal == IQ!SnapshotWasReal /\ SO!SnapshotWasReal

====
