--------------------- MODULE SafelyOverflowingIndexQueue ---------------------
(***************************************************************************)
(* The safely overflowing SPSC index queue of elkodon_bb_lock_free         *)
(* (spsc/safely_overflowing_index_queue.rs).  It has Capacity + 1 cells.   *)
(* push writes its value even when the queue is full, publishes it with a  *)
(* store of write_position, and then evicts the oldest value by a CAS on   *)
(* read_position, which the consumer's pop advances with a CAS as well.    *)
(* Both threads therefore race on read_position; this module lets every    *)
(* atomic access of the two threads interleave.                            *)
(*                                                                         *)
(* The k-th push carries value k.  Atomics are sequentially consistent in  *)
(* the model (see IndexQueue for what that abstracts).                     *)
(***************************************************************************)
EXTENDS Naturals, Sequences

CONSTANTS
  Capacity,  \* capacity given to SafelyOverflowingIndexQueue::new
  MaxPush    \* number of pushes of the producer (bounds the model)

ASSUME Capacity \in Nat \ {0}
ASSUME MaxPush \in Nat \ {0}

VARIABLES
  data,            \* the Capacity + 1 cells behind data_ptr
  write_position,
  read_position,
  ppc,             \* producer: detached (no handle), idle, write, publish,
                   \*   cas, take, dead (panicked)
  pval,            \* value of the push in progress
  pr,              \* read_position as loaded by the push in progress
  pfull,           \* is_full as computed by the push in progress
  cpc,             \* consumer: unborn, detached, idle, check, read, cas
  cr,              \* read_position as known to the pop in progress
  cval,            \* cell value read by the pop in progress
  delivered,       \* history: values returned by pop, in order
  evicted,         \* history: values returned by push, in order
  opc,             \* the thread calling len(), is_empty() or is_full()
  snap,            \* the cursors acquire_read_and_write_position() loaded
  window,          \* ghost: the cursor states since that call began
  is_memory_initialized,
  has_producer,    \* the Producer handle is free
  has_consumer,    \* the Consumer handle is free
  ipc              \* the thread creating the queue: where it is in init()

vars == <<opc, snap, window, is_memory_initialized, has_producer,
          has_consumer, ipc, data, write_position, read_position, ppc, pval, pr, pfull,
          cpc, cr, cval, delivered, evicted>>

obs == <<opc, snap, window>>

life == <<is_memory_initialized, has_producer, has_consumer, ipc>>

(* Everything but the threads' places, the observer and the lifecycle.     *)
shared == <<data, write_position, read_position, pval, pr, pfull, cr, cval,
            delivered, evicted>>

queue_vars == <<life, data, write_position, read_position, ppc, pval, pr,
                pfull, cpc, cr, cval, delivered, evicted>>

Values == 1..MaxPush

pushes == pval  \* pval keeps the number of the last push

-----------------------------------------------------------------------------
(* Mutant forms of the definitions below, each a plausible slip in the     *)
(* code.                                                                   *)
SnapCheckWriteSkipped ==
  /\ opc = "check_write"
  /\ opc' = "check_read"
  /\ UNCHANGED <<snap, window, queue_vars>>

InitPublishEarly ==
  /\ ipc = "zero"
  /\ is_memory_initialized' = TRUE
  /\ ipc' = "publish"
  /\ UNCHANGED <<has_producer, has_consumer, obs, shared, ppc, cpc>>

atCapacity(position) == position % Capacity

PopNotEmptyUnchecked ==
  /\ cpc = "check"
  /\ cpc' = "read"
  /\ UNCHANGED <<obs, life, data, write_position, read_position, ppc, pval, pr, pfull,
                 cr, cval, delivered, evicted>>

-----------------------------------------------------------------------------
(* at(): cells are indexed modulo Capacity + 1.                            *)
at(position) == position % (Capacity + 1)

(* A cursor store: a len() call under way sees the state with the cursors *)
(* ws and rs go by.                                                        *)
Observed(ws, rs) ==
  window' = IF opc \in {"idle", "done"} THEN window
            ELSE window \cup {[w |-> ws, r |-> rs]}

(* What is_empty(), len() and is_full() compute from loaded cursors.       *)
is_empty(s) == s.w = s.r
len(s) == s.w - s.r
is_full(s) == s.w = s.r + Capacity
Answers(s) == <<is_empty(s), len(s), is_full(s)>>

(* SafelyOverflowingIndexQueue::new, and the fixed size queue's new       *)
(* through RelocatableContainer::new, give a queue whose memory is         *)
(* initialized; RelocatableContainer::new_uninit one that init() must      *)
(* still set up.  Both have cursors 0 and both handles free.              *)
(* Uninitialized cells are modelled as 0: init() zeroes them unread.      *)
(* Producer and Consumer are kept once acquired, as the zero-copy          *)
(* connection keeps them; IndexQueue models dropping and re-acquiring.     *)
Init ==
  /\ is_memory_initialized \in BOOLEAN
  /\ ipc = IF is_memory_initialized THEN "done" ELSE "idle"
  /\ has_producer = TRUE
  /\ has_consumer = TRUE
  /\ data = [i \in 0..Capacity |-> 0]
  /\ write_position = 0
  /\ read_position = 0
  /\ ppc = "detached"
  /\ pval = 0
  /\ pr = 0
  /\ pfull = FALSE
  /\ cpc = "unborn"
  /\ cr = 0
  /\ cval = 0
  /\ delivered = <<>>
  /\ evicted = <<>>
  /\ opc = "idle"
  /\ snap = [w |-> 0, r |-> 0]
  /\ window = {}

(* init(): memory not initialized yet; the allocation of the Capacity + 1 *)
(* cells succeeds.  (A second init() would fatal_panic; the creator calls  *)
(* it once.)                                                               *)
InitAllocate ==
  /\ ipc = "idle"
  /\ ~is_memory_initialized
  /\ ipc' = "zero"
  /\ UNCHANGED <<is_memory_initialized, has_producer, has_consumer, obs,
                 shared, ppc, cpc>>

(* init(): the allocation fails: Err, the queue stays uninitialized.       *)
InitAllocationFails ==
  /\ ipc = "idle"
  /\ ~is_memory_initialized
  /\ ipc' = "failed"
  /\ UNCHANGED <<is_memory_initialized, has_producer, has_consumer, obs,
                 shared, ppc, cpc>>

(* init(): write 0 to every cell ...                                       *)
InitZero ==
  /\ ipc = "zero"
  /\ data' = [i \in 0..Capacity |-> 0]
  /\ ipc' = "publish"
  /\ UNCHANGED <<is_memory_initialized, has_producer, has_consumer, obs,
                 write_position, read_position, pval, pr, pfull, cr, cval,
                 delivered, evicted, ppc, cpc>>

(* ... then is_memory_initialized.store(true); Ok.                         *)
InitPublish ==
  /\ ipc = "publish"
  /\ is_memory_initialized' = TRUE
  /\ ipc' = "done"
  /\ UNCHANGED <<has_producer, has_consumer, obs, shared, ppc, cpc>>

(* acquire_producer(): verify_init passes and the CAS of has_producer from *)
(* true to false succeeds: Some(Producer).                                 *)
AcquireProducer ==
  /\ ppc = "detached"
  /\ is_memory_initialized
  /\ has_producer
  /\ has_producer' = FALSE
  /\ ppc' = "idle"
  /\ UNCHANGED <<is_memory_initialized, has_consumer, ipc, obs, shared, cpc>>

(* acquire_producer() before init() has stored is_memory_initialized:      *)
(* verify_init's fatal_panic; the producer is gone.                        *)
AcquireProducerUninit ==
  /\ ppc = "detached"
  /\ ~is_memory_initialized
  /\ ppc' = "dead"
  /\ UNCHANGED <<life, obs, shared, cpc>>

(* The consumer's client gets the queue once init() has returned Ok.       *)
ConsumerStart ==
  /\ cpc = "unborn"
  /\ ipc = "done"
  /\ cpc' = "detached"
  /\ UNCHANGED <<life, obs, shared, ppc>>

(* acquire_consumer(): verify_init passes, the CAS of has_consumer         *)
(* succeeds: Some(Consumer).                                               *)
AcquireConsumer ==
  /\ cpc = "detached"
  /\ is_memory_initialized
  /\ has_consumer
  /\ has_consumer' = FALSE
  /\ cpc' = "idle"
  /\ UNCHANGED <<is_memory_initialized, has_producer, ipc, obs, shared, ppc>>

Creator == InitAllocate \/ InitAllocationFails \/ InitZero \/ InitPublish
Handles ==
  \/ AcquireProducer \/ AcquireProducerUninit
  \/ ConsumerStart \/ AcquireConsumer

(* push(): load write_position and read_position, compute is_full.        *)
PushLoad ==
  /\ ppc = "idle"
  /\ pushes < MaxPush
  /\ pr' = read_position
  /\ pfull' = (write_position = read_position + Capacity)
  /\ pval' = pval + 1
  /\ ppc' = "write"
  /\ UNCHANGED <<obs, life, data, write_position, read_position, cpc, cr, cval,
                 delivered, evicted>>

(* push(): self.at(write_position).write(value), full or not.              *)
PushWrite ==
  /\ ppc = "write"
  /\ data' = [data EXCEPT ![at(write_position)] = pval]
  /\ ppc' = "publish"
  /\ UNCHANGED <<obs, life, write_position, read_position, pval, pr, pfull,
                 cpc, cr, cval, delivered, evicted>>

(* push(): write_position.store(+1, Release); a push that was not full     *)
(* returns None here, a full one goes on to the CAS.                       *)
PushPublish ==
  /\ ppc = "publish"
  /\ write_position' = write_position + 1
  /\ ppc' = IF pfull THEN "cas" ELSE "idle"
  /\ Observed(write_position + 1, read_position)
  /\ UNCHANGED <<opc, snap, life, data, read_position, pval, pr, pfull, cpc, cr, cval,
                 delivered, evicted>>

(* push(): read_position.compare_exchange(read, read + 1) succeeds.        *)
PushEvict ==
  /\ ppc = "cas"
  /\ read_position = pr
  /\ read_position' = pr + 1
  /\ ppc' = "take"
  /\ Observed(write_position, pr + 1)
  /\ UNCHANGED <<opc, snap, life, data, write_position, pval, pr, pfull, cpc, cr, cval,
                 delivered, evicted>>

(* push(): the CAS fails since the consumer took a value: None.            *)
PushNoEvict ==
  /\ ppc = "cas"
  /\ read_position # pr
  /\ ppc' = "idle"
  /\ UNCHANGED <<obs, life, data, write_position, read_position, pval, pr, pfull,
                 cpc, cr, cval, delivered, evicted>>

(* push(): Some(value) with the cell at read_position, read after the CAS.*)
PushTake ==
  /\ ppc = "take"
  /\ evicted' = Append(evicted, data[at(pr)])
  /\ ppc' = "idle"
  /\ UNCHANGED <<obs, life, data, write_position, read_position, pval, pr, pfull,
                 cpc, cr, cval, delivered>>

(* acquire_read_and_write_position(): load write_position; a new call of  *)
(* is_empty(), len() or is_full() starts its window at the current state.  *)
SnapLoadWrite ==
  /\ opc \in {"idle", "done", "load_write"}
  /\ snap' = [snap EXCEPT !.w = write_position]
  /\ window' = IF opc = "load_write" THEN window
               ELSE {[w |-> write_position, r |-> read_position]}
  /\ opc' = "load_read"
  /\ UNCHANGED queue_vars

(* ... then load read_position ...                                         *)
SnapLoadRead ==
  /\ opc = "load_read"
  /\ snap' = [snap EXCEPT !.r = read_position]
  /\ opc' = "check_write"
  /\ UNCHANGED <<window, queue_vars>>

(* ... then write_position again: moved on, loop ...                        *)
SnapCheckWrite ==
  /\ opc = "check_write"
  /\ opc' = IF write_position = snap.w THEN "check_read" ELSE "load_write"
  /\ UNCHANGED <<snap, window, queue_vars>>

(* ... then read_position again: both unchanged, return them; else loop.   *)
SnapCheckRead ==
  /\ opc = "check_read"
  /\ opc' = IF read_position = snap.r THEN "done" ELSE "load_write"
  /\ UNCHANGED <<snap, window, queue_vars>>

Observer == SnapLoadWrite \/ SnapLoadRead \/ SnapCheckWrite \/ SnapCheckRead

Producer == PushLoad \/ PushWrite \/ PushPublish \/ PushEvict
              \/ PushNoEvict \/ PushTake

(* pop(): read_position.load(Relaxed).                                     *)
PopLoad ==
  /\ cpc = "idle"
  /\ cr' = read_position
  /\ cpc' = "check"
  /\ UNCHANGED <<obs, life, data, write_position, read_position, ppc, pval, pr, pfull,
                 cval, delivered, evicted>>

(* pop(): is_empty against write_position.load(Acquire): None.             *)
PopEmpty ==
  /\ cpc = "check"
  /\ cr = write_position
  /\ cpc' = "idle"
  /\ UNCHANGED <<obs, life, data, write_position, read_position, ppc, pval, pr, pfull,
                 cr, cval, delivered, evicted>>

(* pop(): not empty, enter the CAS loop.                                   *)
PopNotEmpty ==
  /\ cpc = "check"
  /\ cr # write_position
  /\ cpc' = "read"
  /\ UNCHANGED <<obs, life, data, write_position, read_position, ppc, pval, pr, pfull,
                 cr, cval, delivered, evicted>>

(* pop() loop: value = *self.at(read_position).                            *)
PopRead ==
  /\ cpc = "read"
  /\ cval' = data[at(cr)]
  /\ cpc' = "cas"
  /\ UNCHANGED <<obs, life, data, write_position, read_position, ppc, pval, pr, pfull,
                 cr, delivered, evicted>>

(* pop() loop: the CAS read_position -> +1 succeeds: Some(value).          *)
PopTake ==
  /\ cpc = "cas"
  /\ read_position = cr
  /\ read_position' = cr + 1
  /\ delivered' = Append(delivered, cval)
  /\ cpc' = "idle"
  /\ Observed(write_position, cr + 1)
  /\ UNCHANGED <<opc, snap, life, data, write_position, ppc, pval, pr, pfull, cr, cval,
                 evicted>>

(* pop() loop: the CAS fails since push evicted; retry at the new cursor   *)
(* without checking for emptiness again.                                   *)
PopRetry ==
  /\ cpc = "cas"
  /\ read_position # cr
  /\ cr' = read_position
  /\ cpc' = "read"
  /\ UNCHANGED <<obs, life, data, write_position, read_position, ppc, pval, pr, pfull,
                 cval, delivered, evicted>>

Popping == PopEmpty \/ PopNotEmpty \/ PopRead \/ PopTake \/ PopRetry
Consumer == PopLoad \/ Popping

Next == Creator \/ Handles \/ Producer \/ Consumer \/ Observer

(* The threads are OS threads; once init, push or pop has started, each  *)
(* of its steps stays enabled until taken, so weak fairness finishes it.   *)
(* The consumer's client acquires the Consumer and keeps polling; the      *)
(* producer need not push.                                                 *)
Fairness ==
  /\ WF_vars(InitZero) /\ WF_vars(InitPublish)
  /\ WF_vars(PushWrite) /\ WF_vars(PushPublish)
  /\ WF_vars(PushEvict \/ PushNoEvict) /\ WF_vars(PushTake)
  /\ WF_vars(ConsumerStart) /\ WF_vars(AcquireConsumer)
  /\ WF_vars(PopLoad) /\ WF_vars(Popping)

Spec == Init /\ [][Next]_vars /\ Fairness

-----------------------------------------------------------------------------
TypeOK ==
  /\ data \in [0..Capacity -> 0..MaxPush]
  /\ write_position \in 0..MaxPush
  /\ read_position \in 0..write_position
  /\ is_memory_initialized \in BOOLEAN
  /\ has_producer \in BOOLEAN /\ has_consumer \in BOOLEAN
  /\ ipc \in {"idle", "zero", "publish", "done", "failed"}
  /\ ppc \in {"detached", "idle", "write", "publish", "cas", "take", "dead"}
  /\ pval \in 0..MaxPush
  /\ pr \in 0..MaxPush
  /\ pfull \in BOOLEAN
  /\ cpc \in {"unborn", "detached", "idle", "check", "read", "cas"}
  /\ cr \in 0..MaxPush
  /\ cval \in 0..MaxPush
  /\ delivered \in Seq(Values)
  /\ evicted \in Seq(Values)
  /\ opc \in {"idle", "load_write", "load_read", "check_write", "check_read",
              "done"}
  /\ snap \in [w : 0..MaxPush, r : 0..MaxPush]
  /\ window \subseteq [w : 0..MaxPush, r : 0..MaxPush]

(* The abstract queue: cells from read_position up to write_position.      *)
queued == [i \in 1..(write_position - read_position) |->
              data[at(read_position + i - 1)]]

(* A value whose eviction CAS succeeded but that push has not read yet has *)
(* already left the abstract queue.                                        *)
evictedSoFar == IF ppc = "take" THEN Append(evicted, data[at(pr)])
                                ELSE evicted

Abstract == INSTANCE OverflowingFifo
              WITH queue <- queued, evicted <- evictedSoFar,
                   evicting <- (ppc = "cas")

(* Refinement: the racing CAS loops of push and pop implement the          *)
(* overflowing FIFO: no value is lost, duplicated or reordered, each one   *)
(* leaves exactly once to the consumer or back to the producer, push never *)
(* overwrites a cell the consumer may still take, and the queue exceeds    *)
(* Capacity only between a full push and its eviction CAS.                 *)
OverflowRefinement == Abstract!Spec


(* Every is_empty(), len() and is_full() answers for a state the queue     *)
(* really was in at some instant of the call, although the producer and    *)
(* the consumer move both cursors between its loads: the double check in   *)
(* acquire_read_and_write_position() returns only cursors that coexisted.  *)
SnapshotWasReal ==
  opc = "done" => \E s \in window : Answers(s) = Answers(snap)

=============================================================================
