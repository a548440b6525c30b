----------------------------- MODULE IndexQueue -----------------------------
(***************************************************************************)
(* The lock-free SPSC index queue of elkodon_bb_lock_free                  *)
(* (spsc/index_queue.rs, details::IndexQueue).  One producer thread and    *)
(* one consumer thread share the cells "data" and the two cursors          *)
(* write_position and read_position.  Each atomic access of the code is    *)
(* one step, so the producer's cell write and cursor store, and the        *)
(* consumer's cursor load, cell read and cursor store, interleave freely.  *)
(*                                                                         *)
(* The producer pushes the values 1..MaxPush in order (the k-th push       *)
(* attempt carries value k), so every value is distinct and a wrong slot   *)
(* shows up as a duplicate or a value out of order.  The model assumes     *)
(* sequentially consistent atomics: the Release store of write_position    *)
(* and the Acquire load in pop are what make the cell write visible first; *)
(* the Relaxed loads of read_position are modelled as plain loads.         *)
(***************************************************************************)
EXTENDS Naturals, Sequences

CONSTANTS
  Capacity,  \* capacity given to IndexQueue::new
  MaxPush    \* number of push attempts of the producer (bounds the model)

ASSUME Capacity \in Nat \ {0}
ASSUME MaxPush \in Nat \ {0}

VARIABLES
  data,            \* the cells behind data_ptr, 0..Capacity-1
  write_position,
  read_position,
  ppc,             \* producer: "detached" (no handle), "idle", "write",
                   \*   "publish", "dead" (panicked)
  pval,            \* value of the push in progress
  attempts,        \* number of push calls made so far
  cpc,             \* consumer: "unborn", "detached", "idle", "read",
                   \*   "advance"
  cval,            \* value read by the pop in progress
  delivered,       \* history: values returned by pop, in order
  refused,         \* history: values whose push returned false
  opc,             \* the thread calling len(), is_empty() or is_full()
  snap,            \* the cursors acquire_read_and_write_position() loaded
  window,          \* ghost: the cursor states since that call began
  is_memory_initialized,
  has_producer,    \* the Producer handle is free
  has_consumer,    \* the Consumer handle is free
  ipc              \* the thread creating the queue: where it is in init()

vars == <<opc, snap, window, is_memory_initialized, has_producer,
          has_consumer, ipc, data, write_position, read_position, ppc, pval, attempts,
          cpc, cval, delivered, refused>>

obs == <<opc, snap, window>>

life == <<is_memory_initialized, has_producer, has_consumer, ipc>>

queue_vars == <<life, data, write_position, read_position, ppc, pval, attempts,
                cpc, cval, delivered, refused>>

Values == 1..MaxPush

-----------------------------------------------------------------------------
(* Mutant forms of the definitions below, each a plausible slip in the     *)
(* code.                                                                   *)
SnapCheckWriteSkipped ==
  /\ opc = "check_write"
  /\ opc' = "check_read"
  /\ UNCHANGED <<snap, window, queue_vars>>

InitPublishEarly ==
  /\ ipc = "zero"
  /\ is_memory_initialized' = TRUE
  /\ ipc' = "publish"
  /\ UNCHANGED <<has_producer, has_consumer, obs, data, write_position,
                 read_position, ppc, pval, attempts, cpc, cval, delivered,
                 refused>>

IsFullEarly(write, read) == write = read + Capacity - 1

PopLoadUnchecked ==
  /\ cpc = "idle"
  /\ cpc' = "read"
  /\ UNCHANGED <<obs, life, data, write_position, read_position, ppc, pval, attempts,
                 cval, delivered, refused>>

-----------------------------------------------------------------------------
(* at(): the cell of a cursor position.                                    *)
at(position) == position % Capacity

(* A cursor store: a len() call under way sees the state with the cursors *)
(* ws and rs go by.                                                        *)
Observed(ws, rs) ==
  window' = IF opc \in {"idle", "done"} THEN window
            ELSE window \cup {[w |-> ws, r |-> rs]}

(* What is_empty(), len() and is_full() compute from loaded cursors.       *)
is_empty(s) == s.w = s.r
len(s) == s.w - s.r
is_full(s) == s.w = s.r + Capacity
Answers(s) == <<is_empty(s), len(s), is_full(s)>>

(* push(): the queue is full when the write cursor is Capacity ahead.      *)
IsFull(write, read) == write = read + Capacity

(* IndexQueue::new, and FixedSizeIndexQueue::new through                  *)
(* RelocatableContainer::new, give a queue whose memory is initialized;    *)
(* RelocatableContainer::new_uninit one that init() must still set up.     *)
(* Both have cursors 0 and both handles free.  Uninitialized cells are     *)
(* modelled as 0: they are never read before init() zeroes them.          *)
Init ==
  /\ is_memory_initialized \in BOOLEAN
  /\ ipc = IF is_memory_initialized THEN "done" ELSE "idle"
  /\ has_producer = TRUE
  /\ has_consumer = TRUE
  /\ data = [i \in 0..Capacity-1 |-> 0]
  /\ write_position = 0
  /\ read_position = 0
  /\ ppc = "detached"
  /\ pval = 0
  /\ attempts = 0
  /\ cpc = "unborn"
  /\ cval = 0
  /\ delivered = <<>>
  /\ refused = <<>>
  /\ opc = "idle"
  /\ snap = [w |-> 0, r |-> 0]
  /\ window = {}

(* init(): memory not initialized yet; the allocation of the cells        *)
(* succeeds.  (A second init() would fatal_panic; the creator calls it     *)
(* once.)                                                                  *)
InitAllocate ==
  /\ ipc = "idle"
  /\ ~is_memory_initialized
  /\ ipc' = "zero"
  /\ UNCHANGED <<is_memory_initialized, has_producer, has_consumer, obs,
                 data, write_position, read_position, ppc, pval, attempts,
                 cpc, cval, delivered, refused>>

(* init(): the allocation fails: Err, the queue stays uninitialized.       *)
InitAllocationFails ==
  /\ ipc = "idle"
  /\ ~is_memory_initialized
  /\ ipc' = "failed"
  /\ UNCHANGED <<is_memory_initialized, has_producer, has_consumer, obs,
                 data, write_position, read_position, ppc, pval, attempts,
                 cpc, cval, delivered, refused>>

(* init(): write 0 to every cell ...                                       *)
InitZero ==
  /\ ipc = "zero"
  /\ data' = [i \in 0..Capacity-1 |-> 0]
  /\ ipc' = "publish"
  /\ UNCHANGED <<is_memory_initialized, has_producer, has_consumer, obs,
                 write_position, read_position, ppc, pval, attempts, cpc,
                 cval, delivered, refused>>

(* ... then is_memory_initialized.store(true); Ok.                         *)
InitPublish ==
  /\ ipc = "publish"
  /\ is_memory_initialized' = TRUE
  /\ ipc' = "done"
  /\ UNCHANGED <<has_producer, has_consumer, obs, data, write_position,
                 read_position, ppc, pval, attempts, cpc, cval, delivered,
                 refused>>

(* acquire_producer(): verify_init passes and the CAS of has_producer from *)
(* true to false succeeds: Some(Producer).                                 *)
AcquireProducer ==
  /\ ppc = "detached"
  /\ is_memory_initialized
  /\ has_producer
  /\ has_producer' = FALSE
  /\ ppc' = "idle"
  /\ UNCHANGED <<is_memory_initialized, has_consumer, ipc, obs, data,
                 write_position, read_position, pval, attempts, cpc, cval,
                 delivered, refused>>

(* acquire_producer() before init() has stored is_memory_initialized:      *)
(* verify_init's fatal_panic; the producer is gone.                        *)
AcquireProducerUninit ==
  /\ ppc = "detached"
  /\ ~is_memory_initialized
  /\ ppc' = "dead"
  /\ UNCHANGED <<life, obs, data, write_position, read_position, pval,
                 attempts, cpc, cval, delivered, refused>>

(* Producer::drop(): has_producer.store(true).                             *)
DropProducer ==
  /\ ppc = "idle"
  /\ has_producer' = TRUE
  /\ ppc' = "detached"
  /\ UNCHANGED <<is_memory_initialized, has_consumer, ipc, obs, data,
                 write_position, read_position, pval, attempts, cpc, cval,
                 delivered, refused>>

(* The consumer's client gets the queue once init() has returned Ok.       *)
ConsumerStart ==
  /\ cpc = "unborn"
  /\ ipc = "done"
  /\ cpc' = "detached"
  /\ UNCHANGED <<life, obs, data, write_position, read_position, ppc, pval,
                 attempts, cval, delivered, refused>>

(* acquire_consumer(): verify_init passes, the CAS of has_consumer         *)
(* succeeds: Some(Consumer).                                               *)
AcquireConsumer ==
  /\ cpc = "detached"
  /\ is_memory_initialized
  /\ has_consumer
  /\ has_consumer' = FALSE
  /\ cpc' = "idle"
  /\ UNCHANGED <<is_memory_initialized, has_producer, ipc, obs, data,
                 write_position, read_position, ppc, pval, attempts, cval,
                 delivered, refused>>

(* Consumer::drop(): has_consumer.store(true).                             *)
DropConsumer ==
  /\ cpc = "idle"
  /\ has_consumer' = TRUE
  /\ cpc' = "detached"
  /\ UNCHANGED <<is_memory_initialized, has_producer, ipc, obs, data,
                 write_position, read_position, ppc, pval, attempts, cval,
                 delivered, refused>>

(* push(): load read_position; the queue is full, return false.            *)
PushRefused ==
  /\ ppc = "idle"
  /\ attempts < MaxPush
  /\ IsFull(write_position, read_position)
  /\ attempts' = attempts + 1
  /\ refused' = Append(refused, attempts + 1)
  /\ UNCHANGED <<obs, life, data, write_position, read_position, ppc, pval,
                 cpc, cval, delivered>>

(* push(): load read_position; the queue has room.                         *)
PushLoad ==
  /\ ppc = "idle"
  /\ attempts < MaxPush
  /\ ~IsFull(write_position, read_position)
  /\ attempts' = attempts + 1
  /\ pval' = attempts + 1
  /\ ppc' = "write"
  /\ UNCHANGED <<obs, life, data, write_position, read_position, cpc, cval,
                 delivered, refused>>

(* push(): self.at(write_position).write(value).                           *)
PushWrite ==
  /\ ppc = "write"
  /\ data' = [data EXCEPT ![at(write_position)] = pval]
  /\ ppc' = "publish"
  /\ UNCHANGED <<obs, life, write_position, read_position, pval, attempts, cpc, cval,
                 delivered, refused>>

(* push(): write_position.store(write_position + 1, Release); true.        *)
PushPublish ==
  /\ ppc = "publish"
  /\ write_position' = write_position + 1
  /\ ppc' = "idle"
  /\ Observed(write_position + 1, read_position)
  /\ UNCHANGED <<opc, snap, life, data, read_position, pval, attempts, cpc, cval,
                 delivered, refused>>

(* pop(): read_position equals the Acquire-loaded write_position: None.    *)
PopEmpty ==
  /\ cpc = "idle"
  /\ read_position = write_position
  /\ UNCHANGED vars

(* pop(): the queue is not empty.                                          *)
PopLoad ==
  /\ cpc = "idle"
  /\ read_position # write_position
  /\ cpc' = "read"
  /\ UNCHANGED <<obs, life, data, write_position, read_position, ppc, pval, attempts,
                 cval, delivered, refused>>

(* pop(): value = *self.at(read_position).                                 *)
PopRead ==
  /\ cpc = "read"
  /\ cval' = data[at(read_position)]
  /\ cpc' = "advance"
  /\ UNCHANGED <<obs, life, data, write_position, read_position, ppc, pval, attempts,
                 delivered, refused>>

(* pop(): read_position.store(read_position + 1); Some(value).             *)
PopAdvance ==
  /\ cpc = "advance"
  /\ read_position' = read_position + 1
  /\ delivered' = Append(delivered, cval)
  /\ cpc' = "idle"
  /\ Observed(write_position, read_position + 1)
  /\ UNCHANGED <<opc, snap, life, data, write_position, ppc, pval, attempts, cval, refused>>

(* acquire_read_and_write_position(): load write_position; a new call of  *)
(* is_empty(), len() or is_full() starts its window at the current state.  *)
SnapLoadWrite ==
  /\ opc \in {"idle", "done", "load_write"}
  /\ snap' = [snap EXCEPT !.w = write_position]
  /\ window' = IF opc = "load_write" THEN window
               ELSE {[w |-> write_position, r |-> read_position]}
  /\ opc' = "load_read"
  /\ UNCHANGED queue_vars

(* ... then load read_position ...                                         *)
SnapLoadRead ==
  /\ opc = "load_read"
  /\ snap' = [snap EXCEPT !.r = read_position]
  /\ opc' = "check_write"
  /\ UNCHANGED <<window, queue_vars>>

(* ... then write_position again: moved on, loop ...                        *)
SnapCheckWrite ==
  /\ opc = "check_write"
  /\ opc' = IF write_position = snap.w THEN "check_read" ELSE "load_write"
  /\ UNCHANGED <<snap, window, queue_vars>>

(* ... then read_position again: both unchanged, return them; else loop.   *)
SnapCheckRead ==
  /\ opc = "check_read"
  /\ opc' = IF read_position = snap.r THEN "done" ELSE "load_write"
  /\ UNCHANGED <<snap, window, queue_vars>>

Observer == SnapLoadWrite \/ SnapLoadRead \/ SnapCheckWrite \/ SnapCheckRead

Creator == InitAllocate \/ InitAllocationFails \/ InitZero \/ InitPublish
Producer ==
  \/ AcquireProducer \/ AcquireProducerUninit \/ DropProducer
  \/ PushRefused \/ PushLoad \/ PushWrite \/ PushPublish
Consumer ==
  \/ ConsumerStart \/ AcquireConsumer \/ DropConsumer
  \/ PopEmpty \/ PopLoad \/ PopRead \/ PopAdvance

Next == Creator \/ Producer \/ Consumer \/ Observer

(* The threads run on the OS scheduler and every step of init, push and   *)
(* pop is wait-free, so a thread in the middle of an operation finishes    *)
(* it.  The consumer's client acquires the Consumer in order to pop: it    *)
(* comes back for it, and polls whenever it holds it and values wait.      *)
Fairness ==
  /\ WF_vars(InitZero) /\ WF_vars(InitPublish)
  /\ WF_vars(PushWrite) /\ WF_vars(PushPublish)
  /\ WF_vars(ConsumerStart) /\ WF_vars(AcquireConsumer)
  /\ SF_vars(PopLoad) /\ WF_vars(PopRead) /\ WF_vars(PopAdvance)

Spec == Init /\ [][Next]_vars /\ Fairness

-----------------------------------------------------------------------------
TypeOK ==
  /\ data \in [0..Capacity-1 -> 0..MaxPush]
  /\ write_position \in 0..MaxPush
  /\ read_position \in 0..write_position
  /\ is_memory_initialized \in BOOLEAN
  /\ has_producer \in BOOLEAN /\ has_consumer \in BOOLEAN
  /\ ipc \in {"idle", "zero", "publish", "done", "failed"}
  /\ ppc \in {"detached", "idle", "write", "publish", "dead"}
  /\ pval \in 0..MaxPush
  /\ attempts \in 0..MaxPush
  /\ cpc \in {"unborn", "detached", "idle", "read", "advance"}
  /\ cval \in 0..MaxPush
  /\ delivered \in Seq(Values)
  /\ refused \in Seq(Values)
  /\ opc \in {"idle", "load_write", "load_read", "check_write", "check_read",
              "done"}
  /\ snap \in [w : 0..MaxPush, r : 0..MaxPush]
  /\ window \subseteq [w : 0..MaxPush, r : 0..MaxPush]

(* The abstract queue the cursors stand for: the cells from read_position  *)
(* up to write_position, oldest first.                                     *)
queued == [i \in 1..(write_position - read_position) |->
              data[at(read_position + i - 1)]]

Fifo == INSTANCE BoundedFifo WITH queue <- queued

(* Refinement: the interleaved push and pop of the code implement the      *)
(* atomic bounded FIFO: a push is refused only when Capacity values are    *)
(* queued, the producer's cell write never touches a queued value, pop     *)
(* returns the oldest queued value, and a polling consumer drains it.      *)
FifoRefinement == Fifo!Spec


(* Every is_empty(), len() and is_full() answers for a state the queue     *)
(* really was in at some instant of the call, although the producer and    *)
(* the consumer move both cursors between its loads: the double check in   *)
(* acquire_read_and_write_position() returns only cursors that coexisted.  *)
SnapshotWasReal ==
  opc = "done" => \E s \in window : Answers(s) = Answers(snap)

=============================================================================
