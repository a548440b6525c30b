------------------------------- MODULE Queue -------------------------------
(***************************************************************************)
(* The lock-free SPSC queue of values of elkodon_bb_lock_free              *)
(* (spsc/queue.rs), used from several threads.  A thread gets the one      *)
(* Producer or the one Consumer with acquire_producer() / acquire_consumer *)
(* (a CAS of has_producer / has_consumer from true to false), pushes or    *)
(* pops through it, and hands it back by dropping it (a store of true).    *)
(* Any thread may ask len() meanwhile: acquire_read_and_write_position()   *)
(* loads both cursors and loads them again, and retries until neither      *)
(* moved in between.                                                       *)
(*                                                                         *)
(* Each atomic access is one step, except that push loads its own cursor   *)
(* and read_position in one step, and pop its own cursor and               *)
(* write_position: only the handle's holder stores the first of the two.   *)
(* Push attempt k carries the value k.  Atomics are sequentially           *)
(* consistent in the model.                                                *)
(***************************************************************************)
EXTENDS Naturals, Sequences

CONSTANTS
  Threads,   \* threads that use the queue
  Capacity,  \* CAPACITY
  MaxPush    \* number of push attempts (bounds the model)

ASSUME Capacity \in Nat \ {0} /\ MaxPush \in Nat \ {0}

VARIABLES
  data,            \* the cells, 0..Capacity-1
  write_position,
  read_position,
  has_producer,    \* the Producer is still to be had
  has_consumer,    \* the Consumer is still to be had
  handles,         \* handles[t]: the handles thread t holds
  pc,              \* pc[t]: where t is in push, pop or len (PcValues)
  pos,             \* pos[t]: the own cursor push or pop loaded
  val,             \* val[t]: the value pushed or popped
  snap,            \* snap[t]: the cursors len() loaded: [w, r]
  len,             \* len[t]: what t's last len() returned
  attempts,        \* push calls so far
  delivered,       \* history: values pop returned, in order
  refused          \* history: values whose push returned false

vars == <<data, write_position, read_position, has_producer, has_consumer,
          handles, pc, pos, val, snap, len, attempts, delivered, refused>>

Values == 1..MaxPush

PcValues == {"idle", "push_write", "push_publish", "pop_read", "pop_advance",
             "len_write", "len_read", "len_check_write", "len_check_read"}

(* Locals of a thread between two steps of one operation.                  *)
ThreadVars == <<pc, pos, val, snap>>

Init ==
  /\ data = [i \in 0..Capacity-1 |-> 0]
  /\ write_position = 0
  /\ read_position = 0
  /\ has_producer = TRUE
  /\ has_consumer = TRUE
  /\ handles = [t \in Threads |-> {}]
  /\ pc = [t \in Threads |-> "idle"]
  /\ pos = [t \in Threads |-> 0]
  /\ val = [t \in Threads |-> 0]
  /\ snap = [t \in Threads |-> [w |-> 0, r |-> 0]]
  /\ len = [t \in Threads |-> 0]
  /\ attempts = 0
  /\ delivered = <<>>
  /\ refused = <<>>

-----------------------------------------------------------------------------
(* Mutant forms of the definitions below, each a plausible slip in the     *)
(* code.                                                                   *)
AcquireProducerStore(t) ==
  /\ pc[t] = "idle"
  /\ "producer" \notin handles[t]
  /\ has_producer' = FALSE
  /\ handles' = [handles EXCEPT ![t] = @ \cup {"producer"}]
  /\ UNCHANGED <<data, write_position, read_position, has_consumer,
                 ThreadVars, len, attempts, delivered, refused>>

PushLoadUnchecked(t) ==
  /\ pc[t] = "idle"
  /\ "producer" \in handles[t]
  /\ attempts < MaxPush
  /\ attempts' = attempts + 1
  /\ pos' = [pos EXCEPT ![t] = write_position]
  /\ val' = [val EXCEPT ![t] = attempts + 1]
  /\ pc' = [pc EXCEPT ![t] = "push_write"]
  /\ UNCHANGED <<data, write_position, read_position, has_producer,
                 has_consumer, handles, snap, len, delivered, refused>>

LenCheckReadOnce(t) ==
  /\ pc[t] = "len_check_write"
  /\ len' = [len EXCEPT ![t] = snap[t].w - snap[t].r]
  /\ pc' = [pc EXCEPT ![t] = "idle"]
  /\ snap' = [snap EXCEPT ![t] = [w |-> 0, r |-> 0]]
  /\ UNCHANGED <<data, write_position, read_position, has_producer,
                 has_consumer, handles, pos, val, attempts, delivered,
                 refused>>

-----------------------------------------------------------------------------
(* acquire_producer(): the CAS of has_producer from true to false wins.    *)
AcquireProducer(t) ==
  /\ pc[t] = "idle"
  /\ has_producer
  /\ has_producer' = FALSE
  /\ handles' = [handles EXCEPT ![t] = @ \cup {"producer"}]
  /\ UNCHANGED <<data, write_position, read_position, has_consumer,
                 ThreadVars, len, attempts, delivered, refused>>

(* acquire_consumer(): the CAS of has_consumer from true to false wins.    *)
AcquireConsumer(t) ==
  /\ pc[t] = "idle"
  /\ has_consumer
  /\ has_consumer' = FALSE
  /\ handles' = [handles EXCEPT ![t] = @ \cup {"consumer"}]
  /\ UNCHANGED <<data, write_position, read_position, has_producer,
                 ThreadVars, len, attempts, delivered, refused>>

(* acquire_producer() / acquire_consumer(): the CAS fails: None.           *)
AcquireNone(t) ==
  /\ pc[t] = "idle"
  /\ ~has_producer \/ ~has_consumer
  /\ UNCHANGED vars

(* Drop of the Producer: has_producer.store(true).                         *)
DropProducer(t) ==
  /\ pc[t] = "idle"
  /\ "producer" \in handles[t]
  /\ has_producer' = TRUE
  /\ handles' = [handles EXCEPT ![t] = @ \ {"producer"}]
  /\ UNCHANGED <<data, write_position, read_position, has_consumer,
                 ThreadVars, len, attempts, delivered, refused>>

(* Drop of the Consumer: has_consumer.store(true).                         *)
DropConsumer(t) ==
  /\ pc[t] = "idle"
  /\ "consumer" \in handles[t]
  /\ has_consumer' = TRUE
  /\ handles' = [handles EXCEPT ![t] = @ \ {"consumer"}]
  /\ UNCHANGED <<data, write_position, read_position, has_producer,
                 ThreadVars, len, attempts, delivered, refused>>

(* push(): the cursors say full: false.                                    *)
PushRefused(t) ==
  /\ pc[t] = "idle"
  /\ "producer" \in handles[t]
  /\ attempts < MaxPush
  /\ write_position = read_position + Capacity
  /\ attempts' = attempts + 1
  /\ refused' = Append(refused, attempts + 1)
  /\ UNCHANGED <<data, write_position, read_position, has_producer,
                 has_consumer, handles, ThreadVars, len, delivered>>

(* push(): current_write_pos and read_position loaded; there is room.      *)
PushLoad(t) ==
  /\ pc[t] = "idle"
  /\ "producer" \in handles[t]
  /\ attempts < MaxPush
  /\ write_position # read_position + Capacity
  /\ attempts' = attempts + 1
  /\ pos' = [pos EXCEPT ![t] = write_position]
  /\ val' = [val EXCEPT ![t] = attempts + 1]
  /\ pc' = [pc EXCEPT ![t] = "push_write"]
  /\ UNCHANGED <<data, write_position, read_position, has_producer,
                 has_consumer, handles, snap, len, delivered, refused>>

(* push(): data[current_write_pos % CAPACITY].write(t).                    *)
PushWrite(t) ==
  /\ pc[t] = "push_write"
  /\ data' = [data EXCEPT ![pos[t] % Capacity] = val[t]]
  /\ pc' = [pc EXCEPT ![t] = "push_publish"]
  /\ UNCHANGED <<write_position, read_position, has_producer, has_consumer,
                 handles, pos, val, snap, len, attempts, delivered, refused>>

(* push(): write_position.store(current_write_pos + 1); true.              *)
PushPublish(t) ==
  /\ pc[t] = "push_publish"
  /\ write_position' = pos[t] + 1
  /\ pc' = [pc EXCEPT ![t] = "idle"]
  /\ pos' = [pos EXCEPT ![t] = 0]
  /\ val' = [val EXCEPT ![t] = 0]
  /\ UNCHANGED <<data, read_position, has_producer, has_consumer, handles,
                 snap, len, attempts, delivered, refused>>

(* pop(): current_read_pos equals the loaded write_position: None.         *)
PopEmpty(t) ==
  /\ pc[t] = "idle"
  /\ "consumer" \in handles[t]
  /\ read_position = write_position
  /\ UNCHANGED vars

(* pop(): the queue is not empty.                                          *)
PopLoad(t) ==
  /\ pc[t] = "idle"
  /\ "consumer" \in handles[t]
  /\ read_position # write_position
  /\ pos' = [pos EXCEPT ![t] = read_position]
  /\ pc' = [pc EXCEPT ![t] = "pop_read"]
  /\ UNCHANGED <<data, write_position, read_position, has_producer,
                 has_consumer, handles, val, snap, len, attempts, delivered,
                 refused>>

(* pop(): out = data[current_read_pos % CAPACITY].                         *)
PopRead(t) ==
  /\ pc[t] = "pop_read"
  /\ val' = [val EXCEPT ![t] = data[pos[t] % Capacity]]
  /\ pc' = [pc EXCEPT ![t] = "pop_advance"]
  /\ UNCHANGED <<data, write_position, read_position, has_producer,
                 has_consumer, handles, pos, snap, len, attempts, delivered,
                 refused>>

(* pop(): read_position.store(current_read_pos + 1); Some(out).            *)
PopAdvance(t) ==
  /\ pc[t] = "pop_advance"
  /\ read_position' = pos[t] + 1
  /\ delivered' = Append(delivered, val[t])
  /\ pc' = [pc EXCEPT ![t] = "idle"]
  /\ pos' = [pos EXCEPT ![t] = 0]
  /\ val' = [val EXCEPT ![t] = 0]
  /\ UNCHANGED <<data, write_position, has_producer, has_consumer, handles,
                 snap, len, attempts, refused>>

(* len() -> acquire_read_and_write_position(): load write_position ...     *)
LenLoadWrite(t) ==
  /\ pc[t] \in {"idle", "len_write"}
  /\ snap' = [snap EXCEPT ![t].w = write_position]
  /\ pc' = [pc EXCEPT ![t] = "len_read"]
  /\ UNCHANGED <<data, write_position, read_position, has_producer,
                 has_consumer, handles, pos, val, len, attempts, delivered,
                 refused>>

(* ... then read_position ...                                              *)
LenLoadRead(t) ==
  /\ pc[t] = "len_read"
  /\ snap' = [snap EXCEPT ![t].r = read_position]
  /\ pc' = [pc EXCEPT ![t] = "len_check_write"]
  /\ UNCHANGED <<data, write_position, read_position, has_producer,
                 has_consumer, handles, pos, val, len, attempts, delivered,
                 refused>>

(* ... then write_position again: it moved, loop ...                       *)
LenCheckWrite(t) ==
  /\ pc[t] = "len_check_write"
  /\ pc' = [pc EXCEPT ![t] = IF write_position = snap[t].w
                                THEN "len_check_read" ELSE "len_write"]
  /\ UNCHANGED <<data, write_position, read_position, has_producer,
                 has_consumer, handles, pos, val, snap, len, attempts,
                 delivered, refused>>

(* ... then read_position again: unchanged, len() returns w - r; else      *)
(* loop.                                                                   *)
LenCheckRead(t) ==
  /\ pc[t] = "len_check_read"
  /\ IF read_position = snap[t].r
       THEN /\ len' = [len EXCEPT ![t] = snap[t].w - snap[t].r]
            /\ pc' = [pc EXCEPT ![t] = "idle"]
            /\ snap' = [snap EXCEPT ![t] = [w |-> 0, r |-> 0]]
       ELSE /\ pc' = [pc EXCEPT ![t] = "len_write"]
            /\ UNCHANGED <<len, snap>>
  /\ UNCHANGED <<data, write_position, read_position, has_producer,
                 has_consumer, handles, pos, val, attempts, delivered,
                 refused>>

Next ==
  \E t \in Threads :
    \/ AcquireProducer(t) \/ AcquireConsumer(t) \/ AcquireNone(t)
    \/ DropProducer(t) \/ DropConsumer(t)
    \/ PushRefused(t) \/ PushLoad(t) \/ PushWrite(t) \/ PushPublish(t)
    \/ PopEmpty(t) \/ PopLoad(t) \/ PopRead(t) \/ PopAdvance(t)
    \/ LenLoadWrite(t) \/ LenLoadRead(t) \/ LenCheckWrite(t)
    \/ LenCheckRead(t)

Spec == Init /\ [][Next]_vars

-----------------------------------------------------------------------------
TypeOK ==
  /\ data \in [0..Capacity-1 -> 0..MaxPush]
  /\ read_position \in 0..write_position
  /\ write_position \in read_position..(read_position + Capacity)
  /\ has_producer \in BOOLEAN /\ has_consumer \in BOOLEAN
  /\ handles \in [Threads -> SUBSET {"producer", "consumer"}]
  /\ pc \in [Threads -> PcValues]
  /\ attempts \in 0..MaxPush
  /\ delivered \in Seq(Values) /\ refused \in Seq(Values)

(* Every len() returns a count between 0 and CAPACITY, although a producer *)
(* and a consumer move the two cursors between its loads: the second pair *)
(* of loads in acquire_read_and_write_position() is what rules out a      *)
(* write_position older than the read_position it is paired with.        *)
LenInRange == \A t \in Threads : len[t] \in 0..Capacity

(* The abstract queue the cursors stand for.                               *)
queued == [i \in 1..(write_position - read_position) |->
              data[(read_position + i - 1) % Capacity]]

Fifo == INSTANCE BoundedFifo WITH queue <- queued

(* Whichever threads hold the Producer and the Consumer in turn, and       *)
(* however their steps and the handles' hand-over interleave, every step  *)
(* of the queue is a step of the bounded FIFO: acquire_producer's CAS     *)
(* keeps a second pusher from writing a cell that is already queued.      *)
FifoSafety == Fifo!Init /\ [][Fifo!Next]_<<queued, delivered, refused>>

====
