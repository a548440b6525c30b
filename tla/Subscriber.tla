----------------------------- MODULE Subscriber -----------------------------
(***************************************************************************)
(* A subscriber port of a publish-subscribe service (elkodon               *)
(* port/subscriber.rs) and the publishers it receives from.  The publisher *)
(* registry of the dynamic config has Capacity slots; the subscriber keeps *)
(* one connection per slot (PublisherConnections) and reconciles it with a *)
(* snapshot of the registry (ContainerState) one slot at a time, in new()  *)
(* and in every receive() whose update() reports a change.  receive() then *)
(* asks the connections in slot order for a sample; a Sample remembers the *)
(* slot it came from (channel_id), and its drop hands the offset back over *)
(* the connection now in that slot (release_sample).                       *)
(*                                                                         *)
(* Not in the source tree, taken from spec.md 4.4 and 4.5: publishers      *)
(* register last and deregister on drop, bumping the registry's change     *)
(* counter; a publisher sends an offset of its pool over its connection    *)
(* when the submission queue has room and takes offsets back from the      *)
(* retrieve queue; PublisherConnections::create(i, id) keeps the           *)
(* connection of slot i when it leads to id and opens one otherwise, which *)
(* fails once the publisher is gone; the receiver refuses a sample at the  *)
(* borrow ceiling and counts a release.  Offsets are tagged with the       *)
(* publisher whose pool they belong to.                                    *)
(***************************************************************************)
EXTENDS Naturals, Sequences, FiniteSets

CONSTANTS
  PublisherIds,  \* unique ids of the publishers that come and go
  Capacity,      \* max_publishers: slots of the publisher registry
  Buffer,        \* subscriber_max_buffer_size
  MaxBorrowed,   \* subscriber_max_borrowed_samples
  PoolSize,      \* buckets of a publisher's data segment
  None           \* model value: an empty slot or connection

Slots == 0..Capacity - 1
LastSlot == Capacity - 1
Offsets == 0..PoolSize - 1
(* Both queues of a connection hold buffer + borrowed offsets (spec.md    *)
(* 4.6).                                                                  *)
SubmissionCapacity == Buffer + MaxBorrowed
RetrieveCapacity == SubmissionCapacity
(* DegrationCallback: none installed, or one that returns an action.       *)
Degrations == {"none", "Ignore", "Warn", "Fail"}

VARIABLES
  pstate,      \* pstate[p]: "absent", "registered", "gone"
  slots,       \* slots[i]: publisher id in registry slot i, or None
  changes,     \* change counter of the registry
  pool,        \* pool[p]: offsets of p's data segment not handed out
  submission,  \* submission[p]: offsets sent to the subscriber
  retrieve,    \* retrieve[p]: offsets handed back to p
  borrowed,    \* borrowed[p]: samples p's receiver counts as borrowed
  snapshot,    \* the subscriber's ContainerState copy of slots
  seen,        \* change counter at the snapshot
  conn,        \* conn[i]: publisher of the connection in slot i, or None
  degration,   \* the installed degration callback
  held,        \* samples the user holds: [ch, pub, off]
  spc,         \* subscriber: "new", "populate_new", "register", "idle",
               \*   "populate_receive", "receive", "panicked"
  si           \* slot index of the subscriber's current loop

vars == <<pstate, slots, changes, pool, submission, retrieve, borrowed,
          snapshot, seen, conn, degration, held, spc, si>>
publishers == <<pstate, slots, changes, pool, submission, retrieve>>
subscriber == <<borrowed, snapshot, seen, conn, degration, held, spc, si>>

Sample == [ch : Slots, pub : PublisherIds, off : Offsets]
Tagged == [pub : PublisherIds, off : Offsets]

Init ==
  /\ pstate = [p \in PublisherIds |-> "absent"]
  /\ slots = [i \in Slots |-> None]
  /\ changes = 0
  /\ pool = [p \in PublisherIds |-> Offsets]
  /\ submission = [p \in PublisherIds |-> <<>>]
  /\ retrieve = [p \in PublisherIds |-> <<>>]
  /\ borrowed = [p \in PublisherIds |-> 0]
  /\ snapshot = [i \in Slots |-> None]
  /\ seen = 0
  /\ conn = [i \in Slots |-> None]
  /\ degration = "none"
  /\ held = {}
  /\ spc = "new"
  /\ si = 0

-----------------------------------------------------------------------------
(* Publishers (spec.md 4.4, 4.4.1).                                        *)
PublisherCreate(p) ==
  /\ pstate[p] = "absent"
  /\ \E i \in Slots : slots[i] = None /\ slots' = [slots EXCEPT ![i] = p]
  /\ pstate' = [pstate EXCEPT ![p] = "registered"]
  /\ changes' = changes + 1
  /\ UNCHANGED <<pool, submission, retrieve>> /\ UNCHANGED subscriber

PublisherDrop(p) ==
  /\ pstate[p] = "registered"
  /\ slots' = [i \in Slots |-> IF slots[i] = p THEN None ELSE slots[i]]
  /\ pstate' = [pstate EXCEPT ![p] = "gone"]
  /\ changes' = changes + 1
  /\ UNCHANGED <<pool, submission, retrieve>> /\ UNCHANGED subscriber

(* send(): the subscriber's connection exists and its queue has room.      *)
PublisherSend(p) ==
  /\ pstate[p] = "registered"
  /\ p \in {conn[i] : i \in Slots}
  /\ Len(submission[p]) < SubmissionCapacity
  /\ \E o \in pool[p] :
       /\ pool' = [pool EXCEPT ![p] = @ \ {o}]
       /\ submission' = [submission EXCEPT ![p] = Append(@, [pub |-> p, off |-> o])]
  /\ UNCHANGED <<pstate, slots, changes, retrieve>> /\ UNCHANGED subscriber

(* Publisher reclaim: an offset of the retrieve queue goes back to the pool. *)
PublisherReclaim(p) ==
  /\ pstate[p] = "registered"
  /\ retrieve[p] # <<>>
  /\ pool' = [pool EXCEPT ![p] = @ \cup {Head(retrieve[p]).off}]
  /\ retrieve' = [retrieve EXCEPT ![p] = Tail(@)]
  /\ UNCHANGED <<pstate, slots, changes, submission>> /\ UNCHANGED subscriber

Publisher(p) ==
  \/ PublisherCreate(p) \/ PublisherDrop(p) \/ PublisherSend(p)
  \/ PublisherReclaim(p)

-----------------------------------------------------------------------------
(* PublisherConnections::create(i, id) (spec.md 4.4.1: open or keep).       *)
Connects(i, p) == conn[i] = p \/ pstate[p] = "registered"

(* The receiver of a zero-copy connection (spec.md 4.5).                   *)
AtCeiling(p) == borrowed[p] >= MaxBorrowed
Released(p) == borrowed' = [borrowed EXCEPT ![p] = IF @ > 0 THEN @ - 1 ELSE 0]

-----------------------------------------------------------------------------
(* Mutant forms of the definitions below, each a plausible slip in the     *)
(* code.                                                                   *)
ReceiveUpdateSkipped ==
  /\ spc = "idle"
  /\ spc' = "receive"
  /\ si' = 0
  /\ UNCHANGED <<borrowed, snapshot, seen, conn, degration, held>>
  /\ UNCHANGED publishers

-----------------------------------------------------------------------------
Populating == spc \in {"populate_new", "populate_receive"}

(* After the last slot populate_publisher_channels() returns Ok: new()     *)
(* goes on to register, receive() to its loop over the connections.        *)
PopulateAdvance ==
  IF si = LastSlot
    THEN /\ si' = 0
         /\ spc' = IF spc = "populate_new" THEN "register" ELSE "receive"
    ELSE /\ si' = si + 1
         /\ UNCHANGED spc

(* new(): PublisherConnections::new() and publisher_list.get_state().      *)
SubscriberNew ==
  /\ spc = "new"
  /\ snapshot' = slots
  /\ seen' = changes
  /\ spc' = "populate_new"
  /\ UNCHANGED <<borrowed, conn, degration, held, si>> /\ UNCHANGED publishers

(* new(): add_subscriber_id(port_id), last.                                *)
SubscriberRegister ==
  /\ spc = "register"
  /\ spc' = "idle"
  /\ UNCHANGED <<borrowed, snapshot, seen, conn, degration, held, si>>
  /\ UNCHANGED publishers

(* set_degration_callback(callback).                                       *)
SetDegrationCallback(d) ==
  /\ spc = "idle"
  /\ degration' = d
  /\ UNCHANGED <<borrowed, snapshot, seen, conn, held, spc, si>>
  /\ UNCHANGED publishers

(* populate_publisher_channels(): create(si, publisher_id) succeeds.       *)
PopulateConnect ==
  /\ Populating
  /\ snapshot[si] # None
  /\ Connects(si, snapshot[si])
  /\ conn' = [conn EXCEPT ![si] = snapshot[si]]
  /\ PopulateAdvance
  /\ UNCHANGED <<borrowed, snapshot, seen, degration, held>>
  /\ UNCHANGED publishers

(* populate_publisher_channels(): create() fails; without a callback, or   *)
(* with one that returns Ignore or Warn, the loop goes on.                 *)
PopulateDegrade ==
  /\ Populating
  /\ snapshot[si] # None
  /\ ~Connects(si, snapshot[si])
  /\ degration # "Fail"
  /\ PopulateAdvance
  /\ UNCHANGED <<borrowed, snapshot, seen, conn, degration, held>>
  /\ UNCHANGED publishers

(* populate_publisher_channels(): the callback returns Fail: Err at once.  *)
(* new() only warns and registers; receive() fails with the               *)
(* ConnectionFailure.  The snapshot stays updated.                         *)
PopulateFail ==
  /\ Populating
  /\ snapshot[si] # None
  /\ ~Connects(si, snapshot[si])
  /\ degration = "Fail"
  /\ spc' = IF spc = "populate_new" THEN "register" ELSE "idle"
  /\ si' = 0
  /\ UNCHANGED <<borrowed, snapshot, seen, conn, degration, held>>
  /\ UNCHANGED publishers

(* populate_publisher_channels(): slot si is empty: remove(si) drops the   *)
(* connection and its receiver.                                            *)
PopulateRemove ==
  /\ Populating
  /\ snapshot[si] = None
  /\ conn' = [conn EXCEPT ![si] = None]
  /\ borrowed' = IF conn[si] = None THEN borrowed
                 ELSE [borrowed EXCEPT ![conn[si]] = 0]
  /\ PopulateAdvance
  /\ UNCHANGED <<snapshot, seen, degration, held>> /\ UNCHANGED publishers

(* receive(): update_connections(); update() reports a change: a new       *)
(* snapshot, then populate_publisher_channels().                          *)
ReceiveUpdate ==
  /\ spc = "idle"
  /\ changes # seen
  /\ snapshot' = slots
  /\ seen' = changes
  /\ spc' = "populate_receive"
  /\ si' = 0
  /\ UNCHANGED <<borrowed, conn, degration, held>> /\ UNCHANGED publishers

(* receive(): update() reports no change: on to the connections.           *)
ReceiveNoChange ==
  /\ spc = "idle"
  /\ changes = seen
  /\ spc' = "receive"
  /\ si' = 0
  /\ UNCHANGED <<borrowed, snapshot, seen, conn, degration, held>>
  /\ UNCHANGED publishers

(* Next connection id of receive(); after the last one: Ok(None).          *)
ReceiveAdvance ==
  IF si = LastSlot THEN si' = 0 /\ spc' = "idle"
                   ELSE si' = si + 1 /\ UNCHANGED spc

(* receive(): no connection in slot si, or receive_from_connection()       *)
(* finds its submission queue empty: Ok(None).                             *)
ReceiveSkip ==
  /\ spc = "receive"
  /\ \/ conn[si] = None
     \/ conn[si] # None /\ ~AtCeiling(conn[si]) /\ submission[conn[si]] = <<>>
  /\ ReceiveAdvance
  /\ UNCHANGED <<borrowed, snapshot, seen, conn, degration, held>>
  /\ UNCHANGED publishers

(* receive_from_connection(): the receiver pops an offset; the Sample      *)
(* carries channel_id si.                                                  *)
ReceiveSample ==
  /\ spc = "receive"
  /\ conn[si] # None
  /\ ~AtCeiling(conn[si])
  /\ submission[conn[si]] # <<>>
  /\ LET p == conn[si]
         x == Head(submission[p])
     IN /\ held' = held \cup {[ch |-> si, pub |-> x.pub, off |-> x.off]}
        /\ submission' = [submission EXCEPT ![p] = Tail(@)]
        /\ borrowed' = [borrowed EXCEPT ![p] = @ + 1]
  /\ spc' = "idle"
  /\ si' = 0
  /\ UNCHANGED <<snapshot, seen, conn, degration>>
  /\ UNCHANGED <<pstate, slots, changes, pool, retrieve>>

(* receive_from_connection(): ReceiveWouldExceedMaxBorrowValue: receive()  *)
(* fails with ExceedsMaxBorrowedSamples.                                   *)
ReceiveExceeds ==
  /\ spc = "receive"
  /\ conn[si] # None
  /\ AtCeiling(conn[si])
  /\ spc' = "idle"
  /\ si' = 0
  /\ UNCHANGED <<borrowed, snapshot, seen, conn, degration, held>>
  /\ UNCHANGED publishers

(* Drop of a Sample: release_sample(channel_id, ..) finds a connection in  *)
(* slot channel_id and releases the offset, computed against that          *)
(* connection's data segment, onto its retrieve queue.                     *)
ReleaseSample(s) ==
  /\ spc = "idle"
  /\ conn[s.ch] # None
  /\ LET q == conn[s.ch] IN
       IF Len(retrieve[q]) < RetrieveCapacity
         THEN /\ retrieve' = [retrieve EXCEPT ![q] = Append(@, [pub |-> s.pub, off |-> s.off])]
              /\ Released(q)
              /\ held' = held \ {s}
              /\ UNCHANGED spc
         ELSE /\ spc' = "panicked"
              /\ UNCHANGED <<retrieve, borrowed, held>>
  /\ UNCHANGED <<snapshot, seen, conn, degration, si>>
  /\ UNCHANGED <<pstate, slots, changes, pool, submission>>

(* Drop of a Sample: no connection in slot channel_id: warn; the sample is *)
(* discarded.                                                              *)
ReleaseDiscard(s) ==
  /\ spc = "idle"
  /\ conn[s.ch] = None
  /\ held' = held \ {s}
  /\ UNCHANGED <<borrowed, snapshot, seen, conn, degration, spc, si>>
  /\ UNCHANGED publishers

(* The subscriber's own progress: new() and receive().                     *)
SubscriberStep ==
  \/ SubscriberNew \/ SubscriberRegister
  \/ PopulateConnect \/ PopulateDegrade \/ PopulateFail \/ PopulateRemove
  \/ ReceiveUpdate \/ ReceiveNoChange
  \/ ReceiveSkip \/ ReceiveSample \/ ReceiveExceeds

Next ==
  \/ SubscriberStep
  \/ \E d \in Degrations : SetDegrationCallback(d)
  \/ \E s \in held : ReleaseSample(s) \/ ReleaseDiscard(s)
  \/ \E p \in PublisherIds : Publisher(p)

(* The subscriber's thread keeps calling receive(); nothing in it blocks.  *)
Fairness == WF_vars(SubscriberStep)

Spec == Init /\ [][Next]_vars /\ Fairness

-----------------------------------------------------------------------------
TypeOK ==
  /\ pstate \in [PublisherIds -> {"absent", "registered", "gone"}]
  /\ slots \in [Slots -> PublisherIds \cup {None}]
  /\ pool \in [PublisherIds -> SUBSET Offsets]
  /\ submission \in [PublisherIds -> Seq(Tagged)]
  /\ retrieve \in [PublisherIds -> Seq(Tagged)]
  /\ borrowed \in [PublisherIds -> 0..MaxBorrowed]
  /\ snapshot \in [Slots -> PublisherIds \cup {None}]
  /\ seen \in 0..changes
  /\ conn \in [Slots -> PublisherIds \cup {None}]
  /\ degration \in Degrations
  /\ held \subseteq Sample
  /\ spc \in {"new", "populate_new", "register", "idle", "populate_receive",
              "receive", "panicked"}
  /\ si \in Slots

(* A publisher that takes a registry slot and keeps it is eventually       *)
(* connected by the subscriber that keeps calling receive(), whatever the  *)
(* degration callback and although a failed populate leaves the snapshot  *)
(* updated.                                                                *)
EventuallyConnected ==
  \A p \in PublisherIds, i \in Slots :
    slots[i] = p ~> (conn[i] = p \/ slots[i] # p)

(* The drop of a sample hands its offset back to the publisher whose data  *)
(* segment it lies in: every offset on a retrieve queue belongs to that    *)
(* queue's publisher.                                                      *)
ReleaseReachesOwner ==
  \A q \in PublisherIds :
    \A k \in 1..Len(retrieve[q]) : retrieve[q][k].pub = q

====
