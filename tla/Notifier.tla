------------------------------ MODULE Notifier ------------------------------
(***************************************************************************)
(* A notifier port of an event service (elkodon port/notifier.rs) and the  *)
(* listeners it connects to.  The listener registry of the dynamic config  *)
(* has Capacity slots; the notifier keeps one connection per slot          *)
(* (ListenerConnections) and reconciles it with a snapshot of the registry *)
(* (ContainerState) one slot at a time, then sends the trigger id over     *)
(* every connection it holds.                                              *)
(*                                                                         *)
(* Listeners (spec.md 4.4, 4.4.3; their code is not in the source tree)    *)
(* create their event channel, named by their unique id, then take a free  *)
(* registry slot last; on drop the slot is released and the channel        *)
(* removed.  The registry snapshot is atomic and carries a change counter  *)
(* (spec.md 5, 9).  Each listener id is used by one listener only.         *)
(***************************************************************************)
EXTENDS Naturals, FiniteSets

CONSTANTS
  ListenerIds,  \* unique ids of the listeners that come and go
  Capacity,     \* max_listeners: slots of the listener registry
  None          \* model value: an empty slot or connection

ASSUME Capacity \in Nat \ {0}
ASSUME None \notin ListenerIds

VARIABLES
  lstate,    \* lstate[l]: "absent", "open", "registered", "closing", "gone"
  slots,     \* slots[i]: listener id in registry slot i, or None
  changes,   \* change counter of the registry
  pending,   \* pending[l]: l's channel holds a notification not yet taken
  snapshot,  \* the notifier's ContainerState copy of slots
  seen,      \* change counter at the snapshot
  conn,      \* conn[i]: listener whose channel connection i is open to
  npc,       \* notifier: "new", "register", "populate_new", "idle",
             \*           "populate_notify", "send"
  ni,        \* slot index of the notifier's current loop
  count      \* number_of_triggered_listeners of the notify in progress

vars == <<lstate, slots, changes, pending, snapshot, seen, conn, npc, ni,
          count>>

Slots == 0..Capacity - 1

LastSlot == Capacity - 1

Id == ListenerIds \cup {None}

(* The event channel of listener l exists.                                 *)
HasChannel(l) == lstate[l] \in {"open", "registered", "closing"}

Init ==
  /\ lstate = [l \in ListenerIds |-> "absent"]
  /\ slots = [i \in Slots |-> None]
  /\ changes = 0
  /\ pending = [l \in ListenerIds |-> FALSE]
  /\ snapshot = [i \in Slots |-> None]
  /\ seen = 0
  /\ conn = [i \in Slots |-> None]
  /\ npc = "new"
  /\ ni = 0
  /\ count = 0

-----------------------------------------------------------------------------
(* Listener port (spec.md 4.4.3): create the event channel.                *)
ListenerCreate(l) ==
  /\ lstate[l] = "absent"
  /\ lstate' = [lstate EXCEPT ![l] = "open"]
  /\ UNCHANGED <<slots, changes, pending, snapshot, seen, conn, npc, ni,
                 count>>

(* Listener port: add the listener id to a free registry slot, last.       *)
ListenerRegister(l) ==
  /\ lstate[l] = "open"
  /\ \E i \in Slots :
       /\ slots[i] = None
       /\ slots' = [slots EXCEPT ![i] = l]
  /\ changes' = changes + 1
  /\ lstate' = [lstate EXCEPT ![l] = "registered"]
  /\ UNCHANGED <<pending, snapshot, seen, conn, npc, ni, count>>

(* Listener port: the registry is full (ExceedsMaxSupportedListeners); the *)
(* channel is dropped again.                                               *)
ListenerRegisterFails(l) ==
  /\ lstate[l] = "open"
  /\ \A i \in Slots : slots[i] # None
  /\ lstate' = [lstate EXCEPT ![l] = "gone"]
  /\ pending' = [pending EXCEPT ![l] = FALSE]
  /\ UNCHANGED <<slots, changes, snapshot, seen, conn, npc, ni, count>>

(* Listener drop: the registry guard releases the slot ...                 *)
ListenerDeregister(l) ==
  /\ lstate[l] = "registered"
  /\ slots' = [i \in Slots |-> IF slots[i] = l THEN None ELSE slots[i]]
  /\ changes' = changes + 1
  /\ lstate' = [lstate EXCEPT ![l] = "closing"]
  /\ UNCHANGED <<pending, snapshot, seen, conn, npc, ni, count>>

(* ... and the event channel is removed.                                   *)
ListenerClose(l) ==
  /\ lstate[l] = "closing"
  /\ lstate' = [lstate EXCEPT ![l] = "gone"]
  /\ pending' = [pending EXCEPT ![l] = FALSE]
  /\ UNCHANGED <<slots, changes, snapshot, seen, conn, npc, ni, count>>

(* Listener try_wait(): take the notifications of the channel.             *)
ListenerWait(l) ==
  /\ HasChannel(l)
  /\ pending[l]
  /\ pending' = [pending EXCEPT ![l] = FALSE]
  /\ UNCHANGED <<lstate, slots, changes, snapshot, seen, conn, npc, ni,
                 count>>

Listener(l) ==
  \/ ListenerCreate(l) \/ ListenerRegister(l) \/ ListenerRegisterFails(l)
  \/ ListenerDeregister(l) \/ ListenerClose(l) \/ ListenerWait(l)

-----------------------------------------------------------------------------
(* Mutant forms of the definitions below, each a plausible slip in the     *)
(* code.                                                                   *)
RemoveNothing(i) == conn' = conn

AdvanceInclusive ==
  IF ni = Capacity
    THEN /\ ni' = 0
         /\ npc' = CASE npc = "populate_new"    -> "idle"
                     [] npc = "populate_notify" -> "send"
                     [] npc = "send"            -> "idle"
    ELSE /\ ni' = ni + 1
         /\ UNCHANGED npc

-----------------------------------------------------------------------------
(* ListenerConnections::create(): a connection is opened only when slot i  *)
(* holds none, whichever listener the open one leads to.                   *)
NeedsConnection(i) == conn[i] = None

(* ListenerConnections::remove(): drop the connection of slot i.           *)
Remove(i) == conn' = [conn EXCEPT ![i] = None]

Populating == npc \in {"populate_new", "populate_notify"}

(* Next slot of a loop; after the last one new() returns and notify goes   *)
(* on to send, and a send loop returns.                                    *)
Advance ==
  IF ni = LastSlot
    THEN /\ ni' = 0
         /\ npc' = CASE npc = "populate_new"    -> "idle"
                     [] npc = "populate_notify" -> "send"
                     [] npc = "send"            -> "idle"
    ELSE /\ ni' = ni + 1
         /\ UNCHANGED npc

(* new(): ListenerConnections::new() and listener_list.get_state().        *)
NotifierNew ==
  /\ npc = "new"
  /\ snapshot' = slots
  /\ seen' = changes
  /\ npc' = "register"
  /\ UNCHANGED <<lstate, slots, changes, pending, conn, ni, count>>

(* new(): add_notifier_id(), then populate_listener_channels().            *)
NotifierRegister ==
  /\ npc = "register"
  /\ npc' = "populate_new"
  /\ UNCHANGED <<lstate, slots, changes, pending, snapshot, seen, conn, ni,
                 count>>

(* populate_listener_channels(): a listener in slot ni and no connection:  *)
(* open one to its channel.                                                *)
PopulateConnect ==
  /\ Populating
  /\ snapshot[ni] # None
  /\ NeedsConnection(ni)
  /\ HasChannel(snapshot[ni])
  /\ conn' = [conn EXCEPT ![ni] = snapshot[ni]]
  /\ Advance
  /\ UNCHANGED <<lstate, slots, changes, pending, snapshot, seen, count>>

(* populate_listener_channels(): a listener in slot ni and a connection    *)
(* already there: create() keeps it.                                       *)
PopulateKeep ==
  /\ Populating
  /\ snapshot[ni] # None
  /\ ~NeedsConnection(ni)
  /\ Advance
  /\ UNCHANGED <<lstate, slots, changes, pending, snapshot, seen, conn,
                 count>>

(* populate_listener_channels(): the channel cannot be opened: return Err  *)
(* at once.  new() only warns; notify() fails with OnlyPartialUpdate and   *)
(* sends nothing.  The snapshot stays updated.                             *)
PopulateFail ==
  /\ Populating
  /\ snapshot[ni] # None
  /\ NeedsConnection(ni)
  /\ ~HasChannel(snapshot[ni])
  /\ npc' = "idle"
  /\ ni' = 0
  /\ UNCHANGED <<lstate, slots, changes, pending, snapshot, seen, conn,
                 count>>

(* populate_listener_channels(): slot ni is empty: remove(ni).             *)
PopulateRemove ==
  /\ Populating
  /\ snapshot[ni] = None
  /\ Remove(ni)
  /\ Advance
  /\ UNCHANGED <<lstate, slots, changes, pending, snapshot, seen, count>>

(* notify(): update_connections(); the registry changed since the last     *)
(* snapshot: take a new one and populate.                                  *)
NotifyUpdate ==
  /\ npc = "idle"
  /\ changes # seen
  /\ snapshot' = slots
  /\ seen' = changes
  /\ npc' = "populate_notify"
  /\ count' = 0
  /\ UNCHANGED <<lstate, slots, changes, pending, conn, ni>>

(* notify(): update() returns false: send right away.                      *)
NotifyNoChange ==
  /\ npc = "idle"
  /\ changes = seen
  /\ npc' = "send"
  /\ count' = 0
  /\ UNCHANGED <<lstate, slots, changes, pending, snapshot, seen, conn, ni>>

(* notify(): connection ni delivers the trigger id.                        *)
SendDelivered ==
  /\ npc = "send"
  /\ conn[ni] # None
  /\ HasChannel(conn[ni])
  /\ pending' = [pending EXCEPT ![conn[ni]] = TRUE]
  /\ count' = count + 1
  /\ Advance
  /\ UNCHANGED <<lstate, slots, changes, snapshot, seen, conn>>

(* notify(): the channel of connection ni is gone: warn and go on.         *)
SendFailed ==
  /\ npc = "send"
  /\ conn[ni] # None
  /\ ~HasChannel(conn[ni])
  /\ Advance
  /\ UNCHANGED <<lstate, slots, changes, pending, snapshot, seen, conn,
                 count>>

(* notify(): no connection in slot ni.                                     *)
SendSkip ==
  /\ npc = "send"
  /\ conn[ni] = None
  /\ Advance
  /\ UNCHANGED <<lstate, slots, changes, pending, snapshot, seen, conn,
                 count>>

NotifierStep ==
  \/ NotifierNew \/ NotifierRegister
  \/ PopulateConnect \/ PopulateKeep \/ PopulateFail \/ PopulateRemove
  \/ NotifyUpdate \/ NotifyNoChange
  \/ SendDelivered \/ SendFailed \/ SendSkip

Next == NotifierStep \/ \E l \in ListenerIds : Listener(l)

(* The notifier thread keeps calling notify(); nothing in the port blocks. *)
Fairness == WF_vars(NotifierStep)

Spec == Init /\ [][Next]_vars /\ Fairness

-----------------------------------------------------------------------------
TypeOK ==
  /\ lstate \in [ListenerIds -> {"absent", "open", "registered", "closing",
                                 "gone"}]
  /\ slots \in [Slots -> Id]
  /\ changes \in 0..2 * Cardinality(ListenerIds)
  /\ pending \in [ListenerIds -> BOOLEAN]
  /\ snapshot \in [Slots -> Id]
  /\ seen \in 0..changes
  /\ conn \in [Slots -> Id]
  /\ npc \in {"new", "register", "populate_new", "idle", "populate_notify",
              "send"}
  /\ ni \in Slots
  /\ count \in 0..Capacity

(* While notify() sends, no connection is to an empty slot of its snapshot. *)
NoConnectionToEmptySlot ==
  npc = "send" => \A i \in Slots : snapshot[i] = None => conn[i] = None

(* A listener that takes a slot the notifier holds no connection for, and *)
(* stays registered, is eventually notified by the notifier that keeps    *)
(* calling notify().                                                       *)
EventuallyNotified ==
  \A l \in ListenerIds, i \in Slots :
    (slots[i] = l /\ conn[i] = None) ~> (pending[l] \/ slots[i] # l)

====
