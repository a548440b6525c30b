------------------------------- MODULE MCPorts -------------------------------
(***************************************************************************)
(* The two ports modelled, each with the peers it connects to: a notifier  *)
(* with the listeners of an event service, and a subscriber with the      *)
(* publishers of a publish-subscribe service; and the static storage of   *)
(* elkodon_cal, the named file a service keeps its static config in.  They *)
(* share no state; each behaviour exercises one of them, chosen at the     *)
(* start, while the others keep their initial state.                       *)
(***************************************************************************)
EXTENDS Naturals, TLC

CONSTANTS l1, l2, l3, p1, p2, None, pA, pB, pC

VARIABLES
  part,   \* the port this behaviour exercises
  lstate, slots, changes, pending, snapshot, seen, conn, npc, ni, count,
  pstate, s_slots, s_changes, pool, submission, retrieve, borrowed,
  s_snapshot, s_seen, s_conn, degration, held, spc, si,
  ss_file, ss_final, ss_gen, ss_handle, ss_pc, ss_fd, ss_want, ss_answer,
  ss_seen

(* Three listeners over two registry slots: one can take the slot another *)
(* left while the notifier still holds its connection.                     *)
N == INSTANCE Notifier WITH ListenerIds <- {l1, l2, l3}, Capacity <- 2

(* Two publishers over two registry slots, with one bucket each; a queue  *)
(* of one offset and a borrow ceiling of one sample.                       *)
S == INSTANCE Subscriber
       WITH PublisherIds <- {p1, p2}, Capacity <- 2, Buffer <- 1,
            MaxBorrowed <- 1, PoolSize <- 1,
            slots <- s_slots, changes <- s_changes, snapshot <- s_snapshot,
            seen <- s_seen, conn <- s_conn

(* Three processes over one storage name with two incarnations; a process *)
(* that opens the storage does not own it (Builder::has_ownership(false),  *)
(* the reader the Builder's comment describes).                            *)
SS == INSTANCE StaticStorage
        WITH Procs <- {pA, pB, pC}, MaxGen <- 2, ReaderOwns <- {FALSE},
             file <- ss_file, final <- ss_final, gen <- ss_gen,
             handle <- ss_handle, pc <- ss_pc, fd <- ss_fd, want <- ss_want,
             answer <- ss_answer, seen <- ss_seen

n_vars == <<lstate, slots, changes, pending, snapshot, seen, conn, npc, ni,
            count>>
s_vars == <<pstate, s_slots, s_changes, pool, submission, retrieve, borrowed,
            s_snapshot, s_seen, s_conn, degration, held, spc, si>>
ss_vars == <<ss_file, ss_final, ss_gen, ss_handle, ss_pc, ss_fd, ss_want,
             ss_answer, ss_seen>>

Init ==
  /\ part \in {"notifier", "subscriber", "static_storage"}
  /\ N!Init /\ S!Init /\ SS!Init

Next ==
  \/ part = "notifier" /\ N!Next /\ UNCHANGED <<part, s_vars, ss_vars>>
  \/ part = "subscriber" /\ S!Next /\ UNCHANGED <<part, n_vars, ss_vars>>
  \/ part = "static_storage" /\ SS!Next /\ UNCHANGED <<part, n_vars, s_vars>>

(* A port's fairness is assumed in the behaviours that exercise it.        *)
Spec ==
  /\ Init /\ [][Next]_<<part, n_vars, s_vars, ss_vars>>
  /\ part = "notifier" => N!Fairness
  /\ part = "subscriber" => S!Fairness

(* The processes of the static storage run the same code and no property *)
(* names one, so permuting them is sound.                                  *)
Symmetry == Permutations({pA, pB, pC})

TypeOK == N!TypeOK /\ S!TypeOK /\ SS!TypeOK

(* Notifier: while notify() sends, no connection is to an empty slot of    *)
(* its snapshot.                                                           *)
NoConnectionToEmptySlot == N!NoConnectionToEmptySlot

(* Subscriber: a publisher that keeps a registry slot is eventually        *)
(* connected by the subscriber that keeps calling receive().               *)
EventuallyConnected == S!EventuallyConnected

(* StaticStorage: does_exist_cfg() answers true, or BeingSetUp, only when *)
(* the name denoted a complete, or a locked, storage at some moment of the *)
(* call, though the inode it opened may be removed and unlocked between    *)
(* its steps.                                                              *)
DoesExistAnswersHeld == SS!DoesExistAnswersHeld

====
