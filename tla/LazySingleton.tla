--------------------------- MODULE LazySingleton ---------------------------
(***************************************************************************)
(* LazySingleton<T> of elkodon_bb_elementary (lazy_singleton.rs): a value  *)
(* that one thread sets some time after creation and every thread reads.  *)
(* set_value() claims the singleton with a CAS of is_initialized, writes  *)
(* the data and then stores is_finalized; get() returns at once when      *)
(* is_finalized is set, panics when is_initialized is not, and otherwise  *)
(* spins until is_finalized is set.  Each atomic access, and the write    *)
(* and read of the data, is one step; a spin that still sees false is a   *)
(* stutter.                                                                *)
(***************************************************************************)
EXTENDS Naturals

CONSTANTS
  Threads,   \* threads calling set_value() and get()
  Values     \* values set_value() is called with

NoValue == "None"      \* data before set_value() writes it: None
Panicked == "panic"    \* what a thread's get() ended in when it panicked
NotCalled == "none"    \* got[t] before t's first get() returns

VARIABLES
  data,              \* data: None or the value
  is_initialized,
  is_finalized,
  spc,               \* spc[t]: where t is in set_value() or get()
  arg,               \* arg[t]: the value t's set_value() writes
  got                \* got[t]: what t's last get() returned, or Panicked

vars == <<data, is_initialized, is_finalized, spc, arg, got>>

SpcValues == {"idle", "set_write", "set_publish", "get_check", "get_spin",
              "dead"}

Init ==
  /\ data = NoValue
  /\ is_initialized = FALSE
  /\ is_finalized = FALSE
  /\ spc = [t \in Threads |-> "idle"]
  /\ arg = [t \in Threads |-> NoValue]
  /\ got = [t \in Threads |-> NotCalled]

-----------------------------------------------------------------------------
(* Mutant forms of the definitions below, each a plausible slip in the     *)
(* code.                                                                   *)
SetValuePublishFirst(t) ==
  /\ spc[t] = "set_write"
  /\ is_finalized' = TRUE
  /\ spc' = [spc EXCEPT ![t] = "set_publish"]
  /\ UNCHANGED <<data, is_initialized, arg, got>>

SetValueNoPublish(t) ==
  /\ spc[t] = "set_publish"
  /\ spc' = [spc EXCEPT ![t] = "idle"]
  /\ UNCHANGED <<data, is_initialized, is_finalized, arg, got>>

SetValueStore(t, v) ==
  /\ spc[t] = "idle"
  /\ is_initialized' = TRUE
  /\ arg' = [arg EXCEPT ![t] = v]
  /\ spc' = [spc EXCEPT ![t] = "set_write"]
  /\ UNCHANGED <<data, is_finalized, got>>

-----------------------------------------------------------------------------
(* set_value(v): the CAS of is_initialized from false to true succeeds.    *)
SetValueClaim(t, v) ==
  /\ spc[t] = "idle"
  /\ ~is_initialized
  /\ is_initialized' = TRUE
  /\ arg' = [arg EXCEPT ![t] = v]
  /\ spc' = [spc EXCEPT ![t] = "set_write"]
  /\ UNCHANGED <<data, is_finalized, got>>

(* set_value(v): the CAS fails: false.                                     *)
SetValueTaken(t) ==
  /\ spc[t] = "idle"
  /\ is_initialized
  /\ UNCHANGED vars

(* set_value(v): *self.data.get() = Some(value).                           *)
SetValueWrite(t) ==
  /\ spc[t] = "set_write"
  /\ data' = arg[t]
  /\ spc' = [spc EXCEPT ![t] = "set_publish"]
  /\ UNCHANGED <<is_initialized, is_finalized, arg, got>>

(* set_value(v): is_finalized.store(true); true.                           *)
SetValuePublish(t) ==
  /\ spc[t] = "set_publish"
  /\ is_finalized' = TRUE
  /\ spc' = [spc EXCEPT ![t] = "idle"]
  /\ UNCHANGED <<data, is_initialized, arg, got>>

(* get(): is_finalized is set: the data is returned.                       *)
GetFinalized(t) ==
  /\ spc[t] = "idle"
  /\ is_finalized
  /\ got' = [got EXCEPT ![t] = data]
  /\ UNCHANGED <<data, is_initialized, is_finalized, spc, arg>>

(* get(): is_finalized is not set yet.                                     *)
GetNotFinalized(t) ==
  /\ spc[t] = "idle"
  /\ ~is_finalized
  /\ spc' = [spc EXCEPT ![t] = "get_check"]
  /\ UNCHANGED <<data, is_initialized, is_finalized, arg, got>>

(* get(): is_initialized is not set either: panic; the thread is gone.     *)
GetPanic(t) ==
  /\ spc[t] = "get_check"
  /\ ~is_initialized
  /\ got' = [got EXCEPT ![t] = Panicked]
  /\ spc' = [spc EXCEPT ![t] = "dead"]
  /\ UNCHANGED <<data, is_initialized, is_finalized, arg>>

(* get(): a set_value() is under way: spin.                                *)
GetSpin(t) ==
  /\ spc[t] = "get_check"
  /\ is_initialized
  /\ spc' = [spc EXCEPT ![t] = "get_spin"]
  /\ UNCHANGED <<data, is_initialized, is_finalized, arg, got>>

(* get(): the spin sees is_finalized: the data is returned.                *)
GetSpinDone(t) ==
  /\ spc[t] = "get_spin"
  /\ is_finalized
  /\ got' = [got EXCEPT ![t] = data]
  /\ spc' = [spc EXCEPT ![t] = "idle"]
  /\ UNCHANGED <<data, is_initialized, is_finalized, arg>>

Next ==
  \E t \in Threads :
    \/ \E v \in Values : SetValueClaim(t, v)
    \/ SetValueTaken(t) \/ SetValueWrite(t) \/ SetValuePublish(t)
    \/ GetFinalized(t) \/ GetNotFinalized(t) \/ GetPanic(t) \/ GetSpin(t)
    \/ GetSpinDone(t)

(* Threads are OS threads: one inside set_value() finishes it, and a       *)
(* spinning get() keeps loading is_finalized.                              *)
Fairness ==
  \A t \in Threads :
    /\ WF_vars(SetValueWrite(t)) /\ WF_vars(SetValuePublish(t))
    /\ WF_vars(GetSpinDone(t))

Spec == Init /\ [][Next]_vars /\ Fairness

-----------------------------------------------------------------------------
TypeOK ==
  /\ data \in Values \cup {NoValue}
  /\ is_initialized \in BOOLEAN /\ is_finalized \in BOOLEAN
  /\ spc \in [Threads -> SpcValues]
  /\ got \in [Threads -> Values \cup {NoValue, Panicked, NotCalled}]

(* Every get() that returns, on the fast path or after spinning, returns   *)
(* a value, never None, and it is the value the singleton keeps from then *)
(* on: the store of is_finalized comes after the write of the data, and   *)
(* the CAS lets only one set_value() write.                               *)
GetReturnsTheValue ==
  \A t \in Threads : got[t] \notin {NotCalled, Panicked} => got[t] = data /\ data # NoValue

(* A get() that found a set_value() under way and spins is not left        *)
(* spinning: the set_value() it waits for stores is_finalized.            *)
SpinEnds == \A t \in Threads : spc[t] = "get_spin" ~> spc[t] = "idle"

====
