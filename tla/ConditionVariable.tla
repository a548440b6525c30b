------------------------- MODULE ConditionVariable -------------------------
(***************************************************************************)
(* ConditionVariable of elkodon_pal_concurrency_primitives                 *)
(* (condition_variable.rs): a u32 counter.  notify() increments it and     *)
(* calls the wake callback; wait(mtx, ..) loads the counter, unlocks the   *)
(* mutex, calls the wait callback with the loaded value, returns false if  *)
(* that returns false, and otherwise locks the mutex again and returns     *)
(* what the lock returns.  The callbacks are those of a futex:             *)
(* wait(&counter, &value) sleeps while the counter still holds value and   *)
(* returns true when woken, or false on an error; wake_one_or_all wakes   *)
(* the sleepers.  The Mutex is not in the source tree and is taken by its  *)
(* contract: lock blocks while another thread holds it, and fails when its *)
(* wait callback gives up.                                                 *)
(*                                                                         *)
(* Clients are those of the crate's tests: each waiter locks the mutex and *)
(* waits while the notifier's flag is not set; the notifier sets the flag  *)
(* under the mutex and then notifies all.                                  *)
(***************************************************************************)
EXTENDS Naturals

CONSTANTS
  Waiters,   \* threads calling wait()
  Width      \* bits of the counter (AtomicU32: 32)

Nobody == "nobody"
Word == 2 ^ Width

VARIABLES
  counter,   \* the ConditionVariable's counter
  holder,    \* the thread holding the Mutex, or Nobody
  flag,      \* the condition the waiters wait for
  wpc,       \* wpc[w]: where waiter w is
  value,     \* value[w]: the counter_value waiter w loaded
  npc        \* where the notifier is

vars == <<counter, holder, flag, wpc, value, npc>>

Notifier == "notifier"

WpcValues == {"lock", "check", "load", "unlock", "futex", "sleeping",
              "relock", "done", "failed"}
NpcValues == {"lock", "set", "unlock", "notify", "wake", "done"}

Init ==
  /\ counter = 0
  /\ holder = Nobody
  /\ flag = FALSE
  /\ wpc = [w \in Waiters |-> "lock"]
  /\ value = [w \in Waiters |-> 0]
  /\ npc = "lock"

(* Mutex::lock and Mutex::unlock by their contract.                        *)
MutexLock(p) == holder = Nobody /\ holder' = p
MutexUnlock(p) == holder = p /\ holder' = Nobody

-----------------------------------------------------------------------------
(* Mutant forms of the definitions below, each a plausible slip in the     *)
(* code.                                                                   *)
FutexSleepUnchecked(w) ==
  /\ wpc[w] = "futex"
  /\ wpc' = [wpc EXCEPT ![w] = "sleeping"]
  /\ UNCHANGED <<counter, holder, flag, value, npc>>

-----------------------------------------------------------------------------
(* The waiter: mtx.lock(..).                                               *)
WaiterLock(w) ==
  /\ wpc[w] = "lock"
  /\ MutexLock(w)
  /\ wpc' = [wpc EXCEPT ![w] = "check"]
  /\ UNCHANGED <<counter, flag, value, npc>>

(* The waiter, holding the mutex, checks its condition: it waits again     *)
(* while the flag is not set, and otherwise unlocks and is done.           *)
WaiterCheck(w) ==
  /\ wpc[w] = "check"
  /\ IF flag THEN MutexUnlock(w) /\ wpc' = [wpc EXCEPT ![w] = "done"]
             ELSE wpc' = [wpc EXCEPT ![w] = "load"] /\ UNCHANGED holder
  /\ UNCHANGED <<counter, flag, value, npc>>

(* wait(): let counter_value = self.counter.load(..).                      *)
WaitLoad(w) ==
  /\ wpc[w] = "load"
  /\ value' = [value EXCEPT ![w] = counter]
  /\ wpc' = [wpc EXCEPT ![w] = "unlock"]
  /\ UNCHANGED <<counter, holder, flag, npc>>

(* wait(): mtx.unlock(mtx_wake_one).                                       *)
WaitUnlock(w) ==
  /\ wpc[w] = "unlock"
  /\ MutexUnlock(w)
  /\ wpc' = [wpc EXCEPT ![w] = "futex"]
  /\ UNCHANGED <<counter, flag, value, npc>>

(* wait(&counter, &counter_value): the counter has moved on: true at once. *)
FutexChanged(w) ==
  /\ wpc[w] = "futex"
  /\ counter # value[w]
  /\ wpc' = [wpc EXCEPT ![w] = "relock"]
  /\ UNCHANGED <<counter, holder, flag, value, npc>>

(* wait(&counter, &counter_value): the counter still holds the value: the  *)
(* thread sleeps.                                                          *)
FutexSleep(w) ==
  /\ wpc[w] = "futex"
  /\ counter = value[w]
  /\ wpc' = [wpc EXCEPT ![w] = "sleeping"]
  /\ UNCHANGED <<counter, holder, flag, value, npc>>

(* The wait callback fails: wait() returns false, without the mutex.       *)
FutexFails(w) ==
  /\ wpc[w] \in {"futex", "sleeping"}
  /\ wpc' = [wpc EXCEPT ![w] = "failed"]
  /\ UNCHANGED <<counter, holder, flag, value, npc>>

(* wait(): mtx.lock(mtx_wait); wait() returns true holding the mutex.      *)
WaitRelock(w) ==
  /\ wpc[w] = "relock"
  /\ MutexLock(w)
  /\ wpc' = [wpc EXCEPT ![w] = "check"]
  /\ UNCHANGED <<counter, flag, value, npc>>

(* wait(): mtx.lock(mtx_wait) finds the mutex held and the mtx_wait       *)
(* callback gives up (a timeout, mutex_tests.rs): lock returns false, and  *)
(* so does wait(), without the mutex.                                      *)
RelockFails(w) ==
  /\ wpc[w] = "relock"
  /\ holder \notin {Nobody, w}
  /\ wpc' = [wpc EXCEPT ![w] = "failed"]
  /\ UNCHANGED <<counter, holder, flag, value, npc>>

(* The notifier sets the flag under the mutex.                             *)
NotifierLock ==
  /\ npc = "lock" /\ MutexLock(Notifier) /\ npc' = "set"
  /\ UNCHANGED <<counter, flag, wpc, value>>

NotifierSet ==
  /\ npc = "set" /\ flag' = TRUE /\ npc' = "unlock"
  /\ UNCHANGED <<counter, holder, wpc, value>>

NotifierUnlock ==
  /\ npc = "unlock" /\ MutexUnlock(Notifier) /\ npc' = "notify"
  /\ UNCHANGED <<counter, flag, wpc, value>>

(* notify(): self.counter.fetch_add(1, ..), wrapping at 2^Width.           *)
NotifyAdd ==
  /\ npc = "notify"
  /\ counter' = (counter + 1) % Word
  /\ npc' = "wake"
  /\ UNCHANGED <<holder, flag, wpc, value>>

(* notify(): wake_one_or_all(&self.counter) wakes every sleeper.           *)
NotifyWake ==
  /\ npc = "wake"
  /\ wpc' = [w \in Waiters |-> IF wpc[w] = "sleeping" THEN "relock" ELSE wpc[w]]
  /\ npc' = "done"
  /\ UNCHANGED <<counter, holder, flag, value>>

Next ==
  \/ \E w \in Waiters :
       \/ WaiterLock(w) \/ WaiterCheck(w) \/ WaitLoad(w) \/ WaitUnlock(w)
       \/ FutexChanged(w) \/ FutexSleep(w) \/ FutexFails(w) \/ WaitRelock(w)
       \/ RelockFails(w)
  \/ NotifierLock \/ NotifierSet \/ NotifierUnlock \/ NotifyAdd \/ NotifyWake

(* Every thread runs; the mutex is granted to a thread that keeps asking   *)
(* for it (the futex-based lock wakes a waiter on each unlock).  The wait  *)
(* and the mutex callbacks failing are errors, never forced.                             *)
Fairness ==
  /\ \A w \in Waiters :
       /\ WF_vars(WaiterCheck(w)) /\ WF_vars(WaitLoad(w))
       /\ WF_vars(WaitUnlock(w)) /\ WF_vars(FutexChanged(w))
       /\ WF_vars(FutexSleep(w))
       /\ SF_vars(WaiterLock(w)) /\ SF_vars(WaitRelock(w))
  /\ SF_vars(NotifierLock)
  /\ WF_vars(NotifierSet) /\ WF_vars(NotifierUnlock)
  /\ WF_vars(NotifyAdd) /\ WF_vars(NotifyWake)

Spec == Init /\ [][Next]_vars /\ Fairness

-----------------------------------------------------------------------------
TypeOK ==
  /\ counter \in 0..(Word - 1)
  /\ holder \in Waiters \cup {Nobody, Notifier}
  /\ flag \in BOOLEAN
  /\ wpc \in [Waiters -> WpcValues]
  /\ value \in [Waiters -> 0..(Word - 1)]
  /\ npc \in NpcValues

NoLostWakeup == \A w \in Waiters : <>(wpc[w] \in {"done", "failed"})

====
