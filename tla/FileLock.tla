------------------------------ MODULE FileLock ------------------------------
(***************************************************************************)
(* FileLock of elkodon_bb_posix (file_lock.rs): every process wraps the    *)
(* same file in its own FileLock.  A lock first takes the process-local    *)
(* ReadWriteMutex (shared for readers, exclusive for a writer), then an    *)
(* fcntl record lock on the whole file; dropping a guard first unlocks the *)
(* fcntl lock (release) and then the mutex.  fcntl locks belong to a       *)
(* process, not to a thread: a process holds at most one of them, and an   *)
(* F_UNLCK by any of its threads removes it.                               *)
(*                                                                         *)
(* Threads are pairs <<p, t>>.  A try or timed lock is "NonBlocking": an   *)
(* attempt that finds the lock taken returns None; a timed lock's retries  *)
(* before its timeout change nothing and are left out.  The mutex is       *)
(* PreferReader (FileLockBuilder::default) and its code is not in the      *)
(* source tree: it is the usual reader-writer exclusion.                   *)
(***************************************************************************)
EXTENDS Integers, FiniteSets

CONSTANTS
  Procs,    \* processes that lock the file
  Threads   \* thread numbers inside every process

VARIABLES
  readers,     \* readers[p]: threads of p holding p's mutex shared
  writer,      \* writer[p]: threads of p holding it exclusively (0 or 1)
  fcntl,       \* fcntl[p]: the record lock p holds: "none", "read", "write"
  lock_state,  \* lock_state[p]: FileLock::lock_state of p's FileLock
  pc,          \* pc[a]: where thread a is in lock and release (PcValues)
  loaded,      \* loaded[a]: lock_state as loaded by set_lock_state(Unlock)
  kind,        \* kind[a]: LockType asked for: "read", "write"
  mode         \* mode[a]: "Blocking", "NonBlocking"

vars == <<readers, writer, fcntl, lock_state, pc, loaded, kind, mode>>

Agents == Procs \X Threads

Kinds == {"read", "write"}

Modes == {"Blocking", "NonBlocking"}

(* "mutex": mutex guard taken; "counting": fcntl lock taken, set_lock_state *)
(* to come; "locked": guard returned; "unlocked": F_UNLCK done;             *)
(* "adjusting": lock_state loaded; "release": mutex guard still to drop.    *)
PcValues == {"idle", "mutex", "counting", "locked", "unlocked", "adjusting",
             "release"}

Init ==
  /\ readers = [p \in Procs |-> {}]
  /\ writer = [p \in Procs |-> {}]
  /\ fcntl = [p \in Procs |-> "none"]
  /\ lock_state = [p \in Procs |-> 0]
  /\ pc = [a \in Agents |-> "idle"]
  /\ loaded = [a \in Agents |-> 0]
  /\ kind = [a \in Agents |-> "read"]
  /\ mode = [a \in Agents |-> "Blocking"]

-----------------------------------------------------------------------------
(* Mutant forms of the definitions below, each a plausible slip in the     *)
(* code.                                                                   *)
UnlockAdjustmentOffByOne(current_value) == IF current_value > 1 THEN -1 ELSE 1

-----------------------------------------------------------------------------
(* fcntl F_SETLK/F_SETLKW: the lock process p asks for is compatible with  *)
(* the locks of all other processes.                                       *)
Grantable(p, k) ==
  \A q \in Procs \ {p} :
    IF k = "write" THEN fcntl[q] = "none" ELSE fcntl[q] # "write"

(* set_lock_state(Unlock): the adjustment chosen from the loaded value.    *)
UnlockAdjustment(current_value) == IF current_value > 0 THEN -1 ELSE 1

(* set_lock_state(Read) counts up, set_lock_state(Write) down.             *)
LockAdjustment(k) == IF k = "read" THEN 1 ELSE -1

(* write_lock(), write_try_lock(), write_timed_lock(): self.file.write_*   *)
(* takes p's mutex exclusively; a try that finds it taken returns None.    *)
LockMutexWrite(a, m) ==
  LET p == a[1] IN
  /\ pc[a] = "idle"
  /\ writer[p] = {} /\ readers[p] = {}
  /\ writer' = [writer EXCEPT ![p] = {a[2]}]
  /\ pc' = [pc EXCEPT ![a] = "mutex"]
  /\ kind' = [kind EXCEPT ![a] = "write"]
  /\ mode' = [mode EXCEPT ![a] = m]
  /\ UNCHANGED <<readers, fcntl, lock_state, loaded>>

(* read_lock(), read_try_lock(), read_timed_lock(): self.file.read_* takes *)
(* p's mutex shared.                                                       *)
LockMutexRead(a, m) ==
  LET p == a[1] IN
  /\ pc[a] = "idle"
  /\ writer[p] = {}
  /\ readers' = [readers EXCEPT ![p] = @ \cup {a[2]}]
  /\ pc' = [pc EXCEPT ![a] = "mutex"]
  /\ kind' = [kind EXCEPT ![a] = "read"]
  /\ mode' = [mode EXCEPT ![a] = m]
  /\ UNCHANGED <<writer, fcntl, lock_state, loaded>>

(* Drop of the mutex guard; the call returns and its locals are gone.      *)
UnlockMutex(a) ==
  /\ readers' = [readers EXCEPT ![a[1]] = @ \ {a[2]}]
  /\ writer' = [writer EXCEPT ![a[1]] = @ \ {a[2]}]
  /\ pc' = [pc EXCEPT ![a] = "idle"]
  /\ kind' = [kind EXCEPT ![a] = "read"]
  /\ mode' = [mode EXCEPT ![a] = "Blocking"]
  /\ loaded' = [loaded EXCEPT ![a] = 0]

(* internal_lock(): fcntl F_SETLK/F_SETLKW succeeds (F_SETLKW waits until  *)
(* it can) ...                                                             *)
FcntlLock(a) ==
  /\ pc[a] = "mutex"
  /\ Grantable(a[1], kind[a])
  /\ fcntl' = [fcntl EXCEPT ![a[1]] = kind[a]]
  /\ pc' = [pc EXCEPT ![a] = "counting"]
  /\ UNCHANGED <<readers, writer, lock_state, loaded, kind, mode>>

(* ... then set_lock_state(lock_type): its fetch_add; the guard is returned. *)
LockCount(a) ==
  /\ pc[a] = "counting"
  /\ lock_state' = [lock_state EXCEPT ![a[1]] = @ + LockAdjustment(kind[a])]
  /\ pc' = [pc EXCEPT ![a] = "locked"]
  /\ UNCHANGED <<readers, writer, fcntl, loaded, kind, mode>>

FcntlBusy(a) ==
  /\ pc[a] = "mutex"
  /\ mode[a] = "NonBlocking"
  /\ ~Grantable(a[1], kind[a])
  /\ UnlockMutex(a)
  /\ UNCHANGED <<fcntl, lock_state>>

(* internal_lock(): EINTR, ENOLCK, EDEADLK, ...: the error is returned and *)
(* the mutex guard dropped.                                                *)
FcntlError(a) ==
  /\ pc[a] = "mutex"
  /\ UnlockMutex(a)
  /\ UNCHANGED <<fcntl, lock_state>>

(* Drop of FileLockReadGuard / FileLockWriteGuard: release() does fcntl    *)
(* F_UNLCK, which drops the record lock of the whole process p ...         *)
Release(a) ==
  /\ pc[a] = "locked"
  /\ fcntl' = [fcntl EXCEPT ![a[1]] = "none"]
  /\ pc' = [pc EXCEPT ![a] = "unlocked"]
  /\ UNCHANGED <<readers, writer, lock_state, loaded, kind, mode>>

(* ... then set_lock_state(Unlock): lock_state.load() ...                  *)
UnlockLoad(a) ==
  /\ pc[a] = "unlocked"
  /\ loaded' = [loaded EXCEPT ![a] = lock_state[a[1]]]
  /\ pc' = [pc EXCEPT ![a] = "adjusting"]
  /\ UNCHANGED <<readers, writer, fcntl, lock_state, kind, mode>>

(* ... and fetch_add of the adjustment chosen from the loaded value.       *)
UnlockCount(a) ==
  /\ pc[a] = "adjusting"
  /\ lock_state' = [lock_state EXCEPT
                      ![a[1]] = @ + UnlockAdjustment(loaded[a])]
  /\ pc' = [pc EXCEPT ![a] = "release"]
  /\ UNCHANGED <<readers, writer, fcntl, loaded, kind, mode>>

(* Then the guard's field, the mutex guard, is dropped.                    *)
ReleaseMutex(a) ==
  /\ pc[a] = "release"
  /\ UnlockMutex(a)
  /\ UNCHANGED <<fcntl, lock_state>>

Next ==
  \E a \in Agents :
    \/ \E m \in Modes : LockMutexWrite(a, m) \/ LockMutexRead(a, m)
    \/ FcntlLock(a) \/ LockCount(a) \/ FcntlBusy(a) \/ FcntlError(a)
    \/ Release(a) \/ UnlockLoad(a) \/ UnlockCount(a) \/ ReleaseMutex(a)

Spec == Init /\ [][Next]_vars

-----------------------------------------------------------------------------
TypeOK ==
  /\ readers \in [Procs -> SUBSET Threads]
  /\ writer \in [Procs -> SUBSET Threads]
  /\ \A p \in Procs : Cardinality(writer[p]) <= 1
  /\ fcntl \in [Procs -> {"none", "read", "write"}]
  /\ lock_state \in [Procs -> -1..Cardinality(Threads)]
  /\ pc \in [Agents -> PcValues]
  /\ loaded \in [Agents -> -1..Cardinality(Threads)]
  /\ kind \in [Agents -> Kinds]
  /\ mode \in [Agents -> Modes]

(* Threads of p that hold a guard of the given kind.                       *)
Holding(p, k) == {t \in Threads : pc[<<p, t>>] = "locked" /\ kind[<<p, t>>] = k}

(* Threads of p whose lock is counted in lock_state: from the fetch_add of  *)
(* the lock to the fetch_add of the release.                               *)
Counted(p, k) ==
  {t \in Threads : /\ pc[<<p, t>>] \in {"locked", "unlocked", "adjusting"}
                   /\ kind[<<p, t>>] = k}

(* lock_state counts the read locks of the process up and a write lock   *)
(* down: set_lock_state's load and its separate fetch_add, under locks and *)
(* releases of several threads interleaved, keep the count, so the sign   *)
(* get_lock_state() reads says whether its own process holds the lock.    *)
LockStateCountsGuards ==
  \A p \in Procs :
    lock_state[p] = Cardinality(Counted(p, "read"))
                      - Cardinality(Counted(p, "write"))

(* A file locked for writing through one process's FileLock is not locked *)
(* at the same time, for reading or writing, through another process's    *)
(* FileLock (the module's promise: "either one can exclusively lock the   *)
(* file for writing or many can lock it for reading").                    *)
CrossProcessExclusion ==
  \A p, q \in Procs :
    (p # q /\ Holding(p, "write") # {})
      => Holding(q, "read") \cup Holding(q, "write") = {}


====
