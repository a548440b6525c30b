--------------------------- MODULE MCCrossProcess ---------------------------
(***************************************************************************)
(* Resources that processes share by name, checked in one run; each       *)
(* behaviour exercises one of them, chosen by part, while the others stay  *)
(* in their initial states:                                                *)
(*  - the lifecycle of one service name (static config file and dynamic    *)
(*    config reference counter), used by three processes; three           *)
(*    incarnations let the name be torn down and created again while old   *)
(*    handles are still open;                                              *)
(*  - the FileLock of elkodon_bb_posix, locked by two processes with two   *)
(*    threads each;                                                        *)
(*  - the SharedMemoryDirectory of elkodon_cal, created, opened, dropped,  *)
(*    queried and removed by three processes; two create() calls get as    *)
(*    far as a management segment, so a directory is created, dropped or  *)
(*    removed, and created again.                                          *)
(***************************************************************************)
EXTENDS TLC

CONSTANTS pA, pB, pC

VARIABLES
  part,   \* the resource this behaviour exercises
  sname, perm, contents, dname, rc, sl_pc, sgen, dgen, cur, cfg,
  readers, writer, fcntl, lock_state, fl_pc, loaded, kind, mode,
  mgmt, dd, ready, gen, kept, sd_pc, mapped, owns, pers

S == INSTANCE ServiceLifecycle WITH Procs <- {pA, pB, pC}, MaxGen <- 3,
                                    pc <- sl_pc

F == INSTANCE FileLock WITH Procs <- {pA, pB}, Threads <- {1, 2}, pc <- fl_pc

D == INSTANCE SharedMemoryDirectory WITH Procs <- {pA, pB, pC}, MaxGen <- 2,
                                         pc <- sd_pc

s_vars == <<sname, perm, contents, dname, rc, sl_pc, sgen, dgen, cur, cfg>>
f_vars == <<readers, writer, fcntl, lock_state, fl_pc, loaded, kind, mode>>
d_vars == <<mgmt, dd, ready, gen, kept, sd_pc, mapped, owns, pers>>

Parts == {"service", "file_lock", "directory"}

Init == part \in Parts /\ S!Init /\ F!Init /\ D!Init

Next ==
  \/ part = "service" /\ S!Next /\ UNCHANGED <<part, f_vars, d_vars>>
  \/ part = "file_lock" /\ F!Next /\ UNCHANGED <<part, s_vars, d_vars>>
  \/ part = "directory" /\ D!Next /\ UNCHANGED <<part, s_vars, f_vars>>

(* The service's processes run on; the lock and the directory are checked  *)
(* for safety only and need no fairness.                                   *)
Spec ==
  /\ Init /\ [][Next]_<<part, s_vars, f_vars, d_vars>>
  /\ part = "service" => S!Fairness

(* pA and pB play the same part in all three resources, and no property    *)
(* names a process.                                                        *)
Symmetry == Permutations({pA, pB})

TypeOK == part \in Parts /\ S!TypeOK /\ F!TypeOK /\ D!TypeOK

(* Service: the reference counter of the dynamic config the name denotes   *)
(* counts exactly the processes owning a reference, and is marked for      *)
(* destruction only when nobody owns one.                                  *)
RefCountExact == S!RefCountExact

(* Service: the process removing the service after NoMoreOwners never does *)
(* so while another process holds that same dynamic config.               *)
ExclusiveTeardown == S!ExclusiveTeardown

(* Service: every process holding the service read a completely written    *)
(* static config.                                                          *)
ConfigComplete == S!ConfigComplete

(* Service: a static config file left locked by a creator is eventually    *)
(* unlocked or removed.                                                    *)
LockedIsTransient == S!LockedIsTransient

(* FileLock: each process's lock_state equals the read guards minus the    *)
(* write guards its threads hold, whatever order the threads' lock and     *)
(* unlock steps interleave in.                                             *)
LockStateCountsGuards == F!LockStateCountsGuards

NoStaleSegments == D!NoStaleSegments

====
