--------------------------- MODULE ServiceLifecycle ---------------------------
(***************************************************************************)
(* The lifecycle of one service name, shared by several processes: its     *)
(* static config, a file created locked (elkodon_cal static_storage/file,  *)
(* create_locked, unlock, open, read, remove_cfg), and its dynamic config, *)
(* a shared memory object holding the reference counter of                 *)
(* elkodon service/dynamic_config (increment_reference_counter,            *)
(* decrement_reference_counter).  The service builder that drives them     *)
(* (create, open, drop) and the dynamic storage are not in the source tree *)
(* and follow spec.md section 4.3.                                         *)
(*                                                                         *)
(* Every creation of the static file starts an incarnation g \in Gens; the *)
(* file's inode and the dynamic segment created for it carry g.  A file or *)
(* segment that is removed by name stays readable through a handle opened *)
(* before, so contents, permissions and counters are kept per incarnation, *)
(* and "sname"/"dname" say which incarnation the names denote (0: none).   *)
(***************************************************************************)
EXTENDS Naturals, Integers, FiniteSets

CONSTANTS
  Procs,   \* the processes using the service
  MaxGen   \* number of incarnations that can exist at once (bounds the model)

ASSUME MaxGen \in Nat \ {0}

VARIABLES
  sname,      \* incarnation the static config file name denotes, 0: none
  perm,       \* perm[g]: permission of incarnation g's file
  contents,   \* contents[g]: "none", "full" (written by unlock)
  dname,      \* incarnation the dynamic config name denotes, 0: none
  rc,         \* rc[g]: reference_counter of incarnation g's dynamic config
  pc,         \* pc[p]: where process p is
  sgen,       \* sgen[p]: incarnation of the static file p created or opened
  dgen,       \* dgen[p]: incarnation of the dynamic config p created or opened
  cur,        \* cur[p]: current_value of p's CAS loop
  cfg         \* cfg[p]: contents of the static config p read

vars == <<sname, perm, contents, dname, rc, pc, sgen, dgen, cur, cfg>>

Gens == 1..MaxGen

(* MARKED_FOR_DESTRUCTION is u64::MAX - 1; -1 stands for it, since no     *)
(* counter of the model comes near it.                                     *)
MARKED_FOR_DESTRUCTION == -1

OWNER_ALL == "owner_all"
FINAL_PERMISSIONS == "owner_read"

(* Processes that own a reference on the dynamic config dgen[p].           *)
(* A creator that aborts still owns the reference new_uninit gave it.    *)
OwnerPcs == {"c_write", "c_commit", "holding", "d_cas", "c_abort_static",
             "c_abort_dyn"}

Owners(g) == {p \in Procs : dgen[p] = g /\ pc[p] \in OwnerPcs}

Init ==
  /\ sname = 0
  /\ perm = [g \in Gens |-> OWNER_ALL]
  /\ contents = [g \in Gens |-> "none"]
  /\ dname = 0
  /\ rc = [g \in Gens |-> 0]
  /\ pc = [p \in Procs |-> "idle"]
  /\ sgen = [p \in Procs |-> 0]
  /\ dgen = [p \in Procs |-> 0]
  /\ cur = [p \in Procs |-> 0]
  /\ cfg = [p \in Procs |-> "none"]

(* Incarnations no name and no process refers to any more: a new file or *)
(* segment may take one.                                                   *)
FreeGens == {g \in Gens : /\ g \notin {sname, dname}
                          /\ \A q \in Procs : g \notin {sgen[q], dgen[q]}}

(* Back to idle: p's handles are dropped.                                  *)
Leave(p) ==
  /\ pc' = [pc EXCEPT ![p] = "idle"]
  /\ sgen' = [sgen EXCEPT ![p] = 0]
  /\ dgen' = [dgen EXCEPT ![p] = 0]
  /\ cur' = [cur EXCEPT ![p] = 0]
  /\ cfg' = [cfg EXCEPT ![p] = "none"]

-----------------------------------------------------------------------------
(* Mutant forms of the definitions below, each a plausible slip in the     *)
(* code.                                                                   *)
DecrementWithoutSentinel(value) == value - 1
OpenWhileLocked(g) == TRUE
DecStore(p) ==
  /\ pc[p] = "d_cas"
  /\ rc' = [rc EXCEPT ![dgen[p]] = IF cur[p] = 1 THEN MARKED_FOR_DESTRUCTION
                                                ELSE cur[p] - 1]
  /\ pc' = [pc EXCEPT ![p] = IF cur[p] = 1 THEN "d_rm_static" ELSE "idle"]
  /\ UNCHANGED <<sname, perm, contents, dname, sgen, dgen, cur, cfg>>

AbortKeepStatic(p) ==
  /\ pc[p] = "c_abort_static"
  /\ IF dgen[p] # 0
       THEN /\ pc' = [pc EXCEPT ![p] = "c_abort_dyn"]
            /\ UNCHANGED <<sgen, dgen, cur, cfg>>
       ELSE Leave(p)
  /\ UNCHANGED <<sname, perm, contents, dname, rc>>

-----------------------------------------------------------------------------
(* decrement_reference_counter(): the value the CAS stores; the last owner *)
(* stores the sentinel instead of 0.                                       *)
Decremented(value) == IF value = 1 THEN MARKED_FOR_DESTRUCTION ELSE value - 1

(* open(): metadata().permission() == FINAL_PERMISSIONS, else IsLocked.    *)
IsUnlocked(g) == perm[g] = FINAL_PERMISSIONS

(* create_locked(): CreateExclusive with OWNER_ALL; AlreadyExists (no      *)
(* change) when the name is taken.                                         *)
CreateLocked(p) ==
  /\ pc[p] = "idle"
  /\ sname = 0
  /\ \E g \in FreeGens :
       /\ sname' = g
       /\ perm' = [perm EXCEPT ![g] = OWNER_ALL]
       /\ contents' = [contents EXCEPT ![g] = "none"]
       /\ rc' = [rc EXCEPT ![g] = 0]
       /\ sgen' = [sgen EXCEPT ![p] = g]
  /\ pc' = [pc EXCEPT ![p] = "c_dyn"]
  /\ UNCHANGED <<dname, dgen, cur, cfg>>

(* Service create: create the dynamic config (new_uninit: counter 1).     *)
CreateDynamic(p) ==
  /\ pc[p] = "c_dyn"
  /\ dname = 0
  /\ dname' = sgen[p]
  /\ rc' = [rc EXCEPT ![sgen[p]] = 1]
  /\ dgen' = [dgen EXCEPT ![p] = sgen[p]]
  /\ pc' = [pc EXCEPT ![p] = "c_write"]
  /\ UNCHANGED <<sname, perm, contents, sgen, cur, cfg>>

(* Service create: the dynamic config exists already; remove the static.  *)
CreateDynamicFails(p) ==
  /\ pc[p] = "c_dyn"
  /\ dname # 0
  /\ pc' = [pc EXCEPT ![p] = "c_abort_static"]
  /\ UNCHANGED <<sname, perm, contents, dname, rc, sgen, dgen, cur,
                 cfg>>

(* unlock(): file.write(contents).                                         *)
UnlockWrite(p) ==
  /\ pc[p] = "c_write"
  /\ contents' = [contents EXCEPT ![sgen[p]] = "full"]
  /\ pc' = [pc EXCEPT ![p] = "c_commit"]
  /\ UNCHANGED <<sname, perm, dname, rc, sgen, dgen, cur, cfg>>

(* unlock(): set_permission(FINAL_PERMISSIONS), the commit point.          *)
UnlockCommit(p) ==
  /\ pc[p] = "c_commit"
  /\ perm' = [perm EXCEPT ![sgen[p]] = FINAL_PERMISSIONS]
  /\ cfg' = [cfg EXCEPT ![p] = contents[sgen[p]]]
  /\ pc' = [pc EXCEPT ![p] = "holding"]
  /\ UNCHANGED <<sname, contents, dname, rc, sgen, dgen, cur>>

(* unlock(): the write or set_permission fails (NoSpaceLeft, ...).         *)
UnlockFails(p) ==
  /\ pc[p] \in {"c_write", "c_commit"}
  /\ pc' = [pc EXCEPT ![p] = "c_abort_static"]
  /\ UNCHANGED <<sname, perm, contents, dname, rc, sgen, dgen, cur,
                 cfg>>

(* Drop of the owning Locked storage: remove_cfg() removes the file by     *)
(* name; then the dynamic config is removed if this create made one.       *)
AbortRemoveStatic(p) ==
  /\ pc[p] = "c_abort_static"
  /\ sname' = 0
  /\ IF dgen[p] # 0
       THEN /\ pc' = [pc EXCEPT ![p] = "c_abort_dyn"]
            /\ UNCHANGED <<sgen, dgen, cur, cfg>>
       ELSE Leave(p)
  /\ UNCHANGED <<perm, contents, dname, rc>>

AbortRemoveDynamic(p) ==
  /\ pc[p] = "c_abort_dyn"
  /\ dname' = 0
  /\ Leave(p)
  /\ UNCHANGED <<sname, perm, contents, rc>>

(* open(): open_existing succeeds and the file is unlocked.  DoesNotExist  *)
(* and IsLocked leave everything unchanged.                                *)
OpenStatic(p) ==
  /\ pc[p] = "idle"
  /\ sname # 0
  /\ IsUnlocked(sname)
  /\ sgen' = [sgen EXCEPT ![p] = sname]
  /\ pc' = [pc EXCEPT ![p] = "o_read"]
  /\ UNCHANGED <<sname, perm, contents, dname, rc, dgen, cur, cfg>>

(* read(): the contents of the opened file.                                *)
OpenRead(p) ==
  /\ pc[p] = "o_read"
  /\ cfg' = [cfg EXCEPT ![p] = contents[sgen[p]]]
  /\ pc' = [pc EXCEPT ![p] = "o_dyn"]
  /\ UNCHANGED <<sname, perm, contents, dname, rc, sgen, dgen, cur>>

(* Service open: map the dynamic config and load reference_counter.       *)
OpenDynamic(p) ==
  /\ pc[p] = "o_dyn"
  /\ dname # 0
  /\ dgen' = [dgen EXCEPT ![p] = dname]
  /\ cur' = [cur EXCEPT ![p] = rc[dname]]
  /\ pc' = [pc EXCEPT ![p] = "o_cas"]
  /\ UNCHANGED <<sname, perm, contents, dname, rc, sgen, cfg>>

OpenDynamicFails(p) ==
  /\ pc[p] = "o_dyn"
  /\ dname = 0
  /\ Leave(p)
  /\ UNCHANGED <<sname, perm, contents, dname, rc>>

(* increment_reference_counter(): the counter is marked for destruction:   *)
(* fail; the service open gives up this attempt and may start again.      *)
IncFail(p) ==
  /\ pc[p] = "o_cas"
  /\ cur[p] = MARKED_FOR_DESTRUCTION
  /\ Leave(p)
  /\ UNCHANGED <<sname, perm, contents, dname, rc>>

(* increment_reference_counter(): compare_exchange(current, current + 1). *)
IncCAS(p) ==
  /\ pc[p] = "o_cas"
  /\ cur[p] # MARKED_FOR_DESTRUCTION
  /\ rc[dgen[p]] = cur[p]
  /\ rc' = [rc EXCEPT ![dgen[p]] = cur[p] + 1]
  /\ pc' = [pc EXCEPT ![p] = "holding"]
  /\ UNCHANGED <<sname, perm, contents, dname, sgen, dgen, cur, cfg>>

(* increment_reference_counter(): the CAS fails, current_value = v.       *)
IncRetry(p) ==
  /\ pc[p] = "o_cas"
  /\ cur[p] # MARKED_FOR_DESTRUCTION
  /\ rc[dgen[p]] # cur[p]
  /\ cur' = [cur EXCEPT ![p] = rc[dgen[p]]]
  /\ UNCHANGED <<sname, perm, contents, dname, rc, pc, sgen, dgen,
                 cfg>>

(* Service drop: decrement_reference_counter() loads the counter.         *)
DecLoad(p) ==
  /\ pc[p] = "holding"
  /\ cur' = [cur EXCEPT ![p] = rc[dgen[p]]]
  /\ pc' = [pc EXCEPT ![p] = "d_cas"]
  /\ UNCHANGED <<sname, perm, contents, dname, rc, sgen, dgen, cfg>>

(* decrement_reference_counter(): the CAS succeeds; NoMoreOwners goes on  *)
(* to remove the service, HasOwners returns.                               *)
DecCAS(p) ==
  /\ pc[p] = "d_cas"
  /\ rc[dgen[p]] = cur[p]
  /\ rc' = [rc EXCEPT ![dgen[p]] = Decremented(cur[p])]
  /\ IF cur[p] = 1
       THEN /\ pc' = [pc EXCEPT ![p] = "d_rm_static"]
            /\ UNCHANGED <<sgen, dgen, cur, cfg>>
       ELSE Leave(p)
  /\ UNCHANGED <<sname, perm, contents, dname>>

(* decrement_reference_counter(): the CAS fails, current_value = v.       *)
DecRetry(p) ==
  /\ pc[p] = "d_cas"
  /\ rc[dgen[p]] # cur[p]
  /\ cur' = [cur EXCEPT ![p] = rc[dgen[p]]]
  /\ UNCHANGED <<sname, perm, contents, dname, rc, pc, sgen, dgen,
                 cfg>>

(* Service drop, last owner: remove_cfg() of the static config by name.   *)
RemoveStatic(p) ==
  /\ pc[p] = "d_rm_static"
  /\ sname' = 0
  /\ pc' = [pc EXCEPT ![p] = "d_rm_dyn"]
  /\ UNCHANGED <<perm, contents, dname, rc, sgen, dgen, cur, cfg>>

(* Service drop, last owner: remove the dynamic config by name.           *)
RemoveDynamic(p) ==
  /\ pc[p] = "d_rm_dyn"
  /\ dname' = 0
  /\ Leave(p)
  /\ UNCHANGED <<sname, perm, contents, rc>>

Create(p) == CreateLocked(p) \/ CreateDynamic(p) \/ CreateDynamicFails(p)
               \/ UnlockWrite(p) \/ UnlockCommit(p) \/ UnlockFails(p)
               \/ AbortRemoveStatic(p) \/ AbortRemoveDynamic(p)
Open(p) == OpenStatic(p) \/ OpenRead(p) \/ OpenDynamic(p)
             \/ OpenDynamicFails(p) \/ IncFail(p) \/ IncCAS(p) \/ IncRetry(p)
Drop(p) == DecLoad(p) \/ DecCAS(p) \/ DecRetry(p) \/ RemoveStatic(p)
             \/ RemoveDynamic(p)

Next == \E p \in Procs : Create(p) \/ Open(p) \/ Drop(p)

(* Processes are scheduled by the OS and none of these steps blocks: a    *)
(* process that has begun a create, open or drop keeps taking steps.  An   *)
(* idle process need not start anything, and a holder need not drop.      *)
Busy(p) == pc[p] \notin {"idle", "holding"}

Fairness == \A p \in Procs : WF_vars(Busy(p) /\ (Create(p) \/ Open(p) \/ Drop(p)))

Spec == Init /\ [][Next]_vars /\ Fairness

-----------------------------------------------------------------------------
Pcs == {"idle", "c_dyn", "c_write", "c_commit", "c_abort_static",
        "c_abort_dyn", "o_read", "o_dyn", "o_cas", "holding", "d_cas",
        "d_rm_static", "d_rm_dyn"}

TypeOK ==
  /\ sname \in 0..MaxGen
  /\ perm \in [Gens -> {OWNER_ALL, FINAL_PERMISSIONS}]
  /\ contents \in [Gens -> {"none", "full"}]
  /\ dname \in 0..MaxGen
  /\ rc \in [Gens -> {MARKED_FOR_DESTRUCTION} \cup 0..Cardinality(Procs)]
  /\ pc \in [Procs -> Pcs]
  /\ sgen \in [Procs -> 0..MaxGen]
  /\ dgen \in [Procs -> 0..MaxGen]
  /\ cur \in [Procs -> {MARKED_FOR_DESTRUCTION} \cup 0..Cardinality(Procs)]
  /\ cfg \in [Procs -> {"none", "full"}]

(* The reference counter of the dynamic config the name denotes counts     *)
(* exactly the processes owning a reference to it, and it is marked for    *)
(* destruction only when nobody owns one: the CAS loops of concurrent      *)
(* increment_reference_counter and decrement_reference_counter calls lose  *)
(* no update, and no opener slips in after the 1 -> sentinel step.         *)
RefCountExact ==
  \A g \in Gens : dname = g =>
    IF rc[g] = MARKED_FOR_DESTRUCTION THEN Owners(g) = {}
                                      ELSE rc[g] = Cardinality(Owners(g))

(* The process that got NoMoreOwners from decrement_reference_counter and  *)
(* removes the service never does so while another process holds that     *)
(* same dynamic config (spec.md 8.3: no use after destruction).           *)
ExclusiveTeardown ==
  \A p, q \in Procs :
    (pc[p] \in {"d_rm_static", "d_rm_dyn"} /\ pc[q] \in OwnerPcs)
      => dgen[q] # dgen[p]

(* Every process that holds the service read a completely written static  *)
(* config: open() only passes a file whose permission unlock() set after   *)
(* writing the contents (spec.md 8.4).                                    *)
ConfigComplete ==
  \A p \in Procs : pc[p] \in {"o_dyn", "o_cas", "holding"} => cfg[p] = "full"

(* A static config file left locked is eventually removed or unlocked, so  *)
(* an opener that gets IsLocked is not locked out for good: create's       *)
(* unlock and the failure path of its owning storage always finish.        *)
LockedIsTransient ==
  \A g \in Gens : (sname = g /\ perm[g] = OWNER_ALL)
                    ~> (sname # g \/ perm[g] = FINAL_PERMISSIONS)

====
