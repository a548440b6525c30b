-------------------------- MODULE FileReferenceSet --------------------------
(***************************************************************************)
(* The file table of elkodon_cal's shared memory directory                 *)
(* (shared_memory_directory/file_reference_set.rs), used from several      *)
(* threads or processes at once.  An entry is taken from a                 *)
(* FixedSizeUniqueIndexSet, carries a name, a ReferenceCounter and a       *)
(* DecisionCounter, and is released when its last reference goes.  Insert *)
(* decides between two creators of one name by a global decision counter: *)
(* it scans every other entry, and the older decision wins.  The File      *)
(* handles that create, borrow and list hand out each hold one reference;  *)
(* their drop releases it.                                                 *)
(*                                                                         *)
(* Each atomic access is one step.  A decrement that reaches zero and the  *)
(* reset, set_to_undecided and release_raw_index that follow it are one    *)
(* step: no other thread can reach the entry between them.  Entry names    *)
(* and the initializer are written while nobody else can read them.       *)
(*                                                                         *)
(* ReferenceCounter and DecisionCounter are not in the source tree; their *)
(* operators below follow the contract their names and call sites give    *)
(* them, and the README says which choices that contract leaves open.     *)
(***************************************************************************)
EXTENDS Integers, FiniteSetsExt, Bags, BagsExt

CONSTANTS
  Threads,      \* threads (of any process) that use the directory
  Names,        \* file names
  N,            \* MAX_NUMBER_OF_ENTRIES
  MaxInserts,   \* number of create calls (bounds global_decision_counter)
  MaxHeld       \* File handles a thread holds at most

ASSUME N \in Nat \ {0} /\ MaxInserts \in Nat /\ MaxHeld \in Nat \ {0}

Ids == 0..N-1

(* Entry::default()'s name.                                                 *)
Empty == "empty"

(* DecisionCounter::new() and set_to_undecided(): no decision yet.        *)
Undecided == -1

VARIABLES
  free,          \* ids: the indices the FixedSizeUniqueIndexSet holds
  entry,         \* entries[id].name
  count,         \* counter[id]: the references
  persistent,    \* counter[id]: the persistency bit
  initialized,   \* counter[id]: the initialized bit
  removing,      \* counter[id]: the to_be_removed bit
  decision,      \* decision_counter[id]
  gdc,           \* global_decision_counter
  files,         \* files[t]: the bag of entry ids of the Files t holds
  inserts,       \* create calls so far
  pc,            \* pc[t]: where t is in an operation
  op,            \* op[t]: create, open, exists, remove or list
  fname,         \* fname[t]: the name argument
  fpers,         \* fpers[t]: the is_persistent argument of create
  own,           \* own[t]: the id insert acquired
  cur,           \* cur[t]: insert's current_decision_count
  idx            \* idx[t]: the entry a loop is at

shared == <<free, entry, count, persistent, initialized, removing, decision>>
locals == <<op, fname, fpers, own, cur, idx>>
vars == <<shared, gdc, files, inserts, pc, locals>>

Ops == {"none", "create", "open", "exists", "remove", "list"}

PcValues == {"idle", "persist", "inc", "fetch", "set", "scan", "scan_cmp",
             "scan_dec", "finalize", "find", "find_dec", "exist_dec",
             "rm_mark", "rm_dec", "list"}

Init ==
  /\ free = Ids
  /\ entry = [i \in Ids |-> Empty]
  /\ count = [i \in Ids |-> 0]
  /\ persistent = [i \in Ids |-> FALSE]
  /\ initialized = [i \in Ids |-> FALSE]
  /\ removing = [i \in Ids |-> FALSE]
  /\ decision = [i \in Ids |-> Undecided]
  /\ gdc = 0
  /\ files = [t \in Threads |-> EmptyBag]
  /\ inserts = 0
  /\ pc = [t \in Threads |-> "idle"]
  /\ op = [t \in Threads |-> "none"]
  /\ fname = [t \in Threads |-> Empty]
  /\ fpers = [t \in Threads |-> FALSE]
  /\ own = [t \in Threads |-> 0]
  /\ cur = [t \in Threads |-> 0]
  /\ idx = [t \in Threads |-> 0]

-----------------------------------------------------------------------------
(* ReferenceCounter, by its contract.  An entry exists while it has a     *)
(* reference or is persistent.                                            *)
exists(i) == count[i] > 0 \/ persistent[i]

(* increment_ref_counter_when_initialized(): only an initialized entry    *)
(* that is not to be removed.                                              *)
when_initialized(i) == exists(i) /\ initialized[i] /\ ~removing[i]

(* DecisionCounter::does_value_win(v): an undecided counter takes v and   *)
(* v wins; else the older (smaller) decision wins.                        *)
value_wins(i, v) == decision[i] = Undecided \/ v < decision[i]

(* The id of the entry after i in insert's duplicate scan, skipping id.   *)
scan_next(id, i) == IF i + 1 = id THEN i + 2 ELSE i + 1

held(t) == BagCardinality(files[t])

-----------------------------------------------------------------------------
(* FileReferenceSet::decrement_ref_counter(i): decrement; the last        *)
(* reference of an entry that is not persistent resets the counter, sets  *)
(* the decision to undecided and releases the index.                      *)
decrement_ref_counter(i) ==
  IF count[i] = 1 /\ ~persistent[i]
    THEN /\ count' = [count EXCEPT ![i] = 0]
         /\ initialized' = [initialized EXCEPT ![i] = FALSE]
         /\ removing' = [removing EXCEPT ![i] = FALSE]
         /\ decision' = [decision EXCEPT ![i] = Undecided]
         /\ free' = free \cup {i}
         /\ UNCHANGED <<entry, persistent>>
    ELSE /\ count' = [count EXCEPT ![i] = @ - 1]
         /\ UNCHANGED <<free, entry, persistent, initialized, removing,
                        decision>>

-----------------------------------------------------------------------------
(* Mutant forms of the definitions below, each a plausible slip in the     *)
(* code.                                                                   *)
ScanDistinctNoClaim(t) ==
  /\ pc[t] = "scan_cmp"
  /\ entry[idx[t]] # fname[t] \/ value_wins(idx[t], cur[t])
  /\ pc' = [pc EXCEPT ![t] = "scan_dec"]
  /\ UNCHANGED <<shared, gdc, files, inserts, locals>>

FindMatchUninitialized(t) ==
  /\ pc[t] = "find"
  /\ exists(idx[t])
  /\ entry[idx[t]] = fname[t]
  /\ count' = [count EXCEPT ![idx[t]] = @ + 1]
  /\ files' = IF op[t] = "open"
                THEN [files EXCEPT ![t] = BagAdd(@, idx[t])]
                ELSE files
  /\ pc' = [pc EXCEPT ![t] = CASE op[t] = "open"   -> "idle"
                                [] op[t] = "exists" -> "exist_dec"
                                [] op[t] = "remove" -> "rm_mark"]
  /\ UNCHANGED <<free, entry, persistent, initialized, removing, decision,
                 gdc, inserts, locals>>

DropFileKeep(t) ==
  /\ pc[t] = "idle"
  /\ \E i \in BagToSet(files[t]) : decrement_ref_counter(i)
  /\ UNCHANGED <<gdc, files, inserts, pc, locals>>

-----------------------------------------------------------------------------
(* FileCreator::create -> insert(): acquire_raw_index() gives an id, and   *)
(* the entry gets the name.                                               *)
InsertAcquire(t) ==
  /\ pc[t] = "idle"
  /\ inserts < MaxInserts /\ held(t) < MaxHeld
  /\ \E id \in free, n \in Names, p \in BOOLEAN :
       /\ free' = free \ {id}
       /\ entry' = [entry EXCEPT ![id] = n]
       /\ op' = [op EXCEPT ![t] = "create"]
       /\ fname' = [fname EXCEPT ![t] = n]
       /\ fpers' = [fpers EXCEPT ![t] = p]
       /\ own' = [own EXCEPT ![t] = id]
  /\ inserts' = inserts + 1
  /\ pc' = [pc EXCEPT ![t] = "persist"]
  /\ UNCHANGED <<count, persistent, initialized, removing, decision, gdc,
                 files, cur, idx>>

(* insert(): no index left: FileLimitExceeded.                             *)
InsertLimitExceeded(t) ==
  /\ pc[t] = "idle"
  /\ inserts < MaxInserts /\ held(t) < MaxHeld
  /\ free = {}
  /\ inserts' = inserts + 1
  /\ UNCHANGED <<shared, gdc, files, pc, locals>>

(* insert(): set_persistency_bit(is_persistent).                          *)
InsertPersist(t) ==
  /\ pc[t] = "persist"
  /\ persistent' = [persistent EXCEPT ![own[t]] = fpers[t]]
  /\ pc' = [pc EXCEPT ![t] = "inc"]
  /\ UNCHANGED <<free, entry, count, initialized, removing, decision, gdc,
                 files, inserts, locals>>

(* insert(): increment_ref_counter(), the creator's reference.            *)
InsertIncrement(t) ==
  /\ pc[t] = "inc"
  /\ count' = [count EXCEPT ![own[t]] = @ + 1]
  /\ pc' = [pc EXCEPT ![t] = "fetch"]
  /\ UNCHANGED <<free, entry, persistent, initialized, removing, decision,
                 gdc, files, inserts, locals>>

(* insert(): global_decision_counter.fetch_add(1).                        *)
InsertFetchDecision(t) ==
  /\ pc[t] = "fetch"
  /\ cur' = [cur EXCEPT ![t] = gdc]
  /\ gdc' = gdc + 1
  /\ pc' = [pc EXCEPT ![t] = "set"]
  /\ UNCHANGED <<shared, files, inserts, op, fname, fpers, own, idx>>

(* insert(): decision_counter[id].set(current_decision_count) succeeds;    *)
(* the duplicate scan starts.                                             *)
InsertSetDecision(t) ==
  /\ pc[t] = "set"
  /\ decision[own[t]] = Undecided
  /\ decision' = [decision EXCEPT ![own[t]] = cur[t]]
  /\ idx' = [idx EXCEPT ![t] = scan_next(own[t], -1)]
  /\ pc' = [pc EXCEPT ![t] = IF scan_next(own[t], -1) < N THEN "scan"
                                                          ELSE "finalize"]
  /\ UNCHANGED <<free, entry, count, persistent, initialized, removing, gdc,
                 files, inserts, op, fname, fpers, own, cur>>

(* insert(): another insert's scan decided this entry first: DoesExist.   *)
(* The error returns without releasing the id or the reference.           *)
InsertDecisionTaken(t) ==
  /\ pc[t] = "set"
  /\ decision[own[t]] # Undecided
  /\ pc' = [pc EXCEPT ![t] = "idle"]
  /\ UNCHANGED <<shared, gdc, files, inserts, locals>>

(* insert(), scan: increment_ref_counter_when_exist() fails; next entry.  *)
ScanAbsent(t) ==
  /\ pc[t] = "scan"
  /\ ~exists(idx[t])
  /\ idx' = [idx EXCEPT ![t] = scan_next(own[t], @)]
  /\ pc' = [pc EXCEPT ![t] = IF scan_next(own[t], idx[t]) < N THEN "scan"
                                                           ELSE "finalize"]
  /\ UNCHANGED <<shared, gdc, files, inserts, op, fname, fpers, own, cur>>

(* insert(), scan: increment_ref_counter_when_exist() succeeds.           *)
ScanIncrement(t) ==
  /\ pc[t] = "scan"
  /\ exists(idx[t])
  /\ count' = [count EXCEPT ![idx[t]] = @ + 1]
  /\ pc' = [pc EXCEPT ![t] = "scan_cmp"]
  /\ UNCHANGED <<free, entry, persistent, initialized, removing, decision,
                 gdc, files, inserts, locals>>

(* insert(), scan: same name and does_value_win() is false: DoesExist or  *)
(* BeingCreated, as is_initialized() says.  The error returns holding the *)
(* reference just taken, and its own id and reference.                    *)
ScanDuplicate(t) ==
  /\ pc[t] = "scan_cmp"
  /\ entry[idx[t]] = fname[t]
  /\ ~value_wins(idx[t], cur[t])
  /\ pc' = [pc EXCEPT ![t] = "idle"]
  /\ UNCHANGED <<shared, gdc, files, inserts, locals>>

(* insert(), scan: another name, or this insert's decision wins (an       *)
(* undecided counter takes it).                                           *)
ScanDistinct(t) ==
  /\ pc[t] = "scan_cmp"
  /\ entry[idx[t]] # fname[t] \/ value_wins(idx[t], cur[t])
  /\ decision' = IF entry[idx[t]] = fname[t] /\ decision[idx[t]] = Undecided
                   THEN [decision EXCEPT ![idx[t]] = cur[t]]
                   ELSE decision
  /\ pc' = [pc EXCEPT ![t] = "scan_dec"]
  /\ UNCHANGED <<free, entry, count, persistent, initialized, removing, gdc,
                 files, inserts, locals>>

(* insert(), scan: decrement_ref_counter(i); the next entry, or Ok(id).   *)
ScanDecrement(t) ==
  /\ pc[t] = "scan_dec"
  /\ decrement_ref_counter(idx[t])
  /\ idx' = [idx EXCEPT ![t] = scan_next(own[t], @)]
  /\ pc' = [pc EXCEPT ![t] = IF scan_next(own[t], idx[t]) < N THEN "scan"
                                                           ELSE "finalize"]
  /\ UNCHANGED <<gdc, files, inserts, op, fname, fpers, own, cur>>

(* FileCreator::create: the initializer runs, finalize_initialization()   *)
(* sets the initialized bit, and the creator holds the File.              *)
Finalize(t) ==
  /\ pc[t] = "finalize"
  /\ initialized' = [initialized EXCEPT ![own[t]] = TRUE]
  /\ files' = [files EXCEPT ![t] = BagAdd(@, own[t])]
  /\ pc' = [pc EXCEPT ![t] = "idle"]
  /\ UNCHANGED <<free, entry, count, persistent, removing, decision, gdc,
                 inserts, locals>>

(* open_file / does_file_exist / remove_file: find_entry(name) starts at  *)
(* the first entry.                                                        *)
FindStart(t) ==
  /\ pc[t] = "idle"
  /\ \E o \in {"open", "exists", "remove"}, n \in Names :
       /\ o = "open" => held(t) < MaxHeld
       /\ op' = [op EXCEPT ![t] = o]
       /\ fname' = [fname EXCEPT ![t] = n]
  /\ idx' = [idx EXCEPT ![t] = 0]
  /\ pc' = [pc EXCEPT ![t] = "find"]
  /\ UNCHANGED <<shared, gdc, files, inserts, fpers, own, cur>>

(* find_entry: increment_ref_counter_when_initialized() fails; the next   *)
(* entry, or None: borrow gives None, does_exist and to_be_removed false. *)
FindSkip(t) ==
  /\ pc[t] = "find"
  /\ ~when_initialized(idx[t])
  /\ idx' = [idx EXCEPT ![t] = @ + 1]
  /\ pc' = [pc EXCEPT ![t] = IF idx[t] + 1 < N THEN "find" ELSE "idle"]
  /\ UNCHANGED <<shared, gdc, files, inserts, op, fname, fpers, own, cur>>

(* find_entry: the entry is taken and has the name: Some(id).  borrow     *)
(* wraps it into a File; does_exist and to_be_removed go on.              *)
FindMatch(t) ==
  /\ pc[t] = "find"
  /\ when_initialized(idx[t])
  /\ entry[idx[t]] = fname[t]
  /\ count' = [count EXCEPT ![idx[t]] = @ + 1]
  /\ files' = IF op[t] = "open"
                THEN [files EXCEPT ![t] = BagAdd(@, idx[t])]
                ELSE files
  /\ pc' = [pc EXCEPT ![t] = CASE op[t] = "open"   -> "idle"
                                [] op[t] = "exists" -> "exist_dec"
                                [] op[t] = "remove" -> "rm_mark"]
  /\ UNCHANGED <<free, entry, persistent, initialized, removing, decision,
                 gdc, inserts, locals>>

(* find_entry: the entry is taken but has another name.                   *)
FindMiss(t) ==
  /\ pc[t] = "find"
  /\ when_initialized(idx[t])
  /\ entry[idx[t]] # fname[t]
  /\ count' = [count EXCEPT ![idx[t]] = @ + 1]
  /\ pc' = [pc EXCEPT ![t] = "find_dec"]
  /\ UNCHANGED <<free, entry, persistent, initialized, removing, decision,
                 gdc, files, inserts, locals>>

(* find_entry: self.counter[id].decrement_ref_counter(), the counter's    *)
(* own decrement: its result is dropped, so nothing is released; then the *)
(* next entry, or None.                                                    *)
FindDecrement(t) ==
  /\ pc[t] = "find_dec"
  /\ count' = [count EXCEPT ![idx[t]] = @ - 1]
  /\ idx' = [idx EXCEPT ![t] = @ + 1]
  /\ pc' = [pc EXCEPT ![t] = IF idx[t] + 1 < N THEN "find" ELSE "idle"]
  /\ UNCHANGED <<free, entry, persistent, initialized, removing, decision,
                 gdc, files, inserts, op, fname, fpers, own, cur>>

(* does_exist: decrement_ref_counter(id); true.                           *)
ExistsRelease(t) ==
  /\ pc[t] = "exist_dec"
  /\ decrement_ref_counter(idx[t])
  /\ pc' = [pc EXCEPT ![t] = "idle"]
  /\ UNCHANGED <<gdc, files, inserts, locals>>

(* to_be_removed: set_persistency_bit(false) and to_be_removed() on the   *)
(* counter.                                                                *)
RemoveMark(t) ==
  /\ pc[t] = "rm_mark"
  /\ persistent' = [persistent EXCEPT ![idx[t]] = FALSE]
  /\ removing' = [removing EXCEPT ![idx[t]] = TRUE]
  /\ pc' = [pc EXCEPT ![t] = "rm_dec"]
  /\ UNCHANGED <<free, entry, count, initialized, decision, gdc, files,
                 inserts, locals>>

(* to_be_removed: decrement_ref_counter(id); true.                        *)
RemoveRelease(t) ==
  /\ pc[t] = "rm_dec"
  /\ decrement_ref_counter(idx[t])
  /\ pc' = [pc EXCEPT ![t] = "idle"]
  /\ UNCHANGED <<gdc, files, inserts, locals>>

(* list_files -> list(): starts at the first entry.  held(t) = 0 is a     *)
(* bound of the model, not a guard of the code: a list may return all N   *)
(* entries, so a thread lists only with no handles, which bounds held(t). *)
ListStart(t) ==
  /\ pc[t] = "idle"
  /\ held(t) = 0
  /\ op' = [op EXCEPT ![t] = "list"]
  /\ idx' = [idx EXCEPT ![t] = 0]
  /\ pc' = [pc EXCEPT ![t] = "list"]
  /\ UNCHANGED <<shared, gdc, files, inserts, fname, fpers, own, cur>>

(* list(): increment_ref_counter_when_initialized() decides whether the   *)
(* entry joins the list as a File; then the next entry, or the list.      *)
ListStep(t) ==
  /\ pc[t] = "list"
  /\ IF when_initialized(idx[t])
       THEN /\ count' = [count EXCEPT ![idx[t]] = @ + 1]
            /\ files' = [files EXCEPT ![t] = BagAdd(@, idx[t])]
       ELSE UNCHANGED <<count, files>>
  /\ idx' = [idx EXCEPT ![t] = @ + 1]
  /\ pc' = [pc EXCEPT ![t] = IF idx[t] + 1 < N THEN "list" ELSE "idle"]
  /\ UNCHANGED <<free, entry, persistent, initialized, removing, decision,
                 gdc, inserts, op, fname, fpers, own, cur>>

(* Drop of a File: release(id), i.e. decrement_ref_counter(id).           *)
DropFile(t) ==
  /\ pc[t] = "idle"
  /\ \E i \in BagToSet(files[t]) :
       /\ files' = [files EXCEPT ![t] = BagRemove(@, i)]
       /\ decrement_ref_counter(i)
  /\ UNCHANGED <<gdc, inserts, pc, locals>>

Next ==
  \E t \in Threads :
    \/ InsertAcquire(t) \/ InsertLimitExceeded(t) \/ InsertPersist(t)
    \/ InsertIncrement(t) \/ InsertFetchDecision(t) \/ InsertSetDecision(t)
    \/ InsertDecisionTaken(t)
    \/ ScanAbsent(t) \/ ScanIncrement(t) \/ ScanDuplicate(t)
    \/ ScanDistinct(t) \/ ScanDecrement(t) \/ Finalize(t)
    \/ FindStart(t) \/ FindSkip(t) \/ FindMatch(t) \/ FindMiss(t)
    \/ FindDecrement(t) \/ ExistsRelease(t) \/ RemoveMark(t)
    \/ RemoveRelease(t) \/ ListStart(t) \/ ListStep(t) \/ DropFile(t)

Spec == Init /\ [][Next]_vars

(* The state as far as the future can tell: every operation writes the    *)
(* locals it reads before it reads them, so an idle thread's locals are   *)
(* dead.                                                                   *)
live_locals ==
  [t \in Threads |->
     IF pc[t] = "idle" THEN <<>>
     ELSE <<op[t], fname[t], fpers[t], own[t], cur[t], idx[t]>>]

view == <<shared, gdc, files, inserts, pc, live_locals>>

-----------------------------------------------------------------------------
TypeOK ==
  /\ free \subseteq Ids
  /\ entry \in [Ids -> Names \cup {Empty}]
  /\ count \in [Ids -> Nat]
  /\ persistent \in [Ids -> BOOLEAN] /\ initialized \in [Ids -> BOOLEAN]
  /\ removing \in [Ids -> BOOLEAN]
  /\ decision \in [Ids -> {Undecided} \cup 0..MaxInserts]
  /\ \A t \in Threads : IsABag(files[t]) /\ BagToSet(files[t]) \subseteq Ids
  /\ pc \in [Threads -> PcValues] /\ op \in [Threads -> Ops]

(* The number of Files of entry i all threads hold.                        *)
holders(i) == MapThenSumSet(LAMBDA t : CopiesIn(i, files[t]), Threads)

(* Every File a thread holds refers to an entry that is still taken and    *)
(* initialized, and whose counter counts it: no drop, remove, failed       *)
(* lookup or duplicate scan of another thread releases an entry, or lets   *)
(* insert hand its index out again, while a File of it is alive.           *)
HandlesCounted ==
  \A i \in Ids :
    holders(i) > 0 => i \notin free /\ initialized[i] /\ count[i] >= holders(i)

(* Two visible files never share a name: whatever the order in which two   *)
(* inserts of one name take their decision counts and scan each other,    *)
(* at most one of them finishes, while the other's entry is alive.        *)
UniqueNames ==
  \A i, j \in Ids :
    i # j /\ when_initialized(i) /\ when_initialized(j) => entry[i] # entry[j]

(* References operations in progress hold on entry i: the creator's own    *)
(* from its increment on, and the one a scan or a lookup took.            *)
in_flight(i) ==
  MapThenSumSet(
    LAMBDA t :
      (IF op[t] = "create" /\ own[t] = i
          /\ pc[t] \in {"fetch", "set", "scan", "scan_cmp", "scan_dec",
                         "finalize"} THEN 1 ELSE 0)
      + (IF idx[t] = i
            /\ pc[t] \in {"scan_cmp", "scan_dec", "find_dec", "exist_dec",
                           "rm_mark", "rm_dec"} THEN 1 ELSE 0),
    Threads)

(* An entry insert acquired and has not yet counted.                       *)
being_inserted(i) ==
  \E t \in Threads : op[t] = "create" /\ own[t] = i /\ pc[t] \in {"persist", "inc"}

(* No entry leaks: every entry that is taken is counted exactly by the     *)
(* Files and the operations that hold it, and is released once neither   *)
(* holds it and it is not persistent.  A lookup or create that fails,     *)
(* whoever it raced, gives back what it took.                             *)
NoLeakedEntry ==
  \A i \in Ids :
    i \notin free =>
      /\ count[i] = holders(i) + in_flight(i)
      /\ count[i] > 0 \/ persistent[i] \/ being_inserted(i)

====
