----------------------- MODULE SharedMemoryDirectory -----------------------
(***************************************************************************)
(* SharedMemoryDirectory of elkodon_cal (shared_memory_directory/mod.rs):  *)
(* a named directory made of two shared memory segments, the management   *)
(* segment "<name>.dm", which holds the FileReferenceSet, and the data    *)
(* segment "<name>.dd".  create() creates the management segment, writes  *)
(* a default FileReferenceSet into it, creates the data segment and, when *)
(* persistent, releases the ownership of both.  open() opens the data     *)
(* segment and then the management segment.  Dropping a directory drops   *)
(* its fields in declaration order: the management segment, then the data *)
(* segment; a segment its process owns is removed on drop.  does_exist()  *)
(* and remove() look at the data segment and then at the management one.  *)
(*                                                                         *)
(* The segments are taken by the contract of SharedMemory (not part of    *)
(* this source tree): create fails when the name exists, open fails when  *)
(* it does not, removal is by name, and a process keeps what it mapped    *)
(* after the name is removed.  Every successful create of a segment makes *)
(* a new incarnation, numbered by the create() call that made it, so the  *)
(* model can tell two segments of one name apart.                         *)
(***************************************************************************)
EXTENDS Naturals

CONSTANTS
  Procs,     \* processes using the directory of one name
  MaxGen     \* number of create() calls that get as far as a segment

Absent == 0  \* a segment name with no segment behind it

VARIABLES
  mgmt,      \* the incarnation behind "<name>.dm", or Absent
  dd,        \* the incarnation behind "<name>.dd", or Absent
  ready,     \* incarnations whose FileReferenceSet has been written
  gen,       \* create() calls that created a management segment so far
  kept,      \* ghost: incarnations created persistent
  pc,        \* pc[p]: where p is (PcValues)
  mapped,    \* mapped[p]: [m, d], the incarnations p has mapped, or Absent
  owns,      \* owns[p]: [m, d], the segments p's handles own
  pers       \* pers[p]: is_persistent of p's create()

vars == <<mgmt, dd, ready, gen, kept, pc, mapped, owns, pers>>

PcValues == {"idle", "write_set", "create_data", "holding", "drop_data",
             "open_mgmt", "exists_mgmt", "remove_mgmt"}

NoMap == [m |-> Absent, d |-> Absent]
NoOwn == [m |-> FALSE, d |-> FALSE]

Init ==
  /\ mgmt = Absent
  /\ dd = Absent
  /\ ready = {}
  /\ gen = 0
  /\ kept = {}
  /\ pc = [p \in Procs |-> "idle"]
  /\ mapped = [p \in Procs |-> NoMap]
  /\ owns = [p \in Procs |-> NoOwn]
  /\ pers = [p \in Procs |-> FALSE]

(* remove(): the contract of the unsafe function: no other process uses   *)
(* the directory.                                                          *)
Unused(p) == \A q \in Procs \ {p} : pc[q] = "idle"

-----------------------------------------------------------------------------
(* Mutant forms of the definitions below, each a plausible slip in the     *)
(* code.                                                                   *)
CreateDataExistsLeaking(p) ==
  /\ pc[p] = "create_data"
  /\ dd # Absent
  /\ pc' = [pc EXCEPT ![p] = "idle"]
  /\ mapped' = [mapped EXCEPT ![p] = NoMap]
  /\ owns' = [owns EXCEPT ![p] = NoOwn]
  /\ UNCHANGED <<mgmt, dd, ready, gen, kept, pers>>

-----------------------------------------------------------------------------
(* create(): MgmtShm::Builder..create(): the name is free: a new segment, *)
(* owned by p.                                                             *)
CreateMgmt(p) ==
  /\ pc[p] = "idle"
  /\ mgmt = Absent
  /\ gen < MaxGen
  /\ gen' = gen + 1
  /\ mgmt' = gen + 1
  /\ \E b \in BOOLEAN : pers' = [pers EXCEPT ![p] = b]
  /\ mapped' = [mapped EXCEPT ![p] = [m |-> gen + 1, d |-> Absent]]
  /\ owns' = [owns EXCEPT ![p] = [m |-> TRUE, d |-> FALSE]]
  /\ pc' = [pc EXCEPT ![p] = "write_set"]
  /\ UNCHANGED <<dd, ready, kept>>

(* create(): the management segment exists: Err.                           *)
CreateMgmtExists(p) ==
  /\ pc[p] = "idle"
  /\ mgmt # Absent
  /\ UNCHANGED vars

(* create(): files.write(FileReferenceSet::default()) in p's mapping.      *)
WriteSet(p) ==
  /\ pc[p] = "write_set"
  /\ ready' = ready \cup {mapped[p].m}
  /\ pc' = [pc EXCEPT ![p] = "create_data"]
  /\ UNCHANGED <<mgmt, dd, gen, kept, mapped, owns, pers>>

(* create(): DataShm::Builder..create() succeeds; a persistent directory   *)
(* releases the ownership of both segments; Ok(directory).                 *)
CreateData(p) ==
  /\ pc[p] = "create_data"
  /\ dd = Absent
  /\ dd' = mapped[p].m
  /\ mapped' = [mapped EXCEPT ![p].d = mapped[p].m]
  /\ owns' = [owns EXCEPT ![p] = [m |-> ~pers[p], d |-> ~pers[p]]]
  /\ kept' = IF pers[p] THEN kept \cup {mapped[p].m} ELSE kept
  /\ pc' = [pc EXCEPT ![p] = "holding"]
  /\ UNCHANGED <<mgmt, ready, gen, pers>>

(* create(): the data segment exists: Err; the management segment p owns   *)
(* is dropped, which removes the name "<name>.dm".                         *)
CreateDataExists(p) ==
  /\ pc[p] = "create_data"
  /\ dd # Absent
  /\ mgmt' = Absent
  /\ pc' = [pc EXCEPT ![p] = "idle"]
  /\ mapped' = [mapped EXCEPT ![p] = NoMap]
  /\ owns' = [owns EXCEPT ![p] = NoOwn]
  /\ UNCHANGED <<dd, ready, gen, kept, pers>>

(* Drop of the directory: _mgmt_shm first, removed if p owns it ...        *)
DropMgmt(p) ==
  /\ pc[p] = "holding"
  /\ mgmt' = IF owns[p].m THEN Absent ELSE mgmt
  /\ pc' = [pc EXCEPT ![p] = "drop_data"]
  /\ UNCHANGED <<dd, ready, gen, kept, mapped, owns, pers>>

(* ... then data_shm, removed if p owns it.                                *)
DropData(p) ==
  /\ pc[p] = "drop_data"
  /\ dd' = IF owns[p].d THEN Absent ELSE dd
  /\ pc' = [pc EXCEPT ![p] = "idle"]
  /\ mapped' = [mapped EXCEPT ![p] = NoMap]
  /\ owns' = [owns EXCEPT ![p] = NoOwn]
  /\ UNCHANGED <<mgmt, ready, gen, kept, pers>>

(* open(): DataShm::Builder..open() maps the data segment ...              *)
OpenData(p) ==
  /\ pc[p] = "idle"
  /\ dd # Absent
  /\ mapped' = [mapped EXCEPT ![p] = [m |-> Absent, d |-> dd]]
  /\ pc' = [pc EXCEPT ![p] = "open_mgmt"]
  /\ UNCHANGED <<mgmt, dd, ready, gen, kept, owns, pers>>

(* open(): no data segment: Err.                                           *)
OpenDataAbsent(p) ==
  /\ pc[p] = "idle"
  /\ dd = Absent
  /\ UNCHANGED vars

(* ... then MgmtShm::Builder..open() maps the management segment, and the  *)
(* FileReferenceSet is taken at its aligned start: Ok(directory).          *)
OpenMgmt(p) ==
  /\ pc[p] = "open_mgmt"
  /\ mgmt # Absent
  /\ mapped' = [mapped EXCEPT ![p].m = mgmt]
  /\ pc' = [pc EXCEPT ![p] = "holding"]
  /\ UNCHANGED <<mgmt, dd, ready, gen, kept, owns, pers>>

(* open(): no management segment: Err; the data segment is unmapped.       *)
OpenMgmtAbsent(p) ==
  /\ pc[p] = "open_mgmt"
  /\ mgmt = Absent
  /\ mapped' = [mapped EXCEPT ![p] = NoMap]
  /\ pc' = [pc EXCEPT ![p] = "idle"]
  /\ UNCHANGED <<mgmt, dd, ready, gen, kept, owns, pers>>

(* does_exist(): the data segment exists: ask for the management one; if  *)
(* it does not, Ok(false) at once (a stutter).                             *)
ExistsData(p) ==
  /\ pc[p] = "idle"
  /\ pc' = [pc EXCEPT ![p] = IF dd # Absent THEN "exists_mgmt" ELSE "idle"]
  /\ UNCHANGED <<mgmt, dd, ready, gen, kept, mapped, owns, pers>>

(* does_exist(): Ok(whether the management segment exists).                *)
ExistsMgmt(p) ==
  /\ pc[p] = "exists_mgmt"
  /\ pc' = [pc EXCEPT ![p] = "idle"]
  /\ UNCHANGED <<mgmt, dd, ready, gen, kept, mapped, owns, pers>>

(* remove(): DataShm::remove_cfg: a data segment was there and is gone;   *)
(* none was there: Ok(false) at once.                                      *)
RemoveData(p) ==
  /\ pc[p] = "idle"
  /\ Unused(p)
  /\ dd' = Absent
  /\ pc' = [pc EXCEPT ![p] = IF dd # Absent THEN "remove_mgmt" ELSE "idle"]
  /\ UNCHANGED <<mgmt, ready, gen, kept, mapped, owns, pers>>

(* remove(): MgmtShm::remove_cfg: Ok(whether it was there).                *)
RemoveMgmt(p) ==
  /\ pc[p] = "remove_mgmt"
  /\ mgmt' = Absent
  /\ pc' = [pc EXCEPT ![p] = "idle"]
  /\ UNCHANGED <<dd, ready, gen, kept, mapped, owns, pers>>

Next ==
  \E p \in Procs :
    \/ CreateMgmt(p) \/ CreateMgmtExists(p) \/ WriteSet(p) \/ CreateData(p)
    \/ CreateDataExists(p) \/ DropMgmt(p) \/ DropData(p)
    \/ OpenData(p) \/ OpenDataAbsent(p) \/ OpenMgmt(p) \/ OpenMgmtAbsent(p)
    \/ ExistsData(p) \/ ExistsMgmt(p) \/ RemoveData(p) \/ RemoveMgmt(p)

Spec == Init /\ [][Next]_vars

-----------------------------------------------------------------------------
Gens == 0..MaxGen

TypeOK ==
  /\ mgmt \in Gens /\ dd \in Gens
  /\ ready \subseteq Gens /\ kept \subseteq Gens /\ gen \in Gens
  /\ pc \in [Procs -> PcValues]
  /\ mapped \in [Procs -> [m : Gens, d : Gens]]
  /\ owns \in [Procs -> [m : BOOLEAN, d : BOOLEAN]]
  /\ pers \in [Procs -> BOOLEAN]

(* No stale segments (spec.md 8, property 8: create, drop, create on one   *)
(* name succeeds): whenever no process is inside create(), open(),         *)
(* remove() or holds a directory, every segment left under the name        *)
(* belongs to a directory created persistent, whatever order the creates,  *)
(* drops, failed creates and removes of several processes took.            *)
NoStaleSegments ==
  (\A p \in Procs : pc[p] = "idle") =>
     /\ mgmt # Absent => mgmt \in kept
     /\ dd # Absent => dd \in kept

(* A directory that open() returns is one directory: its data segment and *)
(* its management segment (whose FileReferenceSet gives the offsets into   *)
(* that data segment) were made by the same create().                      *)
OpenPairsOneIncarnation ==
  \A p \in Procs : pc[p] = "holding" => mapped[p].m = mapped[p].d

====
