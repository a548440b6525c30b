---------------------------- MODULE StaticStorage ----------------------------
(***************************************************************************)
(* The file based static storage of elkodon_cal (static_storage/file.rs):  *)
(* one storage name used by several processes.  A process creates the file *)
(* locked (create_locked), writes it and sets FINAL_PERMISSIONS (unlock),   *)
(* opens it (open), asks does_exist_cfg and list_cfg, releases or acquires *)
(* the ownership of its Storage and drops it; a drop of an owning Storage  *)
(* or Locked removes the file by name (remove_cfg).                        *)
(*                                                                         *)
(* Every create_locked makes a new inode, incarnation g \in 1..MaxGen.  A  *)
(* file descriptor opened on g keeps reaching g after the name is removed  *)
(* or given to a newer inode, and its metadata is g's, so open() and       *)
(* does_exist_cfg(), which open the file and then read its metadata, are  *)
(* two and three steps.  Reading the contents, the length check of read()  *)
(* and the paths and suffixes of the Configuration are left out: the file  *)
(* is written once before its permission becomes final.                    *)
(***************************************************************************)
EXTENDS Naturals

CONSTANTS
  Procs,      \* the processes using the storage name
  MaxGen,     \* number of create_locked() calls that succeed (bounds the model)
  ReaderOwns  \* has_ownership values a Storage that p did not create may hold

ASSUME MaxGen \in Nat /\ ReaderOwns \subseteq BOOLEAN /\ ReaderOwns # {}

VARIABLES
  file,    \* incarnation the storage's file name denotes, 0: none
  final,   \* incarnations whose permission is FINAL_PERMISSIONS
  gen,     \* incarnations created so far
  handle,  \* handle[p]: the Locked or Storage p holds
  pc,      \* pc[p]: step of p's open() or does_exist_cfg() in progress
  fd,      \* fd[p]: incarnation that call opened, 0: none
  want,    \* want[p]: the Builder's has_ownership for p's open()
  answer,  \* answer[p]: what does_exist_cfg() or list_cfg() of p returned in
           \* the last step, "none" for every other process and step
  seen     \* seen[p]: answers an atomic does_exist had during p's call

vars == <<file, final, gen, handle, pc, fd, want, answer, seen>>

Gens == 1..MaxGen

NoHandle == [kind |-> "none", inc |-> 0, own |-> FALSE, creator |-> FALSE]

Handles == [kind : {"none", "locked", "storage"}, inc : 0..MaxGen,
            own : BOOLEAN, creator : BOOLEAN]

ExistsPcs == {"exists_open", "exists_meta"}

Answers == {"none", "false", "true", "set_up", "corrupted", "listed",
            "unlisted"}

(* What does_exist_cfg() answers when no step of another process falls    *)
(* between its file check and its metadata check.                         *)
Atomic == IF file = 0 THEN "false"
          ELSE IF file \in final THEN "true" ELSE "set_up"

Init ==
  /\ file = 0
  /\ final = {}
  /\ gen = 0
  /\ handle = [p \in Procs |-> NoHandle]
  /\ pc = [p \in Procs |-> "idle"]
  /\ fd = [p \in Procs |-> 0]
  /\ want = [p \in Procs |-> FALSE]
  /\ answer = [p \in Procs |-> "none"]
  /\ seen = [p \in Procs |-> {}]

Idle(p) == pc[p] = "idle" /\ handle[p].kind = "none"

(* The last step returned a, from p; Quiet: it returned nothing.           *)
Say(p, a) == answer' = [q \in Procs |-> IF q = p THEN a ELSE "none"]

Quiet == answer' = [q \in Procs |-> "none"]

(* remove_cfg(): File::remove of whatever inode the name denotes; a name  *)
(* that is gone already gives Ok(false).                                   *)
RemoveCfg == file' = 0

(* Drop of a Storage, and of a Locked, which holds one: remove_cfg() when *)
(* it has the ownership.                                                   *)
DropStorage(p) ==
  IF handle[p].own THEN RemoveCfg ELSE UNCHANGED file

(* create_locked(): CreateExclusive with OWNER_ALL; the Locked keeps the   *)
(* Builder's has_ownership.  An existing file gives AlreadyExists and     *)
(* changes nothing.                                                        *)
CreateLocked(p, own) ==
  /\ Idle(p) /\ file = 0 /\ gen < MaxGen
  /\ gen' = gen + 1
  /\ file' = gen + 1
  /\ handle' = [handle EXCEPT ![p] = [kind |-> "locked", inc |-> gen + 1,
                                      own |-> own, creator |-> TRUE]]
  /\ UNCHANGED <<final, pc, fd, want>>
  /\ Quiet

(* unlock(): write the contents, then set FINAL_PERMISSIONS on the inode.  *)
(* A failed write, a short write or a failed set_permission returns the   *)
(* error and drops the Locked.                                             *)
Unlock(p) ==
  /\ pc[p] = "idle" /\ handle[p].kind = "locked"
  /\ \/ /\ final' = final \cup {handle[p].inc}
        /\ handle' = [handle EXCEPT ![p].kind = "storage"]
        /\ UNCHANGED file
     \/ /\ DropStorage(p)
        /\ handle' = [handle EXCEPT ![p] = NoHandle]
        /\ UNCHANGED final
  /\ UNCHANGED <<gen, pc, fd, want>>
  /\ Quiet

(* open(), first step: open_existing() of the name; DoesNotExist when the *)
(* name is free, which changes nothing.                                    *)
OpenExisting(p, own) ==
  /\ Idle(p) /\ file # 0
  /\ pc' = [pc EXCEPT ![p] = "open_meta"]
  /\ fd' = [fd EXCEPT ![p] = file]
  /\ want' = [want EXCEPT ![p] = own]
  /\ UNCHANGED <<file, final, gen, handle>>
  /\ Quiet

(* open(), second step: the metadata of the opened inode; IsLocked unless  *)
(* its permission is final.                                                *)
OpenMetadata(p) ==
  /\ pc[p] = "open_meta"
  /\ handle' = IF fd[p] \in final
                 THEN [handle EXCEPT ![p] = [kind |-> "storage", inc |-> fd[p],
                                             own |-> want[p], creator |-> FALSE]]
                 ELSE handle
  /\ pc' = [pc EXCEPT ![p] = "idle"]
  /\ fd' = [fd EXCEPT ![p] = 0]
  /\ UNCHANGED <<file, final, gen, want>>
  /\ Quiet

(* release_ownership() and acquire_ownership() of a Storage.               *)
ReleaseOwnership(p) ==
  /\ pc[p] = "idle" /\ handle[p].kind = "storage"
  /\ handle' = [handle EXCEPT ![p].own = FALSE]
  /\ UNCHANGED <<file, final, gen, pc, fd, want>>
  /\ Quiet

AcquireOwnership(p) ==
  /\ pc[p] = "idle" /\ handle[p].kind = "storage"
  /\ handle' = [handle EXCEPT ![p].own = TRUE]
  /\ UNCHANGED <<file, final, gen, pc, fd, want>>
  /\ Quiet

(* Dropping a Storage, or a Locked that was never unlocked.                *)
Drop(p) ==
  /\ pc[p] = "idle" /\ handle[p].kind # "none"
  /\ DropStorage(p)
  /\ handle' = [handle EXCEPT ![p] = NoHandle]
  /\ UNCHANGED <<final, gen, pc, fd, want>>
  /\ Quiet

(* does_exist_cfg(), first step: File::does_exist() of the name; a free *)
(* name answers false.                                                     *)
DoesExist(p) ==
  /\ pc[p] = "idle"
  /\ IF file = 0
       THEN /\ Say(p, "false")
            /\ UNCHANGED pc
       ELSE /\ Quiet
            /\ pc' = [pc EXCEPT ![p] = "exists_open"]
  /\ UNCHANGED <<file, final, gen, handle, fd, want>>

(* does_exist_cfg(), second step: open_existing(); a file that cannot be  *)
(* opened is reported as UnderlyingResourcesCorrupted.                    *)
ExistsOpen(p) ==
  /\ pc[p] = "exists_open"
  /\ IF file = 0
       THEN /\ Say(p, "corrupted")
            /\ pc' = [pc EXCEPT ![p] = "idle"]
            /\ UNCHANGED fd
       ELSE /\ fd' = [fd EXCEPT ![p] = file]
            /\ pc' = [pc EXCEPT ![p] = "exists_meta"]
            /\ Quiet
  /\ UNCHANGED <<file, final, gen, handle, want>>

(* A last step that trusts the opened file without its permission.       *)
ExistsMetadataNoPermissionCheck(p) ==
  /\ pc[p] = "exists_meta"
  /\ Say(p, "true")
  /\ pc' = [pc EXCEPT ![p] = "idle"]
  /\ fd' = [fd EXCEPT ![p] = 0]
  /\ UNCHANGED <<file, final, gen, handle, want>>

(* does_exist_cfg(), last step: the metadata of the opened inode; true     *)
(* when its permission is final, UnderlyingResourcesBeingSetUp otherwise.  *)
ExistsMetadata(p) ==
  /\ pc[p] = "exists_meta"
  /\ Say(p, IF fd[p] \in final THEN "true" ELSE "set_up")
  /\ pc' = [pc EXCEPT ![p] = "idle"]
  /\ fd' = [fd EXCEPT ![p] = 0]
  /\ UNCHANGED <<file, final, gen, handle, want>>

(* list_cfg(): the directory's files with FINAL_PERMISSIONS.  Reading the  *)
(* directory and its entries' metadata is one step: the Directory of       *)
(* elkodon_bb_posix is not in the source tree.                             *)
List(p) ==
  /\ pc[p] = "idle"
  /\ Say(p, IF file \in final THEN "listed" ELSE "unlisted")
  /\ UNCHANGED <<file, final, gen, handle, pc, fd, want>>

(* The answers an atomic does_exist_cfg() had in the states a call of p    *)
(* went through, from its file check to its metadata check; kept for the  *)
(* step that returns.                                                      *)
Track ==
  seen' = [q \in Procs |->
             IF pc'[q] \in ExistsPcs
               THEN (IF pc[q] \in ExistsPcs THEN seen[q] ELSE {Atomic})
                      \cup {Atomic'}
               ELSE IF pc[q] \in ExistsPcs THEN seen[q] ELSE {}]

(* The clients' calls.  A process that opened the storage calls          *)
(* acquire_ownership() only when ReaderOwns lets readers own.             *)
Step(p) ==
  \/ \E own \in BOOLEAN : CreateLocked(p, own)
  \/ Unlock(p)
  \/ \E own \in ReaderOwns : OpenExisting(p, own)
  \/ OpenMetadata(p)
  \/ ReleaseOwnership(p)
  \/ (handle[p].creator \/ TRUE \in ReaderOwns) /\ AcquireOwnership(p)
  \/ Drop(p)
  \/ DoesExist(p)
  \/ ExistsOpen(p)
  \/ ExistsMetadata(p)
  \/ List(p)

Next == \E p \in Procs : Step(p) /\ Track

Spec == Init /\ [][Next]_vars

TypeOK ==
  /\ file \in 0..MaxGen
  /\ final \subseteq Gens
  /\ gen \in 0..MaxGen
  /\ handle \in [Procs -> Handles]
  /\ pc \in [Procs -> {"idle", "open_meta"} \cup ExistsPcs]
  /\ fd \in [Procs -> 0..MaxGen]
  /\ want \in [Procs -> BOOLEAN]
  /\ answer \in [Procs -> Answers]
  /\ seen \in [Procs -> SUBSET {"false", "true", "set_up"}]

(* does_exist_cfg() answers true only if the name denoted a storage with   *)
(* final permission at some moment of the call, and BeingSetUp only if it  *)
(* denoted a locked one: an inode opened before a remove and unlocked or   *)
(* read after it must not make an answer nobody could have seen.          *)
DoesExistAnswersHeld ==
  \A p \in Procs :
    pc[p] = "idle" /\ answer[p] \in {"true", "set_up"} => answer[p] \in seen[p]

====
