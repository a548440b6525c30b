----------------------------- MODULE NamedConcept -----------------------------
(***************************************************************************)
(* How a named concept of elkodon_cal turns a name into a file and back    *)
(* (named_concept.rs): path_for() appends the name to the path hint and   *)
(* the suffix to the result; extract_name_from_file() strips the suffix   *)
(* from a file name, gives None when the file does not end with it, and   *)
(* calls fatal_panic when what is left is no valid FileName.  The static   *)
(* storage's list_cfg() (static_storage/file.rs) applies it to every      *)
(* regular file with FINAL_PERMISSIONS in the directory, which by default  *)
(* is the temp directory, shared with other programs.                      *)
(*                                                                         *)
(* Names and paths are sequences of characters.  FileName and Path are not *)
(* in the source tree; their behaviour is taken from their tests          *)
(* (system_types/tests): a FileName is not empty, not "." or "..", and    *)
(* has no '/'; add_path_entry inserts a '/' unless the path is empty or   *)
(* ends with one; an edit that would leave an invalid FileName fails.      *)
(***************************************************************************)
EXTENDS Naturals, SequencesExt

CONSTANTS
  Chars,      \* characters of names (no '/')
  Hint,       \* the configuration's path hint, a sequence of characters
  Suffix,     \* the configuration's suffix, a FileName
  MaxName,    \* longest storage name created
  MaxEntries  \* most files in the directory at once

Slash == "/"
Dot == "."

(* Outcomes of extract_name_from_file(): Some(name), None, fatal_panic.    *)
Some(v) == [res |-> "some", value |-> v]
NoName == [res |-> "none", value |-> <<>>]
Panic == [res |-> "panic", value |-> <<>>]

(* FileName::new accepts the sequence (file_name_tests.rs).               *)
IsFileName(s) ==
  /\ Len(s) >= 1
  /\ s \notin {<<Dot>>, <<Dot, Dot>>}
  /\ Slash \notin ToSet(s)

FileNames(n) == {s \in BoundedSeq(Chars, n) : IsFileName(s)}

(* Names storages are created with.                                      *)
Names == FileNames(MaxName)

(* Files a directory entry may be named: storages and foreign files.       *)
Files == FileNames(MaxName + Len(Suffix))

(* Path::add_path_entry (path_tests.rs).                                   *)
add_path_entry(path, name) ==
  IF path = <<>> \/ Last(path) = Slash THEN path \o name
                                       ELSE path \o <<Slash>> \o name

(* NamedConceptConfiguration::path_for(): hint, entry, suffix.             *)
path_for(value) == add_path_entry(Hint, value) \o Suffix

(* FilePath::file_name(): what follows the last '/'.                       *)
file_name(path) ==
  SubSeq(path, SelectLastInSeq(path, LAMBDA c : c = Slash) + 1, Len(path))

(* FileName::strip_suffix(): Ok(false) and the name unchanged when it does *)
(* not end with suf, Err when the rest is no FileName, Ok(true) and the   *)
(* rest otherwise.                                                         *)
strip_suffix(s, suf) ==
  LET rest == SubSeq(s, 1, Len(s) - Len(suf)) IN
  IF ~IsSuffix(suf, s) THEN [ok |-> TRUE, stripped |-> FALSE, value |-> s]
  ELSE IF IsFileName(rest) THEN [ok |-> TRUE, stripped |-> TRUE, value |-> rest]
  ELSE [ok |-> FALSE, stripped |-> FALSE, value |-> s]

(* An extract that keeps the file name when the suffix is not there.      *)
ExtractNameUnchecked(value) ==
  LET r == strip_suffix(value, Suffix) IN
  IF ~r.ok THEN Panic ELSE Some(r.value)

(* NamedConceptConfiguration::extract_name_from_file().                    *)
extract_name_from_file(value) ==
  LET r == strip_suffix(value, Suffix) IN
  IF ~r.ok THEN Panic ELSE IF ~r.stripped THEN NoName ELSE Some(r.value)

VARIABLES
  entries,  \* regular files of the directory: name, FINAL_PERMISSIONS set
  listed    \* what the last step's list_cfg() did: "returned" its names,
            \* "panicked", or "none" when the step was no list

vars == <<entries, listed>>

Entry(f, final) == [name |-> f, final |-> final]

Present(f) == \E e \in entries : e.name = f

NoList == [kind |-> "none", names |-> {}]

Init == entries = {} /\ listed = NoList

(* create_locked(n): the file path_for(n), created exclusive, not final.  *)
CreateLocked(n) ==
  LET f == file_name(path_for(n)) IN
  /\ ~Present(f) /\ Cardinality(entries) < MaxEntries
  /\ entries' = entries \cup {Entry(f, FALSE)}
  /\ listed' = NoList

(* unlock(): the file of n gets FINAL_PERMISSIONS.                         *)
Unlock(n) ==
  LET f == file_name(path_for(n)) IN
  /\ Entry(f, FALSE) \in entries
  /\ entries' = (entries \ {Entry(f, FALSE)}) \cup {Entry(f, TRUE)}
  /\ listed' = NoList

(* remove_cfg(n): File::remove(path_for(n)).                               *)
RemoveCfg(n) ==
  /\ entries' = {e \in entries : e.name # file_name(path_for(n))}
  /\ listed' = NoList

(* Another program puts a regular file into the directory.                 *)
PlaceForeign(f, final) ==
  /\ ~Present(f) /\ Cardinality(entries) < MaxEntries
  /\ entries' = entries \cup {Entry(f, final)}
  /\ listed' = NoList

(* list_cfg(): every regular file with FINAL_PERMISSIONS goes through     *)
(* extract_name_from_file(); a fatal_panic ends the call.                  *)
ListCfg ==
  LET got == {extract_name_from_file(e.name) : e \in {x \in entries : x.final}}
  IN /\ listed' = IF Panic \in got THEN [kind |-> "panicked", names |-> {}]
                  ELSE [kind |-> "returned",
                        names |-> {x.value : x \in got \ {NoName}}]
     /\ UNCHANGED entries

Next ==
  \/ \E n \in Names : CreateLocked(n) \/ Unlock(n) \/ RemoveCfg(n)
  \/ \E f \in Files, final \in BOOLEAN : PlaceForeign(f, final)
  \/ ListCfg

Spec == Init /\ [][Next]_vars

TypeOK ==
  /\ entries \subseteq [name : Files, final : BOOLEAN]
  /\ listed \in [kind : {"none", "panicked", "returned"}, names : SUBSET Files]

(* list_cfg() returns exactly the names whose path_for() file is in the   *)
(* directory with final permission, so that every listed name opens and   *)
(* every storage created and unlocked is listed, whatever other files the *)
(* shared directory holds (a list that panics returns nothing).           *)
ListMatchesDirectory ==
  listed.kind = "returned" =>
    listed.names = {n \in Files : Entry(file_name(path_for(n)), TRUE) \in entries}

====
