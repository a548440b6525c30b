------------------------- MODULE MCFileReferenceSet -------------------------
(***************************************************************************)
(* Two threads over a table of two entries with two names.  Three creates *)
(* fill the table and let a third find no index; two creates of one name  *)
(* race, while the other thread's lookups, lists, removes and drops pass  *)
(* through both entries.  A thread opens or creates a File only while it *)
(* holds none; a list may hand it both.  Threads and names are symmetric: *)
(* no definition tells two of them apart.                                 *)
(***************************************************************************)
EXTENDS FileReferenceSet, TLC

CONSTANTS t1, t2, a, b

MCThreads == {t1, t2}

MCNames == {a, b}

Symmetry == Permutations(MCThreads) \cup Permutations(MCNames)

====
