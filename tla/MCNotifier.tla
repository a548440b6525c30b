------------------------------ MODULE MCNotifier ------------------------------
EXTENDS Notifier, TLC

CONSTANTS l1, l2, l3

MCListenerIds == {l1, l2, l3}
MCCapacity == 2

(* Listener ids are interchangeable model values.                          *)
Symmetry == Permutations(MCListenerIds)
=============================================================================
