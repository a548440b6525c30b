--------------------------- MODULE OverflowingFifo ---------------------------
(***************************************************************************)
(* What the safely overflowing SPSC index queue promises.  A push always   *)
(* enters its value.  When it finds the queue full it then tries to evict  *)
(* the oldest value and hand it back to the producer; the try is void when *)
(* the consumer has meanwhile taken a value, so the queue holds at most    *)
(* Capacity values except between a full push and its eviction try, when   *)
(* it holds Capacity + 1.  Whether a push is full is judged before its     *)
(* value enters, so a push that finds room by then may still make a void  *)
(* eviction try.  Every value leaves exactly once, to the consumer        *)
(* ("delivered") or back to the producer ("evicted"), oldest first.        *)
(***************************************************************************)
EXTENDS Naturals, Sequences

CONSTANTS Capacity, Values

VARIABLES queue, delivered, evicted, evicting

vars == <<queue, delivered, evicted, evicting>>

Init ==
  /\ queue = <<>>
  /\ delivered = <<>>
  /\ evicted = <<>>
  /\ evicting = FALSE

Push(v) ==
  /\ ~evicting
  /\ Len(queue) <= Capacity
  /\ queue' = Append(queue, v)
  /\ evicting' \in IF Len(queue) = Capacity THEN {TRUE} ELSE BOOLEAN
  /\ UNCHANGED <<delivered, evicted>>

(* The eviction try of a full push: only an overfull queue loses a value. *)
Evict ==
  /\ evicting
  /\ evicting' = FALSE
  /\ IF Len(queue) = Capacity + 1
       THEN /\ queue' = Tail(queue)
            /\ evicted' = Append(evicted, Head(queue))
       ELSE UNCHANGED <<queue, evicted>>
  /\ UNCHANGED delivered

Pop ==
  /\ queue # <<>>
  /\ queue' = Tail(queue)
  /\ delivered' = Append(delivered, Head(queue))
  /\ UNCHANGED <<evicted, evicting>>

Next == (\E v \in Values : Push(v)) \/ Evict \/ Pop

Spec == Init /\ [][Next]_vars /\ WF_vars(Pop) /\ WF_vars(Evict)

=============================================================================
