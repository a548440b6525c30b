---------------------------- MODULE BoundedFifo ----------------------------
(***************************************************************************)
(* What a single-producer single-consumer index queue promises to its two *)
(* users: push appends a value when fewer than Capacity values are queued *)
(* and is refused otherwise, pop hands out the oldest queued value.  Every *)
(* value handed out is recorded in "delivered", so a refinement checks    *)
(* both the order and the absence of loss, duplication and fabrication.   *)
(* A push refused because the queue is full is recorded in "refused".     *)
(***************************************************************************)
EXTENDS Naturals, Sequences

CONSTANTS Capacity, Values

VARIABLES queue, delivered, refused

vars == <<queue, delivered, refused>>

Init ==
  /\ queue = <<>>
  /\ delivered = <<>>
  /\ refused = <<>>

Push(v) ==
  /\ Len(queue) < Capacity
  /\ queue' = Append(queue, v)
  /\ UNCHANGED <<delivered, refused>>

Refuse(v) ==
  /\ Len(queue) = Capacity
  /\ refused' = Append(refused, v)
  /\ UNCHANGED <<queue, delivered>>

Pop ==
  /\ queue # <<>>
  /\ queue' = Tail(queue)
  /\ delivered' = Append(delivered, Head(queue))
  /\ UNCHANGED refused

Next == (\E v \in Values : Push(v) \/ Refuse(v)) \/ Pop

(* A consumer that keeps polling eventually takes every queued value.     *)
Spec == Init /\ [][Next]_vars /\ WF_vars(Pop)

=============================================================================
