----------------------------- MODULE MCSubscriber -----------------------------
(* Two publishers over two registry slots: the second can take the slot   *)
(* the first left, or the other one.  Constants are given in the cfg.     *)
EXTENDS Subscriber, TLC

CONSTANTS p1, p2

MCPublisherIds == {p1, p2}

====
