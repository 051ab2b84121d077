--------------------------- MODULE DeliveryQueue ---------------------------
(***************************************************************************)
(* What a queue with manual acknowledgement promises, whichever consumers  *)
(* come and go: an item stays pending until it is handled, and one that    *)
(* was handled without being acknowledged may be handled again.            *)
(***************************************************************************)
CONSTANT Item

VARIABLES pending, done

Init == pending = Item /\ done = {}

Handle(i) ==
    /\ i \in pending
    /\ done' = done \cup {i}
    /\ pending' \in {pending, pending \ {i}}

Next == \E i \in Item : Handle(i)

Spec == Init /\ [][Next]_<<pending, done>>
=============================================================================
