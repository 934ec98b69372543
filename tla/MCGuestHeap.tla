------------------------------- MODULE MCGuestHeap -------------------------------
(* Instances of GuestHeap for TLC. *)
EXTENDS GuestHeap

Node(n) == [size |-> n, slots |-> 1, array |-> FALSE]
LongArray == [size |-> ArenaBytes + 8, slots |-> 1, array |-> TRUE]

MCTypes == {Node(136), LongArray}
================================================================================
