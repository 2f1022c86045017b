---------------------------- MODULE MCLinkedList ----------------------------
(* Small instances of LinkedList for TLC: two payloads compare equal. *)
EXTENDS LinkedList, TLC

CONSTANTS p1, p2, p3
MCPayloads == {p1, p2, p3}
MCKey == p1 :> 1 @@ p2 :> 1 @@ p3 :> 2
=============================================================================
