---------------------------- MODULE MCRedBlackTree ----------------------------
(***************************************************************************)
(* Seven elements in one cell, enough for trees of four levels and for     *)
(* every case of the rebalancing, among them equal ones; and one element   *)
(* in the other cell, for the iterator to go on to.                         *)
(***************************************************************************)
EXTENDS RedBlackTree

MCKey == <<2, 1, 2, 3, 5, 4, 4, 6>>
MCGroup == <<1, 0, 1, 1, 2, 2, 2, 2>>
MCCell == [e \in 1 .. 8 |-> IF e = 8 THEN 1 ELSE 0]

=============================================================================
