---------------------------- MODULE MCContainers ----------------------------
(***************************************************************************)
(* Four elements: two that compare equal, one less and one greater, of     *)
(* which the subcomparator tells apart only the least.                      *)
(***************************************************************************)
EXTENDS Containers

MCKey == <<2, 1, 2, 3>>
MCGroup == <<2, 1, 2, 2>>

=============================================================================
