------------------------------ MODULE MCSel4Dma ------------------------------
(***************************************************************************)
(* Instances of Sel4Dma: a table of two slots over a pool of three lines.  *)
(***************************************************************************)
EXTENDS Sel4Dma, TLC

ThreeLines == 10 .. 12

FourLines == 10 .. 13

(* One buffer of two lines.                                                *)
WideBuffer == {[start |-> 20, size |-> 2]}

(* A buffer of two lines, and another beside it.                           *)
TwoBuffers == {[start |-> 20, size |-> 2], [start |-> 22, size |-> 1]}

(* A buffer and its first line.                                            *)
NestedBuffers == {[start |-> 20, size |-> 2], [start |-> 20, size |-> 1]}

(* What a line holds is only ever copied and compared.                     *)
ValuesAlike == Permutations(Values)
=============================================================================
