--------------------------- MODULE MCUbootLibrary ---------------------------
(***************************************************************************)
(* Instances of UbootLibrary over the device trees of FdtStatus: every     *)
(* tree of four nodes, each without a status, enabled or disabled.         *)
(***************************************************************************)
EXTENDS UbootLibrary, FdtStatus

Names == <<"/", "a", "b", "c">>

(* How deep each node lies: no deeper than one below the node before it.   *)
Depths == {d \in [1 .. 4 -> 0 .. 3] :
              d[1] = 0 /\ \A i \in 2 .. 4 : d[i] \in 1 .. d[i - 1] + 1}

Ends(n) == [i \in 1 .. n |-> End]

(* Node i, and the ends of nodes that lie before the next one.             *)
NodeCells(i, d, status) ==
    <<Begin(Names[i])>>
        \o (IF i \in {1, 3} THEN <<Property>> ELSE <<>>)
        \o (IF status = "none" THEN <<>> ELSE <<Status(status)>>)
        \o Ends(IF i = 4 THEN d[4] + 1 ELSE d[i] + 1 - d[i + 1])

FourNodes ==
    {NodeCells(1, d, s[1]) \o NodeCells(2, d, s[2]) \o NodeCells(3, d, s[3]) \o NodeCells(4, d, s[4]) :
        d \in Depths, s \in [1 .. 4 -> {"none", "okay", "disabled"}]}

(* One or two devices, of which one may be missing.                        *)
Requests == {<<p>> : p \in {"/", "a", "b", "c", "missing"}}
                \cup {<<"a", "c">>, <<"c", "a">>, <<"b", "missing">>, <<"missing", "a">>}

PruningResults == {r.after.ok : r \in Pruned}

AllRightlyPruned == \A r \in Pruned : RightlyPruned(r)

(* Whatever the shape of the client's device tree, the status its nodes    *)
(* have and the devices asked for, preparing the copy succeeds exactly if  *)
(* every device is there and the extra room is enough; then each node has  *)
(* one status, "okay" for a device asked for, the nodes it lies in and     *)
(* those within it and "disabled" for the others, and nothing else in the  *)
(* tree has changed, though every write moved the nodes behind it.         *)
OnlyRequiredEnabled ==
    pc = "open" => AllRightlyPruned

=============================================================================
