------------------------------ MODULE FdtStatus ------------------------------
(***************************************************************************)
(* disable_not_required_devices of uboot_drivers.c: in its own copy of the *)
(* device tree the library sets the status of every node, so that U-Boot   *)
(* starts drivers for no other devices than those asked for.               *)
(*                                                                          *)
(* The copy is flat: a row of cells that begin a node, hold a property or  *)
(* end a node, and room to grow.  A node is known by its offset alone, and *)
(* a property that is added or grows moves all that lies behind it while   *)
(* the tree is being walked.  What libfdt does for the code is external.   *)
(***************************************************************************)
EXTENDS Integers, Sequences, FiniteSets

CONSTANTS
    Trees,          \* device trees that a client may have
    Paths,          \* what it may ask for: the paths of devices, each the
                    \* name of a node or of none; "/" is the root
    Room            \* words by which the copy is larger than its original

ASSUME RoomAssumption == Room \in Nat

Begin(name)   == [is |-> "begin", what |-> name]
Status(value) == [is |-> "status", what |-> value]
Property      == [is |-> "property", what |-> "other"]
End           == [is |-> "end", what |-> ""]

-----------------------------------------------------------------------------
(* libfdt.  A blob is its cells, the words it may still grow by and        *)
(* whether every call on it has succeeded so far; NotFound stands for any  *)
(* of the negative results.                                                *)

NotFound == -1

Words(cell) ==
    CASE cell.is = "begin"    -> 2
      [] cell.is = "property" -> 4
      [] cell.is = "status"   -> IF cell.what = "disabled" THEN 6 ELSE 5
      [] cell.is = "end"      -> 1

Offset(blob, i) ==
    LET upTo[j \in Nat] == IF j = 0 THEN 0 ELSE upTo[j - 1] + Words(blob.cells[j])
    IN  upTo[i - 1]

Begins(blob) == {i \in DOMAIN blob.cells : blob.cells[i].is = "begin"}

Least(S) == CHOOSE x \in S : \A y \in S : x <= y

(* Where the node that begins at cell i ends.                              *)
Close(blob, i) ==
    LET count(is, j) == Cardinality({k \in i .. j : blob.cells[k].is = is})
    IN  Least({j \in i .. Len(blob.cells) : count("begin", j) = count("end", j)})

At(blob, offset) == {i \in Begins(blob) : Offset(blob, i) = offset}

OffsetOfAny(blob, S) == IF S = {} THEN NotFound ELSE Offset(blob, Least(S))

(* The cell before which the node's own properties end.                    *)
PropertiesEnd(blob, i) ==
    Least({j \in i + 1 .. Len(blob.cells) : blob.cells[j].is \in {"begin", "end"}})

PathOffset(blob, name) ==
    OffsetOfAny(blob, {i \in Begins(blob) : blob.cells[i].what = name})

FirstSubnode(blob, offset) ==
    OffsetOfAny(blob, Begins(blob) \cap {PropertiesEnd(blob, i) : i \in At(blob, offset)})

NextSubnode(blob, offset) ==
    OffsetOfAny(blob, Begins(blob) \cap {Close(blob, i) + 1 : i \in At(blob, offset)})

(* Of the nodes around this one the innermost.                             *)
ParentOffset(blob, offset) ==
    LET around == {j \in Begins(blob) : \E i \in At(blob, offset) :
                                            j < i /\ i < Close(blob, j)}
        inner(j) == Cardinality({k \in around : k > j})
    IN  OffsetOfAny(blob, {j \in around : inner(j) = 0})

(* fdt_setprop_string: a property the node has is replaced where it is, a  *)
(* new one becomes its first.                                              *)
SetStatus(blob, offset, value) ==
    LET i     == Least(At(blob, offset))
        has   == {j \in i .. PropertiesEnd(blob, i) : blob.cells[j].is = "status"}
        j     == IF has = {} THEN i + 1 ELSE Least(has)
        later == IF has = {} THEN j ELSE j + 1
        grows == Words(Status(value)) -
                 (IF has = {} THEN 0 ELSE Words(blob.cells[j]))
    IN  IF At(blob, offset) = {} \/ grows > blob.room
        THEN [blob EXCEPT !.ok = FALSE]
        ELSE [blob EXCEPT
                !.room  = @ - grows,
                !.cells = SubSeq(@, 1, j - 1) \o <<Status(value)>>
                              \o SubSeq(@, later, Len(@))]

-----------------------------------------------------------------------------
(* uboot_drivers.c                                                         *)

Cells == [is : {"begin", "status", "property", "end"}, what : STRING]
Blobs == [cells : Seq(Cells), room : Nat, ok : BOOLEAN]

SetParentStatus[blob \in Blobs, node \in Int, status \in STRING] ==
    LET set    == SetStatus(blob, node, status)
        parent == ParentOffset(set, node)
    IN  IF set.ok /\ parent >= 0 THEN SetParentStatus[set, parent, status] ELSE set

(* set_all_child_status for a node and, when it is one of those that       *)
(* fdt_for_each_subnode goes through, for each after it.                   *)
SetAllChildStatus[blob \in Blobs, node \in Int, status \in STRING, each \in BOOLEAN] ==
    LET set  == SetStatus(blob, node, status)
        done == SetAllChildStatus[set, FirstSubnode(set, node), status, TRUE]
    IN  IF ~blob.ok \/ (each /\ node < 0) THEN blob
        ELSE IF ~set.ok THEN set
        ELSE IF each THEN SetAllChildStatus[done, NextSubnode(done, node), status, TRUE]
        ELSE done

DisableAll(blob) == SetAllChildStatus[blob, PathOffset(blob, "/"), "disabled", FALSE]

(* Mutant: the path is looked up once.                                     *)
EnableAtOnce(blob, path) ==
    LET at    == PathOffset(blob, path)
        above == SetParentStatus[blob, at, "okay"]
    IN  SetAllChildStatus[above, at, "okay", FALSE]

Enable(blob, path) ==
    LET above == SetParentStatus[blob, PathOffset(blob, path), "okay"]
    IN  SetAllChildStatus[above, PathOffset(above, path), "okay", FALSE]

DisableNotRequiredDevices(blob, paths) ==
    LET enabled[n \in 0 .. Len(paths)] ==
            IF n = 0 THEN DisableAll(blob)
            ELSE IF ~enabled[n - 1].ok THEN enabled[n - 1]
            ELSE Enable(enabled[n - 1], paths[n])
    IN  enabled[Len(paths)]

Copied(tree) == [cells |-> tree, room |-> Room, ok |-> TRUE]

(* What becomes of every tree, whatever is asked for.                      *)
Pruned ==
    {[tree  |-> tree, paths |-> paths,
      after |-> DisableNotRequiredDevices(Copied(tree), paths)] :
        tree \in Trees, paths \in Paths}

-----------------------------------------------------------------------------
(* What is promised of it, in terms of the tree alone.                     *)

Nodes(blob) == {blob.cells[i].what : i \in Begins(blob)}

(* A node, those within it and those around it.                            *)
Kin(blob, name) ==
    LET of      == CHOOSE i \in Begins(blob) : blob.cells[i].what = name
        within(i, j) == j <= i /\ i < Close(blob, j)
    IN  {blob.cells[i].what : i \in {i \in Begins(blob) : within(i, of) \/ within(of, i)}}

StatusOf(blob, name) ==
    LET of == CHOOSE i \in Begins(blob) : blob.cells[i].what = name
    IN  {blob.cells[j].what : j \in {j \in of .. PropertiesEnd(blob, of) :
                                            blob.cells[j].is = "status"}}

(* The cells that are no status, each with its place among them.           *)
WithoutStatus(blob) ==
    LET kept == {i \in DOMAIN blob.cells : blob.cells[i].is # "status"}
    IN  {<<Cardinality(kept \cap 1 .. i), blob.cells[i]>> : i \in kept}

Statuses(blob) == Len(blob.cells) - Cardinality(WithoutStatus(blob))

(* The words needed for every node to be disabled.                         *)
Growth(blob) ==
    6 * Cardinality(Begins(blob))
        - 5 * Statuses(blob)
        - Cardinality({i \in DOMAIN blob.cells : blob.cells[i] = Status("disabled")})

RightlyPruned(r) ==
    LET before   == Copied(r.tree)
        after    == r.after
        asked    == {r.paths[i] : i \in DOMAIN r.paths}
        required == UNION {Kin(before, name) : name \in asked}
    IN  /\ after.ok <=> asked \subseteq Nodes(before) /\ Growth(before) <= Room
        /\ after.ok =>
            /\ WithoutStatus(after) = WithoutStatus(before)
            /\ Statuses(after) = Cardinality(Nodes(before))
            /\ \A name \in Nodes(before) :
                    StatusOf(after, name) = {IF name \in required THEN "okay" ELSE "disabled"}

=============================================================================
