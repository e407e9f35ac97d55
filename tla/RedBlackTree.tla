---------------------------- MODULE RedBlackTree ----------------------------
(***************************************************************************)
(* The red-black trees of sglib.h, and its hashed container with such a    *)
(* tree in each cell.  The elements are the caller's: an element is its    *)
(* address, and elements that compare equal are ordered by it.  Memory     *)
(* holds the two sons of every element and the red ones; a function on     *)
(* trees takes memory and the root and returns both.                       *)
(*                                                                          *)
(* The code asserts that some cases cannot arise.  Here they match no arm  *)
(* of a CASE, which is an error of the run.                                *)
(***************************************************************************)
EXTENDS Integers, Sequences, FiniteSets, TLC

CONSTANTS
    Elems,          \* addresses of elements
    Key,            \* what the comparator compares, for each element
    Group,          \* what the subcomparator compares
    CellOf          \* the hash function modulo the table's size

NULL == 0
Sides == {"left", "right"}
Cells == {CellOf[e] : e \in Elems}

ASSUME ElemsAssumption == Elems \subseteq Nat \ {NULL}
ASSUME KeysAssumption ==
    \A e, f \in Elems :
        /\ Key[e] = Key[f] => CellOf[e] = CellOf[f]
        /\ Key[e] <= Key[f] => Group[e] <= Group[f]
ASSUME CellsAssumption == Cells = 0 .. Cardinality(Cells) - 1

VARIABLES
    mem,            \* kid: the sons of each element; red: the red elements
    table,          \* the root in each cell
    call,           \* the last call with its arguments; <<>> for an iterator's
    result,         \* what it returned
    it,             \* the caller's iterator
    trip            \* history: due, what the iterator should return, and
                    \* seen, what it has returned

vars == <<mem, table, call, result, it, trip>>

-----------------------------------------------------------------------------
(* Memory.                                                                  *)

Other(s) == IF s = "left" THEN "right" ELSE "left"

Kid(m, p, s) == m.kid[p][s]

Link(m, p, s, q) == [m EXCEPT !.kid[p][s] = q]

Paint(m, reds, blacks) ==
    [m EXCEPT !.red = (@ \cup (reds \ {NULL})) \ blacks]

(* a is made a son of b and b the top, or c the top with b and a as its    *)
(* sons; s is the side of a on which it was too deep, or the other not     *)
(* deep enough.                                                             *)
Rotate(m, a, b, s) ==
    Link(Link(m, a, s, Kid(m, b, Other(s))), b, Other(s), a)

RotateTwice(m, a, b, c, s) ==
    LET split == Link(Link(m, b, Other(s), Kid(m, c, s)),
                      a, s, Kid(m, c, Other(s)))
    IN Link(Link(split, c, s, b), c, Other(s), a)

(* The order of elements, strict.                                           *)
Precedes(e, f) == Key[e] < Key[f] \/ (Key[e] = Key[f] /\ e < f)

SideOf(e, t) == IF Precedes(e, t) THEN "left" ELSE "right"

-----------------------------------------------------------------------------
(* Insertion.                                                               *)

(* The black t has got an element on side s; its son there and a son of    *)
(* that one may both be red.                                                *)
FixInsertion(m, t, s) ==
    LET b == Kid(m, t, s)
        uncle == Kid(m, t, Other(s))
        outer == Kid(m, b, s)
        inner == Kid(m, b, Other(s))
    IN CASE b \notin m.red \/ {outer, inner} \cap m.red = {} ->
              [mem |-> m, top |-> t]
         [] b \in m.red /\ uncle \in m.red /\ {outer, inner} \cap m.red # {} ->
              [mem |-> Paint(m, {t}, {b, uncle}), top |-> t]
         [] b \in m.red /\ uncle \notin m.red /\ outer \in m.red ->
              [mem |-> Paint(Rotate(m, t, b, s), {t}, {b}), top |-> b]
         [] b \in m.red /\ uncle \notin m.red /\ outer \notin m.red
            /\ inner \in m.red ->
              [mem |-> Paint(RotateTwice(m, t, b, inner, s), {t}, {inner}),
               top |-> inner]

RECURSIVE AddRecursive(_, _, _)
AddRecursive(m, t, e) ==
    IF t = NULL
    THEN [mem |-> Paint(m, {e}, {}), top |-> e]
    ELSE LET s == SideOf(e, t)
             below == AddRecursive(m, Kid(m, t, s), e)
             linked == Link(below.mem, t, s, below.top)
         IN IF t \in m.red
            THEN [mem |-> linked, top |-> t]
            ELSE FixInsertion(linked, t, s)

TreeAdd(m, t, e) ==
    LET cleared == Link(Link(m, e, "left", NULL), e, "right", NULL)
        added == AddRecursive(cleared, t, e)
    IN [mem |-> Paint(added.mem, {}, {added.top}), top |-> added.top]

-----------------------------------------------------------------------------
(* Deletion.  `less` tells the caller that the tree's depth has decreased. *)

Fixed(m, top) == [mem |-> m, top |-> top, less |-> FALSE]

(* The cases in which the sibling b of what was deleted is red.             *)
FixBelowRed(m, a, b, o) ==
    LET s == Other(o)
        c == Kid(m, b, s)
        near == Kid(m, c, o)
        far  == Kid(m, c, s)
        turned == Rotate(m, a, b, o)
    IN CASE c = NULL ->
              Fixed(Paint(turned, {}, {b}), b)
         [] c # NULL /\ c \notin m.red /\ {near, far} \cap m.red = {} ->
              Fixed(Paint(turned, {c}, {b}), b)
         [] c # NULL /\ c \notin m.red /\ far \in m.red ->
              LET d == far
                  lower == Link(Link(m, c, s, Kid(m, d, o)), a, o, Kid(m, d, s))
              IN Fixed(Paint(Link(Link(lower, d, o, b), d, s, a), {}, {d}), d)
         [] c # NULL /\ c \notin m.red /\ near \in m.red /\ far \notin m.red ->
              Fixed(Paint(RotateTwice(m, a, b, c, o), {}, {near}), c)

(* Mutant: the top of a rotation stays black whatever it replaces.          *)
FixBelowBlackUncoloured(m, a, b, o) ==
    LET inner == Kid(m, b, Other(o))
    IN IF {Kid(m, b, o), inner} \cap m.red = {}
       THEN [mem |-> Paint(m, {b}, {a}), top |-> a, less |-> a \notin m.red]
       ELSE IF inner \notin m.red
       THEN Fixed(Paint(Rotate(m, a, b, o), {}, {a, Kid(m, b, o)}), b)
       ELSE Fixed(Paint(RotateTwice(m, a, b, inner, o), {}, {a, inner}), inner)

(* The cases in which it is black.                                          *)
FixBelowBlack(m, a, b, o) ==
    LET s == Other(o)
        outer == Kid(m, b, o)
        inner == Kid(m, b, s)
        Inherit(x) == IF a \in m.red THEN {x} ELSE {}
    IN CASE {outer, inner} \cap m.red = {} ->
              [mem |-> Paint(m, {b}, {a}), top |-> a, less |-> a \notin m.red]
         [] outer \in m.red /\ inner \notin m.red ->
              Fixed(Paint(Paint(Rotate(m, a, b, o), Inherit(b), {}), {}, {a, outer}), b)
         [] inner \in m.red ->
              Fixed(Paint(Paint(RotateTwice(m, a, b, inner, o), {}, {a, inner}),
                          Inherit(inner), {}), inner)

(* The tree on side s of a has lost a level.                                *)
FixDeletion(m, a, s) ==
    LET b == Kid(m, a, Other(s))
    IN CASE b = NULL /\ a \in m.red -> Fixed(Paint(m, {}, {a}), a)
         [] b # NULL /\ b \in m.red -> FixBelowRed(m, a, b, Other(s))
         [] b # NULL /\ b \notin m.red -> FixBelowBlack(m, a, b, Other(s))

FixIfLess(m, t, s, less) ==
    IF less THEN FixDeletion(m, t, s) ELSE Fixed(m, t)

(* t is unlinked and its only son, if it has one, takes its place, black.   *)
Spliced(m, t, son) ==
    [mem |-> Paint(m, {}, {son}), top |-> son,
     less |-> t \notin m.red /\ son \notin m.red]

RECURSIVE DeleteRightmostLeaf(_, _)
DeleteRightmostLeaf(m, t) ==
    IF Kid(m, t, "right") = NULL
    THEN Spliced(m, t, Kid(m, t, "left")) @@ [leaf |-> t]
    ELSE LET below == DeleteRightmostLeaf(m, Kid(m, t, "right"))
             linked == Link(below.mem, t, "right", below.top)
         IN FixIfLess(linked, t, "right", below.less) @@ [leaf |-> below.leaf]

(* The root e of a tree is deleted: the rightmost leaf on its left takes   *)
(* its place and its colour.                                                *)
DeleteRoot(m, e) ==
    IF Kid(m, e, "left") = NULL
    THEN Spliced(m, e, Kid(m, e, "right"))
    ELSE LET below == DeleteRightmostLeaf(m, Kid(m, e, "left"))
             leaf == below.leaf
             moved == Link(Link(below.mem, leaf, "left", below.top),
                           leaf, "right", Kid(m, e, "right"))
             painted == IF e \in m.red THEN Paint(moved, {leaf}, {})
                                       ELSE Paint(moved, {}, {leaf})
         IN FixIfLess(painted, leaf, "left", below.less)

RECURSIVE DeleteRecursive(_, _, _)
DeleteRecursive(m, t, e) ==
    CASE e = t -> DeleteRoot(m, e)
      [] t # NULL /\ e # t ->
           LET s == SideOf(e, t)
               below == DeleteRecursive(m, Kid(m, t, s), e)
           IN FixIfLess(Link(below.mem, t, s, below.top), t, s, below.less)

TreeDelete(m, t, e) ==
    LET deleted == DeleteRecursive(m, t, e)
    IN [mem |-> Paint(deleted.mem, {}, {deleted.top}), top |-> deleted.top]

-----------------------------------------------------------------------------
(* Searches.                                                                *)

(* The first element met that compares equal to e, by key or by group.     *)
RECURSIVE TreeFind(_, _, _, _)
TreeFind(m, t, e, compare) ==
    CASE t = NULL -> NULL
      [] t # NULL /\ compare[e] < compare[t] ->
           TreeFind(m, Kid(m, t, "left"), e, compare)
      [] t # NULL /\ compare[e] > compare[t] ->
           TreeFind(m, Kid(m, t, "right"), e, compare)
      [] t # NULL /\ compare[e] = compare[t] -> t

(* Mutant: equal elements are searched on the right, whatever their address. *)
RECURSIVE TreeHasRight(_, _, _)
TreeHasRight(m, t, e) ==
    /\ t # NULL
    /\ \/ t = e
       \/ TreeHasRight(m, Kid(m, t, IF Key[e] < Key[t] THEN "left" ELSE "right"), e)

RECURSIVE TreeHas(_, _, _)
TreeHas(m, t, e) ==
    /\ t # NULL
    /\ t = e \/ TreeHas(m, Kid(m, t, SideOf(e, t)), e)

-----------------------------------------------------------------------------
(* What the caller frees, or takes back, is no more in memory.              *)
Destroyed(m, e) ==
    [kid |-> [m.kid EXCEPT ![e] = [s \in Sides |-> NULL]], red |-> m.red \ {e}]

(* The traversal without recursion.  It keeps the path to the current      *)
(* element, the right son of each element on it, taken before the element  *)
(* is passed on, and how often each has been come back to.  If `destroys`   *)
(* the command frees the element it is given, and memory loses it.          *)

(* On the way up, the element on the path is given to the command.          *)
CommandDue(t, i, order) ==
    \/ order = 1 /\ t.pass[i] = 0
    \/ order = 2 /\ (t.pass[i] = 1 \/ t.right[i] = NULL)

Given(t, e, destroys) ==
    [t EXCEPT !.out = Append(@, e),
              !.mem = IF destroys THEN Destroyed(@, e) ELSE @]

RECURSIVE PushDown(_, _, _, _)
PushDown(t, cn, order, destroys) ==
    IF cn = NULL THEN t
    ELSE LET pushed == [t EXCEPT !.path = Append(@, cn),
                                 !.right = Append(@, Kid(t.mem, cn, "right")),
                                 !.pass = Append(@, 0)]
         IN PushDown(IF order = 0 THEN Given(pushed, cn, destroys) ELSE pushed,
                     Kid(t.mem, cn, "left"), order, destroys)

(* Up to the nearest element with a right son to go to, or to the root.     *)
RECURSIVE ClimbUp(_, _, _, _)
ClimbUp(t, i, order, destroys) ==
    LET passed == [(IF CommandDue(t, i, order) THEN Given(t, t.path[i], destroys) ELSE t)
                      EXCEPT !.pass[i] = @ + 1]
    IN IF i > 1 /\ t.right[i] = NULL
       THEN ClimbUp(passed, i - 1, order, destroys)
       ELSE [t |-> passed, i |-> i]

RECURSIVE Traverse(_, _, _, _)
Traverse(t, cn, order, destroys) ==
    IF cn = NULL THEN t
    ELSE LET down == PushDown(t, cn, order, destroys)
             up == ClimbUp(down, Len(down.path), order, destroys)
             i == up.i
             kept == [up.t EXCEPT !.path = SubSeq(@, 1, i),
                                  !.pass = SubSeq(@, 1, i),
                                  !.right = Append(SubSeq(@, 1, i - 1), NULL)]
         IN Traverse(kept, up.t.right[i], order, destroys)

(* The elements in the order in which the command has had them.            *)
MapOnElements(m, root, order, destroys) ==
    Traverse([mem |-> m, path |-> <<>>, right |-> <<>>, pass |-> <<>>,
              out |-> <<>>], root, order, destroys).out

-----------------------------------------------------------------------------
(* The iterator: its stack of elements and how often each has been passed, *)
(* the one it is at, and whether the caller frees each element it gets.    *)
(* `equal` restricts it to elements that compare equal; `whole` runs over  *)
(* all cells.                                                               *)

NoIterator == [on |-> FALSE]
NoTrip == [due |-> {}, seen |-> <<>>]

Compare(i) == IF i.sub THEN Group ELSE Key

Matching(m, t, i) ==
    IF i.equal = NULL THEN t ELSE TreeFind(m, t, i.equal, Compare(i))

Pop(i) ==
    LET n == Len(i.path) - 1
    IN [i EXCEPT !.path = SubSeq(@, 1, n), !.pass = SubSeq(@, 1, n)]

(* Mutant: the subtree is entered at its root, matching or not.             *)
TurnUnfiltered(m, i) ==
    LET n == Len(i.path)
        s == Kid(m, i.path[n], IF i.pass[n] = 0 THEN "left" ELSE "right")
        turned == [i EXCEPT !.pass[n] = @ + 1]
    IN IF s = NULL THEN turned
       ELSE [turned EXCEPT !.path = Append(@, s), !.pass = Append(@, 0)]

(* To the left of the element on top of the stack, or to its right.         *)
Turn(m, i) ==
    LET n == Len(i.path)
        s == Matching(m, Kid(m, i.path[n], IF i.pass[n] = 0 THEN "left" ELSE "right"), i)
        turned == [i EXCEPT !.pass[n] = @ + 1]
    IN IF s = NULL THEN turned
       ELSE [turned EXCEPT !.path = Append(@, s), !.pass = Append(@, 0)]

RECURSIVE ComputeCurrent(_, _)
ComputeCurrent(m, i) ==
    LET n == Len(i.path)
        moved == IF i.pass[n] >= 2 THEN Pop(i) ELSE Turn(m, i)
        k == Len(moved.path)
    IN CASE n = 0 -> [i EXCEPT !.current = NULL]
         [] n > 0 /\ k > 0 /\ moved.pass[k] = i.order ->
              [moved EXCEPT !.current = moved.path[k]]
         [] OTHER -> ComputeCurrent(m, moved)

(* i is started on the tree of its cell.                                    *)
ItInit(m, i) ==
    LET t == Matching(m, table[i.cell], i)
        start == [i EXCEPT !.path = <<t>>, !.pass = <<0>>, !.current = t]
    IN CASE t = NULL -> [i EXCEPT !.path = <<>>, !.pass = <<>>, !.current = NULL]
         [] t # NULL /\ i.order = 0 -> start
         [] t # NULL /\ i.order # 0 -> ComputeCurrent(m, start)

(* The container's iterator goes on with the next cell.                     *)
RECURSIVE SeekCell(_, _)
SeekCell(m, i) ==
    IF i.whole /\ i.current = NULL /\ i.cell + 1 \in Cells
    THEN SeekCell(m, ItInit(m, [i EXCEPT !.cell = @ + 1]))
    ELSE i

-----------------------------------------------------------------------------
(* The functions, as a caller uses them: elements of its own are added,    *)
(* and while it iterates it changes nothing but what it has been given.     *)

Root(e) == table[CellOf[e]]

RECURSIVE Reach(_, _)
Reach(m, t) ==
    IF t = NULL THEN {}
    ELSE {t} \cup Reach(m, Kid(m, t, "left")) \cup Reach(m, Kid(m, t, "right"))

(* The caller has given up a tree whose elements it is freeing.             *)
GivenUp(c) == it.on /\ it.destroys /\ it.cell = c

Held == [c \in Cells |-> IF GivenUp(c) THEN {} ELSE Reach(mem, table[c])]

Returns(name, c, e, r) == call' = <<name, c, e>> /\ result' = r

Becomes(c, tree) ==
    /\ mem' = tree.mem
    /\ table' = [table EXCEPT ![c] = tree.top]

Calls == ~it.on /\ call = <<>> /\ UNCHANGED <<it, trip>>

CallReturns ==
    /\ call # <<>>
    /\ call' = <<>> /\ result' = NULL
    /\ UNCHANGED <<mem, table, it, trip>>

Unheld(e) == e \notin Held[CellOf[e]]

Without(e) ==
    LET deleted == TreeDelete(mem, Root(e), e)
    IN [deleted EXCEPT !.mem = Destroyed(@, e)]

HashedAdd(e) ==
    /\ Calls /\ Unheld(e)
    /\ Becomes(CellOf[e], TreeAdd(mem, Root(e), e))
    /\ Returns("add", CellOf[e], e, NULL)

HashedAddIfNotMember(e) ==
    LET member == TreeFind(mem, Root(e), e, Key)
    IN /\ Calls /\ Unheld(e)
       /\ IF member = NULL
          THEN Becomes(CellOf[e], TreeAdd(mem, Root(e), e))
          ELSE UNCHANGED <<mem, table>>
       /\ Returns("add_if_not_member", CellOf[e], e, member)

HashedDelete(e) ==
    /\ Calls /\ ~Unheld(e)
    /\ Becomes(CellOf[e], Without(e))
    /\ Returns("delete", CellOf[e], e, NULL)

HashedDeleteIfMember(e) ==
    LET member == TreeFind(mem, Root(e), e, Key)
    IN /\ Calls
       /\ IF member # NULL
          THEN Becomes(CellOf[e], Without(member))
          ELSE UNCHANGED <<mem, table>>
       /\ Returns("delete_if_member", CellOf[e], e, member)

HashedFindMember(e) ==
    /\ Calls
    /\ Returns("find_member", CellOf[e], e, TreeFind(mem, Root(e), e, Key))
    /\ UNCHANGED <<mem, table>>

HashedIsMember(e) ==
    /\ Calls
    /\ Returns("is_member", CellOf[e], e, IF TreeHas(mem, Root(e), e) THEN 1 ELSE 0)
    /\ UNCHANGED <<mem, table>>

TreeLen(c) ==
    /\ Calls
    /\ Returns("len", c, NULL, Len(MapOnElements(mem, table[c], 1, FALSE)))
    /\ UNCHANGED <<mem, table>>

(* The iterators over one tree, in one of three orders or over the elements *)
(* that compare equal to one, and over the container.  Only the one in      *)
(* postorder lets the caller free what it is given, as its sample does.     *)
Due(i) ==
    {e \in UNION {Reach(mem, table[c]) : c \in IF i.whole THEN Cells ELSE {i.cell}} :
        i.equal # NULL => Compare(i)[e] = Compare(i)[i.equal]}

Returned(past, i) ==
    IF i.current = NULL THEN past ELSE [past EXCEPT !.seen = Append(@, i.current)]

Start(i) ==
    LET started == SeekCell(mem, ItInit(mem, i))
    IN /\ ~it.on /\ call = <<>>
       /\ it' = started
       /\ trip' = Returned([due |-> Due(i), seen |-> <<>>], started)
       /\ UNCHANGED <<mem, table>>

Iterator(c, whole, order, equal, sub, destroys) ==
    [on |-> TRUE, cell |-> c, whole |-> whole, order |-> order, equal |-> equal,
     sub |-> sub, destroys |-> destroys, path |-> <<>>, pass |-> <<>>,
     current |-> NULL]

TreeItInit(c, order) ==
    /\ Start(Iterator(c, FALSE, order, NULL, FALSE, FALSE))
    /\ UNCHANGED <<call, result>>

TreeItInitOnEqual(e, sub) ==
    /\ Start(Iterator(CellOf[e], FALSE, 1, e, sub, FALSE))
    /\ UNCHANGED <<call, result>>

TreeFreeAll(c) ==
    /\ Start(Iterator(c, FALSE, 2, NULL, FALSE, TRUE))
    /\ Returns("destroy", c, NULL, NULL)

HashedItInit ==
    /\ Start(Iterator(0, TRUE, 1, NULL, FALSE, FALSE))
    /\ UNCHANGED <<call, result>>

HashedItInitOnEqual(e, sub) ==
    /\ Start(Iterator(0, TRUE, 1, e, sub, FALSE))
    /\ UNCHANGED <<call, result>>

ItNext ==
    LET m == IF it.destroys THEN Destroyed(mem, it.current) ELSE mem
        i == SeekCell(m, ComputeCurrent(m, it))
    IN /\ it.on /\ it.current # NULL /\ call = <<>>
       /\ it' = i
       /\ trip' = Returned(trip, i)
       /\ mem' = m
       /\ UNCHANGED <<table, call, result>>

ItEnd ==
    /\ it.on /\ it.current = NULL /\ call = <<>>
    /\ it' = NoIterator /\ trip' = NoTrip
    /\ table' = IF it.destroys THEN [table EXCEPT ![it.cell] = NULL] ELSE table
    /\ UNCHANGED <<mem, call, result>>

Init ==
    /\ mem = [kid |-> [e \in Elems |-> [s \in Sides |-> NULL]], red |-> {}]
    /\ table = [c \in Cells |-> NULL]
    /\ call = <<>> /\ result = NULL
    /\ it = NoIterator /\ trip = NoTrip

Next ==
    \/ \E e \in Elems :
        \/ HashedAdd(e) \/ HashedAddIfNotMember(e)
        \/ HashedDelete(e) \/ HashedDeleteIfMember(e)
        \/ HashedFindMember(e) \/ HashedIsMember(e)
        \/ \E sub \in BOOLEAN : TreeItInitOnEqual(e, sub) \/ HashedItInitOnEqual(e, sub)
    \/ \E c \in Cells :
        \/ TreeLen(c) \/ TreeFreeAll(c)
        \/ \E order \in 0 .. 2 : TreeItInit(c, order)
    \/ HashedItInit
    \/ CallReturns \/ ItNext \/ ItEnd

Spec == Init /\ [][Next]_vars

-----------------------------------------------------------------------------
(* Properties.                                                              *)

(* The depths of a tree's leaves, counted in black elements.                *)
RECURSIVE PathDepths(_, _)
PathDepths(m, t) ==
    IF t = NULL THEN {0}
    ELSE {d + (IF t \in m.red THEN 0 ELSE 1) :
             d \in PathDepths(m, Kid(m, t, "left")) \cup PathDepths(m, Kid(m, t, "right"))}

ConsistencyCheck(m, t) ==
    /\ t \notin m.red
    /\ Cardinality(PathDepths(m, t)) = 1
    /\ \A p \in Reach(m, t) : \A s \in Sides :
        ~(p \in m.red /\ Kid(m, p, s) \in m.red)

(* Whatever is added and deleted, in whatever order, each cell is a        *)
(* red-black tree of elements of that cell, ordered by key and, among equal *)
(* keys, by address, which the deletion of an element relies on to find it. *)
RedBlack ==
    \A c \in Cells : ~GivenUp(c) =>
        LET inorder == MapOnElements(mem, table[c], 1, FALSE)
        IN /\ ConsistencyCheck(mem, table[c])
           /\ \A i \in 1 .. Len(inorder) - 1 : Precedes(inorder[i], inorder[i + 1])
           /\ \A e \in Reach(mem, table[c]) : CellOf[e] = c

TraversesAll ==
    \A c \in Cells, order \in 0 .. 2, destroys \in BOOLEAN :
        LET given == MapOnElements(mem, table[c], order, destroys)
        IN /\ {given[i] : i \in 1 .. Len(given)} = Reach(mem, table[c])
           /\ Len(given) = Cardinality(Reach(mem, table[c]))

IteratorVisits ==
    LET seen == {trip.seen[i] : i \in 1 .. Len(trip.seen)}
    IN /\ Cardinality(seen) = Len(trip.seen)
       /\ seen \subseteq trip.due
       /\ it.current = NULL => seen = trip.due
       /\ it.order = 1 => \A i \in 1 .. Len(trip.seen) - 1 :
            CellOf[trip.seen[i]] = CellOf[trip.seen[i + 1]] =>
                Precedes(trip.seen[i], trip.seen[i + 1])
       /\ it.destroys => 2 ^ Len(it.path) <= (Cardinality(trip.due) + 1) ^ 2

(* The traversal passes every element to the command once, in each order,  *)
(* also if the command frees it.  An iterator returns each element it       *)
(* should once and no other, and all of them before it ends, also if the    *)
(* caller frees each before it asks for the next; in inorder they come by   *)
(* key; and its stack stays as short as the balance of the tree promises,   *)
(* twice the logarithm of its size.                                         *)
VisitsAll == IF it.on THEN IteratorVisits ELSE TraversesAll

Promise == INSTANCE Collection
    WITH Handles <- Cells, held <- Held

(* Every function does what a set of elements promises, whatever tree holds *)
(* it, with the results it promises.                                        *)
KeepsPromise == Promise!Spec

=============================================================================
