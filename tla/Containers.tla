----------------------------- MODULE Containers -----------------------------
(***************************************************************************)
(* The containers of libutils that promise a sequence of elements: linked  *)
(* lists (LinkedLists), and the arrays and queues of sglib.h and            *)
(* circular_buffer.h, whose algorithms are in Arrays.  A container of an   *)
(* array is `cells`: the array, and the indices of its first element and   *)
(* of the first free cell.  An array that is only sorted and searched has   *)
(* no first index: its first element is at 0.                               *)
(***************************************************************************)
EXTENDS LinkedLists

CONSTANTS
    ArraySize,      \* the size of an array that its caller fills
    QueueSize       \* the size of the array behind a queue

ASSUME SizesAssumption == ArraySize \in Nat \ {0} /\ QueueSize \in Nat \ {0}

VARIABLE cells

all == <<vars, cells>>

A == INSTANCE Arrays

(* The list that the container in an array is.                              *)
Array == -1

Queues == {"queue", "circ_buf"}

SizeOf(k) == IF k \in Queues THEN QueueSize ELSE ArraySize

-----------------------------------------------------------------------------
(* A caller calls a function that leaves the cells as they are, or changes  *)
(* them to c.                                                               *)

ArrayCalls(kinds) == Calls(kinds) /\ Same

Changes(kinds, c)  == ArrayCalls(kinds) /\ cells' = c
Observes(kinds)    == ArrayCalls(kinds) /\ UNCHANGED cells

TruthOf(p) == IF p THEN 1 ELSE 0

(* The caller writes another element into its array.                        *)
Fill(e) ==
    /\ cells.j < ArraySize
    /\ Changes({"array"}, [cells EXCEPT !.a[cells.j] = e, !.j = @ + 1])
    /\ Returns(<<"put", Array, e>>, NULL)

QuickSort ==
    /\ Changes({"array"}, [cells EXCEPT !.a = A!QuickSorted(@, cells.j)])
    /\ Returns(<<"sort", Array>>, NULL)

HeapSort ==
    /\ Changes({"array"}, [cells EXCEPT !.a = A!HeapSorted(@, cells.j)])
    /\ Returns(<<"sort", Array>>, NULL)

(* In an array that is sorted.  An element that is not found is reported    *)
(* here as the place where to insert it, counted down from -1.              *)
Search(e) ==
    LET search == A!BinarySearch(cells.a, 0, cells.j - 1, e)
    IN /\ Observes({"array"})
       /\ \A i \in 1 .. cells.j - 1 : Key[cells.a[i - 1]] <= Key[cells.a[i]]
       /\ Returns(<<"search", Array, e>>,
                  IF search.found THEN search.index ELSE -1 - search.index)

ArrayFunctions ==
    \/ QuickSort \/ HeapSort
    \/ \E e \in Elems : Fill(e) \/ Search(e)

-----------------------------------------------------------------------------
(* Queues: their callers ask first whether they are full or empty.  What   *)
(* a cell holds that is not in use does not matter: NULL.                   *)

Put(e) ==
    /\ ~A!IsFull(cells, QueueSize)
    /\ Changes(Queues, A!QueueAdded(cells, e, QueueSize))
    /\ Returns(<<"put", Array, e>>, NULL)

Taken == A!QueueDeleted([cells EXCEPT !.a[cells.i] = NULL], QueueSize)

QueueDelete ==
    /\ ~A!IsEmpty(cells)
    /\ Changes({"queue"}, Taken)
    /\ Returns(<<"delete_first", Array>>, NULL)

QueueFirst ==
    /\ ~A!IsEmpty(cells)
    /\ Observes({"queue"})
    /\ Returns(<<"get_first", Array>>, cells.a[cells.i])

CircBufGet ==
    /\ ~A!IsEmpty(cells)
    /\ Changes({"circ_buf"}, Taken)
    /\ Returns(<<"take_first", Array>>, cells.a[cells.i])

QueueIsEmpty ==
    /\ Observes(Queues)
    /\ Returns(<<"is_empty", Array>>, TruthOf(A!IsEmpty(cells)))

QueueIsFull ==
    /\ Observes(Queues)
    /\ Returns(<<"is_full", Array>>, TruthOf(A!IsFull(cells, QueueSize)))

CircBufFunctions ==
    QueueIsEmpty \/ QueueIsFull \/ CircBufGet \/ \E e \in Elems : Put(e)

QueueFunctions == CircBufFunctions \/ QueueDelete \/ QueueFirst

-----------------------------------------------------------------------------

Init ==
    /\ InitAs(Sglib \cup {"list_t", "array"} \cup Queues)
    /\ cells = [a |-> [i \in 0 .. SizeOf(kind) - 1 |-> NULL], i |-> 0, j |-> 0]

Next ==
    \/ ListNext /\ UNCHANGED cells
    \/ ArrayFunctions \/ QueueFunctions

Spec == Init /\ [][Next]_all

-----------------------------------------------------------------------------
(* Properties.                                                              *)

(* The elements of a container, in order.                                   *)
Held ==
    LET size == SizeOf(kind)
        n == IF kind = "array" THEN cells.j ELSE (cells.j - cells.i) % size
    IN [k \in 1 .. n |-> cells.a[(cells.i + k - 1) % size]]

Sequence(h) ==
    IF kind \in {"array"} \cup Queues /\ h = Array THEN Held ELSE Items(h)

PointedTo(h) ==
    CASE kind \in {"array"} \cup Queues -> IF Sequence(h) = <<>> THEN NULL ELSE Sequence(h)[1]
      [] kind \notin {"array"} \cup Queues -> IF GivenUp(h) THEN NULL ELSE At(h)

Promise == INSTANCE ListPromise
    WITH items <- [h \in Handles |-> Sequence(h)],
         at <- [h \in Handles |-> PointedTo(h)],
         Room <- QueueSize - 1

(* Every function does what a sequence of elements promises, with the       *)
(* results it promises: wherever in a list its variable points, however an  *)
(* array is sorted, and wherever in its array a queue begins.               *)
KeepsPromise == Promise!Spec

=============================================================================
