------------------------------- MODULE Arrays -------------------------------
(***************************************************************************)
(* The algorithms of sglib.h on an array: sorting it, searching a sorted   *)
(* one, and a queue in it, which libutils' circular_buffer.h also has.     *)
(* An array is a function whose indices start at 0, as in C.               *)
(***************************************************************************)
EXTENDS Integers, Sequences, SequencesExt

CONSTANT Key            \* what the comparator compares

Exchanged(a, i, j) == [a EXCEPT ![i] = a[j], ![j] = a[i]]

-----------------------------------------------------------------------------
(* Heap sort.                                                               *)

(* a[i] sinks among the first max elements.                                *)
RECURSIVE HeapDown(_, _, _)
HeapDown(a, i, max) ==
    LET l == 2 * i + 1
        Greater(m, k) == IF k < max /\ Key[a[m]] < Key[a[k]] THEN k ELSE m
        m == Greater(Greater(i, l), l + 1)
    IN IF m = i THEN a ELSE HeapDown(Exchanged(a, i, m), m, max)

Downwards(k) == [i \in 1 .. k + 1 |-> k + 1 - i]

HeapSorted(a, max) ==
    LET heap == FoldLeft(LAMBDA b, k : HeapDown(b, k, max), a, Downwards(max \div 2))
    IN FoldLeft(LAMBDA b, k : HeapDown(Exchanged(b, 0, k), 0, k),
                heap, Downwards(max - 1))

-----------------------------------------------------------------------------
(* Quick sort.                                                              *)

(* The indices i and j move towards each other, and beyond, to elements     *)
(* that are on the wrong side of the pivot a[p].                            *)
RECURSIVE PassLess(_, _, _, _)
PassLess(a, p, i, j) ==
    IF i <= j /\ Key[a[i]] <= Key[a[p]] THEN PassLess(a, p, i + 1, j) ELSE i

RECURSIVE PassGreater(_, _, _, _)
PassGreater(a, p, i, j) ==
    IF i <= j /\ Key[a[j]] >= Key[a[p]] THEN PassGreater(a, p, i, j - 1) ELSE j

(* Until the pivot is at i = j, with none greater before and less behind.  *)
RECURSIVE Partitioned(_, _, _, _)
Partitioned(a, p, i, j) ==
    LET up == PassLess(a, p, i, j)
        down == IF up > j THEN j ELSE PassGreater(a, p, up, j)
    IN CASE i >= j -> [a |-> a, i |-> i, j |-> j]
         [] i < j /\ up > down ->
              [a |-> Exchanged(a, down, p), i |-> down, j |-> down]
         [] i < j /\ up = down -> Partitioned(a, p, up, down)
         [] i < j /\ up < down ->
              Partitioned(Exchanged(a, up, down), p,
                          IF up + 1 < down THEN up + 1 ELSE up,
                          IF up + 2 < down THEN down - 1 ELSE down)

(* The range from start to before end is sorted, then those on the stack.  *)
(* Of two parts the longer one waits there.                                 *)
RECURSIVE Sorting(_, _, _, _)
Sorting(a, start, end, stack) ==
    IF end - start > 2
    THEN LET part == Partitioned(a, start, start + 1, end - 1)
             i == part.i
             j == part.j
             Left(waiting)  == Sorting(part.a, start, i, waiting)
             Right(waiting) == Sorting(part.a, j + 1, end, waiting)
         IN CASE i - start > 1 /\ end - j > 1 /\ i - start < end - j - 1 ->
                    Left(Append(stack, <<j + 1, end>>))
              [] i - start > 1 /\ end - j > 1 /\ i - start >= end - j - 1 ->
                    Right(Append(stack, <<start, i>>))
              [] i - start > 1 /\ end - j <= 1 -> Left(stack)
              [] i - start <= 1 -> Right(stack)
    ELSE LET pair == end - start = 2 /\ Key[a[start]] > Key[a[end - 1]]
             b == IF pair THEN Exchanged(a, start, end - 1) ELSE a
         IN IF stack = <<>> THEN b
            ELSE Sorting(b, Last(stack)[1], Last(stack)[2], Front(stack))

QuickSorted(a, max) == Sorting(a, 0, max, <<>>)

-----------------------------------------------------------------------------
(* Binary search from index i to index j: the index of an element that      *)
(* compares equal to e, or where to insert e.                               *)

RECURSIVE BinarySearch(_, _, _, _)
BinarySearch(a, i, j, e) ==
    LET k == (j + i) \div 2
    IN CASE i > j -> [found |-> FALSE, index |-> j + 1]
         [] i <= j /\ Key[a[k]] = Key[e] -> [found |-> TRUE, index |-> k]
         [] i <= j /\ Key[a[k]] < Key[e] -> BinarySearch(a, k + 1, j, e)
         [] i <= j /\ Key[a[k]] > Key[e] -> BinarySearch(a, i, k - 1, e)

-----------------------------------------------------------------------------
(* A queue q: the elements of the array q.a of size dim from q.i up to      *)
(* before q.j, around its end.                                              *)

NextPos(pos, dim) == (pos + 1) % dim

IsEmpty(q)     == q.i = q.j
IsFull(q, dim) == q.i = NextPos(q.j, dim)

QueueAdded(q, e, dim) == [q EXCEPT !.a[q.j] = e, !.j = NextPos(@, dim)]

QueueDeleted(q, dim) == [q EXCEPT !.i = NextPos(@, dim)]

=============================================================================
