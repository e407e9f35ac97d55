----------------------------- MODULE LinkedLists -----------------------------
(***************************************************************************)
(* The linked lists of libutils: the singly linked, the sorted and the     *)
(* doubly linked lists of sglib.h, and list.c.  An element is a piece of   *)
(* memory with the pointers `next` and `prev`; a list is a variable of the *)
(* caller that points to an element.  list.c works on nodes, which it      *)
(* allocates itself or, in its functions named _node, gets from its        *)
(* caller; the node of a datum is the element of the same name.            *)
(*                                                                          *)
(* An element that is in no list, whether it was never added, or taken     *)
(* back, or freed, points to itself: nothing may depend on it.             *)
(***************************************************************************)
EXTENDS Integers, Sequences, SequencesExt, FiniteSets

CONSTANTS
    Elems,          \* addresses of elements
    Key,            \* what the comparator compares, for each element
    Group           \* what the subcomparator compares

NULL == 0
Handles == {-1, -2}

(* The lists of list.c: that of allocated nodes and that of the caller's.  *)
Allocated == -1

ASSUME ElemsAssumption == Elems \subseteq Nat \ {NULL}
ASSUME KeysAssumption ==
    \A e, f \in Elems : Key[e] <= Key[f] => Group[e] <= Group[f]

VARIABLES
    kind,           \* which of the four lists these are
    mem,            \* next: of each element and list variable; prev: of elements
    heap,           \* the nodes that list.c has allocated
    call,           \* the last call with its arguments; <<>> for an iterator's
    result,         \* what it returned
    it,             \* the caller's iterator
    trip            \* history: due, what the iterator should return in what
                    \* order, and seen, what it has returned

vars == <<kind, mem, heap, call, result, it, trip>>

-----------------------------------------------------------------------------
(* Walks.                                                                   *)

At(h) == mem.next[h]

(* The elements that compare equal to e, and those not before it in order. *)
Equal(e)   == {x \in Elems : Key[x] = Key[e]}
NotLess(e) == {x \in Elems : Key[x] >= Key[e]}

(* From the pointer p, the first one along `link` to one of these elements. *)
RECURSIVE Seek(_, _, _)
Seek(link, p, these) ==
    IF p = NULL \/ p \in these THEN p ELSE Seek(link, link[p], these)

(* From list or element p on, whose next pointer that is.                   *)
RECURSIVE PlaceOf(_, _, _)
PlaceOf(link, p, these) ==
    IF link[p] = NULL \/ link[p] \in these THEN p
    ELSE PlaceOf(link, link[p], these)

After(m, p) == IF p = NULL THEN NULL ELSE m.next[p]

RECURSIVE Chain(_, _)
Chain(link, p) == IF p = NULL THEN <<>> ELSE <<p>> \o Chain(link, link[p])

(* A walk over a doubly linked list goes back from the element pointed to, *)
(* and then on from its successor.                                          *)
BackAndForth(m, p) ==
    Chain(m.prev, p) \o Chain(m.next, After(m, p))

SeekBackAndForth(m, p, these) ==
    LET back == Seek(m.prev, p, these)
    IN IF back = NULL THEN Seek(m.next, After(m, p), these) ELSE back

Found(h, these) ==
    IF kind = "dl" THEN SeekBackAndForth(mem, At(h), these)
                   ELSE Seek(mem.next, At(h), these)

-----------------------------------------------------------------------------
(* Singly linked lists.                                                     *)

(* e is linked in after p, and what follows p is unlinked.                  *)
Linked(m, p, e) == [m EXCEPT !.next[e] = m.next[p], !.next[p] = e]
Unlinked(m, p)  == [m EXCEPT !.next[p] = m.next[m.next[p]]]

RECURSIVE ReversedOnto(_, _, _)
ReversedOnto(link, p, res) ==
    IF p = NULL THEN [next |-> link, head |-> res]
    ELSE ReversedOnto([link EXCEPT ![p] = res], link[p], p)

(* The merge sort, on the sequence of elements: runs of n are merged in     *)
(* pairs, until there is only one run.                                      *)
RECURSIVE Merge(_, _)
Merge(a, b) ==
    IF a = <<>> \/ b = <<>> THEN a \o b
    ELSE IF Key[a[1]] < Key[b[1]]
         THEN <<a[1]>> \o Merge(Tail(a), b)
         ELSE <<b[1]>> \o Merge(a, Tail(b))

RECURSIVE MergedRuns(_, _)
MergedRuns(s, n) ==
    IF Len(s) < n THEN s
    ELSE LET m == IF Len(s) < 2 * n THEN Len(s) ELSE 2 * n
         IN Merge(SubSeq(s, 1, n), SubSeq(s, n + 1, m))
                \o MergedRuns(SubSeq(s, m + 1, Len(s)), n)

RECURSIVE MergeSort(_, _)
MergeSort(s, n) == IF Len(s) < n THEN s ELSE MergeSort(MergedRuns(s, n), 2 * n)

(* The elements of s, sorted, are the list of h.                            *)
Threaded(m, h, s) ==
    LET t == <<h>> \o MergeSort(s, 1)
        Following(i) == IF i = Len(t) THEN NULL ELSE t[i + 1]
    IN [m EXCEPT !.next = [p \in DOMAIN @ |->
            IF p \in ToSet(t) THEN Following(SelectInSeq(t, LAMBDA x : x = p)) ELSE @[p]]]

-----------------------------------------------------------------------------
(* Doubly linked lists.                                                     *)

Singleton(m, h, e) == [m EXCEPT !.next[h] = e, !.next[e] = NULL, !.prev[e] = NULL]

(* If the element f is one.                                                 *)
WithPrev(m, f, p) == IF f = NULL THEN m ELSE [m EXCEPT !.prev[f] = p]
WithNext(m, f, p) == IF f = NULL THEN m ELSE [m EXCEPT !.next[f] = p]

LinkedAfter(m, p, e) ==
    WithPrev([m EXCEPT !.next[e] = m.next[p], !.prev[e] = p, !.next[p] = e],
             m.next[p], e)

(* Mutant: the element before does not learn of the new one.                *)
LinkedBeforeOnly(m, p, e) ==
    [m EXCEPT !.next[e] = p, !.prev[e] = m.prev[p], !.prev[p] = e]

LinkedBefore(m, p, e) ==
    WithNext([m EXCEPT !.next[e] = p, !.prev[e] = m.prev[p], !.prev[p] = e],
             m.prev[p], e)

DLAdded(m, h, e, where) ==
    LET p == m.next[h]
    IN CASE p = NULL -> Singleton(m, h, e)
         [] p # NULL /\ where = "after"  -> LinkedAfter(m, p, e)
         [] p # NULL /\ where = "before" -> LinkedBefore(m, p, e)
         [] p # NULL /\ where = "here"   ->
              [LinkedBefore(m, p, e) EXCEPT !.next[h] = e]

(* Mutant: the variable moves to the next element, if there is one or not.  *)
DLDeletedForward(m, h, e) ==
    [WithNext(WithPrev(m, m.next[e], m.prev[e]), m.prev[e], m.next[e])
        EXCEPT !.next[h] = IF @ = e THEN m.next[e] ELSE @]

DLDeleted(m, h, e) ==
    LET l == m.next[h]
        left == IF l # e THEN l
                ELSE IF m.prev[e] # NULL THEN m.prev[e] ELSE m.next[e]
    IN [WithNext(WithPrev(m, m.next[e], m.prev[e]), m.prev[e], m.next[e])
            EXCEPT !.next[h] = left]

(* The element at the end of the links from p.                             *)
Far(link, p) == IF p = NULL THEN NULL ELSE Last(Chain(link, p))

(* The pointers back are made from those ahead.                            *)
DLFromList(m, h) ==
    LET s == Chain(m.next, m.next[h])
        Before(i) == IF i = 1 THEN NULL ELSE s[i - 1]
    IN [m EXCEPT !.prev = [e \in DOMAIN @ |->
            IF e \in ToSet(s) THEN Before(SelectInSeq(s, LAMBDA x : x = e)) ELSE @[e]]]

DLSorted(m, h) ==
    IF m.next[h] = NULL THEN m
    ELSE DLFromList(Threaded(m, h, Chain(m.next, Far(m.prev, m.next[h]))), h)

(* The pointers of these elements change places.                            *)
Turned(m, these) ==
    [next |-> [p \in DOMAIN m.next |-> IF p \in these THEN m.prev[p] ELSE m.next[p]],
     prev |-> [p \in DOMAIN m.prev |-> IF p \in these THEN m.next[p] ELSE m.prev[p]]]

DLReversed(m, h) ==
    LET p == m.next[h]
        rest == Chain(m.next, After(m, p))
    IN Turned(Turned(m, ToSet(Chain(m.prev, p))), ToSet(rest))

-----------------------------------------------------------------------------
(* The functions, as a caller uses them.                                    *)

GivenUp(h) == it.on /\ it.frees /\ it.list = h

(* The elements of a list, in order.                                        *)
Items(h) ==
    IF GivenUp(h) THEN <<>>
    ELSE IF kind = "dl"
         THEN Reverse(Chain(mem.prev, At(h)))
                \o Chain(mem.next, After(mem, At(h)))
         ELSE Chain(mem.next, At(h))

Members(h) == ToSet(Items(h))
Unheld(e)  == \A h \in Handles : e \notin Members(h)

TakenBack(m, e) == [m EXCEPT !.next[e] = e, !.prev[e] = e]

RECURSIVE AllTakenBack(_, _)
AllTakenBack(m, p) ==
    IF p = NULL THEN m ELSE AllTakenBack(TakenBack(m, p), m.next[p])

Calls(kinds) ==
    /\ kind \in kinds /\ ~it.on /\ call = <<>>
    /\ UNCHANGED <<kind, it, trip>>

Sglib == {"list", "sorted", "dl"}

Returns(c, r) == call' = c /\ result' = r

Becomes(m) == mem' = m /\ UNCHANGED heap

Same == UNCHANGED <<mem, heap>>

CallReturns ==
    /\ call # <<>>
    /\ Returns(<<>>, NULL)
    /\ UNCHANGED <<kind, mem, heap, it, trip>>

(* Where each kind of list takes a new element.                             *)
Places ==
    CASE kind = "list"   -> {"first"}
      [] kind = "sorted" -> {"sorted"}
      [] kind = "dl"     -> {"here", "before", "after"}

With(h, e, where) ==
    CASE kind = "list"   -> Linked(mem, h, e)
      [] kind = "sorted" -> Linked(mem, PlaceOf(mem.next, h, NotLess(e)), e)
      [] kind = "dl"     -> DLAdded(mem, h, e, where)

Without(h, e) ==
    TakenBack(IF kind = "dl" THEN DLDeleted(mem, h, e)
              ELSE Unlinked(mem, PlaceOf(mem.next, h, {e})), e)

(* The member that compares equal to e.                                     *)
MemberLike(h, e) ==
    IF kind = "sorted"
    THEN LET p == Seek(mem.next, At(h), NotLess(e))
         IN IF p \in Equal(e) THEN p ELSE NULL
    ELSE Found(h, Equal(e))

Has(h, e) ==
    IF kind = "sorted"
    THEN LET p == Seek(mem.next, At(h), NotLess(e))
         IN Seek(mem.next, p, {e} \cup (Elems \ Equal(e))) = e
    ELSE Found(h, {e}) = e

Add(h, e, where) ==
    /\ Calls(Sglib) /\ Unheld(e) /\ where \in Places
    /\ Becomes(With(h, e, where))
    /\ Returns(<<"add", h, e, where>>, NULL)

AddIfNotMember(h, e, where) ==
    /\ Calls(Sglib) /\ Unheld(e) /\ where \in Places
    /\ IF MemberLike(h, e) = NULL THEN Becomes(With(h, e, where)) ELSE Same
    /\ Returns(<<"add_if_not_member", h, e, where>>, MemberLike(h, e))

Delete(h, e) ==
    /\ Calls(Sglib) /\ e \in Members(h)
    /\ Becomes(Without(h, e))
    /\ Returns(<<"delete", h, e>>, NULL)

DeleteIfMember(h, e) ==
    LET member == MemberLike(h, e)
    IN /\ Calls(Sglib)
       /\ IF member # NULL THEN Becomes(Without(h, member)) ELSE Same
       /\ Returns(<<"delete_if_member", h, e>>, member)

FindMember(h, e) ==
    /\ Calls(Sglib) /\ Same
    /\ Returns(<<"find_member", h, e>>, MemberLike(h, e))

IsMember(h, e) ==
    /\ Calls(Sglib) /\ Same
    /\ Returns(<<"is_member", h, e>>, IF Has(h, e) THEN 1 ELSE 0)

ListLen(link, p) == Len(Chain(link, p))

Length(h) ==
    /\ Calls(Sglib) /\ Same
    /\ Returns(<<"len", h>>, IF kind = "dl" THEN Len(BackAndForth(mem, At(h)))
                                            ELSE ListLen(mem.next, At(h)))

Sort(h) ==
    /\ Calls(Sglib)
    /\ Becomes(IF kind # "dl" THEN Threaded(mem, h, Chain(mem.next, At(h)))
                             ELSE DLSorted(mem, h))
    /\ Returns(<<"sort", h>>, NULL)

ReverseList(h) ==
    LET reversed == ReversedOnto(mem.next, At(h), NULL)
    IN /\ Calls({"list", "dl"})
       /\ Becomes(IF kind = "dl" THEN DLReversed(mem, h)
                  ELSE [mem EXCEPT !.next = [reversed.next EXCEPT ![h] = reversed.head]])
       /\ Returns(<<"reverse", h>>, NULL)

(* The first element of the list that starts at q follows the last of h.   *)
Joined(m, h, q) == [m EXCEPT !.next[PlaceOf(m.next, h, {})] = q]

(* Only the element pointed to is linked.                                   *)
DLJoined(m, h, q) ==
    IF m.next[h] = NULL \/ q = NULL THEN Joined(m, h, q)
    ELSE LinkedAfter(m, PlaceOf(m.next, h, {}), q)

(* The caller gives up its second list.  Of a doubly linked one all but    *)
(* the element pointed to would be lost; its callers append a single one.  *)
Concat(h, g) ==
    LET joined == IF kind = "dl" THEN DLJoined(mem, h, At(g)) ELSE Joined(mem, h, At(g))
    IN /\ Calls({"list", "dl"}) /\ h # g
       /\ kind = "dl" /\ At(h) # NULL => Len(Items(g)) <= 1
       /\ Becomes([joined EXCEPT !.next[g] = NULL])
       /\ Returns(<<"concat", h, g>>, NULL)

GetFirst(h) ==
    /\ Calls({"dl"}) /\ Same
    /\ Returns(<<"get_first", h>>, Far(mem.prev, At(h)))

GetLast(h) ==
    /\ Calls({"dl"}) /\ Same
    /\ Returns(<<"get_last", h>>, Far(mem.next, At(h)))

-----------------------------------------------------------------------------
(* list.c: the functions that allocate, and those on the caller's nodes.   *)

Prepended(h, e) == Linked(mem, h, e)

Appended(h, e) ==
    LET last == PlaceOf(mem.next, h, {})
    IN [mem EXCEPT !.next[e] = NULL, !.next[last] = e]

(* The node is the caller's, or allocated, unless memory has run out.      *)
ListAdd(h, e, m, where) ==
    /\ Calls({"list_t"}) /\ Unheld(e)
    /\ \/ /\ mem' = m
          /\ heap' = IF h = Allocated THEN heap \cup {e} ELSE heap
          /\ Returns(<<"add", h, e, where>>, NULL)
       \/ /\ h = Allocated
          /\ Same
          /\ Returns(<<"add", h, e, where>>, -1)

ListPrepend(h, e) == ListAdd(h, e, Prepended(h, e), "first")
ListAppend(h, e)  == ListAdd(h, e, Appended(h, e), "last")

(* The node of the first datum that compares equal is unlinked, and freed  *)
(* if it is one of those allocated.                                         *)
Removes(h, e, frees) ==
    LET place == PlaceOf(mem.next, h, Equal(e))
        node == mem.next[place]
    IN /\ Calls({"list_t"})
       /\ IF node = NULL
          THEN Same /\ Returns(<<"remove", h, e>>, -1)
          ELSE /\ mem' = TakenBack(Unlinked(mem, place), node)
               /\ heap' = IF frees THEN heap \ {node} ELSE heap
               /\ Returns(<<"remove", h, e>>, NULL)

ListRemove(h, e)     == h = Allocated /\ Removes(h, e, TRUE)
ListRemoveNode(h, e) == h # Allocated /\ Removes(h, e, FALSE)

Emptied(h) == [AllTakenBack(mem, At(h)) EXCEPT !.next[h] = NULL]

ListRemoveAll(h) ==
    /\ Calls({"list_t"}) /\ h = Allocated
    /\ mem' = Emptied(h)
    /\ heap' = heap \ ToSet(Chain(mem.next, At(h)))
    /\ Returns(<<"destroy", h>>, NULL)

ListRemoveAllNodes(h) ==
    /\ Calls({"list_t"}) /\ h # Allocated
    /\ Becomes(Emptied(h))
    /\ Returns(<<"destroy", h>>, NULL)

ListLength(h) ==
    /\ Calls({"list_t"}) /\ Same
    /\ Returns(<<"len", h>>, ListLen(mem.next, At(h)))

ListExists(h, e) ==
    /\ Calls({"list_t"}) /\ Same
    /\ Returns(<<"exists", h, e>>,
               IF Seek(mem.next, At(h), Equal(e)) # NULL THEN 1 ELSE 0)

ListIndex(h, e) ==
    LET s == Chain(mem.next, At(h))
    IN /\ Calls({"list_t"}) /\ Same
       /\ Returns(<<"index", h, e>>,
                  IF Seek(mem.next, At(h), Equal(e)) = NULL THEN -1
                  ELSE CHOOSE i \in 0 .. Len(s) - 1 :
                        /\ s[i + 1] \in Equal(e)
                        /\ \A j \in 1 .. i : s[j] \notin Equal(e))

ListIsEmpty(h) ==
    /\ Calls({"list_t"}) /\ Same
    /\ Returns(<<"is_empty", h>>, IF At(h) = NULL THEN 1 ELSE 0)

-----------------------------------------------------------------------------
(* Iterators: the next candidates ahead and, in a doubly linked list, back, *)
(* and whether the caller frees each element it gets.  In list.c the        *)
(* traversal is list_foreach, whose action gets one element after the      *)
(* other.                                                                   *)

NoIterator == [on |-> FALSE]
NoTrip == [due |-> <<>>, seen |-> <<>>]

Compare(i) == IF i.sub THEN Group ELSE Key

Matches(i) ==
    IF i.equal = NULL THEN Elems
    ELSE {x \in Elems : Compare(i)[x] = Compare(i)[i.equal]}

(* Mutant: in a sorted list a greater element is taken for an equal one.    *)
CandidateUnchecked(link, p, i) ==
    IF kind = "sorted" /\ i.equal # NULL
    THEN Seek(link, p, {x \in Elems : Compare(i)[x] >= Compare(i)[i.equal]})
    ELSE Seek(link, p, Matches(i))

(* The first match from p on; a sorted list has none beyond a greater one. *)
Candidate(link, p, i) ==
    IF kind = "sorted" /\ i.equal # NULL
    THEN LET q == Seek(link, p, {x \in Elems : Compare(i)[x] >= Compare(i)[i.equal]})
         IN IF q \in Matches(i) THEN q ELSE NULL
    ELSE Seek(link, p, Matches(i))

Advanced(m, i) ==
    LET back == Candidate(m.prev, i.back, i)
        ahead == Candidate(m.next, i.ahead, i)
    IN CASE back # NULL ->
              [i EXCEPT !.current = back, !.back = m.prev[back]]
         [] back = NULL /\ ahead # NULL ->
              [i EXCEPT !.current = ahead, !.back = NULL, !.ahead = m.next[ahead]]
         [] back = NULL /\ ahead = NULL ->
              [i EXCEPT !.current = NULL, !.back = NULL, !.ahead = NULL]

Returned(past, i) ==
    IF i.current = NULL THEN past ELSE [past EXCEPT !.seen = Append(@, i.current)]

Start(h, equal, sub, frees) ==
    LET p == At(h)
        i == [on |-> TRUE, list |-> h, equal |-> equal, sub |-> sub, frees |-> frees,
              current |-> NULL,
              back |-> IF kind = "dl" THEN p ELSE NULL,
              ahead |-> IF kind = "dl" THEN After(mem, p) ELSE p]
        whole == IF kind = "dl" THEN BackAndForth(mem, p) ELSE Chain(mem.next, p)
        due == SelectSeq(whole, LAMBDA x : x \in Matches(i))
    IN /\ ~it.on /\ call = <<>>
       /\ it' = Advanced(mem, i)
       /\ trip' = Returned([due |-> due, seen |-> <<>>], it')
       /\ UNCHANGED <<kind, mem, heap>>

(* The sample of sglib frees every element with an iterator.                *)
ItInit(h, frees) ==
    /\ kind \in Sglib
    /\ Start(h, NULL, FALSE, frees)
    /\ IF frees THEN Returns(<<"destroy", h>>, NULL) ELSE UNCHANGED <<call, result>>

ItInitOnEqual(h, e, sub) ==
    /\ kind \in Sglib
    /\ Start(h, e, sub, FALSE)
    /\ UNCHANGED <<call, result>>

ItNext ==
    LET m == IF it.frees THEN TakenBack(mem, it.current) ELSE mem
    IN /\ kind \in Sglib
       /\ it.on /\ it.current # NULL /\ call = <<>>
       /\ it' = Advanced(m, it)
       /\ trip' = Returned(trip, it')
       /\ mem' = m
       /\ UNCHANGED <<kind, heap, call, result>>

(* list_foreach gives its action the first datum, and looks for the next   *)
(* node after the action has returned.                                      *)
ListForeach(h) ==
    /\ kind = "list_t"
    /\ Start(h, NULL, FALSE, FALSE)
    /\ UNCHANGED <<call, result>>

ForeachNext ==
    /\ kind = "list_t"
    /\ it.on /\ it.current # NULL /\ call = <<>>
    /\ it' = Advanced(mem, [it EXCEPT !.ahead = mem.next[it.current]])
    /\ trip' = Returned(trip, it')
    /\ UNCHANGED <<kind, mem, heap, call, result>>

(* The caller deletes the element it has got.                               *)
ItDelete ==
    /\ it.on /\ ~it.frees /\ kind # "list_t" /\ call = <<>>
    /\ it.current \in Members(it.list)
    /\ Becomes(Without(it.list, it.current))
    /\ Returns(<<"delete", it.list, it.current>>, NULL)
    /\ UNCHANGED <<kind, it, trip>>

(* It has got all, or, unless it frees them, enough.                        *)
ItEnd ==
    /\ it.on /\ call = <<>>
    /\ it.frees => it.current = NULL
    /\ it' = NoIterator /\ trip' = NoTrip
    /\ mem' = IF it.frees THEN [mem EXCEPT !.next[it.list] = NULL] ELSE mem
    /\ UNCHANGED <<kind, heap, call, result>>

-----------------------------------------------------------------------------

InitAs(kinds) ==
    /\ kind \in kinds
    /\ mem = [next |-> [p \in Elems \cup Handles |-> IF p \in Handles THEN NULL ELSE p],
              prev |-> [e \in Elems |-> e]]
    /\ heap = {}
    /\ call = <<>> /\ result = NULL
    /\ it = NoIterator /\ trip = NoTrip

(* The functions of each kind: a singly linked list has those of a sorted  *)
(* one and more, a doubly linked list those of a singly linked one.         *)
SortedFunctions(h) ==
    \/ \E e \in Elems :
        \/ \E where \in {"first", "sorted", "here", "before", "after"} :
            Add(h, e, where) \/ AddIfNotMember(h, e, where)
        \/ Delete(h, e) \/ DeleteIfMember(h, e)
        \/ FindMember(h, e) \/ IsMember(h, e)
        \/ \E sub \in BOOLEAN : ItInitOnEqual(h, e, sub)
    \/ Length(h) \/ Sort(h)
    \/ \E frees \in BOOLEAN : ItInit(h, frees)
    \/ ItNext

ListFunctions(h) ==
    SortedFunctions(h) \/ ReverseList(h) \/ \E g \in Handles : Concat(h, g)

DLFunctions(h) == ListFunctions(h) \/ GetFirst(h) \/ GetLast(h)

ListTFunctions(h) ==
    \/ \E e \in Elems :
        \/ ListPrepend(h, e) \/ ListAppend(h, e)
        \/ ListRemove(h, e) \/ ListRemoveNode(h, e)
        \/ ListExists(h, e) \/ ListIndex(h, e)
    \/ ListIsEmpty(h) \/ ListLength(h)
    \/ ListRemoveAll(h) \/ ListRemoveAllNodes(h)
    \/ ListForeach(h) \/ ForeachNext

ListNext ==
    \/ \E h \in Handles : DLFunctions(h) \/ ListTFunctions(h)
    \/ CallReturns \/ ItDelete \/ ItEnd

-----------------------------------------------------------------------------
(* Properties.                                                              *)

(* The pointers agree: no element is in two lists; in a doubly linked one  *)
(* those back and forth are each other's inverse; and what list.c has       *)
(* allocated is exactly what its list of allocated nodes holds, so that     *)
(* nothing is leaked and nothing in use has been freed.                     *)
WellFormed ==
    /\ \A h, g \in Handles : h # g => Members(h) \cap Members(g) = {}
    /\ kind = "dl" =>
        \A h \in Handles : \A e \in Members(h) :
            /\ mem.next[e] # NULL => mem.prev[mem.next[e]] = e
            /\ mem.prev[e] # NULL => mem.next[mem.prev[e]] = e
    /\ kind = "list_t" => heap = Members(Allocated)

(* An iterator returns each element it should once, in the order of the    *)
(* list (back from the element pointed to and then on from it in a doubly   *)
(* linked one), and all of them before it ends, also if its caller deletes  *)
(* or frees the one it has got before it asks for the next.                 *)
VisitsAll ==
    it.on =>
        /\ IsPrefix(trip.seen, trip.due)
        /\ it.current = NULL => trip.seen = trip.due

=============================================================================
