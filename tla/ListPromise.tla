----------------------------- MODULE ListPromise -----------------------------
(***************************************************************************)
(* What the linked lists, arrays and queues of the libraries promise: each *)
(* is a sequence of the caller's elements, and its variable `at` points to *)
(* one of them, the first unless it is a doubly linked list.  An element   *)
(* can be in one place of a list and in several of an array.  `call` is    *)
(* the function called with its arguments, the last of them for an         *)
(* insertion telling where, and `result` is what it returned or stored     *)
(* through its last argument.                                              *)
(***************************************************************************)
EXTENDS Integers, Sequences, SequencesExt, FiniteSets

CONSTANTS
    Handles,        \* the list variables
    Elems,          \* the elements
    Key,            \* what the comparator compares
    Room,           \* how many elements a queue has room for
    NULL            \* the pointer to no element; 0, and a status of success

VARIABLES
    items,          \* the elements of each list, in order
    at,             \* the element each variable points to
    call,           \* <<function, list, ...>>
    result          \* a pointer, a count, an index, a truth value or a status

vars == <<items, at, call, result>>

-----------------------------------------------------------------------------

Free(e) == \A h \in Handles : e \notin ToSet(items[h])

Like(h, e)      == {x \in ToSet(items[h]) : Key[x] = Key[e]}
Found(h, e)     == IF Like(h, e) = {} THEN {NULL} ELSE Like(h, e)
FirstLike(h, e) == SelectInSeq(items[h], LAMBDA x : Key[x] = Key[e])

Sorted(s) == \A i \in 1 .. Len(s) - 1 : Key[s[i]] <= Key[s[i + 1]]
First(s)  == IF s = <<>> THEN NULL ELSE s[1]

Same == items' = items /\ at' = at

Becomes(h, s, p) ==
    items' = [items EXCEPT ![h] = s] /\ at' = [at EXCEPT ![h] = p]

(* The lists, and the elements pointed to, that inserting e may lead to.   *)
Insertions(h, e, where) ==
    LET s == items[h]
        Near(after) == InsertAt(s, SelectInSeq(s, LAMBDA x : x = at[h]) + after, e)
    IN CASE where = "first"  -> {[list |-> <<e>> \o s, at |-> e]}
         [] where = "last"   -> {[list |-> Append(s, e), at |-> First(Append(s, e))]}
         [] where = "sorted" ->
              {[list |-> t, at |-> First(t)] :
                  t \in {u \in {InsertAt(s, i, e) : i \in 1 .. Len(s) + 1} : Sorted(u)}}
         [] where \in {"here", "before", "after"} ->
              {IF s = <<>> THEN [list |-> <<e>>, at |-> e]
               ELSE [list |-> Near(IF where = "after" THEN 1 ELSE 0),
                     at |-> IF where = "here" THEN e ELSE at[h]]}

Inserted(h, e, where) ==
    /\ \E into \in Insertions(h, e, where) : Becomes(h, into.list, into.at)
    /\ result' = NULL

(* A variable whose element is removed may point to any that is left.      *)
Removed(h, e) ==
    /\ items' = [items EXCEPT ![h] = Remove(@, e)]
    /\ at' = [at EXCEPT ![h] = at'[h]]
    /\ IF items[h] = <<e>> THEN at'[h] = NULL ELSE at'[h] \in ToSet(items'[h])
    /\ at[h] # e => at'[h] = at[h]

-----------------------------------------------------------------------------

(* The list takes e, or reports that memory has run out.                   *)
Add(h, e, where) ==
    /\ Free(e)
    /\ \/ Inserted(h, e, where)
       \/ Same /\ result' = -1

AddIfNotMember(h, e, where) ==
    /\ Free(e)
    /\ IF Like(h, e) = {} THEN Inserted(h, e, where)
                          ELSE Same /\ result' \in Like(h, e)

Delete(h, e) == e \in ToSet(items[h]) /\ Removed(h, e) /\ result' = NULL

DeleteIfMember(h, e) ==
    /\ result' \in Found(h, e)
    /\ IF result' = NULL THEN Same ELSE Removed(h, result')

(* The first of the elements that compare equal to e is removed.           *)
RemoveLike(h, e) ==
    IF Like(h, e) = {} THEN Same /\ result' = -1
    ELSE Removed(h, items[h][FirstLike(h, e)]) /\ result' = NULL

FindMember(h, e) == Same /\ result' \in Found(h, e)

IsMember(h, e) == Same /\ result' = IF e \in ToSet(items[h]) THEN 1 ELSE 0

Exists(h, e) == Same /\ result' = IF Like(h, e) # {} THEN 1 ELSE 0

Index(h, e) == Same /\ result' = FirstLike(h, e) - 1

Length(h) == Same /\ result' = Len(items[h])

IsEmpty(h) == Same /\ result' = IF items[h] = <<>> THEN 1 ELSE 0

GetFirst(h) == Same /\ result' = First(items[h])

GetLast(h) == Same /\ result' = First(Reverse(items[h]))

Times(s, e) == Cardinality({i \in DOMAIN s : s[i] = e})

Sort(h) ==
    /\ Sorted(items'[h])
    /\ \A e \in Elems : Times(items'[h], e) = Times(items[h], e)
    /\ Becomes(h, items'[h], First(items'[h]))
    /\ result' = NULL

(* The variable points to the new first element, or stays where it was.    *)
Reversed(h) ==
    /\ at'[h] \in {First(Reverse(items[h])), at[h]}
    /\ Becomes(h, Reverse(items[h]), at'[h])
    /\ result' = NULL

Concat(h, g) ==
    /\ items' = [items EXCEPT ![h] = @ \o items[g], ![g] = <<>>]
    /\ at' = [at EXCEPT ![h] = IF items[h] = <<>> THEN at[g] ELSE @, ![g] = NULL]
    /\ result' = NULL

Put(h, e) ==
    /\ Becomes(h, Append(items[h], e), First(Append(items[h], e)))
    /\ result' = NULL

DeleteFirst(h) == Becomes(h, Tail(items[h]), First(Tail(items[h]))) /\ result' = NULL

TakeFirst(h) ==
    Becomes(h, Tail(items[h]), First(Tail(items[h]))) /\ result' = First(items[h])

IsFull(h) == Same /\ result' = IF Len(items[h]) = Room THEN 1 ELSE 0

(* The index of an element that compares equal to e, or, counted down from *)
(* -1, that where e would have to be inserted.                              *)
Search(h, e) ==
    /\ Same
    /\ IF Like(h, e) # {}
       THEN result' + 1 \in {i \in DOMAIN items[h] : Key[items[h][i]] = Key[e]}
       ELSE result' = -1 - Cardinality({i \in DOMAIN items[h] : Key[items[h][i]] < Key[e]})

Destroy(h) == Becomes(h, <<>>, NULL) /\ result' = NULL

-----------------------------------------------------------------------------

Init ==
    /\ items = [h \in Handles |-> <<>>] /\ at = [h \in Handles |-> NULL]
    /\ call = <<>> /\ result = NULL

OnElement(h, e) ==
    \/ \E where \in {"first", "last", "sorted", "here", "before", "after"} :
        \/ call' = <<"add", h, e, where>> /\ Add(h, e, where)
        \/ call' = <<"add_if_not_member", h, e, where>> /\ AddIfNotMember(h, e, where)
    \/ call' = <<"delete", h, e>> /\ Delete(h, e)
    \/ call' = <<"delete_if_member", h, e>> /\ DeleteIfMember(h, e)
    \/ call' = <<"remove", h, e>> /\ RemoveLike(h, e)
    \/ call' = <<"find_member", h, e>> /\ FindMember(h, e)
    \/ call' = <<"is_member", h, e>> /\ IsMember(h, e)
    \/ call' = <<"exists", h, e>> /\ Exists(h, e)
    \/ call' = <<"index", h, e>> /\ Index(h, e)
    \/ call' = <<"put", h, e>> /\ Put(h, e)
    \/ call' = <<"search", h, e>> /\ Search(h, e)

OnList(h) ==
    \/ call' = <<"len", h>> /\ Length(h)
    \/ call' = <<"is_empty", h>> /\ IsEmpty(h)
    \/ call' = <<"get_first", h>> /\ GetFirst(h)
    \/ call' = <<"get_last", h>> /\ GetLast(h)
    \/ call' = <<"sort", h>> /\ Sort(h)
    \/ call' = <<"is_full", h>> /\ IsFull(h)
    \/ call' = <<"delete_first", h>> /\ DeleteFirst(h)
    \/ call' = <<"take_first", h>> /\ TakeFirst(h)
    \/ call' = <<"reverse", h>> /\ Reversed(h)
    \/ call' = <<"destroy", h>> /\ Destroy(h)
    \/ \E g \in Handles \ {h} : call' = <<"concat", h, g>> /\ Concat(h, g)

Next ==
    \/ \E h \in Handles : OnList(h) \/ \E e \in Elems : OnElement(h, e)
    \/ call' = <<>> /\ Same /\ result' = NULL

Spec == Init /\ [][Next]_vars

=============================================================================
