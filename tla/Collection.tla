----------------------------- MODULE Collection -----------------------------
(***************************************************************************)
(* What the containers of sglib.h promise, whatever holds the elements:    *)
(* each is a set of elements the caller owns, of which several may compare *)
(* equal, and each function is one step.  A search may return any of the   *)
(* elements that compare equal.  `call` is the function called with its    *)
(* arguments, `result` what it returned or stored through its last         *)
(* argument; a call of anything else leaves both empty.                    *)
(***************************************************************************)
EXTENDS FiniteSets, Integers

CONSTANTS
    Handles,        \* the containers
    Elems,          \* the elements
    Key,            \* what the comparator compares
    NULL            \* the pointer to no element

VARIABLES
    held,           \* the elements of each container
    call,           \* <<function, container, element>>
    result          \* a pointer, a count or a truth value of C

-----------------------------------------------------------------------------

Like(h, e)  == {x \in held[h] : Key[x] = Key[e]}
Found(h, e) == IF Like(h, e) = {} THEN {NULL} ELSE Like(h, e)

With(h, e)    == [held EXCEPT ![h] = @ \cup {e}]
Without(h, e) == [held EXCEPT ![h] = @ \ {e}]

Free(e) == \A h \in Handles : e \notin held[h]

Add(h, e) ==
    /\ Free(e)
    /\ held' = With(h, e) /\ result' = NULL

AddIfNotMember(h, e) ==
    /\ Free(e)
    /\ result' \in Found(h, e)
    /\ held' = IF result' = NULL THEN With(h, e) ELSE held

Delete(h, e) ==
    /\ e \in held[h]
    /\ held' = Without(h, e) /\ result' = NULL

DeleteIfMember(h, e) ==
    /\ result' \in Found(h, e)
    /\ held' = Without(h, result')

FindMember(h, e) == held' = held /\ result' \in Found(h, e)

IsMember(h, e) ==
    held' = held /\ result' = IF e \in held[h] THEN 1 ELSE 0

Length(h) == held' = held /\ result' = Cardinality(held[h])

(* Sorting and reversing keep the elements.                                *)
Rearrange == held' = held /\ result' = NULL

(* The elements of the second container are appended to the first.         *)
Concat(h, g) ==
    /\ held' = [held EXCEPT ![h] = @ \cup held[g], ![g] = {}]
    /\ result' = NULL

(* The caller has freed every element.                                     *)
Destroy(h) == held' = [held EXCEPT ![h] = {}] /\ result' = NULL

-----------------------------------------------------------------------------

Init == held = [h \in Handles |-> {}] /\ call = <<>> /\ result = NULL

Does(name, h, e) == call' = <<name, h, e>>

Next ==
    \/ \E h \in Handles :
        \/ \E e \in Elems :
            \/ Does("add", h, e) /\ Add(h, e)
            \/ Does("add_if_not_member", h, e) /\ AddIfNotMember(h, e)
            \/ Does("delete", h, e) /\ Delete(h, e)
            \/ Does("delete_if_member", h, e) /\ DeleteIfMember(h, e)
            \/ Does("find_member", h, e) /\ FindMember(h, e)
            \/ Does("is_member", h, e) /\ IsMember(h, e)
        \/ Does("len", h, NULL) /\ Length(h)
        \/ Does("rearrange", h, NULL) /\ Rearrange
        \/ Does("destroy", h, NULL) /\ Destroy(h)
        \/ \E g \in Handles \ {h} : Does("concat", h, g) /\ Concat(h, g)
    \/ call' = <<>> /\ Rearrange

Spec == Init /\ [][Next]_<<held, call, result>>

=============================================================================
