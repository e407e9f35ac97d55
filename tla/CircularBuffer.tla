--------------------------- MODULE CircularBuffer ---------------------------
(***************************************************************************)
(* src/circular_buffer.c: a ring in memory shared by a protection domain    *)
(* that puts and one that gets.  There is no lock: every access to the      *)
(* shared head, tail, full flag and data is a step, and the barriers keep   *)
(* each side's accesses in order.  The cache operations around them move    *)
(* nothing on one coherent processor.                                       *)
(*                                                                          *)
(* `queue` is a history variable: what a queue would hold, an item joining  *)
(* it when head moves past it and leaving it when tail does.                *)
(***************************************************************************)
EXTENDS Integers, Sequences

CONSTANTS
    Size,       \* cb->max
    Room,       \* the producer puts only when fewer items are queued
    Overlap,    \* whether one side may be called while the other runs
    LastItem    \* bounds the items put, which are numbered from 1

ASSUME RingAssumption ==
    Size \in Nat \ {0} /\ Room \in Nat /\ Overlap \in BOOLEAN /\ LastItem \in Nat

VARIABLES
    buffer, head, tail, full,   \* the shared structure
    putting,    \* circular_buffer_put: [at, tail, full], its place and what
                \* it has read
    getting,    \* circular_buffer_get: [at, head, tail, data, nonEmpty]; the
                \* last one, history, is whether the queue held an item at
                \* the call
    item,       \* the number of the next item
    queue       \* history

shared == <<buffer, head, tail, full>>

vars == <<buffer, head, tail, full, putting, getting, item, queue>>

Places == 0 .. Size - 1

After(n) == (n + 1) % Size

Oldest(q) == IF q = <<>> THEN 0 ELSE q[1]

Younger(q) == IF q = <<>> THEN q ELSE Tail(q)

-----------------------------------------------------------------------------
(* circular_buffer_put()                                                   *)

PutIdle == [at |-> "idle", tail |-> 0, full |-> FALSE]

To(place) == putting' = [putting EXCEPT !.at = place]

(* The item is written before anything else is looked at.                  *)
PutItem ==
    /\ putting.at = "idle"
    /\ Overlap \/ getting.at = "idle"
    /\ Len(queue) < Room /\ item <= LastItem
    /\ buffer' = [buffer EXCEPT ![head] = item]
    /\ item' = item + 1
    /\ To("checkFull")
    /\ UNCHANGED <<head, tail, full, getting, queue>>

(* Mutant: the oldest item of a full buffer is overwritten but not dropped. *)
NeverCheckFull ==
    /\ putting.at = "checkFull"
    /\ To("advance")
    /\ UNCHANGED <<shared, getting, item, queue>>

CheckFull ==
    /\ putting.at = "checkFull"
    /\ To(IF full THEN "readTail" ELSE "advance")
    /\ UNCHANGED <<shared, getting, item, queue>>

(* A full buffer loses its oldest item: tail is read, then written.        *)
PutReadTail ==
    /\ putting.at = "readTail"
    /\ putting' = [putting EXCEPT !.at = "bumpTail", !.tail = tail]
    /\ UNCHANGED <<shared, getting, item, queue>>

BumpTail ==
    /\ putting.at = "bumpTail"
    /\ tail' = After(putting.tail)
    /\ queue' = Younger(queue)
    /\ To("advance")
    /\ UNCHANGED <<buffer, head, full, getting, item>>

Advance ==
    /\ putting.at = "advance"
    /\ head' = After(head)
    /\ queue' = Append(queue, buffer[head])
    /\ To("compare")
    /\ UNCHANGED <<buffer, tail, full, getting, item>>

(* Mutant: a ring that has just become full is taken for an empty one.     *)
CompareNothing ==
    /\ putting.at = "compare"
    /\ putting' = [putting EXCEPT !.at = "setFull", !.full = FALSE]
    /\ UNCHANGED <<shared, getting, item, queue>>

Compare ==
    /\ putting.at = "compare"
    /\ putting' = [putting EXCEPT !.at = "setFull", !.full = (head = tail)]
    /\ UNCHANGED <<shared, getting, item, queue>>

SetFull ==
    /\ putting.at = "setFull"
    /\ full' = putting.full
    /\ putting' = PutIdle
    /\ UNCHANGED <<buffer, head, tail, getting, item, queue>>

-----------------------------------------------------------------------------
(* circular_buffer_get()                                                   *)

GetIdle ==
    [at |-> "idle", head |-> 0, tail |-> 0, data |-> 0, nonEmpty |-> FALSE]

(* The empty test reads full, then head, then tail.                        *)
GetReadFull ==
    /\ getting.at = "idle"
    /\ Overlap \/ putting.at = "idle"
    /\ getting' = [getting EXCEPT !.at = IF full THEN "readPlace" ELSE "readHead",
                                  !.nonEmpty = queue # <<>>]
    /\ UNCHANGED <<shared, putting, item, queue>>

GetReadHead ==
    /\ getting.at = "readHead"
    /\ getting' = [getting EXCEPT !.at = "readTail", !.head = head]
    /\ UNCHANGED <<shared, putting, item, queue>>

FoundEmpty ==
    /\ getting.at = "readTail" /\ tail = getting.head
    /\ getting' = GetIdle
    /\ UNCHANGED <<shared, putting, item, queue>>

FoundItem ==
    /\ getting.at = "readTail" /\ tail # getting.head
    /\ getting' = [getting EXCEPT !.at = "readPlace"]
    /\ UNCHANGED <<shared, putting, item, queue>>

GetReadPlace ==
    /\ getting.at = "readPlace"
    /\ getting' = [getting EXCEPT !.at = "readItem", !.tail = tail]
    /\ UNCHANGED <<shared, putting, item, queue>>

GetReadItem ==
    /\ getting.at = "readItem"
    /\ getting' = [getting EXCEPT !.at = "clearFull", !.data = buffer[getting.tail]]
    /\ UNCHANGED <<shared, putting, item, queue>>

(* Mutant: a ring stays full when an item is taken.                        *)
KeepFull ==
    /\ getting.at = "clearFull"
    /\ getting' = [getting EXCEPT !.at = "loadTail"]
    /\ UNCHANGED <<shared, putting, item, queue>>

ClearFull ==
    /\ getting.at = "clearFull"
    /\ full' = FALSE
    /\ getting' = [getting EXCEPT !.at = "loadTail"]
    /\ UNCHANGED <<buffer, head, tail, putting, item, queue>>

LoadTail ==
    /\ getting.at = "loadTail"
    /\ getting' = [getting EXCEPT !.at = "storeTail", !.tail = tail]
    /\ UNCHANGED <<shared, putting, item, queue>>

StoreTail ==
    /\ getting.at = "storeTail"
    /\ tail' = After(getting.tail)
    /\ queue' = Younger(queue)
    /\ getting' = GetIdle
    /\ UNCHANGED <<buffer, head, full, putting, item>>

-----------------------------------------------------------------------------

(* circular_buffer_reset(), by whoever knows that neither side is running. *)
Reset ==
    /\ putting.at = "idle" /\ getting.at = "idle"
    /\ head' = 0 /\ tail' = 0 /\ full' = FALSE
    /\ queue' = <<>>
    /\ UNCHANGED <<buffer, putting, getting, item>>

(* circular_buffer_init() has reset the ring and leaves its data alone.    *)
Init ==
    /\ buffer = [n \in Places |-> 0]
    /\ head = 0 /\ tail = 0 /\ full = FALSE
    /\ putting = PutIdle /\ getting = GetIdle
    /\ item = 1 /\ queue = <<>>

Put == PutItem \/ CheckFull \/ PutReadTail \/ BumpTail \/ Advance \/ Compare \/ SetFull

Get == \/ GetReadFull \/ GetReadHead \/ FoundEmpty \/ FoundItem \/ GetReadPlace
       \/ GetReadItem \/ ClearFull \/ LoadTail \/ StoreTail

Next == Put \/ Get \/ Reset

Spec == Init /\ [][Next]_vars

-----------------------------------------------------------------------------
(* Properties.                                                             *)

Quiet == putting.at = "idle" /\ getting.at = "idle"

(* While nobody is in a call, the ring holds the queue from tail on, and    *)
(* the full flag tells a full ring from an empty one.                      *)
RingHoldsQueue ==
    Quiet =>
        /\ Len(queue) <= Size
        /\ \A n \in 1 .. Len(queue) : queue[n] = buffer[(tail + n - 1) % Size]
        /\ head = (tail + Len(queue)) % Size
        /\ full <=> Len(queue) = Size

(* The oldest item of a full ring, once the new one lies in its place.     *)
Overwritten ==
    putting.at \in {"checkFull", "readTail", "bumpTail"} /\ Len(queue) = Size

(* RingHoldsQueue, step by step through the calls: where each is, what it  *)
(* has read is still so, and only the flag may lag behind the ring.        *)
RingInv ==
    /\ buffer \in [Places -> Nat] /\ queue \in Seq(Nat) /\ item \in Nat
    /\ head \in Places /\ tail \in Places /\ full \in BOOLEAN
    /\ putting \in [at : {"idle", "checkFull", "readTail", "bumpTail", "advance",
                          "compare", "setFull"},
                    tail : Places, full : BOOLEAN]
    /\ getting \in [at : {"idle", "readHead", "readTail", "readPlace", "readItem",
                          "clearFull", "loadTail", "storeTail"},
                    head : Places, tail : Places, data : Nat, nonEmpty : BOOLEAN]
    /\ putting.at = "idle" \/ getting.at = "idle"
    /\ Len(queue) <= Size
    /\ head = (tail + Len(queue)) % Size
    /\ \A n \in 1 .. Len(queue) :
        \/ Overwritten /\ n = 1
        \/ queue[n] = buffer[(tail + n - 1) % Size]
    /\ putting.at \in {"idle", "checkFull"} /\ getting.at \notin {"loadTail", "storeTail"}
            => (full <=> Len(queue) = Size)
    /\ putting.at \in {"readTail", "bumpTail"} => Len(queue) = Size
    /\ putting.at = "bumpTail" => putting.tail = tail
    /\ putting.at = "advance" => Len(queue) < Size
    /\ putting.at \in {"compare", "setFull"} => queue # <<>>
    /\ putting.at = "setFull" => (putting.full <=> Len(queue) = Size)
    /\ getting.at \in {"readHead", "readTail"} =>
            Len(queue) < Size /\ (getting.nonEmpty <=> queue # <<>>)
    /\ getting.at = "readTail" => getting.head = head
    /\ getting.at \in {"readPlace", "readItem", "clearFull", "loadTail", "storeTail"} =>
            queue # <<>>
    /\ getting.at \in {"readItem", "storeTail"} => getting.tail = tail
    /\ getting.at \in {"clearFull", "loadTail", "storeTail"} =>
            getting.data = Oldest(queue)
    /\ getting.at \in {"loadTail", "storeTail"} => ~full

(* circular_buffer_get returns the oldest item, one that was put whole and *)
(* has not been overwritten or returned before.                            *)
GetReturnsOldest ==
    [][StoreTail => queue # <<>> /\ getting.data = Oldest(queue)]_vars

(* It finds the buffer empty only when it was when the call began.          *)
EmptyIsTrue == [][FoundEmpty => ~getting.nonEmpty]_vars

(* circular_buffer.h:11: the flag tells whether the buffer is full.        *)
FullFlagTrue == Quiet => (full <=> Len(queue) = Size)

=============================================================================
