------------------------ MODULE CircularBufferProofs ------------------------
(***************************************************************************)
(* What holds of src/circular_buffer.c, for a ring of any size and any     *)
(* number of items, as long as neither side is called while the other      *)
(* runs: the ring is a queue that drops its oldest item when it is full.   *)
(***************************************************************************)
EXTENDS CircularBuffer, TLAPS

-----------------------------------------------------------------------------
(* Places.                                                                 *)

(* A place no more than a ring away, without the remainder.                *)
LEMMA Around ==
    ASSUME NEW t \in Places, NEW k \in 0 .. Size
    PROVE  (t + k) % Size = IF t + k < Size THEN t + k ELSE (t + k) - Size
<1>1. Size \in Nat \ {0} /\ t \in Nat /\ k \in Nat /\ t < Size /\ k <= Size
  BY RingAssumption DEF Places
<1>2. ASSUME NEW a \in Nat, NEW b \in Nat \ {0}, a < b PROVE a % b = a
  BY <1>2
<1>3. ASSUME NEW a \in Nat, NEW b \in Nat \ {0}, b <= a, a < b + b
      PROVE  a % b = a - b
  BY <1>3
<1>4. t + k \in Nat /\ t + k < Size + Size
  BY <1>1
<1> DEFINE s == t + k
<1>5. CASE s < Size
  <2>1. s % Size = s
    BY <1>1, <1>2, <1>4, <1>5
  <2>2. QED BY <1>5, <2>1
<1>6. CASE ~(s < Size)
  <2>1. s \in Nat /\ Size \in Nat \ {0} /\ Size <= s /\ s < Size + Size
    BY <1>1, <1>4, <1>6
  <2>2. s % Size = s - Size
    BY <1>3, <2>1
  <2>3. QED BY <1>6, <2>2
<1>7. QED BY <1>5, <1>6

(* The place n after t.                                                    *)
Place(t, n) == IF t + n < Size THEN t + n ELSE (t + n) - Size

LEMMA PlaceProps ==
    ASSUME NEW t \in Places, NEW n \in 0 .. Size
    PROVE  /\ (t + n) % Size = Place(t, n)
           /\ Place(t, n) \in Places
           /\ n > 0 => (t + n - 1) % Size = Place(t, n - 1)
           /\ After(t) = Place(t, 1)
           /\ Place(t, n) = t <=> n \in {0, Size}
           /\ n > 0 => Place(Place(t, 1), n - 1) = Place(t, n)
           /\ n < Size => After(Place(t, n)) = Place(t, n + 1)
           /\ \A m \in 0 .. Size - 1 : n < Size /\ Place(t, m) = Place(t, n) => m = n
<1>1. Size \in Nat \ {0} /\ t \in Nat /\ n \in Nat /\ t < Size /\ n <= Size
  BY RingAssumption DEF Places
<1>2. (t + n) % Size = Place(t, n) /\ Place(t, n) \in Places
  <2>1. (t + n) % Size = Place(t, n)
    BY <1>1, Around DEF Place
  <2>2. Place(t, n) \in Places
    BY <1>1 DEF Place, Places
  <2>3. QED BY <2>1, <2>2
<1>3. n > 0 => (t + n - 1) % Size = Place(t, n - 1)
  <2> SUFFICES ASSUME n > 0 PROVE (t + n - 1) % Size = Place(t, n - 1)
    OBVIOUS
  <2>1. n - 1 \in 0 .. Size /\ t + n - 1 = t + (n - 1)
    BY <1>1
  <2>2. QED BY <2>1, Around DEF Place
<1>4. ASSUME NEW s \in Places PROVE After(s) = Place(s, 1)
  BY <1>1, Around DEF Place, After
<1>5. Place(t, n) = t <=> n \in {0, Size}
  BY <1>1 DEF Place
<1>6. n > 0 => Place(Place(t, 1), n - 1) = Place(t, n)
  BY <1>1 DEF Place
<1>7. n < Size => After(Place(t, n)) = Place(t, n + 1)
  <2>1. After(Place(t, n)) = Place(Place(t, n), 1)
    BY <1>2, <1>4
  <2>2. QED BY <1>1, <2>1 DEF Place
<1>8. \A m \in 0 .. Size - 1 : n < Size /\ Place(t, m) = Place(t, n) => m = n
  BY <1>1 DEF Place
<1>9. QED BY <1>2, <1>3, <1>4, <1>5, <1>6, <1>7, <1>8

(* The queue without its oldest item, and with a new one.                  *)
LEMMA QueueProps ==
    ASSUME NEW q \in Seq(Nat), NEW v \in Nat
    PROVE  /\ Len(q) \in Nat /\ (q = <<>> <=> Len(q) = 0)
           /\ q # <<>> => /\ Oldest(q) = q[1]
                          /\ Younger(q) \in Seq(Nat)
                          /\ Len(Younger(q)) = Len(q) - 1
                          /\ \A n \in 1 .. Len(q) - 1 : Younger(q)[n] = q[n + 1]
           /\ Append(q, v) \in Seq(Nat) /\ Len(Append(q, v)) = Len(q) + 1
           /\ \A n \in 1 .. Len(q) : Append(q, v)[n] = q[n]
           /\ Append(q, v)[Len(q) + 1] = v
BY DEF Oldest, Younger

-----------------------------------------------------------------------------
(* RingInv, in parts: the variables' types, the items' places, and what    *)
(* each place in a call knows.                                             *)

PutStates == [at : {"idle", "checkFull", "readTail", "bumpTail", "advance",
                    "compare", "setFull"},
              tail : Places, full : BOOLEAN]

GetStates == [at : {"idle", "readHead", "readTail", "readPlace", "readItem",
                    "clearFull", "loadTail", "storeTail"},
              head : Places, tail : Places, data : Nat, nonEmpty : BOOLEAN]

RingTypes ==
    /\ buffer \in [Places -> Nat] /\ queue \in Seq(Nat) /\ item \in Nat
    /\ head \in Places /\ tail \in Places /\ full \in BOOLEAN
    /\ putting \in PutStates
    /\ getting \in GetStates
    /\ putting.at = "idle" \/ getting.at = "idle"
    /\ Len(queue) <= Size

Ordered(b, t, q, w) ==
    \A n \in 1 .. Len(q) : (w /\ n = 1) \/ q[n] = b[Place(t, n - 1)]

RingItems ==
    /\ head = Place(tail, Len(queue))
    /\ Ordered(buffer, tail, queue, Overwritten)

PutKnows ==
    /\ putting.at \in {"idle", "checkFull"} /\ getting.at \notin {"loadTail", "storeTail"}
            => (full <=> Len(queue) = Size)
    /\ putting.at \in {"readTail", "bumpTail"} => Len(queue) = Size
    /\ putting.at = "bumpTail" => putting.tail = tail
    /\ putting.at = "advance" => Len(queue) < Size
    /\ putting.at \in {"compare", "setFull"} => queue # <<>>
    /\ putting.at = "setFull" => (putting.full <=> Len(queue) = Size)

GetKnows ==
    /\ getting.at \in {"readHead", "readTail"} =>
            Len(queue) < Size /\ (getting.nonEmpty <=> queue # <<>>)
    /\ getting.at = "readTail" => getting.head = head
    /\ getting.at \in {"readPlace", "readItem", "clearFull", "loadTail", "storeTail"} =>
            queue # <<>>
    /\ getting.at \in {"readItem", "storeTail"} => getting.tail = tail
    /\ getting.at \in {"clearFull", "loadTail", "storeTail"} =>
            getting.data = Oldest(queue)
    /\ getting.at \in {"loadTail", "storeTail"} => ~full

RingParts == RingTypes /\ RingItems /\ PutKnows /\ GetKnows

(* The places, however they are worked out.                                *)
LEMMA PlacesSame ==
    ASSUME NEW b, NEW t \in Places, NEW q \in Seq(Nat), Len(q) <= Size, NEW w
    PROVE  /\ (t + Len(q)) % Size = Place(t, Len(q))
           /\ Ordered(b, t, q, w) <=>
                \A n \in 1 .. Len(q) : (w /\ n = 1) \/ q[n] = b[(t + n - 1) % Size]
<1>1. Len(q) \in 0 .. Size
  BY RingAssumption
<1>2. ASSUME NEW n \in 1 .. Len(q) PROVE (t + n - 1) % Size = Place(t, n - 1)
  BY <1>1, RingAssumption, PlaceProps
<1>3. QED BY <1>1, <1>2, PlaceProps DEF Ordered

LEMMA RingInvParts == RingInv <=> RingParts
<1>1. RingTypes => (RingItems <=>
          /\ head = (tail + Len(queue)) % Size
          /\ \A n \in 1 .. Len(queue) :
                \/ Overwritten /\ n = 1
                \/ queue[n] = buffer[(tail + n - 1) % Size])
  BY PlacesSame DEF RingTypes, RingItems
<1>2. QED BY <1>1, Zenon DEF RingInv, RingParts, RingTypes, PutStates, GetStates,
                           PutKnows, GetKnows

LEMMA RingInvPartsNext == RingInv' <=> RingParts'
<1>1. RingTypes' => (RingItems' <=>
          /\ head' = (tail' + Len(queue')) % Size
          /\ \A n \in 1 .. Len(queue') :
                \/ Overwritten' /\ n = 1
                \/ queue'[n] = buffer'[(tail' + n - 1) % Size])
  <2> SUFFICES ASSUME RingTypes'
      PROVE  RingItems' <=>
          /\ head' = (tail' + Len(queue')) % Size
          /\ \A n \in 1 .. Len(queue') :
                \/ Overwritten' /\ n = 1
                \/ queue'[n] = buffer'[(tail' + n - 1) % Size]
    OBVIOUS
  <2>1. tail' \in Places /\ queue' \in Seq(Nat) /\ Len(queue') <= Size
    BY Zenon DEF RingTypes
  <2> DEFINE w == Overwritten'
  <2>2. RingItems' <=> head' = Place(tail', Len(queue'))
                       /\ Ordered(buffer', tail', queue', w)
    BY Zenon DEF RingItems
  <2> HIDE DEF w
  <2>3. RingItems' <=>
          /\ head' = (tail' + Len(queue')) % Size
          /\ \A n \in 1 .. Len(queue') :
                \/ w /\ n = 1
                \/ queue'[n] = buffer'[(tail' + n - 1) % Size]
    BY <2>1, <2>2, PlacesSame
  <2>4. QED BY <2>3 DEF w
<1>2. QED BY <1>1, Zenon DEF RingInv, RingParts, RingTypes, PutStates, GetStates,
                           PutKnows, GetKnows

(* The first state.                                                        *)
LEMMA RingInit == Init => RingParts
<1> SUFFICES ASSUME Init PROVE RingParts
  OBVIOUS
<1>1. 0 \in Places /\ Size \in Nat \ {0}
  BY RingAssumption DEF Places
<1>2. queue = <<>> /\ Len(queue) = 0 /\ queue \in Seq(Nat)
  BY DEF Init
<1>3. RingTypes
  BY <1>1, <1>2 DEF Init, RingTypes, PutStates, GetStates, PutIdle, GetIdle
<1>4. RingItems
  BY <1>1, <1>2 DEF Init, RingItems, Place, Ordered
<1>5. PutKnows /\ GetKnows
  BY <1>1, <1>2 DEF Init, PutKnows, GetKnows, PutIdle, GetIdle
<1>6. QED BY <1>3, <1>4, <1>5 DEF RingParts

-----------------------------------------------------------------------------
(* circular_buffer_put, step by step.                                      *)

(* A new item is written where no item but the oldest of a full ring lies. *)
LEMMA PutItemKeeps ==
    ASSUME RingParts, ~Overlap, PutItem
    PROVE  RingParts'
<1>1. /\ RingTypes /\ head = Place(tail, Len(queue))
      /\ Ordered(buffer, tail, queue, FALSE)
      /\ PutKnows /\ GetKnows
      /\ putting.at = "idle" /\ getting.at = "idle"
  BY DEF RingParts, RingItems, PutItem, Overwritten, Ordered
<1>2. Len(queue) \in 0 .. Size /\ Size \in Nat \ {0} /\ tail \in Places
  BY <1>1, RingAssumption DEF RingTypes
<1>3. /\ buffer' = [buffer EXCEPT ![head] = item] /\ item' = item + 1
      /\ putting' = [putting EXCEPT !.at = "checkFull"]
      /\ UNCHANGED <<head, tail, full, getting, queue>>
  BY DEF PutItem, To
<1>4. RingTypes'
  <2>1. buffer' \in [Places -> Nat] /\ item' \in Nat
    BY <1>1, <1>3 DEF RingTypes
  <2>2. putting' \in PutStates
    BY <1>1, <1>3 DEF RingTypes, PutStates
  <2>3. QED BY <1>1, <1>3, <2>1, <2>2 DEF RingTypes
<1>5. putting'.at = "checkFull"
  BY <1>1, <1>3 DEF RingTypes, PutStates
<1>6. RingItems'
  <2>1. ASSUME NEW n \in 1 .. Len(queue), ~(Len(queue) = Size /\ n = 1)
        PROVE  queue[n] = buffer'[Place(tail, n - 1)]
    <3>1. n - 1 \in 0 .. Size - 1 /\ Place(tail, n - 1) \in Places
      BY <1>2, PlaceProps
    <3>2. Place(tail, n - 1) # head
      <4>1. CASE Len(queue) < Size
        BY <1>1, <1>2, <3>1, <4>1, PlaceProps
      <4>2. CASE Len(queue) = Size
        <5>1. head = tail /\ n - 1 \notin {0, Size}
          BY <1>1, <1>2, <2>1, <4>2, PlaceProps
        <5>2. QED BY <1>2, <3>1, <5>1, PlaceProps
      <4>3. QED BY <1>2, <4>1, <4>2
    <3>3. buffer'[Place(tail, n - 1)] = buffer[Place(tail, n - 1)]
      BY <1>1, <1>3, <3>1, <3>2 DEF RingTypes
    <3>4. QED BY <1>1, <3>3 DEF Ordered
  <2>2. Ordered(buffer', tail', queue', Overwritten')
    BY <1>3, <1>5, <2>1 DEF Ordered, Overwritten
  <2>3. QED BY <1>1, <1>3, <2>2 DEF RingItems
<1>7. PutKnows' /\ GetKnows'
  BY <1>1, <1>3, <1>5 DEF PutKnows, GetKnows
<1>8. QED BY <1>4, <1>6, <1>7 DEF RingParts

(* Steps that look at the ring and change nothing in it.                   *)
LEMMA CheckFullKeeps ==
    ASSUME RingParts, CheckFull
    PROVE  RingParts'
<1>1. /\ RingTypes /\ RingItems /\ PutKnows /\ GetKnows
      /\ putting.at = "checkFull" /\ getting.at = "idle"
  BY DEF RingParts, CheckFull, RingTypes
<1>2. /\ putting' = [putting EXCEPT !.at = IF full THEN "readTail" ELSE "advance"]
      /\ UNCHANGED <<buffer, head, tail, full, getting, item, queue>>
  BY DEF CheckFull, To, shared
<1>3. /\ putting' \in PutStates
      /\ putting'.at = IF full THEN "readTail" ELSE "advance"
  BY <1>1, <1>2 DEF RingTypes, PutStates
<1>4. RingTypes'
  BY <1>1, <1>2, <1>3 DEF RingTypes
<1>5. full <=> Len(queue) = Size
  BY <1>1 DEF PutKnows
<1>6. Len(queue) \in Nat /\ Size \in Nat /\ Len(queue) <= Size
  BY <1>1, RingAssumption DEF RingTypes
<1>7. RingItems'
  BY <1>1, <1>2, <1>3, <1>5 DEF RingItems, Ordered, Overwritten
<1>8. PutKnows' /\ GetKnows'
  BY <1>1, <1>2, <1>3, <1>5, <1>6 DEF PutKnows, GetKnows
<1>9. QED BY <1>4, <1>7, <1>8 DEF RingParts

LEMMA PutReadTailKeeps ==
    ASSUME RingParts, PutReadTail
    PROVE  RingParts'
<1>1. /\ RingTypes /\ RingItems /\ PutKnows /\ GetKnows
      /\ putting.at = "readTail" /\ getting.at = "idle"
  BY DEF RingParts, PutReadTail, RingTypes
<1>2. /\ putting' = [putting EXCEPT !.at = "bumpTail", !.tail = tail]
      /\ UNCHANGED <<buffer, head, tail, full, getting, item, queue>>
  BY DEF PutReadTail, shared
<1>3. putting' \in PutStates /\ putting'.at = "bumpTail" /\ putting'.tail = tail
  BY <1>1, <1>2 DEF RingTypes, PutStates
<1>4. RingTypes'
  BY <1>1, <1>2, <1>3 DEF RingTypes
<1>5. RingItems'
  BY <1>1, <1>2, <1>3 DEF RingItems, Ordered, Overwritten
<1>6. PutKnows' /\ GetKnows'
  BY <1>1, <1>2, <1>3 DEF PutKnows, GetKnows
<1>7. QED BY <1>4, <1>5, <1>6 DEF RingParts

(* The oldest item leaves: its place is the new one's.                     *)
LEMMA YoungerOrdered ==
    ASSUME RingTypes, RingItems, queue # <<>>
    PROVE  /\ After(tail) \in Places
           /\ head = Place(After(tail), Len(Younger(queue)))
           /\ Ordered(buffer, After(tail), Younger(queue), FALSE)
           /\ Younger(queue) \in Seq(Nat)
           /\ Len(Younger(queue)) = Len(queue) - 1
<1>1. /\ queue \in Seq(Nat) /\ tail \in Places /\ head = Place(tail, Len(queue))
      /\ Ordered(buffer, tail, queue, Overwritten)
      /\ Size \in Nat \ {0} /\ Len(queue) \in 1 .. Size
  BY QueueProps, RingAssumption DEF RingTypes, RingItems
<1>2. /\ Younger(queue) \in Seq(Nat)
      /\ Len(Younger(queue)) = Len(queue) - 1
      /\ \A n \in 1 .. Len(queue) - 1 : Younger(queue)[n] = queue[n + 1]
  BY <1>1, QueueProps
<1>3. After(tail) = Place(tail, 1) /\ After(tail) \in Places
  BY <1>1, PlaceProps
<1>4. head = Place(After(tail), Len(queue) - 1)
  BY <1>1, <1>3, PlaceProps
<1>5. ASSUME NEW n \in 1 .. Len(queue) - 1
      PROVE  Younger(queue)[n] = buffer[Place(After(tail), n - 1)]
  <2>1. n + 1 \in 1 .. Len(queue) /\ n \in 0 .. Size /\ n > 0
    BY <1>1
  <2>2. Place(After(tail), n - 1) = Place(tail, n)
    BY <1>1, <1>3, <2>1, PlaceProps
  <2>3. queue[n + 1] = buffer[Place(tail, n)]
    <3>1. n + 1 # 1 /\ (n + 1) - 1 = n
      BY <2>1
    <3>2. queue[n + 1] = buffer[Place(tail, (n + 1) - 1)]
      BY <1>1, <2>1, <3>1 DEF Ordered
    <3>3. QED BY <3>1, <3>2
  <2>4. QED BY <1>2, <2>2, <2>3
<1>6. QED BY <1>2, <1>3, <1>4, <1>5 DEF Ordered

LEMMA BumpTailKeeps ==
    ASSUME RingParts, BumpTail
    PROVE  RingParts'
<1>1. /\ RingTypes /\ RingItems /\ PutKnows /\ GetKnows
      /\ putting.at = "bumpTail" /\ getting.at = "idle"
  BY DEF RingParts, BumpTail, RingTypes
<1>2. /\ putting' = [putting EXCEPT !.at = "advance"]
      /\ tail' = After(putting.tail) /\ queue' = Younger(queue)
      /\ UNCHANGED <<buffer, head, full, getting, item>>
  BY DEF BumpTail, To
<1>3. putting' \in PutStates /\ putting'.at = "advance"
  BY <1>1, <1>2 DEF RingTypes, PutStates
<1>4. /\ tail' = After(tail) /\ Len(queue) = Size /\ queue # <<>>
      /\ Size \in Nat \ {0}
  BY <1>1, <1>2, QueueProps, RingAssumption DEF PutKnows, RingTypes
<1>5. /\ tail' \in Places /\ head = Place(tail', Len(queue'))
      /\ Ordered(buffer, tail', queue', FALSE)
      /\ queue' \in Seq(Nat) /\ Len(queue') = Size - 1
  BY <1>1, <1>2, <1>4, YoungerOrdered
<1>6. RingTypes'
  BY <1>1, <1>2, <1>3, <1>4, <1>5 DEF RingTypes
<1>7. RingItems'
  BY <1>2, <1>5 DEF RingItems, Ordered
<1>8. PutKnows' /\ GetKnows'
  BY <1>1, <1>2, <1>3, <1>4, <1>5 DEF PutKnows, GetKnows
<1>9. QED BY <1>6, <1>7, <1>8 DEF RingParts

(* The new item joins at the end.                                          *)
LEMMA AdvanceKeeps ==
    ASSUME RingParts, Advance
    PROVE  RingParts'
<1>1. /\ RingTypes /\ RingItems /\ PutKnows /\ GetKnows
      /\ putting.at = "advance" /\ getting.at = "idle"
  BY DEF RingParts, Advance, RingTypes
<1> DEFINE v == buffer[head]
<1>2. /\ putting' = [putting EXCEPT !.at = "compare"]
      /\ head' = After(head) /\ queue' = Append(queue, v)
      /\ UNCHANGED <<buffer, tail, full, getting, item>>
  BY DEF Advance, To
<1>3. putting' \in PutStates /\ putting'.at = "compare"
  BY <1>1, <1>2 DEF RingTypes, PutStates
<1>4. /\ queue \in Seq(Nat) /\ v \in Nat /\ tail \in Places
      /\ Len(queue) \in 0 .. Size - 1 /\ Size \in Nat \ {0}
      /\ head = Place(tail, Len(queue))
      /\ Ordered(buffer, tail, queue, FALSE)
  <2>1. Ordered(buffer, tail, queue, FALSE)
    BY <1>1 DEF RingItems, Overwritten, Ordered
  <2>2. /\ buffer \in [Places -> Nat] /\ head \in Places /\ tail \in Places
        /\ queue \in Seq(Nat) /\ head = Place(tail, Len(queue))
    BY <1>1 DEF RingTypes, RingItems
  <2>3. v \in Nat
    BY <2>2
  <2>4. Len(queue) \in Nat /\ Len(queue) < Size /\ Size \in Nat \ {0}
    BY <1>1, <2>2, QueueProps, RingAssumption DEF PutKnows
  <2>5. Len(queue) \in 0 .. Size - 1
    BY <2>4
  <2> HIDE DEF v
  <2>6. QED BY <2>1, <2>2, <2>3, <2>4, <2>5
<1>5. /\ queue' \in Seq(Nat) /\ Len(queue') = Len(queue) + 1
      /\ \A n \in 1 .. Len(queue) : queue'[n] = queue[n]
      /\ queue'[Len(queue) + 1] = v
      /\ queue' # <<>>
  <2> HIDE DEF v
  <2>1. QED BY <1>2, <1>4, QueueProps
<1>6. head' = Place(tail, Len(queue) + 1) /\ head' \in Places
  <2>1. Len(queue) \in 0 .. Size /\ Len(queue) < Size /\ Len(queue) + 1 \in 0 .. Size
    BY <1>4
  <2>2. After(Place(tail, Len(queue))) = Place(tail, Len(queue) + 1)
    BY <1>4, <2>1, PlaceProps
  <2>3. Place(tail, Len(queue) + 1) \in Places
    BY <1>4, <2>1, PlaceProps
  <2>4. QED BY <1>2, <1>4, <2>2, <2>3
<1>7. RingTypes'
  BY <1>1, <1>2, <1>3, <1>4, <1>5, <1>6 DEF RingTypes
<1>8. ASSUME NEW n \in 1 .. Len(queue') PROVE queue'[n] = buffer[Place(tail, n - 1)]
  <2>1. CASE n \in 1 .. Len(queue)
    BY <1>4, <1>5, <2>1 DEF Ordered
  <2>2. CASE n = Len(queue) + 1
    <3>1. n - 1 = Len(queue)
      BY <1>4, <2>2
    <3>2. QED BY <1>4, <1>5, <2>2, <3>1
  <2>3. QED BY <1>4, <1>5, <2>1, <2>2
<1>9. RingItems'
  BY <1>2, <1>5, <1>6, <1>8 DEF RingItems, Ordered
<1>10. PutKnows' /\ GetKnows'
  BY <1>1, <1>2, <1>3, <1>5 DEF PutKnows, GetKnows
<1>11. QED BY <1>7, <1>9, <1>10 DEF RingParts

(* With an item in the ring, head and tail meet exactly when it is full.   *)
LEMMA CompareKeeps ==
    ASSUME RingParts, Compare
    PROVE  RingParts'
<1>1. /\ RingTypes /\ RingItems /\ PutKnows /\ GetKnows
      /\ putting.at = "compare" /\ getting.at = "idle"
  BY DEF RingParts, Compare, RingTypes
<1>2. /\ putting' = [putting EXCEPT !.at = "setFull", !.full = (head = tail)]
      /\ UNCHANGED <<buffer, head, tail, full, getting, item, queue>>
  BY DEF Compare, shared
<1>3. /\ putting' \in PutStates /\ putting'.at = "setFull"
      /\ putting'.full = (head = tail)
  BY <1>1, <1>2 DEF RingTypes, PutStates
<1>4. RingTypes'
  BY <1>1, <1>2, <1>3 DEF RingTypes
<1>5. RingItems'
  BY <1>1, <1>2, <1>3 DEF RingItems, Ordered, Overwritten
<1>6. head = tail <=> Len(queue) = Size
  <2>1. /\ queue # <<>> /\ queue \in Seq(Nat) /\ tail \in Places
        /\ Len(queue) \in 1 .. Size /\ head = Place(tail, Len(queue))
    BY <1>1, QueueProps, RingAssumption DEF PutKnows, RingTypes, RingItems
  <2>2. Len(queue) \in 0 .. Size /\ Len(queue) # 0
    BY <2>1
  <2>3. QED BY <2>1, <2>2, PlaceProps
<1>7. PutKnows' /\ GetKnows'
  BY <1>1, <1>2, <1>3, <1>6 DEF PutKnows, GetKnows
<1>8. QED BY <1>4, <1>5, <1>7 DEF RingParts

LEMMA SetFullKeeps ==
    ASSUME RingParts, SetFull
    PROVE  RingParts'
<1>1. /\ RingTypes /\ RingItems /\ PutKnows /\ GetKnows
      /\ putting.at = "setFull" /\ getting.at = "idle"
  BY DEF RingParts, SetFull, RingTypes
<1>2. /\ full' = putting.full /\ putting' = PutIdle
      /\ UNCHANGED <<buffer, head, tail, getting, item, queue>>
  BY DEF SetFull
<1>3. putting' \in PutStates /\ putting'.at = "idle"
  BY <1>2, RingAssumption DEF PutIdle, PutStates, Places
<1>4. full' \in BOOLEAN /\ (full' <=> Len(queue) = Size)
  BY <1>1, <1>2 DEF RingTypes, PutStates, PutKnows
<1>5. RingTypes'
  BY <1>1, <1>2, <1>3, <1>4 DEF RingTypes
<1>6. RingItems'
  BY <1>1, <1>2, <1>3 DEF RingItems, Ordered, Overwritten
<1>7. PutKnows' /\ GetKnows'
  BY <1>1, <1>2, <1>3, <1>4 DEF PutKnows, GetKnows
<1>8. QED BY <1>5, <1>6, <1>7 DEF RingParts

-----------------------------------------------------------------------------
(* circular_buffer_get, step by step.                                      *)

(* What a step that leaves the ring alone must show.                       *)
LEMMA GetLooks ==
    ASSUME RingParts, putting.at = "idle",
           getting' \in GetStates, GetKnows', PutKnows',
           UNCHANGED <<buffer, head, tail, full, putting, item, queue>>
    PROVE  RingParts'
<1>1. RingTypes'
  BY DEF RingParts, RingTypes
<1>2. RingItems'
  BY DEF RingParts, RingItems, Ordered, Overwritten
<1>3. QED BY <1>1, <1>2 DEF RingParts

LEMMA GetReadFullKeeps ==
    ASSUME RingParts, ~Overlap, GetReadFull
    PROVE  RingParts'
<1>1. /\ RingTypes /\ PutKnows /\ GetKnows
      /\ putting.at = "idle" /\ getting.at = "idle"
  BY DEF RingParts, GetReadFull
<1>2. /\ getting' = [getting EXCEPT !.at = IF full THEN "readPlace" ELSE "readHead",
                                    !.nonEmpty = queue # <<>>]
      /\ UNCHANGED <<buffer, head, tail, full, putting, item, queue>>
  BY DEF GetReadFull, shared
<1>3. /\ getting' \in GetStates
      /\ getting'.at = IF full THEN "readPlace" ELSE "readHead"
      /\ getting'.nonEmpty = (queue # <<>>)
  BY <1>1, <1>2 DEF RingTypes, GetStates
<1>4. /\ full <=> Len(queue) = Size
      /\ Len(queue) \in Nat /\ Size \in Nat \ {0} /\ Len(queue) <= Size
      /\ queue = <<>> <=> Len(queue) = 0
  BY <1>1, QueueProps, RingAssumption DEF PutKnows, RingTypes
<1>5. PutKnows'
  BY <1>1, <1>2, <1>3 DEF PutKnows
<1>6. GetKnows'
  <2>1. CASE full
    <3>1. queue # <<>> /\ queue' = queue /\ getting'.at = "readPlace"
      BY <1>2, <1>3, <1>4, <2>1
    <3>2. QED BY <3>1 DEF GetKnows
  <2>2. CASE ~full
    <3>1. Len(queue) < Size
      BY <1>4, <2>2
    <3>2. queue' = queue /\ getting'.at = "readHead" /\ Size' = Size
      BY <1>2, <1>3, <2>2
    <3>3. getting'.nonEmpty <=> queue' # <<>>
      BY <1>3, <3>2
    <3>4. QED BY <3>1, <3>2, <3>3 DEF GetKnows
  <2>3. QED BY <2>1, <2>2
<1>7. QED BY <1>1, <1>2, <1>3, <1>5, <1>6, GetLooks

LEMMA GetReadHeadKeeps ==
    ASSUME RingParts, GetReadHead
    PROVE  RingParts'
<1>1. /\ RingTypes /\ PutKnows /\ GetKnows
      /\ putting.at = "idle" /\ getting.at = "readHead"
  BY DEF RingParts, GetReadHead, RingTypes
<1>2. /\ getting' = [getting EXCEPT !.at = "readTail", !.head = head]
      /\ UNCHANGED <<buffer, head, tail, full, putting, item, queue>>
  BY DEF GetReadHead, shared
<1>3. /\ getting' \in GetStates /\ getting'.at = "readTail"
      /\ getting'.head = head /\ getting'.nonEmpty = getting.nonEmpty
  BY <1>1, <1>2 DEF RingTypes, GetStates
<1>4. PutKnows' /\ GetKnows'
  BY <1>1, <1>2, <1>3 DEF PutKnows, GetKnows
<1>5. QED BY <1>1, <1>2, <1>3, <1>4, GetLooks

(* In a ring that is not full, head and tail meet when it is empty.        *)
LEMMA MeetEmpty ==
    ASSUME RingParts, getting.at = "readTail"
    PROVE  tail = getting.head <=> queue = <<>>
<1>1. /\ getting.head = head /\ head = Place(tail, Len(queue))
      /\ tail \in Places /\ queue \in Seq(Nat)
      /\ Len(queue) \in 0 .. Size /\ Len(queue) # Size
      /\ queue = <<>> <=> Len(queue) = 0
  BY QueueProps, RingAssumption DEF RingParts, RingTypes, RingItems, GetKnows
<1>2. QED BY <1>1, PlaceProps

LEMMA FoundEmptyKeeps ==
    ASSUME RingParts, FoundEmpty
    PROVE  RingParts'
<1>1. /\ RingTypes /\ PutKnows /\ GetKnows
      /\ putting.at = "idle" /\ getting.at = "readTail"
  BY DEF RingParts, FoundEmpty, RingTypes
<1>2. /\ getting' = GetIdle
      /\ UNCHANGED <<buffer, head, tail, full, putting, item, queue>>
  BY DEF FoundEmpty, shared
<1>3. getting' \in GetStates /\ getting'.at = "idle"
  BY <1>2, RingAssumption DEF GetIdle, GetStates, Places
<1>4. PutKnows' /\ GetKnows'
  BY <1>1, <1>2, <1>3 DEF PutKnows, GetKnows
<1>5. QED BY <1>1, <1>2, <1>3, <1>4, GetLooks

LEMMA FoundItemKeeps ==
    ASSUME RingParts, FoundItem
    PROVE  RingParts'
<1>1. /\ RingTypes /\ PutKnows /\ GetKnows
      /\ putting.at = "idle" /\ getting.at = "readTail" /\ queue # <<>>
  BY MeetEmpty DEF RingParts, FoundItem, RingTypes
<1>2. /\ getting' = [getting EXCEPT !.at = "readPlace"]
      /\ UNCHANGED <<buffer, head, tail, full, putting, item, queue>>
  BY DEF FoundItem, shared
<1>3. getting' \in GetStates /\ getting'.at = "readPlace"
  BY <1>1, <1>2 DEF RingTypes, GetStates
<1>4. PutKnows' /\ GetKnows'
  BY <1>1, <1>2, <1>3 DEF PutKnows, GetKnows
<1>5. QED BY <1>1, <1>2, <1>3, <1>4, GetLooks

LEMMA GetReadPlaceKeeps ==
    ASSUME RingParts, GetReadPlace
    PROVE  RingParts'
<1>1. /\ RingTypes /\ PutKnows /\ GetKnows
      /\ putting.at = "idle" /\ getting.at = "readPlace"
  BY DEF RingParts, GetReadPlace, RingTypes
<1>2. /\ getting' = [getting EXCEPT !.at = "readItem", !.tail = tail]
      /\ UNCHANGED <<buffer, head, tail, full, putting, item, queue>>
  BY DEF GetReadPlace, shared
<1>3. getting' \in GetStates /\ getting'.at = "readItem" /\ getting'.tail = tail
  BY <1>1, <1>2 DEF RingTypes, GetStates
<1>4. PutKnows' /\ GetKnows'
  BY <1>1, <1>2, <1>3 DEF PutKnows, GetKnows
<1>5. QED BY <1>1, <1>2, <1>3, <1>4, GetLooks

(* The item at tail is the oldest.                                         *)
LEMMA GetReadItemKeeps ==
    ASSUME RingParts, GetReadItem
    PROVE  RingParts'
<1>1. /\ RingTypes /\ RingItems /\ PutKnows /\ GetKnows
      /\ putting.at = "idle" /\ getting.at = "readItem"
      /\ getting.tail = tail /\ queue # <<>>
  BY DEF RingParts, GetReadItem, RingTypes, GetKnows
<1>2. /\ getting' = [getting EXCEPT !.at = "clearFull", !.data = buffer[getting.tail]]
      /\ UNCHANGED <<buffer, head, tail, full, putting, item, queue>>
  BY DEF GetReadItem, shared
<1>3. /\ getting' \in GetStates /\ getting'.at = "clearFull"
      /\ getting'.data = buffer[tail]
  BY <1>1, <1>2 DEF RingTypes, GetStates
<1>4. buffer[tail] = Oldest(queue)
  <2>1. /\ queue \in Seq(Nat) /\ tail \in Places /\ Size \in Nat
        /\ Len(queue) \in Nat /\ Len(queue) # 0
        /\ Oldest(queue) = queue[1]
    BY <1>1, QueueProps, RingAssumption DEF RingTypes
  <2>2. 1 \in 1 .. Len(queue) /\ 1 - 1 = 0
    BY <2>1
  <2>3. queue[1] = buffer[Place(tail, 0)]
    <3>1. queue[1] = buffer[Place(tail, 1 - 1)]
      BY <1>1, <2>2 DEF RingItems, Ordered, Overwritten
    <3>2. QED BY <2>2, <3>1
  <2>4. Place(tail, 0) = tail
    BY <2>1 DEF Place, Places
  <2>5. QED BY <2>1, <2>3, <2>4
<1>5. PutKnows' /\ GetKnows'
  BY <1>1, <1>2, <1>3, <1>4 DEF PutKnows, GetKnows
<1>6. QED BY <1>1, <1>2, <1>3, <1>5, GetLooks

LEMMA ClearFullKeeps ==
    ASSUME RingParts, ClearFull
    PROVE  RingParts'
<1>1. /\ RingTypes /\ RingItems /\ PutKnows /\ GetKnows
      /\ putting.at = "idle" /\ getting.at = "clearFull"
  BY DEF RingParts, ClearFull, RingTypes
<1>2. /\ full' = FALSE /\ getting' = [getting EXCEPT !.at = "loadTail"]
      /\ UNCHANGED <<buffer, head, tail, putting, item, queue>>
  BY DEF ClearFull
<1>3. /\ getting' \in GetStates /\ getting'.at = "loadTail"
      /\ getting'.data = getting.data
  BY <1>1, <1>2 DEF RingTypes, GetStates
<1>4. RingTypes'
  BY <1>1, <1>2, <1>3 DEF RingTypes
<1>5. RingItems'
  BY <1>1, <1>2 DEF RingItems, Ordered, Overwritten
<1>6. PutKnows' /\ GetKnows'
  BY <1>1, <1>2, <1>3 DEF PutKnows, GetKnows
<1>7. QED BY <1>4, <1>5, <1>6 DEF RingParts

LEMMA LoadTailKeeps ==
    ASSUME RingParts, LoadTail
    PROVE  RingParts'
<1>1. /\ RingTypes /\ PutKnows /\ GetKnows
      /\ putting.at = "idle" /\ getting.at = "loadTail"
  BY DEF RingParts, LoadTail, RingTypes
<1>2. /\ getting' = [getting EXCEPT !.at = "storeTail", !.tail = tail]
      /\ UNCHANGED <<buffer, head, tail, full, putting, item, queue>>
  BY DEF LoadTail, shared
<1>3. /\ getting' \in GetStates /\ getting'.at = "storeTail"
      /\ getting'.tail = tail /\ getting'.data = getting.data
  BY <1>1, <1>2 DEF RingTypes, GetStates
<1>4. PutKnows' /\ GetKnows'
  BY <1>1, <1>2, <1>3 DEF PutKnows, GetKnows
<1>5. QED BY <1>1, <1>2, <1>3, <1>4, GetLooks

LEMMA StoreTailKeeps ==
    ASSUME RingParts, StoreTail
    PROVE  RingParts'
<1>1. /\ RingTypes /\ RingItems /\ PutKnows /\ GetKnows
      /\ putting.at = "idle" /\ getting.at = "storeTail"
      /\ getting.tail = tail /\ queue # <<>> /\ ~full
  BY DEF RingParts, StoreTail, RingTypes, GetKnows
<1>2. /\ tail' = After(tail) /\ queue' = Younger(queue) /\ getting' = GetIdle
      /\ UNCHANGED <<buffer, head, full, putting, item>>
  BY <1>1 DEF StoreTail
<1>3. getting' \in GetStates /\ getting'.at = "idle"
  BY <1>2, RingAssumption DEF GetIdle, GetStates, Places
<1>4. /\ tail' \in Places /\ head = Place(tail', Len(queue'))
      /\ Ordered(buffer, tail', queue', FALSE)
      /\ queue' \in Seq(Nat) /\ Len(queue') = Len(queue) - 1
  BY <1>1, <1>2, YoungerOrdered
<1>5. Len(queue) \in Nat /\ Size \in Nat /\ Len(queue) <= Size
  BY <1>1, RingAssumption DEF RingTypes
<1>6. RingTypes'
  BY <1>1, <1>2, <1>3, <1>4, <1>5 DEF RingTypes
<1>7. RingItems'
  BY <1>2, <1>4 DEF RingItems, Ordered
<1>8. PutKnows' /\ GetKnows'
  BY <1>1, <1>2, <1>3, <1>4, <1>5 DEF PutKnows, GetKnows
<1>9. QED BY <1>6, <1>7, <1>8 DEF RingParts

(* Emptying the ring.                                                      *)
LEMMA ResetKeeps ==
    ASSUME RingParts, Reset
    PROVE  RingParts'
<1>1. /\ RingTypes /\ putting.at = "idle" /\ getting.at = "idle"
  BY DEF RingParts, Reset
<1>2. /\ head' = 0 /\ tail' = 0 /\ full' = FALSE /\ queue' = <<>>
      /\ UNCHANGED <<buffer, putting, getting, item>>
  BY DEF Reset
<1>3. 0 \in Places /\ Size \in Nat \ {0} /\ Len(queue') = 0 /\ queue' \in Seq(Nat)
  BY <1>2, RingAssumption DEF Places
<1>4. RingTypes'
  <2>1. Len(queue') <= Size
    BY <1>3
  <2>2. full' \in BOOLEAN
    BY <1>2
  <2>3. /\ head' \in Places /\ tail' \in Places
        /\ buffer' = buffer /\ item' = item /\ putting' = putting /\ getting' = getting
    BY <1>2, <1>3
  <2>4. QED BY <1>1, <1>3, <2>1, <2>2, <2>3 DEF RingTypes
<1>5. RingItems'
  BY <1>2, <1>3 DEF RingItems, Ordered, Place
<1>6. PutKnows' /\ GetKnows'
  BY <1>1, <1>2, <1>3 DEF PutKnows, GetKnows
<1>7. QED BY <1>4, <1>5, <1>6 DEF RingParts

-----------------------------------------------------------------------------
(* What callers may rely on.                                               *)

LEMMA RingStep ==
    ASSUME ~Overlap, RingParts, [Next]_vars
    PROVE  RingParts'
<1>1. CASE Put
  BY <1>1, PutItemKeeps, CheckFullKeeps, PutReadTailKeeps, BumpTailKeeps,
     AdvanceKeeps, CompareKeeps, SetFullKeeps, Zenon DEF Put
<1>2. CASE Get
  BY <1>2, GetReadFullKeeps, GetReadHeadKeeps, FoundEmptyKeeps, FoundItemKeeps,
     GetReadPlaceKeeps, GetReadItemKeeps, ClearFullKeeps, LoadTailKeeps,
     StoreTailKeeps, Zenon DEF Get
<1>3. CASE Reset
  BY <1>3, ResetKeeps
<1>4. CASE UNCHANGED vars
  BY <1>4, Zenon DEF vars, RingParts, RingTypes, RingItems, PutKnows, GetKnows, Overwritten
<1>5. QED BY <1>1, <1>2, <1>3, <1>4, Zenon DEF Next

(* At every step of a call the ring is in the order its next steps need.   *)
THEOREM RingKept == ASSUME ~Overlap PROVE Spec => []RingInv
<1>1. Init => RingParts
  BY RingInit
<1>2. RingParts /\ [Next]_vars => RingParts'
  BY RingStep
<1>3. RingParts => RingInv
  BY RingInvParts
<1>4. QED BY <1>1, <1>2, <1>3, PTL DEF Spec

(* Between calls the ring holds the items of the queue, in order, from     *)
(* tail on, and the full flag tells a full ring from an empty one.         *)
THEOREM RingRight == ASSUME ~Overlap PROVE Spec => []RingHoldsQueue
<1>1. RingInv => RingHoldsQueue
  BY Zenon DEF RingInv, RingHoldsQueue, Quiet, Overwritten
<1>2. QED BY <1>1, RingKept, PTL

(* circular_buffer_get returns the oldest item that is queued.             *)
THEOREM GetRight == ASSUME ~Overlap PROVE Spec => GetReturnsOldest
<1> DEFINE A == StoreTail => queue # <<>> /\ getting.data = Oldest(queue)
<1>1. RingInv => A
  BY DEF RingInv, StoreTail
<1>2. A => [A]_vars
  OBVIOUS
<1>3. QED BY <1>1, <1>2, RingKept, PTL DEF GetReturnsOldest

(* It finds the buffer empty only when it was when the call began.         *)
THEOREM EmptyRight == ASSUME ~Overlap PROVE Spec => EmptyIsTrue
<1> DEFINE A == FoundEmpty => ~getting.nonEmpty
<1>1. RingInv => A
  <2> SUFFICES ASSUME RingInv, FoundEmpty PROVE ~getting.nonEmpty
    OBVIOUS
  <2>1. RingParts /\ getting.at = "readTail" /\ tail = getting.head
    BY RingInvParts DEF FoundEmpty
  <2>2. queue = <<>>
    BY <2>1, MeetEmpty
  <2>3. QED BY <2>1, <2>2 DEF RingParts, GetKnows
<1>2. A => [A]_vars
  OBVIOUS
<1>3. QED BY <1>1, <1>2, RingKept, PTL DEF EmptyIsTrue

=============================================================================
