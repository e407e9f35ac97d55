--------------------------- MODULE Sel4DmaProofs ---------------------------
(***************************************************************************)
(* What drivers may rely on in libubootdrivers/src/wrapper/sel4_dma.c, for *)
(* any size of the table, any pool and any memory they map: the table and  *)
(* the allocator agree on who has what but for the blocks an initialisation *)
(* makes the table forget, shutdown gives back all the others, and, while  *)
(* no memory is mapped twice at once, everybody keeps what is theirs,      *)
(* addresses translate, and a mapping's copies and cache operations bring  *)
(* the data to the side they are for.                                      *)
(***************************************************************************)
EXTENDS Sel4Dma, WellFoundedInduction, TLAPS

-----------------------------------------------------------------------------
(* Searching the table.                                                    *)

(* A set of numbers has a smallest one: the last of the searches' slots    *)
(* that matter, and the first step of a loop to go wrong.                  *)
LEMMA Smallest ==
    ASSUME NEW S \in SUBSET Nat, S # {}
    PROVE  \E x \in S : \A y \in S : x <= y
<1>1. IsWellFoundedOn(OpToRel(<, Nat), Nat)
  BY NatLessThanWellFounded, Zenon
<1>2. \E x \in S : \A y \in S : ~ (<<y, x>> \in OpToRel(<, Nat))
  BY <1>1, WFMin, Zenon
<1>3. PICK x \in S : \A y \in S : ~ (<<y, x>> \in OpToRel(<, Nat))
  BY <1>2, Zenon
<1>4. ASSUME NEW y \in S PROVE x <= y
  <2>1. x \in Nat /\ y \in Nat
    OBVIOUS
  <2>2. CASE y < x
    <3>1. <<y, x>> \in OpToRel(<, Nat)
      BY <2>1, <2>2 DEF OpToRel
    <3>2. QED BY <1>3, <3>1, Zenon
  <2>3. QED BY <2>1, <2>2, SMT
<1>5. QED BY <1>4, Zenon

(* So LowestOf returns it.                                                 *)
LEMMA LowestProps ==
    ASSUME NEW S \in SUBSET Nat, S # {}
    PROVE  LowestOf(S) \in S /\ \A y \in S : LowestOf(S) <= y
BY Smallest, Zenon DEF LowestOf

(* A search finds nothing, or a slot in use whose range has the address.   *)
LEMMA FindProps ==
    ASSUME NEW tbl, NEW base, NEW addr
    PROVE  LET x == Find(tbl, base, addr)
           IN  \/ /\ x = 0
                  /\ \A y \in Slots : ~ (/\ tbl[y].inUse
                                         /\ RangeHas(tbl[y][base], tbl[y].size, addr))
               \/ /\ x \in Slots /\ tbl[x].inUse
                  /\ RangeHas(tbl[x][base], tbl[x].size, addr)
                  /\ \A y \in Slots : (/\ tbl[y].inUse
                                       /\ RangeHas(tbl[y][base], tbl[y].size, addr))
                                            => x <= y
<1> DEFINE hits == {x \in Slots : /\ tbl[x].inUse
                                  /\ RangeHas(tbl[x][base], tbl[x].size, addr)}
<1>1. CASE hits = {}
  <2>1. Find(tbl, base, addr) = 0
    BY <1>1, Zenon DEF Find
  <2>2. QED BY <1>1, <2>1, Zenon
<1>2. CASE hits # {}
  <2>1. Find(tbl, base, addr) = LowestOf(hits)
    BY <1>2, Zenon DEF Find
  <2>2. hits \in SUBSET Nat
    BY TableAssumption DEF Slots
  <2> DEFINE x == LowestOf(hits)
  <2>3. x \in hits /\ \A y \in hits : x <= y
    BY <1>2, <2>2, LowestProps
  <2> HIDE DEF x
  <2>4. /\ x \in Slots /\ tbl[x].inUse
        /\ RangeHas(tbl[x][base], tbl[x].size, addr)
        /\ \A y \in Slots : (/\ tbl[y].inUse
                             /\ RangeHas(tbl[y][base], tbl[y].size, addr))
                                  => x <= y
    BY <2>3, Zenon
  <2>5. QED BY <2>1, <2>4, Zenon DEF x
<1>3. QED BY <1>1, <1>2, Zenon

(* The only slot that answers to an address is found.                      *)
LEMMA FindOnly ==
    ASSUME NEW tbl, NEW base, NEW addr, NEW x \in Slots,
           tbl[x].inUse, RangeHas(tbl[x][base], tbl[x].size, addr),
           \A y \in Slots : (y # x /\ tbl[y].inUse) =>
               ~RangeHas(tbl[y][base], tbl[y].size, addr)
    PROVE  Find(tbl, base, addr) = x
BY FindProps, Zenon

(* So is one before which no slot is in use.                               *)
LEMMA FindFirst ==
    ASSUME NEW tbl, NEW base, NEW addr, NEW x \in Slots,
           tbl[x].inUse, RangeHas(tbl[x][base], tbl[x].size, addr),
           \A y \in Slots : y < x => ~tbl[y].inUse
    PROVE  Find(tbl, base, addr) = x
<1> DEFINE z == Find(tbl, base, addr)
<1>1. z \in Slots /\ tbl[z].inUse /\ z <= x
  BY FindProps, Zenon
<1> HIDE DEF z
<1>2. z \in Int /\ x \in Int
  BY <1>1, TableAssumption DEF Slots
<1>3. ~(z < x)
  BY <1>1, Zenon
<1>4. z = x
  BY <1>1, <1>2, <1>3, SMT
<1>5. QED BY <1>4 DEF z

(* A slot answers to the addresses its range occupies.                     *)
LEMMA RangeOccupied ==
    ASSUME NEW base \in Nat, NEW size \in Nat, NEW addr
    PROVE  /\ RangeHas(base, size, addr)
                  <=> addr \in Occupied([start |-> base, size |-> size])
           /\ base \in Occupied([start |-> base, size |-> size])
<1>1. CASE size = 0
  BY <1>1 DEF RangeHas, Occupied, Lines
<1>2. CASE size # 0
  BY <1>2 DEF RangeHas, Occupied, Lines
<1>3. QED BY <1>1, <1>2

-----------------------------------------------------------------------------
(* A table that is in order.                                               *)

UsedOf(tbl) == {x \in Slots : tbl[x].inUse}

BlocksOf(tbl) == {BlockOf(tbl[x]) : x \in UsedOf(tbl)}

SlotOK(t) ==
    /\ BlockOf(t) \in Blocks
    /\ Occupied(BlockOf(t)) \subseteq Memory
    /\ t.paddr = t.mapped + PhysOffset
    /\ IF t.isMapping
       THEN PublicOf(t) \in Buffers /\ t.dir # "none"
       ELSE t.public = t.mapped /\ t.dir = "none"

TableOK(tbl) ==
    /\ tbl \in [Slots -> Slot]
    /\ \A x \in Slots \ UsedOf(tbl) : tbl[x] = Cleared
    /\ \A x, y \in UsedOf(tbl) : x # y =>
        Occupied(BlockOf(tbl[x])) \cap Occupied(BlockOf(tbl[y])) = {}
    /\ \A x \in UsedOf(tbl) : SlotOK(tbl[x])

CacheLine == [dirty : BOOLEAN, value : Values \cup {"absent"}]

Memories == [ram : [Memory -> Values], cache : [Memory -> CacheLine],
             user : [UserMemory -> Values]]

MemOK(m) ==
    /\ m \in Memories
    /\ \A a \in Memory : m.cache[a] = NotCached \/ m.cache[a].value \in Values

Mappings == [paddr : Nat, public : Nat, size : Nat, dir : {"to", "from"}]

HeldApart(blocks) ==
    \A b, c \in blocks : b # c => Occupied(b) \cap Occupied(c) = {}

(* TableInv, in terms of them.                                             *)
TableParts ==
    /\ TableOK(table) /\ BlocksOf(table) \subseteq held /\ HeldApart(held)
    /\ MemOK(mem)
    /\ manager \in BOOLEAN
    /\ held \subseteq Blocks /\ buffers \subseteq Blocks
    /\ maps \subseteq Mappings
    /\ ~manager => UsedOf(table) = {}

LEMMA TableInvParts == TableInv <=> TableParts
BY Zenon DEF TableInv, TypeOK, TableOK, SlotOK, MemOK, Memories, CacheLine,
             BlocksOf, UsedOf, Used, Mappings, HeldApart, TableParts

LEMMA TableInvPartsNext == TableInv' <=> TableParts'
BY Zenon DEF TableInv, TypeOK, TableOK, SlotOK, MemOK, Memories, CacheLine,
             BlocksOf, UsedOf, Used, Mappings, HeldApart, TableParts

(* What the table has forgotten, before and after a step.                  *)
LEMMA ForgottenParts ==
    /\ Forgotten = held \ BlocksOf(table)
    /\ Forgotten' = held' \ BlocksOf(table')
<1>1. Forgotten = held \ BlocksOf(table)
  BY Zenon DEF Forgotten, BlocksOf, UsedOf, Used
<1>2. Forgotten' = held' \ BlocksOf(table')
  BY Zenon DEF Forgotten, BlocksOf, UsedOf, Used
<1>3. QED BY <1>1, <1>2

(* The numbers in a slot.                                                  *)
LEMMA SlotFields ==
    ASSUME NEW t \in Slot
    PROVE  /\ t.public \in Nat /\ t.mapped \in Nat /\ t.paddr \in Nat
           /\ t.size \in Nat /\ t.inUse \in BOOLEAN /\ t.isMapping \in BOOLEAN
           /\ t.dir \in {"none", "to", "from"}
           /\ BlockOf(t).start = t.mapped /\ BlockOf(t).size = t.size
           /\ PublicOf(t).start = t.public /\ PublicOf(t).size = t.size
           /\ t.mapped \in Occupied(BlockOf(t))
           /\ t.public \in Occupied(PublicOf(t))
<1>1. /\ t.public \in Nat /\ t.mapped \in Nat /\ t.paddr \in Nat
      /\ t.size \in Nat /\ t.inUse \in BOOLEAN /\ t.isMapping \in BOOLEAN
      /\ t.dir \in {"none", "to", "from"}
  BY DEF Slot
<1>2. /\ BlockOf(t).start = t.mapped /\ BlockOf(t).size = t.size
      /\ PublicOf(t).start = t.public /\ PublicOf(t).size = t.size
  BY DEF BlockOf, PublicOf
<1>3. t.mapped \in Occupied(BlockOf(t)) /\ t.public \in Occupied(PublicOf(t))
  BY <1>1, RangeOccupied DEF BlockOf, PublicOf
<1>4. QED BY <1>1, <1>2, <1>3

(* What a cleared slot is.                                                 *)
LEMMA ClearedProps == Cleared \in Slot /\ ~Cleared.inUse
BY DEF Cleared, Slot

(* Clearing a slot in use takes its block out of the table.                *)
LEMMA ClearSlot ==
    ASSUME NEW tbl, TableOK(tbl), NEW x \in UsedOf(tbl)
    PROVE  LET new == [tbl EXCEPT ![x] = Cleared]
           IN  /\ TableOK(new)
               /\ UsedOf(new) = UsedOf(tbl) \ {x}
               /\ BlocksOf(new) = BlocksOf(tbl) \ {BlockOf(tbl[x])}
               /\ new[x] = Cleared
               /\ \A y \in Slots \ {x} : new[y] = tbl[y]
<1> DEFINE new == [tbl EXCEPT ![x] = Cleared]
<1>1. tbl \in [Slots -> Slot] /\ x \in Slots
  BY DEF TableOK, UsedOf
<1>2. /\ new \in [Slots -> Slot]
      /\ new[x] = Cleared
      /\ \A y \in Slots \ {x} : new[y] = tbl[y]
  BY <1>1, ClearedProps
<1> HIDE DEF new
<1>3. UsedOf(new) = UsedOf(tbl) \ {x}
  BY <1>1, <1>2, ClearedProps DEF UsedOf
<1>4. \A y \in UsedOf(new) : new[y] = tbl[y] /\ y \in UsedOf(tbl) /\ y # x
  BY <1>2, <1>3 DEF UsedOf
<1>5. TableOK(new)
  <2>1. \A y \in Slots \ UsedOf(new) : new[y] = Cleared
    BY <1>2, <1>3 DEF TableOK
  <2>2. QED BY <1>2, <1>4, <2>1 DEF TableOK
<1>6. ASSUME NEW y \in UsedOf(tbl), y # x PROVE BlockOf(tbl[y]) # BlockOf(tbl[x])
  <2>1. Occupied(BlockOf(tbl[x])) \cap Occupied(BlockOf(tbl[y])) = {}
    BY <1>6 DEF TableOK
  <2>2. tbl[x].mapped \in Occupied(BlockOf(tbl[x]))
    BY <1>1, SlotFields
  <2>3. QED BY <2>1, <2>2
<1>7. BlocksOf(new) = BlocksOf(tbl) \ {BlockOf(tbl[x])}
  BY <1>3, <1>4, <1>6 DEF BlocksOf
<1>8. QED BY <1>2, <1>3, <1>5, <1>7 DEF new

(* The table with one more slot in use, all others as before.              *)
Filled(tbl, x, t, new) ==
    /\ TableOK(new)
    /\ UsedOf(new) = UsedOf(tbl) \cup {x}
    /\ BlocksOf(new) = BlocksOf(tbl) \cup {BlockOf(t)}
    /\ new[x] = t
    /\ \A y \in Slots \ {x} : new[y] = tbl[y]

(* Filling a free slot with a block of free memory adds it.                *)
LEMMA FillSlot ==
    ASSUME NEW tbl, TableOK(tbl), NEW x \in Slots \ UsedOf(tbl),
           NEW t \in Slot, t.inUse, SlotOK(t),
           \A h \in BlocksOf(tbl) : Occupied(BlockOf(t)) \cap Occupied(h) = {},
           NEW new, new = [tbl EXCEPT ![x] = t]
    PROVE  Filled(tbl, x, t, new)
<1>1. tbl \in [Slots -> Slot]
  BY DEF TableOK
<1>2. /\ new \in [Slots -> Slot]
      /\ new[x] = t
      /\ \A y \in Slots \ {x} : new[y] = tbl[y]
  BY <1>1
<1>3. UsedOf(new) = UsedOf(tbl) \cup {x}
  BY <1>1, <1>2 DEF UsedOf
<1>4. \A y \in UsedOf(tbl) : y # x /\ new[y] = tbl[y]
  BY <1>2 DEF UsedOf
<1>5. BlocksOf(new) = BlocksOf(tbl) \cup {BlockOf(t)}
  <2>1. BlockOf(new[x]) = BlockOf(t)
    BY <1>2, Zenon
  <2>2. \A y \in UsedOf(tbl) : BlockOf(new[y]) = BlockOf(tbl[y])
    BY <1>4, Zenon
  <2>3. ASSUME NEW h PROVE h \in BlocksOf(new) <=> h \in BlocksOf(tbl) \cup {BlockOf(t)}
    <3>1. h \in BlocksOf(new) <=> \E y \in UsedOf(new) : h = BlockOf(new[y])
      BY Zenon DEF BlocksOf
    <3>2. h \in BlocksOf(tbl) <=> \E y \in UsedOf(tbl) : h = BlockOf(tbl[y])
      BY Zenon DEF BlocksOf
    <3>3. QED BY <1>3, <2>1, <2>2, <3>1, <3>2, Zenon
  <2>4. QED BY <2>3, Zenon
<1>6. ASSUME NEW y \in UsedOf(new), NEW z \in UsedOf(new), y # z
      PROVE  Occupied(BlockOf(new[y])) \cap Occupied(BlockOf(new[z])) = {}
  <2>1. CASE y = x
    <3>1. z \in UsedOf(tbl) /\ new[z] = tbl[z] /\ new[y] = t
      BY <1>2, <1>3, <1>4, <1>6, <2>1
    <3>2. QED BY <3>1 DEF BlocksOf
  <2>2. CASE z = x
    <3>1. y \in UsedOf(tbl) /\ new[y] = tbl[y] /\ new[z] = t
      BY <1>2, <1>3, <1>4, <1>6, <2>2
    <3>2. Occupied(BlockOf(t)) \cap Occupied(BlockOf(tbl[y])) = {}
      BY <3>1 DEF BlocksOf
    <3>3. QED BY <3>1, <3>2
  <2>3. CASE y # x /\ z # x
    <3>1. y \in UsedOf(tbl) /\ z \in UsedOf(tbl)
      BY <1>3, <2>3
    <3>2. QED BY <1>4, <1>6, <3>1 DEF TableOK
  <2>4. QED BY <2>1, <2>2, <2>3
<1>7. TableOK(new)
  <2>1. \A y \in Slots \ UsedOf(new) : new[y] = Cleared
    BY <1>2, <1>3 DEF TableOK
  <2>2. \A y \in UsedOf(new) : SlotOK(new[y])
    BY <1>2, <1>3, <1>4 DEF TableOK
  <2>3. QED BY <1>2, <1>6, <2>1, <2>2 DEF TableOK
<1>8. QED BY <1>2, <1>3, <1>5, <1>7, Zenon DEF Filled

(* Returning a block keeps the table in order, whichever slot is found.    *)
LEMMA FreedProps ==
    ASSUME NEW s, TableOK(s.table), BlocksOf(s.table) \subseteq s.held, NEW vaddr
    PROVE  LET n == Freed(s, vaddr)
           IN  /\ TableOK(n.table)
               /\ BlocksOf(n.table) \subseteq n.held
               /\ UsedOf(n.table) \subseteq UsedOf(s.table)
               /\ n.held \subseteq s.held
               /\ n.held \ BlocksOf(n.table) = s.held \ BlocksOf(s.table)
<1> DEFINE x == Find(s.table, "public", vaddr)
           b == [start |-> s.table[x].mapped, size |-> s.table[x].size]
           n == Freed(s, vaddr)
<1>1. CASE x = 0
  <2>1. n = s
    BY <1>1, Zenon DEF Freed
  <2>2. QED BY <2>1
<1>2. CASE x # 0
  <2>1. x \in UsedOf(s.table)
    BY <1>2, FindProps, Zenon DEF UsedOf
  <2>2. n = [table |-> [s.table EXCEPT ![x] = Cleared], held |-> s.held \ {b}]
    BY <1>2, Zenon DEF Freed
  <2>3. b = BlockOf(s.table[x])
    BY Zenon DEF BlockOf
  <2> HIDE DEF x, b
  <2> DEFINE new == [s.table EXCEPT ![x] = Cleared]
  <2>4. /\ TableOK(new) /\ UsedOf(new) = UsedOf(s.table) \ {x}
        /\ BlocksOf(new) = BlocksOf(s.table) \ {b}
    BY <2>1, <2>3, ClearSlot
  <2>5. n.table = new /\ n.held = s.held \ {b}
    BY <2>2
  <2>6. b \in BlocksOf(s.table)
    BY <2>1, <2>3 DEF BlocksOf
  <2> HIDE DEF n, new
  <2>7. QED BY <2>4, <2>5, <2>6 DEF n
<1>3. QED BY <1>1, <1>2

(* Returning by an address that only slot x answers to returns its block.  *)
LEMMA FreedSlot ==
    ASSUME NEW s, NEW vaddr, NEW x \in UsedOf(s.table),
           Find(s.table, "public", vaddr) = x
    PROVE  /\ Freed(s, vaddr).table = [s.table EXCEPT ![x] = Cleared]
           /\ Freed(s, vaddr).held = s.held \ {BlockOf(s.table[x])}
<1>1. x # 0
  BY TableAssumption DEF UsedOf, Slots
<1>2. BlockOf(s.table[x]) = [start |-> s.table[x].mapped, size |-> s.table[x].size]
  BY Zenon DEF BlockOf
<1>3. Freed(s, vaddr) = [table |-> [s.table EXCEPT ![x] = Cleared],
                         held  |-> s.held \ {BlockOf(s.table[x])}]
  BY <1>1, <1>2, Zenon DEF Freed
<1>4. QED BY <1>3

-----------------------------------------------------------------------------
(* Shutting down.                                                          *)

(* The table once the loop has looked at its first k slots.                *)
EmptiedUpTo(k) ==
    LET tbl == [y \in Slots |-> IF y <= k THEN Cleared ELSE table[y]]
    IN  [table |-> tbl, held |-> BlocksOf(tbl) \cup Forgotten]

(* One turn of the loop: the search finds the slot it started from, as no  *)
(* slot before it is in use any more.                                      *)
LEMMA ReleasedNext ==
    ASSUME TableInv, NEW x \in Slots
    PROVE  /\ TableOK(EmptiedUpTo(x - 1).table)
           /\ Released(EmptiedUpTo(x - 1), x) = EmptiedUpTo(x)
<1> DEFINE tbl == [y \in Slots |-> IF y <= x - 1 THEN Cleared ELSE table[y]]
           new == [y \in Slots |-> IF y <= x THEN Cleared ELSE table[y]]
           s   == [table |-> tbl, held |-> BlocksOf(tbl) \cup Forgotten]
<1>1. TableOK(table)
  BY TableInvParts DEF TableParts
<1>2. x \in Nat \ {0} /\ Slots \subseteq Nat
  BY TableAssumption DEF Slots
<1>3. /\ EmptiedUpTo(x - 1) = s
      /\ EmptiedUpTo(x) = [table |-> new, held |-> BlocksOf(new) \cup Forgotten]
  BY DEF EmptiedUpTo
<1>4. tbl \in [Slots -> Slot]
  BY <1>1, ClearedProps DEF TableOK
<1>5. UsedOf(tbl) = {y \in UsedOf(table) : ~(y <= x - 1)}
  BY <1>2, ClearedProps DEF UsedOf
<1>6. TableOK(tbl)
  <2>1. \A y \in Slots \ UsedOf(tbl) : tbl[y] = Cleared
    BY <1>1, <1>2, <1>5 DEF TableOK
  <2>2. \A y \in UsedOf(tbl) : y \in UsedOf(table) /\ tbl[y] = table[y]
    BY <1>5 DEF UsedOf
  <2> HIDE DEF tbl
  <2>3. QED BY <1>1, <1>4, <2>1, <2>2 DEF TableOK
<1>7. new = [tbl EXCEPT ![x] = Cleared]
  <2>1. \A y \in Slots : (y <= x) <=> (y <= x - 1 \/ y = x)
    BY <1>2
  <2>2. QED BY <2>1
<1>8. CASE tbl[x].inUse
  <2>1. x \in UsedOf(tbl) /\ x \in UsedOf(table) /\ tbl[x] = table[x]
    BY <1>5, <1>8 DEF UsedOf
  <2>2. RangeHas(tbl[x].public, tbl[x].size, tbl[x].public)
    BY DEF RangeHas
  <2>3. \A y \in Slots : y < x => ~tbl[y].inUse
    BY <1>2, ClearedProps
  <2> HIDE DEF tbl, new
  <2>4. Find(tbl, "public", tbl[x].public) = x
    BY <1>8, <2>2, <2>3, FindFirst
  <2>5. s.table = tbl /\ s.held = BlocksOf(tbl) \cup Forgotten
    OBVIOUS
  <2> HIDE DEF s
  <2>6. /\ Freed(s, tbl[x].public).table = [tbl EXCEPT ![x] = Cleared]
        /\ Freed(s, tbl[x].public).held = s.held \ {BlockOf(tbl[x])}
    BY <1>6, <2>1, <2>4, <2>5, FreedSlot
  <2>7. BlocksOf(new) = BlocksOf(tbl) \ {BlockOf(tbl[x])}
    BY <1>6, <1>7, <2>1, ClearSlot
  <2>8. Released(s, x) = Freed(s, tbl[x].public)
    BY <1>8, <2>5, Zenon DEF Released
  <2> DEFINE b == [start |-> tbl[x].mapped, size |-> tbl[x].size]
  <2>9. Freed(s, tbl[x].public) =
            [table |-> [tbl EXCEPT ![x] = Cleared], held |-> s.held \ {b}]
    <3>1. x # 0
      BY <1>2
    <3>2. QED BY <2>4, <2>5, <3>1, Zenon DEF Freed
  <2>10. b = BlockOf(tbl[x])
    BY Zenon DEF BlockOf
  <2>11. s.held \ {b} = BlocksOf(new) \cup Forgotten
    <3>1. b \in BlocksOf(table)
      BY <2>1, <2>10, Zenon DEF BlocksOf
    <3>2. b \notin Forgotten
      BY <3>1, ForgottenParts
    <3>3. BlocksOf(new) = BlocksOf(tbl) \ {b}
      BY <2>7, <2>10, Zenon
    <3> HIDE DEF b
    <3>4. QED BY <2>5, <3>2, <3>3
  <2>12. Released(s, x) = [table |-> new, held |-> BlocksOf(new) \cup Forgotten]
    BY <1>7, <2>8, <2>9, <2>11, Zenon
  <2>13. QED BY <1>3, <1>6, <2>5, <2>12
<1>9. CASE ~tbl[x].inUse
  <2>1. tbl[x] = Cleared
    BY <1>6, <1>9 DEF TableOK, UsedOf
  <2>2. new = tbl
    BY <1>4, <1>7, <2>1
  <2>3. Released(s, x) = s
    BY <1>9 DEF Released
  <2>4. QED BY <1>3, <1>6, <2>2, <2>3
<1>10. QED BY <1>8, <1>9

(* The loop's recursion has the solution EmptiedUpTo.                      *)
LEMMA ReleasedAll ==
    ASSUME TableInv
    PROVE  ReleasedUpTo[MaxAllocs] = EmptiedUpTo(MaxAllocs)
<1> DEFINE D    == 0 .. MaxAllocs
           good == [x \in D |-> EmptiedUpTo(x)]
           Turn(f) == [x \in D |-> IF x = 0 THEN Bookkeeping
                                   ELSE Released(f[x - 1], x)]
<1>1. MaxAllocs \in Nat \ {0} /\ Slots = 1 .. MaxAllocs
  BY TableAssumption DEF Slots
<1>2. EmptiedUpTo(0) = Bookkeeping
  <2>1. table \in [Slots -> Slot] /\ held = BlocksOf(table) \cup Forgotten
    BY TableInvParts, ForgottenParts DEF TableOK, TableParts
  <2>2. [y \in Slots |-> IF y <= 0 THEN Cleared ELSE table[y]] = table
    BY <1>1, <2>1
  <2>3. QED BY <2>1, <2>2, Zenon DEF EmptiedUpTo, Bookkeeping
<1>3. good = Turn(good)
  <2>1. ASSUME NEW x \in D, x # 0
        PROVE  good[x] = Released(good[x - 1], x)
    <3>1. x \in Slots /\ x - 1 \in D
      BY <1>1, <2>1
    <3>2. good[x] = EmptiedUpTo(x) /\ good[x - 1] = EmptiedUpTo(x - 1)
      BY <3>1
    <3>3. QED BY <3>1, <3>2, ReleasedNext
  <2>2. good[0] = Bookkeeping
    BY <1>1, <1>2
  <2> DEFINE turn == Turn(good)
  <2>3. ASSUME NEW x \in D PROVE good[x] = turn[x]
    BY <2>1, <2>2
  <2> HIDE DEF turn
  <2>4. turn = [x \in D |-> turn[x]]
    BY DEF turn
  <2>5. good = [x \in D |-> good[x]]
    OBVIOUS
  <2> HIDE DEF good
  <2>6. good = turn
    BY <2>3, <2>4, <2>5
  <2>7. QED BY <2>6 DEF turn
<1>4. ReleasedUpTo = CHOOSE f : f = Turn(f)
  BY DEF ReleasedUpTo
<1>5. ReleasedUpTo = Turn(ReleasedUpTo)
  BY <1>3, <1>4, Zenon
<1> DEFINE wrong == {x \in D : ReleasedUpTo[x] # good[x]}
<1>6. wrong = {}
  <2> SUFFICES ASSUME wrong # {} PROVE FALSE
    OBVIOUS
  <2>1. PICK x \in wrong : \A y \in wrong : x <= y
    <3>1. wrong \in SUBSET Nat
      OBVIOUS
    <3>2. QED BY <3>1, Smallest
  <2>2. CASE x = 0
    <3>1. ReleasedUpTo[0] = Bookkeeping /\ good[0] = Bookkeeping
      BY <1>1, <1>2, <1>5
    <3>2. QED BY <2>1, <2>2, <3>1
  <2>3. CASE x # 0
    <3>1. x - 1 \in D /\ x \in D
      BY <1>1, <2>1, <2>3
    <3>2. x - 1 \notin wrong
      BY <2>1, <3>1
    <3>3. ReleasedUpTo[x - 1] = good[x - 1]
      BY <3>1, <3>2
    <3>4. ReleasedUpTo[x] = Released(ReleasedUpTo[x - 1], x)
      BY <1>5, <2>3, <3>1
    <3>5. good[x] = Released(good[x - 1], x)
      BY <1>3, <2>3, <3>1
    <3>6. QED BY <2>1, <3>3, <3>4, <3>5
  <2>4. QED BY <2>2, <2>3
<1>7. MaxAllocs \in D
  BY <1>1
<1>8. QED BY <1>6, <1>7

(* So shutdown leaves no slot in use, and nothing taken but what the table *)
(* had forgotten.                                                          *)
LEMMA ShutdownEmpties ==
    ASSUME TableInv, Shutdown
    PROVE  TableOK(table') /\ BlocksOf(table') = {}
           /\ UsedOf(table') = {} /\ held' = Forgotten
<1> DEFINE tbl == [y \in Slots |-> IF y <= MaxAllocs THEN Cleared ELSE table[y]]
<1>1. table' = tbl /\ held' = BlocksOf(tbl) \cup Forgotten
  <2>1. ReleasedUpTo[MaxAllocs] = [table |-> tbl, held |-> BlocksOf(tbl) \cup Forgotten]
    BY ReleasedAll, Zenon DEF EmptiedUpTo
  <2>2. QED BY <2>1 DEF Shutdown, Becomes
<1>2. tbl = [y \in Slots |-> Cleared]
  BY TableAssumption DEF Slots
<1> HIDE DEF tbl
<1>3. UsedOf(tbl) = {} /\ tbl \in [Slots -> Slot] /\ \A y \in Slots : tbl[y] = Cleared
  BY <1>2, ClearedProps DEF UsedOf
<1>4. BlocksOf(tbl) = {} /\ TableOK(tbl)
  BY <1>3 DEF BlocksOf, TableOK
<1>5. QED BY <1>1, <1>3, <1>4

-----------------------------------------------------------------------------
(* Memory.                                                                 *)

(* The parts of memory that is in order.                                   *)
LEMMA MemParts ==
    ASSUME NEW m
    PROVE  MemOK(m) <=>
               /\ m = [ram |-> m.ram, cache |-> m.cache, user |-> m.user]
               /\ m.ram \in [Memory -> Values]
               /\ m.cache \in [Memory -> CacheLine]
               /\ m.user \in [UserMemory -> Values]
               /\ \A a \in Memory : m.cache[a] = NotCached \/ m.cache[a].value \in Values
BY DEF MemOK, Memories

(* What the CPU reads is a value, and a dirty line holds one.              *)
LEMMA ViewValue ==
    ASSUME NEW m, MemOK(m), NEW a \in Memory
    PROVE  /\ CpuView(m, a) \in Values
           /\ m.cache[a].dirty \in BOOLEAN
           /\ m.cache[a].dirty => m.cache[a].value \in Values
           /\ m.ram[a] \in Values
           /\ m.cache[a] \in CacheLine
<1>1. /\ m.ram[a] \in Values /\ m.cache[a] \in CacheLine
      /\ m.cache[a] = NotCached \/ m.cache[a].value \in Values
  BY MemParts
<1>2. m.cache[a].dirty \in BOOLEAN
  BY <1>1 DEF CacheLine
<1>3. m.cache[a].dirty => m.cache[a].value \in Values
  BY <1>1 DEF NotCached
<1>4. CpuView(m, a) \in Values
  BY <1>1 DEF CpuView
<1>5. QED BY <1>1, <1>2, <1>3, <1>4

(* A line that holds a value is one.                                       *)
LEMMA LineProps ==
    ASSUME NEW d \in BOOLEAN, NEW v \in Values
    PROVE  /\ Line(d, v) \in CacheLine
           /\ Line(d, v).value = v /\ Line(d, v).dirty = d
BY DEF Line, CacheLine

(* What is not cached is a line, and not dirty.                            *)
LEMMA NotCachedProps == NotCached \in CacheLine /\ NotCached.dirty = FALSE
BY DEF NotCached, CacheLine

(* Writing lines back and dropping them.                                   *)
LEMMA CleanInvalidatedProps ==
    ASSUME NEW m, MemOK(m), NEW lines
    PROVE  LET n == CleanInvalidated(m, lines)
           IN  /\ MemOK(n)
               /\ n.user = m.user
               /\ \A a \in Memory :
                    /\ n.ram[a] = IF a \in lines /\ m.cache[a].dirty
                                  THEN m.cache[a].value ELSE m.ram[a]
                    /\ n.cache[a] = IF a \in lines THEN NotCached ELSE m.cache[a]
<1> DEFINE ram   == [a \in Memory |-> IF a \in lines /\ m.cache[a].dirty
                                      THEN m.cache[a].value ELSE m.ram[a]]
           cache == [a \in Memory |-> IF a \in lines THEN NotCached ELSE m.cache[a]]
           n     == CleanInvalidated(m, lines)
<1>1. n = [m EXCEPT !.ram = ram, !.cache = cache]
  BY Zenon DEF CleanInvalidated
<1>2. ram \in [Memory -> Values]
  BY ViewValue
<1>3. cache \in [Memory -> CacheLine]
  BY ViewValue, NotCachedProps
<1>4. \A a \in Memory : cache[a] = NotCached \/ cache[a].value \in Values
  BY MemParts
<1>5. m.user \in [UserMemory -> Values]
  BY MemParts
<1>6. \A a \in Memory :
         /\ ram[a] = IF a \in lines /\ m.cache[a].dirty
                     THEN m.cache[a].value ELSE m.ram[a]
         /\ cache[a] = IF a \in lines THEN NotCached ELSE m.cache[a]
  OBVIOUS
<1> HIDE DEF ram, cache, n
<1>7. MemOK(n) /\ n.ram = ram /\ n.cache = cache /\ n.user = m.user
  <2>1. m \in Memories
    BY DEF MemOK
  <2>2. n \in Memories /\ n.ram = ram /\ n.cache = cache /\ n.user = m.user
    BY <1>2, <1>3, <1>4, <1>5, <1>1, <2>1 DEF Memories
  <2>3. MemOK(n)
    BY <1>2, <1>3, <1>4, <1>5, <2>2, Zenon DEF MemOK
  <2>4. QED BY <2>2, <2>3
<1>8. QED BY <1>6, <1>7, Zenon DEF n

(* Dropping lines.                                                         *)
LEMMA InvalidatedProps ==
    ASSUME NEW m, MemOK(m), NEW lines
    PROVE  LET n == Invalidated(m, lines)
           IN  /\ MemOK(n)
               /\ \A a \in Memory :
                    n.cache[a] = IF a \in lines THEN NotCached ELSE m.cache[a]
<1> DEFINE cache == [a \in Memory |-> IF a \in lines THEN NotCached ELSE m.cache[a]]
           n     == Invalidated(m, lines)
<1>1. n = [m EXCEPT !.cache = cache]
  BY Zenon DEF Invalidated
<1>2. cache \in [Memory -> CacheLine]
  BY ViewValue, NotCachedProps
<1>3. \A a \in Memory : cache[a] = NotCached \/ cache[a].value \in Values
  BY MemParts
<1>4. m.user \in [UserMemory -> Values] /\ m.ram \in [Memory -> Values]
  BY MemParts
<1>5. \A a \in Memory : cache[a] = IF a \in lines THEN NotCached ELSE m.cache[a]
  OBVIOUS
<1> HIDE DEF cache, n
<1>6. MemOK(n) /\ n.cache = cache
  <2>1. m \in Memories
    BY DEF MemOK
  <2>2. n \in Memories /\ n.ram = m.ram /\ n.cache = cache /\ n.user = m.user
    BY <1>2, <1>3, <1>4, <1>1, <2>1 DEF Memories
  <2>3. MemOK(n)
    BY <1>2, <1>3, <1>4, <2>2, Zenon DEF MemOK
  <2>4. QED BY <2>2, <2>3
<1>7. QED BY <1>5, <1>6, Zenon DEF n

(* Where a mapping's lines are.                                            *)
LEMMA SlotLines ==
    ASSUME NEW t \in Slot, SlotOK(t)
    PROVE  /\ Lines(t.mapped, t.size) \subseteq Memory
           /\ t.isMapping => Lines(t.public, t.size) \subseteq UserMemory
           /\ \A a \in Lines(t.mapped, t.size) :
                t.public + (a - t.mapped) \in Lines(t.public, t.size)
           /\ \A a \in Lines(t.public, t.size) :
                t.mapped + (a - t.public) \in Lines(t.mapped, t.size)
<1>1. t.public \in Nat /\ t.mapped \in Nat /\ t.size \in Nat
  BY SlotFields
<1>2. Lines(t.mapped, t.size) \subseteq Memory
  <2>1. Lines(t.mapped, t.size) \subseteq Occupied(BlockOf(t))
    BY <1>1, SlotFields DEF Occupied, Lines
  <2>2. QED BY <2>1 DEF SlotOK
<1>3. t.isMapping => Lines(t.public, t.size) \subseteq UserMemory
  <2>1. t.isMapping => PublicOf(t) \in Buffers
    BY DEF SlotOK
  <2>2. QED BY <2>1, SlotFields DEF UserMemory
<1>4. \A a \in Lines(t.mapped, t.size) :
          t.public + (a - t.mapped) \in Lines(t.public, t.size)
  BY <1>1 DEF Lines
<1>5. \A a \in Lines(t.public, t.size) :
          t.mapped + (a - t.public) \in Lines(t.mapped, t.size)
  BY <1>1 DEF Lines
<1>6. QED BY <1>2, <1>3, <1>4, <1>5

(* The copy to a mapping's bounce buffer.                                  *)
LEMMA CopyToDmaProps ==
    ASSUME NEW m, MemOK(m), NEW t \in Slot, SlotOK(t), t.isMapping
    PROVE  LET n == CopyToDma(m, t)
           IN  /\ MemOK(n)
               /\ n.user = m.user /\ n.ram = m.ram
               /\ \A a \in Memory :
                    n.cache[a] = IF a \in Lines(t.mapped, t.size)
                                 THEN Line(TRUE, m.user[t.public + (a - t.mapped)])
                                 ELSE m.cache[a]
               /\ \A a \in Lines(t.mapped, t.size) :
                    m.user[t.public + (a - t.mapped)] \in Values
<1> DEFINE source == Lines(t.mapped, t.size)
           cache == [a \in Memory |->
                        IF a \in source
                        THEN Line(TRUE, m.user[t.public + (a - t.mapped)])
                        ELSE m.cache[a]]
           n     == CopyToDma(m, t)
<1>1. n = [m EXCEPT !.cache = cache]
  BY Zenon DEF CopyToDma
<1>2. m.user \in [UserMemory -> Values] /\ m.ram \in [Memory -> Values]
  BY MemParts
<1>3. \A a \in source : m.user[t.public + (a - t.mapped)] \in Values
  <2>1. \A a \in source : t.public + (a - t.mapped) \in UserMemory
    BY SlotLines, Zenon
  <2>2. QED BY <1>2, <2>1
<1> HIDE DEF source
<1>4. \A a \in Memory :
         cache[a] = IF a \in source
                    THEN Line(TRUE, m.user[t.public + (a - t.mapped)])
                    ELSE m.cache[a]
  OBVIOUS
<1>a. cache = [a \in Memory |-> cache[a]]
  OBVIOUS
<1> HIDE DEF cache
<1>5. ASSUME NEW a \in Memory
      PROVE  /\ cache[a] \in CacheLine
             /\ cache[a] = NotCached \/ cache[a].value \in Values
  <2>1. CASE a \in source
    <3> DEFINE v == m.user[t.public + (a - t.mapped)]
    <3>1. v \in Values /\ cache[a] = Line(TRUE, v)
      BY <1>3, <1>4, <2>1
    <3> HIDE DEF v
    <3>2. QED BY <3>1, LineProps
  <2>2. CASE a \notin source
    <3>1. cache[a] = m.cache[a]
      BY <1>4, <2>2
    <3>2. QED BY <3>1, MemParts, ViewValue
  <2>3. QED BY <2>1, <2>2
<1>6. cache \in [Memory -> CacheLine]
  BY <1>a, <1>5
<1> HIDE DEF n
<1>7. MemOK(n) /\ n.ram = m.ram /\ n.cache = cache /\ n.user = m.user
  <2>1. m \in Memories
    BY DEF MemOK
  <2>2. n \in Memories /\ n.ram = m.ram /\ n.cache = cache /\ n.user = m.user
    BY <1>2, <1>5, <1>6, <1>1, <2>1 DEF Memories
  <2>3. MemOK(n)
    BY <1>2, <1>5, <1>6, <2>2, Zenon DEF MemOK
  <2>4. QED BY <2>2, <2>3
<1>8. QED BY <1>3, <1>4, <1>7, Zenon DEF n, source

(* The copy back.                                                          *)
LEMMA CopyFromDmaProps ==
    ASSUME NEW m, MemOK(m), NEW t \in Slot, SlotOK(t), t.isMapping
    PROVE  LET n == CopyFromDma(m, t)
           IN  /\ MemOK(n)
               /\ n.ram = m.ram
               /\ \A a \in Memory : n.cache[a].dirty = m.cache[a].dirty
               /\ \A a \in Lines(t.public, t.size) :
                    n.user[a] = CpuView(m, t.mapped + (a - t.public))
<1> DEFINE source == Lines(t.mapped, t.size)
           target == Lines(t.public, t.size)
           user  == [a \in DOMAIN m.user |->
                        IF a \in target THEN CpuView(m, t.mapped + (a - t.public))
                        ELSE m.user[a]]
           cache == [a \in Memory |->
                        IF a \in source THEN Line(m.cache[a].dirty, CpuView(m, a))
                        ELSE m.cache[a]]
           n     == CopyFromDma(m, t)
<1>1. n = [m EXCEPT !.user = user, !.cache = cache]
  BY Zenon DEF CopyFromDma
<1>2. m.user \in [UserMemory -> Values] /\ m.ram \in [Memory -> Values]
  BY MemParts
<1>3. target \subseteq UserMemory
  BY SlotLines
<1>4. \A a \in target : CpuView(m, t.mapped + (a - t.public)) \in Values
  <2>1. \A a \in target : t.mapped + (a - t.public) \in Memory
    BY SlotLines, Zenon
  <2>2. QED BY <2>1, ViewValue, Zenon
<1> HIDE DEF source, target
<1>5. /\ user = [a \in UserMemory |-> user[a]]
      /\ \A a \in UserMemory :
            user[a] = IF a \in target THEN CpuView(m, t.mapped + (a - t.public))
                      ELSE m.user[a]
  BY <1>2
<1>6. /\ cache = [a \in Memory |-> cache[a]]
      /\ \A a \in Memory :
            cache[a] = IF a \in source THEN Line(m.cache[a].dirty, CpuView(m, a))
                       ELSE m.cache[a]
  OBVIOUS
<1> HIDE DEF user, cache
<1>7. user \in [UserMemory -> Values]
  BY <1>2, <1>4, <1>5
<1>8. ASSUME NEW a \in Memory
      PROVE  /\ cache[a] \in CacheLine
             /\ cache[a] = NotCached \/ cache[a].value \in Values
             /\ cache[a].dirty = m.cache[a].dirty
  <2>1. CASE a \in source
    <3> DEFINE v == CpuView(m, a)
               d == m.cache[a].dirty
    <3>1. v \in Values /\ d \in BOOLEAN
      BY ViewValue
    <3>2. cache[a] = Line(d, v)
      BY <1>6, <2>1
    <3> HIDE DEF v, d
    <3>3. cache[a] \in CacheLine /\ cache[a].value \in Values /\ cache[a].dirty = d
      BY <3>1, <3>2, LineProps
    <3>4. QED BY <3>3 DEF d
  <2>2. CASE a \notin source
    <3>1. cache[a] = m.cache[a]
      BY <1>6, <2>2
    <3>2. QED BY <3>1, MemParts, ViewValue
  <2>3. QED BY <2>1, <2>2
<1>9. cache \in [Memory -> CacheLine]
  BY <1>6, <1>8
<1> HIDE DEF n
<1>10. MemOK(n) /\ n.ram = m.ram /\ n.cache = cache /\ n.user = user
  <2>1. m \in Memories
    BY DEF MemOK
  <2>2. n \in Memories /\ n.ram = m.ram /\ n.cache = cache /\ n.user = user
    BY <1>2, <1>7, <1>8, <1>9, <1>1, <2>1 DEF Memories
  <2>3. MemOK(n)
    BY <1>2, <1>7, <1>8, <1>9, <2>2, Zenon DEF MemOK
  <2>4. QED BY <2>2, <2>3
<1>11. \A a \in target : user[a] = CpuView(m, t.mapped + (a - t.public))
  BY <1>3, <1>5
<1>12. QED BY <1>8, <1>10, <1>11, Zenon DEF n, target

-----------------------------------------------------------------------------
(* The range operations.                                                   *)

(* A slot found is one in use, in order.                                   *)
LEMMA FoundSlot ==
    ASSUME NEW tbl, TableOK(tbl), NEW base, NEW addr, Find(tbl, base, addr) # 0
    PROVE  LET x == Find(tbl, base, addr)
           IN  x \in UsedOf(tbl) /\ tbl[x] \in Slot /\ SlotOK(tbl[x])
<1> DEFINE x == Find(tbl, base, addr)
<1>1. x \in Slots /\ tbl[x].inUse
  BY FindProps, Zenon
<1> HIDE DEF x
<1>2. x \in UsedOf(tbl) /\ tbl[x] \in Slot /\ SlotOK(tbl[x])
  BY <1>1 DEF UsedOf, TableOK
<1>3. QED BY <1>2, Zenon DEF x

(* What a flush does to memory, in slot t: copy to the bounce buffer, write *)
(* back, copy from it.  Nothing becomes dirty but a mapping that is to be  *)
(* read by a device.                                                       *)
LEMMA FlushedProps ==
    ASSUME NEW m, MemOK(m), NEW tbl, TableOK(tbl), NEW start, NEW stop
    PROVE  LET n == Flushed(m, tbl, start, stop)
               x == Find(tbl, "public", start)
           IN  /\ MemOK(n)
               /\ \A a \in Memory : n.cache[a].dirty =>
                    \/ m.cache[a].dirty
                    \/ /\ x # 0 /\ tbl[x].isMapping /\ tbl[x].dir = "to"
                       /\ a \in Lines(tbl[x].mapped, tbl[x].size)
<1> DEFINE n == Flushed(m, tbl, start, stop)
           x == Find(tbl, "public", start)
           t == tbl[x]
           copied == IF t.isMapping /\ t.dir = "to" THEN CopyToDma(m, t) ELSE m
           cleaned == CleanInvalidated(copied, RangeLines(t, start, stop))
<1>1. CASE x = 0
  <2>1. n = m
    BY <1>1, Zenon DEF Flushed
  <2>2. QED BY <2>1, Zenon
<1>2. CASE x # 0
  <2>1. t \in Slot /\ SlotOK(t)
    BY <1>2, FoundSlot, Zenon
  <2>2. n = IF stop < start THEN copied
            ELSE IF t.isMapping /\ t.dir = "from" THEN CopyFromDma(cleaned, t)
            ELSE cleaned
    BY <1>2, Zenon DEF Flushed
  <2> HIDE DEF n, x, t
  <2>3. /\ MemOK(copied)
        /\ \A a \in Memory : copied.cache[a].dirty =>
              \/ m.cache[a].dirty
              \/ /\ t.isMapping /\ t.dir = "to"
                 /\ a \in Lines(t.mapped, t.size)
    <3>1. CASE t.isMapping /\ t.dir = "to"
      <4>1. copied = CopyToDma(m, t)
        BY <3>1, Zenon
      <4>2. QED BY <2>1, <3>1, <4>1, CopyToDmaProps, Zenon
    <3>2. CASE ~ (t.isMapping /\ t.dir = "to")
      BY <3>2, Zenon
    <3>3. QED BY <3>1, <3>2, Zenon
  <2> HIDE DEF copied
  <2>4. /\ MemOK(cleaned)
        /\ \A a \in Memory : cleaned.cache[a].dirty => copied.cache[a].dirty
    <3>1. MemOK(cleaned)
      BY <2>3, CleanInvalidatedProps, Zenon
    <3>2. ASSUME NEW a \in Memory
          PROVE  cleaned.cache[a] = NotCached \/ cleaned.cache[a] = copied.cache[a]
      <4>1. cleaned.cache[a] = IF a \in RangeLines(t, start, stop) THEN NotCached
                              ELSE copied.cache[a]
        BY <2>3, CleanInvalidatedProps
      <4>2. QED BY <4>1, Zenon
    <3> HIDE DEF cleaned
    <3>3. QED BY <3>1, <3>2, NotCachedProps
  <2> HIDE DEF cleaned
  <2>5. CASE stop < start
    BY <2>2, <2>3, <2>5, <1>2, Zenon DEF x, t, n
  <2>6. CASE ~(stop < start) /\ t.isMapping /\ t.dir = "from"
    <3>1. n = CopyFromDma(cleaned, t)
      BY <2>2, <2>6, Zenon
    <3>2. /\ MemOK(n)
          /\ \A a \in Memory : n.cache[a].dirty = cleaned.cache[a].dirty
      BY <2>1, <2>4, <2>6, <3>1, CopyFromDmaProps, Zenon
    <3>3. QED BY <1>2, <2>3, <2>4, <3>2, Zenon DEF x, t, n
  <2>7. CASE ~(stop < start) /\ ~(t.isMapping /\ t.dir = "from")
    <3>1. n = cleaned
      BY <2>2, <2>7, Zenon
    <3>2. QED BY <1>2, <2>3, <2>4, <3>1, Zenon DEF x, t, n
  <2>8. QED BY <2>5, <2>6, <2>7, Zenon
<1>3. QED BY <1>1, <1>2, Zenon

(* An invalidation dirties nothing.                                        *)
LEMMA RangeInvalidatedProps ==
    ASSUME NEW m, MemOK(m), NEW tbl, TableOK(tbl), NEW start, NEW stop
    PROVE  LET n == RangeInvalidated(m, tbl, start, stop)
           IN  /\ MemOK(n)
               /\ \A a \in Memory : n.cache[a].dirty => m.cache[a].dirty
<1> DEFINE n == RangeInvalidated(m, tbl, start, stop)
           x == Find(tbl, "public", start)
           t == tbl[x]
           dropped == Invalidated(m, RangeLines(t, start, stop))
<1>1. CASE x = 0 \/ stop < start
  <2>1. n = m
    BY <1>1, Zenon DEF RangeInvalidated
  <2>2. QED BY <2>1, Zenon
<1>2. CASE ~(x = 0 \/ stop < start)
  <2>1. t \in Slot /\ SlotOK(t)
    BY <1>2, FoundSlot, Zenon
  <2>2. n = IF t.isMapping THEN CopyFromDma(dropped, t) ELSE dropped
    BY <1>2, Zenon DEF RangeInvalidated
  <2> HIDE DEF n, x, t
  <2>3. /\ MemOK(dropped)
        /\ \A a \in Memory : dropped.cache[a].dirty => m.cache[a].dirty
    <3>1. MemOK(dropped)
      BY InvalidatedProps, Zenon
    <3>2. ASSUME NEW a \in Memory
          PROVE  dropped.cache[a] = NotCached \/ dropped.cache[a] = m.cache[a]
      <4>1. dropped.cache[a] = IF a \in RangeLines(t, start, stop) THEN NotCached
                              ELSE m.cache[a]
        BY InvalidatedProps
      <4>2. QED BY <4>1, Zenon
    <3> HIDE DEF dropped
    <3>3. QED BY <3>1, <3>2, NotCachedProps
  <2> HIDE DEF dropped
  <2>4. CASE t.isMapping
    <3>1. n = CopyFromDma(dropped, t)
      BY <2>2, <2>4, Zenon
    <3>2. /\ MemOK(n)
          /\ \A a \in Memory : n.cache[a].dirty = dropped.cache[a].dirty
      BY <2>1, <2>3, <2>4, <3>1, CopyFromDmaProps, Zenon
    <3>3. QED BY <2>3, <3>2, Zenon DEF n
  <2>5. CASE ~t.isMapping
    <3>1. n = dropped
      BY <2>2, <2>5, Zenon
    <3>2. QED BY <2>3, <3>1, Zenon DEF n
  <2>6. QED BY <2>4, <2>5, Zenon
<1>3. QED BY <1>1, <1>2, Zenon

-----------------------------------------------------------------------------
(* What single steps do to the table.                                      *)

(* What is in use is exactly what is not free.                             *)
LEMMA FreeSlot ==
    ASSUME TableInv, FreeSlots # {}
    PROVE  /\ LowestOf(FreeSlots) \in Slots \ UsedOf(table)
           /\ LowestOf(FreeSlots) \in Slots
           /\ ~table[LowestOf(FreeSlots)].inUse
<1>1. FreeSlots \in SUBSET Nat
  BY TableAssumption DEF FreeSlots, Slots
<1>2. LowestOf(FreeSlots) \in FreeSlots
  BY <1>1, LowestProps
<1>3. QED BY <1>2 DEF FreeSlots, UsedOf

(* A block of no memory anybody holds overlaps no slot's.                  *)
LEMMA FreshBlock ==
    ASSUME TableInv, NEW b \in Blocks, Grantable(b)
    PROVE  /\ Occupied(b) \subseteq Memory
           /\ \A h \in BlocksOf(table) : Occupied(b) \cap Occupied(h) = {}
           /\ b.start \in Nat \ {0} /\ b.size \in Nat
           /\ b = [start |-> b.start, size |-> b.size]
           /\ b.start \in Occupied(b)
           /\ b \notin held /\ HeldApart(held \cup {b})
<1>1. BlocksOf(table) \subseteq held /\ HeldApart(held)
  BY TableInvParts DEF TableParts
<1>2. b.start \in Nat \ {0} /\ b.size \in Nat /\ b = [start |-> b.start, size |-> b.size]
  BY MemoryAssumption DEF Blocks
<1>3. b.start \in Occupied(b)
  BY <1>2, RangeOccupied
<1>4. b \notin held
  BY <1>3 DEF Grantable
<1>5. HeldApart(held \cup {b})
  BY <1>1 DEF Grantable, HeldApart
<1>6. QED BY <1>1, <1>2, <1>3, <1>4, <1>5 DEF Grantable

(* The table once memory has been allocated.                               *)
LEMMA MemalignTable ==
    ASSUME TableInv, NEW b \in Blocks, Memalign(b)
    PROVE  LET x == LowestOf(FreeSlots)
           IN  /\ TableOK(table')
               /\ x \in Slots \ UsedOf(table)
               /\ UsedOf(table') = UsedOf(table) \cup {x}
               /\ BlocksOf(table') = BlocksOf(table) \cup {b}
               /\ BlockOf(table'[x]) = b /\ PublicOf(table'[x]) = b
               /\ ~table'[x].isMapping
               /\ \A y \in UsedOf(table) : table'[y] = table[y]
<1> DEFINE x == LowestOf(FreeSlots)
           t == [inUse |-> TRUE, isMapping |-> FALSE,
                 public |-> b.start, mapped |-> b.start,
                 paddr |-> b.start + PhysOffset,
                 size |-> b.size, dir |-> "none"]
<1>1. x \in Slots \ UsedOf(table)
  BY FreeSlot DEF Memalign
<1>2. /\ Grantable(b) /\ table' = [table EXCEPT ![x] = t]
  BY DEF Memalign, Recorded
<1>3. /\ Occupied(b) \subseteq Memory
      /\ \A h \in BlocksOf(table) : Occupied(b) \cap Occupied(h) = {}
      /\ b.start \in Nat \ {0} /\ b.size \in Nat
      /\ b = [start |-> b.start, size |-> b.size]
  BY <1>2, FreshBlock
<1>4. t \in Slot /\ t.inUse /\ ~t.isMapping
  BY <1>3, MemoryAssumption DEF Slot
<1>5. BlockOf(t) = b /\ PublicOf(t) = b
  BY <1>3 DEF BlockOf, PublicOf
<1>6. SlotOK(t)
  BY <1>3, <1>5 DEF SlotOK
<1>7. TableOK(table)
  BY TableInvParts DEF TableParts
<1> HIDE DEF x, t
<1>8. /\ TableOK(table') /\ UsedOf(table') = UsedOf(table) \cup {x}
      /\ BlocksOf(table') = BlocksOf(table) \cup {BlockOf(t)}
      /\ table'[x] = t
      /\ \A y \in Slots \ {x} : table'[y] = table[y]
  <2>1. \A h \in BlocksOf(table) : Occupied(BlockOf(t)) \cap Occupied(h) = {}
    BY <1>3, <1>5, Zenon
  <2>2. x \in Slots \ UsedOf(table) /\ t \in Slot /\ t.inUse /\ SlotOK(t) /\ TableOK(table)
    BY <1>1, <1>4, <1>6, <1>7, Zenon
  <2>3. table' = [table EXCEPT ![x] = t]
    BY <1>2, Zenon
  <2>4. Filled(table, x, t, table')
    BY <2>1, <2>2, <2>3, FillSlot, Zenon
  <2>5. QED BY <2>4, Zenon DEF Filled
<1>10. \A y \in UsedOf(table) : y \in Slots \ {x}
  BY <1>1 DEF UsedOf
<1>11. QED BY <1>1, <1>4, <1>5, <1>8, <1>10 DEF x

(* The table once memory has been mapped: the slot just filled is the one  *)
(* found again.                                                            *)
LEMMA MapSingleTable ==
    ASSUME TableInv, NEW u \in Buffers, NEW dir \in {"to", "from"},
           NEW start \in Memory, MapSingle(u, dir, start)
    PROVE  LET x == LowestOf(FreeSlots)
               b == [start |-> start, size |-> u.size]
               t == table'[x]
           IN  /\ TableOK(table')
               /\ x \in Slots \ UsedOf(table)
               /\ UsedOf(table') = UsedOf(table) \cup {x}
               /\ BlocksOf(table') = BlocksOf(table) \cup {b}
               /\ held' = held \cup {b} /\ b \in Blocks
               /\ b \notin held /\ HeldApart(held \cup {b})
               /\ BlockOf(t) = b /\ PublicOf(t) = u
               /\ t.isMapping /\ t.dir = dir /\ t.size = u.size
               /\ t.public = u.start /\ t.mapped = start
               /\ maps' = maps \cup {MappingOf(t)}
               /\ MappingOf(t) \in Mappings
               /\ \A y \in UsedOf(table) : table'[y] = table[y]
<1> DEFINE x == LowestOf(FreeSlots)
           b == [start |-> start, size |-> u.size]
           r == [inUse |-> TRUE, isMapping |-> FALSE,
                 public |-> start, mapped |-> start,
                 paddr |-> start + PhysOffset,
                 size |-> u.size, dir |-> "none"]
           filled == [table EXCEPT ![x] = r]
           t == table'[x]
<1>1. x \in Slots \ UsedOf(table)
  BY FreeSlot DEF MapSingle
<1>2. u.start \in Nat \ {0} /\ u.size \in Nat /\ u = [start |-> u.start, size |-> u.size]
  BY MemoryAssumption
<1>3. b \in Blocks
  BY <1>2 DEF Blocks
<1>4. Grantable(b)
  BY DEF MapSingle
<1>5. /\ Occupied(b) \subseteq Memory
      /\ \A h \in BlocksOf(table) : Occupied(b) \cap Occupied(h) = {}
      /\ start \in Nat \ {0}
      /\ start \in Occupied(b)
      /\ b \notin held /\ HeldApart(held \cup {b})
  <2>1. b.start = start
    OBVIOUS
  <2> HIDE DEF b
  <2>2. QED BY <1>3, <1>4, <2>1, FreshBlock
<1>6. Recorded(x, b) = filled
  BY DEF Recorded
<1>7. TableOK(table) /\ table \in [Slots -> Slot]
  BY TableInvParts DEF TableParts, TableOK
<1>8. Find(filled, "mapped", start) = x
  <2>1. r \in Slot
    BY <1>2, <1>5, MemoryAssumption DEF Slot
  <2>2. /\ filled[x] = r /\ r.inUse /\ r["mapped"] = start
        /\ \A y \in Slots : y # x => filled[y] = table[y]
    BY <1>1, <1>7
  <2> HIDE DEF filled, r, x
  <2>3. ASSUME NEW y \in Slots, y # x, filled[y].inUse,
               RangeHas(filled[y]["mapped"], filled[y].size, start)
        PROVE  FALSE
    <3>1. filled[y] = table[y] /\ y \in UsedOf(table) /\ table[y] \in Slot
      BY <1>7, <2>2, <2>3 DEF UsedOf
    <3>2. /\ table[y].mapped \in Nat /\ table[y].size \in Nat
          /\ BlockOf(table[y]) = [start |-> table[y].mapped, size |-> table[y].size]
      BY <3>1, SlotFields DEF BlockOf
    <3>3. RangeHas(table[y].mapped, table[y].size, start)
      BY <2>3, <3>1
    <3>4. start \in Occupied(BlockOf(table[y]))
      BY <3>2, <3>3, RangeOccupied
    <3>5. BlockOf(table[y]) \in BlocksOf(table)
      BY <3>1 DEF BlocksOf
    <3>6. QED BY <1>5, <3>4, <3>5
  <2>4. RangeHas(filled[x]["mapped"], filled[x].size, start)
    BY <2>2 DEF RangeHas
  <2>5. x \in Slots /\ filled[x].inUse
    BY <1>1, <2>2
  <2>6. QED BY <2>3, <2>4, <2>5, FindOnly, Zenon
<1>9. /\ table' = [filled EXCEPT ![x].isMapping = TRUE,
                                 ![x].public = u.start, ![x].dir = dir]
      /\ held' = held \cup {b}
      /\ maps' = maps \cup {[paddr |-> t.paddr, public |-> u.start,
                             size |-> u.size, dir |-> dir]}
  BY <1>6, <1>8, Zenon DEF MapSingle
<1>10. /\ t.inUse /\ t.isMapping /\ t.public = u.start /\ t.dir = dir
       /\ t.mapped = start /\ t.paddr = start + PhysOffset /\ t.size = u.size
       /\ t \in Slot
       /\ \A y \in Slots \ {x} : table'[y] = table[y]
       /\ table' \in [Slots -> Slot]
  <2>1. r \in Slot
    BY <1>2, <1>5, MemoryAssumption DEF Slot
  <2>2. filled \in [Slots -> Slot] /\ filled[x] = r
    BY <1>1, <1>7, <2>1
  <2>3. \A y \in Slots \ {x} : filled[y] = table[y]
    BY <1>1, <1>7
  <2> HIDE DEF filled
  <2>4. table' \in [Slots -> Slot]
    BY <1>1, <1>2, <1>9, <2>2 DEF Slot
  <2>5. t = [[[r EXCEPT !.isMapping = TRUE] EXCEPT !.public = u.start] EXCEPT !.dir = dir]
    BY <1>1, <1>9, <2>2 DEF Slot
  <2>6. /\ t.inUse /\ t.isMapping /\ t.public = u.start /\ t.dir = dir
        /\ t.mapped = start /\ t.paddr = start + PhysOffset /\ t.size = u.size
    BY <2>5
  <2>7. \A y \in Slots \ {x} : table'[y] = table[y]
    BY <1>1, <1>9, <2>2, <2>3
  <2>8. t \in Slot
    BY <1>1, <2>4
  <2>9. QED BY <2>4, <2>6, <2>7, <2>8
<1> HIDE DEF filled, r, x, t
<1>11. BlockOf(t) = b /\ PublicOf(t) = u
  BY <1>2, <1>10 DEF BlockOf, PublicOf
<1>12. SlotOK(t)
  BY <1>3, <1>5, <1>10, <1>11 DEF SlotOK
<1>13. MappingOf(t) \in Mappings
       /\ MappingOf(t) = [paddr |-> t.paddr, public |-> u.start,
                          size |-> u.size, dir |-> dir]
  BY <1>2, <1>10, <1>5, MemoryAssumption DEF MappingOf, Mappings
<1> HIDE DEF b
<1>14. table' = [table EXCEPT ![x] = t]
  <2> DEFINE new == [table EXCEPT ![x] = t]
  <2>1. \A y \in Slots : table'[y] = new[y]
    BY <1>1, <1>7, <1>10 DEF t
  <2>2. new \in [Slots -> Slot]
    BY <1>1, <1>7, <1>10
  <2> HIDE DEF new
  <2>3. table' = new
    BY <1>10, <2>1, <2>2
  <2>4. QED BY <2>3 DEF new
<1>15. /\ TableOK(table') /\ UsedOf(table') = UsedOf(table) \cup {x}
       /\ BlocksOf(table') = BlocksOf(table) \cup {BlockOf(t)}
  <2>1. \A h \in BlocksOf(table) : Occupied(BlockOf(t)) \cap Occupied(h) = {}
    BY <1>5, <1>11, Zenon
  <2>2. x \in Slots \ UsedOf(table) /\ t \in Slot /\ t.inUse /\ SlotOK(t) /\ TableOK(table)
    BY <1>1, <1>7, <1>10, <1>12, Zenon
  <2>3. Filled(table, x, t, table')
    BY <1>14, <2>1, <2>2, FillSlot, Zenon
  <2>4. QED BY <2>3, Zenon DEF Filled
<1>16. \A y \in UsedOf(table) : y \in Slots \ {x}
  BY <1>1 DEF UsedOf
<1>17. QED BY <1>1, <1>3, <1>5, <1>9, <1>10, <1>11, <1>13, <1>15, <1>16 DEF x, t, b

(* The table once a block has been returned.                               *)
LEMMA FreedTable ==
    ASSUME TableInv, NEW vaddr, Becomes(Freed(Bookkeeping, vaddr))
    PROVE  /\ TableOK(table') /\ BlocksOf(table') \subseteq held'
           /\ HeldApart(held')
           /\ UsedOf(table') \subseteq UsedOf(table)
           /\ held' \subseteq held
           /\ Forgotten' = Forgotten
<1> DEFINE s == Bookkeeping
           n == Freed(s, vaddr)
<1>1. s.table = table /\ s.held = held
  BY DEF Bookkeeping
<1>2. TableOK(table) /\ BlocksOf(table) \subseteq held /\ HeldApart(held)
  BY TableInvParts DEF TableParts
<1>3. table' = n.table /\ held' = n.held
  BY DEF Becomes
<1> HIDE DEF s
<1>4. /\ TableOK(n.table) /\ BlocksOf(n.table) \subseteq n.held
      /\ UsedOf(n.table) \subseteq UsedOf(s.table)
      /\ n.held \subseteq s.held
      /\ n.held \ BlocksOf(n.table) = s.held \ BlocksOf(s.table)
  <2>1. TableOK(s.table) /\ BlocksOf(s.table) \subseteq s.held
    BY <1>1, <1>2, Zenon
  <2>2. QED BY <2>1, FreedProps, Zenon
<1> HIDE DEF n
<1>5. Forgotten' = Forgotten
  BY <1>1, <1>3, <1>4, ForgottenParts
<1>6. HeldApart(held')
  BY <1>1, <1>2, <1>3, <1>4 DEF HeldApart
<1>7. QED BY <1>1, <1>3, <1>4, <1>5, <1>6

(* So it is once a mapping has been given up, whichever slot is found.     *)
LEMMA UnmappedTable ==
    ASSUME TableInv, NEW paddr, Unmapped(paddr)
    PROVE  /\ TableOK(table') /\ BlocksOf(table') \subseteq held'
           /\ HeldApart(held') /\ held' \subseteq held
           /\ Forgotten' = Forgotten /\ MemOK(mem')
<1> DEFINE x == Find(table, "paddr", paddr)
           t == table[x]
<1>1. /\ TableOK(table) /\ BlocksOf(table) \subseteq held /\ HeldApart(held)
      /\ MemOK(mem)
  BY TableInvParts DEF TableParts
<1>2. CASE x # 0 /\ t.isMapping
  <2>1. /\ mem' = Flushed(mem, table, t.public, t.public + t.size)
        /\ Becomes(Freed(Bookkeeping, t.public))
    BY <1>2, Zenon DEF Unmapped
  <2> HIDE DEF x, t
  <2>2. MemOK(mem')
    BY <1>1, <2>1, FlushedProps, Zenon
  <2>3. QED BY <2>1, <2>2, FreedTable
<1>3. CASE ~(x # 0 /\ t.isMapping)
  <2>1. table' = table /\ held' = held /\ mem' = mem
    BY <1>3, Zenon DEF Unmapped
  <2>2. QED BY <1>1, <2>1, ForgottenParts
<1>4. QED BY <1>2, <1>3, Zenon

-----------------------------------------------------------------------------
(* Memory, between calls.                                                  *)

(* Whatever happens between calls, every line still holds a value.         *)
LEMMA BetweenMemory ==
    ASSUME MemOK(mem), Between
    PROVE  MemOK(mem')
<1>1. /\ mem \in Memories
      /\ \A a \in Memory : mem.cache[a] = NotCached \/ mem.cache[a].value \in Values
  BY DEF MemOK
<1>2. ASSUME NEW a \in Memory, Evict(a) PROVE MemOK(mem')
  BY <1>2, CleanInvalidatedProps, Zenon DEF Evict
<1>3. ASSUME NEW a \in Memory, NEW l \in CacheLine, l.value \in Values,
             mem' = [mem EXCEPT !.cache[a] = l]
      PROVE  MemOK(mem')
  <2>1. mem' \in Memories
    BY <1>1, <1>3 DEF Memories
  <2>2. \A b \in Memory : mem'.cache[b] = IF b = a THEN l ELSE mem.cache[b]
    BY <1>1, <1>3 DEF Memories
  <2>3. QED BY <1>1, <1>3, <2>1, <2>2, Zenon DEF MemOK
<1>4. ASSUME NEW a \in Memory, Prefetch(a) PROVE MemOK(mem')
  <2> DEFINE l == Line(FALSE, mem.ram[a])
  <2>1. l \in CacheLine /\ l.value \in Values
    BY ViewValue, LineProps
  <2>2. mem' = [mem EXCEPT !.cache[a] = l]
    BY <1>4, Zenon DEF Prefetch
  <2> HIDE DEF l
  <2>3. QED BY <1>3, <2>1, <2>2, Zenon
<1>5. ASSUME NEW a \in Memory, NEW v \in Values, CpuWrite(a, v) PROVE MemOK(mem')
  <2> DEFINE l == Line(TRUE, v)
  <2>1. l \in CacheLine /\ l.value \in Values
    BY LineProps
  <2>2. mem' = [mem EXCEPT !.cache[a] = l]
    BY <1>5, Zenon DEF CpuWrite
  <2> HIDE DEF l
  <2>3. QED BY <1>3, <2>1, <2>2, Zenon
<1>6. ASSUME NEW a \in DOMAIN mem.user, NEW v \in Values, UserWrite(a, v)
      PROVE  MemOK(mem')
  <2>1. mem' \in Memories /\ mem'.cache = mem.cache
    BY <1>1, <1>6 DEF UserWrite, Memories
  <2>2. QED BY <1>1, <2>1, Zenon DEF MemOK
<1>7. ASSUME NEW a \in Memory, NEW v \in Values, DeviceWrite(a, v)
      PROVE  MemOK(mem')
  <2>1. mem' \in Memories /\ mem'.cache = mem.cache
    BY <1>1, <1>7 DEF DeviceWrite, Memories
  <2>2. QED BY <1>1, <2>1, Zenon DEF MemOK
<1>8. QED BY <1>2, <1>4, <1>5, <1>6, <1>7, Zenon DEF Between

-----------------------------------------------------------------------------
(* The table and the allocator agree, always.                              *)

(* The first states.                                                       *)
LEMMA TableInvInit == Init => TableInv
<1> SUFFICES ASSUME Init PROVE TableParts
  BY TableInvParts
<1>1. table \in [Slots -> Slot] /\ \A x \in Slots : table[x] = Cleared
  BY ClearedProps DEF Init
<1>2. UsedOf(table) = {}
  BY <1>1, ClearedProps DEF UsedOf
<1>3. TableOK(table) /\ BlocksOf(table) \subseteq held /\ HeldApart(held)
  BY <1>1, <1>2 DEF Init, TableOK, BlocksOf, HeldApart
<1>4. MemOK(mem)
  <2>1. PICK v \in Values : mem = [ram   |-> [a \in Memory |-> v],
                                   cache |-> [a \in Memory |-> NotCached],
                                   user  |-> [a \in UserMemory |-> v]]
    BY Zenon DEF Init
  <2> DEFINE ram   == [a \in Memory |-> v]
             cache == [a \in Memory |-> NotCached]
             user  == [a \in UserMemory |-> v]
  <2>2. ram \in [Memory -> Values] /\ user \in [UserMemory -> Values]
    OBVIOUS
  <2>3. cache \in [Memory -> CacheLine] /\ \A a \in Memory : cache[a] = NotCached
    BY NotCachedProps
  <2>4. mem = [ram |-> ram, cache |-> cache, user |-> user]
    BY <2>1, Zenon
  <2> HIDE DEF ram, cache, user
  <2>5. mem \in Memories /\ mem.cache = cache
    BY <2>2, <2>3, <2>4 DEF Memories
  <2>6. QED BY <2>3, <2>5, Zenon DEF MemOK
<1>5. QED BY <1>2, <1>3, <1>4 DEF Init, TableParts

(* Every step keeps it.                                                    *)
LEMMA TableInvStep == TableInv /\ [Next]_vars => TableInv'
<1> SUFFICES ASSUME TableInv, [Next]_vars PROVE TableInv'
  OBVIOUS
<1>1. TableParts
  BY TableInvParts
<1> SUFFICES TableParts'
  BY TableInvPartsNext
<1>2. CASE Initialise
  <2>2. table' \in [Slots -> Slot] /\ \A x \in Slots : table'[x] = Cleared
    BY <1>2, ClearedProps DEF Initialise
  <2>3. UsedOf(table') = {}
    BY <2>2, ClearedProps DEF UsedOf
  <2>4. TableOK(table') /\ BlocksOf(table') = {}
    BY <2>2, <2>3 DEF TableOK, BlocksOf
  <2>5. /\ manager' = TRUE /\ held' = held /\ mem' = mem
        /\ buffers' = {} /\ maps' = {}
    BY <1>2 DEF Initialise
  <2>6. QED BY <1>1, <2>3, <2>4, <2>5 DEF TableParts
<1>3. CASE Shutdown
  <2>1. /\ TableOK(table') /\ BlocksOf(table') = {}
        /\ UsedOf(table') = {} /\ held' = Forgotten
    BY <1>3, ShutdownEmpties
  <2>2. /\ manager' = FALSE /\ mem' = mem /\ buffers' = {} /\ maps' = {}
    BY <1>3 DEF Shutdown
  <2>3. held' \subseteq held /\ HeldApart(held')
    BY <1>1, <2>1, ForgottenParts DEF TableParts, HeldApart
  <2>4. QED BY <1>1, <2>1, <2>2, <2>3 DEF TableParts
<1>4. ASSUME NEW b \in Blocks, Memalign(b) PROVE TableParts'
  <2>1. TableOK(table') /\ BlocksOf(table') = BlocksOf(table) \cup {b}
    BY <1>4, MemalignTable
  <2>2. /\ manager /\ manager' = manager /\ held' = held \cup {b}
        /\ mem' = mem /\ buffers' = buffers \cup {b} /\ maps' = maps
    BY <1>4 DEF Memalign
  <2>3. HeldApart(held \cup {b})
    BY <1>4, FreshBlock DEF Memalign
  <2>4. QED BY <1>1, <2>1, <2>2, <2>3 DEF TableParts
<1>5. ASSUME NEW b \in buffers, Free(b) PROVE TableParts'
  <2>1. /\ TableOK(table') /\ BlocksOf(table') \subseteq held'
        /\ HeldApart(held') /\ held' \subseteq held
    BY <1>5, FreedTable DEF Free
  <2>2. /\ manager /\ manager' = manager
        /\ mem' = mem /\ buffers' = buffers \ {b} /\ maps' = maps
    BY <1>5 DEF Free
  <2>3. QED BY <1>1, <2>1, <2>2 DEF TableParts
<1>6. ASSUME NEW u \in Buffers, NEW dir \in {"to", "from"}, NEW start \in Memory,
             MapSingle(u, dir, start)
      PROVE  TableParts'
  <2> DEFINE b == [start |-> start, size |-> u.size]
             t == table'[LowestOf(FreeSlots)]
  <2>1. /\ TableOK(table') /\ BlocksOf(table') = BlocksOf(table) \cup {b}
        /\ held' = held \cup {b} /\ b \in Blocks /\ HeldApart(held \cup {b})
        /\ maps' = maps \cup {MappingOf(t)} /\ MappingOf(t) \in Mappings
    BY <1>6, MapSingleTable, Zenon
  <2>2. /\ manager /\ manager' = manager /\ buffers' = buffers
        /\ mem' = Flushed(mem, table', u.start, u.start + u.size)
    BY <1>6 DEF MapSingle
  <2>3. MemOK(mem')
    BY <1>1, <2>1, <2>2, FlushedProps, Zenon DEF TableParts
  <2> HIDE DEF b, t
  <2>4. QED BY <1>1, <2>1, <2>2, <2>3 DEF TableParts
<1>7. ASSUME NEW paddr, Unmapped(paddr), manager' = manager, manager,
             buffers' \subseteq buffers, maps' \subseteq maps
      PROVE  TableParts'
  <2>1. /\ TableOK(table') /\ BlocksOf(table') \subseteq held'
        /\ HeldApart(held') /\ held' \subseteq held /\ MemOK(mem')
    BY <1>7, UnmappedTable
  <2>2. QED BY <1>1, <1>7, <2>1 DEF TableParts
<1>8. ASSUME NEW m \in maps, UnmapSingle(m) PROVE TableParts'
  BY <1>7, <1>8 DEF UnmapSingle
<1>9. ASSUME NEW b \in Forgotten, LateUnmap(b) PROVE TableParts'
  BY <1>7, <1>9 DEF LateUnmap
<1>10. ASSUME NEW b \in Forgotten, LateFree(b) PROVE TableParts'
  <2>1. /\ TableOK(table') /\ BlocksOf(table') \subseteq held'
        /\ HeldApart(held') /\ held' \subseteq held
    BY <1>10, FreedTable DEF LateFree
  <2>2. /\ manager /\ manager' = manager
        /\ mem' = mem /\ buffers' = buffers /\ maps' = maps
    BY <1>10 DEF LateFree
  <2>3. QED BY <1>1, <2>1, <2>2 DEF TableParts
<1>11. ASSUME NEW b \in Blocks, MemalignUnpinned(b) PROVE TableParts'
  <2>1. held' = held
    BY <1>11, FreshBlock DEF MemalignUnpinned
  <2>2. /\ table' = table /\ manager' = manager /\ mem' = mem
        /\ buffers' = buffers /\ maps' = maps
    BY <1>11 DEF MemalignUnpinned
  <2>3. QED BY <1>1, <2>1, <2>2, Zenon DEF TableParts
<1>12. ASSUME NEW start, NEW stop, FlushRange(start, stop) PROVE TableParts'
  <2>1. /\ mem' = Flushed(mem, table, start, stop)
        /\ table' = table /\ manager' = manager /\ held' = held
        /\ buffers' = buffers /\ maps' = maps
    BY <1>12 DEF FlushRange
  <2>2. MemOK(mem')
    BY <1>1, <2>1, FlushedProps, Zenon DEF TableParts
  <2>3. QED BY <1>1, <2>1, <2>2, Zenon DEF TableParts
<1>13. ASSUME NEW start, NEW stop, InvalidateRange(start, stop) PROVE TableParts'
  <2>1. /\ mem' = RangeInvalidated(mem, table, start, stop)
        /\ table' = table /\ manager' = manager /\ held' = held
        /\ buffers' = buffers /\ maps' = maps
    BY <1>13 DEF InvalidateRange
  <2>2. MemOK(mem')
    BY <1>1, <2>1, RangeInvalidatedProps, Zenon DEF TableParts
  <2>3. QED BY <1>1, <2>1, <2>2, Zenon DEF TableParts
<1>14. CASE Between
  <2>1. /\ table' = table /\ manager' = manager /\ held' = held
        /\ buffers' = buffers /\ maps' = maps
    BY <1>14 DEF Between, Evict, Prefetch, CpuWrite, UserWrite, DeviceWrite
  <2>2. MemOK(mem')
    BY <1>1, <1>14, BetweenMemory DEF TableParts
  <2>3. QED BY <1>1, <2>1, <2>2, Zenon DEF TableParts
<1>15. CASE UNCHANGED vars
  BY <1>1, <1>15, Zenon DEF vars, TableParts
<1>16. QED
  BY <1>2, <1>3, <1>4, <1>5, <1>6, <1>8, <1>9, <1>10, <1>11, <1>12, <1>13,
     <1>14, <1>15, Zenon DEF Next

(* The table always describes blocks taken from the allocator, each once,  *)
(* what it says of them is consistent, and none overlaps another or one    *)
(* that an initialisation has forgotten.                                   *)
THEOREM TableKept == Spec => []TableInv
<1>1. QED BY TableInvInit, TableInvStep, PTL DEF Spec

(* Every variable keeps its type: no number in a slot leaves its range, and *)
(* no line of memory holds anything but a value.                           *)
THEOREM TypesKept == Spec => []TypeOK
<1>1. TableInv => TypeOK
  BY DEF TableInv
<1>2. QED BY <1>1, TableKept, PTL

(* What no call but an initialisation changes, wherever its search ends.   *)
LEMMA ForgottenStep ==
    ASSUME TableInv, [Next]_vars
    PROVE  Forgotten' = Forgotten \/ Initialise
<1>1. TableParts
  BY TableInvParts
<1>2. ASSUME table' = table, held' = held PROVE Forgotten' = Forgotten
  BY <1>2, ForgottenParts
<1>3. CASE Shutdown
  BY <1>3, ShutdownEmpties, ForgottenParts
<1>4. ASSUME NEW b \in Blocks, b \notin held, held' = held \cup {b},
             BlocksOf(table') = BlocksOf(table) \cup {b}
      PROVE  Forgotten' = Forgotten
  BY <1>1, <1>4, ForgottenParts DEF TableParts
<1>5. ASSUME NEW b \in Blocks, Memalign(b) PROVE Forgotten' = Forgotten
  <2>1. BlocksOf(table') = BlocksOf(table) \cup {b}
    BY <1>5, MemalignTable
  <2>2. b \notin held /\ held' = held \cup {b}
    BY <1>5, FreshBlock DEF Memalign
  <2>3. QED BY <1>4, <2>1, <2>2, Zenon
<1>6. ASSUME NEW b \in Blocks, MemalignUnpinned(b) PROVE Forgotten' = Forgotten
  <2>1. b \notin held /\ held' = (held \cup {b}) \ {b} /\ table' = table
    BY <1>6, FreshBlock, Zenon DEF MemalignUnpinned
  <2>2. QED BY <1>2, <2>1
<1>7. ASSUME NEW b \in buffers, Free(b) PROVE Forgotten' = Forgotten
  BY <1>7, FreedTable DEF Free
<1>8. ASSUME NEW u \in Buffers, NEW dir \in {"to", "from"}, NEW start \in Memory,
             MapSingle(u, dir, start)
      PROVE  Forgotten' = Forgotten
  <2> DEFINE b == [start |-> start, size |-> u.size]
  <2>1. /\ BlocksOf(table') = BlocksOf(table) \cup {b}
        /\ held' = held \cup {b} /\ b \in Blocks /\ b \notin held
    BY <1>8, MapSingleTable, Zenon
  <2> HIDE DEF b
  <2>2. QED BY <1>4, <2>1, Zenon
<1>9. ASSUME NEW m \in maps, UnmapSingle(m) PROVE Forgotten' = Forgotten
  BY <1>9, UnmappedTable DEF UnmapSingle
<1>10. ASSUME NEW b \in Forgotten, LateFree(b) \/ LateUnmap(b)
       PROVE  Forgotten' = Forgotten
  BY <1>10, FreedTable, UnmappedTable DEF LateFree, LateUnmap
<1>11. ASSUME NEW start, NEW stop, FlushRange(start, stop) \/ InvalidateRange(start, stop)
       PROVE  Forgotten' = Forgotten
  BY <1>2, <1>11 DEF FlushRange, InvalidateRange
<1>12. CASE Between
  BY <1>2, <1>12 DEF Between, Evict, Prefetch, CpuWrite, UserWrite, DeviceWrite
<1>13. CASE UNCHANGED vars
  BY <1>2, <1>13 DEF vars
<1>14. QED
  BY <1>3, <1>5, <1>6, <1>7, <1>8, <1>9, <1>10, <1>11, <1>12, <1>13, Zenon DEF Next

(* What is taken and not in the table changes by an initialisation only:   *)
(* every other call records what it takes and returns what it drops, even  *)
(* when its search finds another driver's slot or pinning fails.           *)
THEOREM TableAgrees == Spec => TableMatchesPool
<1> DEFINE A == Forgotten' = Forgotten \/ Initialise
<1>1. TableInv /\ [Next]_vars => [A]_vars
  BY ForgottenStep, Zenon
<1> HIDE DEF A
<1>2. Spec => [][A]_vars
  BY <1>1, TableKept, PTL DEF Spec
<1>3. QED BY <1>2 DEF TableMatchesPool, A

(* sel4_dma_shutdown returns every block taken since the last              *)
(* initialisation, for any table: the search for each slot's own address   *)
(* stops at that slot.                                                     *)
THEOREM NothingLeft == Spec => ShutdownReturnsAll
<1> DEFINE A == Shutdown => held' = Forgotten
<1>1. TableInv => A
  BY ShutdownEmpties, Zenon
<1>2. A => [A]_vars
  OBVIOUS
<1> HIDE DEF A
<1>3. Spec => [][A]_vars
  BY <1>1, <1>2, TableKept, PTL
<1>4. QED BY <1>3 DEF ShutdownReturnsAll, A

-----------------------------------------------------------------------------
(* While no memory is mapped twice at once.                                *)

BufferSlots(tbl) == {x \in UsedOf(tbl) : ~tbl[x].isMapping}

MappingSlots(tbl) == {x \in UsedOf(tbl) : tbl[x].isMapping}

PublicApart(tbl) ==
    \A x, y \in UsedOf(tbl) : x # y =>
        Occupied(PublicOf(tbl[x])) \cap Occupied(PublicOf(tbl[y])) = {}

NoDirt(m, tbl) ==
    \A x \in MappingSlots(tbl) : tbl[x].dir = "from" =>
        \A a \in Lines(tbl[x].mapped, tbl[x].size) : ~m.cache[a].dirty

(* OwnInv, slot by slot.                                                   *)
OwnParts ==
    /\ buffers = {BlockOf(table[x]) : x \in BufferSlots(table)}
    /\ maps = {MappingOf(table[x]) : x \in MappingSlots(table)}
    /\ PublicApart(table)
    /\ NoDirt(mem, table)

(* A mapping's lines, as the mapping and as its slot say.                  *)
LEMMA MappingFields ==
    ASSUME NEW tbl, TableOK(tbl), NEW x \in UsedOf(tbl)
    PROVE  LET t == tbl[x]
               m == MappingOf(t)
           IN  /\ t \in Slot /\ SlotOK(t)
               /\ m.paddr = t.paddr /\ m.public = t.public
               /\ m.size = t.size /\ m.dir = t.dir
               /\ m.paddr - PhysOffset = t.mapped
               /\ m.paddr = t.mapped + PhysOffset
<1> DEFINE t == tbl[x]
           m == MappingOf(t)
<1>1. t \in Slot /\ SlotOK(t)
  BY DEF TableOK, UsedOf
<1>2. /\ m.paddr = t.paddr /\ m.public = t.public
      /\ m.size = t.size /\ m.dir = t.dir
  BY DEF MappingOf
<1>3. t.paddr = t.mapped + PhysOffset /\ t.mapped \in Nat /\ PhysOffset \in Nat
  BY <1>1, SlotFields, MemoryAssumption DEF SlotOK
<1> HIDE DEF t, m
<1>4. m.paddr - PhysOffset = t.mapped
  BY <1>2, <1>3
<1>5. QED BY <1>1, <1>2, <1>3, <1>4 DEF t, m

(* No dirt, as OwnInv and as its parts say it.                             *)
LEMMA DirtParts ==
    ASSUME NEW tbl, TableOK(tbl), NEW m,
           NEW mp, mp = {MappingOf(tbl[x]) : x \in MappingSlots(tbl)}
    PROVE  NoDirt(m, tbl) <=>
             \A p \in mp : p.dir = "from" =>
                \A a \in Lines(p.paddr - PhysOffset, p.size) : ~m.cache[a].dirty
<1>1. \A x \in MappingSlots(tbl) :
        LET p == MappingOf(tbl[x])
        IN  /\ p.dir = tbl[x].dir
            /\ Lines(p.paddr - PhysOffset, p.size) = Lines(tbl[x].mapped, tbl[x].size)
  <2> SUFFICES ASSUME NEW x \in MappingSlots(tbl)
      PROVE  LET p == MappingOf(tbl[x])
             IN  /\ p.dir = tbl[x].dir
                 /\ Lines(p.paddr - PhysOffset, p.size)
                        = Lines(tbl[x].mapped, tbl[x].size)
    OBVIOUS
  <2>1. x \in UsedOf(tbl)
    BY DEF MappingSlots
  <2> DEFINE p == MappingOf(tbl[x])
  <2>2. /\ p.dir = tbl[x].dir /\ p.size = tbl[x].size
        /\ p.paddr - PhysOffset = tbl[x].mapped
    BY <2>1, MappingFields, Zenon
  <2> HIDE DEF p
  <2>3. QED BY <2>2, Zenon DEF p
<1>2. QED BY <1>1, Zenon DEF NoDirt

LEMMA OwnInvParts == TableInv => (OwnInv <=> OwnParts)
<1> SUFFICES ASSUME TableInv PROVE OwnInv <=> OwnParts
  OBVIOUS
<1> DEFINE M == {MappingOf(table[x]) : x \in MappingSlots(table)}
           D(mp) == \A p \in mp : p.dir = "from" =>
                        \A a \in Lines(p.paddr - PhysOffset, p.size) : ~mem.cache[a].dirty
<1>1. TableOK(table)
  BY TableInvParts DEF TableParts
<1>2. maps = M => (DeviceWritesSurvive <=> NoDirt(mem, table))
  <2>1. NoDirt(mem, table) <=> D(M)
    BY <1>1, DirtParts, Zenon
  <2> HIDE DEF M
  <2>2. QED BY <2>1, Zenon DEF DeviceWritesSurvive
<1>3. OwnInv <=> /\ buffers = {BlockOf(table[x]) : x \in BufferSlots(table)}
                 /\ maps = M /\ PublicApart(table) /\ DeviceWritesSurvive
  BY Zenon DEF OwnInv, BufferSlots, MappingSlots, PublicApart, UsedOf, Used
<1> HIDE DEF M, D
<1>4. QED BY <1>2, <1>3, Zenon DEF OwnParts, M

LEMMA OwnInvPartsNext == TableInv' => (OwnInv' <=> OwnParts')
<1> SUFFICES ASSUME TableInv' PROVE OwnInv' <=> OwnParts'
  OBVIOUS
<1> DEFINE M == {MappingOf(table'[x]) : x \in MappingSlots(table')}
           D(mp) == \A p \in mp : p.dir = "from" =>
                        \A a \in Lines(p.paddr - PhysOffset, p.size) : ~mem'.cache[a].dirty
<1>1. TableOK(table')
  BY TableInvPartsNext DEF TableParts
<1>2. maps' = M => (DeviceWritesSurvive' <=> NoDirt(mem', table'))
  <2>1. NoDirt(mem', table') <=> D(M)
    BY <1>1, DirtParts, Zenon
  <2> HIDE DEF M
  <2>2. QED BY <2>1, Zenon DEF DeviceWritesSurvive
<1>3. OwnInv' <=> /\ buffers' = {BlockOf(table'[x]) : x \in BufferSlots(table')}
                  /\ maps' = M /\ PublicApart(table') /\ DeviceWritesSurvive'
  BY Zenon DEF OwnInv, BufferSlots, MappingSlots, PublicApart, UsedOf, Used
<1> HIDE DEF M, D
<1>4. QED BY <1>2, <1>3, Zenon DEF OwnParts, M

(* An address of a slot's public range is found in that slot.              *)
LEMMA FindPublic ==
    ASSUME NEW tbl, TableOK(tbl), PublicApart(tbl), NEW x \in UsedOf(tbl),
           NEW a \in Occupied(PublicOf(tbl[x]))
    PROVE  Find(tbl, "public", a) = x
<1>1. \A y \in UsedOf(tbl) : RangeHas(tbl[y]["public"], tbl[y].size, a)
                                <=> a \in Occupied(PublicOf(tbl[y]))
  <2> SUFFICES ASSUME NEW y \in UsedOf(tbl)
      PROVE  RangeHas(tbl[y]["public"], tbl[y].size, a)
                <=> a \in Occupied(PublicOf(tbl[y]))
    OBVIOUS
  <2>1. tbl[y] \in Slot
    BY DEF TableOK, UsedOf
  <2>2. tbl[y].public \in Nat /\ tbl[y].size \in Nat
    BY <2>1, SlotFields
  <2>3. QED BY <2>2, RangeOccupied DEF PublicOf
<1>2. \A y \in UsedOf(tbl) : y # x => a \notin Occupied(PublicOf(tbl[y]))
  BY DEF PublicApart
<1>3. x \in Slots /\ tbl[x].inUse
  BY DEF UsedOf
<1>4. RangeHas(tbl[x]["public"], tbl[x].size, a)
  BY <1>1, Zenon
<1>5. \A y \in Slots : (y # x /\ tbl[y].inUse) => ~RangeHas(tbl[y]["public"], tbl[y].size, a)
  BY <1>1, <1>2, Zenon DEF UsedOf
<1>6. QED BY <1>3, <1>4, <1>5, FindOnly, Zenon

(* So is a physical address of its block.                                  *)
LEMMA FindPaddr ==
    ASSUME NEW tbl, TableOK(tbl), NEW x \in UsedOf(tbl),
           NEW a \in Occupied(BlockOf(tbl[x]))
    PROVE  Find(tbl, "paddr", a + PhysOffset) = x
<1>1. \A y \in UsedOf(tbl) : RangeHas(tbl[y]["paddr"], tbl[y].size, a + PhysOffset)
                                <=> a \in Occupied(BlockOf(tbl[y]))
  <2> SUFFICES ASSUME NEW y \in UsedOf(tbl)
      PROVE  RangeHas(tbl[y]["paddr"], tbl[y].size, a + PhysOffset)
                <=> a \in Occupied(BlockOf(tbl[y]))
    OBVIOUS
  <2>1. tbl[y] \in Slot /\ tbl[x] \in Slot /\ SlotOK(tbl[y])
    BY DEF TableOK, UsedOf
  <2>2. /\ tbl[y].mapped \in Nat /\ tbl[y].size \in Nat
        /\ tbl[x].mapped \in Nat /\ tbl[x].size \in Nat
        /\ PhysOffset \in Nat /\ tbl[y].paddr = tbl[y].mapped + PhysOffset
    BY <2>1, SlotFields, MemoryAssumption DEF SlotOK
  <2>3. a \in Int
    BY <2>2 DEF Occupied, BlockOf, Lines
  <2> DEFINE p == tbl[y].mapped
             s == tbl[y].size
  <2>4. a + PhysOffset \in Lines(p + PhysOffset, s) <=> a \in Lines(p, s)
    BY <2>2, <2>3 DEF Lines
  <2>5. a + PhysOffset = p + PhysOffset <=> a = p
    BY <2>2, <2>3
  <2>6. RangeHas(p, s, a) <=> a \in Occupied(BlockOf(tbl[y]))
    BY <2>2, RangeOccupied DEF BlockOf
  <2>7. tbl[y]["paddr"] = p + PhysOffset
    BY <2>2
  <2> HIDE DEF p
  <2>8. QED BY <2>4, <2>5, <2>6, <2>7 DEF RangeHas
<1>2. \A y \in UsedOf(tbl) : y # x => a \notin Occupied(BlockOf(tbl[y]))
  BY DEF TableOK
<1>3. x \in Slots /\ tbl[x].inUse
  BY DEF UsedOf
<1>4. RangeHas(tbl[x]["paddr"], tbl[x].size, a + PhysOffset)
  BY <1>1, Zenon
<1>5. \A y \in Slots : (y # x /\ tbl[y].inUse)
                          => ~RangeHas(tbl[y]["paddr"], tbl[y].size, a + PhysOffset)
  BY <1>1, <1>2, Zenon DEF UsedOf
<1>6. QED BY <1>3, <1>4, <1>5, FindOnly, Zenon

(* Lines of a range are occupied by it.                                    *)
LEMMA LinesOccupied ==
    ASSUME NEW b, b.start \in Nat, b.size \in Nat
    PROVE  Lines(b.start, b.size) \subseteq Occupied(b)
BY DEF Lines, Occupied

(* What a flush leaves of the lines of its range, in the mapping it finds: *)
(* none of them dirty; in memory for a device, what the driver wrote; in   *)
(* the driver's memory, what a device wrote.                               *)
LEMMA FlushMapping ==
    ASSUME NEW m, MemOK(m), NEW tbl, TableOK(tbl), NEW x \in MappingSlots(tbl),
           NEW start, NEW stop, Find(tbl, "public", start) = x, ~(stop < start)
    PROVE  LET n == Flushed(m, tbl, start, stop)
               t == tbl[x]
               lines == RangeLines(t, start, stop)
           IN  /\ \A a \in Memory \cap lines : ~n.cache[a].dirty
               /\ t.dir = "to" =>
                    \A a \in lines \cap Lines(t.mapped, t.size) :
                        n.ram[a] = m.user[t.public + (a - t.mapped)]
               /\ t.dir = "from" =>
                    \A c \in Lines(t.public, t.size) :
                        LET a == t.mapped + (c - t.public)
                        IN  (a \in lines /\ ~m.cache[a].dirty) =>
                                n.user[c] = m.ram[a]
<1> DEFINE n == Flushed(m, tbl, start, stop)
           t == tbl[x]
           lines == RangeLines(t, start, stop)
           copied == IF t.isMapping /\ t.dir = "to" THEN CopyToDma(m, t) ELSE m
           cleaned == CleanInvalidated(copied, lines)
<1>1. x # 0
  BY TableAssumption DEF MappingSlots, UsedOf, Slots
<1>2. t \in Slot /\ SlotOK(t) /\ t.isMapping
  BY DEF MappingSlots, TableOK, UsedOf
<1>3. n = IF t.dir = "from" THEN CopyFromDma(cleaned, t) ELSE cleaned
  BY <1>1, <1>2, Zenon DEF Flushed
<1>4. Lines(t.mapped, t.size) \subseteq Memory
  BY <1>2, SlotLines, Zenon
<1> HIDE DEF n, t, lines
<1>5. MemOK(copied)
  <2>1. CASE t.dir = "to"
    <3>1. copied = CopyToDma(m, t)
      BY <1>2, <2>1, Zenon
    <3>2. QED BY <1>2, <3>1, CopyToDmaProps, Zenon
  <2>2. CASE t.dir # "to"
    <3>1. copied = m
      BY <2>2, Zenon
    <3>2. QED BY <3>1, Zenon
  <2>3. QED BY <2>1, <2>2, Zenon
<1>6. ASSUME t.dir = "to", NEW a \in Lines(t.mapped, t.size)
      PROVE  /\ copied.cache[a].dirty = TRUE
             /\ copied.cache[a].value = m.user[t.public + (a - t.mapped)]
  <2> DEFINE v == m.user[t.public + (a - t.mapped)]
  <2>1. copied = CopyToDma(m, t)
    BY <1>2, <1>6, Zenon
  <2>2. copied.cache[a] = Line(TRUE, v) /\ v \in Values
    BY <1>2, <1>4, <1>6, <2>1, CopyToDmaProps
  <2> HIDE DEF v
  <2>3. copied.cache[a].dirty = TRUE /\ copied.cache[a].value = v
    BY <2>2, LineProps
  <2>4. QED BY <2>3, Zenon DEF v
<1>7. t.dir = "from" => copied = m
  <2>1. "from" # "to"
    OBVIOUS
  <2>2. QED BY <2>1, Zenon
<1> HIDE DEF copied
<1>8. /\ MemOK(cleaned)
      /\ \A a \in Memory :
            /\ cleaned.ram[a] = IF a \in lines /\ copied.cache[a].dirty
                                THEN copied.cache[a].value ELSE copied.ram[a]
            /\ cleaned.cache[a] = IF a \in lines THEN NotCached ELSE copied.cache[a]
  BY <1>5, CleanInvalidatedProps
<1> HIDE DEF cleaned
<1>9. \A a \in Memory \cap lines : cleaned.cache[a] = NotCached
  BY <1>8, Zenon
<1>10. CASE t.dir = "from"
  <2>1. n = CopyFromDma(cleaned, t)
    BY <1>3, <1>10, Zenon
  <2>2. /\ \A a \in Memory : n.cache[a].dirty = cleaned.cache[a].dirty
        /\ \A c \in Lines(t.public, t.size) :
              n.user[c] = CpuView(cleaned, t.mapped + (c - t.public))
    BY <1>2, <1>8, <2>1, CopyFromDmaProps, Zenon
  <2>3. \A a \in Memory \cap lines : ~n.cache[a].dirty
    BY <1>9, <2>2, NotCachedProps
  <2>4. ASSUME NEW c \in Lines(t.public, t.size), NEW a,
               a = t.mapped + (c - t.public), a \in lines, ~m.cache[a].dirty
        PROVE  n.user[c] = m.ram[a]
    <3>1. a \in Memory
      BY <1>2, <1>4, <2>4, SlotLines
    <3>2. n.user[c] = CpuView(cleaned, a)
      BY <2>2, <2>4, Zenon
    <3>3. CpuView(cleaned, a) = cleaned.ram[a]
      BY <1>9, <2>4, <3>1, Zenon DEF CpuView
    <3>4. cleaned.ram[a] = m.ram[a]
      BY <1>7, <1>8, <1>10, <2>4, <3>1, Zenon
    <3>5. QED BY <3>2, <3>3, <3>4, Zenon
  <2>5. t.dir # "to"
    BY <1>10
  <2>6. QED BY <2>3, <2>4, <2>5, Zenon DEF n, t, lines
<1>11. CASE t.dir # "from"
  <2>1. n = cleaned
    BY <1>3, <1>11, Zenon
  <2>2. \A a \in Memory \cap lines : ~n.cache[a].dirty
    BY <1>9, <2>1, NotCachedProps
  <2>3. ASSUME t.dir = "to", NEW a \in lines \cap Lines(t.mapped, t.size)
        PROVE  n.ram[a] = m.user[t.public + (a - t.mapped)]
    <3>1. a \in lines /\ a \in Memory /\ a \in Lines(t.mapped, t.size)
      BY <1>4
    <3>2. /\ copied.cache[a].dirty = TRUE
          /\ copied.cache[a].value = m.user[t.public + (a - t.mapped)]
      BY <1>6, <2>3, <3>1, Zenon
    <3>3. n.ram[a] = IF a \in lines /\ copied.cache[a].dirty
                     THEN copied.cache[a].value ELSE copied.ram[a]
      BY <1>8, <2>1, <3>1, Zenon
    <3>4. QED BY <3>1, <3>2, <3>3, Zenon
  <2>4. QED BY <1>11, <2>2, <2>3, Zenon DEF n, t, lines
<1>12. QED BY <1>10, <1>11, Zenon

(* The lines of a range, and of a whole mapping, that it covers.           *)
LEMMA RangeCovers ==
    ASSUME NEW t \in Slot, NEW start \in Int, NEW stop \in Int,
           NEW c \in Int, start <= c, c < stop
    PROVE  t.mapped + (c - t.public) \in RangeLines(t, start, stop)
<1>1. t.mapped \in Nat /\ t.public \in Nat
  BY SlotFields
<1>2. stop > start
  OBVIOUS
<1>3. QED BY <1>1, <1>2 DEF RangeLines, Lines

LEMMA WholeCovers ==
    ASSUME NEW t \in Slot, NEW a \in Lines(t.mapped, t.size)
    PROVE  /\ a \in RangeLines(t, t.public, t.public + t.size)
           /\ ~(t.public + t.size < t.public)
<1>1. t.mapped \in Nat /\ t.public \in Nat /\ t.size \in Nat
  BY SlotFields
<1>2. a \in Int /\ t.mapped <= a /\ a <= t.mapped + t.size - 1
  BY <1>1 DEF Lines
<1>3. t.size # 0
  BY <1>1, <1>2
<1>4. t.public + t.size > t.public
  BY <1>1, <1>3
<1>5. t.mapped + (t.public - t.public) = t.mapped
      /\ (t.public + t.size) - t.public = t.size
  BY <1>1
<1>6. RangeLines(t, t.public, t.public + t.size) = Lines(t.mapped, t.size)
  BY <1>4, <1>5, Zenon DEF RangeLines
<1>7. QED BY <1>1, <1>4, <1>6

(* No flush dirties a line of memory a device may write.                   *)
LEMMA FlushKeepsClean ==
    ASSUME NEW m, MemOK(m), NEW tbl, TableOK(tbl), NEW start, NEW stop,
           NEW x \in MappingSlots(tbl), tbl[x].dir = "from",
           NEW a \in Lines(tbl[x].mapped, tbl[x].size), ~m.cache[a].dirty
    PROVE  ~Flushed(m, tbl, start, stop).cache[a].dirty
<1> DEFINE z == Find(tbl, "public", start)
<1> SUFFICES ASSUME Flushed(m, tbl, start, stop).cache[a].dirty PROVE FALSE
  BY Zenon
<1>1. x \in UsedOf(tbl) /\ tbl[x] \in Slot /\ SlotOK(tbl[x])
  BY DEF MappingSlots, TableOK, UsedOf
<1>2. a \in Memory
  BY <1>1, SlotLines
<1>3. /\ z # 0 /\ tbl[z].dir = "to"
      /\ a \in Lines(tbl[z].mapped, tbl[z].size)
  BY <1>2, FlushedProps, Zenon
<1>4. z \in UsedOf(tbl) /\ tbl[z] \in Slot
  BY <1>3, FoundSlot, Zenon
<1> HIDE DEF z
<1>5. z # x
  BY <1>3
<1>6. a \in Occupied(BlockOf(tbl[x])) /\ a \in Occupied(BlockOf(tbl[z]))
  <2>1. ASSUME NEW t \in Slot, a \in Lines(t.mapped, t.size)
        PROVE  a \in Occupied(BlockOf(t))
    <3>1. /\ t.mapped \in Nat /\ t.size \in Nat
          /\ BlockOf(t).start = t.mapped /\ BlockOf(t).size = t.size
      BY SlotFields
    <3>2. QED BY <2>1, <3>1 DEF Occupied, Lines
  <2>2. QED BY <1>1, <1>3, <1>4, <2>1
<1>7. QED BY <1>1, <1>4, <1>5, <1>6 DEF TableOK

(* Two tables whose mappings agree are as clean as each other.             *)
LEMMA DirtSame ==
    ASSUME NEW tbl, NEW new, MappingSlots(new) \subseteq MappingSlots(tbl),
           \A x \in MappingSlots(new) : new[x] = tbl[x],
           NEW m, NoDirt(m, tbl)
    PROVE  NoDirt(m, new)
BY Zenon DEF NoDirt

(* No two of a driver's buffers, or mappings, are the same: what one slot  *)
(* holds no other does.                                                    *)
LEMMA SlotsDiffer ==
    ASSUME NEW tbl, TableOK(tbl), NEW x \in UsedOf(tbl), NEW y \in UsedOf(tbl),
           x # y
    PROVE  /\ BlockOf(tbl[x]) # BlockOf(tbl[y])
           /\ MappingOf(tbl[x]) # MappingOf(tbl[y])
           /\ tbl[x].mapped # tbl[y].mapped
<1>1. Occupied(BlockOf(tbl[x])) \cap Occupied(BlockOf(tbl[y])) = {}
  BY DEF TableOK
<1>2. tbl[x] \in Slot /\ tbl[y] \in Slot
  BY DEF TableOK, UsedOf
<1>3. /\ tbl[x].mapped \in Occupied(BlockOf(tbl[x]))
      /\ tbl[y].mapped \in Occupied(BlockOf(tbl[y]))
  BY <1>2, SlotFields
<1>4. BlockOf(tbl[x]) # BlockOf(tbl[y]) /\ tbl[x].mapped # tbl[y].mapped
  BY <1>1, <1>3
<1>5. /\ MappingOf(tbl[x]).paddr = tbl[x].mapped + PhysOffset
      /\ MappingOf(tbl[y]).paddr = tbl[y].mapped + PhysOffset
  BY MappingFields, Zenon
<1>6. /\ tbl[x].mapped \in Nat /\ tbl[y].mapped \in Nat /\ PhysOffset \in Nat
  BY <1>2, SlotFields, MemoryAssumption
<1>7. tbl[x].mapped + PhysOffset # tbl[y].mapped + PhysOffset
  BY <1>4, <1>6
<1>8. QED BY <1>4, <1>5, <1>7

(* The table and the drivers once one slot has been cleared.               *)
LEMMA ClearOwn ==
    ASSUME NEW tbl, TableOK(tbl), PublicApart(tbl), NEW x \in UsedOf(tbl),
           NEW new, new = [tbl EXCEPT ![x] = Cleared]
    PROVE  /\ PublicApart(new)
           /\ MappingSlots(new) = MappingSlots(tbl) \ {x}
           /\ BufferSlots(new) = BufferSlots(tbl) \ {x}
           /\ \A y \in UsedOf(new) : y # x /\ y \in UsedOf(tbl) /\ new[y] = tbl[y]
<1> DEFINE w == [tbl EXCEPT ![x] = Cleared]
<1>1. /\ UsedOf(w) = UsedOf(tbl) \ {x}
      /\ \A y \in Slots \ {x} : w[y] = tbl[y]
  BY ClearSlot, Zenon
<1>2. w = new
  BY Zenon
<1> HIDE DEF w
<1>3. /\ UsedOf(new) = UsedOf(tbl) \ {x}
      /\ \A y \in Slots \ {x} : new[y] = tbl[y]
  BY <1>1, <1>2, Zenon
<1>4. \A y \in UsedOf(new) : y # x /\ y \in UsedOf(tbl) /\ new[y] = tbl[y]
  BY <1>3, Zenon DEF UsedOf
<1>5. PublicApart(new)
  BY <1>4, Zenon DEF PublicApart
<1>6. MappingSlots(new) = MappingSlots(tbl) \ {x}
  BY <1>3, <1>4, Zenon DEF MappingSlots
<1>7. BufferSlots(new) = BufferSlots(tbl) \ {x}
  BY <1>3, <1>4, Zenon DEF BufferSlots
<1>8. QED BY <1>4, <1>5, <1>6, <1>7, Zenon

(* The table and the drivers once one slot has been filled.                *)
LEMMA FillOwn ==
    ASSUME NEW tbl, TableOK(tbl), PublicApart(tbl), NEW x \in Slots \ UsedOf(tbl),
           NEW new, UsedOf(new) = UsedOf(tbl) \cup {x},
           \A y \in UsedOf(tbl) : new[y] = tbl[y],
           \A y \in UsedOf(tbl) :
               Occupied(PublicOf(new[x])) \cap Occupied(PublicOf(tbl[y])) = {}
    PROVE  /\ PublicApart(new)
           /\ MappingSlots(new) =
                MappingSlots(tbl) \cup (IF new[x].isMapping THEN {x} ELSE {})
           /\ BufferSlots(new) =
                BufferSlots(tbl) \cup (IF new[x].isMapping THEN {} ELSE {x})
<1>1. ASSUME NEW y \in UsedOf(new), NEW z \in UsedOf(new), y # z
      PROVE  Occupied(PublicOf(new[y])) \cap Occupied(PublicOf(new[z])) = {}
  <2>1. CASE y = x
    <3>1. z \in UsedOf(tbl) /\ new[z] = tbl[z]
      BY <1>1, <2>1
    <3>2. QED BY <2>1, <3>1
  <2>2. CASE z = x
    <3>1. y \in UsedOf(tbl) /\ new[y] = tbl[y]
      BY <1>1, <2>2
    <3>2. Occupied(PublicOf(new[x])) \cap Occupied(PublicOf(tbl[y])) = {}
      BY <3>1
    <3>3. QED BY <2>2, <3>1, <3>2
  <2>3. CASE y # x /\ z # x
    <3>1. y \in UsedOf(tbl) /\ z \in UsedOf(tbl)
      BY <2>3
    <3>2. new[y] = tbl[y] /\ new[z] = tbl[z]
      BY <3>1
    <3>3. QED BY <1>1, <3>1, <3>2 DEF PublicApart
  <2>4. QED BY <2>1, <2>2, <2>3
<1>2. PublicApart(new)
  BY <1>1, Zenon DEF PublicApart
<1>3. x \notin UsedOf(tbl)
  OBVIOUS
<1>4. CASE new[x].isMapping
  <2>1. MappingSlots(new) = MappingSlots(tbl) \cup {x}
    BY <1>3, <1>4 DEF MappingSlots
  <2>2. BufferSlots(new) = BufferSlots(tbl)
    BY <1>3, <1>4 DEF BufferSlots
  <2>3. QED BY <1>2, <1>4, <2>1, <2>2
<1>5. CASE ~new[x].isMapping
  <2>1. MappingSlots(new) = MappingSlots(tbl)
    BY <1>3, <1>5 DEF MappingSlots
  <2>2. BufferSlots(new) = BufferSlots(tbl) \cup {x}
    BY <1>3, <1>5 DEF BufferSlots
  <2>3. QED BY <1>2, <1>5, <2>1, <2>2
<1>6. QED BY <1>4, <1>5

(* A buffer's or a mapping's public range is the pool's, or drivers'.      *)
LEMMA PublicMemory ==
    ASSUME NEW tbl, TableOK(tbl), NEW x \in UsedOf(tbl)
    PROVE  /\ ~tbl[x].isMapping => /\ PublicOf(tbl[x]) = BlockOf(tbl[x])
                                   /\ Occupied(PublicOf(tbl[x])) \subseteq Memory
           /\ tbl[x].isMapping => Occupied(PublicOf(tbl[x])) \cap Memory = {}
<1>1. SlotOK(tbl[x])
  BY DEF TableOK
<1>2. ~tbl[x].isMapping => PublicOf(tbl[x]) = BlockOf(tbl[x])
  BY <1>1 DEF SlotOK, PublicOf, BlockOf
<1>3. Occupied(BlockOf(tbl[x])) \subseteq Memory
  BY <1>1 DEF SlotOK
<1>4. tbl[x].isMapping => PublicOf(tbl[x]) \in Buffers
  BY <1>1 DEF SlotOK
<1>5. QED BY <1>2, <1>3, <1>4, SeparateMemoryAssumption

(* Where what a driver has is found: its buffer's slot, its mapping's.     *)
LEMMA FindBuffer ==
    ASSUME TableInv, OwnParts, NEW b \in buffers
    PROVE  \E x \in BufferSlots(table) :
              /\ b = BlockOf(table[x]) /\ b.start = table[x].mapped
              /\ Find(table, "public", b.start) = x
<1>1. TableOK(table) /\ PublicApart(table)
  BY TableInvParts DEF TableParts, OwnParts
<1>2. PICK x \in BufferSlots(table) : b = BlockOf(table[x])
  BY Zenon DEF OwnParts
<1>3. x \in UsedOf(table) /\ ~table[x].isMapping /\ table[x] \in Slot
  BY <1>1 DEF BufferSlots, TableOK, UsedOf
<1>4. PublicOf(table[x]) = b
  BY <1>1, <1>2, <1>3, PublicMemory
<1>5. b.start = table[x].mapped /\ b.start \in Occupied(b)
  BY <1>2, <1>3, SlotFields
<1>6. Find(table, "public", b.start) = x
  BY <1>1, <1>3, <1>4, <1>5, FindPublic
<1>7. QED BY <1>2, <1>5, <1>6

LEMMA FindMapping ==
    ASSUME TableInv, OwnParts, NEW m \in maps
    PROVE  \E x \in MappingSlots(table) :
              /\ m = MappingOf(table[x])
              /\ Find(table, "paddr", m.paddr) = x
              /\ Find(table, "public", table[x].public) = x
<1>1. TableOK(table) /\ PublicApart(table)
  BY TableInvParts DEF TableParts, OwnParts
<1>2. PICK x \in MappingSlots(table) : m = MappingOf(table[x])
  BY Zenon DEF OwnParts
<1>3. x \in UsedOf(table) /\ table[x] \in Slot
  BY <1>1 DEF MappingSlots, TableOK, UsedOf
<1>4. /\ table[x].mapped \in Occupied(BlockOf(table[x]))
      /\ table[x].public \in Occupied(PublicOf(table[x]))
  BY <1>3, SlotFields
<1>5. m.paddr = table[x].mapped + PhysOffset
  BY <1>1, <1>2, <1>3, MappingFields, Zenon
<1>6. Find(table, "public", table[x].public) = x
  BY <1>1, <1>3, <1>4, FindPublic, Zenon
<1>7. Find(table, "paddr", table[x].mapped + PhysOffset) = x
  BY <1>1, <1>3, <1>4, FindPaddr, Zenon
<1>8. QED BY <1>2, <1>5, <1>6, <1>7, Zenon

(* Allocating.                                                             *)
LEMMA OwnMemalign ==
    ASSUME TableInv, OwnParts, NEW b \in Blocks, Memalign(b)
    PROVE  OwnParts'
<1> DEFINE x == LowestOf(FreeSlots)
<1>1. /\ TableOK(table')
      /\ x \in Slots \ UsedOf(table)
      /\ UsedOf(table') = UsedOf(table) \cup {x}
      /\ BlockOf(table'[x]) = b /\ PublicOf(table'[x]) = b
      /\ ~table'[x].isMapping
      /\ \A y \in UsedOf(table) : table'[y] = table[y]
  BY MemalignTable, Zenon
<1>2. TableOK(table)
  BY TableInvParts DEF TableParts
<1>3. /\ Occupied(b) \subseteq Memory
      /\ \A h \in BlocksOf(table) : Occupied(b) \cap Occupied(h) = {}
  BY FreshBlock DEF Memalign
<1>4. buffers' = buffers \cup {b} /\ maps' = maps /\ mem' = mem
  BY DEF Memalign
<1> HIDE DEF x
<1>5. ASSUME NEW y \in UsedOf(table)
      PROVE  Occupied(PublicOf(table'[x])) \cap Occupied(PublicOf(table[y])) = {}
  <2>1. CASE table[y].isMapping
    <3>1. Occupied(PublicOf(table[y])) \cap Memory = {}
      BY <1>2, <2>1, PublicMemory
    <3>2. QED BY <1>1, <1>3, <3>1
  <2>2. CASE ~table[y].isMapping
    <3>1. PublicOf(table[y]) \in BlocksOf(table)
      BY <1>2, <2>2, PublicMemory DEF BlocksOf
    <3>2. QED BY <1>1, <1>3, <3>1
  <2>3. QED BY <2>1, <2>2
<1>6. /\ PublicApart(table')
      /\ MappingSlots(table') = MappingSlots(table)
      /\ BufferSlots(table') = BufferSlots(table) \cup {x}
  <2>1. /\ PublicApart(table')
        /\ MappingSlots(table') =
              MappingSlots(table) \cup (IF table'[x].isMapping THEN {x} ELSE {})
        /\ BufferSlots(table') =
              BufferSlots(table) \cup (IF table'[x].isMapping THEN {} ELSE {x})
    BY <1>1, <1>2, <1>5, FillOwn, Zenon DEF OwnParts
  <2>2. QED BY <1>1, <2>1
<1>7. /\ \A y \in BufferSlots(table) : table'[y] = table[y]
      /\ \A y \in MappingSlots(table) : table'[y] = table[y]
  BY <1>1, Zenon DEF BufferSlots, MappingSlots
<1>8. buffers' = {BlockOf(table'[y]) : y \in BufferSlots(table')}
  <2>1. \A c : c \in buffers <=> \E y \in BufferSlots(table) : c = BlockOf(table[y])
    BY Zenon DEF OwnParts
  <2>2. \A y \in BufferSlots(table) : BlockOf(table'[y]) = BlockOf(table[y])
    BY <1>7, Zenon
  <2>3. QED BY <1>1, <1>4, <1>6, <2>1, <2>2
<1>9. maps' = {MappingOf(table'[y]) : y \in MappingSlots(table')}
  <2>1. \A c : c \in maps <=> \E y \in MappingSlots(table) : c = MappingOf(table[y])
    BY Zenon DEF OwnParts
  <2>2. \A y \in MappingSlots(table) : MappingOf(table'[y]) = MappingOf(table[y])
    BY <1>7, Zenon
  <2>3. QED BY <1>4, <1>6, <2>1, <2>2
<1>10. NoDirt(mem', table')
  BY <1>4, <1>6, <1>7, DirtSame DEF OwnParts
<1>11. QED BY <1>6, <1>8, <1>9, <1>10, Zenon DEF OwnParts

(* Returning what was allocated.                                           *)
LEMMA OwnFree ==
    ASSUME TableInv, OwnParts, NEW b \in buffers, Free(b)
    PROVE  OwnParts'
<1>1. TableOK(table) /\ PublicApart(table)
  BY TableInvParts DEF TableParts, OwnParts
<1>2. PICK x \in BufferSlots(table) : /\ b = BlockOf(table[x])
                                      /\ Find(table, "public", b.start) = x
  BY FindBuffer, Zenon
<1>3. x \in UsedOf(table) /\ x \notin MappingSlots(table)
  BY DEF BufferSlots, MappingSlots
<1>4. table' = [table EXCEPT ![x] = Cleared]
  <2> DEFINE s == Bookkeeping
  <2>1. s.table = table /\ s.held = held
    BY DEF Bookkeeping
  <2>2. table' = Freed(s, b.start).table
    BY DEF Free, Becomes
  <2> HIDE DEF s
  <2>3. Freed(s, b.start).table = [s.table EXCEPT ![x] = Cleared]
    BY <1>1, <1>2, <1>3, <2>1, FreedSlot
  <2>4. QED BY <2>1, <2>2, <2>3
<1>5. /\ PublicApart(table')
      /\ MappingSlots(table') = MappingSlots(table) \ {x}
      /\ BufferSlots(table') = BufferSlots(table) \ {x}
      /\ \A y \in UsedOf(table') : y # x /\ y \in UsedOf(table) /\ table'[y] = table[y]
  BY <1>1, <1>3, <1>4, ClearOwn, Zenon
<1>6. buffers' = buffers \ {b} /\ maps' = maps /\ mem' = mem
  BY DEF Free
<1>7. buffers' = {BlockOf(table'[y]) : y \in BufferSlots(table')}
  <2>1. \A c : c \in buffers <=> \E y \in BufferSlots(table) : c = BlockOf(table[y])
    BY Zenon DEF OwnParts
  <2>2. \A y \in BufferSlots(table') : BlockOf(table'[y]) = BlockOf(table[y])
    BY <1>5, Zenon DEF BufferSlots
  <2>3. \A y \in BufferSlots(table) : y # x => BlockOf(table[y]) # b
    BY <1>1, <1>2, <1>3, SlotsDiffer DEF BufferSlots
  <2>4. QED BY <1>2, <1>5, <1>6, <2>1, <2>2, <2>3
<1>8. MappingSlots(table') = MappingSlots(table)
      /\ \A y \in MappingSlots(table) : table'[y] = table[y]
  <2>1. MappingSlots(table') = MappingSlots(table)
    BY <1>3, <1>5
  <2>2. QED BY <1>5, <2>1, Zenon DEF MappingSlots
<1>9. maps' = {MappingOf(table'[y]) : y \in MappingSlots(table')}
  <2>1. \A c : c \in maps <=> \E y \in MappingSlots(table) : c = MappingOf(table[y])
    BY Zenon DEF OwnParts
  <2>2. \A y \in MappingSlots(table) : MappingOf(table'[y]) = MappingOf(table[y])
    BY <1>8, Zenon
  <2>3. QED BY <1>6, <1>8, <2>1, <2>2
<1>10. NoDirt(mem', table')
  BY <1>6, <1>8, DirtSame DEF OwnParts
<1>11. QED BY <1>5, <1>7, <1>9, <1>10, Zenon DEF OwnParts

(* Mapping: the memory is not mapped already.  A device that is to write   *)
(* it finds none of its lines dirty, as they have just been dropped.       *)
LEMMA OwnMapSingle ==
    ASSUME TableInv, OwnParts, ~SharedBuffers,
           NEW u \in Buffers, NEW dir \in {"to", "from"}, NEW start \in Memory,
           MapSingle(u, dir, start)
    PROVE  LET x == LowestOf(FreeSlots)
           IN  /\ OwnParts'
               /\ x \in MappingSlots(table')
               /\ Find(table', "public", u.start) = x
<1> DEFINE x == LowestOf(FreeSlots)
           b == [start |-> start, size |-> u.size]
           t == table'[x]
<1>1. /\ TableOK(table')
      /\ x \in Slots \ UsedOf(table)
      /\ UsedOf(table') = UsedOf(table) \cup {x}
      /\ BlockOf(t) = b /\ PublicOf(t) = u
      /\ t.isMapping /\ t.dir = dir /\ t.size = u.size
      /\ t.public = u.start /\ t.mapped = start
      /\ maps' = maps \cup {MappingOf(t)}
      /\ \A y \in UsedOf(table) : table'[y] = table[y]
  BY MapSingleTable, Zenon
<1>2. TableOK(table) /\ MemOK(mem)
  BY TableInvParts DEF TableParts
<1>3. /\ buffers' = buffers
      /\ mem' = Flushed(mem, table', u.start, u.start + u.size)
      /\ \A m \in maps : Occupied([start |-> m.public, size |-> m.size])
                              \cap Occupied(u) = {}
  BY DEF MapSingle
<1> HIDE DEF x, b, t
<1>4. ASSUME NEW y \in UsedOf(table)
      PROVE  Occupied(PublicOf(t)) \cap Occupied(PublicOf(table[y])) = {}
  <2>1. CASE table[y].isMapping
    <3>1. MappingOf(table[y]) \in maps
      BY <2>1 DEF OwnParts, MappingSlots
    <3>2. PublicOf(table[y]) = [start |-> MappingOf(table[y]).public,
                                size |-> MappingOf(table[y]).size]
      BY DEF PublicOf, MappingOf
    <3>3. Occupied(PublicOf(table[y])) \cap Occupied(u) = {}
      BY <1>3, <3>1, <3>2, Zenon
    <3>4. QED BY <1>1, <3>3
  <2>2. CASE ~table[y].isMapping
    <3>1. Occupied(PublicOf(table[y])) \subseteq Memory
      BY <1>2, <2>2, PublicMemory
    <3>2. Occupied(u) \cap Memory = {}
      BY SeparateMemoryAssumption
    <3>3. QED BY <1>1, <3>1, <3>2
  <2>3. QED BY <2>1, <2>2
<1>5. /\ PublicApart(table')
      /\ MappingSlots(table') = MappingSlots(table) \cup {x}
      /\ BufferSlots(table') = BufferSlots(table)
  <2>1. /\ PublicApart(table')
        /\ MappingSlots(table') =
              MappingSlots(table) \cup (IF table'[x].isMapping THEN {x} ELSE {})
        /\ BufferSlots(table') =
              BufferSlots(table) \cup (IF table'[x].isMapping THEN {} ELSE {x})
    BY <1>1, <1>2, <1>4, FillOwn, Zenon DEF OwnParts, t
  <2>2. QED BY <1>1, <2>1 DEF t
<1>6. /\ \A y \in BufferSlots(table) : table'[y] = table[y]
      /\ \A y \in MappingSlots(table) : table'[y] = table[y]
  BY <1>1, Zenon DEF BufferSlots, MappingSlots
<1>7. buffers' = {BlockOf(table'[y]) : y \in BufferSlots(table')}
  <2>1. \A c : c \in buffers <=> \E y \in BufferSlots(table) : c = BlockOf(table[y])
    BY Zenon DEF OwnParts
  <2>2. \A y \in BufferSlots(table) : BlockOf(table'[y]) = BlockOf(table[y])
    BY <1>6, Zenon
  <2>3. QED BY <1>3, <1>5, <2>1, <2>2
<1>8. maps' = {MappingOf(table'[y]) : y \in MappingSlots(table')}
  <2>1. \A c : c \in maps <=> \E y \in MappingSlots(table) : c = MappingOf(table[y])
    BY Zenon DEF OwnParts
  <2>2. \A y \in MappingSlots(table) : MappingOf(table'[y]) = MappingOf(table[y])
    BY <1>6, Zenon
  <2>3. MappingOf(table'[x]) = MappingOf(t)
    BY DEF t
  <2>4. QED BY <1>1, <1>5, <2>1, <2>2, <2>3
<1>9. x \in MappingSlots(table') /\ x \in UsedOf(table') /\ t \in Slot
  BY <1>1, <1>5 DEF TableOK, UsedOf, t
<1>10. Find(table', "public", u.start) = x
  <2>1. u.start \in Occupied(PublicOf(table'[x]))
    BY <1>1, <1>9, SlotFields DEF t
  <2>2. QED BY <1>1, <1>5, <1>9, <2>1, FindPublic, Zenon
<1>11. NoDirt(mem', table')
  <2>1. ASSUME NEW y \in MappingSlots(table'), table'[y].dir = "from",
               NEW a \in Lines(table'[y].mapped, table'[y].size)
        PROVE  ~mem'.cache[a].dirty
    <3>1. CASE y = x
      <4>1. a \in Lines(t.mapped, t.size)
        BY <2>1, <3>1 DEF t
      <4>2. /\ a \in RangeLines(t, t.public, t.public + t.size)
            /\ ~(t.public + t.size < t.public)
        BY <1>9, <4>1, WholeCovers
      <4>3. a \in Memory
        <5>1. SlotOK(t)
          BY <1>1, <1>9 DEF TableOK, t
        <5>2. QED BY <1>9, <4>1, <5>1, SlotLines
      <4>4. /\ a \in RangeLines(table'[x], u.start, u.start + u.size)
            /\ ~(u.start + u.size < u.start)
        BY <1>1, <4>2 DEF t
      <4>5. \A c \in Memory \cap RangeLines(table'[x], u.start, u.start + u.size) :
                ~mem'.cache[c].dirty
        <5> DEFINE stop == u.start + u.size
        <5>1. ~(stop < u.start)
          BY <4>4, Zenon
        <5>2. mem' = Flushed(mem, table', u.start, stop)
          BY <1>3, Zenon
        <5> HIDE DEF stop
        <5>3. \A c \in Memory \cap RangeLines(table'[x], u.start, stop) :
                  ~Flushed(mem, table', u.start, stop).cache[c].dirty
          BY <1>1, <1>2, <1>9, <1>10, <5>1, FlushMapping
        <5>4. QED BY <5>2, <5>3, Zenon DEF stop
      <4>6. QED BY <4>3, <4>4, <4>5
    <3>2. CASE y # x
      <4>1. y \in MappingSlots(table) /\ table'[y] = table[y]
        BY <1>5, <1>6, <3>2
      <4>2. ~mem.cache[a].dirty
        BY <2>1, <4>1 DEF OwnParts, NoDirt
      <4>3. QED BY <1>1, <1>2, <1>3, <2>1, <4>2, FlushKeepsClean, Zenon
    <3>3. QED BY <3>1, <3>2
  <2>2. QED BY <2>1, Zenon DEF NoDirt
<1>12. OwnParts'
  BY <1>5, <1>7, <1>8, <1>11, Zenon DEF OwnParts
<1>13. QED BY <1>9, <1>10, <1>12, Zenon DEF x

(* Unmapping: the mapping's slot is found by either of its addresses.      *)
LEMMA UnmapFinds ==
    ASSUME TableInv, OwnParts, NEW m \in maps, UnmapSingle(m)
    PROVE  \E x \in MappingSlots(table) :
              /\ m = MappingOf(table[x])
              /\ Find(table, "public", table[x].public) = x
              /\ mem' = Flushed(mem, table, table[x].public,
                                table[x].public + table[x].size)
              /\ table' = [table EXCEPT ![x] = Cleared]
<1>1. TableOK(table)
  BY TableInvParts DEF TableParts
<1>2. PICK x \in MappingSlots(table) :
          /\ m = MappingOf(table[x])
          /\ Find(table, "paddr", m.paddr) = x
          /\ Find(table, "public", table[x].public) = x
  BY FindMapping, Zenon
<1>3. x # 0 /\ table[x].isMapping /\ x \in UsedOf(table)
  BY TableAssumption DEF MappingSlots, UsedOf, Slots
<1>4. /\ mem' = Flushed(mem, table, table[x].public, table[x].public + table[x].size)
      /\ Becomes(Freed(Bookkeeping, table[x].public))
  BY <1>2, <1>3, Zenon DEF UnmapSingle, Unmapped
<1>5. table' = [table EXCEPT ![x] = Cleared]
  <2> DEFINE s == Bookkeeping
             p == table[x].public
  <2>1. s.table = table /\ s.held = held
    BY DEF Bookkeeping
  <2>2. table' = Freed(s, p).table
    BY <1>4 DEF Becomes
  <2> HIDE DEF s
  <2>3. Freed(s, p).table = [s.table EXCEPT ![x] = Cleared]
    BY <1>1, <1>2, <1>3, <2>1, FreedSlot
  <2>4. QED BY <2>1, <2>2, <2>3
<1>6. QED BY <1>2, <1>4, <1>5, Zenon

LEMMA OwnUnmapSingle ==
    ASSUME TableInv, OwnParts, NEW m \in maps, UnmapSingle(m)
    PROVE  OwnParts'
<1>1. TableOK(table) /\ PublicApart(table) /\ MemOK(mem)
  BY TableInvParts DEF TableParts, OwnParts
<1>2. PICK x \in MappingSlots(table) :
          /\ m = MappingOf(table[x])
          /\ mem' = Flushed(mem, table, table[x].public,
                            table[x].public + table[x].size)
          /\ table' = [table EXCEPT ![x] = Cleared]
  BY UnmapFinds, Zenon
<1>3. x \in UsedOf(table) /\ x \notin BufferSlots(table)
  BY DEF BufferSlots, MappingSlots
<1>4. /\ PublicApart(table')
      /\ MappingSlots(table') = MappingSlots(table) \ {x}
      /\ BufferSlots(table') = BufferSlots(table) \ {x}
      /\ \A y \in UsedOf(table') : y # x /\ y \in UsedOf(table) /\ table'[y] = table[y]
  BY <1>1, <1>2, <1>3, ClearOwn, Zenon
<1>5. maps' = maps \ {m} /\ buffers' = buffers
  BY DEF UnmapSingle
<1>6. maps' = {MappingOf(table'[y]) : y \in MappingSlots(table')}
  <2>1. \A c : c \in maps <=> \E y \in MappingSlots(table) : c = MappingOf(table[y])
    BY Zenon DEF OwnParts
  <2>2. \A y \in MappingSlots(table') : MappingOf(table'[y]) = MappingOf(table[y])
    BY <1>4, Zenon DEF MappingSlots
  <2>3. \A y \in MappingSlots(table) : y # x => MappingOf(table[y]) # m
    BY <1>1, <1>2, <1>3, SlotsDiffer DEF MappingSlots
  <2>4. ASSUME NEW c
        PROVE  c \in maps' <=> \E y \in MappingSlots(table') : c = MappingOf(table'[y])
    <3>1. c \in maps' <=> c # m /\ \E y \in MappingSlots(table) : c = MappingOf(table[y])
      BY <1>5, <2>1, Zenon
    <3>2. QED BY <1>2, <1>4, <2>2, <2>3, <3>1, Zenon
  <2>5. QED BY <2>4, Zenon
<1>7. BufferSlots(table') = BufferSlots(table)
      /\ \A y \in BufferSlots(table) : table'[y] = table[y]
  <2>1. BufferSlots(table') = BufferSlots(table)
    BY <1>3, <1>4
  <2>2. QED BY <1>4, <2>1, Zenon DEF BufferSlots
<1>8. buffers' = {BlockOf(table'[y]) : y \in BufferSlots(table')}
  <2>1. \A c : c \in buffers <=> \E y \in BufferSlots(table) : c = BlockOf(table[y])
    BY Zenon DEF OwnParts
  <2>2. \A y \in BufferSlots(table) : BlockOf(table'[y]) = BlockOf(table[y])
    BY <1>7, Zenon
  <2>3. QED BY <1>5, <1>7, <2>1, <2>2
<1>9. NoDirt(mem', table')
  <2>1. NoDirt(mem', table)
    BY <1>1, <1>2, FlushKeepsClean, Zenon DEF OwnParts, NoDirt
  <2>2. \A y \in MappingSlots(table') : table'[y] = table[y]
    BY <1>4, Zenon DEF MappingSlots
  <2>3. MappingSlots(table') \subseteq MappingSlots(table)
    BY <1>4
  <2>4. QED BY <2>1, <2>2, <2>3, DirtSame, Zenon
<1>10. QED BY <1>4, <1>6, <1>8, <1>9, Zenon DEF OwnParts

(* A line of a mapping's bounce buffer is no driver's to write, and the    *)
(* allocator's no more.                                                    *)
LEMMA MappingLineTaken ==
    ASSUME TableInv, OwnParts, NEW x \in MappingSlots(table),
           NEW a \in Lines(table[x].mapped, table[x].size)
    PROVE  /\ a \in Memory
           /\ \E h \in held : a \in Occupied(h)
           /\ \A b \in buffers \cup Forgotten : a \notin Lines(b.start, b.size)
<1>1. TableOK(table) /\ BlocksOf(table) \subseteq held /\ HeldApart(held)
      /\ held \subseteq Blocks
  BY TableInvParts DEF TableParts
<1>2. x \in UsedOf(table) /\ table[x] \in Slot /\ SlotOK(table[x])
  BY <1>1 DEF MappingSlots, TableOK, UsedOf
<1>3. a \in Memory
  BY <1>2, SlotLines
<1>4. \A y \in UsedOf(table) :
         Lines(table[y].mapped, table[y].size) \subseteq Occupied(BlockOf(table[y]))
  <2> SUFFICES ASSUME NEW y \in UsedOf(table)
      PROVE  Lines(table[y].mapped, table[y].size) \subseteq Occupied(BlockOf(table[y]))
    OBVIOUS
  <2>1. table[y] \in Slot
    BY <1>1 DEF TableOK, UsedOf
  <2> DEFINE b == BlockOf(table[y])
  <2>2. /\ b.start = table[y].mapped /\ b.size = table[y].size
        /\ b.start \in Nat /\ b.size \in Nat
    BY <2>1, SlotFields
  <2> HIDE DEF b
  <2>3. Lines(b.start, b.size) \subseteq Occupied(b)
    BY <2>2, LinesOccupied
  <2>4. QED BY <2>2, <2>3 DEF b
<1>5. /\ a \in Occupied(BlockOf(table[x])) /\ BlockOf(table[x]) \in held
      /\ BlockOf(table[x]) \in BlocksOf(table)
  BY <1>1, <1>2, <1>4 DEF BlocksOf
<1>6. ASSUME NEW b \in buffers PROVE a \notin Lines(b.start, b.size)
  <2>1. PICK y \in BufferSlots(table) : b = BlockOf(table[y])
    BY Zenon DEF OwnParts
  <2>2. y \in UsedOf(table) /\ y # x /\ table[y] \in Slot
    BY <1>1 DEF BufferSlots, MappingSlots, TableOK, UsedOf
  <2>3. b.start = table[y].mapped /\ b.size = table[y].size
    BY <2>1, <2>2, SlotFields
  <2>4. Occupied(BlockOf(table[x])) \cap Occupied(BlockOf(table[y])) = {}
    BY <1>1, <1>2, <2>2 DEF TableOK
  <2>5. QED BY <1>4, <1>5, <2>2, <2>3, <2>4
<1>7. ASSUME NEW b \in Forgotten PROVE a \notin Lines(b.start, b.size)
  <2>1. b \in held /\ b # BlockOf(table[x])
    BY <1>5, ForgottenParts
  <2>2. Occupied(b) \cap Occupied(BlockOf(table[x])) = {}
    BY <1>1, <1>5, <2>1 DEF HeldApart
  <2>3. b.start \in Nat /\ b.size \in Nat
    BY <1>1, <2>1, MemoryAssumption DEF Blocks
  <2>4. QED BY <1>5, <2>2, <2>3, LinesOccupied
<1>8. QED BY <1>3, <1>5, <1>6, <1>7

(* Nothing that happens between calls dirties it, either.                  *)
LEMMA BetweenKeepsClean ==
    ASSUME TableInv, OwnParts, Between
    PROVE  NoDirt(mem', table)
<1> SUFFICES ASSUME NEW x \in MappingSlots(table), table[x].dir = "from",
                    NEW l \in Lines(table[x].mapped, table[x].size)
    PROVE  ~mem'.cache[l].dirty
  BY Zenon DEF NoDirt
<1>1. /\ l \in Memory
      /\ \E h \in held : l \in Occupied(h)
      /\ \A b \in buffers \cup Forgotten : l \notin Lines(b.start, b.size)
  BY MappingLineTaken
<1>2. ~mem.cache[l].dirty
  BY Zenon DEF OwnParts, NoDirt
<1>3. MemOK(mem) /\ mem \in Memories
  BY TableInvParts DEF TableParts, MemOK
<1>4. ASSUME NEW a \in Memory, Evict(a) PROVE ~mem'.cache[l].dirty
  <2>1. mem' = CleanInvalidated(mem, {a})
    BY <1>4, Zenon DEF Evict
  <2>2. mem'.cache[l] = IF l \in {a} THEN NotCached ELSE mem.cache[l]
    BY <1>1, <1>3, <2>1, CleanInvalidatedProps
  <2>3. QED BY <1>2, <2>2, NotCachedProps
<1>5. ASSUME NEW a \in Memory, Prefetch(a) PROVE ~mem'.cache[l].dirty
  <2> DEFINE n == Line(FALSE, mem.ram[a])
  <2>1. mem' = [mem EXCEPT !.cache[a] = n]
    BY <1>5, Zenon DEF Prefetch
  <2>2. n.dirty = FALSE
    BY <1>3, ViewValue, LineProps
  <2> HIDE DEF n
  <2>3. mem'.cache[l] = IF l = a THEN n ELSE mem.cache[l]
    BY <1>1, <1>3, <2>1 DEF Memories
  <2>4. QED BY <1>2, <2>2, <2>3
<1>6. ASSUME NEW a \in Memory, NEW v \in Values, CpuWrite(a, v)
      PROVE  ~mem'.cache[l].dirty
  <2>1. l # a
    BY <1>1, <1>6 DEF CpuWrite
  <2> DEFINE n == Line(TRUE, v)
  <2>2. mem' = [mem EXCEPT !.cache[a] = n]
    BY <1>6, Zenon DEF CpuWrite
  <2> HIDE DEF n
  <2>3. mem'.cache[l] = mem.cache[l]
    BY <1>1, <1>3, <2>1, <2>2 DEF Memories
  <2>4. QED BY <1>2, <2>3
<1>7. ASSUME NEW a \in DOMAIN mem.user, NEW v \in Values, UserWrite(a, v)
      PROVE  ~mem'.cache[l].dirty
  BY <1>2, <1>3, <1>7 DEF UserWrite, Memories
<1>8. ASSUME NEW a \in Memory, NEW v \in Values, DeviceWrite(a, v)
      PROVE  ~mem'.cache[l].dirty
  BY <1>2, <1>3, <1>8 DEF DeviceWrite, Memories
<1>9. QED BY <1>4, <1>5, <1>6, <1>7, <1>8, Zenon DEF Between

(* The first states.                                                       *)
LEMMA OwnInit == Init => OwnParts
<1> SUFFICES ASSUME Init PROVE OwnParts
  OBVIOUS
<1>1. UsedOf(table) = {}
  BY ClearedProps DEF Init, UsedOf
<1>2. BufferSlots(table) = {} /\ MappingSlots(table) = {}
  BY <1>1 DEF BufferSlots, MappingSlots
<1>3. buffers = {} /\ maps = {}
  BY DEF Init
<1>4. QED BY <1>1, <1>2, <1>3 DEF OwnParts, PublicApart, NoDirt

(* Without a slot in use, drivers have nothing.                            *)
LEMMA OwnNothing ==
    ASSUME NEW tbl, UsedOf(tbl) = {}, NEW m
    PROVE  /\ BufferSlots(tbl) = {} /\ MappingSlots(tbl) = {}
           /\ PublicApart(tbl) /\ NoDirt(m, tbl)
           /\ {BlockOf(tbl[x]) : x \in BufferSlots(tbl)} = {}
           /\ {MappingOf(tbl[x]) : x \in MappingSlots(tbl)} = {}
<1>1. BufferSlots(tbl) = {} /\ MappingSlots(tbl) = {}
  BY DEF BufferSlots, MappingSlots
<1>2. QED BY <1>1 DEF PublicApart, NoDirt

(* What the table has forgotten it does not find: a driver that missed an  *)
(* initialisation frees and unmaps nothing.                                *)
LEMMA ForgottenUnfound ==
    ASSUME TableInv, NEW b \in Forgotten
    PROVE  /\ Find(table, "public", b.start) = 0
           /\ Find(table, "paddr", b.start + PhysOffset) = 0
<1>1. TableOK(table) /\ HeldApart(held) /\ BlocksOf(table) \subseteq held
      /\ held \subseteq Blocks
  BY TableInvParts DEF TableParts
<1>2. b \in held /\ b \notin BlocksOf(table)
  BY ForgottenParts
<1>3. b.start \in Memory /\ b.start \in Nat /\ b.size \in Nat
      /\ b = [start |-> b.start, size |-> b.size]
  BY <1>1, <1>2, MemoryAssumption DEF Blocks
<1>4. b.start \in Occupied(b)
  BY <1>3, RangeOccupied
<1>5. ASSUME NEW x \in UsedOf(table)
      PROVE  /\ ~RangeHas(table[x].public, table[x].size, b.start)
             /\ ~RangeHas(table[x].paddr, table[x].size, b.start + PhysOffset)
  <2>1. table[x] \in Slot /\ SlotOK(table[x])
    BY <1>1 DEF TableOK, UsedOf
  <2>2. /\ table[x].public \in Nat /\ table[x].mapped \in Nat
        /\ table[x].size \in Nat /\ PhysOffset \in Nat
        /\ table[x].paddr = table[x].mapped + PhysOffset
    BY <2>1, SlotFields, MemoryAssumption DEF SlotOK
  <2>3. b.start \notin Occupied(BlockOf(table[x]))
    <3>1. BlockOf(table[x]) \in held /\ BlockOf(table[x]) # b
      BY <1>1, <1>2 DEF BlocksOf
    <3>2. QED BY <1>1, <1>2, <1>4, <3>1 DEF HeldApart
  <2>4. b.start \notin Occupied(PublicOf(table[x]))
    BY <1>1, <1>3, <2>3, PublicMemory
  <2>5. ~RangeHas(table[x].public, table[x].size, b.start)
    BY <2>2, <2>4, RangeOccupied DEF PublicOf
  <2>6. ~RangeHas(table[x].mapped, table[x].size, b.start)
    BY <2>2, <2>3, RangeOccupied DEF BlockOf
  <2>7. ~RangeHas(table[x].paddr, table[x].size, b.start + PhysOffset)
    BY <1>3, <2>2, <2>6 DEF RangeHas, Lines
  <2>8. QED BY <2>5, <2>7
<1>6. QED BY <1>5, FindProps, Zenon DEF UsedOf

LEMMA LateNothing ==
    ASSUME TableInv, NEW b \in Forgotten, LateFree(b) \/ LateUnmap(b)
    PROVE  /\ table' = table /\ held' = held /\ mem' = mem
           /\ buffers' = buffers /\ maps' = maps
<1>1. CASE LateFree(b)
  <2>1. Freed(Bookkeeping, b.start) = Bookkeeping
    <3>1. Find(Bookkeeping.table, "public", b.start) = 0
      BY ForgottenUnfound DEF Bookkeeping
    <3>2. QED BY <3>1, Zenon DEF Freed
  <2>2. table' = Bookkeeping.table /\ held' = Bookkeeping.held
    BY <1>1, <2>1, Zenon DEF LateFree, Becomes
  <2>3. QED BY <1>1, <2>2 DEF LateFree, Bookkeeping
<1>2. CASE LateUnmap(b)
  <2>1. UNCHANGED <<table, held, mem>>
    BY <1>2, ForgottenUnfound, Zenon DEF LateUnmap, Unmapped
  <2>2. QED BY <1>2, <2>1 DEF LateUnmap
<1>3. QED BY <1>1, <1>2

(* Every step keeps what drivers have theirs.                              *)
LEMMA OwnStep ==
    ASSUME ~SharedBuffers, TableInv, OwnParts, [Next]_vars
    PROVE  OwnParts'
<1>1. TableParts
  BY TableInvParts
<1>2. CASE Initialise
  <2>3. UsedOf(table') = {}
    <3>1. table' = [x \in Slots |-> Cleared]
      BY <1>2 DEF Initialise
    <3>2. QED BY <3>1, ClearedProps DEF UsedOf
  <2>4. buffers' = {} /\ maps' = {}
    BY <1>2 DEF Initialise
  <2>5. QED BY <2>3, <2>4, OwnNothing, Zenon DEF OwnParts
<1>3. CASE Shutdown
  <2>1. UsedOf(table') = {}
    BY <1>3, ShutdownEmpties
  <2>2. buffers' = {} /\ maps' = {}
    BY <1>3 DEF Shutdown
  <2>3. QED BY <2>1, <2>2, OwnNothing, Zenon DEF OwnParts
<1>4. ASSUME NEW b \in Blocks, Memalign(b) PROVE OwnParts'
  BY <1>4, OwnMemalign
<1>5. ASSUME NEW b \in buffers, Free(b) PROVE OwnParts'
  BY <1>5, OwnFree
<1>6. ASSUME NEW u \in Buffers, NEW dir \in {"to", "from"}, NEW start \in Memory,
             MapSingle(u, dir, start)
      PROVE  OwnParts'
  BY <1>6, OwnMapSingle, Zenon
<1>7. ASSUME NEW m \in maps, UnmapSingle(m) PROVE OwnParts'
  BY <1>7, OwnUnmapSingle
<1>8. ASSUME table' = table, buffers' = buffers, maps' = maps, NoDirt(mem', table)
      PROVE  OwnParts'
  BY <1>8, Zenon DEF OwnParts
<1>9. ASSUME NEW start, NEW stop, FlushRange(start, stop) PROVE OwnParts'
  <2>1. /\ mem' = Flushed(mem, table, start, stop)
        /\ table' = table /\ buffers' = buffers /\ maps' = maps
    BY <1>9 DEF FlushRange
  <2>2. NoDirt(mem', table)
    BY <1>1, <2>1, FlushKeepsClean, Zenon DEF TableParts, OwnParts, NoDirt
  <2>3. QED BY <1>8, <2>1, <2>2, Zenon
<1>10. ASSUME NEW start, NEW stop, InvalidateRange(start, stop) PROVE OwnParts'
  <2>1. /\ mem' = RangeInvalidated(mem, table, start, stop)
        /\ table' = table /\ buffers' = buffers /\ maps' = maps
    BY <1>10 DEF InvalidateRange
  <2>2. \A a \in Memory : mem'.cache[a].dirty => mem.cache[a].dirty
    BY <1>1, <2>1, RangeInvalidatedProps, Zenon DEF TableParts
  <2>3. NoDirt(mem', table)
    BY <2>2, MappingLineTaken, Zenon DEF OwnParts, NoDirt
  <2>4. QED BY <1>8, <2>1, <2>3, Zenon
<1>11. CASE Between
  <2>1. table' = table /\ buffers' = buffers /\ maps' = maps
    BY <1>11 DEF Between, Evict, Prefetch, CpuWrite, UserWrite, DeviceWrite
  <2>2. QED BY <1>8, <1>11, <2>1, BetweenKeepsClean, Zenon
<1>12. CASE UNCHANGED vars
  BY <1>12, Zenon DEF vars, OwnParts
<1>13. ASSUME NEW b \in Blocks, MemalignUnpinned(b) PROVE OwnParts'
  <2>1. UNCHANGED <<table, manager, mem, buffers, maps>>
    BY <1>13, Zenon DEF MemalignUnpinned
  <2>2. NoDirt(mem', table)
    BY <2>1, Zenon DEF OwnParts
  <2>3. QED BY <1>8, <2>1, <2>2, Zenon
<1>14. ASSUME NEW b \in Forgotten, LateFree(b) \/ LateUnmap(b) PROVE OwnParts'
  <2>1. table' = table /\ mem' = mem /\ buffers' = buffers /\ maps' = maps
    BY <1>14, LateNothing, Zenon
  <2>2. NoDirt(mem', table)
    BY <2>1, Zenon DEF OwnParts
  <2>3. QED BY <1>8, <2>1, <2>2, Zenon
<1>15. QED
  BY <1>2, <1>3, <1>4, <1>5, <1>6, <1>7, <1>9, <1>10, <1>11, <1>12, <1>13, <1>14,
     Zenon DEF Next

-----------------------------------------------------------------------------
(* What drivers may rely on.                                               *)

(* While no memory is mapped twice at once, the table says exactly what    *)
(* drivers have, and no two slots answer to one address.                   *)
THEOREM OwnKept == ASSUME ~SharedBuffers PROVE Spec => []OwnInv
<1>1. Init => OwnParts
  BY OwnInit
<1>2. TableInv /\ OwnParts /\ [Next]_vars => OwnParts'
  BY OwnStep
<1>3. TableInv /\ OwnParts => OwnInv
  BY OwnInvParts
<1>4. QED BY <1>1, <1>2, <1>3, TableInvInit, TableInvStep, PTL DEF Spec

(* What a driver was given stays its own until it gives it back: no other  *)
(* call frees its block, or takes or rewrites its slot.                    *)
THEOREM OwnersKeep == ASSUME ~SharedBuffers PROVE Spec => []DriversKeepTheirs
<1>1. TableInv /\ OwnInv => DriversKeepTheirs
  <2> SUFFICES ASSUME TableInv, OwnInv PROVE DriversKeepTheirs
    OBVIOUS
  <2>1. OwnParts /\ TableOK(table)
    BY OwnInvParts, TableInvParts DEF TableParts
  <2>2. ASSUME NEW b \in buffers
        PROVE  \E x \in Used : ~table[x].isMapping /\ BlockOf(table[x]) = b
    BY <2>1, Zenon DEF OwnParts, BufferSlots, UsedOf, Used
  <2>3. ASSUME NEW m \in maps
        PROVE  \E x \in Used : /\ table[x].isMapping /\ table[x].paddr = m.paddr
                               /\ table[x].public = m.public /\ table[x].dir = m.dir
    <3>1. PICK x \in MappingSlots(table) : m = MappingOf(table[x])
      BY <2>1, Zenon DEF OwnParts
    <3>2. x \in Used /\ table[x].isMapping
      BY DEF MappingSlots, UsedOf, Used
    <3>3. /\ table[x].paddr = m.paddr /\ table[x].public = m.public
          /\ table[x].dir = m.dir
      BY <3>1 DEF MappingOf
    <3>4. QED BY <3>2, <3>3
  <2>4. QED BY <2>2, <2>3, Zenon DEF DriversKeepTheirs
<1>2. QED BY <1>1, OwnKept, TableKept, PTL

(* No line of a buffer a device writes to is ever dirty in the cache, so   *)
(* no eviction, whenever it comes, undoes what the device wrote.           *)
THEOREM DevicesSafe == ASSUME ~SharedBuffers PROVE Spec => []DeviceWritesSurvive
<1>1. OwnInv => DeviceWritesSurvive
  BY DEF OwnInv
<1>2. QED BY <1>1, OwnKept, PTL

(* An address in a used slot's range translates to the physical address    *)
(* that lies as far into it, and back.                                     *)
LEMMA SlotTranslates ==
    ASSUME TableInv, OwnParts, NEW x \in UsedOf(table),
           NEW a \in Lines(table[x].public, table[x].size)
    PROVE  LET p == table[x].paddr + (a - table[x].public)
           IN  VirtToPhys(a) = p /\ PhysToVirt(p) = a
<1> DEFINE t == table[x]
           i == a - t.public
           p == t.paddr + i
<1>1. TableOK(table) /\ PublicApart(table)
  BY TableInvParts DEF TableParts, OwnParts
<1>2. t \in Slot /\ SlotOK(t)
  BY <1>1 DEF TableOK, UsedOf
<1>3. /\ t.public \in Nat /\ t.mapped \in Nat /\ t.size \in Nat
      /\ PhysOffset \in Nat /\ t.paddr = t.mapped + PhysOffset
      /\ a \in Int
  BY <1>2, SlotFields, MemoryAssumption DEF SlotOK, Lines
<1>4. a \in Occupied(PublicOf(t))
  BY <1>3, RangeOccupied DEF RangeHas, PublicOf
<1>5. Find(table, "public", a) = x
  BY <1>1, <1>4, FindPublic
<1>6. t.mapped + i \in Occupied(BlockOf(t)) /\ p = (t.mapped + i) + PhysOffset
  <2>1. t.mapped + i \in Lines(t.mapped, t.size)
    BY <1>2, SlotLines
  <2>2. t.mapped + i \in Occupied(BlockOf(t))
    BY <1>3, <2>1, RangeOccupied DEF RangeHas, BlockOf
  <2>3. QED BY <1>3, <2>2
<1>7. Find(table, "paddr", p) = x
  <2> DEFINE l == t.mapped + i
  <2>1. l \in Occupied(BlockOf(table[x])) /\ p = l + PhysOffset
    BY <1>6
  <2> HIDE DEF l, p
  <2>2. QED BY <1>1, <2>1, FindPaddr, Zenon
<1>8. VirtToPhys(a) = p
  BY <1>5, Zenon DEF VirtToPhys
<1>9. PhysToVirt(p) = t.public + (p - t.paddr)
  BY <1>7, Zenon DEF PhysToVirt
<1>10. t.public + (p - t.paddr) = a
  BY <1>3
<1>11. QED BY <1>8, <1>9, <1>10, Zenon

(* For every address of what a driver allocated or mapped,                 *)
(* sel4_dma_virt_to_phys gives the one its device uses, and                *)
(* sel4_dma_phys_to_virt gives the driver's back.                          *)
THEOREM AddressesRight == ASSUME ~SharedBuffers PROVE Spec => []AddressesTranslate
<1>1. TableInv /\ OwnInv => AddressesTranslate
  <2> SUFFICES ASSUME TableInv, OwnInv PROVE AddressesTranslate
    OBVIOUS
  <2>1. OwnParts /\ TableOK(table)
    BY OwnInvParts, TableInvParts DEF TableParts
  <2>2. ASSUME NEW b \in buffers, NEW a \in Occupied(b) \cap Lines(b.start, b.size)
        PROVE  VirtToPhys(a) = a + PhysOffset /\ PhysToVirt(a + PhysOffset) = a
    <3>1. PICK x \in BufferSlots(table) : b = BlockOf(table[x])
      BY <2>1, Zenon DEF OwnParts
    <3>2. /\ x \in UsedOf(table) /\ ~table[x].isMapping
          /\ table[x] \in Slot /\ SlotOK(table[x])
      BY <2>1 DEF BufferSlots, TableOK, UsedOf
    <3>3. /\ table[x].public = table[x].mapped
          /\ table[x].paddr = table[x].mapped + PhysOffset
          /\ b.start = table[x].mapped /\ b.size = table[x].size
          /\ table[x].mapped \in Nat /\ PhysOffset \in Nat /\ table[x].size \in Nat
      BY <3>1, <3>2, SlotFields, MemoryAssumption DEF SlotOK
    <3>4. a \in Lines(table[x].public, table[x].size) /\ a \in Int
      BY <2>2, <3>3 DEF Lines
    <3> DEFINE p == table[x].paddr + (a - table[x].public)
    <3>5. VirtToPhys(a) = p /\ PhysToVirt(p) = a
      BY <2>1, <3>2, <3>4, SlotTranslates, Zenon
    <3>6. p = a + PhysOffset
      BY <3>3, <3>4
    <3> HIDE DEF p
    <3>7. QED BY <3>5, <3>6, Zenon
  <2>3. ASSUME NEW m \in maps, NEW a \in Lines(m.public, m.size)
        PROVE  LET p == m.paddr + (a - m.public)
               IN  VirtToPhys(a) = p /\ PhysToVirt(p) = a
    <3>1. PICK x \in MappingSlots(table) : m = MappingOf(table[x])
      BY <2>1, Zenon DEF OwnParts
    <3>2. x \in UsedOf(table)
      BY DEF MappingSlots
    <3>3. /\ m.paddr = table[x].paddr /\ m.public = table[x].public
          /\ m.size = table[x].size
      BY <3>1 DEF MappingOf
    <3>4. a \in Lines(table[x].public, table[x].size)
      BY <3>3, Zenon
    <3>5. QED BY <2>1, <3>2, <3>3, <3>4, SlotTranslates, Zenon
  <2>4. QED BY <2>2, <2>3, Zenon DEF AddressesTranslate
<1>2. QED BY <1>1, OwnKept, TableKept, PTL

(* Unmapping memory that a device wrote leaves in it what the device wrote *)
(* last, whatever the cache had fetched, and whenever.                     *)
THEOREM UnmapRight == ASSUME ~SharedBuffers PROVE Spec => UnmapDelivers
<1> DEFINE A == \A m \in maps : UnmapSingle(m) /\ m.dir = "from" =>
                    \A a \in Lines(m.public, m.size) :
                        mem'.user[a] = mem.ram[m.paddr - PhysOffset + (a - m.public)]
<1>1. TableInv /\ OwnInv => A
  <2> SUFFICES ASSUME TableInv, OwnInv, NEW m \in maps, UnmapSingle(m), m.dir = "from",
                      NEW a \in Lines(m.public, m.size)
      PROVE  mem'.user[a] = mem.ram[m.paddr - PhysOffset + (a - m.public)]
    BY Zenon
  <2>1. OwnParts /\ TableOK(table) /\ MemOK(mem)
    BY OwnInvParts, TableInvParts DEF TableParts
  <2>2. PICK x \in MappingSlots(table) :
            /\ m = MappingOf(table[x])
            /\ Find(table, "public", table[x].public) = x
            /\ mem' = Flushed(mem, table, table[x].public,
                              table[x].public + table[x].size)
    BY <2>1, UnmapFinds, Zenon
  <2> DEFINE t == table[x]
             stop == t.public + t.size
             l == t.mapped + (a - t.public)
  <2>3. x \in UsedOf(table) /\ t \in Slot /\ SlotOK(t)
    BY <2>1 DEF MappingSlots, TableOK, UsedOf
  <2>4. /\ m.public = t.public /\ m.size = t.size /\ m.dir = t.dir
        /\ m.paddr - PhysOffset = t.mapped
    BY <2>1, <2>2, <2>3, MappingFields, Zenon
  <2>5. t.dir = "from" /\ a \in Lines(t.public, t.size)
    BY <2>4, Zenon
  <2>6. l \in Lines(t.mapped, t.size)
    BY <2>3, <2>5, SlotLines, Zenon
  <2>7. l \in RangeLines(t, t.public, stop) /\ ~(stop < t.public)
    BY <2>3, <2>6, WholeCovers, Zenon
  <2>8. ~mem.cache[l].dirty
    BY <2>1, <2>5, <2>6, Zenon DEF OwnParts, NoDirt
  <2> HIDE DEF stop
  <2>9. Flushed(mem, table, t.public, stop).user[a] = mem.ram[l]
    BY <2>1, <2>2, <2>5, <2>7, <2>8, FlushMapping
  <2>10. QED BY <2>2, <2>4, <2>9, Zenon DEF stop
<1>2. A => [A]_vars
  OBVIOUS
<1>3. Spec => []TableInv /\ []OwnInv
  BY TableKept, OwnKept, PTL
<1>4. QED BY <1>1, <1>3, PTL DEF UnmapDelivers

(* A flush that covers a line of a mapping brings it to its device.        *)
LEMMA FlushBrings ==
    ASSUME NEW m, MemOK(m), NEW tbl, TableOK(tbl), NEW x \in MappingSlots(tbl),
           tbl[x].dir = "to", NEW start \in Int, NEW stop \in Int,
           Find(tbl, "public", start) = x,
           NEW c \in Lines(tbl[x].public, tbl[x].size), start <= c, c < stop
    PROVE  Flushed(m, tbl, start, stop).ram[tbl[x].mapped + (c - tbl[x].public)]
                = m.user[c]
<1> DEFINE t == tbl[x]
           l == t.mapped + (c - t.public)
<1>1. t \in Slot /\ SlotOK(t)
  BY DEF MappingSlots, TableOK, UsedOf
<1>2. t.public \in Nat /\ t.mapped \in Nat /\ t.size \in Nat
  BY <1>1, SlotFields
<1>3. c \in Int
  BY <1>2 DEF Lines
<1>4. l \in Lines(t.mapped, t.size)
  BY <1>1, SlotLines, Zenon
<1>5. l \in RangeLines(t, start, stop)
  BY <1>1, <1>3, RangeCovers, Zenon
<1>6. ~(stop < start)
  BY <1>3
<1>7. t.public + (l - t.mapped) = c
  BY <1>2, <1>3
<1> HIDE DEF l
<1>8. Flushed(m, tbl, start, stop).ram[l] = m.user[t.public + (l - t.mapped)]
  BY <1>4, <1>5, <1>6, FlushMapping
<1>9. QED BY <1>7, <1>8, Zenon DEF l

(* Only sel4_dma_map_single makes a mapping.                               *)
LEMMA OnlyMapSingleMaps ==
    ASSUME [Next]_vars, NEW m \in maps', m \notin maps
    PROVE  \E u \in Buffers, dir \in {"to", "from"}, start \in Memory :
              MapSingle(u, dir, start)
<1>1. CASE Initialise
  BY <1>1 DEF Initialise
<1>2. CASE Shutdown
  BY <1>2 DEF Shutdown
<1>3. ASSUME NEW b \in Blocks, Memalign(b) PROVE FALSE
  BY <1>3 DEF Memalign
<1>4. ASSUME NEW b \in buffers, Free(b) PROVE FALSE
  BY <1>4 DEF Free
<1>5. ASSUME NEW n \in maps, UnmapSingle(n) PROVE FALSE
  BY <1>5 DEF UnmapSingle
<1>6. ASSUME NEW start, NEW stop, FlushRange(start, stop) \/ InvalidateRange(start, stop)
      PROVE FALSE
  BY <1>6 DEF FlushRange, InvalidateRange
<1>7. CASE Between
  BY <1>7 DEF Between, Evict, Prefetch, CpuWrite, UserWrite, DeviceWrite
<1>8. CASE UNCHANGED vars
  BY <1>8 DEF vars
<1>9. ASSUME NEW b \in Blocks, MemalignUnpinned(b) PROVE FALSE
  BY <1>9 DEF MemalignUnpinned
<1>10. ASSUME NEW b \in Forgotten, LateFree(b) \/ LateUnmap(b) PROVE FALSE
  BY <1>10 DEF LateFree, LateUnmap
<1>11. QED
  BY <1>1, <1>2, <1>3, <1>4, <1>5, <1>6, <1>7, <1>8, <1>9, <1>10, Zenon DEF Next

(* Memory mapped to a device, or flushed while mapped to one, reaches the  *)
(* device as the driver wrote it last, in the whole range.                 *)
THEOREM FlushRight == ASSUME ~SharedBuffers PROVE Spec => FlushSends
<1> DEFINE A ==
      \A m \in maps' : m.dir = "to" =>
        \A a, stop \in Lines(m.public, m.size + 1) :
            (m \notin maps \/ FlushRange(a, stop)) =>
                \A c \in Lines(m.public, m.size) :
                    (m \notin maps \/ c \in a .. (stop - 1)) =>
                        mem'.ram[m.paddr - PhysOffset + (c - m.public)]
                            = mem.user[c]
<1>1. TableInv /\ OwnInv /\ [Next]_vars => A
  <2> SUFFICES ASSUME TableInv, OwnInv, [Next]_vars,
                      NEW m \in maps', m.dir = "to",
                      NEW a \in Lines(m.public, m.size + 1),
                      NEW stop \in Lines(m.public, m.size + 1),
                      m \notin maps \/ FlushRange(a, stop),
                      NEW c \in Lines(m.public, m.size),
                      m \notin maps \/ c \in a .. (stop - 1)
      PROVE  mem'.ram[m.paddr - PhysOffset + (c - m.public)] = mem.user[c]
    BY Zenon
  <2>1. OwnParts /\ TableOK(table) /\ PublicApart(table) /\ MemOK(mem)
    BY OwnInvParts, TableInvParts DEF TableParts, OwnParts
  <2>2. CASE m \in maps
    <3>1. PICK x \in MappingSlots(table) : m = MappingOf(table[x])
      BY <2>1, <2>2, Zenon DEF OwnParts
    <3> DEFINE t == table[x]
    <3>2. x \in UsedOf(table) /\ t \in Slot
      BY <2>1 DEF MappingSlots, TableOK, UsedOf
    <3>3. /\ m.public = t.public /\ m.size = t.size /\ m.dir = t.dir
          /\ m.paddr - PhysOffset = t.mapped
      BY <2>1, <3>1, <3>2, MappingFields, Zenon
    <3>4. /\ c \in Lines(t.public, t.size) /\ t.dir = "to"
          /\ a \in Lines(t.public, t.size + 1) /\ stop \in Lines(t.public, t.size + 1)
      BY <3>3, Zenon
    <3>5. t.public \in Nat /\ t.size \in Nat
      BY <3>2, SlotFields
    <3>6. a \in Int /\ stop \in Int /\ c \in Int /\ a <= c /\ c < stop
      BY <2>2, <3>4, <3>5 DEF Lines
    <3>7. a \in Occupied(PublicOf(t))
      <4>1. a \in Lines(t.public, t.size)
        BY <3>4, <3>5, <3>6 DEF Lines
      <4>2. QED BY <3>5, <4>1, RangeOccupied DEF RangeHas, PublicOf
    <3>8. Find(table, "public", a) = x
      BY <2>1, <3>2, <3>7, FindPublic, Zenon
    <3>9. mem' = Flushed(mem, table, a, stop)
      BY <2>2 DEF FlushRange
    <3>10. Flushed(mem, table, a, stop).ram[t.mapped + (c - t.public)] = mem.user[c]
      BY <2>1, <3>4, <3>6, <3>8, FlushBrings
    <3>11. QED BY <3>3, <3>9, <3>10, Zenon
  <2>3. CASE m \notin maps
    <3>1. PICK u \in Buffers, dir \in {"to", "from"}, start \in Memory :
              MapSingle(u, dir, start)
      BY <2>3, OnlyMapSingleMaps, Zenon
    <3> DEFINE x == LowestOf(FreeSlots)
               t == table'[x]
               end == u.start + u.size
    <3>2. x \in MappingSlots(table') /\ Find(table', "public", u.start) = x
      BY <2>1, <3>1, OwnMapSingle, Zenon
    <3>3. /\ TableOK(table') /\ maps' = maps \cup {MappingOf(t)}
          /\ PublicOf(t) = u /\ t.public = u.start /\ t.size = u.size
      BY <3>1, MapSingleTable, Zenon
    <3>4. mem' = Flushed(mem, table', u.start, end)
      BY <3>1, Zenon DEF MapSingle
    <3>5. m = MappingOf(t)
      BY <2>3, <3>3
    <3> HIDE DEF x
    <3>6. x \in UsedOf(table') /\ t \in Slot
      BY <3>2, <3>3 DEF MappingSlots, TableOK, UsedOf
    <3>7. /\ m.public = t.public /\ m.size = t.size /\ m.dir = t.dir
          /\ m.paddr - PhysOffset = t.mapped
      BY <3>3, <3>5, <3>6, MappingFields, Zenon
    <3>8. c \in Lines(t.public, t.size) /\ t.dir = "to"
      BY <3>7, Zenon
    <3>9. t.public \in Nat /\ t.size \in Nat
      BY <3>6, SlotFields
    <3>10. u.start \in Int /\ end \in Int /\ u.start <= c /\ c < end
      BY <3>3, <3>8, <3>9 DEF Lines
    <3> HIDE DEF end
    <3>11. Flushed(mem, table', u.start, end).ram[t.mapped + (c - t.public)] = mem.user[c]
      BY <2>1, <3>2, <3>3, <3>8, <3>10, FlushBrings
    <3>12. QED BY <3>4, <3>7, <3>11, Zenon
  <2>4. QED BY <2>2, <2>3
<1>2. A => [A]_vars
  OBVIOUS
<1>3. Spec => []TableInv /\ []OwnInv
  BY TableKept, OwnKept, PTL
<1>4. Spec => [][Next]_vars
  BY DEF Spec
<1>5. TableInv /\ OwnInv /\ [Next]_vars => [A]_vars
  BY <1>1, <1>2
<1>6. QED BY <1>3, <1>4, <1>5, PTL DEF FlushSends

=============================================================================
