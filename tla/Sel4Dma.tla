------------------------------ MODULE Sel4Dma ------------------------------
(***************************************************************************)
(* libubootdrivers/src/wrapper/sel4_dma.c: the table through which U-Boot's *)
(* drivers use the DMA allocator, and the bounce buffers behind Linux's     *)
(* "DMA mapping" interface.  Drivers and the table run in one thread; the   *)
(* device, the write-back cache and the allocator's own bookkeeping in      *)
(* free memory act between any two calls.                                  *)
(*                                                                          *)
(* The allocator is DmaAllocator's promise: a free block, or none.  One     *)
(* address stands for one cache line, and a byte string for the one value   *)
(* it holds; blocks start on a line (sel4_dma_malloc).                      *)
(***************************************************************************)
EXTENDS Integers, FiniteSets

CONSTANTS
    MaxAllocs,       \* MAX_DMA_ALLOCS
    Memory,          \* the lines of the DMA pool, addressed as mapped
    PhysOffset,      \* physical minus virtual address of the pool
    Sizes,           \* the sizes drivers allocate
    Buffers,         \* ordinary memory drivers map: records [start, size]
    Values,          \* what a line may hold
    SharedBuffers    \* whether a driver maps overlapping memory twice at once

ASSUME TableAssumption == MaxAllocs \in Nat \ {0}

ASSUME MemoryAssumption ==
    /\ Memory \subseteq Nat \ {0} /\ PhysOffset \in Nat
    /\ Sizes \subseteq Nat
    /\ Buffers \subseteq [start : Nat \ {0}, size : Nat]

VARIABLES
    table,     \* dma_alloc[]
    manager,   \* whether sel4_dma_manager is set
    held,      \* the blocks taken from the allocator and not returned
    mem,       \* memory: what RAM holds (`ram`), what the cache holds of it
               \* (`cache`), and the drivers' ordinary memory (`user`)
    buffers,   \* the drivers: what sel4_dma_memalign returned to them, and
    maps       \* the mappings they have made

vars == <<table, manager, held, mem, buffers, maps>>

-----------------------------------------------------------------------------
(* The table.                                                              *)

Slots == 1 .. MaxAllocs

Cleared == [inUse |-> FALSE, isMapping |-> FALSE, public |-> 0, mapped |-> 0,
            paddr |-> 0, size |-> 0, dir |-> "none"]

Lines(start, size) == start .. (start + size - 1)

(* A block of no size still has an address of its own.                     *)
Occupied(b) == Lines(b.start, IF b.size = 0 THEN 1 ELSE b.size)

(* What drivers map is not memory of the pool, which is a region of its    *)
(* own.                                                                    *)
ASSUME SeparateMemoryAssumption ==
    \A u \in Buffers : Occupied(u) \cap Memory = {}

RangeHas(base, size, addr) == addr = base \/ addr \in Lines(base, size)

LowestOf(S) == CHOOSE x \in S : \A y \in S : x <= y

(* The first slot whose range, counted from `base`, contains addr, or 0.   *)
Find(tbl, base, addr) ==
    LET hits == {x \in Slots : /\ tbl[x].inUse
                               /\ RangeHas(tbl[x][base], tbl[x].size, addr)}
    IN  IF hits = {} THEN 0 ELSE LowestOf(hits)

(* Mutant: a slot counts as free until it is made a mapping.               *)
SlotsNotMapping == {x \in Slots : ~table[x].isMapping}

FreeSlots == {x \in Slots : ~table[x].inUse}

VirtToPhys(vaddr) ==
    LET t == table[Find(table, "public", vaddr)]
    IN  t.paddr + (vaddr - t.public)

(* Mutant: the bounce buffer's own address is returned.                    *)
PhysToMapped(paddr) ==
    LET t == table[Find(table, "paddr", paddr)]
    IN  t.mapped + (paddr - t.paddr)

PhysToVirt(paddr) ==
    LET t == table[Find(table, "paddr", paddr)]
    IN  t.public + (paddr - t.paddr)

(* dma_mapping_error()                                                     *)
MappingError(addr) == Find(table, "public", addr) = 0

Used == {x \in Slots : table[x].inUse}

BlockOf(t) == [start |-> t.mapped, size |-> t.size]

(* The blocks that are taken though the table does not know them.          *)
Forgotten == held \ {BlockOf(table[x]) : x \in Used}

-----------------------------------------------------------------------------
(* Memory.  A line is cached when its entry is not NotCached.              *)

NotCached == [dirty |-> FALSE, value |-> "absent"]

Line(isDirty, v) == [dirty |-> isDirty, value |-> v]

CpuView(m, a) == IF m.cache[a] = NotCached THEN m.ram[a] ELSE m.cache[a].value

(* Mutant: lines are written back and stay in the cache.                   *)
CleanedOnly(m, lines) ==
    [m EXCEPT !.ram = [a \in Memory |->
                          IF a \in lines /\ m.cache[a].dirty
                          THEN m.cache[a].value ELSE m.ram[a]],
              !.cache = [a \in Memory |->
                          IF a \in lines /\ m.cache[a].dirty
                          THEN Line(FALSE, m.cache[a].value) ELSE m.cache[a]]]

(* dma_cache_op: the kernel writes dirty lines back and drops them all.     *)
CleanInvalidated(m, lines) ==
    [m EXCEPT !.ram = [a \in Memory |->
                          IF a \in lines /\ m.cache[a].dirty
                          THEN m.cache[a].value ELSE m.ram[a]],
              !.cache = [a \in Memory |->
                          IF a \in lines THEN NotCached ELSE m.cache[a]]]

Invalidated(m, lines) ==
    [m EXCEPT !.cache = [a \in Memory |->
                          IF a \in lines THEN NotCached ELSE m.cache[a]]]

(* The two copies between a mapping's memory and its bounce buffer; both   *)
(* go through the cache.                                                   *)
CopyToDma(m, t) ==
    [m EXCEPT !.cache = [a \in Memory |->
        IF a \in Lines(t.mapped, t.size)
        THEN Line(TRUE, m.user[t.public + (a - t.mapped)]) ELSE m.cache[a]]]

CopyFromDma(m, t) ==
    LET source == Lines(t.mapped, t.size) IN
    [m EXCEPT !.user = [a \in DOMAIN m.user |->
                          IF a \in Lines(t.public, t.size)
                          THEN CpuView(m, t.mapped + (a - t.public))
                          ELSE m.user[a]],
              !.cache = [a \in Memory |->
                          IF a \in source
                          THEN Line(m.cache[a].dirty, CpuView(m, a))
                          ELSE m.cache[a]]]

(* Mutant: the public address is not translated to the mapped one.         *)
RangeLinesPublic(t, start, stop) ==
    Lines(start, IF stop > start THEN stop - start ELSE 1)

(* The lines a range operation works on: those of the range, or one when   *)
(* it is empty; only its first address is looked up.                       *)
RangeLines(t, start, stop) ==
    Lines(t.mapped + (start - t.public),
          IF stop > start THEN stop - start ELSE 1)

(* Mutant: the data is copied once the lines have been written back.       *)
FlushedThenCopied(m, tbl, start, stop) ==
    LET x == Find(tbl, "public", start)
        t == tbl[x]
    IN  IF x = 0 THEN m
        ELSE LET cleaned == CleanInvalidated(m, RangeLines(t, start, stop))
             IN  CASE t.dir = "to" -> CopyToDma(cleaned, t)
                   [] t.dir = "from" -> CopyFromDma(cleaned, t)
                   [] OTHER -> cleaned

(* sel4_dma_flush_range()                                                  *)
Flushed(m, tbl, start, stop) ==
    IF Find(tbl, "public", start) = 0 THEN m
    ELSE LET t        == tbl[Find(tbl, "public", start)]
             goes(d)  == t.isMapping /\ t.dir = d
             copied   == IF goes("to") THEN CopyToDma(m, t) ELSE m
             cleaned  == CleanInvalidated(copied, RangeLines(t, start, stop))
         IN  IF stop < start THEN copied
             ELSE IF goes("from") THEN CopyFromDma(cleaned, t) ELSE cleaned

(* sel4_dma_invalidate_range()                                             *)
RangeInvalidated(m, tbl, start, stop) ==
    IF Find(tbl, "public", start) = 0 \/ stop < start THEN m
    ELSE LET t       == tbl[Find(tbl, "public", start)]
             dropped == Invalidated(m, RangeLines(t, start, stop))
         IN  IF t.isMapping THEN CopyFromDma(dropped, t) ELSE dropped

-----------------------------------------------------------------------------
(* The operations.                                                         *)

Blocks == [start : Memory, size : Sizes \cup {b.size : b \in Buffers}]

(* dma_alloc_fn: free memory of the pool, or NULL, as it pleases.          *)
Grantable(b) ==
    /\ Occupied(b) \subseteq Memory
    /\ \A h \in held : Occupied(b) \cap Occupied(h) = {}

(* sel4_dma_memalign() up to its bookkeeping, in slot x.                   *)
Recorded(x, b) ==
    [table EXCEPT ![x] = [inUse |-> TRUE, isMapping |-> FALSE,
                          public |-> b.start, mapped |-> b.start,
                          paddr |-> b.start + PhysOffset,
                          size |-> b.size, dir |-> "none"]]

(* Mutants: a mapping is not freed; the slot is not cleared.               *)
FreedUnlessMapping(s, vaddr) ==
    LET x == Find(s.table, "public", vaddr)
        b == [start |-> s.table[x].mapped, size |-> s.table[x].size]
    IN  IF x = 0 \/ s.table[x].isMapping THEN s
        ELSE [table |-> [s.table EXCEPT ![x] = Cleared],
              held  |-> s.held \ {b}]

FreedUncleared(s, vaddr) ==
    LET x == Find(s.table, "public", vaddr)
        b == [start |-> s.table[x].mapped, size |-> s.table[x].size]
    IN  IF x = 0 THEN s ELSE [s EXCEPT !.held = @ \ {b}]

(* sel4_dma_free(): the block behind the first slot containing vaddr goes  *)
(* back to the allocator.                                                  *)
Freed(s, vaddr) ==
    LET x == Find(s.table, "public", vaddr)
        b == [start |-> s.table[x].mapped, size |-> s.table[x].size]
    IN  IF x = 0 THEN s
        ELSE [table |-> [s.table EXCEPT ![x] = Cleared],
              held  |-> s.held \ {b}]

Bookkeeping == [table |-> table, held |-> held]

Becomes(s) == table' = s.table /\ held' = s.held

(* sel4_dma_initialise() clears the table whatever it holds: the blocks in *)
(* it stay taken.  From now on `buffers` and `maps` are what drivers get   *)
(* from the new table; what they had before is Forgotten.                  *)
Initialise ==
    /\ manager' = TRUE
    /\ table' = [x \in Slots |-> Cleared]
    /\ buffers' = {} /\ maps' = {}
    /\ UNCHANGED <<held, mem>>

(* Once slot x has been looked at: freed by its public address, if in use. *)
Released(s, x) ==
    IF s.table[x].inUse THEN Freed(s, s.table[x].public) ELSE s

ReleasedUpTo[x \in 0 .. MaxAllocs] ==
    IF x = 0 THEN Bookkeeping ELSE Released(ReleasedUpTo[x - 1], x)

Shutdown ==
    /\ manager' = FALSE
    /\ Becomes(ReleasedUpTo[MaxAllocs])
    /\ buffers' = {} /\ maps' = {}
    /\ UNCHANGED mem

Memalign(b) ==
    /\ manager
    /\ FreeSlots # {} /\ b.size \in Sizes /\ Grantable(b)
    /\ table' = Recorded(LowestOf(FreeSlots), b)
    /\ held' = held \cup {b}
    /\ buffers' = buffers \cup {b}
    /\ UNCHANGED <<manager, mem, maps>>

(* Mutant: the block is kept when it cannot be pinned.                     *)
MemalignUnpinnedKept(b) ==
    /\ manager
    /\ FreeSlots # {} /\ Grantable(b)
    /\ held' = held \cup {b}
    /\ UNCHANGED <<table, manager, mem, buffers, maps>>

(* sel4_dma_memalign(), for itself or for a mapping, when dma_pin_fn fails: *)
(* the block is taken and given back.                                      *)
MemalignUnpinned(b) ==
    /\ manager
    /\ FreeSlots # {} /\ Grantable(b)
    /\ held' = (held \cup {b}) \ {b}
    /\ UNCHANGED <<table, manager, mem, buffers, maps>>

Free(b) ==
    /\ manager
    /\ b \in buffers
    /\ Becomes(Freed(Bookkeeping, b.start))
    /\ buffers' = buffers \ {b}
    /\ UNCHANGED <<manager, mem, maps>>

(* sel4_dma_map_single(), as it ends well: the slot just filled is found   *)
(* again by its address and made a mapping.                                *)
MapSingle(u, dir, start) ==
    LET b      == [start |-> start, size |-> u.size]
        filled == Recorded(LowestOf(FreeSlots), b)
        x      == Find(filled, "mapped", start)
    IN  /\ manager
        /\ SharedBuffers \/ \A m \in maps :
               Occupied([start |-> m.public, size |-> m.size])
                   \cap Occupied(u) = {}
        /\ FreeSlots # {} /\ Grantable(b)
        /\ held' = held \cup {b}
        /\ table' = [filled EXCEPT ![x].isMapping = TRUE,
                                   ![x].public = u.start, ![x].dir = dir]
        /\ mem' = Flushed(mem, table', u.start, u.start + u.size)
        /\ maps' = maps \cup {[paddr |-> table'[x].paddr, public |-> u.start,
                               size |-> u.size, dir |-> dir]}
        /\ UNCHANGED <<manager, buffers>>

(* sel4_dma_unmap_single(): found by its physical address, flushed and     *)
(* freed by its public one.                                                *)
Unmapped(paddr) ==
    LET x == Find(table, "paddr", paddr)
        t == table[x]
    IN  IF x # 0 /\ t.isMapping
        THEN /\ mem' = Flushed(mem, table, t.public, t.public + t.size)
             /\ Becomes(Freed(Bookkeeping, t.public))
        ELSE UNCHANGED <<table, held, mem>>

UnmapSingle(m) ==
    /\ manager
    /\ m \in maps
    /\ maps' = maps \ {m}
    /\ Unmapped(m.paddr)
    /\ UNCHANGED <<manager, buffers>>

(* The ranges drivers may ask to flush or invalidate, from the first       *)
(* address to before the second: of what this table gave them or an        *)
(* earlier one did, and of what they map, whether it is mapped or not.     *)
Ranges ==
    UNION {Occupied(r) \X ((r.start - 1) .. (r.start + r.size)) :
              r \in buffers \cup Forgotten \cup Buffers}

FlushRange(start, stop) ==
    /\ manager
    /\ mem' = Flushed(mem, table, start, stop)
    /\ UNCHANGED <<table, manager, held, buffers, maps>>

InvalidateRange(start, stop) ==
    /\ manager
    /\ mem' = RangeInvalidated(mem, table, start, stop)
    /\ UNCHANGED <<table, manager, held, buffers, maps>>

-----------------------------------------------------------------------------
(* Drivers that an initialisation did not stop: they free and unmap what   *)
(* the table has forgotten.                                                *)
LateFree(b) ==
    /\ manager
    /\ b \in Forgotten
    /\ Becomes(Freed(Bookkeeping, b.start))
    /\ UNCHANGED <<manager, mem, buffers, maps>>

LateUnmap(b) ==
    /\ manager
    /\ b \in Forgotten
    /\ Unmapped(b.start + PhysOffset)
    /\ UNCHANGED <<manager, buffers, maps>>

-----------------------------------------------------------------------------
(* What happens between calls.                                             *)

(* The cache writes a line back and drops it, or fetches one it guesses    *)
(* will be read.                                                           *)
Evict(a) ==
    /\ mem.cache[a] # NotCached
    /\ mem' = CleanInvalidated(mem, {a})
    /\ UNCHANGED <<table, manager, held, buffers, maps>>

Prefetch(a) ==
    /\ mem.cache[a] = NotCached
    /\ mem' = [mem EXCEPT !.cache[a] = Line(FALSE, mem.ram[a])]
    /\ UNCHANGED <<table, manager, held, buffers, maps>>

(* A driver writes to a buffer it allocated, from this table or an earlier *)
(* one; the allocator writes the headers of its free list into free memory. *)
CpuWrite(a, v) ==
    /\ \/ \E b \in buffers \cup Forgotten : a \in Lines(b.start, b.size)
       \/ \A h \in held : a \notin Occupied(h)
    /\ mem' = [mem EXCEPT !.cache[a] = Line(TRUE, v)]
    /\ UNCHANGED <<table, manager, held, buffers, maps>>

UserWrite(a, v) ==
    /\ mem' = [mem EXCEPT !.user[a] = v]
    /\ UNCHANGED <<table, manager, held, buffers, maps>>

(* A device writes to what was mapped for it to write, or has been and is  *)
(* forgotten.                                                              *)
DeviceWrite(a, v) ==
    /\ \/ \E m \in maps : /\ m.dir = "from"
                          /\ a \in Lines(m.paddr - PhysOffset, m.size)
       \/ \E b \in Forgotten : a \in Lines(b.start, b.size)
    /\ mem' = [mem EXCEPT !.ram[a] = v]
    /\ UNCHANGED <<table, manager, held, buffers, maps>>

Between ==
    \/ \E a \in Memory : Evict(a) \/ Prefetch(a)
    \/ \E a \in Memory, v \in Values : CpuWrite(a, v) \/ DeviceWrite(a, v)
    \/ \E a \in DOMAIN mem.user, v \in Values : UserWrite(a, v)

-----------------------------------------------------------------------------

UserMemory == UNION {Lines(u.start, u.size) : u \in Buffers}

Init ==
    /\ table = [x \in Slots |-> Cleared]
    /\ manager = FALSE
    /\ held = {} /\ buffers = {} /\ maps = {}
    /\ \E v \in Values :
        mem = [ram   |-> [a \in Memory |-> v],
               cache |-> [a \in Memory |-> NotCached],
               user  |-> [a \in UserMemory |-> v]]

(* A call that returns NULL before it has taken a block changes nothing:   *)
(* no slot or memory is left, or the direction of a mapping is neither of  *)
(* the two.                                                                *)
Next ==
    \/ Initialise \/ Shutdown
    \/ \E b \in Blocks : Memalign(b) \/ MemalignUnpinned(b)
    \/ \E b \in buffers : Free(b)
    \/ \E u \in Buffers, dir \in {"to", "from"}, start \in Memory :
            MapSingle(u, dir, start)
    \/ \E m \in maps : UnmapSingle(m)
    \/ \E b \in Forgotten : LateFree(b) \/ LateUnmap(b)
    \/ \E r \in Ranges : FlushRange(r[1], r[2]) \/ InvalidateRange(r[1], r[2])
    \/ Between

Spec == Init /\ [][Next]_vars

-----------------------------------------------------------------------------
(* Properties.                                                             *)

Slot == [inUse : BOOLEAN, isMapping : BOOLEAN, public : Nat, mapped : Nat,
         paddr : Nat, size : Nat, dir : {"none", "to", "from"}]

(* The type invariant.                                                     *)
TypeOK ==
    /\ table \in [Slots -> Slot]
    /\ manager \in BOOLEAN
    /\ held \subseteq Blocks
    /\ buffers \subseteq Blocks
    /\ maps \subseteq [paddr : Nat, public : Nat, size : Nat, dir : {"to", "from"}]
    /\ mem \in [ram   : [Memory -> Values],
                cache : [Memory -> [dirty : BOOLEAN, value : Values \cup {"absent"}]],
                user  : [UserMemory -> Values]]

(* Only an initialisation makes the table forget blocks, those it held: no *)
(* other call, failing or not, and no driver left over from an earlier     *)
(* initialisation, takes a block it does not record, drops one from the    *)
(* table that it does not return, or returns one the table does not hold.  *)
TableMatchesPool == [][Forgotten' = Forgotten \/ Initialise]_vars

(* What a driver was given is its own until it gives it back or the table  *)
(* is initialised anew: no other call frees its block or takes its slot,   *)
(* not even one by a driver that missed an initialisation.                 *)
DriversKeepTheirs ==
    /\ \A b \in buffers :
        \E x \in Used : ~table[x].isMapping /\ BlockOf(table[x]) = b
    /\ \A m \in maps :
        \E x \in Used : /\ table[x].isMapping /\ table[x].paddr = m.paddr
                        /\ table[x].public = m.public /\ table[x].dir = m.dir

MappingOf(t) ==
    [paddr |-> t.paddr, public |-> t.public, size |-> t.size, dir |-> t.dir]

PublicOf(t) == [start |-> t.public, size |-> t.size]

(* What the promises of the table rest on, step by step: a slot in use     *)
(* describes a block taken from the allocator that is no other slot's, nor *)
(* one of those forgotten, pinned where it lies, and a mapping's memory; a *)
(* slot out of use is cleared, and without a manager all are.              *)
TableInv ==
    /\ TypeOK
    /\ \A a \in Memory :
        mem.cache[a] = NotCached \/ mem.cache[a].value \in Values
    /\ {BlockOf(table[x]) : x \in Used} \subseteq held
    /\ \A b, c \in held : b # c => Occupied(b) \cap Occupied(c) = {}
    /\ \A x \in Slots \ Used : table[x] = Cleared
    /\ ~manager => Used = {}
    /\ \A x, y \in Used : x # y =>
        Occupied(BlockOf(table[x])) \cap Occupied(BlockOf(table[y])) = {}
    /\ \A x \in Used :
        /\ BlockOf(table[x]) \in Blocks
        /\ Occupied(BlockOf(table[x])) \subseteq Memory
        /\ table[x].paddr = table[x].mapped + PhysOffset
        /\ IF table[x].isMapping
           THEN PublicOf(table[x]) \in Buffers /\ table[x].dir # "none"
           ELSE table[x].public = table[x].mapped /\ table[x].dir = "none"

(* sel4_dma_virt_to_phys and sel4_dma_phys_to_virt find, for every address *)
(* of what a driver allocated or mapped, the one its device or the driver  *)
(* uses; each is the other's inverse.                                      *)
AddressesTranslate ==
    /\ \A b \in buffers : \A a \in Occupied(b) \cap Lines(b.start, b.size) :
        VirtToPhys(a) = a + PhysOffset /\ PhysToVirt(a + PhysOffset) = a
    /\ \A m \in maps : \A a \in Lines(m.public, m.size) :
        LET p == m.paddr + (a - m.public)
        IN  VirtToPhys(a) = p /\ PhysToVirt(p) = a

(* No line of a buffer a device writes to is ever dirty in the cache:      *)
(* evicting it would undo what the device wrote.                           *)
DeviceWritesSurvive ==
    \A m \in maps : m.dir = "from" =>
        \A a \in Lines(m.paddr - PhysOffset, m.size) : ~mem.cache[a].dirty

(* TableInv, while no driver maps overlapping memory: what the drivers     *)
(* have is what the table says, and no two slots answer to one address.    *)
OwnInv ==
    /\ buffers = {BlockOf(table[x]) : x \in {y \in Used : ~table[y].isMapping}}
    /\ maps = {MappingOf(table[x]) : x \in {y \in Used : table[y].isMapping}}
    /\ \A x, y \in Used : x # y =>
        Occupied(PublicOf(table[x])) \cap Occupied(PublicOf(table[y])) = {}
    /\ DeviceWritesSurvive

(* When memory mapped from a device is unmapped, the driver finds in it    *)
(* what the device wrote last, not what the cache fetched before.          *)
UnmapDelivers ==
    [][\A m \in maps : UnmapSingle(m) /\ m.dir = "from" =>
        \A a \in Lines(m.public, m.size) :
            mem'.user[a] = mem.ram[m.paddr - PhysOffset + (a - m.public)]]_vars

(* When memory is mapped to a device, or flushed, the device finds in the  *)
(* range what the driver wrote last.                                       *)
FlushSends ==
    [][\A m \in maps' : m.dir = "to" =>
        \A a, stop \in Lines(m.public, m.size + 1) :
            (m \notin maps \/ FlushRange(a, stop)) =>
                \A c \in Lines(m.public, m.size) :
                    (m \notin maps \/ c \in a .. (stop - 1)) =>
                        mem'.ram[m.paddr - PhysOffset + (c - m.public)]
                            = mem.user[c]]_vars

(* sel4_dma_shutdown returns every block taken since the table was         *)
(* initialised last, though it frees each slot by a search that may stop   *)
(* at another one.                                                         *)
ShutdownReturnsAll == [][Shutdown => held' = Forgotten]_vars

=============================================================================
