---------------------------- MODULE DmaAllocator ----------------------------
(***************************************************************************)
(* libmicrokitdma/src/dma.c: the free-list allocator behind every DMA       *)
(* buffer.  The free list is the sequence of its region_t headers from      *)
(* `head` on; a header lives in the first bytes of the region it describes, *)
(* so a region's address is the header's.  The allocator is not thread safe *)
(* (dma.c:30) and every call runs to its end before the next one; only      *)
(* defrag(), whose loop restarts behind the node it has just changed, is    *)
(* modelled an outer iteration per step.                                    *)
(*                                                                          *)
(* The blocks clients hold (`live`) are a history variable: the code keeps  *)
(* no record of them, the client gives the size back when it frees.         *)
(***************************************************************************)
EXTENDS Integers, Sequences, FiniteSets, SequencesExt

CONSTANTS
    RegionSize,   \* sizeof(region_t): no region and no grant is smaller
    RegionAlign,  \* alignof(region_t)
    FrameSize,    \* 1 << PAGE_BITS_4K
    SizeRange,    \* SIZE_MAX + 1
    PaddrOffset,  \* dma_cp_paddr - dma_base
    Pools,        \* the arguments of microkit_dma_init: a sequence of
                  \* records [base, size, page, cached]
    Requests,     \* the arguments of microkit_dma_alloc: records
                  \* [asked, align, cached]
    NullFree      \* whether a client may free a NULL pointer

ASSUME LayoutAssumption ==
    /\ RegionAlign \in Nat \ {0}
    /\ RegionSize \in Nat \ {0}
    /\ FrameSize \in Nat \ {0}
    /\ SizeRange \in Nat \ {0}
    /\ PaddrOffset \in Nat

ASSUME PoolsAssumption ==
    Pools \in Seq([base : Nat, size : Nat, page : Nat \ {0}, cached : BOOLEAN])

ASSUME RequestsAssumption ==
    Requests \subseteq [asked : Nat, align : Nat, cached : BOOLEAN]

VARIABLES
    list,      \* the free list, head first
    live,      \* the blocks clients hold
    added,     \* the pools microkit_dma_init has been called for
    pc,        \* where the running call is
    req,       \* the running allocation: [asked, size, align, cached]
    outer,     \* defrag: the position of `p` in the list
    heapSize, minimumHeapSize, outstanding   \* stats

vars == <<list, live, added, pc, req, outer,
          heapSize, minimumHeapSize, outstanding>>

statistics == <<heapSize, minimumHeapSize, outstanding>>

-----------------------------------------------------------------------------
(* Regions.                                                                *)

End(r) == r.start + r.size

Apart(a, b) == End(a) <= b.start \/ End(b) <= a.start

Larger(m, n) == IF m >= n THEN m ELSE n

RoundUp(n, a) == IF n % a = 0 THEN n ELSE n + (a - (n % a))

(* Mutant: no room is left for the header.                                 *)
RoundedWithoutHeader(asked) == RoundUp(asked, RegionAlign)

(* The size a request is granted, and the size free_region gives back.     *)
Rounded(asked) == RoundUp(Larger(asked, RegionSize), RegionAlign)

(* microkit_dma_get_paddr; and the address a header remembers, 0 when it   *)
(* remembers none.                                                         *)
PaddrOf(vaddr) == vaddr + PaddrOffset

TryExtract(r) ==
    IF r.upper = 0 THEN 0 ELSE (r.upper * FrameSize) + (r.start % FrameSize)

Extract(r) ==
    IF TryExtract(r) # 0 THEN r
    ELSE [r EXCEPT !.upper = PaddrOf(r.start) \div FrameSize]

(* Mutants: the address is the parent's; the size is the parent's.         *)
CarvedAtParent(r, offset, leftover) ==
    [r EXCEPT !.start = @ + offset, !.size = @ - offset, !.cached = leftover]

CarvedAsLong(r, offset, leftover) ==
    [r EXCEPT !.start = @ + offset, !.cached = leftover, !.upper = 0]

(* The header of the part of r that begins `offset` bytes into it.  Nobody *)
(* assigns its `cached` field: it is what the memory held before.          *)
Carved(r, offset, leftover) ==
    [start  |-> r.start + offset,
     size   |-> r.size - offset,
     cached |-> leftover,
     upper  |-> IF TryExtract(r) = 0 THEN 0
                ELSE (TryExtract(r) + offset) \div FrameSize]

(* What check_consistency() changes: every header learns its address.      *)
LookedUp(l) == [k \in DOMAIN l |-> Extract(l[k])]

-----------------------------------------------------------------------------
(* Returning memory.                                                       *)

(* Mutants: the client's size is taken as it is, or to the next frame.      *)
FreedAsAsked(start, asked, isCached) ==
    [start |-> start, size |-> asked, cached |-> isCached, upper |-> 0]

FreedToFrame(start, asked, isCached) ==
    [start |-> start, size |-> RoundUp(asked, FrameSize),
     cached |-> isCached, upper |-> 0]

FreedRegion(start, asked, isCached) ==
    [start |-> start, size |-> Rounded(asked), cached |-> isCached, upper |-> 0]

(* Mutant: the pages of a new pool count as if they had been granted.      *)
DeductedBelowZero(size) == outstanding - size

Deducted(size) == IF size >= outstanding THEN 0 ELSE outstanding - size

ValidPool(p) ==
    /\ p.page > RegionSize
    /\ p.base % p.page = 0
    /\ p.base > 0 /\ p.base % RegionAlign = 0
    /\ \E n \in 0 .. p.page : p.page = 2 ^ n
    /\ p.page >= RegionAlign

PageCount(p) == (p.size + p.page - 1) \div p.page

(* The memory a pool's pages cover; the last page may reach beyond the      *)
(* pool's size.                                                            *)
Extent(p) == [start |-> p.base, size |-> PageCount(p) * p.page]

(* Every caller adds memory of its own.                                    *)
ASSUME DistinctPoolsAssumption ==
    \A j, k \in DOMAIN Pools :
        j # k => Apart(Extent(Pools[j]), Extent(Pools[k]))

(* A header keeps the frame number of its physical address and takes the   *)
(* rest from its own (dma.c:63): frames are mapped whole.  A frame number  *)
(* of 0 means none, and no memory lies in frame 0 (dma.c:221).              *)
ASSUME FramesAssumption ==
    /\ PaddrOffset % FrameSize = 0
    /\ \A k \in DOMAIN Pools :
        ValidPool(Pools[k]) => PaddrOf(Pools[k].base) >= FrameSize

(* Both are powers of two (dma_microkit.h:39, dma.c:455), so the larger one *)
(* is a multiple of the other.                                             *)
ASSUME RequestAlignmentAssumption ==
    \A r \in Requests : r.align <= RegionAlign \/ r.align % RegionAlign = 0

(* Both are powers of two, and a page is not smaller (dma.c:455, 461).     *)
ASSUME PageAlignmentAssumption ==
    \A k \in DOMAIN Pools :
        ValidPool(Pools[k]) => Pools[k].page % RegionAlign = 0

(* One page after the other is freed, so the last one heads the list.      *)
Pages(p) ==
    [n \in 1 .. PageCount(p) |->
        FreedRegion(p.base + (PageCount(p) - n) * p.page, p.page, p.cached)]

(* microkit_dma_init(); an invalid pool is refused and changes nothing.    *)
DmaInit(k) ==
    /\ pc = "idle"
    /\ k \notin added
    /\ ValidPool(Pools[k])
    /\ added' = added \cup {k}
    /\ heapSize' = Pools[k].size
    /\ minimumHeapSize' = Pools[k].size
    /\ outstanding' = Deducted(PageCount(Pools[k]) * Rounded(Pools[k].page))
    /\ list' = LookedUp(Pages(Pools[k]) \o list)
    /\ UNCHANGED <<live, pc, req, outer>>

(* microkit_dma_free(): whatever the pool's caching is, the region is put  *)
(* back as cached.                                                         *)
DmaFree(b) ==
    /\ pc = "idle"
    /\ b \in live
    /\ live' = live \ {b}
    /\ outstanding' = Deducted(Rounded(b.asked))
    /\ list' = LookedUp(<<FreedRegion(b.start, b.asked, TRUE)>> \o list)
    /\ UNCHANGED <<added, pc, req, outer, heapSize, minimumHeapSize>>

(* free_region() asserts that its pointer is not NULL.                     *)
DmaFreeNull ==
    /\ pc = "idle" /\ NullFree
    /\ pc' = "abort"
    /\ UNCHANGED <<list, live, added, req, outer, statistics>>

-----------------------------------------------------------------------------
(* Allocating.                                                             *)

(* The start addresses the scan of region r tries: downwards from the last *)
(* aligned one, and no further once one would cut into r's own header.     *)
Tried(r, size, align) ==
    LET inLoop(q) == q = r.start \/ q >= r.start + RegionSize
        aligned   == {q \in r.start .. (End(r) - size) : q % align = 0}
    IN  {q \in aligned : \A h \in aligned : h >= q => inLoop(h)}

(* Those that leave no suffix, or one that can hold a header.              *)
Placements(r, size, align) ==
    {q \in Tried(r, size, align) :
        LET suffix == End(r) - (q + size)
        IN  suffix = 0 \/ suffix >= RegionSize}

Usable(r) ==
    /\ r.size >= req.size
    /\ r.cached = req.cached
    /\ Placements(r, req.size, req.align) # {}

(* First fit, and the last place in the region that fits.                  *)
FirstFit(p) == Usable(list[p]) /\ \A k \in 1 .. p - 1 : ~Usable(list[k])

(* Mutant: only the head of the list is tried.                             *)
HeadDoesNotFit == list = <<>> \/ ~Usable(list[1])

NoFit == \A p \in DOMAIN list : ~Usable(list[p])

LastPlacement(r, q) ==
    /\ q \in Placements(r, req.size, req.align)
    /\ \A h \in Placements(r, req.size, req.align) : h <= q

(* Mutant: the region is not shrunk.                                       *)
CutOutUnshrunk(p, q, leftover) ==
    <<Carved(list[p], q + req.size - list[p].start, leftover)>> \o list

(* The free list once req.size bytes at q have been cut out of list[p]:    *)
(* all of the region, its start, its end or its middle.                    *)
CutOut(p, q, leftover) ==
    LET r    == list[p]
        rest == Carved(r, q + req.size - r.start, leftover)
    IN  IF q = r.start
        THEN IF r.size = req.size
             THEN RemoveAt(list, p)
             ELSE [list EXCEPT ![p] = rest]
        ELSE LET kept == [list EXCEPT ![p].size = q - r.start]
             IN  IF q + req.size = End(r) THEN kept ELSE <<rest>> \o kept

(* microkit_dma_alloc(): with an empty list it returns NULL at once,       *)
(* otherwise the request is rounded.                                       *)
DmaAlloc(r) ==
    /\ pc = "idle"
    /\ list # <<>>
    /\ pc' = "try"
    /\ req' = [asked |-> r.asked, size |-> Rounded(r.asked),
               align |-> Larger(r.align, RegionAlign), cached |-> r.cached]
    /\ UNCHANGED <<list, live, added, outer, statistics>>

(* Returning to the client ends the life of the call's local variables.    *)
NoRequest == [asked |-> 0, size |-> 0, align |-> 0, cached |-> TRUE]

Return == pc' = "idle" /\ req' = NoRequest /\ outer' = 0

(* The first attempt, or the second one once the list is defragmented.     *)
Attempting == pc = "try" \/ (pc = "defrag" /\ outer > Len(list))

AllocSucceeds ==
    /\ Attempting
    /\ \E p \in DOMAIN list, leftover \in BOOLEAN :
        /\ FirstFit(p)
        /\ \E q \in list[p].start .. End(list[p]) :
            /\ LastPlacement(list[p], q)
            /\ list' = LookedUp(CutOut(p, q, leftover))
            /\ live' = live \cup
                {[start |-> q, size |-> req.size, asked |-> req.asked]}
    /\ outstanding' = outstanding + req.size
    /\ minimumHeapSize' =
           LET available == (heapSize - outstanding') % SizeRange
           IN  IF available < minimumHeapSize THEN available
               ELSE minimumHeapSize
    /\ Return
    /\ UNCHANGED <<added, heapSize>>

StartDefrag ==
    /\ pc = "try"
    /\ NoFit
    /\ req.size > RegionSize
    /\ pc' = "defrag"
    /\ outer' = 1
    /\ list' = LookedUp(list)
    /\ UNCHANGED <<live, added, req, statistics>>

(* Mutant: a request that does not fit is tried until it does.             *)
AllocRetries ==
    /\ Attempting
    /\ NoFit
    /\ pc' = "try"
    /\ outer' = 0
    /\ UNCHANGED <<list, live, added, req, statistics>>

AllocFails ==
    /\ Attempting
    /\ NoFit
    /\ pc = "try" => req.size <= RegionSize
    /\ Return
    /\ list' = LookedUp(list)
    /\ UNCHANGED <<live, added, statistics>>

-----------------------------------------------------------------------------
(* defrag().                                                               *)

(* b begins where a ends, virtually and physically, and is cached alike.   *)
Follows(b, a) ==
    /\ b.start = End(a)
    /\ TryExtract(b) = TryExtract(a) + a.size
    /\ b.cached = a.cached

(* Mutant: only the later region of the list is absorbed.                  *)
MergeableForward(a, b) == Follows(b, a)

Mergeable(a, b) == Follows(a, b) \/ Follows(b, a)

Grown(l, k, by) == [l EXCEPT ![k].size = @ + by]

(* Mutant: the region behind the next one is scanned.                      *)
DefragSkips ==
    /\ pc = "defrag" /\ outer <= Len(list)
    /\ \A q \in 1 .. outer - 1 : ~Mergeable(list[q], list[outer])
    /\ outer' = outer + 2
    /\ UNCHANGED <<list, live, added, pc, req, statistics>>

(* Nothing before `p` touches it: on to the next region.                   *)
DefragAdvance ==
    /\ pc = "defrag" /\ outer <= Len(list)
    /\ \A q \in 1 .. outer - 1 : ~Mergeable(list[q], list[outer])
    /\ outer' = outer + 1
    /\ UNCHANGED <<list, live, added, pc, req, statistics>>

(* The first region q before p that touches it absorbs p, or is absorbed   *)
(* by it, and the scan goes back to the region that grew; when that is the *)
(* head, to the one behind it.                                             *)
DefragCoalesce(q) ==
    /\ pc = "defrag" /\ outer <= Len(list)
    /\ q < outer
    /\ Mergeable(list[q], list[outer])
    /\ \A h \in 1 .. q - 1 : ~Mergeable(list[h], list[outer])
    /\ IF Follows(list[outer], list[q])
       THEN /\ list' = RemoveAt(Grown(list, q, list[outer].size), outer)
            /\ outer' = IF q = 1 THEN 2 ELSE q
       ELSE /\ list' = RemoveAt(Grown(list, outer, list[q].size), q)
            /\ outer' = outer - 1
    /\ UNCHANGED <<live, added, pc, req, statistics>>

-----------------------------------------------------------------------------

Init ==
    /\ list = <<>> /\ live = {} /\ added = {}
    /\ pc = "idle"
    /\ req = NoRequest /\ outer = 0
    /\ heapSize = 0 /\ minimumHeapSize = 0 /\ outstanding = 0

DefragStep == DefragAdvance \/ \E q \in DOMAIN list : DefragCoalesce(q)

(* The rest of a call that has begun.                                      *)
Continue == AllocSucceeds \/ StartDefrag \/ AllocFails \/ DefragStep

Next ==
    \/ \E k \in DOMAIN Pools : DmaInit(k)
    \/ \E b \in live : DmaFree(b)
    \/ DmaFreeNull
    \/ \E r \in Requests : DmaAlloc(r)
    \/ Continue

Spec == Init /\ [][Next]_vars

(* A call runs to its end; no client has to make one.                      *)
FairSpec == Spec /\ WF_vars(Continue)

-----------------------------------------------------------------------------
(* Properties.                                                             *)

Region == [start : Nat, size : Nat \ {0}, cached : BOOLEAN, upper : Nat]

Block == [start : Nat, size : Nat \ {0}, asked : Nat]

(* The type invariant: every variable holds what its declaration says, and *)
(* no region or block is empty.                                            *)
TypeOK ==
    /\ list \in Seq(Region)
    /\ live \subseteq Block
    /\ added \subseteq DOMAIN Pools
    /\ pc \in {"idle", "try", "defrag", "abort"}
    /\ req \in [asked : Nat, size : Nat, align : Nat, cached : BOOLEAN]
    /\ outer \in Nat
    /\ heapSize \in Nat /\ minimumHeapSize \in Nat /\ outstanding \in Nat

BytesOf(b) == b.start .. (b.start + b.size - 1)

(* No byte ever has two owners: two regions of the free list, two blocks   *)
(* of clients, or a region and a block never overlap, in the middle of a   *)
(* defragmentation too.  A header written into a client's buffer, or one   *)
(* buffer handed to two drivers, is this going wrong.                      *)
Separation ==
    /\ \A j, k \in DOMAIN list : j # k => Apart(list[j], list[k])
    /\ \A a, b \in live : a # b => Apart(a, b)
    /\ \A j \in DOMAIN list, b \in live : Apart(list[j], b)

(* What Separation rests on, step by step: memory not added yet is nobody's, *)
(* and a block is as long as free_region will take the client's size to mean. *)
IInv ==
    /\ TypeOK
    /\ Separation
    /\ \A k \in DOMAIN Pools \ added :
        Extent(Pools[k]).size # 0 =>
            /\ \A j \in DOMAIN list : Apart(list[j], Extent(Pools[k]))
            /\ \A b \in live : Apart(b, Extent(Pools[k]))
    /\ \A b \in live : b.size = Rounded(b.asked)
    /\ pc \in {"try", "defrag"} =>
        req.size # 0 /\ req.size = Rounded(req.asked)

FreeBytes == UNION {BytesOf(list[k]) : k \in DOMAIN list}

LiveBytes == UNION {BytesOf(b) : b \in live}

(* The memory handed over with a pool: all of the pages that cover it.     *)
PoolBytes(k) == BytesOf(Extent(Pools[k]))

(* No byte of an added pool is ever lost or gained: rounding a request up  *)
(* when it is made, cutting regions, freeing by the size the client gives  *)
(* and coalescing add up.                                                  *)
Conservation ==
    FreeBytes \cup LiveBytes = UNION {PoolBytes(k) : k \in added}

(* What check_consistency() asserts of each region: it can hold its header *)
(* and the header is aligned for it.                                       *)
HeadersFit ==
    /\ \A k \in DOMAIN list :
        list[k].size >= RegionSize /\ list[k].start % RegionAlign = 0
    /\ \A b \in live : b.size >= RegionSize /\ b.start % RegionAlign = 0

(* The physical address a header carries, computed from its parent's when  *)
(* the region was carved out of another and kept while regions merge, is   *)
(* the one microkit_dma_get_paddr would look up.                           *)
PaddrCorrect ==
    \A k \in DOMAIN list : TryExtract(list[k]) = PaddrOf(list[k].start)

(* When defrag() has run, no two regions that could be one are left,       *)
(* though its outer scan resumes behind the node it changed instead of     *)
(* starting over.                                                          *)
FullyCoalesced ==
    (pc = "defrag" /\ outer > Len(list)) =>
        \A j, k \in DOMAIN list : j # k => ~Follows(list[j], list[k])

(* FullyCoalesced at every step of defrag(): no two of the regions its     *)
(* outer scan has passed could be one.                                     *)
PassedApart ==
    pc = "defrag" =>
        \A j, k \in DOMAIN list :
            (j < outer /\ k < outer /\ j # k) => ~Follows(list[j], list[k])

(* What the properties of headers and bytes rest on, step by step, beside  *)
(* IInv: the pools added were valid ones, whose memory has an address a    *)
(* header can remember, and a running request is aligned for a header.     *)
BooksInv ==
    /\ \A k \in added : ValidPool(Pools[k])
    /\ pc \in {"try", "defrag"} =>
        req.align # 0 /\ req.align % RegionAlign = 0
    /\ Conservation
    /\ HeadersFit
    /\ PaddrCorrect
    /\ PassedApart

(* dma_microkit.h:78: heap_size - current_outstanding are the bytes        *)
(* available, and the low water mark is not above them.                    *)
Accounting ==
    pc # "abort" =>
        /\ heapSize - outstanding = Cardinality(FreeBytes)
        /\ minimumHeapSize <= heapSize - outstanding

(* The free bytes with the given caching, whatever regions they are in.    *)
FreeBytesCached(c) ==
    UNION {BytesOf(list[k]) : k \in {h \in DOMAIN list : list[h].cached = c}}

(* The block of the running request would fit at q: it is aligned, free,   *)
(* and what it leaves free before and behind it is nothing or can hold a   *)
(* header.                                                                 *)
SpaceAt(q, before, behind) ==
    LET space == FreeBytesCached(req.cached) IN
    /\ q % req.align = 0
    /\ (q - before) .. (q + req.size + behind - 1) \subseteq space
    /\ before = 0 => q - 1 \notin space
    /\ behind = 0 => q + req.size \notin space

(* A request that fails after defragmentation could not have been placed   *)
(* behind a header that stays, nor fill a free range, nor, aligned to a    *)
(* header or more, start one: first fit on the list, the scan of each      *)
(* region and defrag() together miss no such place.  The start of a longer *)
(* range is left out for other alignments, as the scan may stop before it. *)
FailureMeansNoRoom ==
    [][(pc = "defrag" /\ AllocFails) =>
        ~ \E q \in FreeBytes :
            \/ SpaceAt(q, 0, 0)
            \/ SpaceAt(q, RegionSize, 0)
            \/ SpaceAt(q, RegionSize, RegionSize)
            \/ req.align >= RegionSize /\ SpaceAt(q, 0, RegionSize)]_vars

(* An allocation returns: however defrag() moves its scan back, it ends.   *)
AllocReturns == (pc = "try") ~> (pc = "idle")

(* How far defrag() is from its end, at most: its scan may go back with     *)
(* each region that is absorbed, but there is one region less.             *)
Remaining == Len(list) * (Len(list) + 2) - outer

(* Each outer iteration of defrag() brings it nearer to its end.            *)
DefragNearsEnd ==
    [][pc = "defrag" /\ pc' = "defrag" => Remaining' \in Nat /\ Remaining' < Remaining]_vars

(* The allocator keeps the promise of DmaPool.                             *)
Pool == INSTANCE DmaPool WITH
            free  <- FreeBytes,
            Pools <- [k \in DOMAIN Pools |-> PoolBytes(k)]

KeepsPromise == Pool!PoolSpec

=============================================================================
