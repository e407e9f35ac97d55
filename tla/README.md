# Verification of the MaaXBoard Microkit project libraries

The repository holds the libraries with which seL4 Microkit protection domains
drive a MaaXBoard through U-Boot's device drivers: a DMA allocator, a port of
U-Boot as a library, a timer, a ring buffer shared by protection domains, and
utilities, among them containers and a CBOR encoder. This directory models the
parts that keep state, checks them with TLC on small instances and proves
the safety of six of them with TLAPS, whatever their parameters.

Line numbers refer to the sources at the paths given, below `src/`.

## The system

| Part | State | Operations | Checked in |
|---|---|---|---|
| DMA allocator, `libmicrokitdma/src/dma.c` | free list of headers kept inside the free memory; statistics | `microkit_dma_init`, `_alloc`, `_free`, `defrag` | `DmaAllocator` |
| DMA table and mappings, `libubootdrivers/src/wrapper/sel4_dma.c` | table of 256 slots; pointer to the DMA manager | memalign, free, map, unmap, flush, invalidate, translate, initialise, shutdown | `Sel4Dma` |
| Timer, `libubootdrivers/src/timer/timer_imx8mq.c` | tick frequency; the hardware counter | `get_ticks`, `timer_get_us`, `udelay`, `wrap_mdelay` | `SystemCounter` |
| Ring, `src/circular_buffer.c` | head, tail, full flag, data, in shared memory | init, reset, put, get, full, empty | `CircularBuffer` |
| Library life cycle, `uboot_drivers.c`, `uboot_wrapper.c` | copy of the device tree, `gd`, `library_initialised` | initialise, commands, shutdown | `UbootLibrary` |
| Device tree pruning, `uboot_drivers.c:27-80` | the flat copy of the tree | disable all, enable the paths asked for | `FdtStatus` |
| List, `libutils/src/list.c` | nodes, allocated or the caller's | append, prepend, remove, find, traverse, with and without allocation | `LinkedLists`, `Containers` |
| Containers, `libutils/include/utils/sglib.h` | links inside the caller's elements; arrays | linked lists of three kinds, sorting and searching arrays, queues, red-black trees, hashed container, iterators | `LinkedLists`, `Arrays`, `Containers`, `RedBlackTree` |
| Byte ring, `libutils/include/utils/circular_buffer.h` | head, tail, bytes | init, put, get, full, empty | `Containers` |
| CBOR and base64, `cbor64.h`, `cbor64.c`, `base64.h` | bits not written yet; strings that have an index | numbers, strings, arrays, maps, tags, references, terminate | `Cbor64`, `CborReader` |
| Other headers of `libutils` | | XML escaping, stacks, arithmetic, logging, a vendored hash table | not modelled |
| U-Boot stubs, platform data, build files | one pointer per console file; tables | | not modelled |

How they interact. A client calls `initialise_uboot_drivers` with a DMA manager
(function pointers into the allocator). That copies and prunes the device tree,
hands the manager to the DMA table and starts U-Boot, whose drivers allocate
and map DMA memory through the table, wait with the timer, and talk to devices
which read and write the memory behind the processor's write-back cache. The
ring carries characters between protection domains.

What is hard in it:

* **Sequences of calls.** The allocator and the table keep no record of who
  holds what; clients repeat sizes and addresses, which are rounded or searched
  for again. One wrong byte shows many calls later.
* **The cache and the device.** Between any two steps of a mapping, lines may
  be written back or fetched and the device may write.
* **Failure.** Each step of initialisation can fail; clients may try again.
* **Links and offsets that move.** Containers relink the caller's elements while
  the caller iterates over them and deletes what it gets; the device tree is
  walked by offset while every write moves what lies behind it.
* **Two sides that count alike.** A reference to a string is an index, which
  sender and receiver derive separately from the strings sent so far.
* **Concurrency.** The counter runs while it is read word by word; two
  protection domains run on one ring without a lock. Everything else runs in
  one thread, and `dma.c:29` says that it must.

What makes each part correct:

* allocator: no byte has two owners; none is lost; a header fits where it is
  written; addresses kept in headers stay right; after defragmentation a
  request fails only if it has no room; every allocation returns;
* table: only initialising it forgets blocks of the allocator; drivers keep what
  they have; addresses translate both ways; each copy and cache operation reaches
  the other side;
* timer: a time read is one the counter had; time does not run back; delays end,
  and no earlier than the rounding of the rate allows;
* ring: it is a queue that loses its oldest item when full;
* library: all there or all gone between calls; no driver runs without its
  device tree, `gd`, timer and DMA manager; only initialising anew loses blocks;
* device tree: enabled are the devices asked for, what they lie in and what lies
  in them, and nothing else has changed;
* containers: each function does what a sequence, or a set, of elements promises;
  pointers agree; trees stay balanced; an iterator meets each element once;
* encoder: what it writes decodes to what was sent, a string that is referred to
  perhaps in the type it had the first time, and references save bytes.

## The modules

**`DmaPool`** is the allocator's promise: a set of free bytes, the blocks held,
`Grant`, `Release`, `AddPool`. It does not say where a block lies or when a
request fails.

**`DmaAllocator`** is `dma.c`. The free list is the sequence of its headers; as
a header lies in the region it describes, its address is `start`. A header is
`[start, size, cached, upper]`, `upper` being `paddr_upper` (0: not looked up
yet, as in the code). One action per function, except that `microkit_dma_alloc`
is split where it may defragment: `DmaAlloc` (early return and rounding), then
`AllocSucceeds`, or `StartDefrag` and one step per outer iteration of `defrag`
(`DefragAdvance`, `DefragCoalesce`), then `AllocSucceeds` or `AllocFails`.
`check_consistency` is compiled in (`DEBUG_DMA`, line 25) and changes state:
every header without an address looks it up. `LookedUp` is that, and its
assertions are properties. The uninitialised `cached` flag of a carved header
is a free choice (`leftover`). The last page of a pool is added whole, as the loop
at lines 471-477 does, even when it reaches beyond the pool (`Extent`). The blocks
clients hold (`live`) are history.

**`Sel4Dma`** is `sel4_dma.c`, one action per function, over a pool that grants
free blocks or none (`Grantable`, the promise of `DmaPool`). Memory is what RAM
holds, what the cache holds of it with a dirty bit, and the drivers' ordinary
memory; one address stands for a cache line. `Evict`, `Prefetch`, `DeviceWrite`,
`CpuWrite` and `UserWrite` happen between calls. `dma_cache_op` cleans *and*
invalidates when asked to clean (`dma.c:760-763`), and so does the model.
`sel4_dma_shutdown`'s loop is a recursive function over the slots
(`ReleasedUpTo`) that frees by public address, as the code does.

`Initialise` may come at any moment, as `sel4_initialise_dma` has no condition
(lines 309-315): after a failed start of the library, which does not shut DMA down
(`uboot_drivers.c:136-140`), or once too often. It clears the table, and blocks that
were in it are `Forgotten`: still taken, known to no slot. Drivers left over from
before go on writing to them, as do their devices, and free and unmap them (`LateFree`, `LateUnmap`). The
ranges flushed and invalidated begin anywhere in what drivers have, had or map, and
end anywhere from one before to one after it. `MemalignUnpinned` is the failure
path on which a block has been taken and cannot be pinned; `SharedBuffers` says
whether drivers map overlapping memory at once.

**`SystemCounter`** is `timer_imx8mq.c`: each register read is a step, `Tick`
happens between any two. The conversion to microseconds is the code's: the ticks
of a microsecond, scaled by `Precision` (2^7) and rounded down (line 82), then the
division of the ticks by them (line 84). `wrap_mdelay` multiplies in 32 bits.

**`CircularBuffer`** is `circular_buffer.c` with each access to shared memory a
step. `Overlap` says whether one side may be called while the other runs, and
`queue` is a history variable, the queue the ring should be.

**`UbootLibrary`** is the life of the library, one action per step that can
fail. `client` is what the client knows of its last call, and it may call in
any order; `strayed` records that it initialised twice or called after shutdown.
U-Boot's part of each step succeeds or fails. DMA blocks are counted: those in
the table and those taken from the allocator. `StackReused` is the moment at
which the place of the by-value argument whose address is kept
(`uboot_drivers.c:125`) is used for something else.

**`FdtStatus`** is `disable_not_required_devices` as recursive operators over the
flat tree: a sequence of cells, a node being known by the offset of its first
cell in words, as to libfdt. Writing a status adds a cell or lengthens one and so
moves all nodes behind it. libfdt's functions are external, reduced to what
`fdt_path_offset`, `fdt_first_subnode`, `fdt_next_subnode`, `fdt_parent_offset`
and `fdt_setprop_string` do with those cells, with their negative results; the
code's loops over them are the source's. `MCUbootLibrary` composes it with
`UbootLibrary`: what pruning can return over all its trees is what `PrepareFdt`
may do (`Prunings`).

**`ListPromise`** is a sequence of elements and a pointer to one of them;
**`LinkedLists`** the pointers behind it, for the four kinds of list (`kind`):
singly linked, sorted and doubly linked of `sglib.h`, and `list.c`. A walk along
pointers is a recursive operator; a function is one step, as one thread calls
it, but an iterator's calls are steps between which the caller may delete
(`ItDelete`) or free (`it.frees`) what it has got. `call` and `result` are the
last call and its answer, which `CallReturns` forgets. **`Arrays`** are the sorts,
the search and the queue on an array, branch by branch, **`Containers`** the
functions that call them, and the whole of these containers; `KeepsPromise` says
that it implements `ListPromise`.

**`Collection`** is a set of elements; **`RedBlackTree`** the red-black trees of
`sglib.h` under the hashed container. The macros take the two sides of a tree as
arguments, and so do `FixInsertion` and `FixDeletion`. The four cases the code
asserts not to exist match no arm of a `CASE`, which stops TLC. Iterators keep
the code's path of (element, pass) pairs; a traversal (`MapOnElements`) is one
call whose command may free the element.

**`Cbor64`** is the encoder, down to the bits: `out` is base64's buffer, its bits
and the characters written; numbers are eight bytes, so that 64 bits are 64.
`put`, `sent` and `heard` are history: the bytes written, what the caller means by
them, and the strings for which the other side, by its own count, has an index,
with their types. A caller may send any string in either type at any time.
`HeadOf`, `ReadAs` and `Meaning` are that other side, which takes one item, or the
bytes of one call, from RFC 8949 and the string reference tags the header names.
**`CborReader`** adds the reader of whole texts, items within items, which is
recursive; it is in a module of its own so that the theorems need not reach it.

Definitions marked *Mutant* in the modules are plausible wrong versions of the
definition that follows them. They are in no specification; replacing the
definition by its mutant must break the property it is paired with.

## The runs

Each takes less than five minutes on two processors, most less than one.

| Run | Instance | Shows |
|---|---|---|
| `DmaAllocator` | one pool of three 16-byte pages, header 8 bytes aligned to 2, requests of 5, 11, 16 bytes, unaligned and aligned to 8; about 10^6 states | `Separation`, `Conservation`, `HeadersFit`, `PaddrCorrect`, `FullyCoalesced`, `Accounting`, `FailureMeansNoRoom`; the allocator implements `DmaPool` (`KeepsPromise`) |
| `DmaAllocatorTwoPools` | two adjacent pools added at any time, of a page and of three quarters of one, one refused pool, free(NULL) | the inductive invariants `IInv`, types included, and `BooksInv`; every allocation returns |
| `Sel4Dma` | 2 slots, 3 lines, blocks of 0 or 1 line, a buffer of 2 lines, 2 values, the table initialised anew at any time | what mappings deliver, with the cache and the device at work; nobody loses what is theirs before the next initialisation; addresses translate |
| `Sel4DmaShared` | 3 slots, nested buffers mapped at once, the table initialised anew at any time | only an initialisation makes the table forget blocks, none is returned twice, shutdown returns all taken since the last one; `TableInv`, types included, on which the proofs rest |
| `SystemCounter` | low word of 5 values, counter to 42, 17 ticks in 10 microseconds, two bits of precision, waits up to 12 | a reading is a value of the call (and so time never runs back); delays end, and not too early |
| `CircularBufferCalls` | ring of 3, 9 items, puts into a full ring | queue behaviour, call by call |
| `UbootLibrary` | all trees of four nodes, each without a status, enabled or disabled (5 shapes, 405 trees), 9 requests of one or two paths; 3 places for device trees, 4 DMA blocks, calls in any order | `OnlyRequiredEnabled` for pruning; `IInv`; `WholeOrNothing` and `DriversFindLibrary` for a client that does not stray, `PointersLive` for any, `OnlyRetriesLoseDma` |
| `RedBlackTree` | 7 elements in one cell, two pairs of which compare equal, and one in another | `RedBlack`: order, colours and depths; `VisitsAll`; the container implements `Collection` |
| `Containers` | 4 elements, two of which compare equal; two lists; arrays up to 6, a queue over 4 cells | `WellFormed`; `VisitsAll`; everything implements `ListPromise` |
| `Cbor64` | 12 numbers around each change of width; 26 strings, in both types | `Decodes`: whole texts; `CallsRight`: each call by itself, and that references pay |

### Disagreements between the code and what is said of it

Each is a run of its own with one property, the statement the repository makes,
and TLC's counterexample is the code at work.

| Run | What happens |
|---|---|
| `CircularBufferShared` | an item taken while put runs leaves an empty ring marked full |
| `UbootCommandAfterShutdown` | `library_initialised` stays set after shutdown with `gd` NULL |

Others the models contain, without a run of their own:

* the header of a split-off region has no cached flag assigned (`dma.c:550`,
  `566`): memory decides whether it merges, so that `FailureMeansNoRoom` speaks of
  regions whose flags agree (`FreeBytesCached`);
* `dma_mapping_error` looks a physical address up as a virtual one
  (`sel4_dma.c:139`);
* the kept pointer to the DMA manager dangles once initialise has returned
  (`uboot_drivers.c:125`; `StackReused`, `CallDeadManager`);
* a request aligned to less than a header is never placed at the start of a
  longer region, as the scan stops before it (`dma.c:522`); `FailureMeansNoRoom`
  leaves out these placements, and only these;
* free(NULL), documented as a no-op (`dma_microkit.h:44`), fails an assertion
  (`DmaFreeNull`);
* a second `microkit_dma_init` overwrites `heap_size` and counts its pages as
  freed blocks, so `Accounting` holds with one pool only;
* with overlapping mappings `sel4_dma_unmap_single` frees the first that
  contains the address, perhaps another one (`sel4_dma.c:379`);
* a failed initialisation keeps the DMA blocks its drivers took, in spite of the
  comment at `uboot_drivers.c:137`, and the next one forgets them (`StartDma` of
  `UbootLibrary`, `Initialise` of `Sel4Dma`), as does one too many;
* the rate of the timer is rounded down (`timer_imx8mq.c:82`): at 8333333 Hz it is
  1066 in 128 instead of 1066.67, so that time runs ahead by 0.06 % and waits of
  about 1.7 ms and more may end early by more than the microsecond under way;
  `DelayNotShort` measures by the counter and says by how much at most;
* `cbor64_utf8_ref` of a string that `cbor64_string_ref` has sent before writes a
  reference to a byte string, and the other way round, as `find_reference` compares
  contents alone (`cbor64.c:141`): `CallsRight` and `Decodes` leave open in which of
  the two types a string that is referred to is read, if it was sent in both;
* appending one doubly linked list to another keeps only the element the second
  variable points to (`sglib.h:602`; `doc/sglib.html:1386` promises a
  concatenation): `Concat` lets the second list have one element;
* the last page of a pool that is not a whole number of pages is freed whole
  (`dma.c:472`), so that memory beyond the pool is handed out, which `heap_size`
  does not count (`Extent`; `Accounting` and `AccountsRight` are about whole pages);
* binary search includes its end index (`sglib.h:169`), which the documentation
  increases by one (`doc/sglib.html:629`): `Search` passes the last index.

And two the models leave out: the functions that start chunked strings send the
length 31 for the indefinite marker (`cbor64.h:265`), and the heap of `sglib.h`
takes `i/2` for a parent (`sglib.h:231`) whose children are `2i+1` and `2i+2`
(line 74).

### Bounds, and why they are enough

* *Allocator.* The header is a quarter of its real size and the pages hold two.
  Requests are smaller than a header and its rounding (5), rounded (11) and a
  whole page (16). With three pages every case of the split (all, start, end,
  middle of a region), merges in both directions and chains of merges occur.
  `SizeRange` (SIZE_MAX + 1) bounds the
  unsigned difference in the low water mark.
* *Table.* Two slots suffice for a full table, three for two overlapping
  mappings and a third allocation. One line is left over when a mapping and a
  block are adjacent. Two values tell old data from new; they are interchangeable
  (`SYMMETRY`), as values are only copied and compared. Blocks that are forgotten
  use up the pool, which is what bounds them.
* *Timer.* A low word of 5 values overflows many times below the limit of 42
  ticks. The rate and its precision are scaled so that rounding shows within that
  limit: 17 ticks in 10 microseconds are 6.8 quarters of a tick in each, which the
  code takes for 6, so that a wait of 12 microseconds, 20.4 ticks, ends after 17 or 18.
  The property measured by the exact rate, but for the microsecond under
  way, fails in this instance. `CountLimit` bounds the counter; a wait
  begins only when its end can be reached below it. A millisecond is 2 microseconds.
* *Ring.* Nine items go round a ring of three three times; `LastItem` bounds
  the puts and `Room` says how far the producer fills the ring.
* *Device trees.* Four nodes give every relation two nodes can have: ancestor,
  sibling, cousin by way of a shared parent, before and after. `Room` is 13 words,
  enough for most of the trees and too little for some, so that the room runs out
  at different points.
* *Trees.* Seven elements make trees of four levels, in which every arm of the
  two rebalancing macros is taken; all orders of insertion and deletion occur.
* *Lists and arrays.* With four elements a list has a middle of two, an insertion
  between equal ones and runs of one, two and four to merge. In an array of six
  quick sort partitions into parts that it has both to keep, and in either order.
* *Encoder.* 24 references take one byte and the next two; before the run's few
  free steps (`MaxSent`) it may therefore send the first 2 or 24 strings in one go
  (`Before`), as byte strings. Then four strings, one of them among the first two,
  may be sent in either type, by value or by reference. Numbers lie on both sides of each width; they and
  the simple values are sent while no string has an index, on which they do not depend.
* *Library.* `Copies` are the places of the heap, `MaxBlocks` bounds the DMA
  blocks out; malloc may fail at any time, not only when they run out.

Deadlock is checked except where the system may stop: when free(NULL) aborts,
when the timer hangs on a frequency that is too low or is read before it is
started or the counter has reached its bound, and when a library that was shut
down is not used again, or the bound on what is sent to the encoder is reached.
`CircularBufferCalls` has no deadlock, as `reset` and
`get` are always possible.

### Fairness

`DmaAllocator` assumes weak fairness of `Continue`: a call that has begun runs
on, as the thread that makes it does. No client has to call. `SystemCounter`
assumes it of the processor's steps and of the counter's. No other run needs
fairness.

## The proofs

Every theorem holds for every value of the constants that the named assumptions
allow; `PROJECT.json` lists them. Each rests on an inductive invariant. `IInv`,
`BooksInv`, `TableInv` and `ReadsWithinCall` are properties of the runs; `OwnInv`,
`RingInv`, `WaitInv` and `EncoderInv`, of which the runs check the consequences, can
be added to the configurations of `Sel4Dma`, `CircularBufferCalls`, `SystemCounter`
and `Cbor64`, where TLC finds them to hold. So can the action property
`DefragNearsEnd` to that of `DmaAllocator`.

### The allocator

`DmaAllocatorProofs`:

* `Inductive`: `Spec => []IInv`. `IInv` is types, `Separation`, and what that
  rests on: memory of pools not added yet is nobody's, so that adding one cannot
  overlap; and the size of a block equals what `free_region` will compute from
  the size the client asked for, so that freeing gives back exactly the block.
  Neither `TypeOK` nor `Separation` is inductive alone: without the last part a
  free could grow a region into its neighbour.
* `TypeCorrect`, `SeparationCorrect`: `TypeOK` and `Separation` follow.

The argument goes through lemmas about lists of regions that are apart:
`RemoveAt`, replacing an element by a part of itself, putting one in front, and
letting one grow by an adjacent one that is removed keep them apart. They are
stated once and cited by the actions.

`DmaBooksProofs`:

* `BooksKept`: `Spec => []BooksInv`, inductive relative to `IInv`. It joins
  `Conservation`, `HeadersFit`, `PaddrCorrect` and two facts they need. One is
  that the running request is aligned to a multiple of a header's alignment: else
  a block cut from the middle would leave a header where none may be. The other,
  `PassedApart`, is the invariant of `defrag`'s outer loop: no region the scan has
  passed can merge with any other. A merge makes the changed region longer, and
  so able to merge with one already passed; the scan goes back to that region
  only, and that this is enough is what the step for `DefragCoalesce` shows.
* `BytesConserved`, `HeadersAlwaysFit`, `AddressesCorrect` follow, and
  `DefragComplete`: what is left after `defrag` is `FullyCoalesced`.
* `DefragFinite`: the action property `DefragNearsEnd`. The scan goes back when it
  merges, by any number of regions, but then there is one region less: with `n`
  regions `n * (n + 2) - outer` is a natural number and each iteration lowers it.
  This is the half of `AllocReturns` that asks nothing of the scheduling.

`DmaPromiseProofs`:

* `PromiseKept`: the refinement `KeepsPromise`. `Init` maps to `Pool!Init`, a step
  of each action to `AddPool`, `Grant`, `Release` or a stutter; `BooksInv` says
  why the free bytes change by the block's and by nothing else.
* `FailureIsHonest`: the action property `FailureMeansNoRoom`. Space that is free
  byte by byte lies in *one* region, because after `defrag` no two with the same
  flag touch; then the scan of that region would have met the place.
* `AccountsRight`: `Accounting`, for one pool of whole pages (`SinglePool`), as
  two would overwrite each other's `heap_size`.

Assumptions: `LayoutAssumption` (sizes are positive), `PoolsAssumption`,
`RequestsAssumption`, `DistinctPoolsAssumption` (each call of `microkit_dma_init` is
given memory of its own), `FramesAssumption` (frames are mapped whole, as the
packing of `paddr_upper` at `dma.c:63` supposes, and none is frame 0, as
`dma.c:221` does), `RequestAlignmentAssumption` and `PageAlignmentAssumption`
(alignments and pages are powers of two, `dma_microkit.h:39`, `dma.c:455`, `461`).
`IInv` needs the first four only.

### The table

`Sel4DmaProofs`, for any number of slots, memory, blocks, buffers and values:

* `TableKept`: `Spec => []TableInv`. What a slot in use says is consistent (its
  physical address is its block's, a buffer's address is its own, a mapping's is
  ordinary memory), the blocks of the slots in use are taken from the allocator, and
  no two overlap, nor does one with a block that is forgotten. This holds **with
  overlapping mappings too**, where a search may free another driver's slot: the
  slot and the block go together.
* `TypesKept`, `TableAgrees` and `NothingLeft` follow: `TypeOK` and the action
  properties `TableMatchesPool`, that no step but an initialisation changes which
  blocks are forgotten, and `ShutdownReturnsAll`, that shutdown leaves none taken but
  these. The last one is about a loop: `ReleasedUpTo[x]` leaves no slot up to `x` in
  use, shown by the least `x` for which it would not.
* While no driver maps overlapping memory at once (`~SharedBuffers`), `OwnKept`:
  `Spec => []OwnInv`. The table then says exactly what drivers have, no two slots
  answer to one address, so that every search finds the slot it is meant to, and
  no line a device writes to is dirty. A driver left over from before an
  initialisation finds no slot at what it had (`ForgottenUnfound`), so that what it
  frees or unmaps is nobody else's (`LateNothing`). `OwnersKeep`, `AddressesRight`,
  `DevicesSafe`, and the action properties `UnmapRight` and `FlushRight` follow:
  `DriversKeepTheirs`, `AddressesTranslate`, `DeviceWritesSurvive`,
  `UnmapDelivers`, `FlushSends`. With overlapping mappings these five are false,
  which is why the hypothesis is there: unmapping one may free the other.

Assumptions: `TableAssumption`, `MemoryAssumption`, and
`SeparateMemoryAssumption` (what drivers map is not memory of the DMA pool, a
region of its own).

### The timer

`SystemCounterProofs`, for every word size, frequency, precision and limit:

* `ReadsCorrect`: `Spec => []ReadsWithinCall`, an invariant that says of each
  step which counter values of this call the words read so far belong to, and
  that the call has not lasted a whole period of the low word. It is inductive.
* `TicksCorrect`: `TicksWithinCall` follows: what `get_ticks` returns is a value
  the counter had during the call. The heart is that two equal high words with
  less than a period between them belong to one period.
* `WaitsCorrect` and `DelayCorrect`: `WaitInv`, and the action property
  `DelayNotShort` from it. The end of a wait is the microseconds of a moment within
  it, plus those asked for. `LongEnough` shows that the two divisions by the rate
  lose less than one microsecond between them, in microseconds of the rate the code
  uses; `RateLoss` that this rate, itself rounded down, is short by less than one part in
  `Precision` of a tick for each microsecond. The property measures the
  wait in ticks against the frequency, so both show in it. Hypothesis `UnwrappedWaits`:
  `msec * 1000` does not wrap, else `wrap_mdelay` does return early.

### The ring

`CircularBufferProofs`, for any size and number of items, while one side is not
called during a call of the other (`~Overlap`; otherwise see
`CircularBufferShared`):

* `RingKept`: `Spec => []RingInv`. `RingHoldsQueue` speaks of the time between
  calls. `RingInv` says what is true at each step of a call: which of the words
  read are still current, that the oldest item may lie overwritten until `put`
  has moved `tail` past it, and where the flag lags behind the ring.
* `RingRight`, `GetRight`, `EmptyRight`: `RingHoldsQueue`, `GetReturnsOldest` and
  `EmptyIsTrue` follow. `PlaceProps` does the arithmetic modulo the ring's size:
  a place fewer than `Size` steps away from `tail` is reached in one way only.

### The library

`UbootLibraryProofs`, for any number of places for device trees and of DMA blocks,
and whether or not pruning may fail:

* `Inductive`: `Spec => []IInv`. `WholeOrNothing` speaks of the time between
  calls and says nothing of how a call got there. `IInv` adds `Parts`, what there
  is at each step whoever calls (while the library starts it owns a copy of the
  tree that `gd` does not use yet; a `gd` comes with a timer and a manager), and
  `Orderly`, which ties the client's knowledge to those parts as long as it has
  not strayed. The proof has a case per action.
* `WholeCorrect`, `DriversCorrect`, `PointersCorrect`, `ManagerCorrect`:
  `WholeOrNothing`, `DriversFindLibrary`, `PointersLive` and `FreeFindsManager`
  follow.
* `DmaKept`: the action property `OnlyRetriesLoseDma`, from the same invariant. A
  step after which more blocks are taken that no table knows is `StartDma`, after a
  failed initialisation or when the client has strayed; no shutdown is.

### The encoder

`Cbor64Proofs`, for any strings and numbers, and for arrays of any length:

* `EncoderInvariant`: `Spec => []EncoderInv`. Neither that the text decodes nor
  that references pay is inductive: both depend on what earlier calls have left
  behind. `EncoderInv` says what that is. `Streams`: each character is the sextet
  of the bytes written that its place says, and what waits in the buffer is the
  rest of the last byte, two or four bits. `Arranged`: the caller's array is a
  permutation of what it was, whose first `emitted` strings were each long enough
  for the index they got. And `Knows(heard, domain)`: the other side, which
  applies a rule of its own to the literals it meets, has an index for just these
  strings, in that order, each in one of the two types.
* `TextCorrect`: `TextHolds`. A text terminated after any number of bytes is of
  whole groups of four characters, and base64 gives the bytes back
  (`TerminatedHolds`, with `ByteBack` for a byte from the characters it lies in).
* `ItemReadsBack`: what `cbor64_send_item` writes for any of the 2 ^ 64 numbers
  and any major type is read as that, whatever follows.
* `CallsCorrect`: the action property `CallsRight`, from `EncoderInv` and, for each
  call, that its bytes mean what the caller does, but for the type of a string that
  is referred to (`AsMeant`): `NumberSays`, `StringRead`,
  `TagSays`, `InitialSays`, `FloatsSay`, and for references `EmitReferenceSays`.
  There the table of thresholds in `new_reference` and the receiver's rule must be
  the same one (`ReferencesAgree`), for domains of references and for shared
  values, whose receiver goes by a tag instead.
* `ReferencesCorrect`: `ReferencesPay`, by the lengths of the items (`HeadLength`).

Assumptions: `NumbersAssumption`, `StringsAssumption` (strings hold no zero byte, as
C strings do not, and none is twice in the caller's array), `LengthsAssumption` (none
is as long as the board's memory, `boards/maaxboard.dts:1808`), `SampleAssumption` and
`BeforeAssumption` (what is sent is among the strings).

That the items of a *nested* text, taken together, decode to all that was sent
(`Decodes`) takes the recursive reader to say, and so it is TLC that checks it.

### Only model-checked

* Liveness: `AllocReturns`, `DelayEnds`.
* `Containers`, `RedBlackTree`, the pruning of `FdtStatus` (`OnlyRequiredEnabled`)
  and the reader of nested texts (`Decodes`): they are built from recursive
  operators along pointers, offsets and items, which the prover does not take, and
  what a recursion computes for every input needs an induction that none of the
  backends can instantiate. Where a proof needs an induction over numbers, as for
  the loop of `sel4_dma_shutdown`, for sums of sizes and for the bytes of an item
  that are put one after the other, it takes the least counterexample of a set
  instead.

## Plan

Done: allocator, table, timer, ring and library; then the pruning of the device
tree, the containers and the encoder; then the proofs of every safety property of
the first five, and of the encoder's calls.

Next, in this order:

1. The allocator composed with the cache, several addresses to a line: what
   sharing a line between a block and a header does to the device's data.
2. `sel4_dma.c` over `DmaPool` as an instance rather than a promise in words.
3. The free list as pointers in memory, with `DmaAllocator` as the abstraction.
4. The packets that the ethernet calls lend to a client, once U-Boot's side of
   them is at hand.

Proofs worth adding: that `sel4_dma.c` over `DmaPool`, once it is an instance of
it, takes and returns blocks as that module says; what still holds of the ring when
calls overlap and it is never full.

## Not modelled

* `circular_buffer_free`, which passes shared memory to the C heap.
* A page size of 0 in `microkit_dma_init` (the loop never ends), and calling it
  twice for the same memory.
* Truncation of addresses to `int` in `microkit_dma_get_paddr`.
* The allocator's walk through `next` pointers, and Brent's cycle check.
* U-Boot itself: drivers and commands succeed or fail.
* The ethernet and stdin calls, which test `library_initialised` and forward, as
  `run_uboot_command` does. A packet received stays U-Boot's until
  `free_packet`; whose buffers they are is not in this repository.
* Delays above 71 minutes, where `msec * 1000` wraps in 32 bits; the instance of
  `wrap_mdelay` stays below its own width, as no driver waits that long.
* The char -1 that an empty ring returns, which is also a byte one can put.
* The cache and the device acting in the middle of a function of `sel4_dma.c`:
  `Evict`, `Prefetch` and `DeviceWrite` come between calls. The ring's cache calls
  move nothing, as its two sides run on one coherent processor.
* The two-byte branch of `cbor64_send_simple` (`cbor64.c:92`): the functions that use
  it send values below 24.
* Invalidating towards the device, which copies the bounce buffer over the
  driver's data (`sel4_dma.c:226`): the model does it, no property forbids it.
* Of `sglib.h`: the heap, the hash table of pointers and the functions around the
  queue's macros. The header says not to use them, and the last two do not
  compile: `_count` is not declared, and `is_full` passes no `dim`.
* Chunked strings of the encoder (see above).
* XML escaping (output a character at a time), switching stacks (assembly),
  arithmetic and logging headers, and `uthash.h`, which nothing here instantiates.
* The U-Boot stubs, platform tables, the device tree and build files.
