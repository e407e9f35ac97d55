-------------------------- MODULE DmaPromiseProofs --------------------------
(***************************************************************************)
(* What clients of libmicrokitdma/src/dma.c may rely on, whatever it is    *)
(* built from: the allocator keeps the promise of DmaPool, and a request   *)
(* that fails after defragmentation could not have been placed.            *)
(***************************************************************************)
EXTENDS DmaBooksProofs, FiniteSetTheorems

-----------------------------------------------------------------------------
(* The allocator implements DmaPool: free memory is the bytes of the free  *)
(* list.                                                                   *)

(* Initially no memory is free.                                            *)
LEMMA PromiseInit == Init => Pool!PoolInit
BY DEF Init, Pool!PoolInit, FreeBytes

(* The steps that neither take nor return memory are no step of DmaPool.   *)
LEMMA PromiseStutter ==
    ASSUME FreeBytes' = FreeBytes, live' = live, added' = added
    PROVE  UNCHANGED Pool!poolVars
BY DEF Pool!poolVars

(* microkit_dma_init adds the bytes of the pool.                           *)
LEMMA PromiseAdd ==
    ASSUME IInv, NEW k \in DOMAIN Pools, DmaInit(k)
    PROVE  Pool!PoolNext
<1>1. /\ k \notin added /\ added' = added \cup {k} /\ live' = live
      /\ FreeBytes' = FreeBytes \cup PoolBytes(k)
  BY DmaInitBytes DEF DmaInit
<1>2. Pool!AddPool(k)
  BY <1>1 DEF Pool!AddPool
<1>3. QED BY <1>2 DEF Pool!PoolNext

(* microkit_dma_free returns all of the block.                             *)
LEMMA PromiseRelease ==
    ASSUME IInv, NEW b \in live, DmaFree(b)
    PROVE  Pool!PoolNext
<1>1. /\ live' = live \ {b} /\ added' = added
      /\ FreeBytes' = FreeBytes \cup BytesOf(b)
  BY DmaFreeBytes DEF DmaFree
<1>2. Pool!Release(b)
  BY <1>1 DEF Pool!Release, Pool!BytesOf, BytesOf
<1>3. QED BY <1>2 DEF Pool!PoolNext

(* A block that is granted was nobody's, so it is a new one.               *)
LEMMA PromiseGrant ==
    ASSUME IInv, AllocSucceeds
    PROVE  Pool!PoolNext
<1>1. PICK p \in DOMAIN list, leftover \in BOOLEAN, q \in Nat :
        LET b == [start |-> q, size |-> req.size, asked |-> req.asked]
        IN  /\ b \in Block /\ b.size >= b.asked
            /\ live' = live \cup {b}
            /\ BytesOf(b) \subseteq FreeBytes
            /\ FreeBytes' = FreeBytes \ BytesOf(b)
  BY AllocSucceedsBlock, Zenon
<1> DEFINE b == [start |-> q, size |-> req.size, asked |-> req.asked]
<1>2. /\ b \in Block /\ b.size >= b.asked
      /\ live' = live \cup {b}
      /\ BytesOf(b) \subseteq FreeBytes
      /\ FreeBytes' = FreeBytes \ BytesOf(b)
      /\ added' = added
  BY <1>1 DEF AllocSucceeds
<1> HIDE DEF b
<1>3. b.start \in Nat /\ b.size \in Nat /\ b.size # 0 /\ b.start \in BytesOf(b)
  BY <1>2, BlockFields DEF BytesOf
<1>4. b \notin live
  <2> SUFFICES ASSUME b \in live PROVE FALSE
    OBVIOUS
  <2>1. PICK k \in DOMAIN list : b.start \in BytesOf(list[k])
    BY <1>2, <1>3 DEF FreeBytes
  <2>2. Apart(list[k], b)
    BY DEF IInv, Separation
  <2>3. list[k].start \in Nat /\ list[k].size \in Nat
    BY UntouchedList, ElementOf, RegionFields
  <2>4. BytesOf(list[k]) \cap BytesOf(b) = {}
    BY <1>3, <2>2, <2>3, ApartDisjoint
  <2>5. QED BY <1>3, <2>1, <2>4
<1>5. Pool!Grant(b)
  BY <1>2 DEF Pool!Grant, Pool!BytesOf, BytesOf
<1>6. b \in live' \ live
  BY <1>2, <1>4
<1>7. QED BY <1>5, <1>6 DEF Pool!PoolNext

(* Every step is one of DmaPool, or none.                                  *)
LEMMA PromiseNext ==
    ASSUME IInv, [Next]_vars
    PROVE  [Pool!PoolNext]_(Pool!poolVars)
<1>1. ASSUME NEW k \in DOMAIN Pools, DmaInit(k) PROVE Pool!PoolNext
  BY <1>1, PromiseAdd
<1>2. ASSUME NEW b \in live, DmaFree(b) PROVE Pool!PoolNext
  BY <1>2, PromiseRelease
<1>3. CASE AllocSucceeds
  BY <1>3, PromiseGrant
<1>4. ASSUME NEW q \in DOMAIN list, DefragCoalesce(q)
      PROVE  UNCHANGED Pool!poolVars
  <2>1. live' = live /\ added' = added
    BY <1>4 DEF DefragCoalesce
  <2>2. QED BY <1>4, <2>1, DefragCoalesceBytes, PromiseStutter
<1>5. CASE \/ DmaFreeNull
           \/ \E r \in Requests : DmaAlloc(r)
           \/ StartDefrag \/ AllocFails \/ DefragAdvance
           \/ UNCHANGED vars
  BY <1>5, OtherBytes, PromiseStutter
<1>6. QED BY <1>1, <1>2, <1>3, <1>4, <1>5, Zenon
          DEF Next, Continue, DefragStep

(* The allocator keeps the promise of DmaPool: at any moment every byte    *)
(* added is free or in one block, blocks are as long as asked for, and all *)
(* of a freed block is free again.                                         *)
THEOREM PromiseKept == Spec => KeepsPromise
<1>1. Init => Pool!PoolInit
  BY PromiseInit
<1>2. IInv /\ [Next]_vars => [Pool!PoolNext]_(Pool!poolVars)
  BY PromiseNext
<1>3. QED BY <1>1, <1>2, Inductive, PTL DEF Spec, KeepsPromise, Pool!PoolSpec

-----------------------------------------------------------------------------
(* A failed request.                                                       *)

(* When no two regions of the free list follow one another, a stretch of   *)
(* free bytes cached alike lies in a single region.                        *)
LEMMA StretchInRegion ==
    ASSUME IInv, BooksInv,
           \A j, k \in DOMAIN list : j # k => ~Follows(list[j], list[k]),
           NEW c, NEW a \in Int, NEW e \in Int, a < e,
           a .. (e - 1) \subseteq FreeBytesCached(c)
    PROVE  \E k \in DOMAIN list : /\ list[k].cached = c
                                  /\ list[k].start <= a
                                  /\ e <= End(list[k])
<1>1. \A k \in DOMAIN list : /\ list[k].start \in Nat /\ list[k].size \in Nat
                             /\ End(list[k]) = list[k].start + list[k].size
                             /\ End(list[k]) \in Nat
                             /\ BytesOf(list[k]) = list[k].start .. (End(list[k]) - 1)
  <2> TAKE k \in DOMAIN list
  <2>1. list[k].start \in Nat /\ list[k].size \in Nat
    BY UntouchedList, ElementOf, RegionFields
  <2>2. QED BY <2>1 DEF End, BytesOf
<1>2. ASSUME NEW x \in a .. (e - 1)
      PROVE  \E k \in DOMAIN list :
                /\ list[k].cached = c
                /\ x \in list[k].start .. (End(list[k]) - 1)
  <2>1. x \in FreeBytesCached(c)
    BY <1>2
  <2>2. PICK k \in DOMAIN list : list[k].cached = c /\ x \in BytesOf(list[k])
    BY <2>1 DEF FreeBytesCached
  <2>3. QED BY <1>1, <2>2
<1>3. a \in a .. (e - 1)
  OBVIOUS
<1>4. PICK k \in DOMAIN list :
         list[k].cached = c /\ a \in list[k].start .. (End(list[k]) - 1)
  BY <1>2, <1>3
<1>5. list[k].start <= a /\ a < End(list[k])
  BY <1>1, <1>4
<1>6. ASSUME End(list[k]) < e PROVE FALSE
  <2> DEFINE x == End(list[k])
  <2>1. x \in a .. (e - 1) /\ x \in Nat
    BY <1>1, <1>5, <1>6
  <2> HIDE DEF x
  <2>2. PICK j \in DOMAIN list :
          list[j].cached = c /\ x \in list[j].start .. (End(list[j]) - 1)
    BY <1>2, <2>1
  <2>3. list[j].start <= x /\ x < End(list[j])
    BY <1>1, <2>1, <2>2
  <2>4. j # k
    BY <2>1, <2>3 DEF x
  <2>5. End(list[j]) <= list[k].start \/ End(list[k]) <= list[j].start
    BY <2>4 DEF IInv, Separation, Apart
  <2>6. list[j].start = x
    BY <1>1, <1>5, <2>1, <2>3, <2>5 DEF x
  <2>7. TryExtract(list[j]) = TryExtract(list[k]) + list[k].size
    <3>1. /\ TryExtract(list[j]) = PaddrOf(list[j].start)
          /\ TryExtract(list[k]) = PaddrOf(list[k].start)
      BY DEF BooksInv, PaddrCorrect
    <3>2. list[j].start = list[k].start + list[k].size
      BY <1>1, <2>6 DEF x
    <3>3. QED BY <1>1, <3>1, <3>2, LayoutAssumption DEF PaddrOf
  <2>8. Follows(list[j], list[k])
    BY <1>4, <2>2, <2>6, <2>7 DEF Follows, x
  <2>9. QED BY <2>4, <2>8
<1>7. e <= End(list[k])
  BY <1>1, <1>6
<1>8. QED BY <1>4, <1>5, <1>7

(* A region usable by the running request would have been found.           *)
LEMMA NoPlacement ==
    ASSUME IInv, NoFit, req.size \in Nat, NEW k \in DOMAIN list,
           list[k].cached = req.cached, NEW q \in Nat,
           q \in Placements(list[k], req.size, req.align)
    PROVE  FALSE
<1>1. list[k].start \in Nat /\ list[k].size \in Nat
  BY UntouchedList, ElementOf, RegionFields
<1>2. q \in list[k].start .. (End(list[k]) - req.size)
  BY DEF Placements, Tried
<1>3. list[k].size >= req.size
  BY <1>1, <1>2 DEF End
<1>4. QED BY <1>3 DEF NoFit, Usable

(* Two multiples of a number are at least that far apart.                  *)
LEMMA MultiplesApart ==
    ASSUME NEW a \in Nat \ {0}, NEW q \in Nat, NEW h \in Nat, q < h,
           q % a = 0, h % a = 0
    PROVE  q + a <= h
<1> DEFINE n == h - q
<1>1. n \in Nat /\ n > 0 /\ q + n = h
  OBVIOUS
<1> HIDE DEF n
<1>2. (q + n) % a = n % a
  BY <1>1, AddMultiple
<1>3. n % a = 0
  BY <1>1, <1>2, Zenon
<1>4. n = (n \div a) * a + (n % a) /\ n \div a \in Nat
  BY <1>1, DivProps
<1> DEFINE d == n \div a
<1> HIDE DEF d
<1>5. d \in Nat /\ n = d * a
  BY <1>1, <1>3, <1>4 DEF d
<1>6. d # 0
  BY <1>1, <1>5
<1>7. d * a >= a
  BY <1>5, <1>6
<1>8. QED BY <1>1, <1>5, <1>7

(* The places FailureMeansNoRoom speaks of are placements.                 *)
LEMMA SpaceIsPlacement ==
    ASSUME NEW r, r.start \in Nat, r.size \in Nat,
           NEW size \in Nat \ {0}, NEW align \in Nat, NEW q \in Nat,
           NEW before \in Nat, NEW behind \in Nat,
           q % align = 0,
           r.start <= q - before, q + size + behind <= End(r),
           \/ before = RegionSize
           \/ r.start = q /\ q + size = End(r)
           \/ r.start = q /\ align >= RegionSize,
           behind = RegionSize \/ q + size = End(r)
    PROVE  q \in Placements(r, size, align)
<1> DEFINE aligned   == {h \in r.start .. (End(r) - size) : h % align = 0}
           inLoop(h) == h = r.start \/ h >= r.start + RegionSize
<1>1. RegionSize \in Nat \ {0} /\ End(r) \in Nat
  BY LayoutAssumption DEF End
<1>2. q \in aligned
  BY <1>1
<1>3. ASSUME NEW h \in aligned, h >= q PROVE inLoop(h)
  <2>1. h \in Int /\ h <= End(r) - size
    BY <1>1
  <2>2. CASE before = RegionSize
    BY <1>1, <1>3, <2>1, <2>2
  <2>3. CASE r.start = q /\ q + size = End(r)
    BY <1>1, <1>3, <2>1, <2>3
  <2>4. CASE r.start = q /\ align >= RegionSize
    <3>1. h \in Nat /\ h % align = 0 /\ align \in Nat \ {0}
      BY <1>1, <2>4
    <3>2. CASE h = q
      BY <2>4, <3>2
    <3>3. CASE h # q
      <4>1. q < h
        BY <1>3, <2>1, <3>3
      <4>2. q + align <= h
        BY <3>1, <4>1, MultiplesApart
      <4>3. QED BY <1>1, <2>1, <2>4, <4>2
    <3>4. QED BY <3>2, <3>3
  <2>5. QED BY <2>2, <2>3, <2>4
<1>4. q \in Tried(r, size, align)
  BY <1>2, <1>3 DEF Tried
<1>5. End(r) - (q + size) = 0 \/ End(r) - (q + size) >= RegionSize
  BY <1>1
<1>6. QED BY <1>4, <1>5 DEF Placements

(* There is no such place when nothing fits.                               *)
LEMMA NoSpace ==
    ASSUME IInv, BooksInv, NoFit, pc = "defrag",
           \A j, k \in DOMAIN list : j # k => ~Follows(list[j], list[k]),
           NEW q \in Nat, NEW before \in Nat, NEW behind \in Nat,
           SpaceAt(q, before, behind),
           before = 0 \/ before = RegionSize,
           behind = 0 \/ behind = RegionSize,
           before = 0 => behind = 0 \/ req.align >= RegionSize
    PROVE  FALSE
<1> DEFINE space == FreeBytesCached(req.cached)
           size  == req.size
           a     == q - before
           e     == q + size + behind
<1>1. size \in Nat \ {0} /\ req.align \in Nat
  BY DEF IInv, TypeOK
<1>2. /\ q % req.align = 0
      /\ a .. (e - 1) \subseteq space
      /\ before = 0 => q - 1 \notin space
      /\ behind = 0 => q + size \notin space
  <2>1. e - 1 = q + size + behind - 1
    BY <1>1
  <2>2. /\ q % req.align = 0
        /\ (q - before) .. (q + size + behind - 1) \subseteq space
        /\ before = 0 => q - 1 \notin space
        /\ behind = 0 => q + size \notin space
    BY DEF SpaceAt
  <2>3. QED BY <2>1, <2>2, Zenon
<1>3. a \in Int /\ e \in Int /\ a < e
  BY <1>1
<1> HIDE DEF a, e
<1>4. PICK k \in DOMAIN list : /\ list[k].cached = req.cached
                               /\ list[k].start <= a
                               /\ e <= End(list[k])
  BY <1>2, <1>3, StretchInRegion
<1> DEFINE r == list[k]
<1>5. r.start \in Nat /\ r.size \in Nat /\ End(r) = r.start + r.size
  BY UntouchedList, ElementOf, RegionFields DEF End
<1>6. ASSUME NEW x \in Int, r.start <= x, x < End(r) PROVE x \in space
  <2>1. x \in BytesOf(r)
    BY <1>5, <1>6 DEF BytesOf
  <2>2. QED BY <1>4, <2>1 DEF FreeBytesCached
<1> HIDE DEF space, r, size
<1>7. ASSUME before = 0 PROVE r.start = q
  <2>1. q - 1 \notin space /\ r.start <= q /\ q - 1 \in Int
    BY <1>2, <1>4, <1>7 DEF a, r
  <2>2. ~(r.start <= q - 1 /\ q - 1 < End(r))
    BY <1>6, <2>1
  <2>3. q + size + behind <= End(r)
    BY <1>4 DEF e, r
  <2>4. QED BY <1>1, <1>5, <2>1, <2>2, <2>3
<1>8. ASSUME behind = 0 PROVE q + size = End(r)
  <2>1. q + size \notin space /\ q + size <= End(r) /\ q + size \in Int
    BY <1>1, <1>2, <1>4, <1>8 DEF e, r
  <2>2. ~(r.start <= q + size /\ q + size < End(r))
    BY <1>6, <2>1
  <2>3. r.start <= q
    BY <1>4, <1>5 DEF a, r
  <2>4. QED BY <1>1, <1>5, <2>1, <2>2, <2>3
<1>9. r.start <= q - before /\ q + size + behind <= End(r)
  BY <1>4 DEF a, e, r
<1>10. \/ before = RegionSize
       \/ r.start = q /\ q + size = End(r)
       \/ r.start = q /\ req.align >= RegionSize
  BY <1>7, <1>8
<1>11. behind = RegionSize \/ q + size = End(r)
  BY <1>8
<1>12. q \in Placements(r, size, req.align)
  BY <1>1, <1>2, <1>5, <1>9, <1>10, <1>11, SpaceIsPlacement
<1>13. QED BY <1>1, <1>4, <1>12, NoPlacement DEF r, size

(* A request that fails after defragmentation could not have been placed   *)
(* inside a free range, behind a header that stays, nor fill one, nor start *)
(* one when it is aligned to a header or more.  Nothing is said of the     *)
(* start of a longer range for other alignments, where the code does fail. *)
THEOREM FailureIsHonest == Spec => FailureMeansNoRoom
<1> DEFINE Honest == (pc = "defrag" /\ AllocFails) =>
                ~ \E q \in FreeBytes :
                    \/ SpaceAt(q, 0, 0)
                    \/ SpaceAt(q, RegionSize, 0)
                    \/ SpaceAt(q, RegionSize, RegionSize)
                    \/ req.align >= RegionSize /\ SpaceAt(q, 0, RegionSize)
<1>1. IInv /\ BooksInv /\ FullyCoalesced => Honest
  <2> SUFFICES ASSUME IInv, BooksInv, FullyCoalesced, pc = "defrag", AllocFails,
                      NEW q \in FreeBytes,
                      \/ SpaceAt(q, 0, 0)
                      \/ SpaceAt(q, RegionSize, 0)
                      \/ SpaceAt(q, RegionSize, RegionSize)
                      \/ req.align >= RegionSize /\ SpaceAt(q, 0, RegionSize)
               PROVE  FALSE
    OBVIOUS
  <2>1. NoFit /\ outer > Len(list)
    BY DEF AllocFails, Attempting
  <2>2. \A j, k \in DOMAIN list : j # k => ~Follows(list[j], list[k])
    BY <2>1 DEF FullyCoalesced
  <2>3. q \in Nat
    <3>1. PICK k \in DOMAIN list : q \in BytesOf(list[k])
      BY DEF FreeBytes
    <3>2. list[k].start \in Nat /\ list[k].size \in Nat
      BY UntouchedList, ElementOf, RegionFields
    <3>3. QED BY <3>1, <3>2 DEF BytesOf
  <2>4. 0 \in Nat /\ RegionSize \in Nat /\ RegionSize # 0
    BY LayoutAssumption
  <2>5. QED BY <2>1, <2>2, <2>3, <2>4, NoSpace
<1>2. IInv /\ BooksInv /\ FullyCoalesced => [Honest]_vars
  BY <1>1
<1>3. QED BY <1>2, Inductive, BooksKept, DefragComplete, PTL DEF FailureMeansNoRoom

-----------------------------------------------------------------------------
(* The statistics, when a single pool of whole pages is added.             *)

SinglePool ==
    /\ DOMAIN Pools = {1}
    /\ Pools[1].size = Extent(Pools[1]).size
    /\ Pools[1].size < SizeRange

(* What Accounting rests on: heap_size is the pool's size once it is added. *)
AccountsInv ==
    /\ heapSize = IF added = {} THEN 0 ELSE Pools[1].size
    /\ heapSize - outstanding = Cardinality(FreeBytes)
    /\ minimumHeapSize <= heapSize - outstanding

(* A stretch of memory has as many bytes as its size says.                 *)
LEMMA BytesOfCount ==
    ASSUME NEW b, b.start \in Nat, b.size \in Nat
    PROVE  IsFiniteSet(BytesOf(b)) /\ Cardinality(BytesOf(b)) = b.size
<1> DEFINE a == b.start
           n == b.size
           z == a + n - 1
<1>1. a \in Int /\ n \in Nat /\ z \in Int /\ BytesOf(b) = a .. z
      /\ z = a + n - 1
  BY DEF BytesOf
<1> HIDE DEF a, n, z
<1>2. /\ IsFiniteSet(a .. z)
      /\ Cardinality(a .. z) = IF a > z THEN 0 ELSE z - a + 1
  BY <1>1, FS_Interval
<1>3. (IF a > z THEN 0 ELSE z - a + 1) = n
  BY <1>1
<1>4. QED BY <1>1, <1>2, <1>3 DEF n

(* There are never more free bytes than the pool has.                      *)
LEMMA FreeBytesCount ==
    ASSUME SinglePool, IInv, BooksInv
    PROVE  /\ IsFiniteSet(FreeBytes)
           /\ Cardinality(FreeBytes) \in Nat
           /\ added = {} => FreeBytes = {}
           /\ LiveBytes \subseteq PoolBytes(1)
           /\ FreeBytes \subseteq PoolBytes(1)
           /\ Pools[1].size \in Nat
           /\ IsFiniteSet(PoolBytes(1))
           /\ Cardinality(PoolBytes(1)) = Pools[1].size
<1>1. added \subseteq {1} /\ 1 \in DOMAIN Pools
  BY DEF SinglePool, IInv, TypeOK
<1>2. FreeBytes \cup LiveBytes = UNION {PoolBytes(k) : k \in added}
  BY DEF BooksInv, Conservation
<1>3. UNION {PoolBytes(k) : k \in added} \subseteq PoolBytes(1)
  BY <1>1
<1>4. /\ FreeBytes \subseteq PoolBytes(1) /\ LiveBytes \subseteq PoolBytes(1)
      /\ added = {} => FreeBytes = {}
  BY <1>2, <1>3
<1>5. Extent(Pools[1]).start \in Nat /\ Extent(Pools[1]).size \in Nat
  BY <1>1, ExtentType
<1>6. /\ IsFiniteSet(PoolBytes(1)) /\ Pools[1].size \in Nat
      /\ Cardinality(PoolBytes(1)) = Pools[1].size
  BY <1>5, BytesOfCount DEF PoolBytes, SinglePool
<1>7. IsFiniteSet(FreeBytes)
  BY <1>4, <1>6, FS_Subset
<1>8. QED BY <1>4, <1>6, <1>7, FS_CardinalityType

(* Bytes given back, or taken, are counted once.                           *)
LEMMA CountTogether ==
    ASSUME NEW S, NEW T, IsFiniteSet(S), IsFiniteSet(T), S \cap T = {}
    PROVE  /\ IsFiniteSet(S \cup T)
           /\ Cardinality(S \cup T) = Cardinality(S) + Cardinality(T)
<1>1. Cardinality(S \cap T) = 0
  BY FS_EmptySet
<1>2. Cardinality(S \cup T) = Cardinality(S) + Cardinality(T) - Cardinality(S \cap T)
      /\ IsFiniteSet(S \cup T)
  BY FS_Union
<1>3. Cardinality(S) \in Nat /\ Cardinality(T) \in Nat
  BY FS_CardinalityType
<1>4. QED BY <1>1, <1>2, <1>3

(* microkit_dma_init counts the pool, once.                                *)
LEMMA DmaInitAccounts ==
    ASSUME SinglePool, IInv, BooksInv, AccountsInv, NEW k \in DOMAIN Pools,
           DmaInit(k)
    PROVE  AccountsInv'
<1>1. k = 1 /\ added = {} /\ added' = {1}
  BY DEF DmaInit, SinglePool, IInv, TypeOK
<1>2. /\ FreeBytes = {} /\ Pools[1].size \in Nat
      /\ Cardinality(PoolBytes(1)) = Pools[1].size
  BY <1>1, FreeBytesCount
<1>3. FreeBytes' = PoolBytes(1)
  BY <1>1, <1>2, DmaInitBytes
<1>4. outstanding = 0
  <2>1. heapSize = 0 /\ heapSize - outstanding = 0 /\ outstanding \in Nat
    BY <1>1, <1>2, FS_EmptySet DEF AccountsInv, IInv, TypeOK
  <2>2. QED BY <2>1
<1>5. PageCount(Pools[1]) * Rounded(Pools[1].page) \in Nat
  <2>1. PageCount(Pools[1]) \in Nat
    BY <1>1, ExtentType
  <2>2. Rounded(Pools[1].page) \in Nat
    BY <1>1, PoolSize, RoundedProps
  <2>3. QED BY <2>1, <2>2
<1>6. outstanding' = 0
  BY <1>1, <1>4, <1>5 DEF DmaInit, Deducted
<1>7. heapSize' = Pools[1].size /\ minimumHeapSize' = Pools[1].size
  BY <1>1 DEF DmaInit
<1>8. QED BY <1>1, <1>2, <1>3, <1>6, <1>7 DEF AccountsInv

(* microkit_dma_free counts the block back.                                *)
LEMMA DmaFreeAccounts ==
    ASSUME SinglePool, IInv, BooksInv, AccountsInv, NEW b \in live, DmaFree(b)
    PROVE  AccountsInv'
<1>1. /\ b.start \in Nat /\ b.size \in Nat /\ b.size # 0
      /\ b.size = Rounded(b.asked)
  BY BlockFields DEF IInv, TypeOK
<1>2. /\ outstanding' = Deducted(b.size) /\ added' = added
      /\ heapSize' = heapSize /\ minimumHeapSize' = minimumHeapSize
  BY <1>1 DEF DmaFree
<1>3. FreeBytes' = FreeBytes \cup BytesOf(b)
  BY DmaFreeBytes
<1>4. IsFiniteSet(BytesOf(b)) /\ Cardinality(BytesOf(b)) = b.size
  BY <1>1, BytesOfCount
<1>5. /\ IsFiniteSet(FreeBytes) /\ Cardinality(FreeBytes) \in Nat
      /\ LiveBytes \subseteq PoolBytes(1) /\ FreeBytes \subseteq PoolBytes(1)
      /\ added = {} => FreeBytes = {}
      /\ IsFiniteSet(PoolBytes(1)) /\ Pools[1].size \in Nat
      /\ Cardinality(PoolBytes(1)) = Pools[1].size
  BY FreeBytesCount
<1>6. FreeBytes \cap BytesOf(b) = {}
  <2>1. ASSUME NEW k \in DOMAIN list PROVE BytesOf(list[k]) \cap BytesOf(b) = {}
    <3>1. list[k].start \in Nat /\ list[k].size \in Nat
      BY UntouchedList, ElementOf, RegionFields
    <3>2. Apart(list[k], b)
      BY DEF IInv, Separation
    <3>3. QED BY <1>1, <3>1, <3>2, ApartDisjoint
  <2>2. QED BY <2>1 DEF FreeBytes
<1>7. /\ IsFiniteSet(FreeBytes')
      /\ Cardinality(FreeBytes') = Cardinality(FreeBytes) + b.size
  BY <1>3, <1>4, <1>5, <1>6, CountTogether
<1>8. Cardinality(FreeBytes') <= Pools[1].size
  <2>1. BytesOf(b) \subseteq LiveBytes
    BY DEF LiveBytes
  <2>2. FreeBytes' \in SUBSET PoolBytes(1)
    BY <1>3, <1>5, <2>1
  <2>3. QED BY <1>5, <2>2, FS_Subset
<1>9. heapSize = Pools[1].size
  <2>1. b.start \in LiveBytes
    BY <1>1 DEF LiveBytes, BytesOf
  <2>2. added # {}
    BY <2>1 DEF BooksInv, Conservation
  <2>3. QED BY <2>2 DEF AccountsInv
<1>10. /\ outstanding \in Nat /\ minimumHeapSize \in Nat
       /\ heapSize - outstanding = Cardinality(FreeBytes)
       /\ minimumHeapSize <= heapSize - outstanding
  BY DEF AccountsInv, IInv, TypeOK
<1>11. outstanding' = outstanding - b.size
  BY <1>1, <1>2, <1>5, <1>7, <1>8, <1>9, <1>10 DEF Deducted
<1>12. /\ heapSize' - outstanding' = Cardinality(FreeBytes')
       /\ minimumHeapSize' <= heapSize' - outstanding'
  BY <1>1, <1>2, <1>5, <1>7, <1>9, <1>10, <1>11
<1>13. QED BY <1>2, <1>12 DEF AccountsInv

(* A number in the range of a remainder is its own.                        *)
LEMMA ModSmall ==
    ASSUME NEW n \in Nat, NEW a \in Nat, n < a
    PROVE  n % a = n
OBVIOUS

(* A successful allocation counts the block off.                           *)
LEMMA AllocSucceedsAccounts ==
    ASSUME SinglePool, IInv, BooksInv, AccountsInv, AllocSucceeds
    PROVE  AccountsInv'
<1>1. PICK p \in DOMAIN list, leftover \in BOOLEAN, q \in Nat :
        LET b == [start |-> q, size |-> req.size, asked |-> req.asked]
        IN  /\ b \in Block
            /\ BytesOf(b) \subseteq FreeBytes
            /\ FreeBytes' = FreeBytes \ BytesOf(b)
  BY AllocSucceedsBlock, Zenon
<1> DEFINE b == [start |-> q, size |-> req.size, asked |-> req.asked]
<1>2. /\ b \in Block /\ b.size = req.size
      /\ BytesOf(b) \subseteq FreeBytes
      /\ FreeBytes' = FreeBytes \ BytesOf(b)
  BY <1>1
<1> HIDE DEF b
<1>3. b.start \in Nat /\ b.size \in Nat /\ b.size # 0
  BY <1>2, BlockFields
<1>4. IsFiniteSet(BytesOf(b)) /\ Cardinality(BytesOf(b)) = b.size
  BY <1>3, BytesOfCount
<1>5. /\ IsFiniteSet(FreeBytes) /\ Cardinality(FreeBytes) \in Nat
      /\ Pools[1].size \in Nat
  BY FreeBytesCount
<1>6. /\ IsFiniteSet(FreeBytes')
      /\ Cardinality(FreeBytes') \in Nat
      /\ Cardinality(FreeBytes) = Cardinality(FreeBytes') + b.size
  <2>1. IsFiniteSet(FreeBytes')
    BY <1>2, <1>5, FS_Subset
  <2>2. FreeBytes = FreeBytes' \cup BytesOf(b) /\ FreeBytes' \cap BytesOf(b) = {}
    BY <1>2
  <2>3. QED BY <1>4, <2>1, <2>2, CountTogether, FS_CardinalityType
<1>7. /\ outstanding' = outstanding + b.size
      /\ minimumHeapSize' =
            LET available == (heapSize - outstanding') % SizeRange
            IN  IF available < minimumHeapSize THEN available
                ELSE minimumHeapSize
      /\ added' = added /\ heapSize' = heapSize
  BY <1>2 DEF AllocSucceeds
<1>8. /\ outstanding \in Nat /\ minimumHeapSize \in Nat
      /\ heapSize - outstanding = Cardinality(FreeBytes)
      /\ minimumHeapSize <= heapSize - outstanding
      /\ heapSize \in Nat /\ heapSize <= Pools[1].size
      /\ Pools[1].size < SizeRange /\ SizeRange \in Nat
  BY <1>5, LayoutAssumption DEF AccountsInv, IInv, TypeOK, SinglePool
<1>9. heapSize - outstanding' = Cardinality(FreeBytes')
  <2> DEFINE before == Cardinality(FreeBytes)
             after  == Cardinality(FreeBytes')
  <2>1. /\ after \in Nat /\ before = after + b.size
        /\ heapSize - outstanding = before /\ heapSize \in Nat
        /\ outstanding \in Nat /\ b.size \in Nat
    BY <1>3, <1>6, <1>8
  <2> HIDE DEF before, after
  <2>2. heapSize - (outstanding + b.size) = after
    BY <2>1
  <2>3. QED BY <1>7, <2>2 DEF after
<1>10. (heapSize - outstanding') % SizeRange = heapSize - outstanding'
  <2> DEFINE n == Cardinality(FreeBytes')
  <2>1. n \in Nat /\ n < SizeRange
    BY <1>3, <1>5, <1>6, <1>7, <1>8, <1>9
  <2> HIDE DEF n
  <2>2. n % SizeRange = n
    BY <1>8, <2>1, ModSmall
  <2>3. QED BY <1>9, <2>2 DEF n
<1>11. minimumHeapSize' <= heapSize' - outstanding'
  BY <1>6, <1>7, <1>8, <1>9, <1>10
<1>12. QED BY <1>7, <1>9, <1>11 DEF AccountsInv

(* Other steps count nothing.                                              *)
LEMMA NextAccounts ==
    ASSUME SinglePool, IInv, BooksInv, AccountsInv, [Next]_vars
    PROVE  AccountsInv'
<1>1. ASSUME NEW k \in DOMAIN Pools, DmaInit(k) PROVE AccountsInv'
  BY <1>1, DmaInitAccounts
<1>2. ASSUME NEW b \in live, DmaFree(b) PROVE AccountsInv'
  BY <1>2, DmaFreeAccounts
<1>3. CASE AllocSucceeds
  BY <1>3, AllocSucceedsAccounts
<1>4. ASSUME FreeBytes' = FreeBytes, added' = added, UNCHANGED statistics
      PROVE  AccountsInv'
  BY <1>4 DEF AccountsInv, statistics
<1>5. ASSUME NEW q \in DOMAIN list, DefragCoalesce(q) PROVE AccountsInv'
  <2>1. added' = added /\ UNCHANGED statistics
    BY <1>5 DEF DefragCoalesce
  <2>2. QED BY <1>4, <1>5, <2>1, DefragCoalesceBytes
<1>6. CASE \/ DmaFreeNull
           \/ \E r \in Requests : DmaAlloc(r)
           \/ StartDefrag \/ AllocFails \/ DefragAdvance
           \/ UNCHANGED vars
  <2>1. UNCHANGED statistics
    BY <1>6 DEF DmaFreeNull, DmaAlloc, StartDefrag, AllocFails, DefragAdvance,
                vars, statistics
  <2>2. QED BY <1>4, <1>6, <2>1, OtherBytes
<1>7. QED BY <1>1, <1>2, <1>3, <1>5, <1>6, Zenon
          DEF Next, Continue, DefragStep

(* With one pool of whole pages the statistics are what dma_microkit.h:78  *)
(* says: heap_size - current_outstanding are the free bytes, counted byte  *)
(* by byte, and the low water mark is never above them.                    *)
THEOREM AccountsRight ==
    ASSUME SinglePool
    PROVE  Spec => []Accounting
<1>1. Init => AccountsInv
  <2> SUFFICES ASSUME Init PROVE AccountsInv
    OBVIOUS
  <2>1. FreeBytes = {}
    BY DEF Init, FreeBytes
  <2>2. QED BY <2>1, FS_EmptySet DEF Init, AccountsInv
<1>2. IInv /\ BooksInv /\ AccountsInv /\ [Next]_vars => AccountsInv'
  BY NextAccounts
<1>3. AccountsInv => Accounting
  BY DEF AccountsInv, Accounting
<1>4. QED BY <1>1, <1>2, <1>3, Inductive, BooksKept, PTL DEF Spec

=============================================================================
