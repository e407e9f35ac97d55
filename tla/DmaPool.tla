------------------------------- MODULE DmaPool -------------------------------
(***************************************************************************)
(* What a DMA allocator promises its clients (dma_microkit.h): memory is    *)
(* added in pools, every byte of it is at any moment either free or part of *)
(* exactly one block a client holds, a block is at least as long as the     *)
(* client asked, and a block that is returned becomes free again, all of    *)
(* it.  Nothing is said of the free list, of where a block is placed, or of *)
(* when a request may fail.                                                 *)
(***************************************************************************)
EXTENDS Integers

CONSTANT Pools      \* pool identifier -> the set of bytes of that pool

VARIABLES free,     \* the set of free bytes
          live,     \* the blocks clients hold: records [start, size, asked]
          added     \* the pools added so far

poolVars == <<free, live, added>>

BytesOf(b) == b.start .. (b.start + b.size - 1)

PoolInit == free = {} /\ live = {} /\ added = {}

AddPool(k) ==
    /\ k \notin added
    /\ added' = added \cup {k}
    /\ free' = free \cup Pools[k]
    /\ UNCHANGED live

(* The granted block is free beforehand and long enough.                    *)
Grant(b) ==
    /\ b.size >= b.asked
    /\ BytesOf(b) \subseteq free
    /\ free' = free \ BytesOf(b)
    /\ live' = live \cup {b}
    /\ UNCHANGED added

Release(b) ==
    /\ b \in live
    /\ live' = live \ {b}
    /\ free' = free \cup BytesOf(b)
    /\ UNCHANGED added

PoolNext ==
    \/ \E k \in DOMAIN Pools : AddPool(k)
    \/ \E b \in live' \ live : Grant(b)
    \/ \E b \in live : Release(b)

PoolSpec == PoolInit /\ [][PoolNext]_poolVars

=============================================================================
