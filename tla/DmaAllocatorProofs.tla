------------------------- MODULE DmaAllocatorProofs -------------------------
(***************************************************************************)
(* Theorems about the allocator of libmicrokitdma/src/dma.c, for every      *)
(* header layout, every set of pools and every set of requests.             *)
(***************************************************************************)
EXTENDS DmaAllocator, TLAPS

-----------------------------------------------------------------------------
(* Arithmetic.                                                             *)

(* A remainder is smaller than its divisor.                                *)
LEMMA ModRange ==
    ASSUME NEW n \in Nat, NEW a \in Nat \ {0}
    PROVE  n % a \in 0 .. a - 1
OBVIOUS

(* The remainder of a difference, too.                                     *)
LEMMA ModRangeInt ==
    ASSUME NEW n \in Int, NEW a \in Nat \ {0}
    PROVE  n % a \in Nat
OBVIOUS

(* Rounding up never rounds down, and leaves a multiple alone.             *)
LEMMA RoundUpProps ==
    ASSUME NEW n \in Nat, NEW a \in Nat \ {0}
    PROVE  /\ RoundUp(n, a) \in Nat
           /\ RoundUp(n, a) >= n
           /\ n % a = 0 => RoundUp(n, a) = n
BY ModRange DEF RoundUp

(* A request is granted at least a header, and at least what it asked for. *)
LEMMA RoundedProps ==
    ASSUME NEW n \in Nat
    PROVE  /\ Rounded(n) \in Nat
           /\ Rounded(n) >= n
           /\ Rounded(n) >= RegionSize
BY RoundUpProps, LayoutAssumption DEF Rounded, Larger

(* Later pages start behind the end of earlier ones.                       *)
LEMMA PagesApart ==
    ASSUME NEW m \in Nat, NEW n \in Nat, NEW s \in Nat, m < n
    PROVE  m * s + s <= n * s
<1>1. PICK d \in Nat : n = m + 1 + d
  BY n - m - 1 \in Nat
<1>2. n * s = (m + 1) * s + d * s
  BY <1>1
<1>3. d * s \in Nat
  OBVIOUS
<1>4. QED BY <1>2, <1>3

(* A looked-up frame number is a natural number.                           *)
LEMMA QuotientNat ==
    ASSUME NEW n \in Nat, NEW a \in Nat \ {0}
    PROVE  n \div a \in Nat
OBVIOUS

-----------------------------------------------------------------------------
(* The free list.                                                          *)

ListApart(l) == \A j, k \in DOMAIN l : j # k => Apart(l[j], l[k])

Inside(a, b) == b.start <= a.start /\ End(a) <= End(b)

(* The address and the length of a region.                                 *)
LEMMA RegionFields ==
    ASSUME NEW r \in Region
    PROVE  r.start \in Nat /\ r.size \in Nat /\ r.size > 0
BY DEF Region

(* What lies inside two things that are apart is apart.                    *)
LEMMA InsideApart ==
    ASSUME NEW a, NEW b, NEW c, NEW d,
           a.start \in Nat, a.size \in Nat, b.start \in Nat, b.size \in Nat,
           c.start \in Nat, c.size \in Nat, d.start \in Nat, d.size \in Nat,
           Inside(a, b), Inside(c, d), Apart(b, d)
    PROVE  Apart(a, c)
BY DEF Inside, Apart, End

(* An element of a sequence.                                               *)
LEMMA ElementOf ==
    ASSUME NEW S, NEW l \in Seq(S), NEW k \in DOMAIN l
    PROVE  l[k] \in S
OBVIOUS

(* The length of a concatenation.                                          *)
LEMMA ConcatProps ==
    ASSUME NEW S, NEW s \in Seq(S), NEW t \in Seq(S)
    PROVE  s \o t \in Seq(S) /\ Len(s \o t) = Len(s) + Len(t)
OBVIOUS

(* The elements of a concatenation.                                        *)
LEMMA ConcatElement ==
    ASSUME NEW S, NEW s \in Seq(S), NEW t \in Seq(S),
           NEW k \in 1 .. Len(s) + Len(t)
    PROVE  (s \o t)[k] = IF k <= Len(s) THEN s[k] ELSE t[k - Len(s)]
OBVIOUS

(* Taking one element out closes the gap.                                  *)
LEMMA RemoveAtProps ==
    ASSUME NEW S, NEW l \in Seq(S), NEW i \in 1 .. Len(l)
    PROVE  /\ RemoveAt(l, i) \in Seq(S)
           /\ Len(RemoveAt(l, i)) = Len(l) - 1
           /\ \A k \in 1 .. Len(l) - 1 :
                RemoveAt(l, i)[k] = IF k < i THEN l[k] ELSE l[k + 1]
<1>1. /\ SubSeq(l, 1, i - 1) \in Seq(S)
      /\ Len(SubSeq(l, 1, i - 1)) = i - 1
      /\ \A k \in 1 .. i - 1 : SubSeq(l, 1, i - 1)[k] = l[k]
  OBVIOUS
<1>2. /\ SubSeq(l, i + 1, Len(l)) \in Seq(S)
      /\ Len(SubSeq(l, i + 1, Len(l))) = Len(l) - i
      /\ \A k \in 1 .. Len(l) - i : SubSeq(l, i + 1, Len(l))[k] = l[k + i]
  OBVIOUS
<1>3. RemoveAt(l, i) = SubSeq(l, 1, i - 1) \o SubSeq(l, i + 1, Len(l))
  BY DEF RemoveAt
<1>4. \E A, B \in Seq(S) :
        /\ RemoveAt(l, i) = A \o B
        /\ Len(A) = i - 1 /\ \A k \in 1 .. i - 1 : A[k] = l[k]
        /\ Len(B) = Len(l) - i /\ \A k \in 1 .. Len(l) - i : B[k] = l[k + i]
  BY <1>1, <1>2, <1>3, Zenon
<1>5. PICK A, B \in Seq(S) :
        /\ RemoveAt(l, i) = A \o B
        /\ Len(A) = i - 1 /\ \A k \in 1 .. i - 1 : A[k] = l[k]
        /\ Len(B) = Len(l) - i /\ \A k \in 1 .. Len(l) - i : B[k] = l[k + i]
  BY <1>4, Zenon
<1>6. A \o B \in Seq(S) /\ Len(A \o B) = Len(l) - 1
  <2>1. A \o B \in Seq(S) /\ Len(A \o B) = Len(A) + Len(B)
    BY ConcatProps
  <2>2. QED BY <1>5, <2>1
<1>7. ASSUME NEW k \in 1 .. Len(l) - 1
      PROVE (A \o B)[k] = IF k < i THEN l[k] ELSE l[k + 1]
  <2>0. k \in 1 .. Len(A) + Len(B)
    BY <1>5
  <2>1. (A \o B)[k] = IF k <= Len(A) THEN A[k] ELSE B[k - Len(A)]
    BY <2>0, ConcatElement
  <2>2. CASE k < i
    BY <1>5, <2>1, <2>2
  <2>3. CASE ~(k < i)
    <3>1. k - Len(A) \in 1 .. Len(l) - i
      BY <1>5, <2>3
    <3>2. B[k - Len(A)] = l[(k - Len(A)) + i]
      BY <1>5, <3>1
    <3>3. (k - Len(A)) + i = k + 1
      BY <1>5
    <3>4. ~(k <= Len(A)) /\ ~(k < i)
      BY <1>5, <2>3
    <3>5. QED BY <2>1, <3>2, <3>3, <3>4
  <2>4. QED BY <2>2, <2>3, Zenon
<1>8. QED BY <1>5, <1>6, <1>7, Zenon

(* The address a header remembers is a natural number.                     *)
LEMMA TryExtractNat ==
    ASSUME NEW r \in Region
    PROVE  TryExtract(r) \in Nat
<1>1. r.upper \in Nat /\ r.start % FrameSize \in Nat
  BY ModRange, LayoutAssumption DEF Region
<1>2. r.upper * FrameSize \in Nat
  BY <1>1, LayoutAssumption
<1>3. QED BY <1>1, <1>2 DEF TryExtract

(* Looking an address up moves no region.                                  *)
LEMMA ExtractProps ==
    ASSUME NEW r \in Region
    PROVE  /\ Extract(r) \in Region
           /\ Extract(r).start = r.start
           /\ Extract(r).size = r.size
<1>1. PaddrOf(r.start) \div FrameSize \in Nat
  BY QuotientNat, LayoutAssumption DEF PaddrOf, Region
<1>2. QED BY <1>1 DEF Extract, Region

(* Nor does check_consistency().                                           *)
LEMMA LookedUpProps ==
    ASSUME NEW l \in Seq(Region)
    PROVE  /\ LookedUp(l) \in Seq(Region)
           /\ DOMAIN LookedUp(l) = DOMAIN l
           /\ \A k \in DOMAIN l : /\ LookedUp(l)[k].start = l[k].start
                                  /\ LookedUp(l)[k].size = l[k].size
<1>1. \A k \in 1 .. Len(l) : l[k] \in Region
  OBVIOUS
<1>2. \A k \in 1 .. Len(l) : Extract(l[k]) \in Region
  BY <1>1, ExtractProps
<1>3. LookedUp(l) \in Seq(Region)
  BY <1>2 DEF LookedUp
<1>4. QED BY <1>1, <1>3, ExtractProps DEF LookedUp

-----------------------------------------------------------------------------
(* What the operations on the list do to the memory it covers.             *)

(* Every region of l is clear of x.                                        *)
ClearOf(l, x) == \A k \in DOMAIN l : Apart(l[k], x)

(* Looking addresses up.                                                   *)
LEMMA LookedUpApart ==
    ASSUME NEW l \in Seq(Region)
    PROVE  /\ ListApart(l) => ListApart(LookedUp(l))
           /\ \A x : ClearOf(l, x) => ClearOf(LookedUp(l), x)
BY LookedUpProps DEF ListApart, ClearOf, Apart, End

(* Two lists that are clear of one another, put together.                  *)
LEMMA ConcatApart ==
    ASSUME NEW s \in Seq(Region), NEW t \in Seq(Region),
           ListApart(s), ListApart(t),
           \A j \in DOMAIN s, k \in DOMAIN t : Apart(s[j], t[k])
    PROVE  /\ ListApart(s \o t)
           /\ \A x : ClearOf(s, x) /\ ClearOf(t, x) => ClearOf(s \o t, x)
<1>1. /\ s \o t \in Seq(Region)
      /\ DOMAIN (s \o t) = 1 .. Len(s) + Len(t)
      /\ DOMAIN s = 1 .. Len(s) /\ DOMAIN t = 1 .. Len(t)
  BY ConcatProps
<1>2. \A k \in DOMAIN (s \o t) :
        \/ k \in DOMAIN s /\ (s \o t)[k] = s[k]
        \/ k - Len(s) \in DOMAIN t /\ (s \o t)[k] = t[k - Len(s)]
  <2> TAKE k \in DOMAIN (s \o t)
  <2>1. (s \o t)[k] = IF k <= Len(s) THEN s[k] ELSE t[k - Len(s)]
    BY <1>1, ConcatElement
  <2>2. CASE k <= Len(s)
    BY <1>1, <2>1, <2>2
  <2>3. CASE ~(k <= Len(s))
    BY <1>1, <2>1, <2>3
  <2>4. QED BY <2>2, <2>3, Zenon
<1>3. ASSUME NEW j \in DOMAIN (s \o t), NEW k \in DOMAIN (s \o t), j # k
      PROVE  Apart((s \o t)[j], (s \o t)[k])
  <2>1. \A a, b : Apart(a, b) => Apart(b, a)
    BY DEF Apart
  <2>2. CASE /\ j \in DOMAIN s /\ (s \o t)[j] = s[j]
             /\ k \in DOMAIN s /\ (s \o t)[k] = s[k]
    BY <1>3, <2>2, Zenon DEF ListApart
  <2>3. CASE /\ j \in DOMAIN s /\ (s \o t)[j] = s[j]
             /\ k - Len(s) \in DOMAIN t /\ (s \o t)[k] = t[k - Len(s)]
    BY <2>3, Zenon
  <2>4. CASE /\ j - Len(s) \in DOMAIN t /\ (s \o t)[j] = t[j - Len(s)]
             /\ k \in DOMAIN s /\ (s \o t)[k] = s[k]
    BY <2>1, <2>4, Zenon
  <2>5. CASE /\ j - Len(s) \in DOMAIN t /\ (s \o t)[j] = t[j - Len(s)]
             /\ k - Len(s) \in DOMAIN t /\ (s \o t)[k] = t[k - Len(s)]
    <3>1. j - Len(s) # k - Len(s)
      BY <1>1, <1>3
    <3>2. QED BY <2>5, <3>1, Zenon DEF ListApart
  <2>6. QED BY <1>2, <2>2, <2>3, <2>4, <2>5, Zenon
<1>4. ListApart(s \o t)
  BY <1>3, Zenon DEF ListApart
<1>5. \A x : ClearOf(s, x) /\ ClearOf(t, x) => ClearOf(s \o t, x)
  BY <1>2, Zenon DEF ClearOf
<1>6. QED BY <1>4, <1>5

(* Putting one region in front.                                            *)
LEMMA PrependApart ==
    ASSUME NEW r \in Region, NEW l \in Seq(Region),
           ListApart(l), ClearOf(l, r)
    PROVE  /\ <<r>> \o l \in Seq(Region)
           /\ ListApart(<<r>> \o l)
           /\ \A x : Apart(r, x) /\ ClearOf(l, x) => ClearOf(<<r>> \o l, x)
<1>1. <<r>> \in Seq(Region) /\ DOMAIN <<r>> = {1} /\ <<r>>[1] = r
  OBVIOUS
<1>2. ListApart(<<r>>) /\ \A x : Apart(r, x) => ClearOf(<<r>>, x)
  BY <1>1, Zenon DEF ListApart, ClearOf
<1>3. \A j \in DOMAIN <<r>>, k \in DOMAIN l : Apart(<<r>>[j], l[k])
  BY <1>1 DEF ClearOf, Apart
<1>4. QED BY <1>1, <1>2, <1>3, ConcatApart, ConcatProps

(* Dropping one.                                                           *)
LEMMA RemoveApart ==
    ASSUME NEW l \in Seq(Region), NEW i \in DOMAIN l,
           \A j, k \in DOMAIN l \ {i} : j # k => Apart(l[j], l[k])
    PROVE  /\ RemoveAt(l, i) \in Seq(Region)
           /\ ListApart(RemoveAt(l, i))
           /\ \A x : (\A k \in DOMAIN l : k # i => Apart(l[k], x))
                        => ClearOf(RemoveAt(l, i), x)
<1>1. /\ RemoveAt(l, i) \in Seq(Region)
      /\ DOMAIN RemoveAt(l, i) = 1 .. Len(l) - 1
      /\ DOMAIN l = 1 .. Len(l)
      /\ \A k \in 1 .. Len(l) - 1 :
            RemoveAt(l, i)[k] = IF k < i THEN l[k] ELSE l[k + 1]
  BY RemoveAtProps
<1>2. ASSUME NEW j \in 1 .. Len(l) - 1, NEW k \in 1 .. Len(l) - 1, j # k
      PROVE  Apart(RemoveAt(l, i)[j], RemoveAt(l, i)[k])
  <2> DEFINE old(n) == IF n < i THEN n ELSE n + 1
  <2>1. /\ old(j) \in DOMAIN l \ {i} /\ old(k) \in DOMAIN l \ {i}
        /\ old(j) # old(k)
    BY <1>1, <1>2
  <2>2. RemoveAt(l, i)[j] = l[old(j)] /\ RemoveAt(l, i)[k] = l[old(k)]
    BY <1>1
  <2> HIDE DEF old
  <2>3. QED BY <2>1, <2>2, Zenon
<1>3. ASSUME NEW x, \A k \in DOMAIN l : k # i => Apart(l[k], x),
             NEW k \in 1 .. Len(l) - 1
      PROVE  Apart(RemoveAt(l, i)[k], x)
  <2>1. CASE k < i
    BY <1>1, <1>3, <2>1
  <2>2. CASE ~(k < i)
    BY <1>1, <1>3, <2>2
  <2>3. QED BY <2>1, <2>2, Zenon
<1>4. QED BY <1>1, <1>2, <1>3, Zenon DEF ListApart, ClearOf

(* Replacing a region by a part of it.                                     *)
LEMMA ShrinkApart ==
    ASSUME NEW l \in Seq(Region), NEW k \in DOMAIN l, NEW r \in Region,
           ListApart(l), Inside(r, l[k])
    PROVE  /\ [l EXCEPT ![k] = r] \in Seq(Region)
           /\ ListApart([l EXCEPT ![k] = r])
           /\ \A x : x.start \in Nat /\ x.size \in Nat /\ ClearOf(l, x)
                        => ClearOf([l EXCEPT ![k] = r], x)
<1> DEFINE m == [l EXCEPT ![k] = r]
<1>1. /\ m \in Seq(Region)
      /\ DOMAIN m = DOMAIN l
      /\ m[k] = r
      /\ \A j \in DOMAIN l : l[j] \in Region
      /\ \A j \in DOMAIN l : j # k => m[j] = l[j]
  OBVIOUS
<1> HIDE DEF m
<1>2. ASSUME NEW j \in DOMAIN l
      PROVE  /\ m[j] \in Region /\ Inside(m[j], l[j])
             /\ m[j].start \in Nat /\ m[j].size \in Nat
             /\ l[j].start \in Nat /\ l[j].size \in Nat
  <2>1. Inside(l[j], l[j])
    BY <1>1, RegionFields DEF Inside, End
  <2>2. m[j] \in Region /\ Inside(m[j], l[j])
    BY <1>1, <2>1
  <2>3. QED BY <1>1, <2>2, RegionFields
<1>3. ASSUME NEW j \in DOMAIN l, NEW x,
             x.start \in Nat, x.size \in Nat, Apart(l[j], x)
      PROVE  Apart(m[j], x)
  <2>1. Inside(x, x)
    BY <1>3 DEF Inside, End
  <2>2. QED BY <1>2, <1>3, <2>1, InsideApart
<1>4. ASSUME NEW i \in DOMAIN l, NEW j \in DOMAIN l, i # j
      PROVE  Apart(m[i], m[j])
  <2>1. Apart(l[i], l[j])
    BY <1>4 DEF ListApart
  <2>2. QED BY <1>2, <2>1, InsideApart
<1>5. ListApart(m)
  BY <1>1, <1>4, Zenon DEF ListApart
<1>6. \A x : x.start \in Nat /\ x.size \in Nat /\ ClearOf(l, x) => ClearOf(m, x)
  BY <1>1, <1>3, Zenon DEF ClearOf
<1>7. QED BY <1>1, <1>5, <1>6 DEF m

(* A region with another length.                                           *)
LEMMA ResizedProps ==
    ASSUME NEW r \in Region, NEW n \in Nat, n > 0
    PROVE  /\ [r EXCEPT !.size = n] \in Region
           /\ [r EXCEPT !.size = n].start = r.start
           /\ [r EXCEPT !.size = n].size = n
BY DEF Region

(* The part of a region that begins `offset` bytes into it.                *)
LEMMA CarvedProps ==
    ASSUME NEW r \in Region, NEW offset \in Nat, offset < r.size,
           NEW leftover \in BOOLEAN
    PROVE  /\ Carved(r, offset, leftover) \in Region
           /\ Carved(r, offset, leftover).start = r.start + offset
           /\ Carved(r, offset, leftover).size = r.size - offset
<1>1. TryExtract(r) \in Nat
  BY TryExtractNat
<1>2. (TryExtract(r) + offset) \div FrameSize \in Nat
  BY <1>1, QuotientNat, LayoutAssumption
<1>3. r.start \in Nat /\ r.size \in Nat
  BY DEF Region
<1>4. r.size - offset \in Nat \ {0}
  BY <1>3
<1>5. (IF TryExtract(r) = 0 THEN 0 ELSE (TryExtract(r) + offset) \div FrameSize)
         \in Nat
  BY <1>2
<1> DEFINE u == IF TryExtract(r) = 0 THEN 0
                ELSE (TryExtract(r) + offset) \div FrameSize
<1>6. u \in Nat
  BY <1>5
<1> HIDE DEF u
<1>7. Carved(r, offset, leftover) =
        [start |-> r.start + offset, size |-> r.size - offset,
         cached |-> leftover, upper |-> u]
  BY Zenon DEF Carved, u
<1>8. QED BY <1>3, <1>4, <1>6, <1>7 DEF Region

(* Cutting a block out of a region leaves a list that is clear of the      *)
(* block and of everything the list was clear of.                          *)
LEMMA CutOutApart ==
    ASSUME list \in Seq(Region), ListApart(list),
           NEW p \in DOMAIN list, NEW q \in Nat, NEW leftover \in BOOLEAN,
           req.size \in Nat \ {0},
           list[p].start <= q, q + req.size <= End(list[p])
    PROVE  LET m == CutOut(p, q, leftover)
               b == [start |-> q, size |-> req.size, asked |-> req.asked]
           IN  /\ m \in Seq(Region)
               /\ ListApart(m)
               /\ ClearOf(m, b)
               /\ \A x : x.start \in Nat /\ x.size \in Nat /\ ClearOf(list, x)
                            => ClearOf(m, x) /\ Apart(b, x)
<1> DEFINE r    == list[p]
           rest == Carved(r, q + req.size - r.start, leftover)
           b    == [start |-> q, size |-> req.size, asked |-> req.asked]
           m    == CutOut(p, q, leftover)
<1>0. \A k \in DOMAIN list : list[k] \in Region
  OBVIOUS
<1>1. r \in Region /\ r.start \in Nat /\ r.size \in Nat
  BY <1>0, RegionFields
<1>a. r.start <= q /\ q + req.size <= r.start + r.size
  BY DEF End
<1>2. b.start = q /\ b.size = req.size
  OBVIOUS
<1> HIDE DEF b
<1>b. Inside(b, r)
  BY <1>a, <1>2 DEF Inside, End
<1>3. \A x : x.start \in Nat /\ x.size \in Nat /\ ClearOf(list, x) => Apart(b, x)
  <2> SUFFICES ASSUME NEW x, x.start \in Nat, x.size \in Nat, ClearOf(list, x)
               PROVE  Apart(b, x)
    OBVIOUS
  <2>1. Apart(r, x)
    BY DEF ClearOf
  <2>2. x.start + x.size \in Nat /\ Inside(x, x)
    BY DEF Inside, End
  <2> HIDE DEF r
  <2>3. QED BY <1>1, <1>2, <1>b, <2>1, <2>2, InsideApart
<1>4. ASSUME NEW k \in DOMAIN list, k # p
      PROVE  Apart(list[k], b)
  <2>1. Apart(list[k], r)
    BY <1>4 DEF ListApart
  <2>2. list[k].start \in Nat /\ list[k].size \in Nat
    BY <1>0, RegionFields
  <2>3. Inside(list[k], list[k])
    BY <2>2 DEF Inside, End
  <2>4. QED BY <1>1, <1>2, <1>b, <2>1, <2>2, <2>3, InsideApart
<1>5. CASE q = r.start /\ r.size = req.size
  <2>1. m = RemoveAt(list, p)
    BY <1>5 DEF CutOut
  <2>2. \A x : ClearOf(list, x) => ClearOf(m, x)
    BY <2>1, RemoveApart DEF ClearOf, ListApart
  <2>3. \A j, k \in DOMAIN list \ {p} : j # k => Apart(list[j], list[k])
    BY Zenon DEF ListApart
  <2>4. QED BY <2>1, <2>2, <2>3, <1>3, <1>4, RemoveApart DEF b
<1>6. CASE q + req.size # End(r)
  <2>1. /\ q + req.size - r.start \in Nat
        /\ q + req.size - r.start < r.size
    <3>1. q + req.size # r.start + r.size
      BY <1>6 DEF End
    <3>2. r.start <= q + req.size
      BY <1>1, <1>a
    <3>3. q + req.size < r.start + r.size
      BY <1>1, <1>a, <3>1
    <3>4. QED BY <1>1, <3>2, <3>3
  <2>2. /\ rest \in Region
        /\ rest.start = q + req.size
        /\ End(rest) = End(r)
    <3>1. /\ rest \in Region
          /\ rest.start = r.start + (q + req.size - r.start)
          /\ rest.size = r.size - (q + req.size - r.start)
      BY <1>1, <2>1, CarvedProps
    <3> HIDE DEF rest
    <3>2. QED BY <1>1, <3>1 DEF End
  <2> HIDE DEF rest
  <2>3. Inside(rest, r)
    BY <1>1, <2>2 DEF Inside, End
  <2>4. CASE q = r.start
    <3>1. m = [list EXCEPT ![p] = rest]
      BY <1>6, <1>1, <2>4 DEF CutOut, End, rest
    <3>2. /\ m \in Seq(Region) /\ ListApart(m)
          /\ \A x : x.start \in Nat /\ x.size \in Nat /\ ClearOf(list, x)
                       => ClearOf(m, x)
      <4>1. rest \in Region /\ Inside(rest, list[p])
        BY <2>2, <2>3
      <4> HIDE DEF m
      <4>2. QED BY <3>1, <4>1, ShrinkApart
    <3>3. Apart(rest, b)
      BY <1>2, <2>2 DEF Apart, End
    <3>4. ClearOf(m, b)
      BY <3>1, <3>3, <1>4 DEF ClearOf
    <3>5. QED BY <3>2, <3>4, <1>3 DEF b
  <2>5. CASE q # r.start
    <3> DEFINE s    == [r EXCEPT !.size = q - r.start]
               kept == [list EXCEPT ![p] = s]
    <3>1. /\ s \in Region /\ Inside(s, r) /\ s.start = r.start
          /\ s.size = q - r.start
      <4>1. q - r.start \in Nat /\ q - r.start > 0
        BY <1>1, <1>a, <2>5
      <4>2. s \in Region /\ s.start = r.start /\ s.size = q - r.start
        BY <1>1, <4>1, ResizedProps
      <4> HIDE DEF s
      <4>3. QED BY <1>1, <1>a, <4>2 DEF Inside, End
    <3>2. m = <<rest>> \o kept
      BY <1>6, <2>5 DEF CutOut, rest
    <3> HIDE DEF s
    <3>3. /\ kept \in Seq(Region) /\ ListApart(kept)
          /\ \A x : x.start \in Nat /\ x.size \in Nat /\ ClearOf(list, x)
                       => ClearOf(kept, x)
      BY <3>1, ShrinkApart
    <3>4. DOMAIN kept = DOMAIN list /\ kept[p] = s
          /\ \A k \in DOMAIN list : k # p => kept[k] = list[k]
      BY <3>1
    <3> HIDE DEF kept
    <3>5. ASSUME NEW k \in DOMAIN list, k # p
          PROVE  Apart(list[k], rest)
      <4>1. Apart(list[k], r)
        BY <3>5 DEF ListApart
      <4>2. list[k].start \in Nat /\ list[k].size \in Nat
        BY <1>0, RegionFields
      <4>3. Inside(list[k], list[k])
        BY <4>2 DEF Inside, End
      <4>a. rest.start \in Nat /\ rest.size \in Nat
        BY <2>2, RegionFields
      <4>4. QED BY <4>a, <1>1, <2>3, <4>1, <4>2, <4>3, InsideApart
    <3>6. Apart(s, rest) /\ Apart(s, b) /\ Apart(rest, b)
      BY <1>1, <1>2, <2>2, <3>1 DEF Apart, End
    <3>7. ClearOf(kept, rest) /\ ClearOf(kept, b)
      BY <3>4, <3>5, <3>6, <1>4, Zenon DEF ClearOf
    <3>8. /\ m \in Seq(Region) /\ ListApart(m)
          /\ \A x : Apart(rest, x) /\ ClearOf(kept, x) => ClearOf(m, x)
      BY <2>2, <3>2, <3>3, <3>7, PrependApart
    <3>9. ASSUME NEW x, x.start \in Nat, x.size \in Nat, ClearOf(list, x)
          PROVE  Apart(rest, x)
      <4>1. Inside(x, x) /\ Apart(r, x)
        BY <3>9 DEF Inside, End, ClearOf
      <4>2. rest.start \in Nat /\ rest.size \in Nat
        BY <2>2, RegionFields
      <4>3. QED BY <1>1, <2>3, <3>9, <4>1, <4>2, InsideApart
    <3>10. ClearOf(m, b)
      BY <3>6, <3>7, <3>8, Zenon
    <3>11. QED BY <1>3, <3>3, <3>8, <3>9, <3>10 DEF b
  <2>6. QED BY <2>4, <2>5
<1>7. CASE q # r.start /\ q + req.size = End(r)
  <2> DEFINE s == [r EXCEPT !.size = q - r.start]
  <2>1. /\ s \in Region /\ Inside(s, r) /\ s.start = r.start
        /\ s.size = q - r.start
    <3>1. q - r.start \in Nat /\ q - r.start > 0
      BY <1>1, <1>a, <1>7
    <3>2. s \in Region /\ s.start = r.start /\ s.size = q - r.start
      BY <1>1, <3>1, ResizedProps
    <3> HIDE DEF s
    <3>3. QED BY <1>1, <1>a, <3>2 DEF Inside, End
  <2>2. m = [list EXCEPT ![p] = s]
    BY <1>7 DEF CutOut
  <2> HIDE DEF s
  <2>3. /\ m \in Seq(Region) /\ ListApart(m)
        /\ \A x : x.start \in Nat /\ x.size \in Nat /\ ClearOf(list, x)
                     => ClearOf(m, x)
    <3>1. s \in Region /\ Inside(s, list[p])
      BY <2>1
    <3> HIDE DEF m
    <3>2. QED BY <2>2, <3>1, ShrinkApart
  <2>4. Apart(s, b)
    BY <1>1, <1>2, <2>1 DEF Apart, End
  <2>5. ClearOf(m, b)
    BY <2>1, <2>2, <2>4, <1>4 DEF ClearOf
  <2>6. QED BY <2>3, <2>5, <1>3 DEF b
<1>8. q = r.start /\ q + req.size = End(r) => r.size = req.size
  BY <1>1 DEF End
<1>9. QED BY <1>5, <1>6, <1>7, <1>8

(* What is apart from two adjacent stretches is apart from both together.  *)
LEMMA TogetherApart ==
    ASSUME NEW a, NEW b, NEW c, NEW x,
           a.start \in Nat, a.size \in Nat, b.size \in Nat,
           b.start = a.start + a.size,
           c.start = a.start, c.size = a.size + b.size,
           x.start \in Nat, x.size \in Nat, x.size # 0,
           Apart(a, x), Apart(b, x)
    PROVE  Apart(c, x) /\ Apart(x, c)
<1>1. \/ x.start + x.size <= a.start
      \/ /\ a.start + a.size <= x.start
         /\ \/ b.start + b.size <= x.start
            \/ x.start + x.size <= b.start
  BY DEF Apart, End
<1>2. \/ x.start + x.size <= a.start
      \/ a.start + (a.size + b.size) <= x.start
  BY <1>1
<1>3. QED BY <1>2 DEF Apart, End

(* Coalescing region i into the region j it follows leaves the list clear  *)
(* of everything (but empty stretches) it was clear of.                    *)
LEMMA CoalesceApart ==
    ASSUME NEW l \in Seq(Region), NEW i \in DOMAIN l, NEW j \in DOMAIN l,
           i # j, ListApart(l), l[i].start = End(l[j]),
           NEW m, m = RemoveAt(Grown(l, j, l[i].size), i)
    PROVE  /\ m \in Seq(Region)
           /\ ListApart(m)
           /\ \A x : (x.start \in Nat /\ x.size \in Nat /\ x.size # 0 /\ ClearOf(l, x))
                        => ClearOf(m, x)
<1> DEFINE both == [l[j] EXCEPT !.size = l[j].size + l[i].size]
           g    == Grown(l, j, l[i].size)
<1>1. \A k \in DOMAIN l :
        l[k] \in Region /\ l[k].start \in Nat /\ l[k].size \in Nat /\ l[k].size > 0
  BY RegionFields
<1>2. /\ both \in Region /\ both.start = l[j].start
      /\ both.size = l[j].size + l[i].size
  <2>1. /\ l[j].size + l[i].size \in Nat /\ l[j].size + l[i].size > 0
        /\ l[j] \in Region
    BY <1>1
  <2>2. QED BY <2>1, ResizedProps, Zenon
<1>3. g = [l EXCEPT ![j] = both] /\ m = RemoveAt(g, i)
  BY DEF Grown
<1> HIDE DEF both
<1>4. /\ g \in Seq(Region) /\ DOMAIN g = DOMAIN l /\ g[j] = both
      /\ \A k \in DOMAIN l : k # j => g[k] = l[k]
  BY <1>2, <1>3
<1> HIDE DEF g
<1>5. ASSUME NEW x, x.start \in Nat, x.size \in Nat, x.size # 0,
             Apart(l[i], x), Apart(l[j], x)
      PROVE  Apart(both, x) /\ Apart(x, both)
  <2>1. /\ l[i].start = l[j].start + l[j].size
        /\ l[i].start \in Nat /\ l[i].size \in Nat
        /\ l[j].start \in Nat /\ l[j].size \in Nat
    BY <1>1 DEF End
  <2>2. QED BY <1>2, <1>5, <2>1, TogetherApart
<1>6. ASSUME NEW a \in DOMAIN l \ {i}, NEW b \in DOMAIN l \ {i}, a # b
      PROVE  Apart(g[a], g[b])
  <2>1. /\ Apart(l[a], l[b])
        /\ Apart(l[i], l[a]) /\ Apart(l[i], l[b])
        /\ Apart(l[j], l[a]) \/ a = j
        /\ Apart(l[j], l[b]) \/ b = j
    BY <1>6, Zenon DEF ListApart
  <2>2. CASE a # j /\ b # j
    BY <1>4, <2>1, <2>2, Zenon
  <2>3. CASE a = j
    BY <1>1, <1>4, <1>5, <1>6, <2>1, <2>3
  <2>4. CASE b = j
    BY <1>1, <1>4, <1>5, <1>6, <2>1, <2>4
  <2>5. QED BY <2>2, <2>3, <2>4, Zenon
<1>7. ASSUME NEW x, x.start \in Nat, x.size \in Nat, x.size # 0, ClearOf(l, x)
      PROVE  \A k \in DOMAIN g : k # i => Apart(g[k], x)
  <2>1. Apart(both, x)
    BY <1>5, <1>7, Zenon DEF ClearOf
  <2>2. QED BY <1>4, <1>7, <2>1, Zenon DEF ClearOf
<1>8. \A a, b \in DOMAIN g \ {i} : a # b => Apart(g[a], g[b])
  BY <1>4, <1>6, Zenon
<1>9. /\ m \in Seq(Region)
      /\ ListApart(m)
      /\ \A x : (\A k \in DOMAIN g : k # i => Apart(g[k], x))
                   => ClearOf(m, x)
  <2>1. /\ RemoveAt(g, i) \in Seq(Region)
        /\ ListApart(RemoveAt(g, i))
        /\ \A x : (\A k \in DOMAIN g : k # i => Apart(g[k], x))
                     => ClearOf(RemoveAt(g, i), x)
    BY <1>4, <1>8, RemoveApart
  <2>2. QED BY <1>3, <2>1, Zenon
<1>10. ASSUME NEW x, x.start \in Nat, x.size \in Nat, x.size # 0, ClearOf(l, x)
       PROVE  ClearOf(m, x)
  BY <1>7, <1>9, <1>10
<1>11. \A x : (x.start \in Nat /\ x.size \in Nat /\ x.size # 0 /\ ClearOf(l, x))
                 => ClearOf(m, x)
  BY <1>10, Zenon
<1>12. QED BY <1>9, <1>11, Zenon

(* The size of a pool and of its pages.                                    *)
LEMMA PoolSize ==
    ASSUME NEW k \in DOMAIN Pools
    PROVE  Pools[k].size \in Nat /\ Pools[k].page \in Nat
<1>1. Pools[k] \in [base : Nat, size : Nat, page : Nat \ {0}, cached : BOOLEAN]
  BY PoolsAssumption, ElementOf, Zenon
<1>2. QED BY <1>1

(* The extent of a pool is a stretch of memory.                            *)
LEMMA ExtentType ==
    ASSUME NEW k \in DOMAIN Pools
    PROVE  /\ PageCount(Pools[k]) \in Nat
           /\ Extent(Pools[k]).start \in Nat
           /\ Extent(Pools[k]).size \in Nat
<1>1. Pools[k] \in [base : Nat, size : Nat, page : Nat \ {0}, cached : BOOLEAN]
  BY PoolsAssumption, ElementOf, Zenon
<1>2. /\ Pools[k].base \in Nat /\ Pools[k].size \in Nat
      /\ Pools[k].page \in Nat \ {0}
  BY <1>1
<1>3. PageCount(Pools[k]) \in Nat
  BY <1>2, QuotientNat DEF PageCount
<1>4. PageCount(Pools[k]) * Pools[k].page \in Nat
  BY <1>2, <1>3
<1>5. QED BY <1>2, <1>3, <1>4, Zenon DEF Extent

(* The pages of a pool are regions of its extent that do not overlap.      *)
LEMMA PagesProps ==
    ASSUME NEW k \in DOMAIN Pools, ValidPool(Pools[k])
    PROVE  /\ Pages(Pools[k]) \in Seq(Region)
           /\ ListApart(Pages(Pools[k]))
           /\ \A n \in DOMAIN Pages(Pools[k]) :
                /\ Inside(Pages(Pools[k])[n], Extent(Pools[k]))
                /\ Extent(Pools[k]).size > 0
<1> DEFINE p     == Pools[k]
           c     == PageCount(p)
           pages == Pages(p)
<1>1. /\ p.base \in Nat /\ p.size \in Nat /\ p.page \in Nat \ {0}
      /\ p.cached \in BOOLEAN
  <2>1. Pools[k] \in [base : Nat, size : Nat, page : Nat \ {0}, cached : BOOLEAN]
    BY PoolsAssumption, ElementOf, Zenon
  <2>2. QED BY <2>1
<1>2. c \in Nat
  BY <1>1, QuotientNat DEF PageCount
<1>3. p.page > RegionSize /\ p.page % RegionAlign = 0
  BY PageAlignmentAssumption DEF ValidPool
<1>4. Rounded(p.page) = p.page
  BY <1>1, <1>3, RoundUpProps, LayoutAssumption DEF Rounded, Larger
<1>5. DOMAIN pages = 1 .. c
  BY DEF Pages
<1>0. pages = [n \in DOMAIN pages |-> pages[n]]
  BY SMT DEF Pages
<1> HIDE DEF c
<1>6. ASSUME NEW n \in 1 .. c
      PROVE  /\ pages[n] \in Region
             /\ pages[n].start = p.base + (c - n) * p.page
             /\ pages[n].size = p.page
             /\ (c - n) * p.page \in Nat
  <2>1. (c - n) * p.page \in Nat
    <3>1. c - n \in Nat
      BY <1>2
    <3>2. QED BY <1>1, <3>1
  <2>2. pages[n] = [start |-> p.base + (c - n) * p.page, size |-> p.page,
                    cached |-> p.cached, upper |-> 0]
    BY <1>4, Zenon DEF Pages, FreedRegion, c
  <2>3. QED BY <1>1, <2>1, <2>2 DEF Region
<1>7. Extent(p).start = p.base /\ Extent(p).size = c * p.page
  BY DEF Extent, c
<1>8. c * p.page \in Nat
  BY <1>1, <1>2
<1> HIDE DEF pages, p
<1>9. pages \in Seq(Region)
  <2>1. pages = [n \in 1 .. c |-> pages[n]]
    BY <1>0, <1>5
  <2>2. QED BY <1>2, <1>6, <2>1
<1>10. ASSUME NEW m \in 1 .. c, NEW n \in 1 .. c, m < n
       PROVE  End(pages[n]) <= pages[m].start
  <2>1. c - n \in Nat /\ c - m \in Nat /\ c - n < c - m
    BY <1>2, <1>10
  <2>2. (c - n) * p.page + p.page <= (c - m) * p.page
    BY <1>1, <2>1, PagesApart
  <2>3. QED BY <1>1, <1>6, <2>2 DEF End
<1>11. ListApart(pages)
  BY <1>5, <1>10, <1>2 DEF ListApart, Apart
<1>12. ASSUME NEW n \in 1 .. c
       PROVE  Inside(pages[n], Extent(p)) /\ Extent(p).size > 0
  <2>1. c - n \in Nat /\ c - n < c
    BY <1>2
  <2>2. (c - n) * p.page + p.page <= c * p.page
    BY <1>1, <1>2, <2>1, PagesApart
  <2>3. QED BY <1>1, <1>6, <1>7, <1>8, <2>2 DEF Inside, End
<1>13. QED BY <1>2, <1>5, <1>7, <1>8, <1>1, <1>9, <1>11, <1>12 DEF p, pages, c

-----------------------------------------------------------------------------
(* The inductive invariant, action by action.                              *)

(* IInv in the vocabulary of the lemmas.                                   *)
LEMMA IInvParts ==
    IInv <=> /\ TypeOK
             /\ ListApart(list)
             /\ \A a, b \in live : a # b => Apart(a, b)
             /\ \A b \in live : ClearOf(list, b)
             /\ \A k \in DOMAIN Pools \ added :
                    Extent(Pools[k]).size # 0 =>
                        /\ ClearOf(list, Extent(Pools[k]))
                        /\ \A b \in live : Apart(b, Extent(Pools[k]))
             /\ \A b \in live : b.size = Rounded(b.asked)
             /\ pc \in {"try", "defrag"} =>
                    req.size # 0 /\ req.size = Rounded(req.asked)
BY Zenon DEF IInv, Separation, ListApart, ClearOf

(* Being apart is symmetric.                                               *)
LEMMA ApartSymmetric == \A a, b : Apart(a, b) => Apart(b, a)
BY DEF Apart

(* A block is a stretch of memory that is not empty.                       *)
LEMMA BlockFields ==
    ASSUME NEW b \in Block
    PROVE  b.start \in Nat /\ b.size \in Nat /\ b.size # 0 /\ b.asked \in Nat
BY DEF Block

(* A list that has the addresses looked up and nothing else done to it.    *)
LEMMA UntouchedList ==
    ASSUME IInv
    PROVE  /\ list \in Seq(Region)
           /\ ListApart(list)
           /\ \A x : (x.start \in Nat /\ x.size \in Nat /\ x.size # 0 /\ ClearOf(list, x))
                        => ClearOf(list, x)
BY IInvParts, Zenon DEF TypeOK

(* Before the first call there is nothing that could overlap.               *)
LEMMA InitIInv == Init => IInv
<1> SUFFICES ASSUME Init PROVE IInv
  OBVIOUS
<1>1. list \in Seq(Region) /\ DOMAIN list = {}
  BY DEF Init
<1>2. req \in [asked : Nat, size : Nat, align : Nat, cached : BOOLEAN]
  BY DEF Init, NoRequest
<1>3. TypeOK
  BY <1>1, <1>2 DEF Init, TypeOK
<1>4. QED BY <1>1, <1>3 DEF Init, IInv, Separation

(* The bytes deducted from the outstanding ones are never too many.        *)
LEMMA DeductedNat ==
    ASSUME outstanding \in Nat, NEW n \in Nat
    PROVE  Deducted(n) \in Nat
BY DEF Deducted

(* microkit_dma_init: the new pages lie inside memory nobody had before.    *)
LEMMA DmaInitIInv ==
    ASSUME IInv, NEW k \in DOMAIN Pools, DmaInit(k)
    PROVE  IInv'
<1> DEFINE pages == Pages(Pools[k])
           l     == pages \o list
<1>1. /\ pages \in Seq(Region) /\ ListApart(pages)
      /\ \A n \in DOMAIN pages : /\ Inside(pages[n], Extent(Pools[k]))
                                 /\ Extent(Pools[k]).size # 0
  BY PagesProps DEF DmaInit
<1>2. list \in Seq(Region) /\ ListApart(list)
  BY UntouchedList
<1>3. /\ PageCount(Pools[k]) \in Nat
      /\ Extent(Pools[k]).start \in Nat /\ Extent(Pools[k]).size \in Nat
  BY ExtentType
<1>4. k \in DOMAIN Pools \ added
  BY DEF DmaInit
<1>5. /\ list' = LookedUp(l) /\ added' = added \cup {k} /\ live' = live
      /\ UNCHANGED <<pc, req, outer>>
  BY DEF DmaInit
<1> HIDE DEF pages
<1>6. ASSUME NEW x, x.start \in Nat, x.size \in Nat,
             Extent(Pools[k]).size # 0 => Apart(x, Extent(Pools[k]))
      PROVE  ClearOf(pages, x)
  <2> SUFFICES ASSUME NEW n \in DOMAIN pages PROVE Apart(pages[n], x)
    BY Zenon DEF ClearOf
  <2>1. pages[n].start \in Nat /\ pages[n].size \in Nat
    BY <1>1, ElementOf, RegionFields
  <2>2. Inside(pages[n], Extent(Pools[k])) /\ Apart(Extent(Pools[k]), x)
    BY <1>1, <1>6, ApartSymmetric
  <2>3. Inside(x, x)
    BY <1>6 DEF Inside, End
  <2>4. QED BY <1>3, <1>6, <2>1, <2>2, <2>3, InsideApart
<1>7. ASSUME NEW j \in DOMAIN pages, NEW n \in DOMAIN list
      PROVE  Apart(pages[j], list[n])
  <2>1. list[n].start \in Nat /\ list[n].size \in Nat
    BY <1>2, ElementOf, RegionFields
  <2>2. Extent(Pools[k]).size # 0 => Apart(list[n], Extent(Pools[k]))
    BY <1>4, IInvParts, Zenon DEF ClearOf
  <2>3. ClearOf(pages, list[n])
    BY <1>6, <2>1, <2>2
  <2>4. QED BY <2>3 DEF ClearOf
<1>8. /\ l \in Seq(Region) /\ ListApart(l)
      /\ \A x : ClearOf(pages, x) /\ ClearOf(list, x) => ClearOf(l, x)
  BY <1>1, <1>2, <1>7, ConcatApart, ConcatProps
<1> HIDE DEF l
<1>9. /\ list' \in Seq(Region) /\ ListApart(list')
      /\ \A x : ClearOf(pages, x) /\ ClearOf(list, x) => ClearOf(list', x)
  BY <1>5, <1>8, LookedUpProps, LookedUpApart
<1>10. ASSUME NEW b \in live
       PROVE  ClearOf(list', b)
  <2>1. b.start \in Nat /\ b.size \in Nat
    BY BlockFields DEF IInv, TypeOK
  <2>2. Extent(Pools[k]).size # 0 => Apart(b, Extent(Pools[k]))
    BY <1>4, IInvParts, Zenon
  <2>3. ClearOf(list, b)
    BY IInvParts, Zenon
  <2>4. QED BY <1>6, <1>9, <2>1, <2>2, <2>3
<1>11. ASSUME NEW m \in DOMAIN Pools \ added', Extent(Pools[m]).size # 0
       PROVE  /\ ClearOf(list', Extent(Pools[m]))
              /\ \A b \in live : Apart(b, Extent(Pools[m]))
  <2>1. m \in DOMAIN Pools \ added /\ m # k
    BY <1>5
  <2>2. /\ ClearOf(list, Extent(Pools[m]))
        /\ \A b \in live : Apart(b, Extent(Pools[m]))
    BY <1>11, <2>1, IInvParts, Zenon
  <2>3. Apart(Extent(Pools[m]), Extent(Pools[k]))
    BY <2>1, DistinctPoolsAssumption
  <2>4. Extent(Pools[m]).start \in Nat /\ Extent(Pools[m]).size \in Nat
    BY ExtentType
  <2>5. QED BY <1>6, <1>9, <2>2, <2>3, <2>4
<1>12. TypeOK'
  <2>1. heapSize' \in Nat /\ minimumHeapSize' \in Nat
    <3>1. Pools[k].size \in Nat
      BY PoolSize
    <3>2. QED BY <3>1 DEF DmaInit
  <2>2. outstanding' \in Nat
    <3>1. Rounded(Pools[k].page) \in Nat
      BY PoolSize, RoundedProps
    <3>2. PageCount(Pools[k]) * Rounded(Pools[k].page) \in Nat
      BY <1>3, <3>1
    <3>3. QED BY <3>2, DeductedNat DEF DmaInit, IInv, TypeOK
  <2>3. QED BY <1>4, <1>5, <1>9, <2>1, <2>2 DEF IInv, TypeOK
<1>13. QED
  BY <1>5, <1>9, <1>10, <1>11, <1>12, Zenon
  DEF IInv, Separation, ListApart, ClearOf

(* microkit_dma_free: the region put back covers the block that was held,   *)
(* because the size the client gives rounds to the size it was granted.     *)
LEMMA DmaFreeIInv ==
    ASSUME IInv, NEW b \in live, DmaFree(b)
    PROVE  IInv'
<1> DEFINE r == FreedRegion(b.start, b.asked, TRUE)
           l == <<r>> \o list
<1>1. b \in Block /\ b.start \in Nat /\ b.size \in Nat /\ b.size # 0
      /\ b.asked \in Nat
  BY BlockFields DEF IInv, TypeOK
<1>2. b.size = Rounded(b.asked)
  BY DEF IInv
<1>3. r \in Region /\ r.start = b.start /\ r.size = b.size
  BY <1>1, <1>2 DEF FreedRegion, Region
<1>4. /\ list' = LookedUp(l) /\ live' = live \ {b} /\ added' = added
      /\ UNCHANGED <<pc, req, outer, heapSize, minimumHeapSize>>
  BY DEF DmaFree
<1>5. list \in Seq(Region) /\ ListApart(list)
  BY UntouchedList
<1>6. \A x : (Apart(b, x) => Apart(r, x)) /\ (Apart(x, b) => Apart(x, r))
  BY <1>3 DEF Apart, End
<1>7. ClearOf(list, r)
  BY <1>6, IInvParts, Zenon DEF ClearOf
<1> HIDE DEF r
<1>8. /\ l \in Seq(Region) /\ ListApart(l)
      /\ \A x : Apart(r, x) /\ ClearOf(list, x) => ClearOf(l, x)
  BY <1>3, <1>5, <1>7, PrependApart
<1> HIDE DEF l
<1>9. /\ list' \in Seq(Region) /\ ListApart(list')
      /\ \A x : Apart(b, x) /\ ClearOf(list, x) => ClearOf(list', x)
  BY <1>4, <1>6, <1>8, LookedUpProps, LookedUpApart
<1>10. \A a \in live' : ClearOf(list', a)
  BY <1>4, <1>9, IInvParts, Zenon
<1>11. ASSUME NEW m \in DOMAIN Pools \ added', Extent(Pools[m]).size # 0
       PROVE  /\ ClearOf(list', Extent(Pools[m]))
              /\ \A a \in live' : Apart(a, Extent(Pools[m]))
  <2>1. /\ ClearOf(list, Extent(Pools[m]))
        /\ \A a \in live : Apart(a, Extent(Pools[m]))
    BY <1>4, <1>11, IInvParts, Zenon
  <2>2. QED BY <1>4, <1>9, <2>1, Zenon
<1>12. TypeOK'
  <2>1. outstanding' \in Nat
    BY <1>1, RoundedProps, DeductedNat DEF DmaFree, IInv, TypeOK
  <2>2. QED BY <1>4, <1>9, <2>1 DEF IInv, TypeOK
<1>13. /\ \A a, c \in live' : a # c => Apart(a, c)
       /\ \A a \in live' : a.size = Rounded(a.asked)
  BY <1>4, IInvParts, Zenon
<1>14. QED
  BY <1>4, <1>9, <1>10, <1>11, <1>12, <1>13, Zenon
  DEF IInv, Separation, ListApart, ClearOf

(* microkit_dma_alloc up to its first scan: the request is rounded.         *)
LEMMA DmaAllocIInv ==
    ASSUME IInv, NEW r \in Requests, DmaAlloc(r)
    PROVE  IInv'
<1>1. r.asked \in Nat /\ r.align \in Nat /\ r.cached \in BOOLEAN
  BY RequestsAssumption
<1>2. /\ Rounded(r.asked) \in Nat /\ Rounded(r.asked) # 0
      /\ Larger(r.align, RegionAlign) \in Nat
  BY <1>1, RoundedProps, LayoutAssumption DEF Larger
<1>3. /\ req' \in [asked : Nat, size : Nat, align : Nat, cached : BOOLEAN]
      /\ req'.size # 0 /\ req'.size = Rounded(req'.asked)
  BY <1>1, <1>2 DEF DmaAlloc
<1>4. /\ pc' = "try"
      /\ UNCHANGED <<list, live, added, outer, statistics>>
  BY DEF DmaAlloc
<1>5. TypeOK'
  BY <1>3, <1>4 DEF IInv, TypeOK, statistics
<1>6. Separation'
  BY <1>4, Zenon DEF IInv, Separation
<1>7. QED BY <1>3, <1>4, <1>5, <1>6, Zenon DEF IInv

(* Returning puts the local variables out of use.                          *)
LEMMA ReturnProps ==
    ASSUME Return
    PROVE  /\ pc' = "idle" /\ outer' \in Nat
           /\ req' \in [asked : Nat, size : Nat, align : Nat, cached : BOOLEAN]
BY DEF Return, NoRequest

(* An allocation that finds its place: what is cut out of the free list     *)
(* becomes the block, and nothing else changes hands.                       *)
LEMMA AllocSucceedsIInv ==
    ASSUME IInv, AllocSucceeds
    PROVE  IInv'
<1>1. PICK p \in DOMAIN list, leftover \in BOOLEAN :
        /\ FirstFit(p)
        /\ \E q \in list[p].start .. End(list[p]) :
            /\ LastPlacement(list[p], q)
            /\ list' = LookedUp(CutOut(p, q, leftover))
            /\ live' = live \cup
                {[start |-> q, size |-> req.size, asked |-> req.asked]}
  BY Zenon DEF AllocSucceeds
<1>2. PICK q \in list[p].start .. End(list[p]) :
        /\ LastPlacement(list[p], q)
        /\ list' = LookedUp(CutOut(p, q, leftover))
        /\ live' = live \cup
            {[start |-> q, size |-> req.size, asked |-> req.asked]}
  BY <1>1, Zenon
<1> DEFINE b == [start |-> q, size |-> req.size, asked |-> req.asked]
           m == CutOut(p, q, leftover)
<1>3. /\ req.size \in Nat /\ req.size # 0 /\ req.size = Rounded(req.asked)
      /\ req.asked \in Nat
  BY DEF AllocSucceeds, Attempting, IInv, TypeOK
<1>4. list \in Seq(Region) /\ ListApart(list)
  BY UntouchedList
<1>5. list[p].start \in Nat /\ list[p].size \in Nat
  BY <1>4, ElementOf, RegionFields
<1>6. q \in list[p].start .. (End(list[p]) - req.size)
  BY <1>2 DEF LastPlacement, Placements, Tried
<1>7. q \in Nat /\ list[p].start <= q /\ q + req.size <= End(list[p])
  BY <1>3, <1>5, <1>6 DEF End
<1>8. /\ m \in Seq(Region) /\ ListApart(m) /\ ClearOf(m, b)
      /\ \A x : x.start \in Nat /\ x.size \in Nat /\ ClearOf(list, x)
                   => ClearOf(m, x) /\ Apart(b, x)
  BY <1>3, <1>4, <1>7, CutOutApart
<1>9. b \in Block /\ b.size = Rounded(b.asked)
  BY <1>3, <1>7 DEF Block
<1>10. /\ list' = LookedUp(m) /\ live' = live \cup {b}
       /\ added' = added /\ heapSize' = heapSize
  BY <1>2 DEF AllocSucceeds
<1> HIDE DEF m, b
<1>11. /\ list' \in Seq(Region) /\ ListApart(list') /\ ClearOf(list', b)
       /\ \A x : x.start \in Nat /\ x.size \in Nat /\ ClearOf(list, x)
                    => ClearOf(list', x) /\ Apart(b, x)
  BY <1>8, <1>10, LookedUpProps, LookedUpApart
<1>12. ASSUME NEW a \in live
       PROVE  ClearOf(list', a) /\ Apart(b, a) /\ Apart(a, b)
  <2>1. a.start \in Nat /\ a.size \in Nat
    BY BlockFields DEF IInv, TypeOK
  <2>2. ClearOf(list, a)
    BY IInvParts, Zenon
  <2>3. QED BY <1>11, <2>1, <2>2, ApartSymmetric
<1>13. ASSUME NEW k \in DOMAIN Pools \ added', Extent(Pools[k]).size # 0
       PROVE  /\ ClearOf(list', Extent(Pools[k]))
              /\ \A a \in live' : Apart(a, Extent(Pools[k]))
  <2>1. Extent(Pools[k]).start \in Nat /\ Extent(Pools[k]).size \in Nat
    BY ExtentType
  <2>2. /\ ClearOf(list, Extent(Pools[k]))
        /\ \A a \in live : Apart(a, Extent(Pools[k]))
    BY <1>10, <1>13, IInvParts, Zenon
  <2>3. QED BY <1>10, <1>11, <2>1, <2>2, Zenon
<1>14. /\ \A a, c \in live' : a # c => Apart(a, c)
       /\ \A a \in live' : ClearOf(list', a)
       /\ \A a \in live' : a.size = Rounded(a.asked)
  BY <1>9, <1>10, <1>11, <1>12, IInvParts, Zenon
<1>15. TypeOK'
  <2>1. /\ pc' = "idle" /\ outer' \in Nat
        /\ req' \in [asked : Nat, size : Nat, align : Nat, cached : BOOLEAN]
    BY ReturnProps DEF AllocSucceeds
  <2>2. outstanding' \in Nat
    <3>1. outstanding' = outstanding + req.size
      BY DEF AllocSucceeds
    <3>2. outstanding \in Nat /\ req.size \in Nat
      BY DEF IInv, TypeOK
    <3>3. QED BY <3>1, <3>2
  <2>3. (heapSize - outstanding') % SizeRange \in Nat
    <3>1. heapSize - outstanding' \in Int
      BY <2>2 DEF IInv, TypeOK
    <3>2. SizeRange \in Nat \ {0}
      BY LayoutAssumption
    <3>3. QED BY <3>1, <3>2, ModRangeInt, Zenon
  <2>4. minimumHeapSize' \in Nat
    BY <2>3 DEF AllocSucceeds, IInv, TypeOK
  <2>5. live' \subseteq Block
    BY <1>9, <1>10 DEF IInv, TypeOK
  <2>6. QED BY <1>10, <1>11, <2>1, <2>2, <2>4, <2>5 DEF IInv, TypeOK
<1>16. pc' = "idle"
  BY ReturnProps DEF AllocSucceeds
<1>17. QED
  BY <1>11, <1>13, <1>14, <1>15, <1>16, Zenon
  DEF IInv, Separation, ListApart, ClearOf

(* A step that does nothing but rework the list and move on.               *)
LEMMA ReworkIInv ==
    ASSUME IInv, NEW l \in Seq(Region),
           list' = LookedUp(l) \/ list' = l, ListApart(l),
           \A x : (x.start \in Nat /\ x.size \in Nat /\ x.size # 0 /\ ClearOf(list, x))
                    => ClearOf(l, x),
           UNCHANGED <<live, added, statistics>>,
           outer' \in Nat,
           \/ pc' \in {"defrag", "try"} /\ pc \in {"defrag", "try"} /\ req' = req
           \/ /\ pc' \in {"idle", "abort"}
              /\ req' \in [asked : Nat, size : Nat, align : Nat, cached : BOOLEAN]
    PROVE  IInv'
<1>1. /\ list' \in Seq(Region) /\ ListApart(list')
      /\ \A x : (x.start \in Nat /\ x.size \in Nat /\ x.size # 0 /\ ClearOf(list, x))
                   => ClearOf(list', x)
  BY LookedUpProps, LookedUpApart
<1>2. live' = live /\ added' = added
  OBVIOUS
<1>3. ASSUME NEW b \in live'
      PROVE  ClearOf(list', b)
  <2>1. b.start \in Nat /\ b.size \in Nat /\ b.size # 0
    BY <1>2, BlockFields DEF IInv, TypeOK
  <2>2. ClearOf(list, b)
    BY <1>2, IInvParts, Zenon
  <2>3. QED BY <1>1, <2>1, <2>2
<1>4. ASSUME NEW k \in DOMAIN Pools \ added', Extent(Pools[k]).size # 0
      PROVE  /\ ClearOf(list', Extent(Pools[k]))
             /\ \A b \in live' : Apart(b, Extent(Pools[k]))
  <2>1. Extent(Pools[k]).start \in Nat /\ Extent(Pools[k]).size \in Nat
    BY ExtentType
  <2>2. /\ ClearOf(list, Extent(Pools[k]))
        /\ \A b \in live : Apart(b, Extent(Pools[k]))
    BY <1>2, <1>4, IInvParts, Zenon
  <2>3. QED BY <1>1, <1>2, <1>4, <2>1, <2>2
<1>5. TypeOK'
  BY <1>1, <1>2 DEF IInv, TypeOK, statistics
<1>6. pc' \in {"try", "defrag"} => req'.size # 0 /\ req'.size = Rounded(req'.asked)
  BY DEF IInv
<1>7. /\ \A a, c \in live' : a # c => Apart(a, c)
      /\ \A a \in live' : a.size = Rounded(a.asked)
  BY <1>2, IInvParts, Zenon
<1>8. QED
  BY <1>1, <1>3, <1>4, <1>5, <1>6, <1>7, Zenon
  DEF IInv, Separation, ListApart, ClearOf

(* Joining two regions of the list: the one that grows covers both.         *)
LEMMA DefragCoalesceIInv ==
    ASSUME IInv, NEW q \in DOMAIN list, DefragCoalesce(q)
    PROVE  IInv'
<1>1. list \in Seq(Region) /\ ListApart(list)
  BY UntouchedList
<1>2. outer \in DOMAIN list /\ outer \in Nat /\ q \in Nat /\ q # outer
      /\ outer - 1 \in Nat
  BY <1>1 DEF DefragCoalesce, IInv, TypeOK
<1>3. /\ pc = "defrag" /\ pc' = pc /\ req' = req
      /\ UNCHANGED <<live, added, statistics>>
      /\ outer' \in Nat
  BY <1>2 DEF DefragCoalesce
<1>4. CASE Follows(list[outer], list[q])
  <2>1. list' = RemoveAt(Grown(list, q, list[outer].size), outer)
    BY <1>4, Zenon DEF DefragCoalesce
  <2>2. list[outer].start = End(list[q])
    BY <1>4 DEF Follows
  <2>3. /\ list' \in Seq(Region) /\ ListApart(list')
        /\ \A x : (x.start \in Nat /\ x.size \in Nat /\ x.size # 0 /\ ClearOf(list, x))
                     => ClearOf(list', x)
    BY <1>1, <1>2, <2>1, <2>2, CoalesceApart
  <2>4. QED BY <1>3, <2>3, ReworkIInv
<1>5. CASE ~Follows(list[outer], list[q])
  <2>1. list' = RemoveAt(Grown(list, outer, list[q].size), q)
    BY <1>5, Zenon DEF DefragCoalesce
  <2>2. list[q].start = End(list[outer])
    BY <1>5 DEF DefragCoalesce, Mergeable, Follows
  <2>3. /\ list' \in Seq(Region) /\ ListApart(list')
        /\ \A x : (x.start \in Nat /\ x.size \in Nat /\ x.size # 0 /\ ClearOf(list, x))
                     => ClearOf(list', x)
    BY <1>1, <1>2, <2>1, <2>2, CoalesceApart
  <2>4. QED BY <1>3, <2>3, ReworkIInv
<1>6. QED BY <1>4, <1>5, Zenon

(* Every step keeps the inductive invariant.                               *)
LEMMA NextIInv ==
    ASSUME IInv, [Next]_vars
    PROVE  IInv'
<1> USE UntouchedList
<1>1. ASSUME NEW k \in DOMAIN Pools, DmaInit(k) PROVE IInv'
  BY <1>1, DmaInitIInv
<1>2. ASSUME NEW b \in live, DmaFree(b) PROVE IInv'
  BY <1>2, DmaFreeIInv
<1>3. CASE DmaFreeNull
  BY <1>3, ReworkIInv DEF DmaFreeNull, IInv, TypeOK
<1>4. ASSUME NEW r \in Requests, DmaAlloc(r) PROVE IInv'
  BY <1>4, DmaAllocIInv
<1>5. CASE AllocSucceeds
  BY <1>5, AllocSucceedsIInv
<1>6. CASE StartDefrag
  BY <1>6, ReworkIInv DEF StartDefrag
<1>7. CASE AllocFails
  BY <1>7, ReworkIInv, ReturnProps DEF AllocFails
<1>8. CASE DefragAdvance
  <2>1. outer' \in Nat
    BY <1>8 DEF DefragAdvance, IInv, TypeOK
  <2>2. QED BY <1>8, <2>1, ReworkIInv DEF DefragAdvance
<1>9. ASSUME NEW q \in DOMAIN list, DefragCoalesce(q) PROVE IInv'
  BY <1>9, DefragCoalesceIInv
<1>10. CASE UNCHANGED vars
  <2>1. TypeOK'
    BY <1>10, Zenon DEF IInv, TypeOK, vars
  <2>2. QED BY <1>10, <2>1, Zenon DEF IInv, Separation, vars
<1>11. QED
  BY <1>1, <1>2, <1>3, <1>4, <1>5, <1>6, <1>7, <1>8, <1>9, <1>10, Zenon
  DEF Next, Continue, DefragStep

(* The invariant everything rests on holds of every behaviour.             *)
THEOREM Inductive == Spec => []IInv
<1>1. Init => IInv
  BY InitIInv
<1>2. IInv /\ [Next]_vars => IInv'
  BY NextIInv
<1>3. QED BY <1>1, <1>2, PTL DEF Spec

(* Every variable keeps its type: no region and no block is ever empty.    *)
THEOREM TypeCorrect == Spec => []TypeOK
<1>1. IInv => TypeOK
  BY DEF IInv
<1>2. QED BY <1>1, Inductive, PTL

(* No byte ever has two owners, whatever is asked for, in whatever order,  *)
(* from whatever pools, and whatever the uninitialised flags hold.         *)
THEOREM SeparationCorrect == Spec => []Separation
<1>1. IInv => Separation
  BY DEF IInv
<1>2. QED BY <1>1, Inductive, PTL

=============================================================================
