---------------------------- MODULE DmaBooksProofs ----------------------------
(***************************************************************************)
(* What the headers of the allocator of libmicrokitdma/src/dma.c say stays *)
(* right: no byte is lost or gained, a header fits where it is written,    *)
(* the physical address it carries is the one that would be looked up, and *)
(* defrag() leaves nothing it could have joined.                           *)
(***************************************************************************)
EXTENDS DmaAllocatorProofs

-----------------------------------------------------------------------------
(* Division.                                                               *)

(* What division with remainder is.                                        *)
LEMMA DivProps ==
    ASSUME NEW n \in Nat, NEW a \in Nat \ {0}
    PROVE  /\ n = (n \div a) * a + (n % a)
           /\ n \div a \in Nat
           /\ n % a \in 0 .. a - 1
OBVIOUS

(* Quotient and remainder are unique.                                      *)
LEMMA DivUnique ==
    ASSUME NEW a \in Nat \ {0}, NEW m \in Nat, NEW n \in Nat,
           NEW r \in 0 .. a - 1, NEW s \in 0 .. a - 1, m * a + r = n * a + s
    PROVE  m = n /\ r = s
<1>1. CASE m < n
  <2>1. m * a + a <= n * a
    BY <1>1, PagesApart
  <2>2. m * a \in Nat /\ n * a \in Nat
    OBVIOUS
  <2>3. QED BY <2>1, <2>2
<1>2. CASE n < m
  <2>1. n * a + a <= m * a
    BY <1>2, PagesApart
  <2>2. m * a \in Nat /\ n * a \in Nat
    OBVIOUS
  <2>3. QED BY <2>1, <2>2
<1>3. QED BY <1>1, <1>2

(* A multiple leaves no remainder.                                         *)
LEMMA MultipleMod ==
    ASSUME NEW n \in Nat, NEW a \in Nat \ {0}
    PROVE  (n * a) % a = 0
OBVIOUS

(* Adding a multiple changes no remainder, and adds to the quotient.       *)
LEMMA AddMultiple ==
    ASSUME NEW m \in Nat, NEW n \in Nat, NEW a \in Nat \ {0}, m % a = 0
    PROVE  (m + n) % a = n % a
<1>1. m = (m \div a) * a /\ m \div a \in Nat
  BY DivProps
<1>2. n = (n \div a) * a + (n % a) /\ n \div a \in Nat /\ n % a \in 0 .. a - 1
  BY DivProps
<1>3. /\ m + n = ((m + n) \div a) * a + ((m + n) % a)
      /\ (m + n) \div a \in Nat
      /\ (m + n) % a \in 0 .. a - 1
  <2>1. m + n \in Nat
    OBVIOUS
  <2>2. QED BY <2>1, DivProps
<1> DEFINE i == m \div a
           j == n \div a
           k == (m + n) \div a
           r == n % a
           s == (m + n) % a
<1>4. /\ i \in Nat /\ j \in Nat /\ k \in Nat
      /\ r \in 0 .. a - 1 /\ s \in 0 .. a - 1
      /\ m = i * a /\ n = j * a + r /\ m + n = k * a + s
  BY <1>1, <1>2, <1>3
<1> HIDE DEF i, j, k, r, s
<1>5. i * a + j * a = (i + j) * a /\ i * a \in Nat /\ j * a \in Nat
  BY <1>4
<1>6. (i + j) * a + r = k * a + s
  BY <1>4, <1>5
<1>7. i + j \in Nat
  BY <1>4
<1>8. r = s
  BY <1>4, <1>6, <1>7, DivUnique
<1>9. QED BY <1>8 DEF r, s

(* Rounding up gives a multiple.                                           *)
LEMMA RoundUpMultiple ==
    ASSUME NEW n \in Nat, NEW a \in Nat \ {0}
    PROVE  RoundUp(n, a) % a = 0
<1>1. n = (n \div a) * a + (n % a) /\ n \div a \in Nat /\ n % a \in 0 .. a - 1
  BY DivProps
<1>2. CASE n % a = 0
  BY <1>2 DEF RoundUp
<1>3. CASE n % a # 0
  <2>1. RoundUp(n, a) = n + (a - (n % a))
    BY <1>3 DEF RoundUp
  <2>2. (n \div a) * a + a = ((n \div a) + 1) * a
    BY <1>1
  <2>3. (n \div a) * a \in Nat
    BY <1>1
  <2>4. RoundUp(n, a) = (n \div a) * a + a
    BY <1>1, <2>1, <2>3
  <2>5. (n \div a) + 1 \in Nat
    BY <1>1
  <2>6. RoundUp(n, a) = ((n \div a) + 1) * a
    BY <2>2, <2>4
  <2>7. QED BY <2>5, <2>6, MultipleMod
<1>4. QED BY <1>2, <1>3

(* A granted size is a multiple of the header's alignment.                 *)
LEMMA RoundedMultiple ==
    ASSUME NEW n \in Nat
    PROVE  Rounded(n) % RegionAlign = 0
<1>1. Larger(n, RegionSize) \in Nat
  BY LayoutAssumption DEF Larger
<1>2. QED BY <1>1, RoundUpMultiple, LayoutAssumption DEF Rounded

(* A multiple of a multiple is one.                                        *)
LEMMA MultipleTransitive ==
    ASSUME NEW q \in Nat, NEW b \in Nat \ {0}, NEW a \in Nat \ {0},
           q % b = 0, b % a = 0
    PROVE  q % a = 0
<1>1. q = (q \div b) * b /\ q \div b \in Nat
  BY DivProps
<1>2. b = (b \div a) * a /\ b \div a \in Nat
  BY DivProps
<1> DEFINE i == q \div b
           j == b \div a
<1>3. i \in Nat /\ j \in Nat /\ q = i * b /\ b = j * a
  BY <1>1, <1>2
<1> HIDE DEF i, j
<1>4. q = (i * j) * a /\ i * j \in Nat
  BY <1>3
<1>5. QED BY <1>4, MultipleMod

-----------------------------------------------------------------------------
(* The regions in a list, whatever their order.                            *)

Others(l, i) == {l[k] : k \in DOMAIN l \ {i}}

(* A list's regions are one of them and the others.                        *)
LEMMA OneAndOthers ==
    ASSUME NEW l, NEW i \in DOMAIN l
    PROVE  Range(l) = Others(l, i) \cup {l[i]}
BY DEF Range, Others

(* Those of two lists put together.                                        *)
LEMMA ConcatRange ==
    ASSUME NEW s \in Seq(Region), NEW t \in Seq(Region)
    PROVE  Range(s \o t) = Range(s) \cup Range(t)
<1>1. /\ DOMAIN (s \o t) = 1 .. Len(s) + Len(t)
      /\ DOMAIN s = 1 .. Len(s) /\ DOMAIN t = 1 .. Len(t)
      /\ Len(s) \in Nat /\ Len(t) \in Nat
  BY ConcatProps
<1>2. ASSUME NEW k \in 1 .. Len(s) + Len(t)
      PROVE  (s \o t)[k] \in Range(s) \cup Range(t)
  <2>1. (s \o t)[k] = IF k <= Len(s) THEN s[k] ELSE t[k - Len(s)]
    BY ConcatElement
  <2>2. CASE k <= Len(s)
    BY <1>1, <2>1, <2>2 DEF Range
  <2>3. CASE ~(k <= Len(s))
    <3>1. k - Len(s) \in DOMAIN t
      BY <1>1, <2>3
    <3>2. QED BY <2>1, <2>3, <3>1, Zenon DEF Range
  <2>4. QED BY <2>2, <2>3, Zenon
<1>3. ASSUME NEW k \in DOMAIN s
      PROVE  s[k] \in Range(s \o t)
  <2>1. k \in 1 .. Len(s) + Len(t) /\ k <= Len(s)
    BY <1>1
  <2>2. (s \o t)[k] = s[k]
    BY <2>1, ConcatElement
  <2>3. QED BY <1>1, <2>1, <2>2, Zenon DEF Range
<1>4. ASSUME NEW k \in DOMAIN t
      PROVE  t[k] \in Range(s \o t)
  <2>1. k + Len(s) \in 1 .. Len(s) + Len(t) /\ ~(k + Len(s) <= Len(s))
    BY <1>1
  <2>2. (s \o t)[k + Len(s)] = t[(k + Len(s)) - Len(s)]
    BY <2>1, ConcatElement
  <2>3. (k + Len(s)) - Len(s) = k
    BY <1>1
  <2>4. QED BY <1>1, <2>1, <2>2, <2>3, Zenon DEF Range
<1>5. Range(s \o t) \subseteq Range(s) \cup Range(t)
  BY <1>1, <1>2, Zenon DEF Range
<1>6. Range(s) \subseteq Range(s \o t) /\ Range(t) \subseteq Range(s \o t)
  BY <1>3, <1>4, Zenon DEF Range
<1>7. QED BY <1>5, <1>6

(* Those left when one is taken out.                                       *)
LEMMA RemoveRange ==
    ASSUME NEW l \in Seq(Region), NEW i \in DOMAIN l
    PROVE  Range(RemoveAt(l, i)) = Others(l, i)
<1>1. /\ RemoveAt(l, i) \in Seq(Region)
      /\ DOMAIN RemoveAt(l, i) = 1 .. Len(l) - 1
      /\ DOMAIN l = 1 .. Len(l)
      /\ \A k \in 1 .. Len(l) - 1 :
            RemoveAt(l, i)[k] = IF k < i THEN l[k] ELSE l[k + 1]
  <2>1. i \in 1 .. Len(l) /\ DOMAIN l = 1 .. Len(l) /\ Len(l) \in Nat
    OBVIOUS
  <2>2. /\ RemoveAt(l, i) \in Seq(Region)
        /\ Len(RemoveAt(l, i)) = Len(l) - 1
        /\ \A k \in 1 .. Len(l) - 1 :
              RemoveAt(l, i)[k] = IF k < i THEN l[k] ELSE l[k + 1]
    BY <2>1, RemoveAtProps, Zenon
  <2>3. DOMAIN RemoveAt(l, i) = 1 .. Len(l) - 1
    BY <2>2
  <2>4. QED BY <2>1, <2>2, <2>3, Zenon
<1>2. ASSUME NEW k \in 1 .. Len(l) - 1
      PROVE  RemoveAt(l, i)[k] \in Others(l, i)
  <2>1. CASE k < i
    <3>1. k \in DOMAIN l \ {i} /\ RemoveAt(l, i)[k] = l[k]
      BY <1>1, <2>1
    <3>2. QED BY <3>1, Zenon DEF Others
  <2>2. CASE ~(k < i)
    <3>1. k + 1 \in DOMAIN l \ {i} /\ RemoveAt(l, i)[k] = l[k + 1]
      BY <1>1, <2>2
    <3>2. QED BY <3>1, Zenon DEF Others
  <2>3. QED BY <2>1, <2>2, Zenon
<1>3. ASSUME NEW k \in DOMAIN l \ {i}
      PROVE  l[k] \in Range(RemoveAt(l, i))
  <2>1. CASE k < i
    <3>1. k \in 1 .. Len(l) - 1 /\ RemoveAt(l, i)[k] = l[k]
      BY <1>1, <2>1
    <3>2. QED BY <1>1, <3>1, Zenon DEF Range
  <2>2. CASE ~(k < i)
    <3>1. k - 1 \in 1 .. Len(l) - 1 /\ ~(k - 1 < i) /\ (k - 1) + 1 = k
      BY <1>1, <2>2
    <3>2. RemoveAt(l, i)[k - 1] = l[k]
      BY <1>1, <3>1
    <3>3. QED BY <1>1, <3>1, <3>2, Zenon DEF Range
  <2>3. QED BY <2>1, <2>2, Zenon
<1>4. QED BY <1>1, <1>2, <1>3, Zenon DEF Range, Others

(* Replacing one leaves the others.                                        *)
LEMMA ReplaceRange ==
    ASSUME NEW l \in Seq(Region), NEW i \in DOMAIN l, NEW r
    PROVE  /\ Range([l EXCEPT ![i] = r]) = Others(l, i) \cup {r}
           /\ Others([l EXCEPT ![i] = r], i) = Others(l, i)
<1> DEFINE m == [l EXCEPT ![i] = r]
<1>1. /\ DOMAIN m = DOMAIN l /\ m[i] = r
      /\ \A k \in DOMAIN l \ {i} : m[k] = l[k]
  OBVIOUS
<1> HIDE DEF m
<1>2. Others(m, i) = Others(l, i)
  BY <1>1, Zenon DEF Others
<1>3. Range(m) = Others(m, i) \cup {m[i]}
  BY <1>1, OneAndOthers
<1>4. QED BY <1>1, <1>2, <1>3 DEF m

(* Looking addresses up changes each region by itself.                     *)
LEMMA LookedUpRange ==
    ASSUME NEW l
    PROVE  Range(LookedUp(l)) = {Extract(r) : r \in Range(l)}
BY DEF Range, LookedUp

-----------------------------------------------------------------------------
(* What cutting and coalescing do to the regions of the list.              *)

(* What is left of region r when `size` bytes at q are cut out of it: what *)
(* lies before them and what lies behind them, where there is something.   *)
Before(r, q) ==
    IF q = r.start THEN {} ELSE {[r EXCEPT !.size = q - r.start]}

Behind(r, q, size, leftover) ==
    IF q + size = End(r) THEN {}
    ELSE {Carved(r, q + size - r.start, leftover)}

(* In all four cases of try_alloc_from_free_region.                        *)
LEMMA CutOutRange ==
    ASSUME list \in Seq(Region), NEW p \in DOMAIN list, NEW q \in Nat,
           NEW leftover \in BOOLEAN, req.size \in Nat \ {0},
           list[p].start <= q, q + req.size <= End(list[p])
    PROVE  Range(CutOut(p, q, leftover)) =
               Others(list, p) \cup Before(list[p], q)
                   \cup Behind(list[p], q, req.size, leftover)
<1> DEFINE r    == list[p]
           rest == Carved(r, q + req.size - r.start, leftover)
           s    == [r EXCEPT !.size = q - r.start]
           kept == [list EXCEPT ![p] = s]
           m    == CutOut(p, q, leftover)
<1>1. r \in Region /\ r.start \in Nat /\ r.size \in Nat
  BY ElementOf, RegionFields
<1>2. q = r.start => (r.size = req.size <=> q + req.size = End(r))
  BY <1>1 DEF End
<1>3. CASE q = r.start /\ r.size = req.size
  <2>1. m = RemoveAt(list, p)
    BY <1>3 DEF CutOut
  <2>2. Range(m) = Others(list, p)
    BY <2>1, RemoveRange, Zenon
  <2>3. Before(r, q) = {} /\ Behind(r, q, req.size, leftover) = {}
    BY <1>2, <1>3, Zenon DEF Before, Behind
  <2>4. QED BY <2>2, <2>3
<1>4. CASE q = r.start /\ r.size # req.size
  <2>1. m = [list EXCEPT ![p] = rest]
    BY <1>4 DEF CutOut
  <2>2. Range(m) = Others(list, p) \cup {rest}
    BY <2>1, ReplaceRange, Zenon
  <2>3. Before(r, q) = {} /\ Behind(r, q, req.size, leftover) = {rest}
    BY <1>2, <1>4, Zenon DEF Before, Behind
  <2>4. QED BY <2>2, <2>3
<1>5. CASE q # r.start
  <2>1. Range(kept) = Others(list, p) \cup {s}
    BY ReplaceRange, Zenon
  <2>2. Before(r, q) = {s}
    BY <1>5, Zenon DEF Before
  <2>3. CASE q + req.size = End(r)
    <3>1. m = kept
      BY <1>5, <2>3 DEF CutOut
    <3>2. Behind(r, q, req.size, leftover) = {}
      BY <2>3, Zenon DEF Behind
    <3>3. QED BY <2>1, <2>2, <3>1, <3>2
  <2>4. CASE q + req.size # End(r)
    <3>1. m = <<rest>> \o kept
      BY <1>5, <2>4 DEF CutOut
    <3>2. rest \in Region
      <4>1. q + req.size - r.start \in Nat /\ q + req.size - r.start < r.size
        BY <1>1, <2>4 DEF End
      <4>2. QED BY <1>1, <4>1, CarvedProps
    <3>3. s \in Region
      <4>1. q - r.start \in Nat /\ q - r.start > 0
        BY <1>1, <1>5
      <4>2. QED BY <1>1, <4>1, ResizedProps
    <3> HIDE DEF rest, s
    <3>4. kept \in Seq(Region) /\ <<rest>> \in Seq(Region)
      BY <3>2, <3>3
    <3>5. Range(<<rest>>) = {rest}
      BY DEF Range
    <3>6. Range(m) = {rest} \cup Range(kept)
      BY <3>1, <3>4, <3>5, ConcatRange
    <3>7. Behind(r, q, req.size, leftover) = {rest}
      BY <2>4, Zenon DEF Behind, rest
    <3>8. QED BY <2>1, <2>2, <3>6, <3>7
  <2>5. QED BY <2>3, <2>4, Zenon
<1>6. QED BY <1>3, <1>4, <1>5, Zenon

(* Two regions made one.                                                   *)
Joined(a, b) == [a EXCEPT !.size = a.size + b.size]

(* Either case of defrag: i is taken out and j has grown by it.            *)
LEMMA CoalesceRange ==
    ASSUME NEW l \in Seq(Region), NEW i \in DOMAIN l, NEW j \in DOMAIN l, i # j
    PROVE  Range(RemoveAt(Grown(l, j, l[i].size), i)) =
               {l[k] : k \in DOMAIN l \ {i, j}} \cup {Joined(l[j], l[i])}
<1> DEFINE both == Joined(l[j], l[i])
           g    == Grown(l, j, l[i].size)
<1>1. l[j] \in Region /\ l[i].size \in Nat /\ l[j].size \in Nat /\ l[j].size > 0
  BY ElementOf, RegionFields
<1>2. both \in Region
  <2>1. l[j].size + l[i].size \in Nat /\ l[j].size + l[i].size > 0
    BY <1>1
  <2>2. QED BY <1>1, <2>1, ResizedProps DEF Joined
<1>3. g = [l EXCEPT ![j] = both]
  BY DEF Grown, Joined
<1> HIDE DEF both
<1>4. /\ g \in Seq(Region) /\ DOMAIN g = DOMAIN l /\ g[j] = both
      /\ \A k \in DOMAIN l \ {j} : g[k] = l[k]
  BY <1>2, <1>3
<1> HIDE DEF g
<1>5. Range(RemoveAt(g, i)) = Others(g, i)
  BY <1>4, RemoveRange
<1>6. Others(g, i) = {l[k] : k \in DOMAIN l \ {i, j}} \cup {both}
  BY <1>4 DEF Others
<1>7. QED BY <1>5, <1>6 DEF g, both

-----------------------------------------------------------------------------
(* The bytes of the regions of a list.                                     *)

BytesIn(R) == UNION {BytesOf(r) : r \in R}

(* The free bytes are those of the regions of the free list.               *)
LEMMA FreeBytesIn == FreeBytes = BytesIn(Range(list))
BY DEF FreeBytes, BytesIn, Range

(* Looking addresses up moves no byte.                                     *)
LEMMA LookedUpBytes ==
    ASSUME NEW l \in Seq(Region)
    PROVE  BytesIn(Range(LookedUp(l))) = BytesIn(Range(l))
<1>1. \A r \in Range(l) : r \in Region
  BY ElementOf DEF Range
<1>2. \A r \in Range(l) : BytesOf(Extract(r)) = BytesOf(r)
  BY <1>1, ExtractProps, Zenon DEF BytesOf
<1>3. UNION {BytesOf(e) : e \in {Extract(r) : r \in Range(l)}} =
          UNION {BytesOf(r) : r \in Range(l)}
  BY <1>2
<1>4. QED BY <1>3, LookedUpRange, Zenon DEF BytesIn

(* A stretch of numbers, cut in two.                                       *)
LEMMA StretchSplit ==
    ASSUME NEW a \in Int, NEW b \in Int, NEW c \in Int, a <= b, b <= c
    PROVE  a .. (c - 1) = (a .. (b - 1)) \cup (b .. (c - 1))
OBVIOUS

(* Bytes of two sets of regions.                                           *)
LEMMA BytesInUnion ==
    ASSUME NEW R, NEW S
    PROVE  BytesIn(R \cup S) = BytesIn(R) \cup BytesIn(S)
BY DEF BytesIn

(* The bytes of one region.                                                *)
LEMMA BytesInOne ==
    ASSUME NEW r
    PROVE  BytesIn({r}) = BytesOf(r)
BY DEF BytesIn

(* A region is cut into what lies before, the block, and what lies behind. *)
LEMMA CutBytes ==
    ASSUME NEW r \in Region, NEW q \in Nat, NEW size \in Nat \ {0},
           NEW leftover \in BOOLEAN, r.start <= q, q + size <= End(r)
    PROVE  /\ BytesIn(Before(r, q)) = r.start .. (q - 1)
           /\ BytesIn(Behind(r, q, size, leftover)) =
                  (q + size) .. (r.start + r.size - 1)
<1>1. r.start \in Nat /\ r.size \in Nat
  BY RegionFields
<1>2. BytesIn(Before(r, q)) = r.start .. (q - 1)
  <2>1. CASE q = r.start
    <3>1. BytesIn(Before(r, q)) = {}
      BY <2>1, Zenon DEF Before, BytesIn
    <3>2. QED BY <1>1, <2>1, <3>1
  <2>2. CASE q # r.start
    <3> DEFINE s == [r EXCEPT !.size = q - r.start]
    <3>1. s.start = r.start /\ s.size = q - r.start
      <4>1. q - r.start \in Nat /\ q - r.start > 0
        BY <1>1, <2>2
      <4>2. QED BY <4>1, ResizedProps
    <3>2. Before(r, q) = {s}
      BY <2>2, Zenon DEF Before
    <3> HIDE DEF s
    <3>3. BytesIn(Before(r, q)) = s.start .. (s.start + s.size - 1)
      BY <3>2, BytesInOne DEF BytesOf
    <3>4. s.start + s.size - 1 = q - 1
      BY <1>1, <3>1
    <3>5. QED BY <3>1, <3>3, <3>4
  <2>3. QED BY <2>1, <2>2, Zenon
<1>3. BytesIn(Behind(r, q, size, leftover)) =
          (q + size) .. (r.start + r.size - 1)
  <2>1. CASE q + size = End(r)
    <3>1. BytesIn(Behind(r, q, size, leftover)) = {}
      BY <2>1, Zenon DEF Behind, BytesIn
    <3>2. QED BY <1>1, <2>1, <3>1 DEF End
  <2>2. CASE q + size # End(r)
    <3> DEFINE s == Carved(r, q + size - r.start, leftover)
    <3>1. /\ s.start = r.start + (q + size - r.start)
          /\ s.size = r.size - (q + size - r.start)
      <4>1. q + size - r.start \in Nat /\ q + size - r.start < r.size
        BY <1>1, <2>2 DEF End
      <4>2. QED BY <4>1, CarvedProps
    <3>2. Behind(r, q, size, leftover) = {s}
      BY <2>2, Zenon DEF Behind
    <3> HIDE DEF s
    <3>3. BytesIn(Behind(r, q, size, leftover)) = s.start .. (s.start + s.size - 1)
      BY <3>2, BytesInOne DEF BytesOf
    <3>4. s.start = q + size /\ s.start + s.size - 1 = r.start + r.size - 1
      BY <1>1, <3>1
    <3>5. QED BY <3>3, <3>4
  <2>3. QED BY <2>1, <2>2, Zenon
<1>4. QED BY <1>2, <1>3

(* Stretches that are apart have no byte in common.                        *)
LEMMA ApartDisjoint ==
    ASSUME NEW a, NEW b, a.start \in Nat, a.size \in Nat,
           b.start \in Nat, b.size \in Nat, Apart(a, b)
    PROVE  BytesOf(a) \cap BytesOf(b) = {}
BY DEF Apart, End, BytesOf

(* Cutting a block out takes its bytes from the free ones, and no others.  *)
LEMMA CutOutBytes ==
    ASSUME list \in Seq(Region), ListApart(list),
           NEW p \in DOMAIN list, NEW q \in Nat,
           NEW leftover \in BOOLEAN, req.size \in Nat \ {0},
           list[p].start <= q, q + req.size <= End(list[p])
    PROVE  LET taken == q .. (q + req.size - 1)
           IN  /\ taken \subseteq FreeBytes
               /\ BytesIn(Range(CutOut(p, q, leftover))) = FreeBytes \ taken
<1> DEFINE r     == list[p]
           e     == q + req.size
           taken == q .. (e - 1)
           first == r.start .. (q - 1)
           last  == e .. (r.start + r.size - 1)
           rest  == BytesIn(Others(list, p))
           m     == CutOut(p, q, leftover)
<1>1. /\ r \in Region /\ r.start \in Nat /\ r.size \in Nat
      /\ e \in Nat /\ r.start <= q /\ q < e /\ e <= r.start + r.size
  BY ElementOf, RegionFields DEF End
<1>2. Range(m) = Others(list, p) \cup Before(r, q)
                     \cup Behind(r, q, req.size, leftover)
  BY CutOutRange
<1>3. Range(list) = Others(list, p) \cup {r}
  BY OneAndOthers
<1>a. ASSUME NEW k \in DOMAIN list \ {p}
      PROVE  BytesOf(list[k]) \cap BytesOf(r) = {}
  <2>1. list[k].start \in Nat /\ list[k].size \in Nat
    BY ElementOf, RegionFields
  <2>2. Apart(list[k], r)
    BY DEF ListApart
  <2>3. QED BY <1>1, <2>1, <2>2, ApartDisjoint
<1>b. rest \cap BytesOf(r) = {}
  BY <1>a DEF BytesIn, Others
<1>4. /\ BytesIn(Before(r, q)) = first
      /\ BytesIn(Behind(r, q, req.size, leftover)) = last
  <2>1. q + req.size <= End(r)
    BY <1>1 DEF End
  <2> HIDE DEF r
  <2>2. QED BY <1>1, <2>1, CutBytes
<1> HIDE DEF r, m
<1>5. BytesIn(Range(m)) = rest \cup first \cup last
  <2>1. BytesIn(Range(m)) = BytesIn(Others(list, p) \cup Before(r, q))
                                \cup BytesIn(Behind(r, q, req.size, leftover))
    BY <1>2, BytesInUnion, Zenon
  <2>2. BytesIn(Others(list, p) \cup Before(r, q)) = rest \cup BytesIn(Before(r, q))
    BY BytesInUnion, Zenon
  <2>3. QED BY <1>4, <2>1, <2>2, Zenon
<1>6. FreeBytes = rest \cup BytesOf(r)
  <2>1. BytesIn(Range(list)) = rest \cup BytesIn({r})
    BY <1>3, BytesInUnion, Zenon
  <2>2. QED BY <2>1, FreeBytesIn, BytesInOne, Zenon
<1> HIDE DEF e
<1>7. BytesOf(r) = first \cup taken \cup last
  <2>1. BytesOf(r) = r.start .. (r.start + r.size - 1)
    BY DEF BytesOf
  <2>2. r.start .. (r.start + r.size - 1) = first \cup (q .. (r.start + r.size - 1))
    BY <1>1, StretchSplit
  <2>3. q .. (r.start + r.size - 1) = taken \cup last
    BY <1>1, StretchSplit
  <2>4. QED BY <2>1, <2>2, <2>3, Zenon
<1>8. taken \cap first = {} /\ taken \cap last = {}
  BY <1>1
<1> HIDE DEF taken, first, last, rest
<1>9. taken \subseteq FreeBytes /\ BytesIn(Range(m)) = FreeBytes \ taken
  BY <1>b, <1>5, <1>6, <1>7, <1>8
<1>10. QED BY <1>9 DEF taken, m, e

(* The bytes of a region that begins at a and ends before b.               *)
LEMMA BytesFromTo ==
    ASSUME NEW r, r.start \in Nat, r.size \in Nat,
           NEW a, NEW b, r.start = a, r.start + r.size = b
    PROVE  BytesOf(r) = a .. (b - 1)
<1>1. r.start + r.size - 1 = b - 1
  OBVIOUS
<1>2. BytesOf(r) = r.start .. (r.start + r.size - 1)
  BY DEF BytesOf
<1>3. QED BY <1>1, <1>2, Zenon

(* Coalescing two regions moves no byte.                                   *)
LEMMA CoalesceBytes ==
    ASSUME NEW l \in Seq(Region), NEW i \in DOMAIN l, NEW j \in DOMAIN l,
           i # j, l[i].start = End(l[j])
    PROVE  BytesIn(Range(RemoveAt(Grown(l, j, l[i].size), i))) = BytesIn(Range(l))
<1> DEFINE third == {l[k] : k \in DOMAIN l \ {i, j}}
           both  == Joined(l[j], l[i])
<1>1. /\ l[j] \in Region /\ l[i].start \in Nat /\ l[i].size \in Nat
      /\ l[j].start \in Nat /\ l[j].size \in Nat /\ l[j].size > 0
  BY ElementOf, RegionFields
<1>2. both.start = l[j].start /\ both.size = l[j].size + l[i].size
  <2>1. l[j].size + l[i].size \in Nat /\ l[j].size + l[i].size > 0
    BY <1>1
  <2>2. QED BY <1>1, <2>1, ResizedProps DEF Joined
<1> HIDE DEF both
<1>3. BytesOf(both) = BytesOf(l[j]) \cup BytesOf(l[i])
  <2> DEFINE a == l[j].start
             b == l[i].start
             c == a + (l[j].size + l[i].size)
  <2>1. /\ a \in Nat /\ b \in Nat /\ c \in Nat /\ a <= b /\ b <= c
        /\ b = l[j].start + l[j].size /\ c = b + l[i].size
    BY <1>1 DEF End
  <2> HIDE DEF a, b, c
  <2>2. a .. (c - 1) = (a .. (b - 1)) \cup (b .. (c - 1))
    BY <2>1, StretchSplit
  <2>3. /\ l[j].start = a /\ l[j].start + l[j].size = b
        /\ l[i].start = b /\ l[i].start + l[i].size = c
        /\ both.start = a /\ both.start + both.size = c
    BY <1>2, <2>1 DEF a, b, c
  <2>4. /\ BytesOf(l[j]) = a .. (b - 1) /\ BytesOf(l[i]) = b .. (c - 1)
        /\ BytesOf(both) = a .. (c - 1)
    <3>1. BytesOf(l[j]) = a .. (b - 1)
      BY <1>1, <2>3, BytesFromTo
    <3>2. BytesOf(l[i]) = b .. (c - 1)
      BY <1>1, <2>3, BytesFromTo
    <3>3. both.start \in Nat /\ both.size \in Nat
      BY <1>1, <1>2
    <3>4. BytesOf(both) = a .. (c - 1)
      BY <2>3, <3>3, BytesFromTo
    <3>5. QED BY <3>1, <3>2, <3>4
  <2>5. QED BY <2>2, <2>4
<1>4. Range(l) = third \cup {l[j]} \cup {l[i]}
  BY DEF Range
<1>5. Range(RemoveAt(Grown(l, j, l[i].size), i)) = third \cup {both}
  BY CoalesceRange DEF both
<1> HIDE DEF third
<1>6. BytesIn(Range(l)) = BytesIn(third) \cup BytesOf(l[j]) \cup BytesOf(l[i])
  <2>1. BytesIn(Range(l)) = BytesIn(third \cup {l[j]}) \cup BytesIn({l[i]})
    BY <1>4, BytesInUnion, Zenon
  <2>2. BytesIn(third \cup {l[j]}) = BytesIn(third) \cup BytesIn({l[j]})
    BY BytesInUnion, Zenon
  <2>3. BytesIn({l[i]}) = BytesOf(l[i]) /\ BytesIn({l[j]}) = BytesOf(l[j])
    BY BytesInOne, Zenon
  <2>4. QED BY <2>1, <2>2, <2>3, Zenon
<1>7. BytesIn(third \cup {both}) = BytesIn(third) \cup BytesOf(both)
  <2>1. BytesIn(third \cup {both}) = BytesIn(third) \cup BytesIn({both})
    BY BytesInUnion, Zenon
  <2>2. BytesIn({both}) = BytesOf(both)
    BY BytesInOne, Zenon
  <2>3. QED BY <2>1, <2>2, Zenon
<1>8. QED BY <1>3, <1>5, <1>6, <1>7

(* The pages of a pool cover its extent.                                   *)
LEMMA PagesBytes ==
    ASSUME NEW k \in DOMAIN Pools, ValidPool(Pools[k])
    PROVE  BytesIn(Range(Pages(Pools[k]))) = PoolBytes(k)
<1> DEFINE p     == Pools[k]
           c     == PageCount(p)
           s     == p.page
           pages == Pages(p)
<1>1. p.base \in Nat /\ s \in Nat \ {0}
  <2>1. Pools[k] \in [base : Nat, size : Nat, page : Nat \ {0}, cached : BOOLEAN]
    BY PoolsAssumption, ElementOf, Zenon
  <2>2. QED BY <2>1
<1>2. c \in Nat /\ c * s \in Nat
  <2>1. c \in Nat
    BY ExtentType
  <2>2. QED BY <1>1, <2>1
<1>3. Rounded(s) = s
  <2>1. s > RegionSize /\ s % RegionAlign = 0
    BY PageAlignmentAssumption DEF ValidPool
  <2>2. QED BY <1>1, <2>1, RoundUpProps, LayoutAssumption DEF Rounded, Larger
<1>4. PoolBytes(k) = p.base .. (p.base + c * s - 1)
  BY DEF PoolBytes, Extent, BytesOf
<1>5. /\ DOMAIN pages = 1 .. c
      /\ \A n \in 1 .. c : /\ pages[n].start = p.base + (c - n) * s
                           /\ pages[n].size = s
  BY <1>3 DEF Pages, FreedRegion
<1> HIDE DEF c, s, p, pages
<1>6. ASSUME NEW n \in 1 .. c
      PROVE  BytesOf(pages[n]) \subseteq p.base .. (p.base + c * s - 1)
  <2>1. c - n \in Nat /\ c - n < c
    BY <1>2
  <2>2. (c - n) * s + s <= c * s /\ (c - n) * s \in Nat
    BY <1>1, <1>2, <2>1, PagesApart
  <2>3. BytesOf(pages[n]) =
            (p.base + (c - n) * s) .. (p.base + (c - n) * s + s - 1)
    BY <1>5 DEF BytesOf
  <2>4. QED BY <1>1, <1>2, <2>2, <2>3
<1>7. ASSUME NEW x \in p.base .. (p.base + c * s - 1)
      PROVE  \E n \in 1 .. c : x \in BytesOf(pages[n])
  <2> DEFINE d == x - p.base
             m == d \div s
  <2>1. d \in Nat /\ d < c * s /\ x = p.base + d
    BY <1>1, <1>2
  <2> HIDE DEF d
  <2>2. d = m * s + (d % s) /\ m \in Nat /\ d % s \in 0 .. s - 1
    BY <1>1, <2>1, DivProps
  <2> HIDE DEF m
  <2>3. m < c
    <3>1. ASSUME c <= m PROVE FALSE
      <4>1. CASE c = m
        BY <1>1, <1>2, <2>1, <2>2, <4>1
      <4>2. CASE c < m
        <5>1. c * s + s <= m * s /\ m * s \in Nat
          BY <1>1, <1>2, <2>2, <4>2, PagesApart
        <5>2. QED BY <1>1, <1>2, <2>1, <2>2, <5>1
      <4>3. QED BY <1>2, <2>2, <3>1, <4>1, <4>2
    <3>2. QED BY <1>2, <2>2, <3>1
  <2>4. c - m \in 1 .. c /\ c - (c - m) = m
    BY <1>2, <2>2, <2>3
  <2>5. pages[c - m].start = p.base + m * s /\ pages[c - m].size = s
    BY <1>5, <2>4
  <2>6. m * s \in Nat
    BY <1>1, <2>2
  <2>7. x \in BytesOf(pages[c - m])
    <3>1. x \in (p.base + m * s) .. (p.base + m * s + s - 1)
      BY <1>1, <2>1, <2>2, <2>6
    <3>2. QED BY <2>5, <3>1, Zenon DEF BytesOf
  <2>8. QED BY <2>4, <2>7
<1>8. BytesIn(Range(pages)) = p.base .. (p.base + c * s - 1)
  BY <1>5, <1>6, <1>7, Zenon DEF BytesIn, Range
<1>9. QED BY <1>4, <1>8 DEF pages, p

-----------------------------------------------------------------------------
(* What each action does to the free bytes.                                *)

(* The free bytes of the next state.                                       *)
LEMMA FreeBytesNext == FreeBytes' = BytesIn(Range(list'))
BY DEF FreeBytes, BytesIn, Range

(* microkit_dma_init adds the pool's.                                      *)
LEMMA DmaInitBytes ==
    ASSUME IInv, NEW k \in DOMAIN Pools, DmaInit(k)
    PROVE  FreeBytes' = FreeBytes \cup PoolBytes(k)
<1>1. list \in Seq(Region)
  BY UntouchedList
<1>2. Pages(Pools[k]) \in Seq(Region) /\ ValidPool(Pools[k])
  BY PagesProps DEF DmaInit
<1>3. list' = LookedUp(Pages(Pools[k]) \o list)
  BY DEF DmaInit
<1> DEFINE pages == Pages(Pools[k])
<1>4. BytesIn(Range(list')) = BytesIn(Range(pages \o list))
  <2>1. pages \o list \in Seq(Region)
    BY <1>1, <1>2, ConcatProps
  <2>2. QED BY <1>3, <2>1, LookedUpBytes, Zenon
<1>5. BytesIn(Range(pages \o list)) = BytesIn(Range(pages)) \cup BytesIn(Range(list))
  BY <1>1, <1>2, ConcatRange, BytesInUnion, Zenon
<1>6. BytesIn(Range(pages)) = PoolBytes(k)
  BY <1>2, PagesBytes, Zenon
<1>7. QED BY <1>4, <1>5, <1>6, FreeBytesNext, FreeBytesIn

(* microkit_dma_free adds the block's.                                     *)
LEMMA DmaFreeBytes ==
    ASSUME IInv, NEW b \in live, DmaFree(b)
    PROVE  FreeBytes' = FreeBytes \cup BytesOf(b)
<1> DEFINE r == FreedRegion(b.start, b.asked, TRUE)
<1>1. b \in Block /\ b.start \in Nat /\ b.size \in Nat /\ b.size # 0
  BY BlockFields DEF IInv, TypeOK
<1>2. b.size = Rounded(b.asked)
  BY DEF IInv
<1>3. r \in Region /\ r.start = b.start /\ r.size = b.size
  BY <1>1, <1>2 DEF FreedRegion, Region
<1>4. list \in Seq(Region) /\ list' = LookedUp(<<r>> \o list)
  BY UntouchedList DEF DmaFree
<1> HIDE DEF r
<1>5. <<r>> \in Seq(Region) /\ Range(<<r>>) = {r}
  BY <1>3 DEF Range
<1>6. BytesIn(Range(list')) = BytesIn(Range(<<r>> \o list))
  <2>1. <<r>> \o list \in Seq(Region)
    BY <1>4, <1>5, ConcatProps
  <2>2. QED BY <1>4, <2>1, LookedUpBytes, Zenon
<1>7. BytesIn(Range(<<r>> \o list)) = BytesIn(Range(<<r>>)) \cup BytesIn(Range(list))
  BY <1>4, <1>5, ConcatRange, BytesInUnion, Zenon
<1>8. BytesIn(Range(<<r>>)) = BytesOf(b)
  BY <1>3, <1>5, BytesInOne, Zenon DEF BytesOf
<1>9. QED BY <1>6, <1>7, <1>8, FreeBytesNext, FreeBytesIn

(* A successful allocation takes those of the block it returns, which it   *)
(* cuts out of a region, aligned as asked, and which were free.            *)
LEMMA AllocSucceedsBlock ==
    ASSUME IInv, AllocSucceeds
    PROVE  \E p \in DOMAIN list, leftover \in BOOLEAN, q \in Nat :
             LET b == [start |-> q, size |-> req.size, asked |-> req.asked]
             IN  /\ list[p].start <= q /\ q + req.size <= End(list[p])
                 /\ q \in Placements(list[p], req.size, req.align)
                 /\ list' = LookedUp(CutOut(p, q, leftover))
                 /\ b \in Block /\ b.size >= b.asked
                 /\ live' = live \cup {b}
                 /\ BytesOf(b) \subseteq FreeBytes
                 /\ FreeBytes' = FreeBytes \ BytesOf(b)
                 /\ q % req.align = 0
<1>1. PICK p \in DOMAIN list, leftover \in BOOLEAN :
        /\ FirstFit(p)
        /\ \E q \in list[p].start .. End(list[p]) :
            /\ LastPlacement(list[p], q)
            /\ list' = LookedUp(CutOut(p, q, leftover))
            /\ live' = live \cup
                {[start |-> q, size |-> req.size, asked |-> req.asked]}
  BY Zenon DEF AllocSucceeds
<1>2. PICK q \in list[p].start .. End(list[p]) :
        /\ LastPlacement(list[p], q)
        /\ list' = LookedUp(CutOut(p, q, leftover))
        /\ live' = live \cup
            {[start |-> q, size |-> req.size, asked |-> req.asked]}
  BY <1>1, Zenon
<1> DEFINE b == [start |-> q, size |-> req.size, asked |-> req.asked]
           m == CutOut(p, q, leftover)
<1>3. /\ req.size \in Nat /\ req.size # 0 /\ req.size = Rounded(req.asked)
      /\ req.asked \in Nat
  BY DEF AllocSucceeds, Attempting, IInv, TypeOK
<1>4. list \in Seq(Region) /\ ListApart(list)
  BY UntouchedList
<1>5. list[p].start \in Nat /\ list[p].size \in Nat
  BY <1>4, ElementOf, RegionFields
<1>6. /\ q \in list[p].start .. (End(list[p]) - req.size)
      /\ q % req.align = 0
      /\ q \in Placements(list[p], req.size, req.align)
  BY <1>2 DEF LastPlacement, Placements, Tried
<1>7. q \in Nat /\ list[p].start <= q /\ q + req.size <= End(list[p])
  BY <1>3, <1>5, <1>6 DEF End
<1>8. b \in Block /\ b.size >= b.asked
  BY <1>3, <1>7, RoundedProps DEF Block
<1>9. m \in Seq(Region)
  BY <1>3, <1>4, <1>7, CutOutApart
<1>10. /\ q .. (q + req.size - 1) \subseteq FreeBytes
       /\ BytesIn(Range(m)) = FreeBytes \ (q .. (q + req.size - 1))
  BY <1>3, <1>4, <1>7, CutOutBytes
<1>11. BytesOf(b) = q .. (q + req.size - 1)
  BY DEF BytesOf
<1>12. FreeBytes' = FreeBytes \ BytesOf(b)
  <2>1. BytesIn(Range(list')) = BytesIn(Range(m))
    BY <1>2, <1>9, LookedUpBytes, Zenon
  <2>2. QED BY <1>10, <1>11, <2>1, FreeBytesNext, Zenon
<1> HIDE DEF m
<1>13. /\ list[p].start <= q /\ q + req.size <= End(list[p])
       /\ q \in Placements(list[p], req.size, req.align)
       /\ list' = LookedUp(CutOut(p, q, leftover))
       /\ b \in Block /\ b.size >= b.asked
       /\ live' = live \cup {b}
       /\ BytesOf(b) \subseteq FreeBytes
       /\ FreeBytes' = FreeBytes \ BytesOf(b)
       /\ q % req.align = 0
  BY <1>2, <1>6, <1>7, <1>8, <1>10, <1>11, <1>12, Zenon
<1>14. QED BY <1>7, <1>13

(* Coalescing moves none.                                                  *)
LEMMA DefragCoalesceBytes ==
    ASSUME IInv, NEW q \in DOMAIN list, DefragCoalesce(q)
    PROVE  FreeBytes' = FreeBytes
<1>1. list \in Seq(Region)
  BY UntouchedList
<1>2. outer \in DOMAIN list /\ q # outer
  BY <1>1 DEF DefragCoalesce, IInv, TypeOK
<1>3. CASE Follows(list[outer], list[q])
  <2>1. list' = RemoveAt(Grown(list, q, list[outer].size), outer)
    BY <1>3, Zenon DEF DefragCoalesce
  <2>2. list[outer].start = End(list[q])
    BY <1>3 DEF Follows
  <2>3. BytesIn(Range(list')) = BytesIn(Range(list))
    BY <1>1, <1>2, <2>1, <2>2, CoalesceBytes
  <2>4. QED BY <2>3, FreeBytesIn, FreeBytesNext
<1>4. CASE ~Follows(list[outer], list[q])
  <2>1. list' = RemoveAt(Grown(list, outer, list[q].size), q)
    BY <1>4, Zenon DEF DefragCoalesce
  <2>2. list[q].start = End(list[outer])
    BY <1>4 DEF DefragCoalesce, Mergeable, Follows
  <2>3. BytesIn(Range(list')) = BytesIn(Range(list))
    BY <1>1, <1>2, <2>1, <2>2, CoalesceBytes
  <2>4. QED BY <2>3, FreeBytesIn, FreeBytesNext
<1>5. QED BY <1>3, <1>4

(* Nor does any other step.                                                *)
LEMMA OtherBytes ==
    ASSUME IInv,
           \/ DmaFreeNull
           \/ \E r \in Requests : DmaAlloc(r)
           \/ StartDefrag
           \/ AllocFails
           \/ DefragAdvance
           \/ UNCHANGED vars
    PROVE  FreeBytes' = FreeBytes /\ live' = live /\ added' = added
<1>1. list \in Seq(Region)
  BY UntouchedList
<1>2. /\ list' = list \/ list' = LookedUp(list)
      /\ live' = live /\ added' = added
  BY DEF DmaFreeNull, DmaAlloc, StartDefrag, AllocFails, DefragAdvance, vars
<1>3. BytesIn(Range(list')) = BytesIn(Range(list))
  BY <1>1, <1>2, LookedUpBytes
<1>4. QED BY <1>2, <1>3, FreeBytesIn, FreeBytesNext

-----------------------------------------------------------------------------
(* The physical address in a header.                                       *)

(* The address of a region lies in a frame other than the first.           *)
Framed(r) == PaddrOf(r.start) >= FrameSize

Addressed(r) == TryExtract(r) = PaddrOf(r.start)

(* A frame's number and the offset of the virtual address give the         *)
(* physical one back.                                                      *)
LEMMA FrameRecovers ==
    ASSUME NEW x \in Nat, PaddrOf(x) >= FrameSize
    PROVE  LET u == PaddrOf(x) \div FrameSize
           IN  /\ u \in Nat /\ u # 0
               /\ u * FrameSize + (x % FrameSize) = PaddrOf(x)
<1> DEFINE F == FrameSize
           P == PaddrOf(x)
           u == P \div F
<1>1. F \in Nat \ {0} /\ P \in Nat /\ P >= F /\ P = PaddrOffset + x
      /\ PaddrOffset \in Nat /\ PaddrOffset % F = 0
  BY LayoutAssumption, FramesAssumption DEF PaddrOf
<1> HIDE DEF F, P
<1>2. P = u * F + (P % F) /\ u \in Nat /\ P % F \in 0 .. F - 1
  BY <1>1, DivProps
<1>3. P % F = x % F
  BY <1>1, AddMultiple
<1> HIDE DEF u
<1>4. u # 0
  BY <1>1, <1>2
<1>5. u \in Nat /\ u # 0 /\ u * F + (x % F) = P
  BY <1>2, <1>3, <1>4
<1>6. QED BY <1>5 DEF u, P, F

(* check_consistency() completes a header that knows its address or none.  *)
LEMMA ExtractAddressed ==
    ASSUME NEW r \in Region, Framed(r), r.upper = 0 \/ Addressed(r)
    PROVE  Addressed(Extract(r))
<1> DEFINE u == PaddrOf(r.start) \div FrameSize
           e == [r EXCEPT !.upper = u]
<1>1. r.start \in Nat /\ FrameSize # 0 /\ PaddrOf(r.start) \in Nat
      /\ FrameSize \in Nat
  BY RegionFields, LayoutAssumption DEF PaddrOf
<1>2. /\ u \in Nat /\ u # 0
      /\ u * FrameSize + (r.start % FrameSize) = PaddrOf(r.start)
  BY <1>1, FrameRecovers DEF Framed
<1> HIDE DEF u
<1>3. CASE TryExtract(r) # 0
  <2>1. Extract(r) = r /\ r.upper # 0
    BY <1>3 DEF Extract, TryExtract
  <2>2. QED BY <2>1
<1>4. CASE TryExtract(r) = 0
  <2>1. Extract(r) = e
    BY <1>4 DEF Extract, u
  <2>2. e.upper = u /\ e.start = r.start
    BY DEF Region
  <2> HIDE DEF e
  <2>3. TryExtract(e) = u * FrameSize + (r.start % FrameSize)
    BY <1>2, <2>2 DEF TryExtract
  <2>4. QED BY <1>2, <2>1, <2>2, <2>3 DEF Addressed
<1>5. QED BY <1>3, <1>4

(* A part carved out of a region knows its address as the region did.      *)
LEMMA CarvedAddressed ==
    ASSUME NEW r \in Region, Framed(r), Addressed(r),
           NEW offset \in Nat, NEW leftover \in BOOLEAN
    PROVE  Addressed(Carved(r, offset, leftover))
<1> DEFINE c == Carved(r, offset, leftover)
           x == r.start + offset
           u == PaddrOf(x) \div FrameSize
<1>1. r.start \in Nat /\ FrameSize \in Nat \ {0} /\ PaddrOffset \in Nat
  BY RegionFields, LayoutAssumption
<1>2. TryExtract(r) = r.start + PaddrOffset /\ r.start + PaddrOffset >= FrameSize
  BY DEF Addressed, Framed, PaddrOf
<1>3. /\ TryExtract(r) # 0
      /\ TryExtract(r) + offset = PaddrOf(x)
      /\ x \in Nat /\ PaddrOf(x) >= FrameSize
  BY <1>1, <1>2 DEF PaddrOf
<1>4. c.start = x /\ c.upper = u
  BY <1>3 DEF Carved
<1> HIDE DEF c, x
<1>5. u # 0 /\ u * FrameSize + (x % FrameSize) = PaddrOf(x)
  BY <1>3, FrameRecovers
<1> HIDE DEF u
<1>6. TryExtract(c) = u * FrameSize + (x % FrameSize)
  BY <1>4, <1>5 DEF TryExtract
<1>7. QED BY <1>4, <1>5, <1>6 DEF Addressed, c

(* A change of its size does not change its address.                       *)
LEMMA ResizedAddressed ==
    ASSUME NEW r \in Region, Addressed(r), NEW n \in Nat, n > 0
    PROVE  Addressed([r EXCEPT !.size = n])
<1> DEFINE e == [r EXCEPT !.size = n]
<1>1. e.start = r.start /\ e.upper = r.upper
  BY DEF Region
<1> HIDE DEF e
<1>2. QED BY <1>1 DEF Addressed, TryExtract, e

-----------------------------------------------------------------------------
(* The headers of the free list.                                           *)

Fits(r) == r.size >= RegionSize /\ r.start % RegionAlign = 0

(* HeadersFit and PaddrCorrect, region by region.                          *)
LEMMA HeadersIn ==
    /\ HeadersFit <=> /\ \A r \in Range(list) : Fits(r)
                      /\ \A b \in live : Fits(b)
    /\ PaddrCorrect <=> \A r \in Range(list) : Addressed(r)
<1>1. HeadersFit <=> /\ \A r \in Range(list) : Fits(r)
                     /\ \A b \in live : Fits(b)
  BY DEF HeadersFit, Fits, Range
<1>2. PaddrCorrect <=> \A r \in Range(list) : Addressed(r)
  BY DEF PaddrCorrect, Addressed, Range
<1>3. QED BY <1>1, <1>2

(* And in the next state.                                                  *)
LEMMA HeadersNext ==
    /\ HeadersFit' <=> /\ \A r \in Range(list') : Fits(r)
                       /\ \A b \in live' : Fits(b)
    /\ PaddrCorrect' <=> \A r \in Range(list') : Addressed(r)
<1>1. HeadersFit' <=> /\ \A r \in Range(list') : Fits(r)
                      /\ \A b \in live' : Fits(b)
  BY DEF HeadersFit, Fits, Range
<1>2. PaddrCorrect' <=> \A r \in Range(list') : Addressed(r)
  BY DEF PaddrCorrect, Addressed, Range
<1>3. QED BY <1>1, <1>2

(* Memory of valid pools lies in frames other than the first.              *)
LEMMA PoolsFramed ==
    ASSUME NEW added0 \in SUBSET DOMAIN Pools,
           \A k \in added0 : ValidPool(Pools[k]),
           NEW r \in Region,
           BytesOf(r) \subseteq UNION {PoolBytes(k) : k \in added0}
    PROVE  Framed(r)
<1>1. r.start \in Nat /\ r.size \in Nat /\ r.size > 0
  BY RegionFields
<1>2. r.start \in BytesOf(r)
  BY <1>1 DEF BytesOf
<1>3. PICK k \in added0 : r.start \in PoolBytes(k)
  BY <1>2
<1>4. Pools[k].base \in Nat
  <2>1. Pools[k] \in [base : Nat, size : Nat, page : Nat \ {0}, cached : BOOLEAN]
    BY PoolsAssumption, ElementOf, Zenon
  <2>2. QED BY <2>1
<1>5. Pools[k].base <= r.start
  <2>1. r.start \in Extent(Pools[k]).start ..
                        (Extent(Pools[k]).start + Extent(Pools[k]).size - 1)
    BY <1>3 DEF PoolBytes, BytesOf
  <2>2. Extent(Pools[k]).start = Pools[k].base
    BY DEF Extent
  <2>3. Extent(Pools[k]).size \in Nat
    BY ExtentType
  <2>4. QED BY <1>1, <1>4, <2>1, <2>2, <2>3
<1>6. PaddrOf(Pools[k].base) >= FrameSize
  BY FramesAssumption
<1>7. QED BY <1>1, <1>4, <1>5, <1>6, LayoutAssumption DEF Framed, PaddrOf

(* What is left to show of a step that may rework the free list, once its  *)
(* bytes are accounted for.                                                *)
LEMMA BooksNext ==
    ASSUME added' \in SUBSET DOMAIN Pools,
           \A k \in added' : ValidPool(Pools[k]),
           pc' \in {"try", "defrag"} =>
               req'.align # 0 /\ req'.align % RegionAlign = 0,
           Conservation',
           NEW l \in Seq(Region),
           \A r \in Range(l) : Fits(r) /\ (r.upper = 0 \/ Addressed(r)),
           \/ list' = LookedUp(l)
           \/ list' = l /\ \A r \in Range(l) : Addressed(r),
           \A b \in live' : Fits(b),
           PassedApart'
    PROVE  BooksInv'
<1>1. BytesIn(Range(list')) = BytesIn(Range(l))
  BY LookedUpBytes
<1>2. \A r \in Range(l) : r \in Region
  BY ElementOf DEF Range
<1>3. BytesIn(Range(l)) \subseteq UNION {PoolBytes(k) : k \in added'}
  BY <1>1, FreeBytesNext DEF Conservation
<1>4. ASSUME NEW r \in Range(l) PROVE Framed(r)
  <2>1. BytesOf(r) \subseteq UNION {PoolBytes(k) : k \in added'}
    BY <1>3, <1>4 DEF BytesIn
  <2>2. QED BY <1>2, <1>4, <2>1, PoolsFramed
<1>5. ASSUME NEW r \in Range(l)
      PROVE  Fits(Extract(r)) /\ Addressed(Extract(r))
  <2>1. r \in Region /\ Framed(r)
    BY <1>2, <1>4, <1>5
  <2>2. Extract(r).start = r.start /\ Extract(r).size = r.size
    BY <2>1, ExtractProps
  <2>3. Fits(Extract(r))
    BY <2>2 DEF Fits
  <2>4. QED BY <2>1, <2>3, ExtractAddressed
<1>6. \A r \in Range(list') : Fits(r) /\ Addressed(r)
  BY <1>5, LookedUpRange
<1>7. HeadersFit' /\ PaddrCorrect'
  BY <1>6, HeadersNext
<1>8. QED BY <1>7 DEF BooksInv

(* The books before a step.                                                *)
LEMMA BooksParts ==
    ASSUME BooksInv, IInv
    PROVE  /\ added \in SUBSET DOMAIN Pools
           /\ \A k \in added : ValidPool(Pools[k])
           /\ \A r \in Range(list) : r \in Region /\ Fits(r) /\ Addressed(r)
           /\ \A r \in Range(list) : Framed(r)
           /\ \A b \in live : b \in Block /\ Fits(b)
           /\ FreeBytes \cup LiveBytes = UNION {PoolBytes(k) : k \in added}
<1>1. /\ added \in SUBSET DOMAIN Pools
      /\ \A k \in added : ValidPool(Pools[k])
      /\ \A r \in Range(list) : Fits(r) /\ Addressed(r)
      /\ \A b \in live : b \in Block /\ Fits(b)
      /\ FreeBytes \cup LiveBytes = UNION {PoolBytes(k) : k \in added}
  BY HeadersIn DEF BooksInv, IInv, TypeOK, Conservation
<1>2. \A r \in Range(list) : r \in Region
  BY UntouchedList, ElementOf DEF Range
<1>3. ASSUME NEW r \in Range(list) PROVE Framed(r)
  <2>1. BytesOf(r) \subseteq UNION {PoolBytes(k) : k \in added}
    BY <1>1, FreeBytesIn DEF BytesIn
  <2>2. QED BY <1>1, <1>2, <2>1, PoolsFramed
<1>4. QED BY <1>1, <1>2, <1>3

(* Initially there is nothing to account for.                              *)
LEMMA InitBooks == Init => BooksInv
<1> SUFFICES ASSUME Init PROVE BooksInv
  OBVIOUS
<1>1. list = <<>> /\ DOMAIN list = {} /\ live = {} /\ added = {} /\ pc = "idle"
  BY DEF Init
<1>2. FreeBytes = {} /\ LiveBytes = {} /\ UNION {PoolBytes(k) : k \in added} = {}
  BY <1>1 DEF FreeBytes, LiveBytes
<1>3. QED BY <1>1, <1>2
  DEF BooksInv, Conservation, HeadersFit, PaddrCorrect, PassedApart

(* The headers of a new pool's pages.                                      *)
LEMMA PagesFit ==
    ASSUME NEW k \in DOMAIN Pools, ValidPool(Pools[k])
    PROVE  \A r \in Range(Pages(Pools[k])) : Fits(r) /\ r.upper = 0
<1> DEFINE p == Pools[k]
           c == PageCount(p)
<1>1. p.base \in Nat /\ p.page \in Nat \ {0} /\ RegionAlign \in Nat \ {0}
  <2>1. Pools[k] \in [base : Nat, size : Nat, page : Nat \ {0}, cached : BOOLEAN]
    BY PoolsAssumption, ElementOf, Zenon
  <2>2. QED BY <2>1, LayoutAssumption
<1>2. p.base % RegionAlign = 0 /\ p.page % RegionAlign = 0 /\ c \in Nat
  BY PageAlignmentAssumption, ExtentType DEF ValidPool
<1> HIDE DEF p
<1>3. ASSUME NEW n \in 1 .. c
      PROVE  Fits(FreedRegion(p.base + (c - n) * p.page, p.page, p.cached))
  <2> DEFINE m == (c - n) * p.page
  <2>1. c - n \in Nat
    BY <1>2
  <2>2. m \in Nat /\ m % p.page = 0
    <3> DEFINE d == c - n
               s == p.page
    <3>1. d \in Nat /\ s \in Nat \ {0} /\ m = d * s
      BY <1>1, <2>1
    <3> HIDE DEF d, s, m
    <3>2. (d * s) % s = 0 /\ d * s \in Nat
      BY <3>1, MultipleMod
    <3>3. QED BY <3>1, <3>2 DEF s
  <2> HIDE DEF m
  <2>3. m % RegionAlign = 0
    BY <1>1, <1>2, <2>2, MultipleTransitive
  <2>4. (p.base + m) % RegionAlign = 0
    BY <1>1, <1>2, <2>2, <2>3, AddMultiple
  <2>5. Rounded(p.page) >= RegionSize
    BY <1>1, RoundedProps
  <2>6. QED BY <2>4, <2>5 DEF Fits, FreedRegion, m
<1> DEFINE pages == Pages(Pools[k])
<1>4. /\ DOMAIN pages = 1 .. c
      /\ \A n \in 1 .. c :
            pages[n] = FreedRegion(p.base + (c - n) * p.page, p.page, p.cached)
  BY DEF Pages, p
<1> HIDE DEF pages, c
<1>5. \A n \in 1 .. c : Fits(pages[n]) /\ pages[n].upper = 0
  BY <1>3, <1>4 DEF FreedRegion
<1>6. QED BY <1>4, <1>5 DEF Range, pages

(* microkit_dma_init.                                                      *)
LEMMA DmaInitBooks ==
    ASSUME IInv, BooksInv, NEW k \in DOMAIN Pools, DmaInit(k)
    PROVE  BooksInv'
<1> DEFINE l == Pages(Pools[k]) \o list
<1>1. /\ added' = added \cup {k} /\ live' = live /\ pc' = "idle"
      /\ list' = LookedUp(l) /\ ValidPool(Pools[k])
  BY DEF DmaInit
<1>2. /\ added \in SUBSET DOMAIN Pools
      /\ \A j \in added : ValidPool(Pools[j])
      /\ \A r \in Range(list) : Fits(r) /\ Addressed(r)
      /\ \A b \in live : Fits(b)
      /\ FreeBytes \cup LiveBytes = UNION {PoolBytes(j) : j \in added}
  BY BooksParts
<1>3. Conservation'
  <2>1. FreeBytes' = FreeBytes \cup PoolBytes(k)
    BY DmaInitBytes
  <2>2. LiveBytes' = LiveBytes
    BY <1>1 DEF LiveBytes
  <2>3. UNION {PoolBytes(j) : j \in added'} =
            (UNION {PoolBytes(j) : j \in added}) \cup PoolBytes(k)
    BY <1>1
  <2>4. FreeBytes' \cup LiveBytes' = UNION {PoolBytes(j) : j \in added'}
    BY <1>2, <2>1, <2>2, <2>3
  <2>5. QED BY <2>4 DEF Conservation
<1>4. /\ Pages(Pools[k]) \in Seq(Region) /\ list \in Seq(Region)
      /\ l \in Seq(Region)
      /\ Range(l) = Range(Pages(Pools[k])) \cup Range(list)
  BY <1>1, PagesProps, UntouchedList, ConcatProps, ConcatRange
<1> HIDE DEF l
<1>5. \A r \in Range(l) : Fits(r) /\ (r.upper = 0 \/ Addressed(r))
  BY <1>1, <1>2, <1>4, PagesFit
<1>6. PassedApart'
  BY <1>1 DEF PassedApart
<1>7. QED BY <1>1, <1>2, <1>3, <1>4, <1>5, <1>6, BooksNext

(* microkit_dma_free.                                                      *)
LEMMA DmaFreeBooks ==
    ASSUME IInv, BooksInv, NEW b \in live, DmaFree(b)
    PROVE  BooksInv'
<1> DEFINE f == FreedRegion(b.start, b.asked, TRUE)
           l == <<f>> \o list
<1>1. /\ added' = added /\ live' = live \ {b} /\ pc' = "idle"
      /\ list' = LookedUp(l)
  BY DEF DmaFree
<1>2. /\ added \in SUBSET DOMAIN Pools
      /\ \A j \in added : ValidPool(Pools[j])
      /\ \A r \in Range(list) : Fits(r) /\ Addressed(r)
      /\ \A a \in live : a \in Block /\ Fits(a)
      /\ FreeBytes \cup LiveBytes = UNION {PoolBytes(j) : j \in added}
  BY BooksParts
<1>3. Conservation'
  <2>1. FreeBytes' = FreeBytes \cup BytesOf(b)
    BY DmaFreeBytes
  <2>2. LiveBytes = LiveBytes' \cup BytesOf(b)
    BY <1>1 DEF LiveBytes
  <2>3. FreeBytes' \cup LiveBytes' = UNION {PoolBytes(j) : j \in added'}
    BY <1>1, <1>2, <2>1, <2>2
  <2>4. QED BY <2>3 DEF Conservation
<1>4. b.start \in Nat /\ b.size \in Nat \ {0} /\ b.size = Rounded(b.asked)
  BY <1>2, BlockFields DEF IInv
<1>5. /\ f \in Region /\ f.upper = 0 /\ f.start = b.start /\ f.size = b.size
  BY <1>4 DEF FreedRegion, Region
<1> HIDE DEF f
<1>6. /\ <<f>> \in Seq(Region) /\ list \in Seq(Region)
      /\ Range(<<f>>) = {f}
  BY <1>5, UntouchedList DEF Range
<1>7. l \in Seq(Region) /\ Range(l) = {f} \cup Range(list)
  BY <1>6, ConcatProps, ConcatRange
<1> HIDE DEF l
<1>8. Fits(f)
  BY <1>2, <1>5 DEF Fits
<1>9. \A r \in Range(l) : Fits(r) /\ (r.upper = 0 \/ Addressed(r))
  BY <1>2, <1>5, <1>7, <1>8
<1>10. PassedApart'
  BY <1>1 DEF PassedApart
<1>11. QED BY <1>1, <1>2, <1>3, <1>7, <1>9, <1>10, BooksNext

(* microkit_dma_alloc begins; its alignment is at least the header's.      *)
LEMMA DmaAllocBooks ==
    ASSUME IInv, BooksInv, NEW r \in Requests, DmaAlloc(r)
    PROVE  BooksInv'
<1>1. /\ list' = list /\ live' = live /\ added' = added /\ pc' = "try"
      /\ req'.align = Larger(r.align, RegionAlign)
  BY DEF DmaAlloc
<1>2. r.align \in Nat /\ (r.align <= RegionAlign \/ r.align % RegionAlign = 0)
  BY RequestsAssumption, RequestAlignmentAssumption
<1>3. RegionAlign \in Nat \ {0} /\ RegionAlign % RegionAlign = 0
  <2>1. (1 * RegionAlign) % RegionAlign = 0
    BY LayoutAssumption, MultipleMod
  <2>2. QED BY <2>1, LayoutAssumption
<1>4. req'.align # 0 /\ req'.align % RegionAlign = 0
  <2>1. CASE r.align >= RegionAlign
    <3>1. req'.align = r.align
      BY <1>1, <2>1 DEF Larger
    <3>2. r.align = RegionAlign \/ r.align % RegionAlign = 0
      BY <1>2, <1>3, <2>1
    <3>3. QED BY <1>2, <1>3, <2>1, <3>1, <3>2
  <2>2. CASE ~(r.align >= RegionAlign)
    BY <1>1, <1>3, <2>2 DEF Larger
  <2>3. QED BY <2>1, <2>2
<1>5. /\ FreeBytes' = FreeBytes /\ LiveBytes' = LiveBytes
      /\ HeadersFit' = HeadersFit /\ PaddrCorrect' = PaddrCorrect
  BY <1>1 DEF FreeBytes, LiveBytes, HeadersFit, PaddrCorrect
<1>6. QED BY <1>1, <1>4, <1>5 DEF BooksInv, Conservation, PassedApart

(* What an allocation leaves of the region it cuts a block out of: headers *)
(* fit there, because the scan tries no place where they would not.        *)
LEMMA CutOutFit ==
    ASSUME NEW r \in Region, Fits(r), Addressed(r), Framed(r),
           NEW q \in Nat, NEW size \in Nat \ {0}, NEW align \in Nat \ {0},
           NEW leftover \in BOOLEAN,
           align % RegionAlign = 0, size % RegionAlign = 0,
           q \in Placements(r, size, align), q % align = 0,
           r.start <= q, q + size <= End(r)
    PROVE  /\ \A e \in Before(r, q) \cup Behind(r, q, size, leftover) :
                 Fits(e) /\ Addressed(e)
           /\ q % RegionAlign = 0
<1>1. /\ r.start \in Nat /\ r.size \in Nat /\ End(r) = r.start + r.size
      /\ RegionSize \in Nat /\ RegionAlign \in Nat \ {0}
  BY RegionFields, LayoutAssumption DEF End
<1>2. q % RegionAlign = 0
  BY <1>1, MultipleTransitive
<1>3. (q + size) % RegionAlign = 0
  BY <1>1, <1>2, AddMultiple
<1>4. q = r.start \/ q >= r.start + RegionSize
  <2>1. q \in Tried(r, size, align)
    BY DEF Placements
  <2>2. q \in {h \in r.start .. (End(r) - size) : h % align = 0} /\ q >= q
    BY <1>1
  <2>3. QED BY <2>1, <2>2 DEF Tried
<1>5. End(r) - (q + size) = 0 \/ End(r) - (q + size) >= RegionSize
  BY DEF Placements
<1>6. ASSUME NEW e \in Before(r, q) PROVE Fits(e) /\ Addressed(e)
  <2>1. q # r.start /\ e = [r EXCEPT !.size = q - r.start]
    BY <1>6 DEF Before
  <2>2. q - r.start \in Nat /\ q - r.start > 0 /\ q - r.start >= RegionSize
    BY <1>1, <1>4, <2>1
  <2>3. e.start = r.start /\ e.size = q - r.start
    BY <2>1, <2>2, ResizedProps
  <2>4. Addressed(e)
    BY <2>1, <2>2, ResizedAddressed
  <2>5. QED BY <2>2, <2>3, <2>4 DEF Fits
<1>7. ASSUME NEW e \in Behind(r, q, size, leftover) PROVE Fits(e) /\ Addressed(e)
  <2> DEFINE o == q + size - r.start
  <2>1. q + size # End(r) /\ e = Carved(r, o, leftover)
    BY <1>7 DEF Behind
  <2>2. o \in Nat /\ o < r.size /\ r.start + o = q + size
        /\ r.size - o = End(r) - (q + size)
    BY <1>1, <2>1
  <2> HIDE DEF o
  <2>3. e.start = q + size /\ e.size = End(r) - (q + size)
    BY <2>1, <2>2, CarvedProps
  <2>4. e.size >= RegionSize
    <3>1. q + size # End(r) /\ q + size \in Nat /\ End(r) \in Nat
      BY <1>1, <2>1
    <3> DEFINE m == q + size
               n == End(r)
    <3> HIDE DEF m, n
    <3>a. n - m # 0
      BY <3>1 DEF m, n
    <3>2. QED BY <1>5, <2>3, <3>a, Zenon DEF m, n
  <2>5. Addressed(e)
    BY <2>1, <2>2, CarvedAddressed
  <2>6. QED BY <1>3, <2>3, <2>4, <2>5 DEF Fits
<1>8. QED BY <1>2, <1>6, <1>7

(* An allocation that finds its place.                                     *)
LEMMA AllocSucceedsBooks ==
    ASSUME IInv, BooksInv, AllocSucceeds
    PROVE  BooksInv'
<1>1. PICK p \in DOMAIN list, leftover \in BOOLEAN, q \in Nat :
        LET b == [start |-> q, size |-> req.size, asked |-> req.asked]
        IN  /\ list[p].start <= q /\ q + req.size <= End(list[p])
            /\ q \in Placements(list[p], req.size, req.align)
            /\ list' = LookedUp(CutOut(p, q, leftover))
            /\ b \in Block /\ b.size >= b.asked
            /\ live' = live \cup {b}
            /\ BytesOf(b) \subseteq FreeBytes
            /\ FreeBytes' = FreeBytes \ BytesOf(b)
            /\ q % req.align = 0
  BY AllocSucceedsBlock, Zenon
<1> DEFINE b == [start |-> q, size |-> req.size, asked |-> req.asked]
           m == CutOut(p, q, leftover)
           r == list[p]
<1>2. /\ r.start <= q /\ q + req.size <= End(r)
      /\ q \in Placements(r, req.size, req.align)
      /\ list' = LookedUp(m)
      /\ b \in Block /\ b.start = q /\ b.size = req.size
      /\ live' = live \cup {b}
      /\ BytesOf(b) \subseteq FreeBytes
      /\ FreeBytes' = FreeBytes \ BytesOf(b)
      /\ q % req.align = 0
  BY <1>1
<1>3. /\ req.size \in Nat \ {0} /\ req.size = Rounded(req.asked)
      /\ req.asked \in Nat
      /\ req.align \in Nat \ {0} /\ req.align % RegionAlign = 0
      /\ added' = added /\ pc' = "idle"
  BY DEF AllocSucceeds, Attempting, Return, IInv, TypeOK, BooksInv
<1>4. req.size % RegionAlign = 0 /\ req.size >= RegionSize
  BY <1>3, RoundedMultiple, RoundedProps
<1>5. /\ added \in SUBSET DOMAIN Pools
      /\ \A k \in added : ValidPool(Pools[k])
      /\ \A e \in Range(list) : e \in Region /\ Fits(e) /\ Addressed(e)
      /\ \A e \in Range(list) : Framed(e)
      /\ \A a \in live : a \in Block /\ Fits(a)
      /\ FreeBytes \cup LiveBytes = UNION {PoolBytes(k) : k \in added}
  BY BooksParts
<1>6. list \in Seq(Region) /\ ListApart(list)
  BY UntouchedList
<1>7. r \in Range(list)
  BY DEF Range
<1>8. /\ m \in Seq(Region)
      /\ Range(m) = Others(list, p) \cup Before(r, q)
                        \cup Behind(r, q, req.size, leftover)
  BY <1>2, <1>3, <1>6, CutOutApart, CutOutRange
<1> HIDE DEF m, r
<1>9. /\ \A e \in Before(r, q) \cup Behind(r, q, req.size, leftover) :
             Fits(e) /\ Addressed(e)
      /\ q % RegionAlign = 0
  BY <1>2, <1>3, <1>4, <1>5, <1>7, CutOutFit
<1>10. Others(list, p) \subseteq Range(list)
  BY DEF Others, Range
<1>11. \A e \in Range(m) : Fits(e) /\ Addressed(e)
  BY <1>5, <1>8, <1>9, <1>10
<1> HIDE DEF b
<1>12. \A a \in live' : Fits(a)
  BY <1>2, <1>4, <1>5, <1>9 DEF Fits
<1>13. Conservation'
  <2>1. LiveBytes' = LiveBytes \cup BytesOf(b)
    BY <1>2 DEF LiveBytes
  <2>2. FreeBytes' \cup LiveBytes' = UNION {PoolBytes(k) : k \in added'}
    BY <1>2, <1>3, <1>5, <2>1
  <2>3. QED BY <2>2 DEF Conservation
<1>14. PassedApart'
  BY <1>3 DEF PassedApart
<1>15. QED BY <1>2, <1>3, <1>5, <1>8, <1>11, <1>12, <1>13, <1>14, BooksNext

(* Steps that leave the regions alone.                                     *)
LEMMA OtherBooks ==
    ASSUME IInv, BooksInv,
           \/ DmaFreeNull
           \/ StartDefrag
           \/ AllocFails
           \/ DefragAdvance
           \/ UNCHANGED vars
    PROVE  BooksInv'
<1>1. /\ list' = list \/ list' = LookedUp(list)
      /\ live' = live /\ added' = added
      /\ pc' \in {"try", "defrag"} =>
            pc \in {"try", "defrag"} /\ req' = req
  BY DEF DmaFreeNull, StartDefrag, AllocFails, DefragAdvance, Return,
         Attempting, vars
<1>2. /\ added \in SUBSET DOMAIN Pools
      /\ \A k \in added : ValidPool(Pools[k])
      /\ \A e \in Range(list) : Fits(e) /\ Addressed(e)
      /\ \A a \in live : Fits(a)
      /\ FreeBytes \cup LiveBytes = UNION {PoolBytes(k) : k \in added}
  BY BooksParts
<1>3. FreeBytes' = FreeBytes
  BY OtherBytes
<1>4. LiveBytes' = LiveBytes
  BY <1>1 DEF LiveBytes
<1>5. Conservation'
  BY <1>1, <1>2, <1>3, <1>4 DEF Conservation
<1>6. pc' \in {"try", "defrag"} => req'.align # 0 /\ req'.align % RegionAlign = 0
  BY <1>1 DEF BooksInv
<1>7. PassedApart'
  <2>1. CASE DmaFreeNull
    BY <2>1 DEF DmaFreeNull, PassedApart
  <2>2. CASE StartDefrag
    <3>1. list \in Seq(Region) /\ DOMAIN list = 1 .. Len(list) /\ outer' = 1
      BY <2>2, UntouchedList DEF StartDefrag
    <3>2. DOMAIN list' = 1 .. Len(list)
      BY <1>1, <3>1, LookedUpProps
    <3>3. QED BY <3>1, <3>2 DEF PassedApart
  <2>3. CASE AllocFails
    BY <2>3 DEF AllocFails, Return, PassedApart
  <2>4. CASE DefragAdvance
    <3>1. /\ list' = list /\ outer' = outer + 1 /\ outer \in Nat
          /\ list \in Seq(Region) /\ pc = "defrag"
          /\ \A q \in 1 .. outer - 1 : ~Mergeable(list[q], list[outer])
      BY <2>4 DEF DefragAdvance, IInv, TypeOK
    <3>2. ASSUME NEW j \in DOMAIN list, NEW k \in DOMAIN list,
                 j < outer + 1, k < outer + 1, j # k
          PROVE  ~Follows(list[j], list[k])
      <4>1. CASE j < outer /\ k < outer
        BY <3>1, <3>2, <4>1 DEF BooksInv, PassedApart
      <4>2. CASE j = outer
        <5>1. k \in 1 .. outer - 1
          BY <3>1, <3>2, <4>2
        <5>2. QED BY <3>1, <4>2, <5>1 DEF Mergeable
      <4>3. CASE k = outer
        <5>1. j \in 1 .. outer - 1
          BY <3>1, <3>2, <4>3
        <5>2. QED BY <3>1, <4>3, <5>1 DEF Mergeable
      <4>4. QED BY <3>1, <3>2, <4>1, <4>2, <4>3
    <3>3. QED BY <3>1, <3>2 DEF PassedApart
  <2>5. CASE UNCHANGED vars
    BY <2>5 DEF vars, PassedApart, BooksInv
  <2>6. QED BY <2>1, <2>2, <2>3, <2>4, <2>5
<1>8. list \in Seq(Region)
  BY UntouchedList
<1>9. QED BY <1>1, <1>2, <1>5, <1>6, <1>7, <1>8, BooksNext

(* defrag() makes one region of two that touch.                            *)
LEMMA DefragCoalesceBooks ==
    ASSUME IInv, BooksInv, NEW q \in DOMAIN list, DefragCoalesce(q)
    PROVE  BooksInv'
<1>1. /\ pc' = pc /\ pc = "defrag" /\ req' = req
      /\ live' = live /\ added' = added
      /\ q < outer /\ Mergeable(list[q], list[outer])
  BY DEF DefragCoalesce
<1>2. /\ added \in SUBSET DOMAIN Pools
      /\ \A k \in added : ValidPool(Pools[k])
      /\ \A e \in Range(list) : e \in Region /\ Fits(e) /\ Addressed(e)
      /\ \A a \in live : Fits(a)
      /\ FreeBytes \cup LiveBytes = UNION {PoolBytes(k) : k \in added}
  BY BooksParts
<1>3. Conservation'
  <2>1. FreeBytes' = FreeBytes
    BY DefragCoalesceBytes
  <2>2. LiveBytes' = LiveBytes
    BY <1>1 DEF LiveBytes
  <2>3. QED BY <1>1, <1>2, <2>1, <2>2 DEF Conservation
<1>4. /\ list \in Seq(Region) /\ DOMAIN list = 1 .. Len(list) /\ Len(list) \in Nat
      /\ outer \in DOMAIN list /\ q # outer /\ q \in Nat /\ outer \in Nat
  BY UntouchedList DEF DefragCoalesce, IInv, TypeOK
<1>5. \A j, k \in DOMAIN list :
          (j < outer /\ k < outer /\ j # k) => ~Follows(list[j], list[k])
  BY <1>1 DEF BooksInv, PassedApart
<1>6. ASSUME NEW i \in DOMAIN list, NEW j \in DOMAIN list, i # j,
             list[i].start = End(list[j])
      PROVE  LET m == RemoveAt(Grown(list, j, list[i].size), i)
             IN  /\ m \in Seq(Region)
                 /\ \A e \in Range(m) : Fits(e) /\ Addressed(e)
                 /\ DOMAIN m = 1 .. Len(list) - 1
                 /\ \A k \in DOMAIN m :
                      m[k] = IF k < i THEN Grown(list, j, list[i].size)[k]
                             ELSE Grown(list, j, list[i].size)[k + 1]
  <2> DEFINE g    == Grown(list, j, list[i].size)
             m    == RemoveAt(g, i)
             both == Joined(list[j], list[i])
  <2>1. /\ list[j] \in Region /\ list[j].size \in Nat /\ list[i].size \in Nat
        /\ Fits(list[j]) /\ Addressed(list[j])
        /\ list[j].size > 0 /\ list[j].start \in Nat
    BY <1>2, <1>4, RegionFields DEF Range
  <2>2. /\ list[j].size + list[i].size \in Nat
        /\ list[j].size + list[i].size > 0
        /\ list[j].size + list[i].size >= list[j].size
    BY <2>1
  <2>3. both \in Region /\ Addressed(both) /\ both.start = list[j].start
        /\ both.size = list[j].size + list[i].size
    BY <2>1, <2>2, ResizedProps, ResizedAddressed DEF Joined
  <2> HIDE DEF both
  <2>4. Fits(both)
    <3>1. list[j].size >= RegionSize /\ list[j].start % RegionAlign = 0
      BY <2>1 DEF Fits
    <3>2. both.size >= RegionSize
      BY <2>1, <2>2, <2>3, <3>1, LayoutAssumption
    <3>3. QED BY <2>3, <3>1, <3>2 DEF Fits
  <2>5. Range(m) = {list[k] : k \in DOMAIN list \ {i, j}} \cup {both}
    BY <1>4, <1>6, CoalesceRange DEF both
  <2>6. g = [list EXCEPT ![j] = both]
    BY DEF Grown, Joined, both
  <2>7. g \in Seq(Region) /\ DOMAIN g = DOMAIN list /\ Len(g) = Len(list)
    BY <1>4, <2>3, <2>6
  <2> HIDE DEF g
  <2>8. \A e \in Range(m) : Fits(e) /\ Addressed(e)
    BY <1>2, <2>3, <2>4, <2>5 DEF Range
  <2>9. /\ m \in Seq(Region) /\ Len(m) = Len(list) - 1
        /\ \A k \in 1 .. Len(list) - 1 : m[k] = IF k < i THEN g[k] ELSE g[k + 1]
    <3>1. i \in 1 .. Len(g)
      BY <1>4, <2>7
    <3>2. QED BY <2>7, <3>1, RemoveAtProps
  <2>10. DOMAIN m = 1 .. Len(list) - 1
    BY <2>9
  <2> HIDE DEF m
  <2>11. /\ m \in Seq(Region)
         /\ \A e \in Range(m) : Fits(e) /\ Addressed(e)
         /\ DOMAIN m = 1 .. Len(list) - 1
         /\ \A k \in DOMAIN m : m[k] = IF k < i THEN g[k] ELSE g[k + 1]
    BY <2>8, <2>9, <2>10
  <2>12. QED BY <2>11 DEF m, g
<1>7. ASSUME NEW m \in Seq(Region), list' = m,
             \A e \in Range(m) : Fits(e) /\ Addressed(e), PassedApart'
      PROVE  BooksInv'
  <2>1. pc' \in {"try", "defrag"} => req'.align # 0 /\ req'.align % RegionAlign = 0
    BY <1>1 DEF BooksInv
  <2>2. QED BY <1>1, <1>2, <1>3, <1>7, <2>1, BooksNext
<1>8. CASE Follows(list[outer], list[q])
  <2> DEFINE g == Grown(list, q, list[outer].size)
             m == RemoveAt(g, outer)
  <2>1. list' = m /\ outer' = IF q = 1 THEN 2 ELSE q
    BY <1>8, Zenon DEF DefragCoalesce
  <2>2. list[outer].start = End(list[q])
    BY <1>8 DEF Follows
  <2>3. /\ m \in Seq(Region)
        /\ \A e \in Range(m) : Fits(e) /\ Addressed(e)
        /\ DOMAIN m = 1 .. Len(list) - 1
        /\ \A k \in DOMAIN m : m[k] = IF k < outer THEN g[k] ELSE g[k + 1]
    BY <1>4, <1>6, <2>2
  <2> HIDE DEF m
  <2>4. \A k \in DOMAIN list : k # q => g[k] = list[k]
    BY DEF Grown
  <2> HIDE DEF g
  <2>5. ASSUME NEW j \in DOMAIN m, NEW k \in DOMAIN m,
               j < outer', k < outer', j # k
        PROVE  ~Follows(m[j], m[k])
    <3>1. q # 1 /\ j < q /\ k < q
      BY <1>4, <2>1, <2>3, <2>5
    <3>2. /\ j \in DOMAIN list /\ k \in DOMAIN list /\ j < outer /\ k < outer
          /\ j # q /\ k # q
      BY <1>1, <1>4, <2>3, <2>5, <3>1
    <3>3. m[j] = list[j] /\ m[k] = list[k]
      BY <2>3, <2>4, <2>5, <3>2
    <3>4. QED BY <1>5, <2>5, <3>2, <3>3
  <2>6. PassedApart'
    BY <2>1, <2>5 DEF PassedApart
  <2>7. QED BY <1>7, <2>1, <2>3, <2>6
<1>9. CASE ~Follows(list[outer], list[q])
  <2> DEFINE g == Grown(list, outer, list[q].size)
             m == RemoveAt(g, q)
  <2>1. list' = m /\ outer' = outer - 1
    BY <1>9, Zenon DEF DefragCoalesce
  <2>2. list[q].start = End(list[outer])
    BY <1>1, <1>9 DEF Mergeable, Follows
  <2>3. /\ m \in Seq(Region)
        /\ \A e \in Range(m) : Fits(e) /\ Addressed(e)
        /\ DOMAIN m = 1 .. Len(list) - 1
        /\ \A k \in DOMAIN m : m[k] = IF k < q THEN g[k] ELSE g[k + 1]
    BY <1>4, <1>6, <2>2
  <2> HIDE DEF m
  <2>4. \A k \in DOMAIN list : k # outer => g[k] = list[k]
    BY DEF Grown
  <2> HIDE DEF g
  <2> DEFINE was(k) == IF k < q THEN k ELSE k + 1
  <2>5. ASSUME NEW k \in DOMAIN m, k < outer - 1
        PROVE  was(k) \in DOMAIN list /\ was(k) < outer /\ m[k] = list[was(k)]
    <3>1. /\ k \in Nat /\ k + 1 \in DOMAIN list /\ k + 1 < outer /\ k < outer
          /\ k \in DOMAIN list /\ k # outer /\ k + 1 # outer
      BY <1>4, <2>3, <2>5
    <3>2. m[k] = IF k < q THEN g[k] ELSE g[k + 1]
      BY <2>3, <2>5
    <3>3. QED BY <2>4, <3>1, <3>2
  <2>6. ASSUME NEW j \in DOMAIN m, NEW k \in DOMAIN m, j # k
        PROVE  was(j) # was(k)
    BY <1>4, <2>3, <2>6
  <2> HIDE DEF was
  <2>7. ASSUME NEW j \in DOMAIN m, NEW k \in DOMAIN m,
               j < outer - 1, k < outer - 1, j # k
        PROVE  ~Follows(m[j], m[k])
    BY <1>5, <2>5, <2>6, <2>7
  <2>8. PassedApart'
    BY <2>1, <2>7 DEF PassedApart
  <2>9. QED BY <1>7, <2>1, <2>3, <2>8
<1>10. QED BY <1>8, <1>9

(* Every step keeps the books.                                             *)
LEMMA NextBooks ==
    ASSUME IInv, BooksInv, [Next]_vars
    PROVE  BooksInv'
<1>1. ASSUME NEW k \in DOMAIN Pools, DmaInit(k) PROVE BooksInv'
  BY <1>1, DmaInitBooks
<1>2. ASSUME NEW b \in live, DmaFree(b) PROVE BooksInv'
  BY <1>2, DmaFreeBooks
<1>3. ASSUME NEW r \in Requests, DmaAlloc(r) PROVE BooksInv'
  BY <1>3, DmaAllocBooks
<1>4. CASE AllocSucceeds
  BY <1>4, AllocSucceedsBooks
<1>5. ASSUME NEW q \in DOMAIN list, DefragCoalesce(q) PROVE BooksInv'
  BY <1>5, DefragCoalesceBooks
<1>6. CASE \/ DmaFreeNull \/ StartDefrag \/ AllocFails \/ DefragAdvance
           \/ UNCHANGED vars
  BY <1>6, OtherBooks
<1>7. QED BY <1>1, <1>2, <1>3, <1>4, <1>5, <1>6, Zenon
          DEF Next, Continue, DefragStep

-----------------------------------------------------------------------------

(* The invariant that what the headers say rests on.                       *)
THEOREM BooksKept == Spec => []BooksInv
<1>1. Init => BooksInv
  BY InitBooks
<1>2. IInv /\ BooksInv /\ [Next]_vars => BooksInv'
  BY NextBooks
<1>3. QED BY <1>1, <1>2, Inductive, PTL DEF Spec

(* No byte of an added pool is ever lost or gained, whatever is asked for, *)
(* freed and coalesced in whatever order.                                  *)
THEOREM BytesConserved == Spec => []Conservation
<1>1. BooksInv => Conservation
  BY DEF BooksInv
<1>2. QED BY <1>1, BooksKept, PTL

(* Every region of the free list and every block a client may give back    *)
(* can hold a header and is aligned for it: what check_consistency()        *)
(* asserts never fails.                                                    *)
THEOREM HeadersAlwaysFit == Spec => []HeadersFit
<1>1. BooksInv => HeadersFit
  BY DEF BooksInv
<1>2. QED BY <1>1, BooksKept, PTL

(* The physical address in a header is the one microkit_dma_get_paddr      *)
(* would return, however often the region was cut and joined.              *)
THEOREM AddressesCorrect == Spec => []PaddrCorrect
<1>1. BooksInv => PaddrCorrect
  BY DEF BooksInv
<1>2. QED BY <1>1, BooksKept, PTL

(* When defrag() has run, nothing is left that could be joined.            *)
THEOREM DefragComplete == Spec => []FullyCoalesced
<1>1. IInv /\ BooksInv => FullyCoalesced
  <2> SUFFICES ASSUME IInv, BooksInv, pc = "defrag", outer > Len(list)
               PROVE  \A j, k \in DOMAIN list :
                          j # k => ~Follows(list[j], list[k])
    BY DEF FullyCoalesced
  <2>1. /\ list \in Seq(Region) /\ outer \in Nat
        /\ DOMAIN list = 1 .. Len(list) /\ Len(list) \in Nat
    BY UntouchedList DEF IInv, TypeOK
  <2>2. \A k \in DOMAIN list : k < outer
    BY <2>1
  <2>3. QED BY <2>2 DEF BooksInv, PassedApart
<1>2. QED BY <1>1, Inductive, BooksKept, PTL

LEMMA CoalesceNears ==
    ASSUME NEW n \in Nat, NEW m \in Nat, NEW at \in Nat, NEW new \in Nat,
           m = n - 1, 2 <= n, at <= n, new <= m + 1
    PROVE  m * (m + 2) - new \in Nat /\ m * (m + 2) - new < n * (n + 2) - at
<1>1. m * (m + 2) = n * n - 1 /\ n * (n + 2) = n * n + 2 * n
  BY SMT
<1> DEFINE square == n * n
<1>2. square \in Nat /\ square >= 2 * n
  BY SMT
<1> HIDE DEF square
<1>3. square - 1 - new \in Nat /\ square - 1 - new < square + 2 * n - at
  BY <1>2, SMT
<1>4. QED BY <1>1, <1>3 DEF square

LEMMA AdvanceNears ==
    ASSUME NEW n \in Nat, NEW at \in Nat, at <= n, at # 0
    PROVE  n * (n + 2) - (at + 1) \in Nat /\ n * (n + 2) - (at + 1) < n * (n + 2) - at
<1> DEFINE square == n * n
<1>1. n * (n + 2) = square + 2 * n /\ square \in Nat
  BY SMT
<1> HIDE DEF square
<1>2. QED BY <1>1, SMT

(* The scan of defrag() is at a region from its first step on.              *)
ScanBegun == pc = "defrag" => outer # 0

LEMMA ScanBegins == Spec => []ScanBegun
<1>1. Init => ScanBegun
  BY DEF Init, ScanBegun
<1>2. IInv /\ ScanBegun /\ [Next]_vars => ScanBegun'
  <2> SUFFICES ASSUME IInv, ScanBegun, [Next]_vars, pc' = "defrag" PROVE outer' # 0
    BY Zenon DEF ScanBegun
  <2>1. outer \in Nat /\ DOMAIN list = 1 .. Len(list)
    BY UntouchedList DEF IInv, TypeOK
  <2>2. \/ StartDefrag \/ DefragAdvance \/ UNCHANGED vars
        \/ \E q \in DOMAIN list : DefragCoalesce(q)
    BY DEF Next, Continue, DefragStep, DmaInit, DmaFree, DmaFreeNull, DmaAlloc,
           AllocSucceeds, AllocFails, Return
  <2>3. CASE StartDefrag
    BY <2>3 DEF StartDefrag
  <2>4. CASE DefragAdvance
    BY <2>1, <2>4 DEF DefragAdvance
  <2>5. CASE UNCHANGED vars
    BY <2>5 DEF vars, ScanBegun
  <2>6. ASSUME NEW q \in DOMAIN list, DefragCoalesce(q) PROVE outer' # 0
    BY <2>1, <2>6 DEF DefragCoalesce
  <2>7. QED BY <2>2, <2>3, <2>4, <2>5, <2>6, Zenon
<1>3. QED BY <1>1, <1>2, Inductive, PTL DEF Spec

(* defrag() ends, however its scan goes back: for any list of n regions in  *)
(* at most n * (n + 2) iterations.                                          *)
THEOREM DefragFinite == Spec => DefragNearsEnd
<1>1. IInv /\ ScanBegun /\ [Next]_vars =>
        [pc = "defrag" /\ pc' = "defrag" =>
            Remaining' \in Nat /\ Remaining' < Remaining]_vars
  <2> SUFFICES ASSUME IInv, ScanBegun, Next, pc = "defrag", pc' = "defrag"
               PROVE  Remaining' \in Nat /\ Remaining' < Remaining
    BY Zenon
  <2>1. /\ list \in Seq(Region) /\ outer \in Nat
        /\ DOMAIN list = 1 .. Len(list) /\ Len(list) \in Nat /\ outer # 0
    BY UntouchedList DEF IInv, TypeOK, ScanBegun
  <2>2. DefragAdvance \/ \E q \in DOMAIN list : DefragCoalesce(q)
    BY DEF Next, Continue, DefragStep, DmaInit, DmaFree, DmaFreeNull, DmaAlloc,
           AllocSucceeds, StartDefrag, AllocFails, Return
  <2>3. CASE DefragAdvance
    <3>1. list' = list /\ outer' = outer + 1 /\ outer <= Len(list)
      BY <2>3 DEF DefragAdvance
    <3>2. Remaining' = Len(list) * (Len(list) + 2) - (outer + 1)
      BY <3>1, Zenon DEF Remaining
    <3>3. QED BY <2>1, <3>1, <3>2, AdvanceNears, Zenon DEF Remaining
  <2>4. ASSUME NEW q \in DOMAIN list, DefragCoalesce(q)
        PROVE  Remaining' \in Nat /\ Remaining' < Remaining
    <3>1. /\ outer \in DOMAIN list /\ q < outer /\ q \in Nat
          /\ outer <= Len(list) /\ 2 <= Len(list)
      BY <2>1, <2>4 DEF DefragCoalesce
    <3>2. \A i, j \in DOMAIN list :
              Len(RemoveAt(Grown(list, j, list[i].size), i)) = Len(list) - 1
      <4>1. TAKE i, j \in DOMAIN list
      <4>2. list[i].size \in Nat /\ list[j] \in Region
        BY <2>1, ElementOf, RegionFields
      <4> DEFINE both == Joined(list[j], list[i])
      <4>3. both \in Region
        <5>1. /\ list[j].size + list[i].size \in Nat
              /\ list[j].size + list[i].size > 0
          <6>1. list[j].size \in Nat /\ list[j].size > 0
            BY <2>1, ElementOf, RegionFields
          <6>2. QED BY <4>2, <6>1
        <5>2. QED BY <4>2, <5>1, ResizedProps DEF Joined
      <4>4. Grown(list, j, list[i].size) = [list EXCEPT ![j] = both]
        BY DEF Grown, Joined
      <4> HIDE DEF both
      <4>5. /\ [list EXCEPT ![j] = both] \in Seq(Region)
            /\ Len([list EXCEPT ![j] = both]) = Len(list)
        BY <2>1, <4>3
      <4>6. i \in 1 .. Len([list EXCEPT ![j] = both])
        BY <2>1, <4>5
      <4>7. QED BY <4>4, <4>5, <4>6, RemoveAtProps, Zenon
    <3>3. /\ Len(list') = Len(list) - 1
          /\ outer' \in {2, q, outer - 1}
      BY <2>4, <3>1, <3>2 DEF DefragCoalesce
    <3> DEFINE n == Len(list)
               m == Len(list')
               new == outer'
    <3>4. /\ n \in Nat /\ m \in Nat /\ new \in Nat /\ m = n - 1 /\ 2 <= n
          /\ outer \in Nat /\ outer <= n /\ new <= m + 1
      BY <2>1, <3>1, <3>3
    <3> HIDE DEF n, m, new
    <3>5. m * (m + 2) - new \in Nat /\ m * (m + 2) - new < n * (n + 2) - outer
      BY <3>4, CoalesceNears
    <3>6. QED BY <3>5, Zenon DEF Remaining, n, m, new
  <2>5. QED BY <2>2, <2>3, <2>4, Zenon
<1>2. QED BY <1>1, Inductive, ScanBegins, PTL DEF Spec, DefragNearsEnd

=============================================================================
