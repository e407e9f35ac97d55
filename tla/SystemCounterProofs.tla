------------------------- MODULE SystemCounterProofs -------------------------
(***************************************************************************)
(* Theorems about reading the system counter, for every width of its words. *)
(***************************************************************************)
EXTENDS SystemCounter, TLAPS

-----------------------------------------------------------------------------
(* Arithmetic.                                                             *)

(* Whole periods are a count.                                              *)
LEMMA PeriodsNat ==
    ASSUME NEW h \in Nat
    PROVE  h * LowRange \in Nat
BY RangesAssumption

(* A count is made of its words.                                           *)
LEMMA WordsOf ==
    ASSUME NEW n \in Nat
    PROVE  /\ HighWord(n) \in Nat
           /\ LowWord(n) \in 0 .. LowRange - 1
           /\ n = HighWord(n) * LowRange + LowWord(n)
BY RangesAssumption DEF HighWord, LowWord

(* A greater high word is greater by a whole period at least.              *)
LEMMA PeriodsApart ==
    ASSUME NEW h \in Nat, NEW k \in Nat, h < k
    PROVE  h * LowRange + LowRange <= k * LowRange
<1>1. PICK d \in Nat : k = h + 1 + d
  BY k - h - 1 \in Nat
<1>2. k * LowRange = (h + 1) * LowRange + d * LowRange
  BY <1>1, RangesAssumption
<1>3. d * LowRange \in Nat
  BY RangesAssumption
<1>4. QED BY <1>2, <1>3, RangesAssumption

(* High words grow with the count.                                         *)
LEMMA HighGrows ==
    ASSUME NEW m \in Nat, NEW n \in Nat, m <= n
    PROVE  HighWord(m) <= HighWord(n)
<1>1. ASSUME HighWord(n) < HighWord(m) PROVE FALSE
  <2>1. HighWord(n) * LowRange + LowRange <= HighWord(m) * LowRange
    BY <1>1, WordsOf, PeriodsApart
  <2>2. /\ HighWord(n) * LowRange \in Nat /\ HighWord(m) * LowRange \in Nat
    BY WordsOf, PeriodsNat
  <2>3. QED BY <2>1, <2>2, WordsOf, RangesAssumption
<1>2. QED BY <1>1, WordsOf

(* A word read between two equal ones belongs with them.                   *)
LEMMA HighBetween ==
    ASSUME NEW l \in Nat, NEW m \in Nat, NEW n \in Nat, l <= m, m <= n,
           HighWord(l) = HighWord(n)
    PROVE  HighWord(m) = HighWord(n)
<1>1. HighWord(l) <= HighWord(m) /\ HighWord(m) <= HighWord(n)
  BY HighGrows
<1>2. QED BY <1>1, WordsOf

(* In less than a period, the high word changes once at most.              *)
LEMMA HighChangesOnce ==
    ASSUME NEW l \in Nat, NEW m \in Nat, NEW n \in Nat, l <= m, m <= n,
           n - l < LowRange, HighWord(l) # HighWord(m)
    PROVE  HighWord(m) = HighWord(n)
<1>1. HighWord(l) <= HighWord(m) /\ HighWord(m) <= HighWord(n)
  BY HighGrows
<1>2. ASSUME HighWord(m) < HighWord(n) PROVE FALSE
  <2> DEFINE a == HighWord(l) * LowRange
             b == HighWord(m) * LowRange
             c == HighWord(n) * LowRange
  <2>1. a + LowRange <= b
    <3>1. HighWord(l) < HighWord(m)
      BY <1>1, WordsOf
    <3>2. QED BY <3>1, WordsOf, PeriodsApart
  <2>2. b + LowRange <= c
    BY <1>2, WordsOf, PeriodsApart
  <2>3. a \in Nat /\ b \in Nat /\ c \in Nat
    BY WordsOf, PeriodsNat
  <2>4. l < a + LowRange /\ c <= n
    <3>1. l = a + LowWord(l) /\ LowWord(l) \in 0 .. LowRange - 1
      BY WordsOf
    <3>2. n = c + LowWord(n) /\ LowWord(n) \in 0 .. LowRange - 1
      BY WordsOf
    <3> HIDE DEF a, b, c
    <3>3. QED BY <2>3, <3>1, <3>2, RangesAssumption
  <2> HIDE DEF a, b, c
  <2>5. QED BY <2>1, <2>2, <2>3, <2>4, RangesAssumption
<1>3. QED BY <1>1, <1>2, WordsOf

(* Scaling up makes a number no smaller, and keeps their order.            *)
LEMMA Scaled ==
    ASSUME NEW n \in Nat, NEW z \in Nat \ {0}
    PROVE  /\ n * z \in Nat /\ n * z >= n
           /\ n # 0 /\ z # 1 => n * z > n
<1>1. PICK y \in Nat : z = y + 1
  BY z - 1 \in Nat
<1>2. n * z = n * y + n /\ n * y \in Nat
  BY <1>1
<1>3. n # 0 /\ y # 0 => n * y # 0
  BY <1>1
<1>4. QED BY <1>1, <1>2, <1>3

LEMMA ScaledOrder ==
    ASSUME NEW m \in Nat, NEW n \in Nat, NEW j \in Nat, NEW k \in Nat,
           j <= n, m <= k, NEW z \in Nat
    PROVE  (m - n) * z <= (k - j) * z /\ (j <= k => (k - j) * z \in Nat)
<1>1. PICK d \in Nat : k - j = (m - n) + d
  BY (k - j) - (m - n) \in Nat
<1>2. (k - j) * z = (m - n) * z + d * z
  BY <1>1
<1>3. d * z \in Nat /\ (m - n) * z \in Int
  OBVIOUS
<1>4. j <= k => (k - j) * z \in Nat
  <2>1. SUFFICES ASSUME j <= k PROVE (k - j) * z \in Nat
    OBVIOUS
  <2>2. k - j \in Nat
    BY <2>1
  <2>3. QED BY <2>2
<1>5. QED BY <1>2, <1>3, <1>4

(* A whole number of ticks goes into a microsecond.                        *)
LEMMA TicksPerUsNat ==
    ASSUME TypeOK, tickFrequency >= MicroPerSecond
    PROVE  TicksPerUs \in Nat \ {0}
<1>1. tickFrequency \in Nat /\ MicroPerSecond \in Nat \ {0}
  BY RangesAssumption DEF TypeOK
<1>2. PICK f \in Nat : f = tickFrequency * Precision /\ f >= MicroPerSecond
  BY <1>1, Scaled, RangesAssumption
<1>3. f \div MicroPerSecond \in Nat \ {0}
  BY <1>1, <1>2
<1>4. QED BY <1>2, <1>3 DEF TicksPerUs

(* The frequency a running call divides by gives a count of ticks.          *)
LEMMA MicroNat ==
    ASSUME TypeOK, tickFrequency >= MicroPerSecond, NEW n \in Nat
    PROVE  ToMicro(n) \in Nat
<1>1. PICK t \in Nat \ {0} : t = TicksPerUs
  BY TicksPerUsNat
<1>2. PICK m \in Nat : m = n * Precision
  BY RangesAssumption
<1>3. m \div t \in Nat
  OBVIOUS
<1>4. QED BY <1>1, <1>2, <1>3 DEF ToMicro

-----------------------------------------------------------------------------
(* The invariant.                                                          *)

(* No read has been made before the first call.                            *)
LEMMA InitReads == Init => ReadsWithinCall
BY RangesAssumption
DEF Init, ReadsWithinCall, TypeOK, TicksWithinCall, NoWait

(* A call begins: nothing has been read yet.                               *)
LEMMA CallReads ==
    ASSUME ReadsWithinCall, pc # "hang", NEW w, Call(w),
           w \in [stage : {"none", "start", "loop"}, usec : Nat, asked : Nat,
                  endTime : Nat, began : Nat]
    PROVE  ReadsWithinCall'
BY RangesAssumption
DEF Call, ReadsWithinCall, TypeOK, TicksWithinCall, words

(* A delay begins.                                                         *)
LEMMA DelayReads ==
    ASSUME ReadsWithinCall, NEW usec \in Nat, NEW asked \in Nat,
           Delay(usec, asked)
    PROVE  ReadsWithinCall'
<1> DEFINE w == [stage |-> "start", usec |-> usec, asked |-> asked,
                 endTime |-> 0, began |-> counter]
<1>1. w \in [stage : {"none", "start", "loop"}, usec : Nat, asked : Nat,
             endTime : Nat, began : Nat]
  BY DEF ReadsWithinCall, TypeOK
<1>2. Call(w) /\ pc # "hang"
  BY DEF Delay
<1> HIDE DEF w
<1>3. QED BY <1>1, <1>2, CallReads

(* The first read of the high word.                                        *)
LEMMA InitialHighReads ==
    ASSUME ReadsWithinCall, ReadInitialHigh
    PROVE  ReadsWithinCall'
<1>1. counter \in Nat /\ initialHigh' = HighWord(counter) /\ initialHigh' \in Nat
  BY WordsOf DEF ReadsWithinCall, TypeOK, ReadInitialHigh
<1>2. TypeOK'
  BY <1>1 DEF ReadsWithinCall, TypeOK, ReadInitialHigh
<1>3. called' \in Nat /\ counter' = counter /\ called' <= counter
  BY DEF ReadsWithinCall, TypeOK, ReadInitialHigh
<1>4. \E r \in called' .. counter' : initialHigh' = HighWord(r)
  BY <1>1, <1>3
<1>5. QED BY <1>2, <1>3, <1>4
          DEF ReadsWithinCall, TicksWithinCall, ReadInitialHigh

(* The read of the low word.                                               *)
LEMMA LowReads ==
    ASSUME ReadsWithinCall, ReadLow
    PROVE  ReadsWithinCall'
<1>1. counter \in Nat /\ low' = LowWord(counter) /\ low' \in Nat
  BY WordsOf, RangesAssumption DEF ReadsWithinCall, TypeOK, ReadLow
<1>2. TypeOK'
  BY <1>1 DEF ReadsWithinCall, TypeOK, ReadLow
<1>3. PICK r \in called .. counter : initialHigh = HighWord(r)
  BY DEF ReadsWithinCall, ReadLow
<1>4. /\ counter \in r .. counter /\ r \in called' .. counter'
      /\ counter' = counter /\ initialHigh' = initialHigh
  BY <1>3 DEF ReadsWithinCall, TypeOK, ReadLow
<1>5. \E q \in called' .. counter' : \E s \in q .. counter' :
        initialHigh' = HighWord(q) /\ low' = LowWord(s)
  BY <1>1, <1>3, <1>4
<1>6. QED BY <1>2, <1>5 DEF ReadsWithinCall, TicksWithinCall, TypeOK, ReadLow

(* The second read of the high word: when it is the first one, the low word *)
(* was read between two equal high words.                                  *)
LEMMA HighReads ==
    ASSUME ReadsWithinCall, ReadHigh
    PROVE  ReadsWithinCall'
<1>1. /\ counter \in Nat /\ called \in Nat /\ high' = HighWord(counter)
      /\ high' \in Nat /\ counter' = counter /\ called' = called
      /\ initialHigh' = initialHigh
  BY WordsOf DEF ReadsWithinCall, TypeOK, ReadHigh
<1>2. PICK r \in called .. counter : \E s \in r .. counter :
        initialHigh = HighWord(r) /\ low = LowWord(s)
  BY DEF ReadsWithinCall, ReadHigh
<1>3. PICK s \in r .. counter : initialHigh = HighWord(r) /\ low = LowWord(s)
  BY <1>2
<1>4. r \in Nat /\ s \in Nat /\ r <= s /\ s <= counter /\ called <= s
  BY <1>1, <1>2, <1>3
<1>5. CASE high' = initialHigh
  <2>1. HighWord(s) = HighWord(counter)
    <3>1. HighWord(r) = HighWord(counter)
      BY <1>1, <1>3, <1>5
    <3> QED BY <1>1, <1>4, <3>1, HighBetween
  <2>2. ticks' = s
    BY <1>1, <1>3, <1>4, <1>5, <2>1, WordsOf DEF ReadHigh, Combined
  <2>3. TypeOK'
    BY <1>1, <1>4, <1>5, <2>2 DEF ReadsWithinCall, TypeOK, ReadHigh
  <2>4. ticks' \in called' .. counter'
    BY <1>1, <1>4, <2>2
  <2>5. QED BY <1>5, <2>3, <2>4
            DEF ReadsWithinCall, TypeOK, TicksWithinCall, ReadHigh
<1>6. CASE high' # initialHigh
  <2>1. pc' = "rollover" /\ ticks' = ticks
    BY <1>6 DEF ReadHigh
  <2>2. TypeOK'
    BY <1>1, <2>1 DEF ReadsWithinCall, TypeOK, ReadHigh
  <2>3. \E q \in called' .. counter' : \E c \in q .. counter' :
          /\ initialHigh' = HighWord(q) /\ high' = HighWord(c)
          /\ high' # initialHigh'
    BY <1>1, <1>2, <1>3, <1>4, <1>6
  <2>4. QED BY <2>1, <2>2, <2>3
            DEF ReadsWithinCall, TypeOK, TicksWithinCall, ReadHigh
<1>7. QED BY <1>5, <1>6

(* The low word read again after a rollover belongs to the second high     *)
(* word, which has not changed since.                                      *)
LEMMA LowAgainReads ==
    ASSUME ReadsWithinCall, ReadLowAgain
    PROVE  ReadsWithinCall'
<1>1. /\ counter \in Nat /\ called \in Nat /\ low' = LowWord(counter)
      /\ low' \in Nat /\ counter' = counter /\ called' = called
      /\ ticks' = Combined(high, low') /\ called <= counter
      /\ counter - called < LowRange
  BY WordsOf, RangesAssumption DEF ReadsWithinCall, TypeOK, ReadLowAgain
<1>2. PICK r \in called .. counter : \E s \in r .. counter :
        initialHigh = HighWord(r) /\ high = HighWord(s) /\ high # initialHigh
  BY DEF ReadsWithinCall, ReadLowAgain
<1>3. PICK s \in r .. counter :
        initialHigh = HighWord(r) /\ high = HighWord(s) /\ high # initialHigh
  BY <1>2
<1>4. /\ r \in Nat /\ s \in Nat /\ r <= s /\ s <= counter
      /\ counter - r < LowRange
  BY <1>1, <1>2, <1>3, RangesAssumption
<1>5. high = HighWord(counter)
  BY <1>1, <1>3, <1>4, HighChangesOnce
<1>6. ticks' = counter
  BY <1>1, <1>5, WordsOf DEF Combined
<1>7. TypeOK'
  BY <1>1, <1>6 DEF ReadsWithinCall, TypeOK, ReadLowAgain
<1>8. QED BY <1>1, <1>6, <1>7
          DEF ReadsWithinCall, TypeOK, TicksWithinCall, ReadLowAgain

(* The end of a wait is a time, and the loop's first call begins.          *)
LEMMA EndTimeReads ==
    ASSUME ReadsWithinCall, SetEndTime
    PROVE  ReadsWithinCall'
<1> DEFINE w == [wait EXCEPT !.stage = "loop",
                             !.endTime = ToMicro(ticks) + wait.usec]
<1>1. ToMicro(ticks) \in Nat
  BY MicroNat DEF ReadsWithinCall, TypeOK, SetEndTime
<1>2. w \in [stage : {"none", "start", "loop"}, usec : Nat, asked : Nat,
             endTime : Nat, began : Nat]
  <2>1. /\ wait \in [stage : {"none", "start", "loop"}, usec : Nat, asked : Nat,
                     endTime : Nat, began : Nat]
        /\ wait.usec \in Nat
    BY DEF ReadsWithinCall, TypeOK
  <2>2. PICK t \in Nat : t = ToMicro(ticks) + wait.usec
    BY <1>1, <2>1
  <2>3. w = [wait EXCEPT !.stage = "loop", !.endTime = t]
    BY <2>2
  <2>4. QED BY <2>1, <2>3
<1>3. Call(w) /\ pc # "hang"
  BY DEF SetEndTime
<1> HIDE DEF w
<1>4. QED BY <1>2, <1>3, CallReads

(* The counter moving on takes nothing away from what has been read.       *)
LEMMA TickReads ==
    ASSUME ReadsWithinCall, Tick
    PROVE  ReadsWithinCall'
<1>1. /\ counter \in Nat /\ called \in Nat /\ counter' = counter + 1
      /\ called <= counter
      /\ UNCHANGED <<tickFrequency, pc, initialHigh, low, high, ticks, called, wait>>
  BY DEF ReadsWithinCall, TypeOK, Tick, words
<1>2. /\ TypeOK' /\ called' <= counter'
      /\ (pc' \notin {"idle", "hang"} =>
            tickFrequency' # 0 /\ counter' - called' < LowRange)
  BY <1>1 DEF ReadsWithinCall, TypeOK, Tick
<1>3. TicksWithinCall'
  BY <1>1 DEF ReadsWithinCall, TypeOK, TicksWithinCall
<1>4. ASSUME pc' = "low"
      PROVE  \E r \in called' .. counter' : initialHigh' = HighWord(r)
  <2>1. PICK r \in called .. counter : initialHigh = HighWord(r)
    BY <1>1, <1>4 DEF ReadsWithinCall
  <2>2. r \in called' .. counter'
    BY <1>1, <2>1
  <2>3. QED BY <1>1, <2>1, <2>2
<1>5. ASSUME pc' = "again"
      PROVE  \E r \in called' .. counter' : \E s \in r .. counter' :
                initialHigh' = HighWord(r) /\ low' = LowWord(s)
  <2>1. PICK r \in called .. counter : \E s \in r .. counter :
            initialHigh = HighWord(r) /\ low = LowWord(s)
    BY <1>1, <1>5 DEF ReadsWithinCall
  <2>2. PICK s \in r .. counter : initialHigh = HighWord(r) /\ low = LowWord(s)
    BY <2>1
  <2>3. r \in called' .. counter' /\ s \in r .. counter'
    BY <1>1, <2>1, <2>2
  <2>4. QED BY <1>1, <2>2, <2>3
<1>6. ASSUME pc' = "rollover"
      PROVE  \E r \in called' .. counter' : \E s \in r .. counter' :
                /\ initialHigh' = HighWord(r) /\ high' = HighWord(s)
                /\ high' # initialHigh'
  <2>1. PICK r \in called .. counter : \E s \in r .. counter :
            initialHigh = HighWord(r) /\ high = HighWord(s) /\ high # initialHigh
    BY <1>1, <1>6 DEF ReadsWithinCall
  <2>2. PICK s \in r .. counter :
            initialHigh = HighWord(r) /\ high = HighWord(s) /\ high # initialHigh
    BY <2>1
  <2>3. r \in called' .. counter' /\ s \in r .. counter'
    BY <1>1, <2>1, <2>2
  <2>4. QED BY <1>1, <2>2, <2>3
<1>7. tickFrequency' = 0 \/ tickFrequency' >= MicroPerSecond \/ pc' = "hang"
  BY <1>1 DEF ReadsWithinCall
<1>8. QED BY <1>2, <1>3, <1>4, <1>5, <1>6, <1>7 DEF ReadsWithinCall

(* Every step keeps the invariant.                                         *)
LEMMA NextReads == ReadsWithinCall /\ [Next]_vars => ReadsWithinCall'
<1> SUFFICES ASSUME ReadsWithinCall, [Next]_vars
             PROVE  ReadsWithinCall'
  OBVIOUS
<1>1. CASE InitialiseTimer
  BY <1>1, RangesAssumption
  DEF InitialiseTimer, ReadsWithinCall, TypeOK, TicksWithinCall, words
<1>2. CASE GetTime
  <2>1. NoWait \in [stage : {"none", "start", "loop"}, usec : Nat, asked : Nat,
                    endTime : Nat, began : Nat]
    BY DEF NoWait
  <2>2. QED BY <1>2, <2>1, CallReads DEF GetTime
<1>3. ASSUME NEW usec \in Waits, Udelay(usec) PROVE ReadsWithinCall'
  BY <1>3, RangesAssumption, DelayReads DEF Udelay
<1>4. ASSUME NEW msec \in MilliWaits, Mdelay(msec) PROVE ReadsWithinCall'
  <2>1. PICK m \in Nat : m = msec * MicroPerMilli
    BY RangesAssumption
  <2>2. m % UnsignedRange \in Nat
    BY RangesAssumption
  <2>3. QED BY <1>4, <2>1, <2>2, DelayReads DEF Mdelay
<1>5. CASE GetTicks
  BY <1>5, InitialHighReads, LowReads, HighReads, LowAgainReads DEF GetTicks
<1>6. CASE SetEndTime
  BY <1>6, EndTimeReads
<1>7. CASE WaitOn
  <2>1. Call(wait) /\ pc # "hang"
    BY <1>7 DEF WaitOn
  <2>2. QED BY <2>1, CallReads DEF ReadsWithinCall, TypeOK
<1>8. CASE Return
  BY <1>8 DEF Return, NoWait, ReadsWithinCall, TypeOK, TicksWithinCall, words
<1>9. CASE Tick
  BY <1>9, TickReads
<1>10. CASE UNCHANGED vars
  BY <1>10 DEF vars, ReadsWithinCall, TypeOK, TicksWithinCall
<1>11. QED
  BY <1>1, <1>2, <1>3, <1>4, <1>5, <1>6, <1>7, <1>8, <1>9, <1>10
  DEF Next, Running

(* The invariant that bounds every register read holds in every behaviour. *)
THEOREM ReadsCorrect == Spec => []ReadsWithinCall
<1>1. QED BY InitReads, NextReads, PTL DEF Spec

(* get_ticks returns a value the counter had during the call, whatever the *)
(* width of its words.                                                     *)
THEOREM TicksCorrect == Spec => []TicksWithinCall
<1>1. ReadsWithinCall => TicksWithinCall
  BY DEF ReadsWithinCall
<1>2. QED BY <1>1, ReadsCorrect, PTL

-----------------------------------------------------------------------------
(* Delays.                                                                 *)

(* A quotient, between the multiples around what was divided.               *)
LEMMA Quotient ==
    ASSUME NEW n \in Nat, NEW t \in Nat \ {0}
    PROVE  /\ n \div t \in Nat
           /\ (n \div t) * t <= n
           /\ n < (n \div t) * t + t
<1>1. /\ n \div t \in Nat /\ n % t \in 0 .. t - 1
      /\ n = t * (n \div t) + (n % t)
  OBVIOUS
<1>2. PICK q \in Nat : q = n \div t
  BY <1>1
<1>3. t * q = q * t /\ q * t \in Nat
  OBVIOUS
<1>4. QED BY <1>1, <1>2, <1>3

(* Time that is up by the microseconds is up by the ticks, but for the one *)
(* under way when it began.                                                *)
LEMMA LongEnough ==
    ASSUME NEW t \in Nat \ {0}, NEW n \in Nat, NEW m \in Nat, NEW usec \in Nat,
           NEW z \in Nat \ {0}, (m * z) \div t >= (n * z) \div t + usec
    PROVE  (m - n) * z > (usec - 1) * t
<1> DEFINE p == (m * z) \div t
           q == (n * z) \div t
<1>1. m * z \in Nat /\ n * z \in Nat
  OBVIOUS
<1>2. p \in Nat /\ p * t <= m * z
  BY <1>1, Quotient
<1>3. q \in Nat /\ n * z < q * t + t
  BY <1>1, Quotient
<1>4. p >= q + usec
  OBVIOUS
<1> HIDE DEF p, q
<1>5. PICK d \in Nat : p = q + usec + d
  BY <1>2, <1>3, <1>4, p - (q + usec) \in Nat
<1>6. p * t = q * t + usec * t + d * t
  BY <1>2, <1>3, <1>5
<1>7. d * t \in Nat /\ q * t \in Nat /\ usec * t \in Nat /\ p * t \in Nat
  BY <1>2, <1>3
<1>8. (m - n) * z = m * z - n * z /\ (usec - 1) * t = usec * t - t
  OBVIOUS
<1>9. QED BY <1>1, <1>2, <1>3, <1>6, <1>7, <1>8

(* What rounding the ticks of a microsecond down costs is less than one    *)
(* tick in `Precision` for each: g and c are the frequency and the time    *)
(* elapsed, scaled up, and m the microseconds of a second.                 *)
LEMMA RateLoss ==
    ASSUME NEW g \in Nat, NEW m \in Nat \ {0}, g >= m, NEW c \in Nat,
           NEW usec \in Nat, c > (usec - 1) * (g \div m),
           usec = 0 => g > m
    PROVE  c * m > (usec - 1) * (g - m)
<1> DEFINE t == g \div m
<1>1. t \in Nat /\ g < t * m + m /\ t * m \in Nat
  BY Quotient
<1>2. c > (usec - 1) * t
  OBVIOUS
<1> HIDE DEF t
<1>3. CASE usec = 0
  <2>1. (usec - 1) * (g - m) = m - g /\ c * m \in Nat
    BY <1>3
  <2>2. QED BY <1>3, <2>1
<1>4. CASE usec # 0
  <2>1. PICK u \in Nat : u = usec - 1
    BY <1>4, usec - 1 \in Nat
  <2>2. u * t \in Nat /\ c > u * t
    BY <1>1, <1>2, <2>1
  <2>3. PICK d \in Nat : c = u * t + 1 + d
    BY <2>2, c - (u * t + 1) \in Nat
  <2>4. c * m = u * (t * m) + m + d * m
    BY <1>1, <2>3
  <2>5. PICK k \in Nat : t * m = (g - m) + k
    <3>1. t * m - (g - m) \in Nat
      BY <1>1
    <3>2. QED BY <1>1, <3>1
  <2>6. u * (t * m) = u * (g - m) + u * k
    BY <2>5
  <2>7. /\ u * k \in Nat /\ d * m \in Nat /\ u * (g - m) \in Int
        /\ c * m \in Nat
    OBVIOUS
  <2>8. c * m > u * (g - m)
    BY <2>4, <2>6, <2>7
  <2>9. QED BY <2>1, <2>8
<1>5. QED BY <1>3, <1>4

(* The arguments of wrap_mdelay that its multiplication does not wrap.     *)
UnwrappedWaits ==
    \A msec \in MilliWaits : msec * MicroPerMilli < UnsignedRange

(* A call of get_ticks, of the wait that is in progress.                   *)
LEMMA CallWaits ==
    ASSUME ReadsWithinCall, NEW w, Call(w), w.usec = w.asked,
           w.stage # "none" => w.began <= counter,
           w.stage = "loop" =>
               \E n \in w.began .. counter : w.endTime = ToMicro(n) + w.usec
    PROVE  WaitInv'
<1>1. /\ pc' # "idle" /\ called' = counter /\ wait' = w /\ counter' = counter
      /\ tickFrequency' = tickFrequency
  BY DEF Call
<1>2. \A n : ToMicro(n)' = ToMicro(n)
  BY <1>1 DEF ToMicro, TicksPerUs
<1>3. QED BY <1>1, <1>2 DEF WaitInv

(* A delay begins.                                                         *)
LEMMA DelayWaits ==
    ASSUME ReadsWithinCall, NEW usec, Delay(usec, usec)
    PROVE  WaitInv'
<1> DEFINE w == [stage |-> "start", usec |-> usec, asked |-> usec,
                 endTime |-> 0, began |-> counter]
<1>1. /\ Call(w) /\ w.usec = w.asked /\ w.stage = "start" /\ w.began = counter
      /\ counter \in Nat
  BY DEF Delay, ReadsWithinCall, TypeOK
<1> HIDE DEF w
<1>2. w.stage # "none" => w.began <= counter
  BY <1>1
<1>3. QED BY <1>1, <1>2, CallWaits

(* Steps that leave the wait alone, as the reads of the registers do.      *)
LEMMA SameWait ==
    ASSUME ReadsWithinCall, WaitInv, pc # "idle",
           UNCHANGED <<counter, tickFrequency, called, wait>>, pc' # "idle"
    PROVE  WaitInv'
<1>1. \A n : ToMicro(n)' = ToMicro(n)
  BY DEF ToMicro, TicksPerUs
<1>2. QED BY <1>1 DEF WaitInv

(* Every step keeps the invariant.                                         *)
LEMMA NextWaits ==
    ASSUME UnwrappedWaits, ReadsWithinCall, WaitInv, [Next]_vars
    PROVE  WaitInv'
<1>1. CASE InitialiseTimer
  <2>1. wait' = wait /\ pc = "idle" /\ wait.stage = "none" /\ wait.usec = wait.asked
    BY <1>1 DEF InitialiseTimer, WaitInv
  <2>2. QED BY <2>1 DEF WaitInv
<1>2. CASE GetTime
  <2>1. /\ Call(NoWait) /\ NoWait.usec = NoWait.asked /\ NoWait.stage = "none"
    BY <1>2 DEF GetTime, NoWait
  <2>2. QED BY <2>1, CallWaits
<1>3. ASSUME NEW usec \in Waits, Udelay(usec) PROVE WaitInv'
  BY <1>3, DelayWaits DEF Udelay
<1>4. ASSUME NEW msec \in MilliWaits, Mdelay(msec) PROVE WaitInv'
  <2>1. PICK m \in Nat : m = msec * MicroPerMilli
    BY RangesAssumption
  <2>2. m % UnsignedRange = m
    BY <2>1, RangesAssumption DEF UnwrappedWaits
  <2>3. QED BY <1>4, <2>1, <2>2, DelayWaits DEF Mdelay
<1>5. CASE GetTicks
  <2>1. /\ pc # "idle" /\ pc' # "idle"
        /\ UNCHANGED <<counter, tickFrequency, called, wait>>
    BY <1>5 DEF GetTicks, ReadInitialHigh, ReadLow, ReadHigh, ReadLowAgain
  <2>2. QED BY <2>1, SameWait
<1>6. CASE SetEndTime
  <2> DEFINE w == [wait EXCEPT !.stage = "loop",
                               !.endTime = ToMicro(ticks) + wait.usec]
  <2>1. /\ Call(w) /\ pc = "time" /\ wait.stage = "start"
        /\ wait \in [stage : {"none", "start", "loop"}, usec : Nat, asked : Nat,
                     endTime : Nat, began : Nat]
    BY <1>6 DEF SetEndTime, ReadsWithinCall, TypeOK
  <2>2. /\ w.stage = "loop" /\ w.usec = wait.usec /\ w.asked = wait.asked
        /\ w.began = wait.began /\ w.endTime = ToMicro(ticks) + wait.usec
    BY <2>1
  <2>3. /\ wait.usec = wait.asked /\ wait.began \in Nat /\ wait.began <= called
        /\ ticks \in called .. counter /\ called <= counter
        /\ called \in Nat /\ counter \in Nat
    BY <2>1 DEF WaitInv, ReadsWithinCall, TypeOK, TicksWithinCall
  <2> HIDE DEF w
  <2>4. w.began <= counter /\ ticks \in w.began .. counter
    BY <2>2, <2>3
  <2>5. \E n \in w.began .. counter : w.endTime = ToMicro(n) + w.usec
    BY <2>2, <2>4
  <2>6. QED BY <2>1, <2>2, <2>3, <2>4, <2>5, CallWaits
<1>7. CASE WaitOn
  <2>1. Call(wait) /\ wait.stage = "loop" /\ wait.usec = wait.asked
    BY <1>7 DEF WaitOn, WaitInv
  <2>2. wait.began <= counter
    BY <2>1 DEF WaitInv, ReadsWithinCall, TypeOK
  <2>3. QED BY <2>1, <2>2, CallWaits DEF WaitInv
<1>8. CASE Return
  BY <1>8 DEF Return, NoWait, WaitInv
<1>9. CASE Tick
  <2>1. /\ counter' = counter + 1 /\ counter \in Nat
        /\ UNCHANGED <<tickFrequency, pc, called, wait>>
    BY <1>9 DEF Tick, ReadsWithinCall, TypeOK
  <2>2. \A n : ToMicro(n)' = ToMicro(n)
    BY <2>1 DEF ToMicro, TicksPerUs
  <2>3. ASSUME wait.stage = "loop"
        PROVE  \E n \in wait.began .. counter' : wait.endTime = ToMicro(n) + wait.usec
    <3>1. PICK n \in wait.began .. counter : wait.endTime = ToMicro(n) + wait.usec
      BY <2>3 DEF WaitInv
    <3>2. wait.began \in Nat
      BY DEF ReadsWithinCall, TypeOK
    <3>3. n \in wait.began .. counter'
      BY <2>1, <3>1, <3>2
    <3>4. QED BY <3>1, <3>3
  <2>4. QED BY <2>1, <2>2, <2>3 DEF WaitInv
<1>10. CASE UNCHANGED vars
  <2>1. \A n : ToMicro(n)' = ToMicro(n)
    BY <1>10 DEF vars, ToMicro, TicksPerUs
  <2>2. QED BY <1>10, <2>1 DEF vars, WaitInv
<1>11. QED
  BY <1>1, <1>2, <1>3, <1>4, <1>5, <1>6, <1>7, <1>8, <1>9, <1>10
  DEF Next, Running

(* What a wait in progress rests on holds in every behaviour, unless       *)
(* wrap_mdelay is asked for more microseconds than its type holds.          *)
THEOREM WaitsCorrect == ASSUME UnwrappedWaits PROVE Spec => []WaitInv
<1>1. Init => WaitInv
  BY DEF Init, NoWait, WaitInv
<1>2. ReadsWithinCall /\ WaitInv /\ [Next]_vars => WaitInv'
  BY NextWaits
<1>3. QED BY <1>1, <1>2, ReadsCorrect, PTL DEF Spec

(* udelay and wrap_mdelay return no earlier than asked by the counter's    *)
(* frequency, whatever it is, but for the microsecond under way when they  *)
(* began and the one part in Precision * tickFrequency / MicroPerSecond    *)
(* that rounding the ticks of a microsecond may cost.                      *)
THEOREM DelayCorrect == ASSUME UnwrappedWaits PROVE Spec => DelayNotShort
<1> DEFINE A == (Return /\ wait.stage = "loop") =>
                    (counter - wait.began) * Precision * MicroPerSecond >
                        (wait.asked - 1) * (tickFrequency * Precision - MicroPerSecond)
<1>1. ReadsWithinCall /\ WaitInv => A
  <2> SUFFICES ASSUME ReadsWithinCall, WaitInv, Return, wait.stage = "loop"
               PROVE  (counter - wait.began) * Precision * MicroPerSecond >
                          (wait.asked - 1) * (tickFrequency * Precision - MicroPerSecond)
    OBVIOUS
  <2>1. /\ pc = "time" /\ ToMicro(ticks) >= wait.endTime
    BY DEF Return, Finished
  <2>2. /\ TypeOK /\ tickFrequency >= MicroPerSecond
        /\ counter \in Nat /\ called \in Nat /\ ticks \in called .. counter
        /\ wait.began \in Nat /\ wait.usec \in Nat /\ wait.asked = wait.usec
    BY <2>1 DEF ReadsWithinCall, TypeOK, TicksWithinCall, WaitInv
  <2>3. PICK n \in wait.began .. counter : wait.endTime = ToMicro(n) + wait.usec
    BY DEF WaitInv
  <2>4. TicksPerUs \in Nat \ {0}
    BY <2>2, TicksPerUsNat
  <2>5. n \in Nat /\ ticks \in Nat /\ wait.began <= n /\ ticks <= counter
    BY <2>2, <2>3
  <2>6. (ticks * Precision) \div TicksPerUs
            >= (n * Precision) \div TicksPerUs + wait.usec
    BY <2>1, <2>3 DEF ToMicro
  <2>7. /\ tickFrequency \in Nat /\ MicroPerSecond \in Nat \ {0}
        /\ Precision \in Nat \ {0, 1}
    BY RangesAssumption DEF ReadsWithinCall, TypeOK
  <2>8. (ticks - n) * Precision > (wait.usec - 1) * TicksPerUs
    BY <2>2, <2>4, <2>5, <2>6, <2>7, LongEnough
  <2>9. PICK c \in Nat : /\ c = (counter - wait.began) * Precision
                         /\ c >= (ticks - n) * Precision
    BY <2>2, <2>5, <2>7, ScaledOrder
  <2>10. PICK g \in Nat : /\ g = tickFrequency * Precision
                          /\ g > MicroPerSecond
    <3>1. tickFrequency * Precision \in Nat
          /\ tickFrequency * Precision > tickFrequency
      BY <2>2, <2>7, Scaled
    <3>2. QED BY <2>2, <2>7, <3>1
  <2>11. c > (wait.usec - 1) * (g \div MicroPerSecond)
    <3>1. TicksPerUs = g \div MicroPerSecond
      BY <2>10 DEF TicksPerUs
    <3>2. PICK k \in Int : k = (wait.usec - 1) * TicksPerUs
      BY <2>2, <2>4
    <3>3. PICK d \in Int : d = (ticks - n) * Precision
      BY <2>5, <2>7
    <3>4. c > k
      BY <2>8, <2>9, <3>2, <3>3
    <3>5. QED BY <3>1, <3>2, <3>4
  <2>12. c * MicroPerSecond > (wait.usec - 1) * (g - MicroPerSecond)
    <3>1. g >= MicroPerSecond
      BY <2>7, <2>10
    <3>2. QED BY <2>2, <2>7, <2>10, <2>11, <3>1, RateLoss, Zenon
  <2>13. QED BY <2>2, <2>9, <2>10, <2>12
<1>2. A => [A]_vars
  OBVIOUS
<1>3. QED BY <1>1, <1>2, ReadsCorrect, WaitsCorrect, PTL DEF DelayNotShort

=============================================================================
