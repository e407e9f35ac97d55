--------------------------- MODULE SystemCounter ---------------------------
(***************************************************************************)
(* libubootdrivers/src/timer/timer_imx8mq.c: reading a counter of two words *)
(* through 32-bit registers while it runs, and the busy waits built on it.  *)
(* Each register read is a step; the counter runs between any two of them.  *)
(***************************************************************************)
EXTENDS Integers

CONSTANTS
    LowRange,       \* 2^32: the values the low word takes
    CountLimit,     \* bounds the counter
    Frequency,      \* what the frequency register holds
    Precision,      \* 2^7: what shifting left by 7 bits multiplies by
    MicroPerSecond, \* 1000000
    MicroPerMilli,  \* 1000
    UnsignedRange,  \* UINT_MAX + 1
    Waits,          \* the arguments of udelay
    MilliWaits      \* the arguments of wrap_mdelay

ASSUME RangesAssumption ==
    /\ LowRange \in Nat \ {0, 1}
    /\ CountLimit \in Nat
    /\ Frequency \in Nat /\ Precision \in Nat \ {0, 1}
    /\ MicroPerSecond \in Nat \ {0} /\ MicroPerMilli \in Nat \ {0}
    /\ UnsignedRange \in Nat \ {0}
    /\ Waits \subseteq Nat /\ MilliWaits \subseteq Nat

VARIABLES
    counter,        \* the hardware's tick count
    tickFrequency,  \* tick_frequency, 0 before initialise_and_start_timer
    pc,             \* where get_ticks is
    initialHigh, low, high,   \* get_ticks: what it has read
    ticks,          \* what get_ticks returned last
    called,         \* history: the counter when get_ticks was called
    wait            \* who waits for get_ticks: [stage, usec, asked,
                    \* endTime, began], `asked` and `began` being history

vars == <<counter, tickFrequency, pc, initialHigh, low, high, ticks, called, wait>>

words == <<initialHigh, low, high>>

-----------------------------------------------------------------------------

HighWord(n) == n \div LowRange
LowWord(n)  == n % LowRange

(* Mutant: the shift comes after the division.                             *)
TicksPerUsWhole == (tickFrequency \div MicroPerSecond) * Precision

(* timer_get_us(): seven bits more precision for the ticks of one           *)
(* microsecond, rounded down.                                              *)
TicksPerUs == (tickFrequency * Precision) \div MicroPerSecond

ToMicro(n) == (n * Precision) \div TicksPerUs

(* The frequency register is read at every call; too low, and it hangs.    *)
InitialiseTimer ==
    /\ pc = "idle"
    /\ tickFrequency' = Frequency
    /\ pc' = IF Frequency < MicroPerSecond THEN "hang" ELSE "idle"
    /\ UNCHANGED <<counter, words, ticks, called, wait>>

NoWait == [stage |-> "none", usec |-> 0, asked |-> 0, endTime |-> 0, began |-> 0]

(* A call of get_ticks(); an uninitialised timer hangs.                     *)
Call(w) ==
    /\ pc' = IF tickFrequency = 0 THEN "hang" ELSE "high"
    /\ called' = counter
    /\ wait' = w
    /\ UNCHANGED <<counter, tickFrequency, words, ticks>>

(* timer_get_us(), for whoever only asks for the time.                     *)
GetTime == pc = "idle" /\ Call(NoWait)

(* Bounds the counter: a wait begins when its end can still be reached.     *)
WithinLimit(usec) ==
    tickFrequency # 0 =>
        ToMicro(counter + LowRange) + usec <= ToMicro(CountLimit)

Delay(usec, asked) ==
    /\ pc = "idle"
    /\ WithinLimit(usec)
    /\ Call([stage |-> "start", usec |-> usec, asked |-> asked,
             endTime |-> 0, began |-> counter])

Udelay(usec) == Delay(usec, usec)

(* wrap_mdelay() multiplies unsigned ints.                                 *)
Mdelay(msec) ==
    Delay((msec * MicroPerMilli) % UnsignedRange, msec * MicroPerMilli)

ReadInitialHigh ==
    /\ pc = "high"
    /\ initialHigh' = HighWord(counter)
    /\ pc' = "low"
    /\ UNCHANGED <<counter, tickFrequency, low, high, ticks, called, wait>>

ReadLow ==
    /\ pc = "low"
    /\ low' = LowWord(counter)
    /\ pc' = "again"
    /\ UNCHANGED <<counter, tickFrequency, initialHigh, high, ticks, called, wait>>

Combined(h, l) == h * LowRange + l

(* Mutant: the high word is not read again.                                *)
ReadHighOnce ==
    /\ pc = "again"
    /\ ticks' = Combined(initialHigh, low)
    /\ pc' = "time"
    /\ UNCHANGED <<counter, tickFrequency, words, called, wait>>

(* The second read of the high word tells whether the low one may be used. *)
ReadHigh ==
    /\ pc = "again"
    /\ high' = HighWord(counter)
    /\ IF high' = initialHigh
       THEN ticks' = Combined(high', low) /\ pc' = "time"
       ELSE pc' = "rollover" /\ UNCHANGED ticks
    /\ UNCHANGED <<counter, tickFrequency, initialHigh, low, called, wait>>

(* Mutant: the low word read before the rollover is used.                  *)
KeepLow ==
    /\ pc = "rollover"
    /\ ticks' = Combined(high, low)
    /\ pc' = "time"
    /\ UNCHANGED <<counter, tickFrequency, words, called, wait>>

ReadLowAgain ==
    /\ pc = "rollover"
    /\ low' = LowWord(counter)
    /\ ticks' = Combined(high, low')
    /\ pc' = "time"
    /\ UNCHANGED <<counter, tickFrequency, initialHigh, high, called, wait>>

(* Mutant: the end is put off at every reading of the time.                *)
PutOffEndTime ==
    /\ pc = "time" /\ wait.stage = "start"
    /\ Call([wait EXCEPT !.endTime = ToMicro(ticks) + wait.usec])

(* The start time is known, and the loop's first call follows.             *)
SetEndTime ==
    /\ pc = "time" /\ wait.stage = "start"
    /\ Call([wait EXCEPT !.stage = "loop", !.endTime = ToMicro(ticks) + wait.usec])

WaitOn ==
    /\ pc = "time" /\ wait.stage = "loop"
    /\ ToMicro(ticks) < wait.endTime
    /\ Call(wait)

Finished == wait.stage = "loop" => ToMicro(ticks) >= wait.endTime

Return ==
    /\ pc = "time" /\ wait.stage # "start"
    /\ Finished
    /\ pc' = "idle"
    /\ wait' = NoWait
    /\ UNCHANGED <<counter, tickFrequency, words, ticks, called>>

(* The hardware counts; no call lasts as long as the low word takes to     *)
(* come round (2^32 ticks are more than eight minutes).                    *)
Tick ==
    /\ counter < CountLimit
    /\ pc # "idle" => counter + 1 - called < LowRange
    /\ counter' = counter + 1
    /\ UNCHANGED <<tickFrequency, pc, words, ticks, called, wait>>

-----------------------------------------------------------------------------

Init ==
    /\ counter \in 0 .. LowRange
    /\ tickFrequency = 0
    /\ pc = "idle"
    /\ initialHigh = 0 /\ low = 0 /\ high = 0
    /\ ticks = 0 /\ called = 0
    /\ wait = NoWait

GetTicks == ReadInitialHigh \/ ReadLow \/ ReadHigh \/ ReadLowAgain

Running == GetTicks \/ SetEndTime \/ WaitOn \/ Return

Next ==
    \/ InitialiseTimer
    \/ GetTime
    \/ \E usec \in Waits : Udelay(usec)
    \/ \E msec \in MilliWaits : Mdelay(msec)
    \/ Running
    \/ Tick

Spec == Init /\ [][Next]_vars

(* The processor runs and so does the counter.                             *)
FairSpec == Spec /\ WF_vars(Running) /\ WF_vars(Tick)

-----------------------------------------------------------------------------
(* Properties.                                                             *)

(* The type invariant.                                                     *)
TypeOK ==
    /\ counter \in Nat /\ tickFrequency \in Nat
    /\ pc \in {"idle", "high", "low", "again", "rollover", "time", "hang"}
    /\ initialHigh \in Nat /\ low \in Nat /\ high \in Nat
    /\ ticks \in Nat /\ called \in Nat
    /\ wait \in [stage : {"none", "start", "loop"}, usec : Nat, asked : Nat,
                 endTime : Nat, began : Nat]

(* Whatever the counter does between the three or four register reads,     *)
(* get_ticks returns a value it had during the call.                       *)
TicksWithinCall == pc = "time" => ticks \in called .. counter

(* What has been read so far are the words of values the counter had during *)
(* the call, in the order of the reads; the call has not lasted a period of *)
(* the low word, and the frequency that was read can be divided by.         *)
ReadsWithinCall ==
    /\ TypeOK
    /\ called <= counter
    /\ tickFrequency = 0 \/ tickFrequency >= MicroPerSecond \/ pc = "hang"
    /\ pc \notin {"idle", "hang"} =>
        tickFrequency # 0 /\ counter - called < LowRange
    /\ pc = "low" => \E r \in called .. counter : initialHigh = HighWord(r)
    /\ pc = "again" =>
        \E r \in called .. counter : \E s \in r .. counter :
            initialHigh = HighWord(r) /\ low = LowWord(s)
    /\ pc = "rollover" =>
        \E r \in called .. counter : \E s \in r .. counter :
            initialHigh = HighWord(r) /\ high = HighWord(s) /\ high # initialHigh
    /\ TicksWithinCall

(* What a wait in progress rests on: it is to last as long as was asked,   *)
(* it began no later than the call in progress, and it ends its time after *)
(* a moment that lies within it.                                           *)
WaitInv ==
    /\ pc = "idle" => wait.stage = "none"
    /\ wait.usec = wait.asked
    /\ wait.stage # "none" => wait.began <= called
    /\ wait.stage = "loop" =>
        \E n \in wait.began .. counter : wait.endTime = ToMicro(n) + wait.usec

(* A delay is over no earlier than asked by the counter's own frequency,   *)
(* but for the microsecond under way when it began and one part in         *)
(* Precision * tickFrequency / MicroPerSecond, which is all that rounding  *)
(* the ticks of a microsecond down may cost: elapsed, in ticks, is above   *)
(* (asked - 1) * (tickFrequency / MicroPerSecond - 1 / Precision).         *)
DelayNotShort ==
    [][(Return /\ wait.stage = "loop") =>
        (counter - wait.began) * Precision * MicroPerSecond >
            (wait.asked - 1) * (tickFrequency * Precision - MicroPerSecond)]_vars

(* A delay ends, and so does every reading of the time.                    *)
DelayEnds == pc \in {"high", "low", "again", "rollover", "time"} ~> pc = "idle"

=============================================================================
