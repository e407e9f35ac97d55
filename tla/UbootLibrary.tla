---------------------------- MODULE UbootLibrary ----------------------------
(***************************************************************************)
(* The life of libubootdrivers: initialise_uboot_drivers, the calls a      *)
(* client makes of it and shutdown_uboot_drivers (uboot_drivers.c), with   *)
(* the wrapper behind them (uboot_wrapper.c).  One thread; what makes it   *)
(* hard is that every step of initialisation may fail and that a client    *)
(* may initialise again after a failure, a success or a shutdown.          *)
(*                                                                          *)
(* A call is its steps, `pc` the one it has reached.  U-Boot's own code is  *)
(* external: it succeeds or fails, and drivers take and return DMA blocks, *)
(* which here are only counted (Sel4Dma has the table).                    *)
(***************************************************************************)
EXTENDS Integers

CONSTANTS
    Copies,         \* the heap's places for a copy of the device tree
    Prunings,       \* whether disabling the devices that are not required
                    \* may succeed, and may fail (FdtStatus)
    MaxBlocks       \* bound: the DMA blocks taken and not returned

ASSUME CopiesAssumption == Copies \subseteq Nat \ {0}
ASSUME PruningsAssumption == Prunings \subseteq BOOLEAN
ASSUME MaxBlocksAssumption == MaxBlocks \in Nat

VARIABLES
    pc,            \* the step the current call is at; "idle" between calls
    client,        \* what the client knows: "never", or how its last
                   \* initialise or shutdown ended
    strayed,       \* history: the client has initialised a library that was
                   \* initialised, or called one that was shut down
    fdt,           \* uboot_fdt_pointer, 0 for NULL
    heap,          \* the copies of the device tree allocated and not freed
    gd,            \* gd->fdt_blob; 0 when gd itself is NULL
    initialised,   \* library_initialised
    timer,         \* whether the timer has been started
    manager,       \* sel4_dma_manager: "none", or pointing at a "live" or a
                   \* "dead" copy of the client's manager
    slots,         \* DMA blocks in the table
    pool           \* DMA blocks taken from the allocator

vars == <<pc, client, strayed, fdt, heap, gd, initialised, timer,
          manager, slots, pool>>

caller == <<client, strayed>>
uboot  == <<gd, initialised, timer>>
dma    == <<manager, slots, pool>>

-----------------------------------------------------------------------------
(* initialise_uboot_drivers().  Given no device or no device tree it       *)
(* returns at once.                                                        *)

Initialises ==
    /\ pc = "idle"
    /\ strayed' = (strayed \/ client \in {"initialised", "shutdown"})

(* Mutant: the copy of an earlier call is freed first.                     *)
CopyFdtOnce(c) ==
    /\ Initialises
    /\ c \in Copies \ heap
    /\ fdt' = c /\ heap' = (heap \ {fdt}) \cup {c}
    /\ pc' = "open"
    /\ UNCHANGED <<client, uboot, dma>>

(* The pointer is overwritten whatever it held.                            *)
CopyFdt(c) ==
    /\ Initialises
    /\ c \in Copies \ heap
    /\ fdt' = c /\ heap' = heap \cup {c}
    /\ pc' = "open"
    /\ UNCHANGED <<client, uboot, dma>>

NoRoomForFdt ==
    /\ Initialises
    /\ fdt' = 0
    /\ client' = "failed"
    /\ UNCHANGED <<pc, heap, uboot, dma>>

(* fdt_open_into and disable_not_required_devices: either may fail.        *)
PrepareFdt ==
    /\ pc = "open"
    /\ \/ TRUE \in Prunings /\ pc' = "dma"
       \/ pc' = "error"
    /\ UNCHANGED <<caller, fdt, heap, uboot, dma>>

(* sel4_dma_initialise() keeps a pointer to initialise's own argument.     *)
StartDma ==
    /\ pc = "dma"
    /\ manager' = "live" /\ slots' = 0
    /\ pc' = "wrapper"
    /\ UNCHANGED <<caller, fdt, heap, uboot, pool>>

(* Mutant: the pointer is cleared and the copy stays allocated.            *)
ErrorUnfreed ==
    /\ pc = "error"
    /\ fdt' = 0
    /\ pc' = "idle" /\ client' = "failed"
    /\ UNCHANGED <<strayed, heap, uboot, dma>>

Error ==
    /\ pc = "error"
    /\ heap' = heap \ {fdt} /\ fdt' = 0
    /\ pc' = "idle" /\ client' = "failed"
    /\ UNCHANGED <<strayed, uboot, dma>>

Initialised ==
    /\ pc' = "idle" /\ client' = "initialised"

-----------------------------------------------------------------------------
(* initialise_uboot_wrapper()                                              *)

StartWrapper ==
    /\ pc = "wrapper"
    /\ timer' = TRUE
    /\ \/ initialised /\ Initialised /\ gd' = gd
       \/ ~initialised /\ pc' = "error" /\ UNCHANGED <<client, gd>>
       \/ ~initialised /\ pc' = "build" /\ gd' = fdt /\ UNCHANGED client
    /\ UNCHANGED <<strayed, fdt, heap, initialised, dma>>

(* The live tree, the environment, stdio and the console.                  *)
BuildTree ==
    /\ pc = "build"
    /\ pc' \in {"scan", "fail"}
    /\ UNCHANGED <<caller, fdt, heap, uboot, dma>>

(* Mutant: success is noted before the drivers are started.                *)
ScanNotedEarly ==
    /\ pc = "scan"
    /\ initialised' = TRUE
    /\ Initialised \/ (pc' = "fail" /\ UNCHANGED client)
    /\ UNCHANGED <<strayed, fdt, heap, gd, timer, dma>>

(* The drivers have been started, or one of them has failed.               *)
ScanDevices ==
    /\ pc = "scan"
    /\ \/ Initialised /\ initialised' = TRUE
       \/ pc' = "fail" /\ UNCHANGED <<client, initialised>>
    /\ UNCHANGED <<strayed, fdt, heap, gd, timer, dma>>

FreeGd ==
    /\ pc = "fail"
    /\ gd' = 0
    /\ pc' = "error"
    /\ UNCHANGED <<caller, fdt, heap, initialised, timer, dma>>

-----------------------------------------------------------------------------
(* Using the library.                                                      *)

DriversRun == pc \in {"scan", "command"}

(* sel4_dma_memalign and sel4_dma_free, as a driver calls them.            *)
Allocate ==
    /\ DriversRun /\ manager = "live"
    /\ pool < MaxBlocks
    /\ slots' = slots + 1 /\ pool' = pool + 1
    /\ UNCHANGED <<pc, caller, fdt, heap, uboot, manager>>

(* Mutant: a block that is in no table is given back too.                  *)
ReturnAny ==
    /\ DriversRun /\ manager = "live"
    /\ slots' = slots - 1 /\ pool' = pool - 1
    /\ UNCHANGED <<pc, caller, fdt, heap, uboot, manager>>

Return ==
    /\ DriversRun /\ manager = "live"
    /\ slots > 0
    /\ slots' = slots - 1 /\ pool' = pool - 1
    /\ UNCHANGED <<pc, caller, fdt, heap, uboot, manager>>

Crashes ==
    /\ pc' = "crashed"
    /\ UNCHANGED <<client, fdt, heap, uboot, dma>>

(* The functions called are no longer where the manager was.               *)
CallDeadManager ==
    /\ DriversRun /\ manager = "dead"
    /\ Crashes /\ UNCHANGED strayed

Calls ==
    /\ pc = "idle" /\ client # "never"
    /\ strayed' = (strayed \/ client = "shutdown")

(* run_uboot_command(), and the stdin and ethernet calls that likewise      *)
(* fail when the library is not initialised.  A driver needs gd.           *)
RunCommand ==
    /\ Calls
    /\ initialised
    /\ \/ gd # 0 /\ pc' = "command" /\ UNCHANGED <<client, fdt, heap, uboot, dma>>
       \/ gd = 0 /\ Crashes

CommandEnds ==
    /\ pc = "command"
    /\ pc' = "idle"
    /\ UNCHANGED <<caller, fdt, heap, uboot, dma>>

(* Once initialise has returned the compiler may use the place of its      *)
(* argument for something else.                                            *)
StackReused ==
    /\ pc = "idle" /\ manager = "live"
    /\ manager' = "dead"
    /\ UNCHANGED <<pc, caller, fdt, heap, uboot, slots, pool>>

-----------------------------------------------------------------------------
(* shutdown_uboot_drivers()                                                *)

FreeFdt ==
    /\ Calls
    /\ heap' = heap \ {fdt} /\ fdt' = 0
    /\ pc' = "unwrap"
    /\ UNCHANGED <<client, uboot, dma>>

(* library_initialised is left as it is.                                   *)
ShutdownWrapper ==
    /\ pc = "unwrap"
    /\ gd' = IF initialised THEN 0 ELSE gd
    /\ pc' = "undma"
    /\ UNCHANGED <<caller, fdt, heap, initialised, timer, dma>>

(* Mutant: after an initialisation that failed no block is freed.           *)
ClearTable ==
    /\ pc = "undma"
    /\ pool' = (IF initialised THEN pool - slots ELSE pool) /\ slots' = 0
    /\ manager' = "none"
    /\ pc' = "idle" /\ client' = "shutdown"
    /\ UNCHANGED <<strayed, fdt, heap, uboot>>

(* sel4_dma_shutdown(): every block in the table is freed.                 *)
ShutdownDma ==
    /\ pc = "undma"
    /\ \/ /\ slots = 0 \/ manager = "live"
          /\ pool' = pool - slots /\ slots' = 0
          /\ manager' = "none"
          /\ pc' = "idle" /\ client' = "shutdown"
          /\ UNCHANGED <<strayed, fdt, heap, uboot>>
       \/ slots > 0 /\ manager # "live" /\ Crashes /\ UNCHANGED strayed

-----------------------------------------------------------------------------

Init ==
    /\ pc = "idle" /\ client = "never" /\ strayed = FALSE
    /\ fdt = 0 /\ heap = {} /\ gd = 0
    /\ initialised = FALSE /\ timer = FALSE
    /\ manager = "none" /\ slots = 0 /\ pool = 0

Next ==
    \/ \E c \in Copies : CopyFdt(c)
    \/ NoRoomForFdt \/ PrepareFdt \/ StartDma \/ Error
    \/ StartWrapper \/ BuildTree \/ ScanDevices \/ FreeGd
    \/ Allocate \/ Return \/ CallDeadManager
    \/ RunCommand \/ CommandEnds \/ StackReused
    \/ FreeFdt \/ ShutdownWrapper \/ ShutdownDma

Spec == Init /\ [][Next]_vars

-----------------------------------------------------------------------------
(* Properties.                                                             *)

(* The type invariant.                                                     *)
TypeOK ==
    /\ pc \in {"idle", "open", "dma", "wrapper", "build", "scan", "fail",
               "error", "command", "unwrap", "undma", "crashed"}
    /\ client \in {"never", "initialised", "failed", "shutdown"}
    /\ strayed \in BOOLEAN
    /\ heap \subseteq Copies
    /\ fdt \in Copies \cup {0} /\ gd \in Copies \cup {0}
    /\ initialised \in BOOLEAN /\ timer \in BOOLEAN
    /\ manager \in {"none", "live", "dead"}
    /\ slots \in 0 .. MaxBlocks /\ pool \in 0 .. MaxBlocks

(* The parts of the inductive invariant.  What any client finds, even one  *)
(* that has strayed: while the library starts it owns a new copy, which gd *)
(* does not use before there are drivers to scan for; once it does, there  *)
(* are a timer and a manager, and it is noted that they are there.         *)
Starting == pc \in {"open", "dma", "wrapper", "build", "scan", "fail", "error"}
Scanning == pc \in {"build", "scan", "fail"}

Parts ==
    /\ Starting => fdt # 0
    /\ Scanning => gd = fdt
    /\ pc \in {"open", "dma", "wrapper", "error"} => gd # fdt
    /\ pc = "command" => gd # 0
    /\ pc = "undma" => gd = 0
    /\ gd # 0 => timer /\ manager # "none"
    /\ gd # 0 => initialised \/ Scanning
    /\ pc = "wrapper" \/ Scanning => manager = "live"
    /\ slots <= pool

(* What a client finds that has not strayed: the call it has made, and how *)
(* its last one ended, tell which parts there are.                         *)
Orderly ==
    ~strayed =>
        /\ pc \notin {"idle", "crashed"} =>
                /\ Starting <=> client \in {"never", "failed"} /\ pc \notin {"unwrap", "undma"}
                /\ client # "shutdown"
        /\ Starting => heap = {fdt} /\ ~initialised
        /\ pc \in {"open", "dma", "wrapper", "error"} => gd = 0
        /\ pc = "command" => fdt # 0 /\ heap = {fdt} /\ gd = fdt /\ initialised
        /\ pc \in {"unwrap", "undma"} =>
                /\ fdt = 0 /\ heap = {} /\ client # "never"
                /\ client = "failed" => ~initialised
        /\ (pc = "idle" /\ client \in {"never", "failed"}) => ~initialised
        /\ (client = "never" /\ pc \in {"idle", "open", "dma"}) => slots = 0

(* Between calls the library is all there or all gone: after a success one *)
(* copy of the device tree, which gd uses; after a failure at any step, or *)
(* a shutdown, no copy, no gd and nothing that points to one.              *)
WholeOrNothing ==
    (pc = "idle" /\ ~strayed) =>
        IF client = "initialised"
        THEN /\ fdt # 0 /\ heap = {fdt} /\ gd = fdt
             /\ initialised /\ timer
        ELSE fdt = 0 /\ heap = {} /\ gd = 0

(* A client that has seen initialisation fail can only get -1 from the     *)
(* other calls: no driver runs.  Whenever one does, it finds gd, its device *)
(* tree, the timer and a DMA manager; nothing crashes but by the manager   *)
(* that is gone, or for a client that has strayed.                         *)
DriversFindLibrary ==
    /\ (pc = "idle" /\ client = "failed" /\ ~strayed) => ~initialised
    /\ pc = "crashed" => strayed \/ manager = "dead"
    /\ DriversRun => gd \in heap /\ timer /\ manager # "none"

(* However often the client initialises and shuts down, and in whatever    *)
(* order, no copy of the device tree is freed while gd or the library's    *)
(* own pointer still uses it, except that shutdown frees it just before gd. *)
PointersLive ==
    /\ fdt # 0 => fdt \in heap
    /\ gd # 0 => gd \in heap \/ pc = "unwrap"

(* In whatever order, too, the assertion of sel4_dma_free holds when       *)
(* shutdown goes through the table: there is a manager.                    *)
FreeFindsManager == slots > 0 => manager # "none"

(* The inductive invariant behind the proofs: what the library has at each *)
(* step, and therefore the properties above.                               *)
IInv ==
    /\ TypeOK /\ Parts /\ Orderly
    /\ WholeOrNothing /\ DriversFindLibrary /\ PointersLive /\ FreeFindsManager

(* A DMA block is lost, taken from the allocator and in no table, by one   *)
(* step alone, initialise's clearing of the table at uboot_drivers.c:125,  *)
(* and only in an initialisation that follows a failed one, or one too     *)
(* many.  No shutdown loses any, whatever the client has done before.      *)
OnlyRetriesLoseDma ==
    [][pool' - slots' > pool - slots => StartDma /\ (client = "failed" \/ strayed)]_vars

(* uboot_wrapper.c:70: library_initialised tells whether the library has   *)
(* been initialised, so a command that passes the test at line 188 has gd. *)
FlagTellsTruth == (pc = "idle" /\ initialised) => gd # 0

=============================================================================
