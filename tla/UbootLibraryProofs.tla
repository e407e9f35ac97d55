------------------------- MODULE UbootLibraryProofs -------------------------
(***************************************************************************)
(* The life of libubootdrivers for any number of copies of the device tree *)
(* and of DMA blocks, and whether or not disabling devices can fail.       *)
(***************************************************************************)
EXTENDS UbootLibrary, TLAPS

USE CopiesAssumption, PruningsAssumption, MaxBlocksAssumption

LEMMA InitInv == Init => IInv
<1> SUFFICES ASSUME Init PROVE IInv
  OBVIOUS
<1>1. TypeOK
  <2>1. strayed \in BOOLEAN /\ initialised \in BOOLEAN /\ timer \in BOOLEAN
    BY Zenon DEF Init
  <2>2. slots \in 0 .. MaxBlocks /\ pool \in 0 .. MaxBlocks
    BY DEF Init
  <2> QED
    BY <2>1, <2>2 DEF Init, TypeOK
<1>2. Parts
  BY DEF Init, Parts, Starting, Scanning
<1>3. Orderly
  BY DEF Init, Orderly, Starting
<1>4. WholeOrNothing /\ DriversFindLibrary /\ PointersLive /\ FreeFindsManager
  BY DEF Init, WholeOrNothing, DriversFindLibrary, DriversRun, PointersLive, FreeFindsManager
<1> QED
  BY <1>1, <1>2, <1>3, <1>4 DEF IInv

LEMMA StepInv == IInv /\ [Next]_vars => IInv'
<1> SUFFICES ASSUME IInv, [Next]_vars PROVE IInv'
  OBVIOUS
<1> USE DEF IInv, TypeOK, Parts, Orderly, WholeOrNothing, DriversFindLibrary,
            PointersLive, FreeFindsManager, Starting, Scanning, DriversRun,
            caller, uboot, dma
<1>1. CASE \E c \in Copies : CopyFdt(c)
  <2>0. PICK c \in Copies : CopyFdt(c)
    BY <1>1
  <2>1. TypeOK'
    BY <2>0 DEF CopyFdt, Initialises
  <2>2. Parts'
    BY <2>0 DEF CopyFdt, Initialises
  <2>3. Orderly'
    BY <2>0 DEF CopyFdt, Initialises
  <2>4. WholeOrNothing'
    BY <2>0 DEF CopyFdt, Initialises
  <2>5. DriversFindLibrary'
    BY <2>0 DEF CopyFdt, Initialises
  <2>6. PointersLive'
    BY <2>0 DEF CopyFdt, Initialises
  <2>7. FreeFindsManager'
    BY <2>0 DEF CopyFdt, Initialises
  <2> QED
    BY <2>1, <2>2, <2>3, <2>4, <2>5, <2>6, <2>7 DEF IInv
<1>2. CASE NoRoomForFdt
  BY <1>2 DEF NoRoomForFdt, Initialises
<1>3. CASE PrepareFdt
  BY <1>3 DEF PrepareFdt
<1>4. CASE StartDma
  BY <1>4 DEF StartDma
<1>5. CASE Error
  BY <1>5 DEF Error
<1>6. CASE StartWrapper
  BY <1>6 DEF StartWrapper, Initialised
<1>7. CASE BuildTree
  BY <1>7 DEF BuildTree
<1>8. CASE ScanDevices
  <2>1. TypeOK'
    BY <1>8 DEF ScanDevices, Initialised
  <2>2. Parts'
    BY <1>8 DEF ScanDevices, Initialised
  <2>3. Orderly'
    BY <1>8 DEF ScanDevices, Initialised
  <2>4. WholeOrNothing'
    BY <1>8 DEF ScanDevices, Initialised
  <2>5. DriversFindLibrary'
    BY <1>8 DEF ScanDevices, Initialised
  <2>6. PointersLive'
    BY <1>8 DEF ScanDevices, Initialised
  <2>7. FreeFindsManager'
    BY <1>8 DEF ScanDevices, Initialised
  <2> QED
    BY <2>1, <2>2, <2>3, <2>4, <2>5, <2>6, <2>7 DEF IInv
<1>9. CASE FreeGd
  BY <1>9 DEF FreeGd
<1>10. CASE Allocate
  BY <1>10 DEF Allocate
<1>11. CASE Return
  BY <1>11 DEF Return
<1>12. CASE CallDeadManager
  <2>1. TypeOK'
    BY <1>12 DEF CallDeadManager, Crashes
  <2>2. Parts'
    BY <1>12 DEF CallDeadManager, Crashes
  <2>3. Orderly'
    BY <1>12 DEF CallDeadManager, Crashes
  <2>4. WholeOrNothing'
    BY <1>12 DEF CallDeadManager, Crashes
  <2>5. DriversFindLibrary'
    BY <1>12 DEF CallDeadManager, Crashes
  <2>6. PointersLive'
    BY <1>12 DEF CallDeadManager, Crashes
  <2>7. FreeFindsManager'
    BY <1>12 DEF CallDeadManager, Crashes
  <2> QED
    BY <2>1, <2>2, <2>3, <2>4, <2>5, <2>6, <2>7 DEF IInv
<1>13. CASE RunCommand
  <2>1. CASE gd # 0
    <3>1. /\ pc = "idle" /\ pc' = "command" /\ client # "never"
          /\ strayed' = (strayed \/ client = "shutdown")
      BY <1>13, <2>1 DEF RunCommand, Calls, Crashes
    <3>2. UNCHANGED <<client, fdt, heap, gd, initialised, timer, manager, slots, pool>>
      BY <1>13, <2>1 DEF RunCommand, Crashes
    <3>3. initialised
      BY <1>13 DEF RunCommand
    <3>4. strayed \in BOOLEAN /\ strayed' \in BOOLEAN
      BY <3>1
    <3>5. ~strayed' => ~strayed /\ client = "initialised"
      BY <3>1, <3>3
    <3> QED
      BY <2>1, <3>1, <3>2, <3>3, <3>4, <3>5
  <2>2. CASE gd = 0
    <3>1. /\ pc = "idle" /\ pc' = "crashed" /\ client # "never"
          /\ strayed' = (strayed \/ client = "shutdown")
      BY <1>13, <2>2 DEF RunCommand, Calls, Crashes
    <3>2. UNCHANGED <<client, fdt, heap, gd, initialised, timer, manager, slots, pool>>
      BY <1>13, <2>2 DEF RunCommand, Crashes
    <3>3. initialised
      BY <1>13 DEF RunCommand
    <3>4. strayed'
      BY <2>2, <3>1, <3>3
    <3> QED
      BY <2>2, <3>1, <3>2, <3>4
  <2> QED
    BY <2>1, <2>2
<1>14. CASE CommandEnds
  BY <1>14 DEF CommandEnds
<1>15. CASE StackReused
  BY <1>15 DEF StackReused
<1>16. CASE FreeFdt
  BY <1>16 DEF FreeFdt, Calls
<1>17. CASE ShutdownWrapper
  BY <1>17 DEF ShutdownWrapper
<1>18. CASE ShutdownDma
  <2>1. TypeOK'
    <3>1. slots' \in 0 .. MaxBlocks /\ pool' \in 0 .. MaxBlocks
      BY <1>18 DEF ShutdownDma, Crashes
    <3> QED
      BY <1>18, <3>1 DEF ShutdownDma, Crashes
  <2>2. Parts'
    BY <1>18 DEF ShutdownDma, Crashes
  <2>3. Orderly'
    BY <1>18 DEF ShutdownDma, Crashes
  <2>4. WholeOrNothing'
    BY <1>18 DEF ShutdownDma, Crashes
  <2>5. DriversFindLibrary'
    BY <1>18 DEF ShutdownDma, Crashes
  <2>6. PointersLive'
    BY <1>18 DEF ShutdownDma, Crashes
  <2>7. FreeFindsManager'
    BY <1>18 DEF ShutdownDma, Crashes
  <2> QED
    BY <2>1, <2>2, <2>3, <2>4, <2>5, <2>6, <2>7 DEF IInv
<1>19. CASE UNCHANGED vars
  BY <1>19 DEF vars
<1> QED
  BY <1>1, <1>2, <1>3, <1>4, <1>5, <1>6, <1>7, <1>8, <1>9, <1>10, <1>11, <1>12, <1>13, <1>14, <1>15, <1>16, <1>17, <1>18, <1>19 DEF Next

-----------------------------------------------------------------------------

(* In every reachable state, for any number of copies and blocks, the      *)
(* invariant holds.                                                        *)
THEOREM Inductive == Spec => []IInv
BY InitInv, StepInv, PTL DEF Spec

(* Between calls, unless the client has strayed, the library is all there  *)
(* or all gone.                                                            *)
THEOREM WholeCorrect == Spec => []WholeOrNothing
<1>1. IInv => WholeOrNothing
  BY DEF IInv
<1> QED
  BY <1>1, Inductive, PTL

(* Drivers find the parts of the library they need, and nothing crashes    *)
(* but by the dead manager or for a client that has strayed.               *)
THEOREM DriversCorrect == Spec => []DriversFindLibrary
<1>1. IInv => DriversFindLibrary
  BY DEF IInv
<1> QED
  BY <1>1, Inductive, PTL

(* No copy of the device tree is freed while it is pointed to.             *)
THEOREM PointersCorrect == Spec => []PointersLive
<1>1. IInv => PointersLive
  BY DEF IInv
<1> QED
  BY <1>1, Inductive, PTL

(* Shutdown frees blocks only through a manager.                           *)
THEOREM ManagerCorrect == Spec => []FreeFindsManager
<1>1. IInv => FreeFindsManager
  BY DEF IInv
<1> QED
  BY <1>1, Inductive, PTL

(* A step that makes more blocks taken than known: only StartDma, which    *)
(* clears the table, and at a first initialisation the table is empty.     *)
LEMMA StepKeepsDma ==
    ASSUME IInv, Next, pool' - slots' > pool - slots
    PROVE  StartDma /\ (client = "failed" \/ strayed)
<1> slots \in Int /\ pool \in Int
  BY DEF IInv, TypeOK
<1>1. CASE StartDma
  <2>1. SUFFICES ASSUME client # "failed", ~strayed PROVE FALSE
    BY <1>1
  <2>2. pc = "dma" /\ client = "never"
    BY <1>1, <2>1 DEF StartDma, IInv, TypeOK, Orderly, Starting
  <2>3. slots = 0
    BY <2>1, <2>2 DEF IInv, Orderly
  <2> QED
    BY <1>1, <2>3 DEF StartDma
<1>2. CASE Allocate
  BY <1>2 DEF Allocate
<1>3. CASE Return
  BY <1>3 DEF Return
<1>4. CASE ShutdownDma
  BY <1>4 DEF ShutdownDma, Crashes, dma
<1>5. CASE ~(StartDma \/ Allocate \/ Return \/ ShutdownDma)
  <2>1. UNCHANGED <<slots, pool>>
    BY <1>5 DEF Next, CopyFdt, NoRoomForFdt, PrepareFdt, Error, StartWrapper, BuildTree, ScanDevices, FreeGd, CallDeadManager, RunCommand, CommandEnds, StackReused, FreeFdt, ShutdownWrapper, Crashes, dma
  <2> QED
    BY <2>1
<1> QED
  BY <1>1, <1>2, <1>3, <1>4, <1>5

(* A DMA block is lost by no step but initialise's clearing of the table   *)
(* (uboot_drivers.c:125), after a failed initialisation or in one too many. *)
THEOREM DmaKept == Spec => OnlyRetriesLoseDma
<1>1. IInv /\ [Next]_vars => [pool' - slots' > pool - slots =>
                                StartDma /\ (client = "failed" \/ strayed)]_vars
  BY StepKeepsDma
<1> QED
  BY <1>1, Inductive, PTL DEF Spec, OnlyRetriesLoseDma

=============================================================================
