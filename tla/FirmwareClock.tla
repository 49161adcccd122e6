--------------------------- MODULE FirmwareClock ---------------------------
(***************************************************************************)
(* What runs when its time comes: the delayed functions of PEI and, when   *)
(* PEI has ended and its memory is gone, the timer interrupt of DXE.  Both *)
(* are on the boot hart and read the same counter.                         *)
(***************************************************************************)
EXTENDS DelayedDispatch, CpuTimer

clockVars == <<vars, timerVars>>

ClockInit == Init /\ TimerOff

(* The table goes with the HOB list, and the clock is counted from here.   *)
DxeStarts ==
  /\ phase = "ended" /\ timer.period = 0 /\ running = <<>> /\ mtime = 0
  /\ TimerDriverInitialize
  /\ phase' = "dxe"
  /\ entries' = [s \in Slot |-> Unused] /\ now' = 0
  /\ state' = [r \in Request |-> "new"]
  /\ UNCHANGED <<count, stack, corrupt>>

ClockNext ==
  \/ phase # "dxe" /\ Next /\ UNCHANGED timerVars
  \/ DxeStarts
  \/ phase = "dxe" /\ TimerNext /\ UNCHANGED vars
  \/ phase = "dxe" /\ mtime = LastTick /\ UNCHANGED clockVars

ClockSpec == ClockInit /\ [][ClockNext]_clockVars
=============================================================================
