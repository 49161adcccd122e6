------------------------------ MODULE CpuTimer ------------------------------
(***************************************************************************)
(* The timer of the DXE phase (CpuTimerDxeRiscV64) on the boot hart, with  *)
(* the supervisor trap handler (RiscVExceptionLib) its interrupt comes     *)
(* through.  The only user of the timer protocol is the DXE core, which is *)
(* external: it registers its handler, masks interrupts when it raises the *)
(* TPL, runs events with interrupts on when it restores it (the timer may  *)
(* interrupt again inside the handler), and sets the period to 0 at        *)
(* ExitBootServices.                                                       *)
(***************************************************************************)
EXTENDS Integers, Sequences

CONSTANTS
  CrystalClock,        \* PcdCpuCoreCrystalClockFrequency, in MHz
  DefaultTickDuration, \* DEFAULT_TIMER_TICK_DURATION, in 100 ns
  LastTick,            \* bound: the clock stops here
  TrapDepth            \* bound: traps inside each other
ASSUME ClockAssumption == {CrystalClock, DefaultTickDuration, LastTick, TrapDepth} \subseteq Nat \ {0}

VARIABLES
  mtime,    \* the clock: RiscVReadTimer
  timer,    \* the driver: mTimerPeriod, mLastPeriodStart, mTimerNotifyFunction
  hart,     \* ie: sstatus.SIE, stie: the timer's bit of sie, compare, epc: sepc
  running,  \* the calls of SetTimerPeriod and the traps in progress
  heard     \* history: what the DXE core was told since it registered, kept until the period is 0

timerVars == <<mtime, timer, hart, running, heard>>

(* In 100 ns: EFI_TIMER_PERIOD_SECONDS divided by the frequency.           *)
Units(ticks) == (ticks * 10) \div CrystalClock
(* A period in microseconds, in ticks.                                     *)
Ticks(period) == period * CrystalClock

(* SetTimerPeriod for a duration in 100 ns, and a trap with what the stack *)
(* keeps: the place it came from (how many others run below it) and sie.   *)
Setting(duration) == [at |-> "period", from |-> 0, start |-> 0, stie |-> FALSE, duration |-> duration]
Trapped           == [at |-> "entered", from |-> Len(running), start |-> 0, stie |-> hart.stie, duration |-> 0]

Silent == [since |-> 0, units |-> 0, times |-> 0]

(* Before TimerDriverInitialize                                            *)
TimerOff ==
  /\ mtime = 0 /\ running = <<>> /\ heard = Silent
  /\ timer = [period |-> 0, last |-> 0, notify |-> FALSE]
  /\ hart = [ie |-> TRUE, stie |-> FALSE, compare |-> 0, epc |-> 0]

(* TimerDriverInitialize: its first call, for 0, leaves the timer off.     *)
TimerDriverInitialize ==
  /\ running' = <<Setting(DefaultTickDuration)>>
  /\ UNCHANGED <<mtime, timer, hart, heard>>

-----------------------------------------------------------------------------
Here        == running[Len(running)]
InStep(at)  == running # <<>> /\ Here.at = at
StepTo(at)  == running' = [running EXCEPT ![Len(running)].at = at]
Returned    == running' = SubSeq(running, 1, Len(running) - 1)

(* TimerDriverSetTimerPeriod                                               *)
SetPeriod ==
  /\ InStep("period")
  /\ timer' = [timer EXCEPT !.period = Here.duration \div 10]
  /\ StepTo(IF Here.duration = 0 THEN "disable" ELSE "program")
  /\ UNCHANGED <<mtime, hart, heard>>
RiscVDisableTimerInterrupt ==
  /\ InStep("disable")
  /\ hart' = [hart EXCEPT !.stie = FALSE]
  /\ Returned
  /\ UNCHANGED <<mtime, timer, heard>>
RiscVProgramTimer ==
  /\ InStep("program")
  /\ timer' = [timer EXCEPT !.last = mtime]
  /\ hart' = [hart EXCEPT !.compare = mtime + Ticks(timer.period), !.ie = TRUE]
  /\ StepTo("enable")
  /\ UNCHANGED <<mtime, heard>>
RiscVEnableTimerInterrupt ==
  /\ InStep("enable")
  /\ hart' = [hart EXCEPT !.stie = TRUE]
  /\ Returned
  /\ UNCHANGED <<mtime, timer, heard>>

-----------------------------------------------------------------------------
(* The timer interrupt                                                     *)

(* A trap after sepc was written back has left its own: the hart is lost. *)
Astray == InStep("leaving") /\ hart.epc # Here.from

(* SupervisorModeTrap saves sepc and sie.                                  *)
SupervisorModeTrap ==
  /\ ~Astray /\ Len(running) < TrapDepth
  /\ hart.ie /\ hart.stie /\ mtime >= hart.compare
  /\ running' = Append(running, Trapped)
  /\ hart' = [hart EXCEPT !.ie = FALSE, !.epc = Len(running)]
  /\ UNCHANGED <<mtime, timer, heard>>

(* TimerInterruptHandler reads the clock.                                  *)
PeriodStart ==
  /\ InStep("entered")
  /\ running' = [running EXCEPT ![Len(running)].start = mtime, ![Len(running)].at = "raised"]
  /\ UNCHANGED <<mtime, timer, hart, heard>>

(* Mutant: the time of the next interrupt starts when the handler is done. *)
NextPeriodLate(start) == mtime
NextPeriod(start) == start

(* It tells the time since the last one, and starts the next period.       *)
TimerInterruptHandler ==
  /\ InStep("raised")
  /\ heard' = IF timer.notify /\ timer.period # 0
              THEN [heard EXCEPT !.units = @ + Units(Here.start - timer.last), !.times = @ + 1]
              ELSE heard
  /\ IF timer.period = 0
     THEN hart' = [hart EXCEPT !.stie = FALSE] /\ UNCHANGED timer
     ELSE /\ timer' = [timer EXCEPT !.last = NextPeriod(Here.start)]
          /\ hart' = [hart EXCEPT !.compare = Here.start + Ticks(timer.period), !.stie = TRUE]
  /\ StepTo("told")
  /\ UNCHANGED mtime

(* RestoreTPL turns interrupts on and runs the events.                     *)
RestoreTPL ==
  /\ InStep("told")
  /\ hart' = [hart EXCEPT !.ie = TRUE]
  /\ StepTo("events")
  /\ UNCHANGED <<mtime, timer, heard>>

(* The end of SupervisorModeTrap: sepc and sie are written back, with      *)
(* interrupts on.                                                          *)
RestoreRegisters ==
  /\ InStep("events") /\ hart.ie
  /\ hart' = [hart EXCEPT !.epc = Here.from, !.stie = Here.stie]
  /\ StepTo("leaving")
  /\ UNCHANGED <<mtime, timer, heard>>

Sret ==
  /\ InStep("leaving") /\ ~Astray
  /\ Returned
  /\ UNCHANGED <<mtime, timer, hart, heard>>

-----------------------------------------------------------------------------
(* The DXE core                                                            *)

TimerDriverRegisterHandler ==
  /\ running = <<>> /\ ~timer.notify
  /\ timer' = [timer EXCEPT !.notify = TRUE]
  /\ heard' = [Silent EXCEPT !.since = timer.last]
  /\ UNCHANGED <<mtime, hart, running>>

(* RaiseTPL to TPL_HIGH_LEVEL and RestoreTPL from it.                      *)
DxeMasks ==
  /\ running = <<>> \/ InStep("events")
  /\ hart' = [hart EXCEPT !.ie = ~@]
  /\ UNCHANGED <<mtime, timer, running, heard>>

ExitBootServices ==
  /\ running = <<>> /\ timer.period # 0 /\ hart.ie
  /\ running' = <<Setting(0)>>
  /\ UNCHANGED <<mtime, timer, hart, heard>>

ClockTicks ==
  /\ mtime < LastTick
  /\ mtime' = mtime + 1
  /\ UNCHANGED <<timer, hart, running, heard>>

TimerNext ==
  \/ SetPeriod \/ RiscVDisableTimerInterrupt \/ RiscVProgramTimer \/ RiscVEnableTimerInterrupt
  \/ SupervisorModeTrap \/ PeriodStart \/ TimerInterruptHandler \/ RestoreTPL
  \/ RestoreRegisters \/ Sret
  \/ TimerDriverRegisterHandler \/ DxeMasks \/ ExitBootServices \/ ClockTicks

-----------------------------------------------------------------------------
(* The time the DXE core is told (TimerInterruptHandler: "account for the   *)
(* actual time passed") adds up to the time since it registered, but for    *)
(* less than 100 ns a tick, however late interrupts are taken and however   *)
(* handlers nest, until the period is set to 0.                            *)
TimeAddsUp ==
  timer.notify /\ timer.period # 0 =>
    LET passed == Units(timer.last - heard.since)
    IN  heard.units <= passed /\ passed <= heard.units + heard.times
=============================================================================
