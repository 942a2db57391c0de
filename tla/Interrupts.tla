------------------------------ MODULE Interrupts ------------------------------
(***************************************************************************)
(* InterruptDxe, TimerDxe and the registration half of InterruptsLib: the  *)
(* interrupt controller (VIC), the handlers of its sources, and the timer  *)
(* that ticks through one of them.  The processor runs the program or, on  *)
(* top of it, activations of IrqInterruptHandler.  The timer's handler     *)
(* ends the interrupt early and then lowers the TPL, which lets the next   *)
(* interrupt in before the first has returned.                             *)
(*                                                                         *)
(* External: the VIC, which latches edges, presents one that is enabled    *)
(* and none while one is in service; the DXE core's TPLs, which switch the *)
(* processor's interrupts.  InterruptsLib's own handler is left out: only  *)
(* MsmTargetGpioLib registers it, for sources that the VIC does not have.  *)
(***************************************************************************)
EXTENDS Integers, Sequences, FiniteSets

CONSTANTS TimerVector,    \* INT_DEBUG_TIMER_EXP
          OtherVectors,   \* other vectors on which there may be an edge
          GpioGroup,      \* INT_GPIO_GROUP1, one of the registered sources
          NR_IRQS,
          Periods,        \* those that the DXE core asks for, in 100 ns
          DefaultPeriod,  \* PcdTimerPeriod
          MaxNest         \* bound on the activations at a time

VARIABLES vic,      \* the registers of the controller
          handlers, \* sources with an entry in gRegisteredInterruptHandlers
          cpu,      \* interrupts on or off, and the activations, the last on top
          timer,    \* the hardware, mTimerNotifyFunction and mTimerPeriod
          main,     \* where the program is
          owed      \* history: ticks latched and not handled yet

irqVars == <<vic, handlers, cpu, timer, main, owed>>

\* What the code takes for granted of the constants; Platform assumes it.
IrqAssumption ==
    /\ NR_IRQS \in Nat /\ TimerVector \in 1 .. 31 /\ GpioGroup \in 64 .. NR_IRQS
    /\ OtherVectors \subseteq 0 .. 63 \ {TimerVector} /\ MaxNest \in Nat \ {0}
    /\ DefaultPeriod \in Periods \ {0} /\ Periods \subseteq Nat

Vectors == OtherVectors \union {TimerVector}

\* The bit of a source is one of a bank of 32, and there are two banks.
BitOf(source) == IF source > 31 THEN 32 + (source % 32) ELSE source

Idle == cpu.stack = << >>
TopAt(step) == ~Idle /\ cpu.stack[1].at = step
StepTo(step) == cpu' = [cpu EXCEPT !.stack[1].at = step]

-----------------------------------------------------------------------------
(* An interrupt, from the vector to the return.                            *)

\* An edge is latched; a second one before the first is cleared makes no
\* difference.
Edge(v) ==
    /\ v = TimerVector => timer.on
    /\ vic' = [vic EXCEPT !.latched = @ \union {v}]
    /\ owed' = IF v = TimerVector /\ v \notin vic.latched THEN owed + 1 ELSE owed
    /\ UNCHANGED <<handlers, cpu, timer, main>>

\* IrqInterruptHandler reads the vector.
IrqEnter(v) ==
    /\ cpu.on /\ vic.master /\ ~vic.inService /\ Len(cpu.stack) < MaxNest
    /\ v \in vic.latched \intersect vic.enabled
    /\ vic' = [vic EXCEPT !.inService = TRUE]
    /\ cpu' = [on |-> FALSE, stack |-> <<[vector |-> v, at |-> "read"]>> \o cpu.stack]
    /\ UNCHANGED <<handlers, timer, main, owed>>

\* The edge is cleared before the handler runs.
IrqClear ==
    /\ TopAt("read")
    /\ LET v == cpu.stack[1].vector
       IN  /\ vic' = [vic EXCEPT !.latched = @ \ {v}]
           /\ StepTo(IF v \in handlers THEN "handler" ELSE "done")
    /\ UNCHANGED <<handlers, timer, main, owed>>

\* Mutant: the edge is cleared once more after the handler.
ClearedAgain ==
    /\ TopAt("handler")
    /\ vic' = [vic EXCEPT !.latched = @ \ {TimerVector}]
    /\ owed' = owed - 1
    /\ StepTo("notified")
    /\ UNCHANGED <<handlers, timer, main>>

\* TimerInterruptHandler at TPL_HIGH_LEVEL, and the DXE core's handler if there
\* is one.
TimerNotify ==
    /\ TopAt("handler")
    /\ owed' = owed - 1
    /\ StepTo("notified")
    /\ UNCHANGED <<vic, handlers, timer, main>>

EndOfInterrupt ==
    /\ TopAt("notified")
    /\ vic' = [vic EXCEPT !.inService = FALSE]
    /\ StepTo("ended")
    /\ UNCHANGED <<handlers, timer, main, owed>>

\* Below TPL_HIGH_LEVEL the processor takes interrupts again.
RestoreTPL ==
    /\ TopAt("ended")
    /\ cpu' = [cpu EXCEPT !.on = TRUE, !.stack[1].at = "done"]
    /\ UNCHANGED <<vic, handlers, timer, main, owed>>

\* Mutant: only the timer's handler ends the interrupt.
IrqReturnWithoutEnd ==
    /\ TopAt("done")
    /\ cpu' = [on |-> TRUE, stack |-> Tail(cpu.stack)]
    /\ UNCHANGED <<vic, handlers, timer, main, owed>>

IrqReturn ==
    /\ TopAt("done")
    /\ vic' = [vic EXCEPT !.inService = FALSE]
    /\ cpu' = [on |-> TRUE, stack |-> Tail(cpu.stack)]
    /\ UNCHANGED <<handlers, timer, main, owed>>

-----------------------------------------------------------------------------
(* The program.  It runs while no interrupt is handled, and each of its    *)
(* steps may be followed by one.                                           *)

Enabled(source) == [vic EXCEPT !.enabled = @ \union ({BitOf(source)} \intersect Vectors)]
Disabled(source) == [vic EXCEPT !.enabled = @ \ {BitOf(source)}]

MainAt(stage, step) == Idle /\ main.stage = stage /\ main.at = step
Running == MainAt("running", "none")

\* InitInterrupts leaves vectors 0 and 32 enabled.
InterruptDxeInitialize ==
    /\ MainAt("start", "none")
    /\ vic' = [vic EXCEPT !.latched = {}, !.enabled = {0, 32} \intersect Vectors,
                          !.master = TRUE]
    /\ main' = [main EXCEPT !.stage = "controller"]
    /\ owed' = 0 /\ UNCHANGED <<handlers, cpu, timer>>

\* An entry is taken once; this also enables the source.
RegisterInterruptSource(source) ==
    /\ source \notin handlers
    /\ handlers' = handlers \union {source}
    /\ vic' = Enabled(source)
    /\ UNCHANGED <<cpu, timer, owed>>

\* TimerInitialize turns the timer off, registers its handler and sets the
\* default period; the first and the last are calls of SetTimerPeriod.
TimerInitialize ==
    /\ MainAt("off", "none")
    /\ RegisterInterruptSource(TimerVector)
    /\ main' = [main EXCEPT !.stage = "registered"]

\* register_int_handler and unmask_interrupt of InterruptsLib.
RegisterIntHandler ==
    /\ Running /\ main' = main
    /\ RegisterInterruptSource(GpioGroup)

RegisterHandler(function) ==
    /\ Running /\ timer.notify # function
    /\ timer' = [timer EXCEPT !.notify = function]
    /\ UNCHANGED <<vic, handlers, cpu, main, owed>>

\* SetTimerPeriod for the stages of the initialization, then for the DXE core,
\* then for ExitBootServicesEvent.
PeriodsFor(stage) ==
    CASE stage = "controller" -> {0}
      [] stage = "registered" -> {DefaultPeriod}
      [] stage = "running" -> Periods
      [] stage = "exit" -> IF "timer" \in main.exited THEN {} ELSE {0}
      [] OTHER -> {}

StageAfter(stage) ==
    CASE stage = "controller" -> "off"
      [] stage = "registered" -> "running"
      [] OTHER -> stage

\* The timer stops, or its source is disabled while it is programmed.
SetTimerPeriod(p) ==
    /\ Idle /\ main.at = "none" /\ p \in PeriodsFor(main.stage)
    /\ main' = [main EXCEPT !.at = "begun", !.period = p]
    /\ IF p = 0 THEN timer' = [timer EXCEPT !.on = FALSE] /\ UNCHANGED vic
       ELSE vic' = Disabled(TimerVector) /\ UNCHANGED timer
    /\ UNCHANGED <<handlers, cpu, owed>>

\* The match value is in whole milliseconds.
Program ==
    /\ Idle /\ main.at = "begun"
    /\ main' = [main EXCEPT !.at = "programmed"]
    /\ IF main.period = 0 THEN vic' = Disabled(TimerVector) /\ UNCHANGED timer
       ELSE /\ timer' = [timer EXCEPT !.on = TRUE, !.milliseconds = main.period \div 10000]
            /\ UNCHANGED vic
    /\ UNCHANGED <<handlers, cpu, owed>>

EnableTimer ==
    /\ Idle /\ main.at = "programmed"
    /\ main' = [main EXCEPT !.at = "enabled"]
    /\ vic' = IF main.period = 0 THEN vic ELSE Enabled(TimerVector)
    /\ UNCHANGED <<handlers, cpu, timer, owed>>

\* The period is stored last; a tick before that is reported with the old one.
StorePeriod ==
    /\ Idle /\ main.at = "enabled"
    /\ timer' = [timer EXCEPT !.period = main.period]
    /\ main' = [main EXCEPT !.at = "none", !.period = 0, !.stage = StageAfter(@),
                  !.exited = IF main.stage = "exit" THEN @ \union {"timer"} ELSE @]
    /\ UNCHANGED <<vic, handlers, cpu, owed>>

\* The two drivers are notified in either order.
ExitBootServices ==
    /\ Running /\ main' = [main EXCEPT !.stage = "exit"]
    /\ UNCHANGED <<vic, handlers, cpu, timer, owed>>

\* Mutant: the controller is left as it is when the sources are masked.
ExitMasksOnly ==
    /\ MainAt("exit", "none")
    /\ main' = [main EXCEPT !.exited = @ \union {"controller"}]
    /\ vic' = [vic EXCEPT !.enabled = {}]
    /\ UNCHANGED <<handlers, cpu, timer, owed>>

\* ExitBootServicesEvent of InterruptDxe, which clears what is latched.
ExitBootServicesEvent ==
    /\ MainAt("exit", "none") /\ "controller" \notin main.exited
    /\ main' = [main EXCEPT !.exited = @ \union {"controller"}]
    /\ vic' = [vic EXCEPT !.master = FALSE, !.enabled = {}, !.latched = {}]
    /\ owed' = 0 /\ UNCHANGED <<handlers, cpu, timer>>

Init ==
    /\ vic = [latched |-> {}, enabled |-> {}, master |-> FALSE, inService |-> FALSE]
    /\ handlers = {} /\ owed = 0
    /\ cpu = [on |-> TRUE, stack |-> << >>]
    /\ timer = [on |-> FALSE, milliseconds |-> 0, notify |-> FALSE, period |-> 0]
    /\ main = [stage |-> "start", at |-> "none", period |-> 0, exited |-> {}]

Next ==
    \/ \E v \in Vectors : Edge(v) \/ IrqEnter(v)
    \/ IrqClear \/ TimerNotify \/ EndOfInterrupt \/ RestoreTPL \/ IrqReturn
    \/ InterruptDxeInitialize \/ TimerInitialize \/ RegisterIntHandler
    \/ \E function \in BOOLEAN : RegisterHandler(function)
    \/ \E p \in Periods \union {0, DefaultPeriod} : SetTimerPeriod(p)
    \/ Program \/ EnableTimer \/ StorePeriod
    \/ ExitBootServices \/ ExitBootServicesEvent

Spec == Init /\ [][Next]_irqVars

-----------------------------------------------------------------------------
(* Properties.                                                             *)

\* No tick is lost between the latch and the handler, however activations nest:
\* one is owed if it is latched, and one for each activation that has cleared the
\* latch and has not come to the handler.
TicksKept ==
    LET Before(k) == cpu.stack[k].vector = TimerVector /\ cpu.stack[k].at = "handler"
    IN  owed = Cardinality(vic.latched \intersect {TimerVector})
                 + Cardinality({k \in DOMAIN cpu.stack : Before(k)})

\* The interrupt in service is that of the activation on top, which has the
\* processor's interrupts off; so when the program runs, the next one gets in.
ServiceEnds ==
    /\ vic.inService => ~Idle /\ ~cpu.on
    /\ Idle => cpu.on
    /\ \A k \in 2 .. Len(cpu.stack) : cpu.stack[k].at = "done"

\* Once both drivers know of the exit from boot services, in whichever order, the
\* timer is off and no interrupt gets in.
SilentAfterExit ==
    main.exited = {"timer", "controller"} =>
       ~timer.on /\ ~vic.master /\ vic.enabled = {}
=============================================================================
