------------------------------- MODULE Platform -------------------------------
(***************************************************************************)
(* The components below the consoles, and the text console of a display,   *)
(* side by side: they share no state, so that one of them moves in a       *)
(* behaviour and the states of the instance add up.  The pointers are      *)
(* there twice, with simple and with absolute devices.                     *)
(***************************************************************************)
EXTENDS Integers, Sequences

CONSTANTS TimerVector, OtherVectors, GpioGroup, NR_IRQS, Periods, DefaultPeriod,
          MaxNest,                                      \* Interrupts
          Clocks, Numbered, Regulators, SdcRegulator,   \* ModemCalls
          Resolution, VirtualResolution, AllocUnit, MaxMove,   \* Pointers
          Width, Height, PixelValues,                   \* FrameBuffer
          GWidth, GHeight, FontWidth, FontHeight, ScaleFactor, Garbage, MaxWrites,
          Texts,                                        \* SerialConsole
          GopModes, PcdResolution, DefaultResolution, BaseSize, ExtendedSize,
          ModeTable, DefaultColour, TextColours, Greeting, MemoryRunsOut,
          Strings,                                      \* GraphicsConsole
          Turn, Delays, MaxGap                          \* GptDelay

VARIABLES moving,                                       \* the component that moves
          vic, handlers, cpu, timer, main, owed,             \* Interrupts
          mailbox, modem, call, todo, table, supply,         \* ModemCalls
          splitter, device, journal,                         \* Pointers
          video, buffer, ready,                              \* FrameBuffer
          position, color, interrupts, writes, initialized,  \* SerialConsole
          gopMode, installed, dev,                           \* GraphicsConsole
          opened, held, keypad, function, steps, crashed,    \* KeypadLife
          now, wait, elapsed, gap                            \* GptDelay

Irq == INSTANCE Interrupts
Modem == INSTANCE ModemCalls
Mice == INSTANCE Pointers WITH PointerOf <- [d \in DOMAIN Resolution |-> "simple"]
Touch == INSTANCE Pointers WITH PointerOf <- [d \in DOMAIN Resolution |-> "absolute"]
Frame == INSTANCE FrameBuffer WITH Colours <- PixelValues
Serial == INSTANCE SerialConsole
Console == INSTANCE GraphicsConsole WITH Colours <- TextColours
Life == INSTANCE KeypadLife WITH installed <- keypad, todo <- steps
Delay == INSTANCE GptDelay

ASSUME PlatformAssumption ==
    /\ Irq!IrqAssumption /\ Modem!PcomAssumption /\ Mice!PointersAssumption
    /\ Touch!PointersAssumption /\ Frame!FrameAssumption /\ Serial!SerialAssumption
    /\ Delay!DelayAssumption /\ Console!ConsoleAssumption

irqVars == <<vic, handlers, cpu, timer, main, owed>>
pcomVars == <<mailbox, modem, call, todo, table, supply>>
pointerVars == <<splitter, device, journal>>
frameVars == <<video, buffer, ready>>
serialVars == <<position, color, interrupts, writes, initialized>>
consoleVars == <<gopMode, installed, dev>>
lifeVars == <<opened, held, keypad, function, steps, crashed>>
delayVars == <<now, wait, elapsed, gap>>
vars == <<moving, irqVars, pcomVars, pointerVars, frameVars,
          serialVars, consoleVars, lifeVars, delayVars>>

Components == {"interrupts", "modem", "mice", "touch", "frame", "serial", "console",
               "life", "delay"}

\* The components that do not move are left in one initial state.
Init ==
    /\ moving \in Components
    /\ Irq!Init /\ Modem!Init /\ Mice!Init /\ Console!Init
    /\ IF moving = "frame" THEN Frame!Init
       ELSE video = [a \in Frame!Memory |-> 0] /\ buffer = [a \in Frame!Frame |-> 0] /\ ready = FALSE
    /\ Serial!Init /\ (moving # "serial" => interrupts)
    /\ Life!Init /\ Delay!Init /\ (moving # "delay" => now = 0)

InterruptsMove ==
    /\ moving = "interrupts" /\ Irq!Next
    /\ UNCHANGED <<moving, pcomVars, pointerVars, frameVars,
                   serialVars, consoleVars, lifeVars, delayVars>>
ModemMoves ==
    /\ moving = "modem" /\ Modem!Next
    /\ UNCHANGED <<moving, irqVars, pointerVars, frameVars,
                   serialVars, consoleVars, lifeVars, delayVars>>
PointersMove ==
    /\ \/ moving = "mice" /\ Mice!Next
       \/ moving = "touch" /\ Touch!Next
    /\ UNCHANGED <<moving, irqVars, pcomVars, frameVars,
                   serialVars, consoleVars, lifeVars, delayVars>>
FrameMoves ==
    /\ moving = "frame" /\ Frame!Next
    /\ UNCHANGED <<moving, irqVars, pcomVars, pointerVars,
                   serialVars, consoleVars, lifeVars, delayVars>>
SerialMoves ==
    /\ moving = "serial" /\ Serial!Next
    /\ UNCHANGED <<moving, irqVars, pcomVars, pointerVars,
                   frameVars, consoleVars, lifeVars, delayVars>>
ConsoleMoves ==
    /\ moving = "console" /\ Console!Next
    /\ UNCHANGED <<moving, irqVars, pcomVars, pointerVars,
                   frameVars, serialVars, lifeVars, delayVars>>
LifeMoves ==
    /\ moving = "life" /\ Life!Next
    /\ UNCHANGED <<moving, irqVars, pcomVars, pointerVars,
                   frameVars, serialVars, consoleVars, delayVars>>
DelayMoves ==
    /\ moving = "delay" /\ Delay!Next
    /\ UNCHANGED <<moving, irqVars, pcomVars, pointerVars,
                   frameVars, serialVars, consoleVars, lifeVars>>

Next ==
    \/ InterruptsMove \/ ModemMoves \/ PointersMove
    \/ FrameMoves \/ SerialMoves \/ ConsoleMoves
    \/ LifeMoves \/ DelayMoves

\* That of ModemCalls, in the behaviours in which the modem moves.
Fairness ==
    moving = "modem" => Modem!Fairness

Spec == Init /\ [][Next]_vars /\ Fairness

-----------------------------------------------------------------------------
(* Properties: those of the components.                                    *)

\* Interrupts: no tick is lost, an interrupt that is served ends, and after the
\* exit from boot services there is none.
InterruptsServed == Irq!TicksKept /\ Irq!ServiceEnds /\ Irq!SilentAfterExit

\* ModemCalls: an answer is read by the call that it answers, and a regulator goes
\* on after its level was set, whatever failed on the way, as long as the answers to
\* the commands of regulators keep the number of the regulator.
CallsAnswered == Modem!ReplyIsOwn /\ Modem!LevelBeforeOnIfKept

\* ModemCalls: a function that is under way returns.
FunctionsReturn == Modem!FunctionsReturn

\* Pointers: movement is read, waiting or was dropped with an error, and a
\* signalled event has input.
PointerInputKept ==
    /\ moving = "mice" => Mice!MovementAddsUp /\ Mice!SignalHasInput
    /\ moving = "touch" => Touch!ListedAreOpen /\ Touch!SignalHasInput

\* FrameBuffer: copies towards the start of the frame are exact, and what is read
\* and written back leaves it as it was.  SerialConsole: glyphs lie in the frame,
\* only a newline lets another write in, and a critical write gives the colour back.
DrawnInPlace ==
    /\ moving = "frame" => Frame!CopyUpIsExact /\ Frame!RoundTrip
    /\ Serial!GlyphInFrame /\ Serial!OnlyNewlineOpens /\ Serial!ColorGivenBack

\* KeypadLife: what calls back to the keypad console never outlives it.
NothingOutlivesConsole == Life!NothingOutlivesConsole

\* GptDelay: a delay is never too short, and too long by little.
DelayKept == Delay!LongEnough /\ Delay!NotTooLong

\* GraphicsConsole: the installed console has a mode that fits the screen, and its
\* cursor is on the screen once.
ConsoleOK == Console!ConsoleOK /\ Console!TextModesFit /\ Console!CursorShownOnce

\* GraphicsConsole implements TextScreen.
ShowsTheText == Console!ShowsTheText
=============================================================================
