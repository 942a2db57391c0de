\* The platform's drivers and libraries, one component at a time.
SPECIFICATION Spec
CHECK_DEADLOCK FALSE
CONSTANTS
    \* Interrupts: two vectors beside the timer's, one of which shares the bit of
    \* a GPIO group.
    TimerVector = 8
    OtherVectors = {0, 41}
    GpioGroup = 73
    NR_IRQS = 332
    Periods = {0, 5000, 10000}
    DefaultPeriod = 10000
    MaxNest = 3
    \* ModemCalls
    Clocks = {"sdc1", "sdc3"}
    Numbered = {"sdc1"}
    Regulators = {"mmc"}
    SdcRegulator = "gp6"
    \* Pointers
    Resolution <- MCResolution
    VirtualResolution = 2
    AllocUnit = 1
    MaxMove = 1
    \* FrameBuffer
    Width = 2
    Height = 3
    PixelValues = {0, 2}
    \* SerialConsole
    GWidth = 19
    GHeight = 61
    FontWidth = 2
    FontHeight = 6
    ScaleFactor = 2
    Garbage = {TRUE, FALSE}
    MaxWrites = 2
    Texts <- MCTexts
    \* GraphicsConsole
    GopModes <- MCGopModes
    PcdResolution <- MCPcdResolution
    DefaultResolution <- MCDefaultResolution
    BaseSize <- MCBaseSize
    ExtendedSize <- MCExtendedSize
    ModeTable <- MCModeTable
    DefaultColour = gray
    TextColours = {gray, red}
    Greeting <- MCGreeting
    MemoryRunsOut = FALSE
    Strings <- MCStrings
    \* GptDelay: a counter of eight values, every delay up to a whole turn.
    Turn = 8
    Delays = {0, 1, 2, 3, 4, 5, 6, 7}
    MaxGap = 3
INVARIANTS
    InterruptsServed
    CallsAnswered
    PointerInputKept
    DrawnInPlace
    NothingOutlivesConsole
    DelayKept
    ConsoleOK
PROPERTIES
    FunctionsReturn
    ShowsTheText
