\* Two graphics devices and a text device, in any order, behind both consoles.
SPECIFICATION Spec
CONSTANTS
    lcd = lcd
    ext = ext
    serial = serial
    Devices = {lcd, ext, serial}
    TextModes <- MCTextModes
    GraphicsModes <- MCGraphicsModes
    BaseSize <- Size40x12
    PreferredSize <- SizeBig
    DefaultResolution <- R800
    ConOutColour = gray
    StdErrColour = magenta
    Colours = {gray}
    NoDevice = none
    Unit = 2
    StdErrDevices = {serial}
INVARIANTS
    TypeOK
    ModesShared
    GraphicsShared
PROPERTIES
    AddSynchronises
