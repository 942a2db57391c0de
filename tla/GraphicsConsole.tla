--------------------------- MODULE GraphicsConsole ---------------------------
(***************************************************************************)
(* GraphicsConsoleDxe: a text console on a graphics output.  A cell of the *)
(* model is a glyph cell of the screen; a cell has a glyph and the cursors *)
(* that were drawn on it, since FlushCursor draws and erases the cursor by *)
(* exclusive or with the text colour.  Every operation raises the TPL and  *)
(* is one step.                                                            *)
(*                                                                         *)
(* External: the graphics output, which may refuse a mode; the font, which *)
(* has every glyph, wide ones two cells wide.  UGA is not supported on     *)
(* this platform.                                                          *)
(***************************************************************************)
EXTENDS Integers, SequencesExt

CONSTANTS GopModes,       \* the resolutions of the graphics output, in cells
          PcdResolution,  \* PcdVideoHorizontalResolution x ...Vertical...
          DefaultResolution,   \* 800 x 600
          BaseSize, ExtendedSize,    \* 40 x 12, 80 x 50
          ModeTable,      \* mGraphicsConsoleModeData
          DefaultColour, Colours,
          Strings, Greeting,
          MemoryRunsOut   \* whether an allocation may fail

VARIABLES gopMode,   \* the mode of the graphics output
          installed, \* the text output protocol is installed
          dev        \* the GRAPHICS_CONSOLE_DEV of the last Start

consoleVars == <<gopMode, installed, dev>>

FitsOn(s, resolution) == s[1] <= resolution[1] /\ s[2] <= resolution[2]

\* Sizes are columns and rows.  Every screen has room for mode 0, which the driver
\* offers without a look at the resolution, and a line for a wide glyph.
ConsoleAssumption ==
    /\ 1 \in DOMAIN GopModes /\ GopModes \in Seq(Nat \X Nat)
    /\ {PcdResolution, DefaultResolution, BaseSize, ExtendedSize} \subseteq Nat \X Nat
    /\ ModeTable \in Seq(Nat \X Nat) /\ ExtendedSize # BaseSize
    /\ \A s \in {BaseSize, ExtendedSize} \union ToSet(ModeTable) : s[1] >= 2 /\ s[2] >= 1
    /\ \A n \in DOMAIN GopModes : FitsOn(BaseSize, GopModes[n])
    /\ \A string \in Strings \union {Greeting} : string \in Seq(ToSet(string))

Unsupported == <<0, 0>>
Blank == <<" ", 0>>
Fresh(c) == [char |-> c, xor |-> {}]
Grid(s) == (0 .. s[1] - 1) \X (0 .. s[2] - 1)

-----------------------------------------------------------------------------
(* The modes of the graphics output and the text modes on it.              *)

\* The first graphics mode of the resolution that is current or can be set.
CheckModeSupported(mode, refused, resolution) ==
    SelectInSeq([n \in DOMAIN GopModes |-> n], LAMBDA n :
       GopModes[n] = resolution /\ (GopModes[mode] = resolution \/ n \notin refused))

IsLarger(r, s) == r[1] > s[1] \/ (r[1] = s[1] /\ r[2] > s[2])

\* The first of the largest resolutions, or the platform's, else 800 x 600, else
\* what there is.  Numbers count from 1 here.
ChosenMode(mode, refused) ==
    LET preferred == CheckModeSupported(mode, refused, PcdResolution)
        fallback == CheckModeSupported(mode, refused, DefaultResolution)
    IN  IF 0 \in {PcdResolution[1], PcdResolution[2]}
        THEN CHOOSE n \in DOMAIN GopModes : \A m \in DOMAIN GopModes :
               /\ ~IsLarger(GopModes[m], GopModes[n])
               /\ m < n => IsLarger(GopModes[n], GopModes[m])
        ELSE IF preferred # 0 THEN preferred
        ELSE IF fallback # 0 THEN fallback ELSE mode

\* Mutant: a size that is there already comes twice.
TextModesTwice(resolution) ==
    LET extended == IF FitsOn(ExtendedSize, resolution) THEN ExtendedSize ELSE Unsupported
    IN  <<BaseSize, extended>>
          \o SelectSeq(Append(ModeTable, resolution), LAMBDA s : FitsOn(s, resolution))

\* Mode 0 is 40 x 12, mode 1 is 80 x 50 or unsupported; then those of the table
\* that fit, and the full screen, each once.
InitializeGraphicsConsoleTextMode(resolution) ==
    LET extended == IF FitsOn(ExtendedSize, resolution) THEN ExtendedSize ELSE Unsupported
        table == Append(ModeTable, resolution)
        upTo[n \in 0 .. Len(table)] ==
          IF n = 0 THEN <<BaseSize, extended>>
          ELSE IF FitsOn(table[n], resolution) /\ table[n] \notin ToSet(upTo[n - 1])
          THEN Append(upTo[n - 1], table[n]) ELSE upTo[n - 1]
    IN  upTo[Len(table)]

-----------------------------------------------------------------------------
(* The screen, in a state st of the device.                                *)

SizeOf(st) == st.ModeData[st.Mode + 1]
MaxColumn(st) == SizeOf(st)[1]
MaxRow(st) == SizeOf(st)[2]

\* The text is in the middle of the screen: DeltaX, DeltaY.
At(st, column, row) ==
    <<column + (st.resolution[1] - MaxColumn(st)) \div 2,
      row + (st.resolution[2] - MaxRow(st)) \div 2>>

\* A cursor beyond the edge of the screen is not drawn: Blt refuses.
FlushCursor(st) ==
    LET cell == At(st, st.CursorColumn, st.CursorRow)
        Toggle(colours) == (colours \ {st.Attribute}) \union ({st.Attribute} \ colours)
    IN  IF st.CursorVisible /\ cell \in DOMAIN st.screen
        THEN [st EXCEPT !.screen[cell].xor = Toggle(@)] ELSE st

Fill(screen) == [cell \in DOMAIN screen |-> Fresh(Blank)]

\* A wide glyph has a left and a right half.  What is drawn n cells after the first.
Part(glyphs, n, wide) ==
    IF wide THEN <<glyphs[n \div 2 + 1], (n % 2) + 1>> ELSE <<glyphs[n + 1], 0>>
CellsOf(glyphs, wide) == Len(glyphs) * (IF wide THEN 2 ELSE 1)

\* Glyphs from the cursor on, over what was there.
DrawUnicodeWeightAtCursorN(st, glyphs) ==
    LET first == At(st, st.CursorColumn, st.CursorRow)
    IN  [st EXCEPT !.screen = [cell \in DOMAIN @ |->
           IF cell[2] = first[2] /\ cell[1] - first[1] \in 0 .. CellsOf(glyphs, st.wide) - 1
           THEN Fresh(Part(glyphs, cell[1] - first[1], st.wide)) ELSE @[cell]]]

\* Mutant: the cursor goes down from the last line too.
LineFeedPastEnd(st) == [st EXCEPT !.CursorRow = @ + 1]

\* On the last line the text scrolls, pixels and all.
LineFeed(st) ==
    IF st.CursorRow # MaxRow(st) - 1 THEN [st EXCEPT !.CursorRow = @ + 1]
    ELSE LET corner == At(st, 0, 0)
             InText(cell) == /\ cell[1] - corner[1] \in 0 .. MaxColumn(st) - 1
                             /\ cell[2] - corner[2] \in 0 .. MaxRow(st) - 1
         IN  [st EXCEPT !.screen = [cell \in DOMAIN @ |->
                IF ~InText(cell) THEN @[cell]
                ELSE IF cell[2] - corner[2] = MaxRow(st) - 1 THEN Fresh(Blank)
                ELSE @[<<cell[1], cell[2] + 1>>]]]

-----------------------------------------------------------------------------
(* GraphicsConsoleConOutOutputString, which calls itself for a space and   *)
(* for a line break.                                                       *)

\* OutputString (mCrLfString).
OutputCrLf(st) == FlushCursor(LineFeed([FlushCursor(st) EXCEPT !.CursorColumn = 0]))

\* Mutant: the cursor is left behind when a line is full.
WrapUnflushed(st) == IF st.CursorColumn >= MaxColumn(st) THEN OutputCrLf(st) ELSE st

\* At the end of a line the cursor goes to the next one.
WrapIfFull(st) ==
    IF st.CursorColumn >= MaxColumn(st)
    THEN FlushCursor(OutputCrLf(FlushCursor(st))) ELSE st

\* OutputString (SpaceStr): one narrow space.
OutputSpace(st) ==
    LET drawn == DrawUnicodeWeightAtCursorN([FlushCursor(st) EXCEPT !.wide = FALSE], <<" ">>)
    IN  FlushCursor([WrapIfFull([drawn EXCEPT !.CursorColumn = @ + 1])
                       EXCEPT !.wide = st.wide])

\* The cursor goes back to the cell before, wipes it and goes back again; from
\* column 0 the space has brought it to the start of the line that it left.
Backspace(st) ==
    LET Back(t) == IF st.CursorColumn = 0
                   THEN [t EXCEPT !.CursorRow = @ - 1, !.CursorColumn = MaxColumn(st) - 1]
                   ELSE [t EXCEPT !.CursorColumn = @ - 1]
    IN  IF st.CursorColumn = 0 /\ st.CursorRow = 0 THEN st
        ELSE Back(FlushCursor(OutputSpace(Back(st))))

Controls == {"BS", "LF", "CR", "WIDE", "NARROW"}

\* How many glyphs fit on the line, and by how many cells the cursor moves.  A
\* wide glyph for which one cell is left moves it past the end.
Run(st, string) ==
    LET room == MaxColumn(st) - st.CursorColumn
        stop == SelectInSeq(string, LAMBDA c : c \in Controls)
        glyphs == IF stop = 0 THEN Len(string) ELSE stop - 1
        width == IF st.wide THEN 2 ELSE 1
        fit == room \div width
    IN  IF glyphs <= fit THEN [Count |-> glyphs, Index |-> glyphs * width]
        ELSE [Count |-> fit, Index |-> fit * width + (IF room % width = 0 THEN 0 ELSE 2)]

\* Mutant: a wide glyph that does not fit leaves the cursor past the end.
PrintRunPastEnd(st, string) ==
    LET run == Run(st, string)
        drawn == DrawUnicodeWeightAtCursorN(st, SubSeq(string, 1, run.Count))
        moved == [drawn EXCEPT !.CursorColumn = @ + run.Index]
    IN  [st |-> WrapIfFull(moved), rest |-> SubSeq(string, run.Count + 1, Len(string))]

\* The glyphs up to the next control character or the end of the line.
PrintRun(st, string) ==
    LET run == Run(st, string)
        drawn == DrawUnicodeWeightAtCursorN(st, SubSeq(string, 1, run.Count))
        moved == [drawn EXCEPT !.CursorColumn = @ + run.Index]
        inside == IF moved.CursorColumn > MaxColumn(st)
                  THEN OutputSpace([moved EXCEPT !.CursorColumn = @ - 2]) ELSE moved
    IN  [st |-> WrapIfFull(inside), rest |-> SubSeq(string, run.Count + 1, Len(string))]

Control(st, c) ==
    CASE c = "BS" -> Backspace(st)
      [] c = "LF" -> LineFeed(st)
      [] c = "CR" -> [st EXCEPT !.CursorColumn = 0]
      [] c \in {"WIDE", "NARROW"} -> [st EXCEPT !.wide = (c = "WIDE")]

\* One turn of the loop over the string.
PrintNext(l) ==
    IF l.rest = << >> THEN l
    ELSE IF Head(l.rest) \in Controls
    THEN [st |-> Control(l.st, Head(l.rest)), rest |-> Tail(l.rest)]
    ELSE PrintRun(l.st, l.rest)

\* A turn prints something, or brings the cursor to a line on which the next one
\* does.
OutputStringCall(st, string) ==
    LET loop[i \in 0 .. 2 * Len(string)] ==
          IF i = 0 THEN [st |-> FlushCursor(st), rest |-> string] ELSE PrintNext(loop[i - 1])
    IN  FlushCursor([loop[2 * Len(string)].st EXCEPT !.wide = FALSE])

-----------------------------------------------------------------------------
(* The other operations.  A result with failed has the status of an error. *)

Home(st) == FlushCursor([st EXCEPT !.CursorColumn = 0, !.CursorRow = 0])

ClearScreenCall(st) == Home([st EXCEPT !.screen = Fill(@)])

\* The text modes all have the graphics mode that Start has set, so the screen is
\* only cleared.  The old buffer is freed before there is a new one, and without
\* memory the call ends there.
SetModeCall(st, n, memory) ==
    IF n >= Len(st.ModeData) \/ st.ModeData[n + 1] = Unsupported
    THEN [st EXCEPT !.failed = TRUE]
    ELSE IF st.LineBuffer # "none" /\ n = st.Mode THEN ClearScreenCall(st)
    ELSE LET t == IF st.LineBuffer # "none" THEN [FlushCursor(st) EXCEPT !.LineBuffer = "freed"]
                  ELSE st
         IN  IF ~memory THEN [t EXCEPT !.failed = TRUE]
             ELSE Home([t EXCEPT !.LineBuffer = "held", !.screen = Fill(@), !.Mode = n])

SetAttributeCall(st, colour) ==
    IF colour = st.Attribute THEN st
    ELSE FlushCursor([FlushCursor(st) EXCEPT !.Attribute = colour])

NewDev(resolution) ==
    [ModeData |-> InitializeGraphicsConsoleTextMode(resolution), resolution |-> resolution,
     Mode |-> -1, CursorColumn |-> 0, CursorRow |-> 0, CursorVisible |-> TRUE,
     Attribute |-> DefaultColour, wide |-> FALSE, LineBuffer |-> "none",
     screen |-> [cell \in Grid(resolution) |-> Fresh(Blank)],
     failed |-> FALSE]

NoDev == [screen |-> << >>]

\* The driver comes to state st of its device.
Becomes(st) ==
    /\ installed /\ UNCHANGED <<gopMode, installed>>
    /\ dev' = [st EXCEPT !.failed = FALSE]

\* An error leaves nothing behind but the graphics mode.  The greeting is debug
\* code, which this platform's builds have.
Start(refused, memory) ==
    LET n == ChosenMode(gopMode, refused)
        accepted == n = gopMode \/ n \notin refused
        st == SetModeCall(NewDev(GopModes[n]), 0, memory)
    IN  /\ ~installed
        /\ gopMode' = IF accepted THEN n ELSE gopMode
        /\ IF accepted /\ ~st.failed
           THEN installed' = TRUE /\ dev' = OutputStringCall(st, Greeting)
           ELSE UNCHANGED <<installed, dev>>

Stop ==
    /\ installed /\ installed' = FALSE
    /\ dev' = NoDev /\ UNCHANGED gopMode

SetMode(n, memory) == Becomes(SetModeCall(dev, n, memory))

Reset(memory) ==
    LET st == SetModeCall(dev, 0, memory)
    IN  Becomes(IF st.failed THEN st ELSE SetAttributeCall(st, st.Attribute))

SetAttribute(colour) == Becomes(SetAttributeCall(dev, colour))
ClearScreen == Becomes(ClearScreenCall(dev))
OutputString(string) == Becomes(OutputStringCall(dev, string))

SetCursorPosition(column, row) ==
    /\ installed /\ column < MaxColumn(dev) /\ row < MaxRow(dev)
    /\ Becomes(IF dev.CursorColumn = column /\ dev.CursorRow = row THEN dev
               ELSE FlushCursor([FlushCursor(dev) EXCEPT !.CursorColumn = column,
                                                         !.CursorRow = row]))

EnableCursor(visible) ==
    Becomes(FlushCursor([FlushCursor(dev) EXCEPT !.CursorVisible = visible]))

Init == gopMode = 1 /\ installed = FALSE /\ dev = NoDev

Memory == IF MemoryRunsOut THEN BOOLEAN ELSE {TRUE}

Next ==
    \/ \E refused \in SUBSET DOMAIN GopModes, memory \in Memory : Start(refused, memory)
    \/ Stop
    \/ installed /\ \E n \in 0 .. Len(dev.ModeData), memory \in Memory : SetMode(n, memory)
    \/ installed /\ \E memory \in Memory : Reset(memory)
    \/ \E colour \in Colours : SetAttribute(colour)
    \/ ClearScreen
    \/ \E string \in Strings : OutputString(string)
    \/ installed /\ \E cell \in Grid(SizeOf(dev)) : SetCursorPosition(cell[1], cell[2])
    \/ \E visible \in BOOLEAN : EnableCursor(visible)

Spec == Init /\ [][Next]_consoleVars

-----------------------------------------------------------------------------
(* Properties.                                                             *)

\* While the console is installed it has a mode, its cursor is on the screen of
\* that mode, and it holds the line buffer of the mode.
ConsoleOK ==
    installed =>
      /\ dev.resolution = GopModes[gopMode]
      /\ dev.Mode \in 0 .. Len(dev.ModeData) - 1 /\ SizeOf(dev) # Unsupported
      /\ dev.CursorColumn \in 0 .. MaxColumn(dev) - 1
      /\ dev.CursorRow \in 0 .. MaxRow(dev) - 1
      /\ dev.LineBuffer = "held" /\ ~dev.wide

\* No two text modes are alike, and each fits on the screen, in the middle.
TextModesFit ==
    installed => \A n \in DOMAIN dev.ModeData :
       /\ FitsOn(dev.ModeData[n], dev.resolution)
       /\ \A m \in 1 .. n - 1 : dev.ModeData[m] # dev.ModeData[n]

\* Between operations the cursor is on the screen once, where the next character
\* will appear, in the colour of the text, and not at all when it is disabled:
\* draws and erasures have come in pairs, whatever scrolled in between.
CursorShownOnce ==
    installed => \A cell \in DOMAIN dev.screen :
       dev.screen[cell].xor =
          IF dev.CursorVisible /\ cell = At(dev, dev.CursorColumn, dev.CursorRow)
          THEN {dev.Attribute} ELSE {}

\* The console keeps the promise of TextScreen: what OutputString shows, a line
\* at a time and by calls of itself, is what one character after the other shows.
Text == [cell \in IF installed THEN Grid(SizeOf(dev)) ELSE {} |->
           dev.screen[At(dev, cell[1], cell[2])].char]

Screen == INSTANCE TextScreen WITH
    size <- IF installed THEN SizeOf(dev) ELSE Unsupported, text <- Text,
    column <- IF installed THEN dev.CursorColumn ELSE 0,
    row <- IF installed THEN dev.CursorRow ELSE 0,
    Sizes <- UNION {ToSet(InitializeGraphicsConsoleTextMode(GopModes[n])) :
                      n \in DOMAIN GopModes},
    Gone <- Unsupported

ShowsTheText == Screen!Spec
=============================================================================
