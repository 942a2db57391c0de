---------------------------- MODULE SerialConsole ----------------------------
(***************************************************************************)
(* FrameBufferSerialPortLib: text drawn straight into the frame buffer, the *)
(* serial port of builds that have no other.  The program writes, and so   *)
(* may a handler that interrupts it, which draws in the midst of the       *)
(* other's text; a write turns the interrupts off while it runs.           *)
(*                                                                         *)
(* A local variable of the character routine is not set when the character *)
(* is a newline, and is then used to turn interrupts on or not.  It may be *)
(* either: Garbage.  Characters are of four kinds, and the glyphs and the  *)
(* flushing of the cache are left out.                                     *)
(***************************************************************************)
EXTENDS Integers, Sequences, FiniteSets

CONSTANTS GWidth, GHeight,         \* PcdMipiFrameBufferWidth and Height
          FontWidth, FontHeight, ScaleFactor,
          Garbage,                 \* values of a variable that is not set
          Texts,                   \* sequences of "glyph", "blank", "newline", "return"
                                   \* and "other"
          MaxWrites                \* bound on the writes that are under way

VARIABLES position,  \* m_Position
          color,     \* m_Color.Foreground
          interrupts, \* does the processor take them
          writes,    \* writes under way, the last begun on top: what is left, the
                     \* saved state and colour, and has a newline been drawn
          initialized

serialVars == <<position, color, interrupts, writes, initialized>>

\* What the code takes for granted of the constants; Platform assumes it.
SerialAssumption ==
    /\ {GWidth, GHeight, FontWidth, FontHeight, ScaleFactor} \subseteq Nat \ {0}
    /\ GWidth \div (FontWidth + 1) >= 2 * ScaleFactor
    /\ (GHeight - 1) \div FontHeight > 3 * ScaleFactor
    /\ Texts \subseteq Seq({"glyph", "blank", "newline", "return", "other"})
    /\ Garbage \subseteq BOOLEAN /\ Garbage # {} /\ MaxWrites \in Nat \ {0}

\* FbConReset.
MaxPositionX == GWidth \div (FontWidth + 1)
MaxPositionY == (GHeight - 1) \div FontHeight
Columns == MaxPositionX \div ScaleFactor

Top == writes[1]

\* SerialPortInitialize, which can be called again.
SerialPortInitialize ==
    /\ writes = << >>
    /\ IF initialized THEN UNCHANGED <<position, color>>
       ELSE position' = [x |-> 0, y |-> 0] /\ color' = "white"
    /\ initialized' = TRUE
    /\ UNCHANGED <<interrupts, writes>>

\* SerialPortWrite, and SerialPortWriteCritical in a colour of its own; a handler
\* writes when the processor takes interrupts.  Before the initialization a write
\* draws nothing.
SerialPortWrite(text, critical) ==
    /\ initialized /\ Len(writes) < MaxWrites /\ (writes # << >> => interrupts)
    /\ writes' = <<[text |-> text, interrupts |-> interrupts, critical |-> critical,
                    color |-> color, newline |-> FALSE]>> \o writes
    /\ color' = IF critical THEN "yellow" ELSE color
    /\ interrupts' = FALSE
    /\ UNCHANGED <<position, initialized>>

\* Mutant: the variable is set after the interrupts are turned off, for the write and
\* not for the character.
SetTooLate(c) == IF Top.interrupts THEN {TRUE} ELSE {FALSE}

\* The variable intstate of the character routine: not set for a newline.
IntState(c) == IF c = "newline" THEN Garbage ELSE {interrupts}

\* FbConDrawglyph fills lines and columns of pixels from that of position p on.
GlyphFits(p) ==
    /\ p.x * ScaleFactor * (FontWidth + 1) + ScaleFactor * FontWidth <= GWidth
    /\ p.y * FontHeight + ScaleFactor * FontHeight <= GHeight

\* A new line, and a new screen when the last line is full.
NewLine(p) ==
    LET y == p.y + ScaleFactor
    IN  [x |-> 0, y |-> IF y >= MaxPositionY - ScaleFactor THEN 0 ELSE y]
NewScreen(p) == p.y + ScaleFactor >= MaxPositionY - ScaleFactor

\* Mutant: a line may be one column longer.
LineFullLate(p) == p.x + 1 > Columns

LineFull(p) == p.x + 1 >= Columns

\* The character is painted again on a new screen: a glyph is drawn twice, a blank
\* is not drawn there, and a newline takes another line.
AfterGlyph(c, p) ==
    IF ~LineFull(p) THEN [p EXCEPT !.x = @ + 1]
    ELSE IF NewScreen(p) THEN [x |-> IF c = "glyph" THEN 1 ELSE 0, y |-> 0] ELSE NewLine(p)
AfterNewline(p) == IF NewScreen(p) THEN NewLine([x |-> 0, y |-> 0]) ELSE NewLine(p)

\* FbConPutCharWithFactor for one character of the write on top.  A space at the
\* start of a line is not drawn.
PutChar ==
    /\ writes # << >> /\ Top.text # << >>
    /\ LET c == Head(Top.text)
           drawn == c = "glyph" \/ (c = "blank" /\ position.x # 0)
       IN  /\ position' = CASE drawn -> AfterGlyph(c, position)
                            [] c = "newline" -> AfterNewline(position)
                            [] c = "return" -> [position EXCEPT !.x = 0]
                            [] OTHER -> position
           /\ \E intstate \in IntState(c) : interrupts' = (interrupts \/ intstate)
           /\ writes' = [writes EXCEPT ![1].text = Tail(@),
                                       ![1].newline = @ \/ c = "newline"]
    /\ UNCHANGED <<color, initialized>>

\* The write returns: interrupts are on again if they were.
Return ==
    /\ writes # << >> /\ Top.text = << >>
    /\ writes' = Tail(writes)
    /\ interrupts' = (interrupts \/ Top.interrupts)
    /\ color' = IF Top.critical THEN Top.color ELSE color
    /\ UNCHANGED <<position, initialized>>

\* The program that calls turns interrupts off or on.
Program ==
    /\ writes = << >> /\ interrupts' = ~interrupts
    /\ UNCHANGED <<position, color, writes, initialized>>

Init ==
    /\ position = [x |-> 0, y |-> 0] /\ color = "none"
    /\ interrupts \in BOOLEAN /\ writes = << >> /\ initialized = FALSE

Next ==
    \/ SerialPortInitialize \/ PutChar \/ Return \/ Program
    \/ \E text \in Texts, critical \in BOOLEAN : SerialPortWrite(text, critical)

Spec == Init /\ [][Next]_serialVars

-----------------------------------------------------------------------------
(* Properties.                                                             *)

\* The next glyph lies in the frame, whatever was written before.
GlyphInFrame == GlyphFits(position)

\* Nothing interrupts a write that has drawn no newline: writes begun in the midst of
\* another find it after one.
OnlyNewlineOpens ==
    /\ \A k \in 2 .. Len(writes) : writes[k].newline
    /\ writes # << >> /\ ~Top.newline => ~interrupts

\* A critical write gives back the colour that it found, however writes nest.
ColorGivenBack ==
    initialized => color = IF \E k \in DOMAIN writes : writes[k].critical THEN "yellow" ELSE "white"
=============================================================================
