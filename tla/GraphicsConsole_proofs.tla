----------------------- MODULE GraphicsConsole_proofs -----------------------
(***************************************************************************)
(* GraphicsConsole, as a component of Platform: its invariant, and that it *)
(* implements TextScreen, for all values of the constants.                 *)
(***************************************************************************)
EXTENDS Platform, SequenceLemmas

\* The console makes its own steps or none.
LEMMA ConsoleSteps == [Next]_vars => [Console!Next]_consoleVars
  BY DEF Next, InterruptsMove, ModemMoves, PointersMove, FrameMoves, SerialMoves,
         ConsoleMoves, LifeMoves, DelayMoves, vars, consoleVars

-----------------------------------------------------------------------------
(* GraphicsConsole.  A device in the middle of an operation, by its parts: *)
(* the fields that printing leaves alone are those of a device b; the      *)
(* cursor is at column c and row r, w says whether glyphs are wide, ch has *)
(* the glyph of each cell of the screen and x the cursors drawn on it.     *)

DeviceFields == {"ModeData", "resolution", "Mode", "CursorColumn", "CursorRow",
                 "CursorVisible", "Attribute", "wide", "LineBuffer", "screen", "failed"}

SameSettings(st, b) ==
    /\ st.ModeData = b.ModeData /\ st.resolution = b.resolution /\ st.Mode = b.Mode
    /\ st.CursorVisible = b.CursorVisible /\ st.Attribute = b.Attribute
    /\ st.LineBuffer = b.LineBuffer /\ st.failed = b.failed

ScreenIs(screen, resolution, ch, x) ==
    /\ DOMAIN screen = Console!Grid(resolution)
    /\ \A cell \in Console!Grid(resolution) :
         /\ DOMAIN screen[cell] = {"char", "xor"}
         /\ screen[cell].char = ch[cell] /\ screen[cell].xor = x[cell]

DeviceIs(st, b, c, r, w, ch, x) ==
    /\ DOMAIN st = DeviceFields /\ SameSettings(st, b)
    /\ st.CursorColumn = c /\ st.CursorRow = r /\ st.wide = w
    /\ ScreenIs(st.screen, b.resolution, ch, x)

\* No cursor on the screen; that of b at column c and row r.
Off(b) == [cell \in Console!Grid(b.resolution) |-> {}]
On(b, c, r) ==
    [cell \in Console!Grid(b.resolution) |->
       IF b.CursorVisible /\ cell = Console!At(b, c, r) THEN {b.Attribute} ELSE {}]

\* The size of the mode of b fits on its screen.
Sized(b) ==
    LET s == Console!SizeOf(b)
    IN  /\ b.resolution \in Nat \X Nat /\ s \in Nat \X Nat
        /\ s[1] >= 2 /\ s[2] >= 1 /\ Console!FitsOn(s, b.resolution)
        /\ b.CursorVisible \in BOOLEAN

\* Settings that are the same give the same text mode.
LEMMA SameSize ==
    ASSUME NEW st, NEW b, SameSettings(st, b)
    PROVE  /\ Console!SizeOf(st) = Console!SizeOf(b)
           /\ Console!MaxColumn(st) = Console!MaxColumn(b)
           /\ Console!MaxRow(st) = Console!MaxRow(b)
           /\ \A c, r : Console!At(st, c, r) = Console!At(b, c, r)
  BY DEF SameSettings, Console!SizeOf, Console!MaxColumn, Console!MaxRow, Console!At

\* Assignments to one field.
LEMMA DeviceExcept ==
    ASSUME NEW st, NEW b, NEW c, NEW r, NEW w, NEW ch, NEW x, NEW v,
           DeviceIs(st, b, c, r, w, ch, x)
    PROVE  /\ DeviceIs([st EXCEPT !.CursorColumn = v], b, v, r, w, ch, x)
           /\ DeviceIs([st EXCEPT !.CursorRow = v], b, c, v, w, ch, x)
           /\ DeviceIs([st EXCEPT !.wide = v], b, c, r, v, ch, x)
  BY DEF DeviceIs, DeviceFields, SameSettings

\* A new screen.
LEMMA ScreenExcept ==
    ASSUME NEW st, NEW b, NEW c, NEW r, NEW w, NEW ch, NEW x, NEW ch2, NEW x2, NEW screen,
           DeviceIs(st, b, c, r, w, ch, x), ScreenIs(screen, b.resolution, ch2, x2)
    PROVE  DeviceIs([st EXCEPT !.screen = screen], b, c, r, w, ch2, x2)
  BY DEF DeviceIs, DeviceFields, SameSettings

ToggleAt(b, x, c, r) ==
    [cell \in Console!Grid(b.resolution) |->
       IF b.CursorVisible /\ cell = Console!At(b, c, r)
       THEN (x[cell] \ {b.Attribute}) \union ({b.Attribute} \ x[cell]) ELSE x[cell]]

\* FlushCursor draws or erases the cursor at its place.
LEMMA FlushIs ==
    ASSUME NEW st, NEW b, NEW c, NEW r, NEW w, NEW ch, NEW x,
           DeviceIs(st, b, c, r, w, ch, x)
    PROVE  DeviceIs(Console!FlushCursor(st), b, c, r, w, ch, ToggleAt(b, x, c, r))
<1> DEFINE cell == Console!At(b, c, r)
           G == Console!Grid(b.resolution)
           y == ToggleAt(b, x, c, r)
           X == (x[cell] \ {b.Attribute}) \union ({b.Attribute} \ x[cell])
<1>1. Console!At(st, st.CursorColumn, st.CursorRow) = cell /\ DOMAIN st.screen = G
      /\ st.CursorVisible = b.CursorVisible
  BY SameSize DEF DeviceIs, ScreenIs, SameSettings
<1>2. CASE ~(b.CursorVisible /\ cell \in G)
  <2>1. Console!FlushCursor(st) = st
    BY <1>1, <1>2, Zenon DEF Console!FlushCursor
  <2>2. \A k \in G : y[k] = x[k]
    BY <1>2 DEF ToggleAt
  <2>3. ScreenIs(st.screen, b.resolution, ch, y)
    <3> HIDE DEF y
    <3> QED  BY <2>2 DEF DeviceIs, ScreenIs
  <2> QED  BY <2>1, <2>3 DEF DeviceIs
<1>3. CASE b.CursorVisible /\ cell \in G
  <2> DEFINE screen == [st.screen EXCEPT ![cell].xor = X]
  <2>1. st.screen[cell].xor = x[cell] /\ st.Attribute = b.Attribute
    BY <1>3 DEF DeviceIs, ScreenIs, SameSettings
  <2>2. Console!FlushCursor(st) = [st EXCEPT !.screen = screen]
    <3> DEFINE at == Console!At(st, st.CursorColumn, st.CursorRow)
               old == st.screen[at].xor
    <3>1. Console!FlushCursor(st) =
            [st EXCEPT !.screen[at].xor =
               (old \ {st.Attribute}) \union ({st.Attribute} \ old)]
      BY <1>1, <1>3 DEF Console!FlushCursor
    <3>2. at = cell /\ old = x[cell] /\ st.Attribute = b.Attribute
      BY <1>1, <2>1
    <3> HIDE DEF at, old
    <3>3. Console!FlushCursor(st) = [st EXCEPT !.screen[cell].xor = X]
      BY <3>1, <3>2
    <3>4. [st EXCEPT !.screen[cell].xor = X] = [st EXCEPT !.screen = screen]
      BY DEF screen
    <3> QED  BY <3>3, <3>4
  <2>3. ScreenIs(screen, b.resolution, ch, y)
    BY <1>3 DEF DeviceIs, ScreenIs, ToggleAt
  <2> QED  BY <2>2, <2>3, ScreenExcept
<1> QED  BY <1>2, <1>3

\* Only the values at the cells count.
LEMMA SameCells ==
    ASSUME NEW st, NEW b, NEW c, NEW r, NEW w, NEW ch, NEW x, NEW ch2, NEW x2,
           DeviceIs(st, b, c, r, w, ch, x),
           \A cell \in Console!Grid(b.resolution) : ch2[cell] = ch[cell] /\ x2[cell] = x[cell]
    PROVE  DeviceIs(st, b, c, r, w, ch2, x2)
  BY DEF DeviceIs, ScreenIs

\* FlushCursor shows the cursor, hides it, and changes nothing when called twice.
LEMMA FlushOn ==
    ASSUME NEW st, NEW b, NEW c, NEW r, NEW w, NEW ch, DeviceIs(st, b, c, r, w, ch, Off(b))
    PROVE  DeviceIs(Console!FlushCursor(st), b, c, r, w, ch, On(b, c, r))
<1>1. DeviceIs(Console!FlushCursor(st), b, c, r, w, ch, ToggleAt(b, Off(b), c, r))
  BY FlushIs
<1>2. \A cell \in Console!Grid(b.resolution) :
        On(b, c, r)[cell] = ToggleAt(b, Off(b), c, r)[cell]
  BY DEF On, Off, ToggleAt
<1> QED  BY <1>1, <1>2, SameCells

\* A cursor that is shown is erased.
LEMMA FlushOff ==
    ASSUME NEW st, NEW b, NEW c, NEW r, NEW w, NEW ch,
           DeviceIs(st, b, c, r, w, ch, On(b, c, r))
    PROVE  DeviceIs(Console!FlushCursor(st), b, c, r, w, ch, Off(b))
<1>1. DeviceIs(Console!FlushCursor(st), b, c, r, w, ch, ToggleAt(b, On(b, c, r), c, r))
  BY FlushIs
<1>2. \A cell \in Console!Grid(b.resolution) :
        Off(b)[cell] = ToggleAt(b, On(b, c, r), c, r)[cell]
  BY DEF On, Off, ToggleAt
<1> QED  BY <1>1, <1>2, SameCells

\* A line feed: where it takes the cursor, and the text when it scrolls.
NextRow(b, r) == IF r # Console!MaxRow(b) - 1 THEN r + 1 ELSE r

InText(b, cell) ==
    /\ cell[1] - Console!At(b, 0, 0)[1] \in 0 .. Console!MaxColumn(b) - 1
    /\ cell[2] - Console!At(b, 0, 0)[2] \in 0 .. Console!MaxRow(b) - 1

Fed(b, r, ch) ==
    IF r # Console!MaxRow(b) - 1 THEN ch
    ELSE [cell \in Console!Grid(b.resolution) |->
            IF ~InText(b, cell) THEN ch[cell]
            ELSE IF cell[2] - Console!At(b, 0, 0)[2] = Console!MaxRow(b) - 1
            THEN Console!Blank ELSE ch[<<cell[1], cell[2] + 1>>]]

\* The text is within the screen, and its cells are where their column and row say.
LEMMA PlaceFacts ==
    ASSUME NEW b, Sized(b), NEW c \in Int, NEW r \in Int
    PROVE  /\ Console!MaxColumn(b) \in Nat /\ Console!MaxRow(b) \in Nat
           /\ Console!MaxColumn(b) >= 2 /\ Console!MaxRow(b) >= 1
           /\ Console!At(b, 0, 0)[1] \in Nat /\ Console!At(b, 0, 0)[2] \in Nat
           /\ Console!At(b, 0, 0)[1] + Console!MaxColumn(b) <= b.resolution[1]
           /\ Console!At(b, 0, 0)[2] + Console!MaxRow(b) <= b.resolution[2]
           /\ Console!At(b, c, r) =
                <<Console!At(b, 0, 0)[1] + c, Console!At(b, 0, 0)[2] + r>>
           /\ b.resolution[1] \in Nat /\ b.resolution[2] \in Nat
<1> DEFINE s == Console!SizeOf(b)
           R == b.resolution
<1>1. R[1] \in Nat /\ R[2] \in Nat /\ s[1] \in Nat /\ s[2] \in Nat
      /\ s[1] >= 2 /\ s[2] >= 1 /\ s[1] <= R[1] /\ s[2] <= R[2]
  BY DEF Sized, Console!FitsOn
<1>2. Console!MaxColumn(b) = s[1] /\ Console!MaxRow(b) = s[2]
  BY DEF Console!MaxColumn, Console!MaxRow
<1> HIDE DEF s
<1>3. /\ (R[1] - s[1]) \div 2 \in Nat /\ (R[1] - s[1]) \div 2 + s[1] <= R[1]
      /\ (R[2] - s[2]) \div 2 \in Nat /\ (R[2] - s[2]) \div 2 + s[2] <= R[2]
  BY <1>1
<1>4. \A i, j \in Int : Console!At(b, i, j) =
        <<i + (R[1] - s[1]) \div 2, j + (R[2] - s[2]) \div 2>>
  BY <1>2 DEF Console!At
<1> DEFINE d == (R[1] - s[1]) \div 2
           e == (R[2] - s[2]) \div 2
<1>5. /\ d \in Nat /\ d + s[1] <= R[1]
      /\ e \in Nat /\ e + s[2] <= R[2]
      /\ Console!At(b, 0, 0) = <<0 + d, 0 + e>> /\ Console!At(b, c, r) = <<c + d, r + e>>
  <2>1. /\ d \in Nat /\ d + s[1] <= R[1] /\ e \in Nat /\ e + s[2] <= R[2]
    BY <1>3
  <2>2. \A i, j \in Int : Console!At(b, i, j) = <<i + d, j + e>>
    BY <1>4
  <2>3. 0 \in Int
    OBVIOUS
  <2> HIDE DEF d, e
  <2> QED  BY <2>1, <2>2, <2>3, Zenon
<1> HIDE DEF d, e, R
<1>6. 0 + d = d /\ 0 + e = e /\ c + d = d + c /\ r + e = e + r
  <2>1. d \in Int /\ e \in Int
    BY <1>5
  <2>2. \A i, j \in Int : 0 + i = i /\ i + j = j + i
    OBVIOUS
  <2> QED  BY <2>1, <2>2, Zenon
<1>7. Console!At(b, 0, 0)[1] = d /\ Console!At(b, 0, 0)[2] = e
      /\ Console!At(b, c, r) = <<d + c, e + r>>
  BY <1>5, <1>6
<1> QED  BY <1>1, <1>2, <1>5, <1>7 DEF R

\* There are at least two columns and one row.
LEMMA SizeFacts ==
    ASSUME NEW b, Sized(b)
    PROVE  /\ Console!MaxColumn(b) \in Nat /\ Console!MaxRow(b) \in Nat
           /\ Console!MaxColumn(b) >= 2 /\ Console!MaxRow(b) >= 1
<1>1. 0 \in Int
  OBVIOUS
<1> QED  BY <1>1, PlaceFacts

\* A line feed goes down, or scrolls.
LEMMA LineFeedIs ==
    ASSUME NEW st, NEW b, NEW c, NEW r \in Int, NEW w, NEW ch, Sized(b),
           DeviceIs(st, b, c, r, w, ch, Off(b))
    PROVE  DeviceIs(Console!LineFeed(st), b, c, NextRow(b, r), w, Fed(b, r, ch), Off(b))
<1>1. /\ Console!MaxColumn(st) = Console!MaxColumn(b) /\ Console!MaxRow(st) = Console!MaxRow(b)
      /\ Console!At(st, 0, 0) = Console!At(b, 0, 0) /\ st.CursorRow = r
      /\ DOMAIN st.screen = Console!Grid(b.resolution)
  BY SameSize DEF DeviceIs, ScreenIs
<1>2. CASE r # Console!MaxRow(b) - 1
  <2>1. Console!LineFeed(st) = [st EXCEPT !.CursorRow = r + 1]
    BY <1>1, <1>2, Zenon DEF Console!LineFeed
  <2>2. NextRow(b, r) = r + 1 /\ Fed(b, r, ch) = ch
    BY <1>2 DEF NextRow, Fed
  <2>3. DeviceIs([st EXCEPT !.CursorRow = r + 1], b, c, r + 1, w, ch, Off(b))
    BY DeviceExcept
  <2> QED  BY <2>1, <2>2, <2>3
<1>3. CASE r = Console!MaxRow(b) - 1
  <2> DEFINE G == Console!Grid(b.resolution)
             corner == Console!At(b, 0, 0)
             below(cell) == <<cell[1], cell[2] + 1>>
             screen == [cell \in G |->
                IF ~InText(b, cell) THEN st.screen[cell]
                ELSE IF cell[2] - corner[2] = Console!MaxRow(b) - 1
                THEN Console!Fresh(Console!Blank) ELSE st.screen[below(cell)]]
             scrolled == [cell \in G |->
                IF ~InText(b, cell) THEN ch[cell]
                ELSE IF cell[2] - corner[2] = Console!MaxRow(b) - 1
                THEN Console!Blank ELSE ch[below(cell)]]
  <2>1. Console!LineFeed(st) = [st EXCEPT !.screen = screen]
    BY <1>1, <1>3, Zenon DEF Console!LineFeed, InText
  <2>2. NextRow(b, r) = r /\ Fed(b, r, ch) = scrolled
    BY <1>3, Zenon DEF NextRow, Fed
  <2>3. ASSUME NEW cell \in G, InText(b, cell),
               cell[2] - corner[2] # Console!MaxRow(b) - 1
        PROVE  below(cell) \in G
    BY <2>3, PlaceFacts DEF InText, Console!Grid
  <2>4. ScreenIs(st.screen, b.resolution, ch, Off(b))
    BY DEF DeviceIs
  <2>5. ScreenIs(screen, b.resolution, scrolled, Off(b))
    <3> SUFFICES ASSUME NEW cell \in G
                 PROVE  /\ DOMAIN screen[cell] = {"char", "xor"}
                        /\ screen[cell].char = scrolled[cell]
                        /\ screen[cell].xor = {}
      BY DEF ScreenIs, Off
    <3>1. CASE ~InText(b, cell)
      BY <2>4, <3>1 DEF ScreenIs, Off
    <3>2. CASE InText(b, cell) /\ cell[2] - corner[2] = Console!MaxRow(b) - 1
      BY <3>2 DEF Console!Fresh
    <3>3. CASE InText(b, cell) /\ cell[2] - corner[2] # Console!MaxRow(b) - 1
      <4>1. below(cell) \in G
        BY <2>3, <3>3
      <4>2. screen[cell] = st.screen[below(cell)] /\ scrolled[cell] = ch[below(cell)]
        BY <3>3
      <4> HIDE DEF screen, scrolled, below
      <4> QED  BY <2>4, <4>1, <4>2 DEF ScreenIs, Off
    <3> QED  BY <3>1, <3>2, <3>3
  <2> HIDE DEF screen, scrolled
  <2> QED  BY <2>1, <2>2, <2>5, ScreenExcept
<1> QED  BY <1>2, <1>3

\* Glyphs drawn from the cursor on replace what was there, and the cursors drawn on it.
Covered(b, c, r, n, cell) ==
    /\ cell[2] = Console!At(b, c, r)[2]
    /\ cell[1] - Console!At(b, c, r)[1] \in 0 .. n - 1

Drawn(b, c, r, w, glyphs, ch) ==
    [cell \in Console!Grid(b.resolution) |->
       IF Covered(b, c, r, Console!CellsOf(glyphs, w), cell)
       THEN Console!Part(glyphs, cell[1] - Console!At(b, c, r)[1], w) ELSE ch[cell]]

\* Drawing glyphs covers cells of one row.
LEMMA DrawIs ==
    ASSUME NEW st, NEW b, NEW c, NEW r, NEW w, NEW ch, NEW x, NEW glyphs,
           DeviceIs(st, b, c, r, w, ch, x),
           \A cell \in Console!Grid(b.resolution) :
              ~Covered(b, c, r, Console!CellsOf(glyphs, w), cell) => x[cell] = {}
    PROVE  DeviceIs(Console!DrawUnicodeWeightAtCursorN(st, glyphs), b, c, r, w,
                    Drawn(b, c, r, w, glyphs, ch), Off(b))
<1> DEFINE G == Console!Grid(b.resolution)
           first == Console!At(b, c, r)
           n == Console!CellsOf(glyphs, w)
           new(cell) == Console!Part(glyphs, cell[1] - first[1], w)
           screen == [cell \in G |-> IF Covered(b, c, r, n, cell)
                        THEN Console!Fresh(new(cell)) ELSE st.screen[cell]]
           chars == [cell \in G |-> IF Covered(b, c, r, n, cell) THEN new(cell) ELSE ch[cell]]
<1>1. /\ Console!At(st, st.CursorColumn, st.CursorRow) = first /\ st.wide = w
      /\ DOMAIN st.screen = G
  BY SameSize DEF DeviceIs, ScreenIs
<1>2. Console!DrawUnicodeWeightAtCursorN(st, glyphs) = [st EXCEPT !.screen = screen]
  BY <1>1, Zenon DEF Console!DrawUnicodeWeightAtCursorN, Covered
<1>3. Drawn(b, c, r, w, glyphs, ch) = chars
  BY Zenon DEF Drawn
<1>4. ScreenIs(st.screen, b.resolution, ch, x)
  BY DEF DeviceIs
<1>5. ScreenIs(screen, b.resolution, chars, Off(b))
  <2> HIDE DEF n, first, new
  <2> SUFFICES ASSUME NEW cell \in G
               PROVE  /\ DOMAIN screen[cell] = {"char", "xor"}
                      /\ screen[cell].char = chars[cell] /\ screen[cell].xor = {}
    BY DEF ScreenIs, Off
  <2>1. CASE Covered(b, c, r, n, cell)
    BY <2>1 DEF Console!Fresh
  <2>2. CASE ~Covered(b, c, r, n, cell)
    BY <1>4, <2>2 DEF ScreenIs, n
  <2> QED  BY <2>1, <2>2
<1> HIDE DEF screen, chars
<1> QED  BY <1>2, <1>3, <1>5, ScreenExcept

\* At the end of a line the cursor goes to the start of the next one.
LEMMA WrapIs ==
    ASSUME NEW st, NEW b, NEW c \in Int, NEW r \in Int, NEW w, NEW ch, Sized(b),
           c >= Console!MaxColumn(b), DeviceIs(st, b, c, r, w, ch, Off(b))
    PROVE  DeviceIs(Console!WrapIfFull(st), b, 0, NextRow(b, r), w, Fed(b, r, ch), Off(b))
<1> DEFINE s1 == Console!FlushCursor(st)
           s2 == Console!FlushCursor(s1)
           s3 == [s2 EXCEPT !.CursorColumn = 0]
           s4 == Console!LineFeed(s3)
           s5 == Console!FlushCursor(s4)
<1>1. DeviceIs(s1, b, c, r, w, ch, On(b, c, r))
  BY FlushOn
<1>2. DeviceIs(s2, b, c, r, w, ch, Off(b))
  BY <1>1, FlushOff
<1>3. DeviceIs(s3, b, 0, r, w, ch, Off(b))
  BY <1>2, DeviceExcept
<1>4. DeviceIs(s4, b, 0, NextRow(b, r), w, Fed(b, r, ch), Off(b))
  BY <1>3, LineFeedIs
<1>5. DeviceIs(s5, b, 0, NextRow(b, r), w, Fed(b, r, ch), On(b, 0, NextRow(b, r)))
  BY <1>4, FlushOn
<1>6. Console!WrapIfFull(st) = Console!FlushCursor(s5)
  <2>1. st.CursorColumn >= Console!MaxColumn(st)
    BY SameSize DEF DeviceIs
  <2>2. Console!OutputCrLf(s1) = s5
    BY Zenon DEF Console!OutputCrLf
  <2> QED  BY <2>1, <2>2, Zenon DEF Console!WrapIfFull
<1> QED  BY <1>5, <1>6, FlushOff

\* Inside a line nothing wraps.
LEMMA NoWrap ==
    ASSUME NEW st, NEW b, NEW c \in Int, NEW r, NEW w, NEW ch, NEW x, Sized(b),
           c < Console!MaxColumn(b), DeviceIs(st, b, c, r, w, ch, x)
    PROVE  Console!WrapIfFull(st) = st
<1>1. ~(st.CursorColumn >= Console!MaxColumn(st))
  BY SameSize, PlaceFacts DEF DeviceIs
<1> QED  BY <1>1, Zenon DEF Console!WrapIfFull

\* A space wipes the cell of the cursor, and leaves the cursor shown on the next one.
Wiped(b, c, r, ch) ==
    [cell \in Console!Grid(b.resolution) |->
       IF cell = Console!At(b, c, r) THEN Console!Blank ELSE ch[cell]]

Space == <<" ">>

LEMMA SpaceGlyph ==
    /\ Console!CellsOf(Space, FALSE) = 1 /\ Console!Part(Space, 0, FALSE) = Console!Blank
<1>1. \A g : Console!CellsOf(<<g>>, FALSE) = 1 /\ Console!Part(<<g>>, 0, FALSE) = <<g, 0>>
  BY DEF Console!CellsOf, Console!Part
<1> QED  BY <1>1, Zenon DEF Space, Console!Blank

LEMMA DrawSpace ==
    ASSUME NEW st, NEW b, NEW c \in Int, NEW r \in Int, NEW ch, Sized(b),
           DeviceIs(st, b, c, r, FALSE, ch, On(b, c, r))
    PROVE  DeviceIs(Console!DrawUnicodeWeightAtCursorN(st, Space), b, c, r, FALSE,
                    Wiped(b, c, r, ch), Off(b))
<1> DEFINE G == Console!Grid(b.resolution)
<1>1. ASSUME NEW cell \in G
      PROVE  Covered(b, c, r, Console!CellsOf(Space, FALSE), cell)
               <=> cell = Console!At(b, c, r)
  <2>1. PICK i \in Int, j \in Int : Console!At(b, c, r) = <<i, j>>
    BY PlaceFacts
  <2>2. cell[1] \in Int /\ cell[2] \in Int /\ cell = <<cell[1], cell[2]>>
    BY PlaceFacts DEF Console!Grid
  <2>3. Covered(b, c, r, Console!CellsOf(Space, FALSE), cell)
          <=> cell[2] = j /\ cell[1] - i \in 0 .. 1 - 1
    <3>1. Console!At(b, c, r)[1] = i /\ Console!At(b, c, r)[2] = j
      BY <2>1
    <3>2. Console!CellsOf(Space, FALSE) = 1
      BY SpaceGlyph
    <3> QED  BY <3>1, <3>2, Zenon DEF Covered
  <2>4. cell[1] - i \in 0 .. 1 - 1 <=> cell[1] = i
    BY <2>2
  <2>5. cell = <<i, j>> <=> cell[1] = i /\ cell[2] = j
    BY <2>2
  <2> QED  BY <2>1, <2>3, <2>4, <2>5
<1>2. \A cell \in G : cell # Console!At(b, c, r) => On(b, c, r)[cell] = {}
  BY DEF On
<1>3. DeviceIs(Console!DrawUnicodeWeightAtCursorN(st, Space), b, c, r, FALSE,
               Drawn(b, c, r, FALSE, Space, ch), Off(b))
  BY <1>1, <1>2, DrawIs
<1>4. ASSUME NEW cell \in G
      PROVE  Wiped(b, c, r, ch)[cell] = Drawn(b, c, r, FALSE, Space, ch)[cell]
  <2>1. Console!At(b, c, r)[1] - Console!At(b, c, r)[1] = 0
    BY PlaceFacts
  <2>2. CASE cell = Console!At(b, c, r)
    <3>1. /\ Wiped(b, c, r, ch)[cell] = Console!Blank
          /\ Drawn(b, c, r, FALSE, Space, ch)[cell] =
               Console!Part(Space, cell[1] - Console!At(b, c, r)[1], FALSE)
      BY <1>1, <2>2, Zenon DEF Wiped, Drawn
    <3>2. cell[1] - Console!At(b, c, r)[1] = 0
      BY <2>1, <2>2
    <3> QED  BY <3>1, <3>2, SpaceGlyph
  <2>3. CASE cell # Console!At(b, c, r)
    BY <1>1, <2>3, Zenon DEF Wiped, Drawn
  <2> QED  BY <2>2, <2>3
<1> QED  BY <1>3, <1>4, SameCells

\* A space wipes one cell, and wraps when that was the last of its line.
LEMMA SpaceIs ==
    ASSUME NEW st, NEW b, NEW c \in Int, NEW r \in Int, NEW w, NEW ch, Sized(b),
           DeviceIs(st, b, c, r, w, ch, Off(b))
    PROVE  IF c + 1 < Console!MaxColumn(b)
           THEN DeviceIs(Console!OutputSpace(st), b, c + 1, r, w, Wiped(b, c, r, ch),
                         On(b, c + 1, r))
           ELSE DeviceIs(Console!OutputSpace(st), b, 0, NextRow(b, r), w,
                         Fed(b, r, Wiped(b, c, r, ch)), On(b, 0, NextRow(b, r)))
<1> DEFINE s1 == Console!FlushCursor(st)
           s2 == [s1 EXCEPT !.wide = FALSE]
           s3 == Console!DrawUnicodeWeightAtCursorN(s2, Space)
           s4 == [s3 EXCEPT !.CursorColumn = s3.CursorColumn + 1]
           s5 == Console!WrapIfFull(s4)
           s6 == [s5 EXCEPT !.wide = st.wide]
           wiped == Wiped(b, c, r, ch)
<1>1. DeviceIs(s1, b, c, r, w, ch, On(b, c, r)) /\ st.wide = w
  BY FlushOn DEF DeviceIs
<1>2. DeviceIs(s2, b, c, r, FALSE, ch, On(b, c, r))
  BY <1>1, DeviceExcept
<1>3. DeviceIs(s3, b, c, r, FALSE, wiped, Off(b))
  BY <1>2, DrawSpace
<1>4. s3.CursorColumn = c
  BY <1>3 DEF DeviceIs
<1>5. DeviceIs(s4, b, c + 1, r, FALSE, wiped, Off(b))
  BY <1>3, <1>4, DeviceExcept
<1>6. Console!OutputSpace(st) = Console!FlushCursor(s6)
  BY Zenon DEF Console!OutputSpace, Space
<1> HIDE DEF s1, s2, s3, s4, wiped
<1>7. c + 1 \in Int /\ Console!MaxColumn(b) \in Int
  BY PlaceFacts
<1>8. CASE c + 1 < Console!MaxColumn(b)
  <2>1. s5 = s4
    BY <1>5, <1>7, <1>8, NoWrap
  <2>2. DeviceIs(s5, b, c + 1, r, FALSE, wiped, Off(b))
    BY <1>5, <2>1, Zenon
  <2> HIDE DEF s5
  <2>3. DeviceIs(s6, b, c + 1, r, w, wiped, Off(b))
    BY <1>1, <2>2, DeviceExcept
  <2> HIDE DEF s6
  <2> QED  BY <1>6, <1>8, <2>3, FlushOn DEF wiped
<1>9. CASE ~(c + 1 < Console!MaxColumn(b))
  <2>0. c + 1 >= Console!MaxColumn(b)
    BY <1>7, <1>9
  <2>1. DeviceIs(s5, b, 0, NextRow(b, r), FALSE, Fed(b, r, wiped), Off(b))
    BY <1>5, <1>7, <2>0, WrapIs, Zenon
  <2>2. DeviceIs(s6, b, 0, NextRow(b, r), w, Fed(b, r, wiped), Off(b))
    BY <1>1, <2>1, DeviceExcept
  <2> HIDE DEF s6
  <2> QED  BY <1>6, <1>9, <2>2, FlushOn DEF wiped
<1> QED  BY <1>8, <1>9

\* Assignments to both coordinates of the cursor.
RowColumn(t, r, c) == [t EXCEPT !.CursorRow = r, !.CursorColumn = c]
ColumnRow(t, c, r) == [t EXCEPT !.CursorColumn = c, !.CursorRow = r]

\* The cursor is moved while it is not shown.
LEMMA MoveIs ==
    ASSUME NEW st, NEW b, NEW c, NEW r, NEW w, NEW ch, NEW x, NEW c2, NEW r2,
           DeviceIs(st, b, c, r, w, ch, x)
    PROVE  /\ DeviceIs(RowColumn(st, r2, c2), b, c2, r2, w, ch, x)
           /\ DeviceIs(ColumnRow(st, c2, r2), b, c2, r2, w, ch, x)
<1> DEFINE t == [st EXCEPT !.CursorRow = r2]
           u == [st EXCEPT !.CursorColumn = c2]
<1>1. DeviceIs(t, b, c, r2, w, ch, x) /\ DeviceIs(u, b, c2, r, w, ch, x)
  BY DeviceExcept
<1>2. RowColumn(st, r2, c2) = [t EXCEPT !.CursorColumn = c2]
  BY DEF DeviceIs, DeviceFields, RowColumn
<1>3. ColumnRow(st, c2, r2) = [u EXCEPT !.CursorRow = r2]
  BY DEF DeviceIs, DeviceFields, ColumnRow
<1> HIDE DEF t, u
<1>4. /\ DeviceIs([t EXCEPT !.CursorColumn = c2], b, c2, r2, w, ch, x)
      /\ DeviceIs([u EXCEPT !.CursorRow = r2], b, c2, r2, w, ch, x)
  BY <1>1, DeviceExcept
<1> QED  BY <1>2, <1>3, <1>4, Zenon

\* The cursor goes back by one cell, to the end of the line before from column 0, and
\* the cell is wiped.  At the top left nothing happens.
LEMMA BackspaceIs ==
    ASSUME NEW st, NEW b, NEW w, NEW ch, Sized(b),
           NEW c \in 0 .. Console!MaxColumn(b) - 1, NEW r \in 0 .. Console!MaxRow(b) - 1,
           DeviceIs(st, b, c, r, w, ch, Off(b))
    PROVE  LET c2 == IF c > 0 THEN c - 1 ELSE Console!MaxColumn(b) - 1
               r2 == IF c > 0 THEN r ELSE r - 1
           IN  IF c = 0 /\ r = 0 THEN Console!Backspace(st) = st
               ELSE DeviceIs(Console!Backspace(st), b, c2, r2, w, Wiped(b, c2, r2, ch), Off(b))
<1>1. /\ Console!MaxColumn(b) \in Nat /\ Console!MaxRow(b) \in Nat /\ c \in Nat /\ r \in Nat
      /\ st.CursorColumn = c /\ st.CursorRow = r
      /\ Console!MaxColumn(st) = Console!MaxColumn(b) /\ Console!MaxColumn(b) >= 2
  BY SameSize, PlaceFacts DEF DeviceIs
<1>2. CASE c = 0 /\ r = 0
  BY <1>1, <1>2, Zenon DEF Console!Backspace
<1>3. CASE c > 0
  <2> DEFINE Back(t) == [t EXCEPT !.CursorColumn = t.CursorColumn - 1]
             s1 == Back(st)
             s2 == Console!OutputSpace(s1)
             s3 == Console!FlushCursor(s2)
  <2>1. Console!Backspace(st) = Back(s3)
    <3>1. c # 0
      BY <1>3
    <3> QED  BY <1>1, <3>1, Zenon DEF Console!Backspace
  <2>2. DeviceIs(s1, b, c - 1, r, w, ch, Off(b))
    BY <1>1, DeviceExcept
  <2>3. c - 1 \in Int /\ r \in Int /\ c - 1 + 1 < Console!MaxColumn(b) /\ c - 1 + 1 = c
    BY <1>1
  <2> HIDE DEF s1
  <2>4. DeviceIs(s2, b, c, r, w, Wiped(b, c - 1, r, ch), On(b, c, r))
    <3>1. DeviceIs(s2, b, c - 1 + 1, r, w, Wiped(b, c - 1, r, ch), On(b, c - 1 + 1, r))
      BY <2>2, <2>3, SpaceIs
    <3> QED  BY <2>3, <3>1
  <2>5. DeviceIs(s3, b, c, r, w, Wiped(b, c - 1, r, ch), Off(b))
    BY <2>4, FlushOff
  <2>6. s3.CursorColumn = c
    BY <2>5 DEF DeviceIs
  <2> HIDE DEF s2, s3
  <2>7. DeviceIs(Back(s3), b, c - 1, r, w, Wiped(b, c - 1, r, ch), Off(b))
    BY <2>5, <2>6, DeviceExcept
  <2> QED  BY <1>3, <2>1, <2>7
<1>4. CASE c = 0 /\ r # 0
  <2> DEFINE m == Console!MaxColumn(b) - 1
             s1 == RowColumn(st, st.CursorRow - 1, m)
             s2 == Console!OutputSpace(s1)
             s3 == Console!FlushCursor(s2)
             s4 == RowColumn(s3, s3.CursorRow - 1, m)
             wiped == Wiped(b, m, r - 1, ch)
  <2>1. Console!Backspace(st) = s4
    BY <1>1, <1>4, Zenon DEF Console!Backspace, RowColumn
  <2>2. DeviceIs(s1, b, m, r - 1, w, ch, Off(b))
    BY <1>1, MoveIs
  <2>3. /\ m \in Int /\ r - 1 \in Int /\ ~(m + 1 < Console!MaxColumn(b))
        /\ NextRow(b, r - 1) = r /\ Fed(b, r - 1, wiped) = wiped
    <3>1. r - 1 # Console!MaxRow(b) - 1 /\ r - 1 + 1 = r
      BY <1>1
    <3>2. NextRow(b, r - 1) = r - 1 + 1 /\ Fed(b, r - 1, wiped) = wiped
      BY <3>1, Zenon DEF NextRow, Fed
    <3> QED  BY <1>1, <3>1, <3>2
  <2> HIDE DEF s1, m, wiped
  <2>4. DeviceIs(s2, b, 0, r, w, wiped, On(b, 0, r))
    <3>1. DeviceIs(s2, b, 0, NextRow(b, r - 1), w, Fed(b, r - 1, wiped),
                   On(b, 0, NextRow(b, r - 1)))
      BY <2>2, <2>3, SpaceIs DEF wiped
    <3> QED  BY <2>3, <3>1
  <2>5. DeviceIs(s3, b, 0, r, w, wiped, Off(b))
    BY <2>4, FlushOff
  <2>6. s3.CursorRow = r
    BY <2>5 DEF DeviceIs
  <2> HIDE DEF s2, s3
  <2>7. DeviceIs(s4, b, m, r - 1, w, wiped, Off(b))
    BY <2>5, <2>6, MoveIs
  <2>8. ~(c > 0) /\ ~(c = 0 /\ r = 0)
    BY <1>4
  <2> HIDE DEF s4
  <2> QED  BY <2>1, <2>7, <2>8 DEF m, wiped
<1> QED  BY <1>1, <1>2, <1>3, <1>4

\* How far a run of glyphs goes: g glyphs come before a control character or the end of
\* the string, k of them fit on the line, and one cell is left if a wide one does not.
WidthOf(w) == IF w THEN 2 ELSE 1

\* How long a run is, and where it leaves the cursor.
LEMMA RunFacts ==
    ASSUME NEW b, Sized(b), NEW st, SameSettings(st, b), NEW S, NEW string \in Seq(S),
           string # << >>, Head(string) \notin Console!Controls, st.wide \in BOOLEAN,
           NEW c \in 0 .. Console!MaxColumn(b) - 1, st.CursorColumn = c
    PROVE  LET k == Console!Run(st, string).Count
               end == c + k * WidthOf(st.wide)
               index == Console!Run(st, string).Index
           IN  /\ k \in 0 .. Len(string) /\ end <= Console!MaxColumn(b)
               /\ \A i \in 1 .. k : string[i] \notin Console!Controls
               /\ \/ k >= 1 /\ c + index = end
                  \/ /\ st.wide /\ end = Console!MaxColumn(b) - 1
                     /\ c + index = Console!MaxColumn(b) + 1
                     /\ k < Len(string) /\ string[k + 1] \notin Console!Controls
<1> DEFINE I == {i \in 1 .. Len(string) : string[i] \in Console!Controls}
           stop == Console!SelectInSeq(string, LAMBDA e : e \in Console!Controls)
           g == IF stop = 0 THEN Len(string) ELSE stop - 1
           room == Console!MaxColumn(b) - c
           m == WidthOf(st.wide)
           fit == room \div m
           run == Console!Run(st, string)
<1>1. Len(string) \in Nat /\ Len(string) >= 1 /\ string[1] = Head(string)
      /\ Console!MaxColumn(b) \in Nat /\ c \in Nat /\ c < Console!MaxColumn(b)
  BY SizeFacts
<1>2. stop = IF I # {} THEN Min(I) ELSE 0
  BY Zenon DEF Console!SelectInSeq, Console!Min, Min
<1>3. g \in 1 .. Len(string) /\ \A i \in 1 .. g : string[i] \notin Console!Controls
  <2>1. CASE I = {}
    <3>1. g = Len(string)
      BY <1>2, <2>1, Zenon
    <3>2. \A i \in 1 .. Len(string) : i \notin I
      BY <2>1
    <3> HIDE DEF g
    <3> QED  BY <1>1, <3>1, <3>2
  <2>2. CASE I # {}
    <3>1. stop \in I /\ \A i \in I : stop <= i
      <4>1. I \subseteq Nat
        OBVIOUS
      <4>2. stop = Min(I)
        BY <1>2, <2>2, Zenon
      <4> HIDE DEF I, stop
      <4> QED  BY <2>2, <4>1, <4>2, MinFacts
    <3> HIDE DEF stop
    <3>2. stop \in 2 .. Len(string)
      BY <1>1, <3>1
    <3>3. g = stop - 1
      BY <3>2
    <3> HIDE DEF g
    <3> QED  BY <3>1, <3>2, <3>3
  <2> QED  BY <2>1, <2>2
<1> HIDE DEF g, stop, I
<1>4. run = IF g <= fit THEN [Count |-> g, Index |-> g * m]
            ELSE [Count |-> fit, Index |-> fit * m + (IF room % m = 0 THEN 0 ELSE 2)]
  <2> DEFINE room0 == Console!MaxColumn(st) - st.CursorColumn
  <2>1. room0 = room
    BY SameSize
  <2>2. run = IF g <= room0 \div m THEN [Count |-> g, Index |-> g * m]
              ELSE [Count |-> room0 \div m,
                    Index |-> (room0 \div m) * m + (IF room0 % m = 0 THEN 0 ELSE 2)]
    BY Zenon DEF Console!Run, WidthOf, g, stop
  <2> HIDE DEF room0, g, m, room, run
  <2> QED  BY <2>1, <2>2 DEF fit
<1>5. room \in Nat /\ room >= 1 /\ c + room = Console!MaxColumn(b)
  BY <1>1
<1> HIDE DEF room, run
<1>6. CASE g <= fit
  <2>1. run.Count = g /\ run.Index = g * m
    BY <1>4, <1>6
  <2>2. g * m <= room
    BY <1>3, <1>5, <1>6 DEF WidthOf
  <2>3. g * m \in Int
    BY <1>3 DEF WidthOf
  <2> HIDE DEF fit, m
  <2>4. g \in 0 .. Len(string) /\ g >= 1 /\ c + g * m <= Console!MaxColumn(b)
    BY <1>1, <1>3, <1>5, <2>2, <2>3
  <2> QED  BY <1>3, <2>1, <2>4 DEF m, run
<1>7. CASE ~(g <= fit)
  <2>1. run.Count = fit /\ run.Index = fit * m + (IF room % m = 0 THEN 0 ELSE 2)
    BY <1>4, <1>7
  <2>2. fit \in Nat /\ fit < g
    BY <1>3, <1>5, <1>7 DEF WidthOf
  <2>3. /\ fit \in 0 .. Len(string) /\ fit < Len(string)
        /\ \A i \in 1 .. fit : string[i] \notin Console!Controls
        /\ string[fit + 1] \notin Console!Controls
    <3> HIDE DEF fit
    <3> QED  BY <1>1, <1>3, <2>2
  <2>4. CASE room % m = 0
    <3>1. fit * m = room /\ fit >= 1
      BY <1>5, <2>4 DEF WidthOf
    <3> DEFINE q == fit * m
    <3>2. q = room /\ run.Index = q + 0
      BY <2>1, <2>4, <3>1
    <3> HIDE DEF q
    <3>3. c + q = Console!MaxColumn(b) /\ c + run.Index = Console!MaxColumn(b)
      BY <1>1, <1>5, <3>2
    <3>4. c + run.Count * m = Console!MaxColumn(b)
      BY <2>1, <3>3 DEF q
    <3> HIDE DEF fit, m
    <3> QED  BY <1>1, <2>1, <2>3, <3>1, <3>3, <3>4 DEF m, run
  <2>5. CASE room % m # 0
    <3>1. st.wide /\ fit * m = room - 1
      BY <1>5, <2>5 DEF WidthOf
    <3> DEFINE q == fit * m
    <3>2. q = room - 1 /\ run.Index = q + 2
      BY <2>1, <2>5, <3>1
    <3> HIDE DEF q
    <3>3. c + q = Console!MaxColumn(b) - 1 /\ c + run.Index = Console!MaxColumn(b) + 1
      BY <1>1, <1>5, <3>2
    <3>4. c + run.Count * m = Console!MaxColumn(b) - 1
      BY <2>1, <3>3 DEF q
    <3> HIDE DEF fit, m
    <3>5. Console!MaxColumn(b) - 1 <= Console!MaxColumn(b)
      BY <1>1
    <3> QED  BY <2>1, <2>3, <3>1, <3>3, <3>4, <3>5 DEF m, run
  <2> QED  BY <2>4, <2>5
<1> QED  BY <1>6, <1>7

\* What a run of glyphs makes of the screen: k glyphs are drawn, and at the end of the
\* line the cursor goes to the next one, from a cell that is left over by way of a
\* space, after which the cursor stays shown.
RunEnds(t, b, c, r, w, ch, string, k) ==
    LET end == c + k * WidthOf(w)
        max == Console!MaxColumn(b)
        drawn == Drawn(b, c, r, w, SubSeq(string, 1, k), ch)
    IN  \/ /\ k >= 1 /\ end < max
           /\ DeviceIs(t, b, end, r, w, drawn, Off(b))
        \/ /\ k >= 1 /\ end = max
           /\ DeviceIs(t, b, 0, NextRow(b, r), w, Fed(b, r, drawn), Off(b))
        \/ /\ w /\ end = max - 1
           /\ k < Len(string) /\ string[k + 1] \notin Console!Controls
           /\ DeviceIs(t, b, 0, NextRow(b, r), w, Fed(b, r, Wiped(b, max - 1, r, drawn)),
                       On(b, 0, NextRow(b, r)))

RunStarts(st, string, S, b, c, r, w, ch, x) ==
    /\ string \in Seq(S) /\ string # << >> /\ Head(string) \notin Console!Controls
    /\ w \in BOOLEAN /\ c \in 0 .. Console!MaxColumn(b) - 1 /\ r \in Int
    /\ DeviceIs(st, b, c, r, w, ch, x) /\ (x = Off(b) \/ (x = On(b, c, r) /\ c = 0))

\* A run covers cells of the line and leaves the cursor on the screen.
LEMMA PrintRunIs ==
    ASSUME NEW b, Sized(b), NEW st, NEW S, NEW string, NEW w, NEW c, NEW r, NEW ch, NEW x,
           RunStarts(st, string, S, b, c, r, w, ch, x)
    PROVE   \E k \in 0 .. Len(string) :
             /\ \A i \in 1 .. k : string[i] \notin Console!Controls
             /\ Console!PrintRun(st, string).rest = SubSeq(string, k + 1, Len(string))
             /\ RunEnds(Console!PrintRun(st, string).st, b, c, r, w, ch, string, k)
<1> SUFFICES ASSUME string \in Seq(S), string # << >>, Head(string) \notin Console!Controls,
                    w \in BOOLEAN, c \in 0 .. Console!MaxColumn(b) - 1, r \in Int,
                    DeviceIs(st, b, c, r, w, ch, x),
                    x = Off(b) \/ (x = On(b, c, r) /\ c = 0)
             PROVE   \E k \in 0 .. Len(string) :
                   /\ \A i \in 1 .. k : string[i] \notin Console!Controls
                   /\ Console!PrintRun(st, string).rest = SubSeq(string, k + 1, Len(string))
                   /\ RunEnds(Console!PrintRun(st, string).st, b, c, r, w, ch, string, k)
  BY DEF RunStarts
<1> DEFINE run == Console!Run(st, string)
           k == run.Count
           max == Console!MaxColumn(b)
           end == c + k * WidthOf(w)
           part == SubSeq(string, 1, k)
           s1 == Console!DrawUnicodeWeightAtCursorN(st, part)
           s2 == [s1 EXCEPT !.CursorColumn = s1.CursorColumn + run.Index]
           s3 == IF s2.CursorColumn > Console!MaxColumn(st)
                 THEN Console!OutputSpace([s2 EXCEPT !.CursorColumn = s2.CursorColumn - 2])
                 ELSE s2
           t == Console!WrapIfFull(s3)
           drawn == Drawn(b, c, r, w, part, ch)
<1>1. /\ SameSettings(st, b) /\ st.wide = w /\ st.CursorColumn = c
      /\ Console!MaxColumn(st) = max /\ max \in Nat /\ max >= 2 /\ c \in Nat /\ c < max
  BY SameSize, SizeFacts DEF DeviceIs
<1>2. /\ k \in 0 .. Len(string) /\ end <= max
      /\ \A i \in 1 .. k : string[i] \notin Console!Controls
      /\ \/ k >= 1 /\ c + run.Index = end
         \/ /\ w /\ end = max - 1 /\ c + run.Index = max + 1
            /\ k < Len(string) /\ string[k + 1] \notin Console!Controls
  BY <1>1, RunFacts
<1>3. Console!PrintRun(st, string) = [st |-> t, rest |-> SubSeq(string, k + 1, Len(string))]
  BY Zenon DEF Console!PrintRun
<1> HIDE DEF t, s3, run
<1>4. Console!CellsOf(part, w) = k * WidthOf(w)
  <2>1. Len(part) = k
    <3> HIDE DEF k
    <3> QED  BY <1>2
  <2> QED  BY <2>1 DEF Console!CellsOf, WidthOf
<1>5. k = 0 => c = max - 1 /\ c # 0
  <2>1. k = 0 => end = c
    BY <1>1 DEF WidthOf
  <2> HIDE DEF end
  <2> QED  BY <1>1, <1>2, <2>1
<1>6. DeviceIs(s1, b, c, r, w, drawn, Off(b))
  <2>1. ASSUME NEW cell \in Console!Grid(b.resolution),
               ~Covered(b, c, r, Console!CellsOf(part, w), cell)
        PROVE  x[cell] = {}
    <3>1. CASE x = Off(b)
      BY <3>1 DEF Off
    <3>2. CASE x = On(b, c, r) /\ c = 0
      <4>1. k * WidthOf(w) \in Nat /\ k * WidthOf(w) >= 1
        BY <1>2, <1>5, <3>2 DEF WidthOf
      <4>2. cell # Console!At(b, c, r)
        <5>1. Console!At(b, c, r)[1] \in Int
          BY PlaceFacts
        <5>2. cell = Console!At(b, c, r) => Covered(b, c, r, Console!CellsOf(part, w), cell)
          BY <1>4, <4>1, <5>1 DEF Covered
        <5> QED  BY <2>1, <5>2
      <4> QED  BY <3>2, <4>2 DEF On
    <3> QED  BY <3>1, <3>2
  <2> HIDE DEF part
  <2> QED  BY <2>1, DrawIs
<1>7. DeviceIs(s2, b, c + run.Index, r, w, drawn, Off(b))
  <2>1. s1.CursorColumn = c
    BY <1>6 DEF DeviceIs
  <2> HIDE DEF s1, drawn
  <2> QED  BY <1>6, <2>1, DeviceExcept
<1>8. s2.CursorColumn = c + run.Index
  BY <1>7 DEF DeviceIs
<1> HIDE DEF s2, drawn, part
<1>9. end \in Int
  BY <1>1, <1>2 DEF WidthOf
<1>10. RunEnds(t, b, c, r, w, ch, string, k)
  <2>1. CASE k >= 1 /\ c + run.Index = end
    <3>1. s3 = s2
      <4>1. ~(s2.CursorColumn > Console!MaxColumn(st))
        <5> HIDE DEF end
        <5> QED  BY <1>1, <1>2, <1>8, <1>9, <2>1
      <4> QED  BY <4>1, Zenon DEF s3
    <3>2. DeviceIs(s3, b, end, r, w, drawn, Off(b))
      BY <1>7, <2>1, <3>1
    <3>3. CASE end < max
      <4>1. t = s3
        BY <1>9, <3>2, <3>3, NoWrap DEF t
      <4>2. DeviceIs(t, b, end, r, w, drawn, Off(b))
        BY <3>2, <4>1
      <4> HIDE DEF k
      <4> QED  BY <2>1, <3>3, <4>2, Zenon DEF RunEnds, drawn, part, end
    <3>4. CASE end >= max
      <4>1. DeviceIs(t, b, 0, NextRow(b, r), w, Fed(b, r, drawn), Off(b))
        BY <1>9, <3>2, <3>4, WrapIs, Zenon DEF t
      <4>2. end = max
        <5> HIDE DEF end
        <5> QED  BY <1>1, <1>2, <1>9, <3>4
      <4> HIDE DEF k
      <4> QED  BY <2>1, <4>1, <4>2, Zenon DEF RunEnds, drawn, part, end
    <3> HIDE DEF end
    <3> QED  BY <1>1, <1>9, <3>3, <3>4
  <2>2. CASE /\ w /\ end = max - 1 /\ c + run.Index = max + 1
             /\ k < Len(string) /\ string[k + 1] \notin Console!Controls
    <3> DEFINE back == [s2 EXCEPT !.CursorColumn = s2.CursorColumn - 2]
    <3>1. s3 = Console!OutputSpace(back)
      <4>1. s2.CursorColumn > Console!MaxColumn(st)
        BY <1>1, <1>8, <2>2
      <4> QED  BY <4>1, Zenon DEF s3
    <3>2. DeviceIs(back, b, max - 1, r, w, drawn, Off(b))
      <4>1. s2.CursorColumn - 2 = max - 1
        BY <1>1, <1>8, <2>2
      <4> QED  BY <1>7, <4>1, DeviceExcept
    <3> HIDE DEF back
    <3>3. /\ max - 1 \in Int /\ ~((max - 1) + 1 < max) /\ 0 < max /\ 0 \in Int
      BY <1>1
    <3>4. DeviceIs(s3, b, 0, NextRow(b, r), w, Fed(b, r, Wiped(b, max - 1, r, drawn)),
                   On(b, 0, NextRow(b, r)))
      <4>1. IF (max - 1) + 1 < max
            THEN DeviceIs(Console!OutputSpace(back), b, (max - 1) + 1, r, w,
                          Wiped(b, max - 1, r, drawn), On(b, (max - 1) + 1, r))
            ELSE DeviceIs(Console!OutputSpace(back), b, 0, NextRow(b, r), w,
                         Fed(b, r, Wiped(b, max - 1, r, drawn)), On(b, 0, NextRow(b, r)))
        BY <3>2, <3>3, SpaceIs, Zenon
      <4> QED  BY <3>1, <3>3, <4>1, Zenon
    <3>5. t = s3
      BY <3>3, <3>4, NoWrap, Zenon DEF t
    <3>6. DeviceIs(t, b, 0, NextRow(b, r), w, Fed(b, r, Wiped(b, max - 1, r, drawn)),
                   On(b, 0, NextRow(b, r)))
      BY <3>4, <3>5, Zenon
    <3> HIDE DEF k
    <3> QED  BY <2>2, <3>6, Zenon DEF RunEnds, drawn, part, end
  <2> QED  BY <1>2, <2>1, <2>2
<1>11. /\ Console!PrintRun(st, string).st = t
       /\ Console!PrintRun(st, string).rest = SubSeq(string, k + 1, Len(string))
  <2>1. \A a, d : [st |-> a, rest |-> d].st = a /\ [st |-> a, rest |-> d].rest = d
    OBVIOUS
  <2> HIDE DEF k
  <2> QED  BY <1>3, <2>1, Zenon
<1> HIDE DEF k
<1> QED  BY <1>2, <1>10, <1>11

-----------------------------------------------------------------------------
(* TextScreen, which the console implements: what it makes of a screen one *)
(* character after the other.                                              *)

\* What TextScreen knows of a device: the text, the cursor, and whether glyphs are wide.
TextOf(b, ch) ==
    [cell \in Console!Grid(Console!SizeOf(b)) |-> ch[Console!At(b, cell[1], cell[2])]]
Abstract(b, c, r, w, ch) == [text |-> TextOf(b, ch), column |-> c, row |-> r, wide |-> w]

\* A cell of the text, in the middle of the screen.
LEMMA InsideFacts ==
    ASSUME NEW b, Sized(b), NEW cell \in Console!Grid(Console!SizeOf(b))
    PROVE  LET at == Console!At(b, cell[1], cell[2])
               corner == Console!At(b, 0, 0)
           IN  /\ cell[1] \in 0 .. Console!MaxColumn(b) - 1
               /\ cell[2] \in 0 .. Console!MaxRow(b) - 1
               /\ cell = <<cell[1], cell[2]>>
               /\ at \in Console!Grid(b.resolution)
               /\ at[1] = corner[1] + cell[1] /\ at[2] = corner[2] + cell[2]
               /\ corner[1] \in Nat /\ corner[2] \in Nat
<1>1. /\ cell[1] \in 0 .. Console!MaxColumn(b) - 1 /\ cell[2] \in 0 .. Console!MaxRow(b) - 1
      /\ cell = <<cell[1], cell[2]>>
  BY DEF Console!Grid, Console!MaxColumn, Console!MaxRow
<1>2. cell[1] \in Int /\ cell[2] \in Int
  BY <1>1, SizeFacts
<1>3. /\ Console!MaxColumn(b) \in Nat /\ Console!MaxRow(b) \in Nat
      /\ Console!At(b, 0, 0)[1] \in Nat /\ Console!At(b, 0, 0)[2] \in Nat
      /\ Console!At(b, 0, 0)[1] + Console!MaxColumn(b) <= b.resolution[1]
      /\ Console!At(b, 0, 0)[2] + Console!MaxRow(b) <= b.resolution[2]
      /\ Console!At(b, cell[1], cell[2]) =
           <<Console!At(b, 0, 0)[1] + cell[1], Console!At(b, 0, 0)[2] + cell[2]>>
      /\ b.resolution[1] \in Nat /\ b.resolution[2] \in Nat
  BY <1>2, PlaceFacts
<1>4. Console!At(b, cell[1], cell[2]) \in Console!Grid(b.resolution)
  BY <1>1, <1>3 DEF Console!Grid
<1> DEFINE at == Console!At(b, cell[1], cell[2])
<1>5. at[1] = Console!At(b, 0, 0)[1] + cell[1] /\ at[2] = Console!At(b, 0, 0)[2] + cell[2]
  <2>1. at = <<Console!At(b, 0, 0)[1] + cell[1], Console!At(b, 0, 0)[2] + cell[2]>>
    BY <1>3
  <2> HIDE DEF at
  <2> QED  BY <2>1
<1> QED  BY <1>1, <1>3, <1>4, <1>5, Zenon

\* Only the cells of the screen matter to the text.
LEMMA TextSame ==
    ASSUME NEW b, Sized(b), NEW ch, NEW ch2,
           \A cell \in Console!Grid(b.resolution) : ch2[cell] = ch[cell]
    PROVE  TextOf(b, ch2) = TextOf(b, ch)
<1>1. \A cell \in Console!Grid(Console!SizeOf(b)) :
        Console!At(b, cell[1], cell[2]) \in Console!Grid(b.resolution)
  BY InsideFacts
<1> QED  BY <1>1, Zenon DEF TextOf

LEMMA ScreenSame ==
    ASSUME NEW b
    PROVE  /\ Console!Screen!Cells(Console!SizeOf(b)) = Console!Grid(Console!SizeOf(b))
           /\ Console!Screen!Blank = Console!Blank
           /\ Console!MaxColumn(b) = Console!SizeOf(b)[1]
           /\ Console!MaxRow(b) = Console!SizeOf(b)[2]
  BY Zenon DEF Console!Screen!Cells, Console!Grid, Console!Screen!Blank, Console!Blank,
               Console!MaxColumn, Console!MaxRow

LEMMA AbstractFields ==
    ASSUME NEW b, NEW c, NEW r, NEW w, NEW ch
    PROVE  /\ Abstract(b, c, r, w, ch).text = TextOf(b, ch)
           /\ Abstract(b, c, r, w, ch).column = c /\ Abstract(b, c, r, w, ch).row = r
           /\ Abstract(b, c, r, w, ch).wide = w
  BY DEF Abstract

LEMMA AbstractExcept ==
    ASSUME NEW b, NEW c, NEW r, NEW w, NEW ch, NEW v
    PROVE  /\ [Abstract(b, c, r, w, ch) EXCEPT !.column = v] = Abstract(b, v, r, w, ch)
           /\ [Abstract(b, c, r, w, ch) EXCEPT !.row = v] = Abstract(b, c, v, w, ch)
           /\ [Abstract(b, c, r, w, ch) EXCEPT !.wide = v] = Abstract(b, c, r, v, ch)
           /\ [Abstract(b, c, r, w, ch) EXCEPT !.text = v] =
                [text |-> v, column |-> c, row |-> r, wide |-> w]
  BY DEF Abstract

\* The screen scrolls as the promise says.
LEMMA DownIs ==
    ASSUME NEW b, Sized(b), NEW c, NEW r \in 0 .. Console!MaxRow(b) - 1, NEW w, NEW ch
    PROVE  Console!Screen!Down(Console!SizeOf(b), Abstract(b, c, r, w, ch))
             = Abstract(b, c, NextRow(b, r), w, Fed(b, r, ch))
<1> DEFINE s == Console!SizeOf(b)
           t == Abstract(b, c, r, w, ch)
           D == Console!Grid(Console!SizeOf(b))
           below(cell) == <<cell[1], cell[2] + 1>>
           max == Console!MaxRow(b)
           fed == [cell \in D |-> IF cell[2] = max - 1 THEN Console!Blank
                                  ELSE TextOf(b, ch)[below(cell)]]
<1>1. max = s[2] /\ Console!Screen!Blank = Console!Blank /\ max \in Nat /\ max >= 1
  BY ScreenSame, SizeFacts
<1>2. t.row = r /\ t.text = TextOf(b, ch)
  BY AbstractFields
<1>3. CASE r # max - 1
  <2>1. t.row < s[2] - 1
    BY <1>1, <1>2, <1>3
  <2>2. Console!Screen!Down(s, t) = [t EXCEPT !.row = r + 1]
    BY <1>2, <2>1, Zenon DEF Console!Screen!Down
  <2>3. NextRow(b, r) = r + 1 /\ Fed(b, r, ch) = ch
    BY <1>3, Zenon DEF NextRow, Fed
  <2>4. [t EXCEPT !.row = r + 1] = Abstract(b, c, r + 1, w, ch)
    BY DEF Abstract
  <2> HIDE DEF t
  <2>5. Console!Screen!Down(s, t) = Abstract(b, c, NextRow(b, r), w, Fed(b, r, ch))
    BY <2>2, <2>3, <2>4, Zenon
  <2> QED  BY <2>5 DEF t
<1>4. CASE r = max - 1
  <2>1. ~(t.row < s[2] - 1)
    BY <1>1, <1>2, <1>4
  <2>2. DOMAIN TextOf(b, ch) = D
    BY DEF TextOf
  <2>3. Console!Screen!Down(s, t) = [t EXCEPT !.text = fed]
    BY <1>1, <1>2, <2>1, <2>2, Zenon DEF Console!Screen!Down
  <2>4. NextRow(b, r) = r
    BY <1>4 DEF NextRow
  <2>5. TextOf(b, Fed(b, r, ch)) = fed
    <3> SUFFICES ASSUME NEW cell \in D
                 PROVE  Fed(b, r, ch)[Console!At(b, cell[1], cell[2])] = fed[cell]
      BY Zenon DEF TextOf
    <3> DEFINE at == Console!At(b, cell[1], cell[2])
               corner == Console!At(b, 0, 0)
               next == <<at[1], at[2] + 1>>
    <3>1. /\ cell[1] \in 0 .. Console!MaxColumn(b) - 1 /\ cell[2] \in 0 .. max - 1
          /\ at \in Console!Grid(b.resolution)
          /\ at[1] = corner[1] + cell[1] /\ at[2] = corner[2] + cell[2]
          /\ corner[1] \in Nat /\ corner[2] \in Nat /\ cell = <<cell[1], cell[2]>>
      BY InsideFacts
    <3>2. InText(b, at) /\ at[2] - corner[2] = cell[2]
      <4> HIDE DEF at, corner
      <4>1. at[1] - corner[1] = cell[1] /\ at[2] - corner[2] = cell[2]
        BY <3>1, <1>1, SizeFacts
      <4> QED  BY <3>1, <4>1 DEF InText, corner
    <3>3. Fed(b, r, ch)[at] = IF cell[2] = max - 1 THEN Console!Blank ELSE ch[next]
      BY <1>4, <3>1, <3>2, Zenon DEF Fed
    <3>4. ASSUME cell[2] # max - 1
          PROVE  TextOf(b, ch)[below(cell)] = ch[next]
      <4>1. below(cell) \in D
        BY <1>1, <3>1, <3>4 DEF Console!Grid
      <4>2. Console!At(b, below(cell)[1], below(cell)[2]) = next
        <5>1. below(cell)[1] = cell[1] /\ below(cell)[2] = cell[2] + 1
          OBVIOUS
        <5>2. /\ Console!At(b, below(cell)[1], below(cell)[2])[1] = corner[1] + cell[1]
              /\ Console!At(b, below(cell)[1], below(cell)[2])[2] = corner[2] + (cell[2] + 1)
          BY <4>1, <5>1, InsideFacts
        <5>3. Console!At(b, below(cell)[1], below(cell)[2]) =
                <<Console!At(b, below(cell)[1], below(cell)[2])[1],
                  Console!At(b, below(cell)[1], below(cell)[2])[2]>>
          BY <4>1, InsideFacts DEF Console!Grid
        <5>4. corner[2] + (cell[2] + 1) = at[2] + 1
          <6> HIDE DEF at, corner
          <6> QED  BY <3>1, <1>1
        <5> HIDE DEF at, corner, below
        <5> QED  BY <3>1, <5>2, <5>3, <5>4
      <4> QED  BY <4>1, <4>2, Zenon DEF TextOf
    <3> HIDE DEF below, next, at
    <3> QED  BY <3>3, <3>4 DEF at
  <2> HIDE DEF fed
  <2>6. [t EXCEPT !.text = fed] = [text |-> fed, column |-> c, row |-> r, wide |-> w]
    BY AbstractExcept
  <2> HIDE DEF t
  <2>7. [t EXCEPT !.text = fed] = Abstract(b, c, r, w, Fed(b, r, ch))
    BY <2>5, <2>6, Zenon DEF Abstract
  <2>8. Console!Screen!Down(s, t) = Abstract(b, c, NextRow(b, r), w, Fed(b, r, ch))
    BY <2>3, <2>4, <2>7, Zenon
  <2> QED  BY <2>8 DEF t
<1> QED  BY <1>3, <1>4

\* New contents of distinct cells.
IsWith(t, cells, contents, new) ==
    /\ Console!Screen!With(t, cells, contents) = [t EXCEPT !.text = new]
    /\ new = [k \in DOMAIN t.text |-> new[k]]
    /\ \A k \in DOMAIN t.text :
         /\ \A i \in DOMAIN cells : cells[i] = k => new[k] = contents[i]
         /\ (\A i \in DOMAIN cells : cells[i] # k) => new[k] = t.text[k]

\* Cells that get new contents.
LEMMA WithIs ==
    ASSUME NEW t, NEW cells, NEW contents,
           \A i, j \in DOMAIN cells : cells[i] = cells[j] => i = j
    PROVE  \E new : IsWith(t, cells, contents, new)
<1> DEFINE new == [k \in DOMAIN t.text |->
                     IF \E i \in DOMAIN cells : cells[i] = k
                     THEN contents[CHOOSE i \in DOMAIN cells : cells[i] = k] ELSE t.text[k]]
<1>1. Console!Screen!With(t, cells, contents) = [t EXCEPT !.text = new]
  BY Zenon DEF Console!Screen!With
<1>2. new = [k \in DOMAIN t.text |-> new[k]]
  BY Zenon
<1>3. ASSUME NEW k \in DOMAIN t.text
      PROVE  /\ \A i \in DOMAIN cells : cells[i] = k => new[k] = contents[i]
             /\ (\A i \in DOMAIN cells : cells[i] # k) => new[k] = t.text[k]
  BY Zenon
<1> HIDE DEF new
<1> QED  BY <1>1, <1>2, <1>3, Zenon DEF IsWith

LEMMA TextIs ==
    ASSUME NEW b, NEW c, NEW r, NEW w, NEW ch, NEW ch2, NEW new,
           new = [k \in Console!Grid(Console!SizeOf(b)) |-> new[k]],
           \A k \in Console!Grid(Console!SizeOf(b)) :
              new[k] = ch2[Console!At(b, k[1], k[2])]
    PROVE  [Abstract(b, c, r, w, ch) EXCEPT !.text = new] = Abstract(b, c, r, w, ch2)
<1>1. new = TextOf(b, ch2)
  BY Zenon DEF TextOf
<1>2. [Abstract(b, c, r, w, ch) EXCEPT !.text = new] =
        [text |-> new, column |-> c, row |-> r, wide |-> w]
  BY AbstractExcept
<1> QED  BY <1>1, <1>2, Zenon DEF Abstract

LEMMA AtIs ==
    ASSUME NEW b, Sized(b), NEW cell \in Console!Grid(Console!SizeOf(b)),
           NEW c \in Int, NEW r \in Int
    PROVE  LET at == Console!At(b, cell[1], cell[2])
           IN  /\ at[1] - Console!At(b, c, r)[1] = cell[1] - c
               /\ at[2] - Console!At(b, c, r)[2] = cell[2] - r
               /\ at[2] = Console!At(b, c, r)[2] <=> cell[2] = r
               /\ at = Console!At(b, c, r) <=> cell = <<c, r>>
<1> DEFINE at == Console!At(b, cell[1], cell[2])
           other == Console!At(b, c, r)
           corner == Console!At(b, 0, 0)
<1>1. /\ cell[1] \in Int /\ cell[2] \in Int /\ cell = <<cell[1], cell[2]>>
      /\ at[1] = corner[1] + cell[1] /\ at[2] = corner[2] + cell[2]
      /\ corner[1] \in Nat /\ corner[2] \in Nat
  BY InsideFacts, SizeFacts
<1>2. at = <<corner[1] + cell[1], corner[2] + cell[2]>>
      /\ other = <<corner[1] + c, corner[2] + r>>
  BY <1>1, PlaceFacts
<1>3. other[1] = corner[1] + c /\ other[2] = corner[2] + r
  <2> HIDE DEF other, corner
  <2> QED  BY <1>2
<1> HIDE DEF at, other, corner
<1>4. at = other <=> cell[1] = c /\ cell[2] = r
  BY <1>1, <1>2
<1>5. cell = <<c, r>> <=> cell[1] = c /\ cell[2] = r
  BY <1>1
<1>6. at[1] - other[1] = cell[1] - c /\ at[2] - other[2] = cell[2] - r
      /\ (at[2] = other[2] <=> cell[2] = r)
  BY <1>1, <1>3
<1> QED  BY <1>4, <1>5, <1>6 DEF at, other

\* A cell is wiped, and the cursor goes there.
LEMMA EraseIs ==
    ASSUME NEW b, Sized(b), NEW c0, NEW r0, NEW w, NEW ch, NEW c \in Int, NEW r \in Int
    PROVE  Console!Screen!Erase(Abstract(b, c0, r0, w, ch), c, r)
             = Abstract(b, c, r, w, Wiped(b, c, r, ch))
<1> DEFINE t == Abstract(b, c0, r0, w, ch)
           u == Abstract(b, c, r, w, ch)
           D == Console!Grid(Console!SizeOf(b))
           cells == <<<<c, r>>>>
           contents == <<Console!Screen!Blank>>
<1>1. [t EXCEPT !.column = c, !.row = r] = u
  <2> DEFINE t1 == Abstract(b, c, r0, w, ch)
  <2>1. DOMAIN t = {"text", "column", "row", "wide"}
    BY DEF Abstract
  <2>2. [t EXCEPT !.column = c] = t1 /\ [t1 EXCEPT !.row = r] = u
    BY DEF Abstract
  <2> HIDE DEF t, t1, u
  <2>3. [t EXCEPT !.column = c, !.row = r] = [[t EXCEPT !.column = c] EXCEPT !.row = r]
    BY <2>1
  <2> QED  BY <2>2, <2>3
<1>2. u.text = TextOf(b, ch) /\ DOMAIN u.text = D
  BY AbstractFields DEF TextOf
<1>3. \A a : DOMAIN <<a>> = {1} /\ <<a>>[1] = a
  OBVIOUS
<1>4. Console!Screen!Erase(t, c, r) = Console!Screen!With(u, cells, contents)
  <2> HIDE DEF t, u
  <2> QED  BY <1>1, Zenon DEF Console!Screen!Erase
<1>5. /\ DOMAIN cells = {1} /\ cells[1] = <<c, r>> /\ contents[1] = Console!Blank
  BY <1>3, ScreenSame, Zenon
<1> HIDE DEF t, u, cells, contents
<1>6. \A i, j \in DOMAIN cells : cells[i] = cells[j] => i = j
  BY <1>5
<1>7. PICK new : IsWith(u, cells, contents, new)
  BY <1>6, WithIs
<1>8. /\ Console!Screen!With(u, cells, contents) = [u EXCEPT !.text = new]
      /\ new = [k \in D |-> new[k]]
      /\ \A k \in D :
           /\ \A i \in DOMAIN cells : cells[i] = k => new[k] = contents[i]
           /\ (\A i \in DOMAIN cells : cells[i] # k) => new[k] = u.text[k]
  BY <1>2, <1>7, Zenon DEF IsWith
<1>9. ASSUME NEW k \in D PROVE new[k] = Wiped(b, c, r, ch)[Console!At(b, k[1], k[2])]
  <2>1. new[k] = IF k = <<c, r>> THEN Console!Blank ELSE TextOf(b, ch)[k]
    <3>1. 1 \in DOMAIN cells /\ \A i \in DOMAIN cells : i = 1
      BY <1>5
    <3>2. cells[1] = k => new[k] = contents[1]
      BY <1>8, <3>1, Zenon
    <3>3. cells[1] # k => new[k] = u.text[k]
      BY <1>8, <3>1, Zenon
    <3> QED  BY <1>2, <1>5, <3>2, <3>3, Zenon
  <2>2. /\ Console!At(b, k[1], k[2]) \in Console!Grid(b.resolution)
        /\ Console!At(b, k[1], k[2]) = Console!At(b, c, r) <=> k = <<c, r>>
    BY InsideFacts, AtIs
  <2> QED  BY <2>1, <2>2, Zenon DEF Wiped, TextOf
<1>10. [u EXCEPT !.text = new] = Abstract(b, c, r, w, Wiped(b, c, r, ch))
  BY <1>8, <1>9, TextIs DEF u
<1> QED  BY <1>4, <1>8, <1>10, Zenon DEF t

\* One glyph: the cells that it covers, and where the cursor is then.
Landed(b, c, r, w, ch) ==
    IF c = Console!MaxColumn(b) THEN Abstract(b, 0, NextRow(b, r), w, Fed(b, r, ch))
    ELSE Abstract(b, c, r, w, ch)

LEMMA HalvesFacts ==
    ASSUME NEW g, NEW w \in BOOLEAN
    PROVE  LET halves == Console!Screen!Halves(g, w)
           IN  /\ Len(halves) = WidthOf(w) /\ DOMAIN halves = 1 .. WidthOf(w)
               /\ WidthOf(w) \in 1 .. 2
               /\ Console!CellsOf(<<g>>, w) = WidthOf(w)
               /\ \A i \in 1 .. WidthOf(w) : Console!Part(<<g>>, i - 1, w) = halves[i]
<1>1. CASE w = TRUE
  BY <1>1 DEF Console!Screen!Halves, WidthOf, Console!CellsOf, Console!Part
<1>2. CASE w = FALSE
  BY <1>2 DEF Console!Screen!Halves, WidthOf, Console!CellsOf, Console!Part
<1> QED  BY <1>1, <1>2

\* TextScreen goes to the start of the next line.
LEMMA NewLineIs ==
    ASSUME NEW b, Sized(b), NEW c, NEW r \in 0 .. Console!MaxRow(b) - 1, NEW w, NEW ch
    PROVE  Console!Screen!NewLine(Console!SizeOf(b), Abstract(b, c, r, w, ch))
             = Abstract(b, 0, NextRow(b, r), w, Fed(b, r, ch))
<1> DEFINE t == Abstract(b, c, r, w, ch)
           u == Abstract(b, c, NextRow(b, r), w, Fed(b, r, ch))
<1>1. Console!Screen!Down(Console!SizeOf(b), t) = u
  BY DownIs
<1>2. [u EXCEPT !.column = 0] = Abstract(b, 0, NextRow(b, r), w, Fed(b, r, ch))
  BY DEF Abstract
<1> HIDE DEF t, u
<1>3. Console!Screen!NewLine(Console!SizeOf(b), t) =
        Abstract(b, 0, NextRow(b, r), w, Fed(b, r, ch))
  BY <1>1, <1>2, Zenon DEF Console!Screen!NewLine
<1> QED  BY <1>3 DEF t

\* A glyph in TextScreen, for which there is room.
LEMMA PutIs ==
    ASSUME NEW b, Sized(b), NEW w \in BOOLEAN, NEW ch, NEW g,
           NEW c \in Nat, NEW r \in 0 .. Console!MaxRow(b) - 1,
           c + WidthOf(w) <= Console!MaxColumn(b)
    PROVE  Console!Screen!Put(Console!SizeOf(b), Abstract(b, c, r, w, ch), g)
             = Landed(b, c + WidthOf(w), r, w, Drawn(b, c, r, w, <<g>>, ch))
<1> DEFINE s == Console!SizeOf(b)
           t == Abstract(b, c, r, w, ch)
           n == WidthOf(w)
           D == Console!Grid(s)
           halves == Console!Screen!Halves(g, w)
           cells == [i \in DOMAIN halves |-> <<t.column + i - 1, t.row>>]
           u == Console!Screen!With(t, cells, halves)
           v == [u EXCEPT !.column = u.column + Len(halves)]
           drawn == Drawn(b, c, r, w, <<g>>, ch)
           end == c + n
<1>1. /\ t.text = TextOf(b, ch) /\ t.column = c /\ t.row = r /\ t.wide = w
      /\ DOMAIN t.text = D
  BY AbstractFields DEF TextOf
<1>2. /\ Len(halves) = n /\ DOMAIN halves = 1 .. n /\ n \in 1 .. 2
      /\ Console!CellsOf(<<g>>, w) = n
      /\ \A i \in 1 .. n : Console!Part(<<g>>, i - 1, w) = halves[i]
  BY HalvesFacts
<1>3. s[1] = Console!MaxColumn(b) /\ Console!MaxColumn(b) \in Nat /\ Console!MaxRow(b) \in Nat
      /\ r \in Nat
  BY ScreenSame, SizeFacts
<1>4. t.column + Len(halves) <= s[1]
  BY <1>1, <1>2, <1>3
<1>5. Console!Screen!Put(s, t, g) = IF v.column = s[1] THEN Console!Screen!NewLine(s, v) ELSE v
  BY <1>1, <1>4, Zenon DEF Console!Screen!Put
<1> HIDE DEF t, n, halves
<1>6. cells = [i \in 1 .. n |-> <<c + i - 1, r>>]
  BY <1>1, <1>2, Zenon
<1>7. /\ DOMAIN cells = 1 .. n
      /\ \A i \in 1 .. n : cells[i] = <<c + i - 1, r>>
      /\ \A i, j \in DOMAIN cells : cells[i] = cells[j] => i = j
  <2> HIDE DEF cells
  <2> QED  BY <1>2, <1>6
<1> HIDE DEF cells, drawn, end, D
<1>8. PICK new : IsWith(t, cells, halves, new)
  BY <1>7, WithIs
<1>9. /\ u = [t EXCEPT !.text = new]
      /\ new = [k \in D |-> new[k]]
      /\ \A k \in D :
           /\ \A i \in DOMAIN cells : cells[i] = k => new[k] = halves[i]
           /\ (\A i \in DOMAIN cells : cells[i] # k) => new[k] = t.text[k]
  BY <1>1, <1>8, Zenon DEF IsWith
<1>10. ASSUME NEW cell \in D
      PROVE  new[cell] = drawn[Console!At(b, cell[1], cell[2])]
  <2> DEFINE at == Console!At(b, cell[1], cell[2])
             e == cell[1] - c
  <2>1. /\ \A i \in 1 .. n : cells[i] = cell => new[cell] = halves[i]
        /\ (\A i \in 1 .. n : cells[i] # cell) => new[cell] = t.text[cell]
    BY <1>7, <1>9, Zenon
  <2>2. cell[1] \in Int /\ cell[2] \in Int /\ cell = <<cell[1], cell[2]>>
        /\ at \in Console!Grid(b.resolution)
    BY InsideFacts, <1>3 DEF D
  <2>3. c \in Int /\ r \in Int
    BY <1>3
  <2>4. at[1] - Console!At(b, c, r)[1] = e /\ (at[2] = Console!At(b, c, r)[2] <=> cell[2] = r)
    BY <2>3, AtIs DEF D
  <2>5. drawn[at] = IF cell[2] = r /\ e \in 0 .. n - 1 THEN Console!Part(<<g>>, e, w)
                    ELSE ch[at]
    <3>1. drawn[at] = IF Covered(b, c, r, n, at)
                      THEN Console!Part(<<g>>, at[1] - Console!At(b, c, r)[1], w) ELSE ch[at]
      BY <1>2, <2>2, Zenon DEF Drawn, drawn
    <3>2. Covered(b, c, r, n, at) <=> cell[2] = r /\ e \in 0 .. n - 1
      BY <2>4, Zenon DEF Covered
    <3> QED  BY <2>4, <3>1, <3>2, Zenon
  <2>6. CASE cell[2] = r /\ e \in 0 .. n - 1
    <3>1. e + 1 \in 1 .. n
      <4> HIDE DEF e
      <4> QED  BY <1>2, <2>6
    <3>2. c + (e + 1) - 1 = cell[1] /\ (e + 1) - 1 = e
      BY <2>2, <2>3
    <3> HIDE DEF e, at
    <3>3. cells[e + 1] = cell
      BY <1>7, <2>2, <2>6, <3>1, <3>2
    <3>4. new[cell] = halves[e + 1] /\ Console!Part(<<g>>, (e + 1) - 1, w) = halves[e + 1]
      BY <1>2, <2>1, <3>1, <3>3, Zenon
    <3>5. new[cell] = drawn[at]
      BY <2>5, <2>6, <3>2, <3>4
    <3> QED  BY <3>5 DEF at
  <2>7. CASE ~(cell[2] = r /\ e \in 0 .. n - 1)
    <3>1. \A i \in 1 .. n : cells[i] # cell
      <4> SUFFICES ASSUME NEW i \in 1 .. n, cells[i] = cell PROVE FALSE
        OBVIOUS
      <4>1. cell = <<c + i - 1, r>>
        BY <1>7
      <4>2. cell[1] = c + i - 1 /\ cell[2] = r
        BY <4>1
      <4> QED  BY <1>2, <2>7, <4>2
    <3>2. t.text[cell] = ch[at]
      BY <1>1, Zenon DEF TextOf
    <3> HIDE DEF e, at
    <3>3. new[cell] = drawn[at]
      BY <2>1, <2>5, <2>7, <3>1, <3>2, Zenon
    <3> QED  BY <3>3 DEF at
  <2> QED  BY <2>6, <2>7
<1> HIDE DEF u
<1>11. u = Abstract(b, c, r, w, drawn)
  BY <1>9, <1>10, TextIs DEF t, D
<1>12. u.column + Len(halves) = end
  BY <1>2, <1>11, AbstractFields DEF end
<1>13. v = Abstract(b, end, r, w, drawn)
  <2>1. v = [u EXCEPT !.column = end]
    BY <1>12, Zenon
  <2> HIDE DEF v
  <2>2. [u EXCEPT !.column = end] = Abstract(b, end, r, w, drawn)
    BY <1>11 DEF Abstract
  <2> QED  BY <2>1, <2>2, Zenon
<1> HIDE DEF v
<1>14. v.column = end
  BY <1>13, AbstractFields
<1>15. Console!Screen!NewLine(s, v) = Abstract(b, 0, NextRow(b, r), w, Fed(b, r, drawn))
  BY <1>13, NewLineIs
<1>16. Console!Screen!Put(s, t, g) = Landed(b, end, r, w, drawn)
  BY <1>3, <1>5, <1>13, <1>14, <1>15, Zenon DEF Landed
<1> QED  BY <1>16 DEF t, n, drawn, end

\* Which glyph, and which half of it, is drawn in the cells of a run.
LEMMA PartFacts ==
    ASSUME NEW S, NEW string \in Seq(S), NEW w \in BOOLEAN, NEW i \in Nat, i < Len(string),
           NEW e \in Int
    PROVE  LET n == WidthOf(w)
               before == SubSeq(string, 1, i)
               after == SubSeq(string, 1, i + 1)
           IN  /\ Console!CellsOf(before, w) = i * n /\ Console!CellsOf(after, w) = (i + 1) * n
               /\ e \in 0 .. i * n - 1 => Console!Part(after, e, w) = Console!Part(before, e, w)
               /\ e - i * n \in 0 .. n - 1 =>
                    Console!Part(after, e, w) = Console!Part(<<string[i + 1]>>, e - i * n, w)
<1> DEFINE n == WidthOf(w)
           before == SubSeq(string, 1, i)
           after == SubSeq(string, 1, i + 1)
           one == <<string[i + 1]>>
<1>1. /\ Len(before) = i /\ Len(after) = i + 1 /\ one[1] = string[i + 1]
      /\ \A j \in 1 .. i : before[j] = string[j]
      /\ \A j \in 1 .. i + 1 : after[j] = string[j]
  OBVIOUS
<1> HIDE DEF before, after, one
<1>2. CASE w = TRUE
  <2>1. n = 2
    BY <1>2 DEF WidthOf
  <2>2. \A g, k : Console!Part(g, k, w) = <<g[k \div 2 + 1], (k % 2) + 1>>
    BY <1>2, Zenon DEF Console!Part
  <2>3. Console!CellsOf(before, w) = i * n /\ Console!CellsOf(after, w) = (i + 1) * n
    BY <1>1, <1>2, <2>1 DEF Console!CellsOf
  <2>4. ASSUME e \in 0 .. i * n - 1 PROVE Console!Part(after, e, w) = Console!Part(before, e, w)
    <3>1. e \div 2 + 1 \in 1 .. i /\ e \div 2 + 1 \in 1 .. i + 1
      BY <2>1, <2>4
    <3>2. after[e \div 2 + 1] = before[e \div 2 + 1]
      BY <1>1, <3>1
    <3> QED  BY <2>2, <3>2, Zenon
  <2>5. ASSUME e - i * n \in 0 .. n - 1
        PROVE  Console!Part(after, e, w) = Console!Part(one, e - i * n, w)
    <3> DEFINE d == e - i * n
    <3>1. (d = 0 /\ e = 2 * i) \/ (d = 1 /\ e = 2 * i + 1)
      BY <2>1, <2>5
    <3> HIDE DEF d
    <3>2. e \div 2 + 1 = i + 1 /\ d \div 2 + 1 = 1 /\ e % 2 = d % 2
      BY <3>1
    <3>3. after[i + 1] = one[1]
      BY <1>1
    <3>4. Console!Part(after, e, w) = Console!Part(one, d, w)
      BY <2>2, <3>2, <3>3, Zenon
    <3> QED  BY <3>4 DEF d
  <2> QED  BY <2>3, <2>4, <2>5 DEF n, before, after, one
<1>3. CASE w = FALSE
  <2>1. n = 1
    BY <1>3 DEF WidthOf
  <2>2. \A g, k : Console!Part(g, k, w) = <<g[k + 1], 0>>
    BY <1>3, Zenon DEF Console!Part
  <2>3. Console!CellsOf(before, w) = i * n /\ Console!CellsOf(after, w) = (i + 1) * n
    BY <1>1, <1>3, <2>1 DEF Console!CellsOf
  <2>4. ASSUME e \in 0 .. i * n - 1 PROVE Console!Part(after, e, w) = Console!Part(before, e, w)
    <3>1. e + 1 \in 1 .. i /\ e + 1 \in 1 .. i + 1
      BY <2>1, <2>4
    <3>2. after[e + 1] = before[e + 1]
      BY <1>1, <3>1
    <3> QED  BY <2>2, <3>2, Zenon
  <2>5. ASSUME e - i * n \in 0 .. n - 1
        PROVE  Console!Part(after, e, w) = Console!Part(one, e - i * n, w)
    <3> DEFINE d == e - i * n
    <3>1. d = 0 /\ e = i
      BY <2>1, <2>5
    <3> HIDE DEF d
    <3>2. e + 1 = i + 1 /\ d + 1 = 1
      BY <3>1
    <3>3. after[i + 1] = one[1]
      BY <1>1
    <3>4. Console!Part(after, e, w) = Console!Part(one, d, w)
      BY <2>2, <3>2, <3>3, Zenon
    <3> QED  BY <3>4 DEF d
  <2> QED  BY <2>3, <2>4, <2>5 DEF n, before, after, one
<1> QED  BY <1>2, <1>3

\* Runs that differ by the last glyph differ in its cells.
LEMMA DrawnAppendCell ==
    ASSUME NEW b, Sized(b), NEW S, NEW string \in Seq(S), NEW w \in BOOLEAN, NEW ch,
           NEW i \in Nat, i < Len(string), NEW c \in Nat, NEW r \in Int,
           NEW cell \in Console!Grid(b.resolution)
    PROVE  Drawn(b, c + i * WidthOf(w), r, w, <<string[i + 1]>>,
                 Drawn(b, c, r, w, SubSeq(string, 1, i), ch))[cell]
             = Drawn(b, c, r, w, SubSeq(string, 1, i + 1), ch)[cell]
<1> DEFINE n == WidthOf(w)
           c2 == c + i * n
           before == SubSeq(string, 1, i)
           after == SubSeq(string, 1, i + 1)
           one == <<string[i + 1]>>
           at == Console!At(b, c, r)
           at2 == Console!At(b, c2, r)
           e == cell[1] - at[1]
           d == cell[1] - at2[1]
           old == Drawn(b, c, r, w, before, ch)
           new == Drawn(b, c2, r, w, one, old)
           all == Drawn(b, c, r, w, after, ch)
<1>1. n \in 1 .. 2 /\ Console!CellsOf(one, w) = n
  BY HalvesFacts
<1>2. c2 \in Int /\ c \in Int /\ i * n \in Nat
  BY <1>1
<1>3. /\ cell[1] \in Int /\ at[1] \in Int /\ at2[1] = at[1] + i * n /\ at2[2] = at[2]
  <2> DEFINE corner == Console!At(b, 0, 0)
  <2>1. /\ corner[1] \in Nat /\ corner[2] \in Nat
        /\ at = <<corner[1] + c, corner[2] + r>> /\ at2 = <<corner[1] + c2, corner[2] + r>>
        /\ b.resolution[1] \in Nat
    BY <1>2, PlaceFacts
  <2>2. cell[1] \in Int
    BY <2>1 DEF Console!Grid
  <2> HIDE DEF corner, at, at2, n
  <2>3. at[1] = corner[1] + c /\ at2[1] = corner[1] + c2 /\ at2[2] = at[2]
    BY <2>1
  <2> QED  BY <1>2, <2>1, <2>2, <2>3
<1>4. e \in Int /\ d = e - i * n
  <2> HIDE DEF at, at2, n
  <2> QED  BY <1>2, <1>3
<1>5. /\ Console!CellsOf(before, w) = i * n /\ Console!CellsOf(after, w) = (i + 1) * n
      /\ e \in 0 .. i * n - 1 => Console!Part(after, e, w) = Console!Part(before, e, w)
      /\ e - i * n \in 0 .. n - 1 =>
           Console!Part(after, e, w) = Console!Part(one, e - i * n, w)
  <2> HIDE DEF e
  <2> QED  BY <1>4, PartFacts
<1> HIDE DEF n, c2, before, after, one, at, at2, e, d
<1>6. old[cell] = IF cell[2] = at[2] /\ e \in 0 .. i * n - 1
                  THEN Console!Part(before, e, w) ELSE ch[cell]
  BY <1>5, Zenon DEF Drawn, Covered, at, e
<1>7. all[cell] = IF cell[2] = at[2] /\ e \in 0 .. (i + 1) * n - 1
                  THEN Console!Part(after, e, w) ELSE ch[cell]
  BY <1>5, Zenon DEF Drawn, Covered, at, e
<1> HIDE DEF old
<1>8. new[cell] = IF cell[2] = at2[2] /\ d \in 0 .. n - 1
                  THEN Console!Part(one, d, w) ELSE old[cell]
  BY <1>1, Zenon DEF Drawn, Covered, at2, d
<1> HIDE DEF new, all
<1>9. e \in 0 .. (i + 1) * n - 1 <=> e \in 0 .. i * n - 1 \/ e - i * n \in 0 .. n - 1
  <2>1. n = 1 \/ n = 2
    BY <1>1
  <2> QED  BY <1>4, <2>1
<1>10. ~(e \in 0 .. i * n - 1 /\ e - i * n \in 0 .. n - 1)
  BY <1>1, <1>2, <1>4
<1>11. new[cell] = all[cell]
  BY <1>3, <1>4, <1>5, <1>6, <1>7, <1>8, <1>9, <1>10, Zenon
<1> QED  BY <1>11 DEF new, all, old, c2, n, one, before, after

\* A glyph drawn after others is one more of them.
LEMMA DrawnAppend ==
    ASSUME NEW b, Sized(b), NEW S, NEW string \in Seq(S), NEW w \in BOOLEAN, NEW ch,
           NEW i \in Nat, i < Len(string), NEW c \in Nat, NEW r \in Int
    PROVE  Drawn(b, c + i * WidthOf(w), r, w, <<string[i + 1]>>,
                 Drawn(b, c, r, w, SubSeq(string, 1, i), ch))
             = Drawn(b, c, r, w, SubSeq(string, 1, i + 1), ch)
<1> DEFINE G == Console!Grid(b.resolution)
           new == Drawn(b, c + i * WidthOf(w), r, w, <<string[i + 1]>>,
                        Drawn(b, c, r, w, SubSeq(string, 1, i), ch))
           all == Drawn(b, c, r, w, SubSeq(string, 1, i + 1), ch)
<1>1. \A cell \in G : new[cell] = all[cell]
  BY DrawnAppendCell
<1>2. new = [cell \in G |-> new[cell]] /\ all = [cell \in G |-> all[cell]]
  BY Zenon DEF Drawn
<1> HIDE DEF new, all
<1>3. new = all
  BY <1>1, <1>2, Zenon
<1> QED  BY <1>3 DEF new, all

\* A run of glyphs, one after the other.
LEMMA RunShows ==
    ASSUME NEW b, Sized(b), NEW S, NEW string \in Seq(S), NEW w \in BOOLEAN, NEW ch,
           NEW c \in Nat, NEW r \in 0 .. Console!MaxRow(b) - 1, NEW k \in 1 .. Len(string),
           c + k * WidthOf(w) <= Console!MaxColumn(b), NEW h,
           h[1] = Console!Screen!Put(Console!SizeOf(b), Abstract(b, c, r, w, ch), string[1]),
           \A i \in 2 .. k :
              h[i] = Console!Screen!Put(Console!SizeOf(b), h[i - 1], string[i])
    PROVE  h[k] = Landed(b, c + k * WidthOf(w), r, w,
                         Drawn(b, c, r, w, SubSeq(string, 1, k), ch))
<1> DEFINE n == WidthOf(w)
           max == Console!MaxColumn(b)
           drawn(i) == Drawn(b, c, r, w, SubSeq(string, 1, i), ch)
           shown(i) == Landed(b, c + i * n, r, w, drawn(i))
           T == {i \in 0 .. k : i >= 1 => h[i] = shown(i)}
<1>1. n \in 1 .. 2 /\ max \in Nat /\ r \in Int /\ Len(string) \in Nat /\ k <= Len(string)
  BY SizeFacts DEF WidthOf
<1>2. 0 \in T
  <2>1. ~(0 >= 1) /\ 0 \in 0 .. k
    OBVIOUS
  <2> QED  BY <2>1, Zenon
<1>3. ASSUME NEW i \in 1 .. k, i - 1 \in T PROVE i \in T
  <2>1. i \in 0 .. k /\ i \in Nat /\ i - 1 \in Nat /\ i - 1 + 1 = i /\ i - 1 < Len(string)
    BY <1>1
  <2>2. c + i * n <= max /\ c + (i - 1) * n \in Nat /\ c + (i - 1) * n + n = c + i * n
        /\ c + (i - 1) * n # max
    <3>1. n = 1 \/ n = 2
      BY DEF WidthOf
    <3> HIDE DEF n, max
    <3>2. c + k * n <= max
      BY DEF n, max
    <3>3. i <= k
      OBVIOUS
    <3> QED  BY <1>1, <3>1, <3>2, <3>3
  <2>3. CASE i = 1
    <3>1. SubSeq(string, 1, 1) = <<string[1]>>
      <4> DEFINE u == SubSeq(string, 1, 1)
      <4>1. u \in Seq(S) /\ Len(u) = 1 /\ u[1] = string[1]
        BY <1>1
      <4> HIDE DEF u
      <4>2. u = <<string[1]>>
        BY <4>1
      <4> QED  BY <4>2 DEF u
    <3>2. c + n <= max /\ c + 1 * n = c + n
      BY <1>1, <2>2, <2>3
    <3>3. h[1] = Landed(b, c + n, r, w, Drawn(b, c, r, w, <<string[1]>>, ch))
      BY <3>2, PutIs
    <3> HIDE DEF n
    <3>4. h[1] = shown(1)
      BY <3>1, <3>2, <3>3, Zenon
    <3> QED  BY <2>1, <2>3, <3>4
  <2>4. CASE i # 1
    <3>1. i - 1 >= 1 /\ i \in 2 .. k
      BY <2>4
    <3> DEFINE c1 == c + (i - 1) * n
               before == drawn(i - 1)
    <3>2. h[i - 1] = Landed(b, c1, r, w, before)
      BY <1>3, <3>1
    <3>3. h[i - 1] = Abstract(b, c1, r, w, before)
      BY <2>2, <3>2, Zenon DEF Landed
    <3>4. h[i] = Console!Screen!Put(Console!SizeOf(b), h[i - 1], string[i])
      BY <3>1
    <3>5. Drawn(b, c1, r, w, <<string[i]>>, before) = drawn(i)
      <4>1. Drawn(b, c + (i - 1) * WidthOf(w), r, w, <<string[i - 1 + 1]>>,
                 Drawn(b, c, r, w, SubSeq(string, 1, i - 1), ch))
              = Drawn(b, c, r, w, SubSeq(string, 1, i - 1 + 1), ch)
        BY <1>1, <2>1, DrawnAppend
      <4> QED  BY <2>1, <4>1
    <3> HIDE DEF before, n
    <3>6. Console!Screen!Put(Console!SizeOf(b), Abstract(b, c1, r, w, before), string[i]) =
            Landed(b, c1 + n, r, w, Drawn(b, c1, r, w, <<string[i]>>, before))
      <4>1. c1 \in Nat /\ c1 + n <= max
        BY <2>2
      <4> HIDE DEF c1
      <4> QED  BY <4>1, PutIs DEF n
    <3>7. h[i] = shown(i)
      <4>1. c1 + n = c + i * n
        BY <2>2
      <4> HIDE DEF c1
      <4> QED  BY <3>3, <3>4, <3>5, <3>6, <4>1
    <3> QED  BY <2>1, <3>7
  <2> QED  BY <2>3, <2>4
<1>4. k \in T
  <2>1. k \in Nat /\ k \in 0 .. k
    OBVIOUS
  <2> HIDE DEF T
  <2> QED  BY <1>2, <1>3, <2>1, UpToInduction
<1> QED  BY <1>4

-----------------------------------------------------------------------------
(* The loop of OutputString: where it is at the start of a turn, with rest *)
(* still to print.  The cursor is off the screen, or at the start of a     *)
(* line where a glyph is about to cover it.                                *)

Printing(st, rest, b, c, r, w, ch, x) ==
    /\ c \in 0 .. Console!MaxColumn(b) - 1 /\ r \in 0 .. Console!MaxRow(b) - 1
    /\ w \in BOOLEAN /\ DeviceIs(st, b, c, r, w, ch, x)
    /\ \/ x = Off(b)
       \/ x = On(b, c, r) /\ c = 0 /\ rest # << >> /\ Head(rest) \notin Console!Controls

\* What is left of a string.
LEMMA RestIs ==
    ASSUME NEW S, NEW s \in Seq(S), NEW k \in 0 .. Len(s)
    PROVE  LET t == SubSeq(s, k + 1, Len(s))
           IN  /\ t \in Seq(S) /\ Len(t) = Len(s) - k
               /\ \A i \in 1 .. Len(t) : t[i] = s[k + i]
               /\ t = << >> <=> k = Len(s)
               /\ k < Len(s) => Head(t) = s[k + 1]
<1> DEFINE t == SubSeq(s, k + 1, Len(s))
<1>1. t \in Seq(S) /\ Len(t) = Len(s) - k /\ \A i \in 1 .. Len(t) : t[i] = s[k + i]
  OBVIOUS
<1> HIDE DEF t
<1>2. t = << >> <=> k = Len(s)
  BY <1>1
<1>3. k < Len(s) => Head(t) = s[k + 1]
  BY <1>1
<1> QED  BY <1>1, <1>2, <1>3 DEF t

LEMMA TailIs ==
    ASSUME NEW S, NEW s \in Seq(S), s # << >>
    PROVE  Tail(s) = SubSeq(s, 2, Len(s)) /\ 1 \in 0 .. Len(s) /\ Head(s) = s[1]
  OBVIOUS

LEMMA NextRowIs ==
    ASSUME NEW b, Sized(b), NEW r \in 0 .. Console!MaxRow(b) - 1
    PROVE  NextRow(b, r) \in 0 .. Console!MaxRow(b) - 1
  BY SizeFacts DEF NextRow

\* A turn at a control character.
LEMMA ControlShows ==
    ASSUME NEW b, Sized(b), NEW e \in Console!Controls, NEW w \in BOOLEAN, NEW ch,
           NEW c \in 0 .. Console!MaxColumn(b) - 1, NEW r \in 0 .. Console!MaxRow(b) - 1
    PROVE  LET t == Abstract(b, c, r, w, ch)
               shown == Console!Screen!Character(Console!SizeOf(b), t, e)
               c2 == IF c > 0 THEN c - 1 ELSE Console!MaxColumn(b) - 1
               r2 == IF c > 0 THEN r ELSE r - 1
           IN  /\ e = "BS" => shown = IF c = 0 /\ r = 0 THEN t
                                      ELSE Abstract(b, c2, r2, w, Wiped(b, c2, r2, ch))
               /\ e = "LF" => shown = Abstract(b, c, NextRow(b, r), w, Fed(b, r, ch))
               /\ e = "CR" => shown = Abstract(b, 0, r, w, ch)
               /\ e \in {"WIDE", "NARROW"} => shown = Abstract(b, c, r, (e = "WIDE"), ch)
<1> DEFINE s == Console!SizeOf(b)
           t == Abstract(b, c, r, w, ch)
           max == Console!MaxColumn(b)
           back == IF t.column > 0 THEN Console!Screen!Erase(t, t.column - 1, t.row)
                   ELSE IF t.row > 0 THEN Console!Screen!Erase(t, s[1] - 1, t.row - 1) ELSE t
           down == Console!Screen!Down(s, t)
           home == [t EXCEPT !.column = 0]
           wide == (e = "WIDE")
           toned == [t EXCEPT !.wide = wide]
           put == Console!Screen!Put(s, t, e)
           shown == Console!Screen!Character(s, t, e)
<1>1. /\ max \in Nat /\ max >= 2 /\ Console!MaxRow(b) \in Nat /\ s[1] = max
      /\ c \in Nat /\ r \in Nat
  BY SizeFacts, ScreenSame
<1>2. t.column = c /\ t.row = r
  BY AbstractFields
<1>3. shown = CASE e = "BS" -> back [] e = "LF" -> down [] e = "CR" -> home
                [] e \in {"WIDE", "NARROW"} -> toned [] OTHER -> put
  BY Zenon DEF Console!Screen!Character
<1>4. down = Abstract(b, c, NextRow(b, r), w, Fed(b, r, ch))
  BY DownIs
<1>5. home = Abstract(b, 0, r, w, ch) /\ toned = Abstract(b, c, r, wide, ch)
  <2> HIDE DEF wide
  <2> QED  BY DEF Abstract
<1>6. back = IF c = 0 /\ r = 0 THEN t
             ELSE Abstract(b, IF c > 0 THEN c - 1 ELSE max - 1, IF c > 0 THEN r ELSE r - 1, w,
                           Wiped(b, IF c > 0 THEN c - 1 ELSE max - 1,
                                 IF c > 0 THEN r ELSE r - 1, ch))
  <2>1. CASE c > 0
    <3>1. c - 1 \in Int /\ r \in Int /\ c # 0
      BY <1>1, <2>1
    <3>2. Console!Screen!Erase(t, c - 1, r) =
            Abstract(b, c - 1, r, w, Wiped(b, c - 1, r, ch))
      BY <3>1, EraseIs
    <3> HIDE DEF t
    <3>3. back = Console!Screen!Erase(t, c - 1, r)
      BY <1>2, <2>1, Zenon
    <3> HIDE DEF back
    <3> QED  BY <2>1, <3>1, <3>2, <3>3, Zenon
  <2>2. CASE ~(c > 0) /\ r > 0
    <3>1. max - 1 \in Int /\ r - 1 \in Int /\ r # 0
      BY <1>1, <2>2
    <3>2. Console!Screen!Erase(t, max - 1, r - 1) =
            Abstract(b, max - 1, r - 1, w, Wiped(b, max - 1, r - 1, ch))
      BY <3>1, EraseIs
    <3> HIDE DEF t
    <3>3. back = Console!Screen!Erase(t, max - 1, r - 1)
      BY <1>1, <1>2, <2>2, Zenon
    <3> HIDE DEF back
    <3> QED  BY <2>2, <3>1, <3>2, <3>3, Zenon
  <2>3. CASE ~(c > 0) /\ ~(r > 0)
    <3>1. c = 0 /\ r = 0
      BY <1>1, <2>3
    <3> HIDE DEF t
    <3>2. back = t
      BY <1>2, <2>3, Zenon
    <3> HIDE DEF back
    <3> QED  BY <3>1, <3>2, Zenon
  <2> QED  BY <2>1, <2>2, <2>3
<1> HIDE DEF back, down, home, toned, put
<1>7. /\ e = "BS" => shown = back
      /\ e = "LF" => shown = down
      /\ e = "CR" => shown = home
      /\ e \in {"WIDE", "NARROW"} => shown = toned
  <2> HIDE DEF shown, wide
  <2> QED  BY <1>3
<1> HIDE DEF shown
<1>8. /\ e = "BS" => shown = IF c = 0 /\ r = 0 THEN t
             ELSE Abstract(b, IF c > 0 THEN c - 1 ELSE max - 1, IF c > 0 THEN r ELSE r - 1, w,
                           Wiped(b, IF c > 0 THEN c - 1 ELSE max - 1,
                                 IF c > 0 THEN r ELSE r - 1, ch))
      /\ e = "LF" => shown = Abstract(b, c, NextRow(b, r), w, Fed(b, r, ch))
      /\ e = "CR" => shown = Abstract(b, 0, r, w, ch)
      /\ e \in {"WIDE", "NARROW"} => shown = Abstract(b, c, r, wide, ch)
  BY <1>4, <1>5, <1>6, <1>7, Zenon
<1> QED  BY <1>8, Zenon DEF shown, t, max, wide

\* The device shows the abstract state u, and the cursor is on the screen.
Shows(t, u, b) ==
    \E c2 \in 0 .. Console!MaxColumn(b) - 1, r2 \in 0 .. Console!MaxRow(b) - 1,
       w2 \in BOOLEAN : \E ch2 :
      DeviceIs(t, b, c2, r2, w2, ch2, Off(b)) /\ u = Abstract(b, c2, r2, w2, ch2)

\* After a control character the console shows what TextScreen shows.
LEMMA ControlIs ==
    ASSUME NEW b, Sized(b), NEW st, NEW e \in Console!Controls, NEW w \in BOOLEAN, NEW ch,
           NEW c \in 0 .. Console!MaxColumn(b) - 1, NEW r \in 0 .. Console!MaxRow(b) - 1,
           DeviceIs(st, b, c, r, w, ch, Off(b))
    PROVE  Shows(Console!Control(st, e),
                 Console!Screen!Character(Console!SizeOf(b), Abstract(b, c, r, w, ch), e), b)
<1>1. /\ Console!MaxColumn(b) \in Nat /\ Console!MaxRow(b) \in Nat
      /\ Console!MaxColumn(b) >= 2 /\ Console!MaxRow(b) >= 1
  BY SizeFacts
<1> DEFINE back == Console!Backspace(st)
           down == Console!LineFeed(st)
           home == [st EXCEPT !.CursorColumn = 0]
           w2 == (e = "WIDE")
           toned == [st EXCEPT !.wide = w2]
           t == Console!Control(st, e)
           shown == Console!Screen!Character(Console!SizeOf(b), Abstract(b, c, r, w, ch), e)
<1>2. t = CASE e = "BS" -> back [] e = "LF" -> down [] e = "CR" -> home
            [] e \in {"WIDE", "NARROW"} -> toned
  BY Zenon DEF Console!Control
<1>3. DeviceIs(home, b, 0, r, w, ch, Off(b)) /\ DeviceIs(toned, b, c, r, w2, ch, Off(b))
  <2> HIDE DEF w2
  <2> QED  BY DeviceExcept
<1>4. w2 \in BOOLEAN
  OBVIOUS
<1>5. /\ e = "LF" => shown = Abstract(b, c, NextRow(b, r), w, Fed(b, r, ch))
      /\ e = "CR" => shown = Abstract(b, 0, r, w, ch)
      /\ e \in {"WIDE", "NARROW"} => shown = Abstract(b, c, r, w2, ch)
  BY ControlShows
<1> HIDE DEF home, toned, w2, back, down, shown, t
<1>6. /\ e = "BS" => t = back
      /\ e = "LF" => t = down
      /\ e = "CR" => t = home
      /\ e \in {"WIDE", "NARROW"} => t = toned
  BY <1>2
<1>7. ASSUME e = "BS" PROVE Shows(t, shown, b)
  <2>1. t = Console!Backspace(st)
    BY <1>7, <1>6 DEF back
  <2>2. CASE c = 0 /\ r = 0
    <3>1. t = st
      BY <2>1, <2>2, BackspaceIs, Zenon
    <3>2. shown = Abstract(b, c, r, w, ch)
      BY <1>7, <2>2, ControlShows DEF shown
    <3> QED  BY <3>1, <3>2, Zenon DEF Shows
  <2>3. CASE ~(c = 0 /\ r = 0)
    <3> DEFINE c2 == IF c > 0 THEN c - 1 ELSE Console!MaxColumn(b) - 1
               r2 == IF c > 0 THEN r ELSE r - 1
    <3>1. DeviceIs(t, b, c2, r2, w, Wiped(b, c2, r2, ch), Off(b))
      <4>1. DeviceIs(Console!Backspace(st), b, c2, r2, w, Wiped(b, c2, r2, ch), Off(b))
        BY <2>3, BackspaceIs, Zenon
      <4> HIDE DEF c2, r2
      <4> QED  BY <2>1, <4>1
    <3>2. c2 \in 0 .. Console!MaxColumn(b) - 1 /\ r2 \in 0 .. Console!MaxRow(b) - 1
      BY <1>1, <2>3
    <3>3. shown = Abstract(b, c2, r2, w, Wiped(b, c2, r2, ch))
      BY <1>7, <2>3, ControlShows DEF shown
    <3> HIDE DEF c2, r2
    <3> QED  BY <3>1, <3>2, <3>3, Zenon DEF Shows
  <2> QED  BY <2>2, <2>3
<1>8. ASSUME e = "LF" PROVE Shows(t, shown, b)
  <2>1. t = Console!LineFeed(st)
    BY <1>8, <1>6 DEF down
  <2>2. DeviceIs(t, b, c, NextRow(b, r), w, Fed(b, r, ch), Off(b))
    BY <2>1, LineFeedIs
  <2>3. NextRow(b, r) \in 0 .. Console!MaxRow(b) - 1
    BY NextRowIs
  <2>4. shown = Abstract(b, c, NextRow(b, r), w, Fed(b, r, ch))
    BY <1>5, <1>8, Zenon
  <2> QED  BY <2>2, <2>3, <2>4, Zenon DEF Shows
<1>9. ASSUME e = "CR" PROVE Shows(t, shown, b)
  <2>1. t = home /\ 0 \in 0 .. Console!MaxColumn(b) - 1
    BY <1>1, <1>9, <1>6
  <2>2. shown = Abstract(b, 0, r, w, ch)
    BY <1>5, <1>9, Zenon
  <2> QED  BY <1>3, <2>1, <2>2, Zenon DEF Shows
<1>10. ASSUME e \in {"WIDE", "NARROW"} PROVE Shows(t, shown, b)
  <2>1. t = toned
    BY <1>10, <1>6
  <2>2. shown = Abstract(b, c, r, w2, ch)
    BY <1>5, <1>10, Zenon
  <2> QED  BY <1>3, <1>4, <2>1, <2>2, Zenon DEF Shows
<1>11. Shows(t, shown, b)
  BY <1>7, <1>8, <1>9, <1>10 DEF Console!Controls
<1> QED  BY <1>11 DEF t, shown

\* The abstract state t follows the device: it has the same text and cursor, or a wide
\* glyph comes next, with which it goes to the next line too.
Follows(t, rest, b, c, r, w, ch) ==
    \/ t = Abstract(b, c, r, w, ch)
    \/ /\ rest # << >> /\ Head(rest) \notin Console!Controls
       /\ \A g : Console!Screen!Put(Console!SizeOf(b), t, g) =
                   Console!Screen!Put(Console!SizeOf(b), Abstract(b, c, r, w, ch), g)

\* All other characters are glyphs.
LEMMA GlyphIs ==
    ASSUME NEW s, NEW t, NEW g, g \notin Console!Controls
    PROVE  Console!Screen!Character(s, t, g) = Console!Screen!Put(s, t, g)
<1> DEFINE back == IF t.column > 0 THEN Console!Screen!Erase(t, t.column - 1, t.row)
                   ELSE IF t.row > 0 THEN Console!Screen!Erase(t, s[1] - 1, t.row - 1) ELSE t
           down == Console!Screen!Down(s, t)
           home == [t EXCEPT !.column = 0]
           toned == [t EXCEPT !.wide = (g = "WIDE")]
           put == Console!Screen!Put(s, t, g)
<1>1. Console!Screen!Character(s, t, g) =
        CASE g = "BS" -> back [] g = "LF" -> down [] g = "CR" -> home
          [] g \in {"WIDE", "NARROW"} -> toned [] OTHER -> put
  BY Zenon DEF Console!Screen!Character
<1> HIDE DEF back, down, home, toned, put
<1>2. Console!Screen!Character(s, t, g) = put
  BY <1>1 DEF Console!Controls
<1> QED  BY <1>2 DEF put

\* A wide glyph for which one cell is left.
LEMMA WideWraps ==
    ASSUME NEW b, Sized(b), NEW ch, NEW r \in 0 .. Console!MaxRow(b) - 1, NEW g,
           NEW w \in BOOLEAN, WidthOf(w) = 2
    PROVE  LET c == Console!MaxColumn(b) - 1
           IN  Console!Screen!Put(Console!SizeOf(b), Abstract(b, c, r, w, ch), g) =
                 Console!Screen!Put(Console!SizeOf(b),
                   Abstract(b, 0, NextRow(b, r), w, Fed(b, r, Wiped(b, c, r, ch))), g)
<1> DEFINE s == Console!SizeOf(b)
           max == Console!MaxColumn(b)
           c == max - 1
           t == Abstract(b, c, r, w, ch)
           wiped == Wiped(b, c, r, ch)
           t2 == Abstract(b, 0, NextRow(b, r), w, Fed(b, r, wiped))
           halves == Console!Screen!Halves(g, w)
           v(u) == [Console!Screen!With(u, [i \in DOMAIN halves |-> <<u.column + i - 1, u.row>>],
                                        halves) EXCEPT !.column = @ + Len(halves)]
           F(u) == IF v(u).column = s[1] THEN Console!Screen!NewLine(s, v(u)) ELSE v(u)
<1>1. max \in Nat /\ max >= 2 /\ s[1] = max /\ r \in Int /\ c \in Int
  BY SizeFacts, ScreenSame
<1>2. Len(halves) = 2
  <2>1. Len(halves) = WidthOf(w)
    BY HalvesFacts
  <2> QED  BY <2>1
<1> HIDE DEF c
<1>3. /\ t.column = c /\ t.row = r /\ t.wide = w
      /\ t2.column = 0 /\ t2.wide = w
  BY AbstractFields
<1>4. Console!Screen!Erase(t, c, r) = Abstract(b, c, r, w, wiped)
  BY <1>1, EraseIs
<1>5. Console!Screen!NewLine(s, Abstract(b, c, r, w, wiped)) = t2
  BY NewLineIs
<1> HIDE DEF t, t2, halves, s
<1>6. ~(t.column + Len(halves) <= s[1]) /\ t2.column + Len(halves) <= s[1]
  <2> HIDE DEF max
  <2> QED  BY <1>1, <1>2, <1>3 DEF c
<1>7. Console!Screen!NewLine(s, Console!Screen!Erase(t, t.column, t.row)) = t2
  BY <1>3, <1>4, <1>5, Zenon
<1>8. Console!Screen!Put(s, t, g) = F(t2)
  BY <1>3, <1>6, <1>7, Zenon DEF Console!Screen!Put, halves
<1>9. Console!Screen!Put(s, t2, g) = F(t2)
  BY <1>3, <1>6, Zenon DEF Console!Screen!Put, halves
<1> HIDE DEF F
<1> QED  BY <1>8, <1>9, Zenon DEF t, t2, s, c

LEMMA DrawnNone ==
    ASSUME NEW b, NEW c, NEW r, NEW w, NEW ch, NEW string, NEW c2, NEW r2
    PROVE  Wiped(b, c2, r2, Drawn(b, c, r, w, SubSeq(string, 1, 0), ch)) = Wiped(b, c2, r2, ch)
<1>1. SubSeq(string, 1, 0) = << >>
  OBVIOUS
<1>2. \A e : e \notin 0 .. Console!CellsOf(<< >>, w) - 1
  BY DEF Console!CellsOf
<1>3. \A cell \in Console!Grid(b.resolution) :
        Drawn(b, c, r, w, SubSeq(string, 1, 0), ch)[cell] = ch[cell]
  BY <1>1, <1>2, Zenon DEF Drawn, Covered
<1> QED  BY <1>3, Zenon DEF Wiped

\* What a run of glyphs shows.
RunOf(h, string, S, b, c, r, w, ch, k) ==
    /\ string \in Seq(S) /\ string # << >> /\ w \in BOOLEAN
    /\ c \in 0 .. Console!MaxColumn(b) - 1 /\ r \in 0 .. Console!MaxRow(b) - 1
    /\ k \in 0 .. Len(string) /\ \A i \in 1 .. k : string[i] \notin Console!Controls
    /\ Follows(h[0], string, b, c, r, w, ch)
    /\ \A i \in 1 .. Len(string) :
         h[i] = Console!Screen!Character(Console!SizeOf(b), h[i - 1], string[i])

RunFollowed(h, string, b, c, r, w, ch, k) ==
    LET end == c + k * WidthOf(w)
        max == Console!MaxColumn(b)
        drawn == Drawn(b, c, r, w, SubSeq(string, 1, k), ch)
    IN  /\ k >= 1 /\ end <= max => h[k] = Landed(b, end, r, w, drawn)
        /\ w /\ end = max - 1 /\ k < Len(string) /\ string[k + 1] \notin Console!Controls
             => Follows(h[k], SubSeq(string, k + 1, Len(string)), b, 0, NextRow(b, r), w,
                        Fed(b, r, Wiped(b, max - 1, r, drawn)))

\* After a run the console shows what TextScreen shows, or will with the next glyph.
LEMMA RunFollows ==
    ASSUME NEW b, Sized(b), NEW S, NEW string, NEW w, NEW ch, NEW c, NEW r, NEW k, NEW h,
           RunOf(h, string, S, b, c, r, w, ch, k)
    PROVE  RunFollowed(h, string, b, c, r, w, ch, k)
<1> DEFINE s == Console!SizeOf(b)
           end == c + k * WidthOf(w)
           max == Console!MaxColumn(b)
           drawn == Drawn(b, c, r, w, SubSeq(string, 1, k), ch)
           rest == SubSeq(string, k + 1, Len(string))
           t2 == Abstract(b, 0, NextRow(b, r), w, Fed(b, r, Wiped(b, max - 1, r, drawn)))
<1>0. /\ string \in Seq(S) /\ string # << >> /\ w \in BOOLEAN
      /\ c \in 0 .. max - 1 /\ r \in 0 .. Console!MaxRow(b) - 1
      /\ k \in 0 .. Len(string) /\ \A i \in 1 .. k : string[i] \notin Console!Controls
      /\ Follows(h[0], string, b, c, r, w, ch)
      /\ \A i \in 1 .. Len(string) : h[i] = Console!Screen!Character(s, h[i - 1], string[i])
  BY DEF RunOf
<1>1. /\ Len(string) \in Nat /\ k \in Nat /\ k <= Len(string) /\ c \in Nat
      /\ max \in Nat /\ max >= 2 /\ c < max
  BY <1>0, SizeFacts
<1>2. \A g : Console!Screen!Put(s, h[0], g) = Console!Screen!Put(s, Abstract(b, c, r, w, ch), g)
  BY <1>0, Zenon DEF Follows
<1>3. ASSUME k >= 1, end <= max PROVE h[k] = Landed(b, end, r, w, drawn)
  <2>1. ASSUME NEW i \in 1 .. k PROVE h[i] = Console!Screen!Put(s, h[i - 1], string[i])
    <3>1. i \in 1 .. Len(string)
      BY <1>1
    <3>2. h[i] = Console!Screen!Character(s, h[i - 1], string[i])
      BY <1>0, <3>1
    <3>3. string[i] \notin Console!Controls
      BY <1>0
    <3> QED  BY <3>2, <3>3, GlyphIs
  <2>2. 1 \in 1 .. k /\ 1 - 1 = 0 /\ k \in 1 .. Len(string) /\ \A i \in 2 .. k : i \in 1 .. k
    BY <1>1, <1>3
  <2>3. h[1] = Console!Screen!Put(s, Abstract(b, c, r, w, ch), string[1])
    <3>1. h[1] = Console!Screen!Put(s, h[1 - 1], string[1])
      BY <2>1, <2>2
    <3> QED  BY <1>2, <2>2, <3>1, Zenon
  <2>4. \A i \in 2 .. k : h[i] = Console!Screen!Put(s, h[i - 1], string[i])
    BY <2>1, <2>2
  <2>5. c \in Nat /\ k \in 1 .. Len(string) /\ c + k * WidthOf(w) <= Console!MaxColumn(b)
    BY <1>1, <1>3, <2>2
  <2>6. h[k] = Landed(b, c + k * WidthOf(w), r, w, Drawn(b, c, r, w, SubSeq(string, 1, k), ch))
    <3>1. \A C \in Nat, K \in 1 .. Len(string) :
            /\ C + K * WidthOf(w) <= Console!MaxColumn(b)
            /\ h[1] = Console!Screen!Put(Console!SizeOf(b), Abstract(b, C, r, w, ch), string[1])
            /\ \A i \in 2 .. K : h[i] = Console!Screen!Put(Console!SizeOf(b), h[i - 1], string[i])
            => h[K] = Landed(b, C + K * WidthOf(w), r, w,
                             Drawn(b, C, r, w, SubSeq(string, 1, K), ch))
      BY <1>0, RunShows
    <3> HIDE DEF end, drawn
    <3> QED  BY <2>3, <2>4, <2>5, <3>1, Zenon
  <2> QED  BY <2>6
<1>4. ASSUME w, end = max - 1, k < Len(string), string[k + 1] \notin Console!Controls
      PROVE  Follows(h[k], rest, b, 0, NextRow(b, r), w, Fed(b, r, Wiped(b, max - 1, r, drawn)))
  <2>1. rest # << >> /\ Head(rest) \notin Console!Controls
    <3>1. /\ SubSeq(string, k + 1, Len(string)) = << >> <=> k = Len(string)
          /\ k < Len(string) => Head(SubSeq(string, k + 1, Len(string))) = string[k + 1]
      BY <1>0, RestIs
    <3>2. k # Len(string)
      BY <1>1, <1>4
    <3> QED  BY <1>4, <3>1, <3>2
  <2>2. WidthOf(w) = 2
    BY <1>4 DEF WidthOf
  <2>3. \A g : Console!Screen!Put(s, Abstract(b, max - 1, r, w, drawn), g) =
                 Console!Screen!Put(s, t2, g)
    BY <1>0, <2>2, WideWraps, Zenon
  <2>4. CASE k >= 1
    <3>1. end <= max /\ end # max
      <4> HIDE DEF end, max
      <4> QED  BY <1>1, <1>4
    <3>2. h[k] = Landed(b, end, r, w, drawn)
      BY <1>3, <2>4, <3>1
    <3> HIDE DEF end, max, drawn
    <3>3. h[k] = Abstract(b, max - 1, r, w, drawn)
      BY <1>4, <3>1, <3>2, Zenon DEF Landed, max
    <3> HIDE DEF rest
    <3> QED  BY <2>1, <2>3, <3>3, Zenon DEF Follows
  <2>5. CASE k = 0
    <3>1. c = max - 1
      <4>1. end = c
        BY <1>1, <2>5 DEF WidthOf
      <4> QED  BY <1>4, <4>1
    <3>2. Wiped(b, max - 1, r, drawn) = Wiped(b, max - 1, r, ch)
      BY <2>5, DrawnNone
    <3>3. \A g : Console!Screen!Put(s, Abstract(b, max - 1, r, w, ch), g) =
                 Console!Screen!Put(s, t2, g)
      <4>1. \A g : Console!Screen!Put(s, Abstract(b, max - 1, r, w, ch), g) =
                     Console!Screen!Put(s, Abstract(b, 0, NextRow(b, r), w,
                                          Fed(b, r, Wiped(b, max - 1, r, ch))), g)
        BY <1>0, <2>2, WideWraps, Zenon
      <4> QED  BY <3>2, <4>1, Zenon
    <3> HIDE DEF rest, max, drawn
    <3> QED  BY <1>2, <2>1, <2>5, <3>1, <3>3, Zenon DEF Follows
  <2> QED  BY <1>1, <2>4, <2>5
<1> QED  BY <1>3, <1>4 DEF RunFollowed

\* What the string shows, one character after the other, from h[0] on.
CharByChar(h, b, string) ==
    \A i \in 1 .. Len(string) :
       h[i] = Console!Screen!Character(Console!SizeOf(b), h[i - 1], string[i])

\* A turn prints something, or brings the cursor to the start of a line; and what it
\* prints, the characters show.
LEMMA TurnIs ==
    ASSUME NEW b, Sized(b), NEW l, NEW S, l.rest \in Seq(S), l.rest # << >>,
           NEW c, NEW r, NEW w, NEW ch, NEW x, Printing(l.st, l.rest, b, c, r, w, ch, x),
           NEW h, CharByChar(h, b, l.rest), Follows(h[0], l.rest, b, c, r, w, ch)
    PROVE  \E k \in 0 .. Len(l.rest) : \E c2, r2, w2, ch2, x2 :
             /\ Console!PrintNext(l).rest = SubSeq(l.rest, k + 1, Len(l.rest))
             /\ Printing(Console!PrintNext(l).st, Console!PrintNext(l).rest,
                         b, c2, r2, w2, ch2, x2)
             /\ Follows(h[k], Console!PrintNext(l).rest, b, c2, r2, w2, ch2)
             /\ k >= 1 \/ (c # 0 /\ c2 = 0)
<1> DEFINE string == l.rest
           st == l.st
           next == Console!PrintNext(l)
           max == Console!MaxColumn(b)
           Goal == \E k \in 0 .. Len(string) : \E c2, r2, w2, ch2, x2 :
                     /\ next.rest = SubSeq(string, k + 1, Len(string))
                     /\ Printing(next.st, next.rest, b, c2, r2, w2, ch2, x2)
                     /\ Follows(h[k], next.rest, b, c2, r2, w2, ch2)
                     /\ k >= 1 \/ (c # 0 /\ c2 = 0)
<1>1. /\ max \in Nat /\ max >= 2 /\ Console!MaxRow(b) \in Nat /\ Console!MaxRow(b) >= 1
      /\ string \in Seq(S) /\ string # << >> /\ Len(string) \in Nat /\ Len(string) >= 1
  BY SizeFacts
<1>2. /\ c \in 0 .. max - 1 /\ r \in 0 .. Console!MaxRow(b) - 1 /\ w \in BOOLEAN
      /\ DeviceIs(st, b, c, r, w, ch, x)
      /\ \/ x = Off(b)
         \/ x = On(b, c, r) /\ c = 0 /\ Head(string) \notin Console!Controls
  BY DEF Printing
<1>3. CASE Head(string) \in Console!Controls
  <2> DEFINE e == Head(string)
             t == Console!Control(st, e)
             shown == Console!Screen!Character(Console!SizeOf(b), Abstract(b, c, r, w, ch), e)
  <2>1. next = [st |-> t, rest |-> Tail(string)]
    BY <1>1, <1>3, Zenon DEF Console!PrintNext
  <2>2. e \in Console!Controls /\ DeviceIs(st, b, c, r, w, ch, Off(b))
    BY <1>2, <1>3
  <2>3. Shows(t, shown, b)
    <3> HIDE DEF e, st
    <3> QED  BY <1>2, <2>2, ControlIs
  <2> HIDE DEF t, shown
  <2>4. PICK c2, r2, w2, ch2 :
          /\ c2 \in 0 .. max - 1 /\ r2 \in 0 .. Console!MaxRow(b) - 1 /\ w2 \in BOOLEAN
          /\ DeviceIs(t, b, c2, r2, w2, ch2, Off(b)) /\ shown = Abstract(b, c2, r2, w2, ch2)
    BY <2>3, Zenon DEF Shows
  <2>5. next.st = t /\ next.rest = Tail(string)
    <3> HIDE DEF next
    <3> QED  BY <2>1
  <2>6. Tail(string) = SubSeq(string, 2, Len(string)) /\ 1 \in 0 .. Len(string) /\ 1 + 1 = 2
        /\ 1 >= 1 /\ Head(string) = string[1] /\ 1 \in 1 .. Len(string) /\ 1 - 1 = 0
    BY <1>1, TailIs
  <2>7. h[0] = Abstract(b, c, r, w, ch)
    BY <1>3, Zenon DEF Follows
  <2>8. h[1] = shown
    <3>1. h[1] = Console!Screen!Character(Console!SizeOf(b), h[1 - 1], string[1])
      BY <2>6, Zenon DEF CharByChar
    <3> QED  BY <2>6, <2>7, <3>1, Zenon DEF shown
  <2> HIDE DEF next
  <2>9. /\ Printing(next.st, next.rest, b, c2, r2, w2, ch2, Off(b))
        /\ Follows(h[1], next.rest, b, c2, r2, w2, ch2)
    BY <2>4, <2>5, <2>8, Zenon DEF Printing, Follows
  <2>10. next.rest = SubSeq(string, 1 + 1, Len(string))
    BY <2>5, <2>6
  <2> HIDE DEF string
  <2>11. Goal
    BY <2>6, <2>9, <2>10, Zenon
  <2> QED  BY <2>11 DEF string, next
<1>4. CASE Head(string) \notin Console!Controls
  <2> DEFINE u == Console!PrintRun(st, string)
  <2>1. next = u
    BY <1>1, <1>4, Zenon DEF Console!PrintNext
  <2>2. \E k \in 0 .. Len(string) :
          /\ \A i \in 1 .. k : string[i] \notin Console!Controls
          /\ u.rest = SubSeq(string, k + 1, Len(string))
          /\ RunEnds(u.st, b, c, r, w, ch, string, k)
    <3>1. r \in Int /\ w \in BOOLEAN /\ c \in 0 .. max - 1
          /\ (x = Off(b) \/ (x = On(b, c, r) /\ c = 0))
          /\ DeviceIs(st, b, c, r, w, ch, x)
      BY <1>1, <1>2
    <3> HIDE DEF string, st
    <3>2. string \in Seq(S) /\ string # << >> /\ Head(string) \notin Console!Controls
      BY <1>1, <1>4
    <3>3. RunStarts(st, string, S, b, c, r, w, ch, x)
      BY <3>1, <3>2, Zenon DEF RunStarts
    <3> QED  BY <3>3, PrintRunIs, Zenon
  <2> HIDE DEF u
  <2>3. PICK k \in 0 .. Len(string) :
          /\ \A i \in 1 .. k : string[i] \notin Console!Controls
          /\ u.rest = SubSeq(string, k + 1, Len(string))
          /\ RunEnds(u.st, b, c, r, w, ch, string, k)
    BY <2>2
  <2> DEFINE end == c + k * WidthOf(w)
             drawn == Drawn(b, c, r, w, SubSeq(string, 1, k), ch)
             wiped == Wiped(b, max - 1, r, drawn)
             r2 == NextRow(b, r)
  <2>4. \/ k >= 1 /\ end < max /\ DeviceIs(u.st, b, end, r, w, drawn, Off(b))
        \/ k >= 1 /\ end = max /\ DeviceIs(u.st, b, 0, r2, w, Fed(b, r, drawn), Off(b))
        \/ /\ w /\ end = max - 1 /\ k < Len(string) /\ string[k + 1] \notin Console!Controls
           /\ DeviceIs(u.st, b, 0, r2, w, Fed(b, r, wiped), On(b, 0, r2))
    <3> QED  BY <2>3, Zenon DEF RunEnds
  <2>5. /\ k >= 1 /\ end <= max => h[k] = Landed(b, end, r, w, drawn)
        /\ w /\ end = max - 1 /\ k < Len(string) /\ string[k + 1] \notin Console!Controls
             => Follows(h[k], SubSeq(string, k + 1, Len(string)), b, 0, r2, w, Fed(b, r, wiped))
    <3>1. /\ \A i \in 1 .. Len(string) :
               h[i] = Console!Screen!Character(Console!SizeOf(b), h[i - 1], string[i])
          /\ Follows(h[0], string, b, c, r, w, ch)
      BY Zenon DEF CharByChar
    <3> HIDE DEF string
    <3>2. RunOf(h, string, S, b, c, r, w, ch, k)
      BY <1>1, <1>2, <2>3, <3>1, Zenon DEF RunOf
    <3>3. RunFollowed(h, string, b, c, r, w, ch, k)
      BY <3>2, RunFollows, Zenon
    <3> QED  BY <3>3, Zenon DEF RunFollowed
  <2>6. end \in Nat /\ (k = 0 => end = c) /\ r2 \in 0 .. Console!MaxRow(b) - 1
        /\ 0 \in 0 .. max - 1
    BY <1>1, <1>2, NextRowIs DEF WidthOf
  <2>7. end = max => Landed(b, end, r, w, drawn) = Abstract(b, 0, r2, w, Fed(b, r, drawn))
    BY Zenon DEF Landed
  <2>8. end # max => Landed(b, end, r, w, drawn) = Abstract(b, end, r, w, drawn)
    BY Zenon DEF Landed
  <2> HIDE DEF end, drawn, wiped, r2, string, st, max
  <2>9. CASE k >= 1 /\ end < max /\ DeviceIs(u.st, b, end, r, w, drawn, Off(b))
    <3>1. end \in 0 .. max - 1 /\ end <= max /\ end # max
      BY <1>1, <2>6, <2>9
    <3>2. Printing(u.st, u.rest, b, end, r, w, drawn, Off(b))
      BY <1>2, <2>9, <3>1, Zenon DEF Printing, max
    <3>3. Follows(h[k], u.rest, b, end, r, w, drawn)
      BY <2>9, <2>5, <2>8, <3>1, Zenon DEF Follows
    <3> HIDE DEF next
    <3>4. Goal
      BY <2>1, <2>3, <2>9, <3>2, <3>3, Zenon
    <3> QED  BY <3>4 DEF string, next
  <2>10. CASE k >= 1 /\ end = max /\ DeviceIs(u.st, b, 0, r2, w, Fed(b, r, drawn), Off(b))
    <3>1. Printing(u.st, u.rest, b, 0, r2, w, Fed(b, r, drawn), Off(b))
      BY <1>2, <2>6, <2>10, Zenon DEF Printing, max
    <3>2. end <= max
      BY <1>1, <2>10
    <3>3. Follows(h[k], u.rest, b, 0, r2, w, Fed(b, r, drawn))
      BY <2>10, <2>5, <2>7, <3>2, Zenon DEF Follows
    <3> HIDE DEF next
    <3>4. Goal
      BY <2>1, <2>3, <2>10, <3>1, <3>3, Zenon
    <3> QED  BY <3>4 DEF string, next
  <2>11. CASE /\ w /\ end = max - 1 /\ k < Len(string) /\ string[k + 1] \notin Console!Controls
             /\ DeviceIs(u.st, b, 0, r2, w, Fed(b, r, wiped), On(b, 0, r2))
    <3>1. u.rest # << >> /\ Head(u.rest) = string[k + 1]
      <4>1. /\ SubSeq(string, k + 1, Len(string)) = << >> <=> k = Len(string)
            /\ k < Len(string) => Head(SubSeq(string, k + 1, Len(string))) = string[k + 1]
        BY <1>1, RestIs
      <4>2. k # Len(string)
        BY <1>1, <2>11
      <4> QED  BY <2>3, <2>11, <4>1, <4>2
    <3>2. Printing(u.st, u.rest, b, 0, r2, w, Fed(b, r, wiped), On(b, 0, r2))
      BY <1>2, <2>6, <2>11, <3>1, Zenon DEF Printing, max
    <3>3. k >= 1 \/ c # 0
      BY <1>1, <2>6, <2>11
    <3>4. Follows(h[k], u.rest, b, 0, r2, w, Fed(b, r, wiped))
      BY <2>3, <2>11, <2>5, Zenon
    <3> HIDE DEF next
    <3>5. Goal
      BY <2>1, <2>3, <3>2, <3>3, <3>4, Zenon
    <3> QED  BY <3>5 DEF string, next
  <2> QED  BY <2>4, <2>9, <2>10, <2>11
<1> QED  BY <1>3, <1>4

\* The turns of the loop over a string.
IsPrinting(f, st, string, n) ==
    /\ f = [i \in 0 .. n |-> f[i]]
    /\ f[0] = [st |-> Console!FlushCursor(st), rest |-> string]
    /\ \A i \in 1 .. n : f[i] = Console!PrintNext(f[i - 1])

\* The loop of OutputString has a value at each turn.
LEMMA PrintingExists ==
    ASSUME NEW st, NEW string, NEW n \in Nat
    PROVE  \E f : IsPrinting(f, st, string, n)
<1> DEFINE first == [st |-> Console!FlushCursor(st), rest |-> string]
           T == {m \in 0 .. n : \E f : IsPrinting(f, st, string, m)}
<1>1. 0 \in T
  <2> DEFINE f == [i \in 0 .. 0 |-> first]
  <2>1. f = [i \in 0 .. 0 |-> f[i]] /\ f[0] = first /\ 1 .. 0 = {}
    <3> HIDE DEF first
    <3> QED  OBVIOUS
  <2> HIDE DEF f
  <2>2. IsPrinting(f, st, string, 0)
    BY <2>1, Zenon DEF IsPrinting
  <2>3. 0 \in 0 .. n
    OBVIOUS
  <2> QED  BY <2>2, <2>3
<1>2. ASSUME NEW m \in 1 .. n, m - 1 \in T PROVE m \in T
  <2>1. PICK f : IsPrinting(f, st, string, m - 1)
    BY <1>2
  <2> DEFINE last == Console!PrintNext(f[m - 1])
             g == [i \in 0 .. m |-> IF i = m THEN last ELSE f[i]]
  <2>2. m \in 0 .. n /\ 0 \in 0 .. m /\ 0 # m
    OBVIOUS
  <2>3. \A i \in 1 .. m : i \in 0 .. m /\ i - 1 \in 0 .. m /\ i - 1 # m
    OBVIOUS
  <2>4. \A i \in 1 .. m : i # m => i \in 1 .. m - 1
    OBVIOUS
  <2>5. g = [i \in 0 .. m |-> g[i]] /\ g[0] = f[0]
    <3> HIDE DEF last
    <3> QED  BY <2>2
  <2>6. ASSUME NEW i \in 1 .. m PROVE g[i] = Console!PrintNext(g[i - 1])
    <3>1. g[i - 1] = f[i - 1]
      BY <2>3, Zenon
    <3>2. CASE i = m
      BY <2>3, <3>1, <3>2, Zenon
    <3>3. CASE i # m
      <4>1. f[i] = Console!PrintNext(f[i - 1])
        BY <2>1, <2>4, <3>3, Zenon DEF IsPrinting
      <4> QED  BY <2>3, <3>1, <3>3, <4>1, Zenon
    <3> QED  BY <3>2, <3>3
  <2> HIDE DEF g
  <2>7. IsPrinting(g, st, string, m)
    BY <2>1, <2>5, <2>6, Zenon DEF IsPrinting
  <2> QED  BY <2>2, <2>7
<1>3. n \in 0 .. n
  OBVIOUS
<1>4. n \in T
  <2> HIDE DEF T
  <2> QED  BY <1>1, <1>2, <1>3, UpToInduction
<1> QED  BY <1>4

LEMMA OutputStringIs ==
    ASSUME NEW st, NEW string, Len(string) \in Nat
    PROVE  \E f : /\ IsPrinting(f, st, string, 2 * Len(string))
                  /\ Console!OutputStringCall(st, string) =
                       Console!FlushCursor([f[2 * Len(string)].st EXCEPT !.wide = FALSE])
<1> DEFINE n == 2 * Len(string)
           first == [st |-> Console!FlushCursor(st), rest |-> string]
           Body(f, i) == IF i = 0 THEN first ELSE Console!PrintNext(f[i - 1])
<1>1. n \in Nat
  OBVIOUS
<1>2. \A i \in 0 .. n : i # 0 => i \in 1 .. n
  BY <1>1
<1>3. \A i \in 1 .. n : i \in 0 .. n /\ i # 0
  BY <1>1
<1>4. 0 \in 0 .. n
  BY <1>1
<1> HIDE DEF n
<1>5. PICK f : IsPrinting(f, st, string, n)
  BY <1>1, PrintingExists
<1>6. f = [i \in 0 .. n |-> Body(f, i)]
  <2>1. f = [i \in 0 .. n |-> f[i]]
    BY <1>5, Zenon DEF IsPrinting
  <2>2. \A i \in 0 .. n : f[i] = Body(f, i)
    BY <1>2, <1>5, Zenon DEF IsPrinting
  <2> HIDE DEF Body
  <2> QED  BY <2>1, <2>2, Zenon
<1>7. PICK h : /\ h = [i \in 0 .. n |-> Body(h, i)]
               /\ Console!OutputStringCall(st, string) =
                    Console!FlushCursor([h[n].st EXCEPT !.wide = FALSE])
  BY <1>6, Zenon DEF Console!OutputStringCall, n
<1>8. h = [i \in 0 .. n |-> h[i]] /\ \A i \in 0 .. n : h[i] = Body(h, i)
  <2> HIDE DEF Body
  <2> QED  BY <1>7, Zenon
<1>9. IsPrinting(h, st, string, n)
  BY <1>3, <1>4, <1>8, Zenon DEF IsPrinting
<1> QED  BY <1>7, <1>9, Zenon DEF n

LEMMA SubSubSeq ==
    ASSUME NEW S, NEW s \in Seq(S), NEW j \in 0 .. Len(s), NEW k \in 0 .. Len(s) - j
    PROVE  LET t == SubSeq(s, j + 1, Len(s))
           IN  SubSeq(t, k + 1, Len(t)) = SubSeq(s, j + k + 1, Len(s))
<1> DEFINE t == SubSeq(s, j + 1, Len(s))
           u == SubSeq(t, k + 1, Len(t))
           v == SubSeq(s, j + k + 1, Len(s))
<1>0. Len(s) \in Nat /\ j \in Nat /\ k \in Nat /\ j + k \in 0 .. Len(s)
  OBVIOUS
<1>1. t \in Seq(S) /\ Len(t) = Len(s) - j /\ \A i \in 1 .. Len(t) : t[i] = s[j + i]
  BY RestIs
<1> HIDE DEF t
<1>2. k \in 0 .. Len(t)
  BY <1>0, <1>1
<1>3. u \in Seq(S) /\ Len(u) = Len(t) - k /\ \A i \in 1 .. Len(u) : u[i] = t[k + i]
  <2>1. \A a \in Seq(S) : \A d \in 0 .. Len(a) :
          /\ SubSeq(a, d + 1, Len(a)) \in Seq(S)
          /\ Len(SubSeq(a, d + 1, Len(a))) = Len(a) - d
          /\ \A i \in 1 .. Len(SubSeq(a, d + 1, Len(a))) :
               SubSeq(a, d + 1, Len(a))[i] = a[d + i]
    BY RestIs
  <2> QED  BY <1>1, <1>2, <2>1, Zenon
<1>4. v \in Seq(S) /\ Len(v) = Len(s) - (j + k)
      /\ \A i \in 1 .. Len(v) : v[i] = s[j + k + i]
  BY <1>0, RestIs
<1> HIDE DEF u, v
<1>5. Len(u) = Len(v)
  BY <1>0, <1>1, <1>3, <1>4
<1>6. ASSUME NEW i \in 1 .. Len(u) PROVE u[i] = v[i]
  <2>1. k + i \in 1 .. Len(t) /\ j + (k + i) = j + k + i /\ i \in 1 .. Len(v)
    BY <1>0, <1>1, <1>3, <1>4
  <2>2. u[i] = t[k + i] /\ t[k + i] = s[j + (k + i)] /\ v[i] = s[j + k + i]
    BY <1>1, <1>3, <1>4, <2>1
  <2> QED  BY <2>1, <2>2
<1>7. u = v
  <2>1. u = [i \in 1 .. Len(u) |-> u[i]] /\ v = [i \in 1 .. Len(v) |-> v[i]]
    BY <1>3, <1>4
  <2> QED  BY <1>5, <1>6, <2>1, Zenon
<1> QED  BY <1>7 DEF u, v, t

\* Where the loop is after i turns: j characters are printed, which the text shows, and
\* i turns are at most two for each of them and one that has brought the cursor to the
\* start of a line.
TurnAt(l, string, i, b, h) ==
    \E j \in 0 .. Len(string) :
      /\ l.rest = SubSeq(string, j + 1, Len(string))
      /\ \E c, r, w, ch, x :
           /\ Printing(l.st, l.rest, b, c, r, w, ch, x)
           /\ Follows(h[j], l.rest, b, c, r, w, ch)
           /\ l.rest = << >> \/ i <= 2 * j \/ (c = 0 /\ i <= 2 * j + 1)

\* What is left to print, the characters show from where they are.
IsRest(g, h, j, rest, b) ==
    CharByChar(g, b, rest) /\ g[0] = h[j] /\ \A k \in 0 .. Len(rest) : g[k] = h[j + k]

\* The characters that are left show what they show at their place in the string.
LEMMA RestShows ==
    ASSUME NEW b, NEW S, NEW string \in Seq(S), NEW h, CharByChar(h, b, string),
           NEW j \in 0 .. Len(string), NEW rest, rest = SubSeq(string, j + 1, Len(string))
    PROVE  \E g : IsRest(g, h, j, rest, b)
<1> DEFINE g == [i \in 0 .. Len(rest) |-> h[j + i]]
<1>1. /\ Len(rest) = Len(string) - j /\ Len(string) \in Nat /\ j \in Nat
      /\ \A i \in 1 .. Len(rest) : rest[i] = string[j + i]
  BY RestIs
<1>2. \A k \in 0 .. Len(rest) : g[k] = h[j + k]
  OBVIOUS
<1>3. 0 \in 0 .. Len(rest) /\ j + 0 = j
  BY <1>1
<1> HIDE DEF g
<1>4. ASSUME NEW i \in 1 .. Len(rest)
      PROVE  g[i] = Console!Screen!Character(Console!SizeOf(b), g[i - 1], rest[i])
  <2>1. /\ j + i \in 1 .. Len(string) /\ i \in 0 .. Len(rest) /\ i - 1 \in 0 .. Len(rest)
        /\ j + (i - 1) = (j + i) - 1
    BY <1>1
  <2>2. h[j + i] = Console!Screen!Character(Console!SizeOf(b), h[(j + i) - 1], string[j + i])
    BY <2>1, Zenon DEF CharByChar
  <2>3. g[i] = h[j + i] /\ g[i - 1] = h[(j + i) - 1] /\ rest[i] = string[j + i]
    <3>1. g[i - 1] = h[j + (i - 1)]
      BY <1>2, <2>1, Zenon
    <3> QED  BY <1>1, <1>2, <2>1, <3>1, Zenon
  <2> QED  BY <2>2, <2>3, Zenon
<1>5. CharByChar(g, b, rest) /\ g[0] = h[j]
  <2>1. g[0] = h[j + 0]
    BY <1>2, <1>3, Zenon
  <2> QED  BY <1>3, <1>4, <2>1, Zenon DEF CharByChar
<1> QED  BY <1>2, <1>5, Zenon DEF IsRest

\* What one turn does, at its place in the loop.
LEMMA TurnAtNext ==
    ASSUME NEW b, Sized(b), NEW l, NEW S, NEW string \in Seq(S), NEW i \in Nat,
           NEW h, CharByChar(h, b, string), TurnAt(l, string, i, b, h)
    PROVE  TurnAt(Console!PrintNext(l), string, i + 1, b, h)
<1> DEFINE next == Console!PrintNext(l)
           n == Len(string)
<1>0. n \in Nat
  OBVIOUS
<1>1. PICK j, c, r, w, ch, x :
        /\ j \in 0 .. n
        /\ l.rest = SubSeq(string, j + 1, n)
        /\ Printing(l.st, l.rest, b, c, r, w, ch, x)
        /\ Follows(h[j], l.rest, b, c, r, w, ch)
        /\ l.rest = << >> \/ i <= 2 * j \/ (c = 0 /\ i <= 2 * j + 1)
  BY Zenon DEF TurnAt
<1>2. l.rest \in Seq(S) /\ Len(l.rest) = n - j /\ (l.rest = << >> <=> j = n)
  BY <1>1, RestIs
<1>3. CASE l.rest = << >>
  <2>1. next = l
    BY <1>3, Zenon DEF Console!PrintNext
  <2> HIDE DEF next
  <2>2. TurnAt(next, string, i + 1, b, h)
    <3>1. l.rest = << >> \/ i + 1 <= 2 * j \/ (c = 0 /\ i + 1 <= 2 * j + 1)
      BY <1>3
    <3> QED  BY <1>1, <2>1, <3>1, Zenon DEF TurnAt
  <2> QED  BY <2>2 DEF next
<1>4. CASE l.rest # << >>
  <2>1. PICK g : IsRest(g, h, j, l.rest, b)
    BY <1>1, RestShows
  <2>2. /\ CharByChar(g, b, l.rest) /\ g[0] = h[j]
        /\ \A k \in 0 .. Len(l.rest) : g[k] = h[j + k]
    BY <2>1, Zenon DEF IsRest
  <2>3. Follows(g[0], l.rest, b, c, r, w, ch)
    BY <1>1, <2>2
  <2>4. \E k \in 0 .. Len(l.rest) : \E c2, r2, w2, ch2, x2 :
          /\ next.rest = SubSeq(l.rest, k + 1, Len(l.rest))
          /\ Printing(next.st, next.rest, b, c2, r2, w2, ch2, x2)
          /\ Follows(g[k], next.rest, b, c2, r2, w2, ch2)
          /\ k >= 1 \/ (c # 0 /\ c2 = 0)
    BY <1>1, <1>2, <1>4, <2>2, <2>3, TurnIs, Zenon
  <2> HIDE DEF next
  <2>5. PICK k, c2, r2, w2, ch2, x2 :
          /\ k \in 0 .. Len(l.rest)
          /\ next.rest = SubSeq(l.rest, k + 1, Len(l.rest))
          /\ Printing(next.st, next.rest, b, c2, r2, w2, ch2, x2)
          /\ Follows(g[k], next.rest, b, c2, r2, w2, ch2)
          /\ k >= 1 \/ (c # 0 /\ c2 = 0)
    BY <2>4, Zenon
  <2>6. next.rest = SubSeq(string, j + k + 1, n)
    BY <1>0, <1>1, <1>2, <2>5, SubSubSeq
  <2>7. j + k \in 0 .. n
    BY <1>0, <1>1, <1>2, <2>5
  <2>8. i + 1 <= 2 * (j + k) \/ (c2 = 0 /\ i + 1 <= 2 * (j + k) + 1)
    <3>1. k \in Nat /\ j \in Nat
      BY <1>0, <1>1, <1>2, <2>5
    <3> QED  BY <1>1, <1>4, <2>5, <3>1
  <2>9. Follows(h[j + k], next.rest, b, c2, r2, w2, ch2)
    BY <2>5, <2>2
  <2>10. TurnAt(next, string, i + 1, b, h)
    BY <2>5, <2>6, <2>7, <2>8, <2>9, Zenon DEF TurnAt
  <2> QED  BY <2>10 DEF next
<1> QED  BY <1>3, <1>4

\* The states of the text, one character after the other.
IsShowing(h, t, b, string, n) ==
    /\ h = [i \in 0 .. n |-> h[i]]
    /\ h[0] = t
    /\ \A i \in 1 .. n : h[i] = Console!Screen!Character(Console!SizeOf(b), h[i - 1], string[i])

\* The recursion of TextScreen over a string has a value at each character.
LEMMA ShowingExists ==
    ASSUME NEW t, NEW b, NEW string, NEW n \in Nat
    PROVE  \E h : IsShowing(h, t, b, string, n)
<1> DEFINE T == {m \in 0 .. n : \E h : IsShowing(h, t, b, string, m)}
           s == Console!SizeOf(b)
<1>1. 0 \in T
  <2> DEFINE h == [i \in 0 .. 0 |-> t]
  <2>1. h = [i \in 0 .. 0 |-> h[i]] /\ h[0] = t /\ 1 .. 0 = {}
    OBVIOUS
  <2> HIDE DEF h
  <2>2. IsShowing(h, t, b, string, 0)
    BY <2>1, Zenon DEF IsShowing
  <2>3. 0 \in 0 .. n
    OBVIOUS
  <2> QED  BY <2>2, <2>3
<1>2. ASSUME NEW m \in 1 .. n, m - 1 \in T PROVE m \in T
  <2>1. PICK h : IsShowing(h, t, b, string, m - 1)
    BY <1>2
  <2> DEFINE last == Console!Screen!Character(s, h[m - 1], string[m])
             g == [i \in 0 .. m |-> IF i = m THEN last ELSE h[i]]
  <2>2. m \in 0 .. n /\ 0 \in 0 .. m /\ 0 # m
    OBVIOUS
  <2>3. \A i \in 1 .. m : i \in 0 .. m /\ i - 1 \in 0 .. m /\ i - 1 # m
    OBVIOUS
  <2>4. \A i \in 1 .. m : i # m => i \in 1 .. m - 1
    OBVIOUS
  <2>5. g = [i \in 0 .. m |-> g[i]] /\ g[0] = h[0]
    <3> HIDE DEF last
    <3> QED  BY <2>2
  <2>6. ASSUME NEW i \in 1 .. m PROVE g[i] = Console!Screen!Character(s, g[i - 1], string[i])
    <3>1. g[i - 1] = h[i - 1]
      BY <2>3, Zenon
    <3>2. CASE i = m
      BY <2>3, <3>1, <3>2, Zenon
    <3>3. CASE i # m
      <4>1. h[i] = Console!Screen!Character(s, h[i - 1], string[i])
        BY <2>1, <2>4, <3>3, Zenon DEF IsShowing
      <4> QED  BY <2>3, <3>1, <3>3, <4>1, Zenon
    <3> QED  BY <3>2, <3>3
  <2> HIDE DEF g
  <2>7. IsShowing(g, t, b, string, m)
    BY <2>1, <2>5, <2>6, Zenon DEF IsShowing
  <2> QED  BY <2>2, <2>7
<1>3. n \in 0 .. n
  OBVIOUS
<1>4. n \in T
  <2> HIDE DEF T
  <2> QED  BY <1>1, <1>2, <1>3, UpToInduction
<1> QED  BY <1>4

\* What a string shows on a text t.
IsPrinted(h, t, b, string) ==
    /\ h[0] = t /\ CharByChar(h, b, string)
    /\ Console!Screen!Printed(Console!SizeOf(b), t, string) = h[Len(string)]

LEMMA PrintedIs ==
    ASSUME NEW t, NEW b, NEW string, Len(string) \in Nat
    PROVE  \E h : IsPrinted(h, t, b, string)
<1> DEFINE n == Len(string)
           s == Console!SizeOf(b)
           Body(f, i) == IF i = 0 THEN t ELSE Console!Screen!Character(s, f[i - 1], string[i])
<1>1. /\ \A i \in 0 .. n : i # 0 => i \in 1 .. n
      /\ \A i \in 1 .. n : i \in 0 .. n /\ i # 0
      /\ 0 \in 0 .. n /\ n \in Nat
  OBVIOUS
<1> HIDE DEF n
<1>2. PICK f : IsShowing(f, t, b, string, n)
  BY <1>1, ShowingExists
<1>3. f = [i \in 0 .. n |-> Body(f, i)]
  <2>1. f = [i \in 0 .. n |-> f[i]]
    BY <1>2, Zenon DEF IsShowing
  <2>2. \A i \in 0 .. n : f[i] = Body(f, i)
    BY <1>1, <1>2, Zenon DEF IsShowing
  <2> HIDE DEF Body
  <2> QED  BY <2>1, <2>2, Zenon
<1>4. PICK h : /\ h = [i \in 0 .. n |-> Body(h, i)]
               /\ Console!Screen!Printed(s, t, string) = h[n]
  BY <1>3, Zenon DEF Console!Screen!Printed, n
<1>5. h = [i \in 0 .. n |-> h[i]] /\ \A i \in 0 .. n : h[i] = Body(h, i)
  <2> HIDE DEF Body
  <2> QED  BY <1>4, Zenon
<1>6. h[0] = t /\ CharByChar(h, b, string)
  BY <1>1, <1>5, Zenon DEF CharByChar, n
<1> QED  BY <1>4, <1>6, Zenon DEF IsPrinted, n

\* OutputString leaves the cursor on the screen, and shown; and the text is what the
\* characters show.
PrintedAs(st, printed, b) ==
    \E c \in 0 .. Console!MaxColumn(b) - 1, r \in 0 .. Console!MaxRow(b) - 1 : \E w, ch :
      DeviceIs(st, b, c, r, FALSE, ch, On(b, c, r)) /\ printed = Abstract(b, c, r, w, ch)

LEMMA OutputStringDevice ==
    ASSUME NEW b, Sized(b), NEW st, NEW S, NEW string \in Seq(S),
           NEW c \in 0 .. Console!MaxColumn(b) - 1, NEW r \in 0 .. Console!MaxRow(b) - 1, NEW ch,
           NEW w \in BOOLEAN, DeviceIs(st, b, c, r, w, ch, On(b, c, r))
    PROVE  PrintedAs(Console!OutputStringCall(st, string),
                     Console!Screen!Printed(Console!SizeOf(b), Abstract(b, c, r, w, ch), string),
                     b)
<1> DEFINE n == Len(string)
           m == 2 * Len(string)
           t0 == Abstract(b, c, r, w, ch)
           printed == Console!Screen!Printed(Console!SizeOf(b), t0, string)
<1>0. n \in Nat /\ m \in Nat /\ m \in 0 .. m /\ m = 2 * n
  OBVIOUS
<1>1. PICK f : /\ IsPrinting(f, st, string, m)
               /\ Console!OutputStringCall(st, string) =
                    Console!FlushCursor([f[m].st EXCEPT !.wide = FALSE])
  BY <1>0, OutputStringIs
<1>2. f[0] = [st |-> Console!FlushCursor(st), rest |-> string]
      /\ \A i \in 1 .. m : f[i] = Console!PrintNext(f[i - 1])
  BY <1>1, Zenon DEF IsPrinting
<1> HIDE DEF t0
<1>3. PICK h : IsPrinted(h, t0, b, string)
  BY <1>0, PrintedIs
<1>4. h[0] = t0 /\ CharByChar(h, b, string) /\ printed = h[n]
  BY <1>3, Zenon DEF IsPrinted
<1> HIDE DEF printed
<1> DEFINE T == {i \in 0 .. m : TurnAt(f[i], string, i, b, h)}
<1>5. 0 \in T
  <2>1. f[0].st = Console!FlushCursor(st) /\ f[0].rest = string
    BY <1>2
  <2>2. DeviceIs(f[0].st, b, c, r, w, ch, Off(b))
    BY <2>1, FlushOff
  <2>3. Printing(f[0].st, f[0].rest, b, c, r, w, ch, Off(b))
    BY <2>2 DEF Printing
  <2>4. f[0].rest = SubSeq(string, 0 + 1, n)
    BY <2>1
  <2>5. 0 \in 0 .. n /\ 0 \in 0 .. m /\ 0 <= 2 * 0
    BY <1>0
  <2>6. Follows(h[0], f[0].rest, b, c, r, w, ch)
    BY <1>4, Zenon DEF Follows, t0
  <2>7. TurnAt(f[0], string, 0, b, h)
    BY <2>3, <2>4, <2>5, <2>6, Zenon DEF TurnAt
  <2> QED  BY <2>5, <2>7
<1>6. ASSUME NEW i \in 1 .. m, i - 1 \in T PROVE i \in T
  <2>1. i - 1 \in Nat /\ (i - 1) + 1 = i /\ i \in 0 .. m
    BY <1>0
  <2>2. TurnAt(f[i - 1], string, i - 1, b, h)
    BY <1>6
  <2>3. TurnAt(Console!PrintNext(f[i - 1]), string, (i - 1) + 1, b, h)
    BY <1>4, <2>1, <2>2, TurnAtNext
  <2>4. TurnAt(f[i], string, i, b, h)
    BY <1>2, <2>1, <2>3, Zenon
  <2> QED  BY <2>1, <2>4
<1>7. m \in T
  <2> HIDE DEF T, m
  <2> QED  BY <1>0, <1>5, <1>6, UpToInduction
<1>8. TurnAt(f[m], string, m, b, h)
  <2> HIDE DEF m
  <2> QED  BY <1>7
<1> HIDE DEF m
<1>9. PICK j, c2, r2, w2, ch2, x2 :
        /\ j \in 0 .. n
        /\ f[m].rest = SubSeq(string, j + 1, n)
        /\ Printing(f[m].st, f[m].rest, b, c2, r2, w2, ch2, x2)
        /\ Follows(h[j], f[m].rest, b, c2, r2, w2, ch2)
        /\ f[m].rest = << >> \/ m <= 2 * j \/ (c2 = 0 /\ m <= 2 * j + 1)
  BY <1>8, Zenon DEF TurnAt
<1>10. f[m].rest = << >> /\ j = n
  <2>1. f[m].rest = << >> <=> j = n
    <3>1. j \in 0 .. Len(string) /\ f[m].rest = SubSeq(string, j + 1, Len(string))
      BY <1>9 DEF n
    <3>2. SubSeq(string, j + 1, Len(string)) = << >> <=> j = Len(string)
      BY <3>1, RestIs
    <3> QED  BY <3>1, <3>2, Zenon DEF n
  <2>2. f[m].rest # << >> => j = n
    BY <1>0, <1>9
  <2> QED  BY <2>1, <2>2
<1>11. /\ c2 \in 0 .. Console!MaxColumn(b) - 1 /\ r2 \in 0 .. Console!MaxRow(b) - 1
       /\ DeviceIs(f[m].st, b, c2, r2, w2, ch2, Off(b))
  BY <1>9, <1>10, Zenon DEF Printing
<1>12. printed = Abstract(b, c2, r2, w2, ch2)
  BY <1>9, <1>10, <1>4, Zenon DEF Follows
<1> DEFINE t == [f[m].st EXCEPT !.wide = FALSE]
<1>13. DeviceIs(t, b, c2, r2, FALSE, ch2, Off(b))
  BY <1>11, DeviceExcept
<1> HIDE DEF t
<1>14. DeviceIs(Console!FlushCursor(t), b, c2, r2, FALSE, ch2, On(b, c2, r2))
  BY <1>13, FlushOn
<1> QED  BY <1>1, <1>11, <1>14, <1>12, Zenon DEF PrintedAs, t, printed, t0

-----------------------------------------------------------------------------
(* The text modes on a screen, and the choice of the graphics mode.        *)

ModesFit(modes, resolution) ==
    /\ modes \in Seq(Nat \X Nat) /\ Distinct(modes)
    /\ \A n \in 1 .. Len(modes) :
         /\ Console!FitsOn(modes[n], resolution)
         /\ modes[n] # Console!Unsupported => modes[n][1] >= 2 /\ modes[n][2] >= 1

\* A mode is added if it fits and is new.
AddMode(modes, s, resolution) ==
    IF Console!FitsOn(s, resolution) /\ s \notin Console!ToSet(modes)
    THEN Append(modes, s) ELSE modes

IsAdding(f, sizes, first, resolution, n) ==
    /\ f = [i \in 0 .. n |-> f[i]] /\ f[0] = first
    /\ \A i \in 1 .. n : f[i] = AddMode(f[i - 1], sizes[i], resolution)

\* The loop over the table of text modes has a value at each turn.
LEMMA AddingExists ==
    ASSUME NEW sizes, NEW first, NEW resolution, NEW n \in Nat
    PROVE  \E f : IsAdding(f, sizes, first, resolution, n)
<1> DEFINE T == {m \in 0 .. n : \E f : IsAdding(f, sizes, first, resolution, m)}
<1>1. 0 \in T
  <2> DEFINE f == [i \in 0 .. 0 |-> first]
  <2>1. f = [i \in 0 .. 0 |-> f[i]] /\ f[0] = first /\ 1 .. 0 = {}
    OBVIOUS
  <2> HIDE DEF f
  <2>2. IsAdding(f, sizes, first, resolution, 0)
    BY <2>1, Zenon DEF IsAdding
  <2>3. 0 \in 0 .. n
    OBVIOUS
  <2> QED  BY <2>2, <2>3
<1>2. ASSUME NEW m \in 1 .. n, m - 1 \in T PROVE m \in T
  <2>1. PICK f : IsAdding(f, sizes, first, resolution, m - 1)
    BY <1>2
  <2> DEFINE last == AddMode(f[m - 1], sizes[m], resolution)
             g == [i \in 0 .. m |-> IF i = m THEN last ELSE f[i]]
  <2>2. m \in 0 .. n /\ 0 \in 0 .. m /\ 0 # m
    OBVIOUS
  <2>3. \A i \in 1 .. m : i \in 0 .. m /\ i - 1 \in 0 .. m /\ i - 1 # m
    OBVIOUS
  <2>4. \A i \in 1 .. m : i # m => i \in 1 .. m - 1
    OBVIOUS
  <2>5. g = [i \in 0 .. m |-> g[i]] /\ g[0] = f[0]
    <3> HIDE DEF last
    <3> QED  BY <2>2
  <2>6. ASSUME NEW i \in 1 .. m PROVE g[i] = AddMode(g[i - 1], sizes[i], resolution)
    <3>1. g[i - 1] = f[i - 1]
      BY <2>3, Zenon
    <3>2. CASE i = m
      BY <2>3, <3>1, <3>2, Zenon
    <3>3. CASE i # m
      <4>1. f[i] = AddMode(f[i - 1], sizes[i], resolution)
        BY <2>1, <2>4, <3>3, Zenon DEF IsAdding
      <4> QED  BY <2>3, <3>1, <3>3, <4>1, Zenon
    <3> QED  BY <3>2, <3>3
  <2> HIDE DEF g
  <2>7. IsAdding(g, sizes, first, resolution, m)
    BY <2>1, <2>5, <2>6, Zenon DEF IsAdding
  <2> QED  BY <2>2, <2>7
<1>3. n \in 0 .. n
  OBVIOUS
<1>4. n \in T
  <2> HIDE DEF T
  <2> QED  BY <1>1, <1>2, <1>3, UpToInduction
<1> QED  BY <1>4

Extended(resolution) ==
    IF Console!FitsOn(ExtendedSize, resolution) THEN ExtendedSize ELSE Console!Unsupported

LEMMA TextModeIsAdding ==
    ASSUME NEW resolution, NEW sizes, sizes = Append(ModeTable, resolution), Len(sizes) \in Nat
    PROVE  \E f : /\ IsAdding(f, sizes, <<BaseSize, Extended(resolution)>>, resolution, Len(sizes))
                  /\ Console!InitializeGraphicsConsoleTextMode(resolution) = f[Len(sizes)]
<1> DEFINE n == Len(sizes)
           first == <<BaseSize, Extended(resolution)>>
           Body(f, i) == IF i = 0 THEN first
             ELSE IF Console!FitsOn(sizes[i], resolution)
                       /\ sizes[i] \notin Console!ToSet(f[i - 1])
                  THEN Append(f[i - 1], sizes[i]) ELSE f[i - 1]
<1>1. \A i \in 0 .. n : i # 0 => i \in 1 .. n
  OBVIOUS
<1>2. \A i \in 1 .. n : i \in 0 .. n /\ i # 0
  OBVIOUS
<1>3. 0 \in 0 .. n
  OBVIOUS
<1> HIDE DEF n
<1>4. \A f, i : /\ i = 0 => Body(f, i) = first
                /\ i # 0 => Body(f, i) = AddMode(f[i - 1], sizes[i], resolution)
  BY Zenon DEF AddMode
<1>5. PICK f : IsAdding(f, sizes, first, resolution, n)
  BY AddingExists, Zenon DEF n
<1>6. f = [i \in 0 .. n |-> Body(f, i)]
  <2>1. f = [i \in 0 .. n |-> f[i]]
    BY <1>5, Zenon DEF IsAdding
  <2> HIDE DEF Body
  <2>2. \A i \in 0 .. n : f[i] = Body(f, i)
    BY <1>1, <1>4, <1>5, Zenon DEF IsAdding
  <2> QED  BY <2>1, <2>2, Zenon
<1>7. PICK h : /\ h = [i \in 0 .. n |-> Body(h, i)]
               /\ Console!InitializeGraphicsConsoleTextMode(resolution) = h[n]
  BY <1>6, Zenon DEF Console!InitializeGraphicsConsoleTextMode, n, Extended
<1> HIDE DEF Body
<1>8. h = [i \in 0 .. n |-> h[i]] /\ \A i \in 0 .. n : h[i] = Body(h, i)
  BY <1>7, Zenon
<1>9. IsAdding(h, sizes, first, resolution, n)
  BY <1>2, <1>3, <1>4, <1>8, Zenon DEF IsAdding
<1> QED  BY <1>7, <1>9, Zenon DEF n

LEMMA ConsoleFacts ==
    /\ GopModes \in Seq(Nat \X Nat) /\ DOMAIN GopModes = 1 .. Len(GopModes)
    /\ 1 \in DOMAIN GopModes /\ ModeTable \in Seq(Nat \X Nat)
    /\ {PcdResolution, DefaultResolution, BaseSize, ExtendedSize} \subseteq Nat \X Nat
    /\ BaseSize[1] >= 2 /\ BaseSize[2] >= 1 /\ ExtendedSize[1] >= 2 /\ ExtendedSize[2] >= 1
    /\ ExtendedSize # BaseSize
    /\ \A i \in 1 .. Len(ModeTable) : ModeTable[i][1] >= 2 /\ ModeTable[i][2] >= 1
    /\ \A n \in DOMAIN GopModes : Console!FitsOn(BaseSize, GopModes[n])
    /\ \A string \in Strings \union {Greeting} : string \in Seq(Console!ToSet(string))
<1>1. Console!ConsoleAssumption
  BY PlatformAssumption
<1>2. /\ 1 \in DOMAIN GopModes /\ GopModes \in Seq(Nat \X Nat)
      /\ {PcdResolution, DefaultResolution, BaseSize, ExtendedSize} \subseteq Nat \X Nat
      /\ ModeTable \in Seq(Nat \X Nat) /\ ExtendedSize # BaseSize
      /\ \A s \in {BaseSize, ExtendedSize} \union Console!ToSet(ModeTable) : s[1] >= 2 /\ s[2] >= 1
      /\ \A n \in DOMAIN GopModes : Console!FitsOn(BaseSize, GopModes[n])
      /\ \A string \in Strings \union {Greeting} : string \in Seq(Console!ToSet(string))
  BY <1>1 DEF Console!ConsoleAssumption
<1>3. \A i \in 1 .. Len(ModeTable) : ModeTable[i] \in Console!ToSet(ModeTable)
  <2>1. DOMAIN ModeTable = 1 .. Len(ModeTable)
    BY <1>2
  <2>2. \A i \in DOMAIN ModeTable : ModeTable[i] \in Console!ToSet(ModeTable)
    BY DEF Console!ToSet
  <2> QED  BY <2>1, <2>2, Zenon
<1>4. DOMAIN GopModes = 1 .. Len(GopModes)
  BY <1>2
<1>5. /\ BaseSize[1] >= 2 /\ BaseSize[2] >= 1 /\ ExtendedSize[1] >= 2 /\ ExtendedSize[2] >= 1
      /\ \A i \in 1 .. Len(ModeTable) : ModeTable[i][1] >= 2 /\ ModeTable[i][2] >= 1
  <2>1. \A s \in {BaseSize, ExtendedSize} : s[1] >= 2 /\ s[2] >= 1
    BY <1>2
  <2>2. \A s \in Console!ToSet(ModeTable) : s[1] >= 2 /\ s[2] >= 1
    BY <1>2
  <2>3. BaseSize \in {BaseSize, ExtendedSize} /\ ExtendedSize \in {BaseSize, ExtendedSize}
    OBVIOUS
  <2> QED  BY <1>3, <2>1, <2>2, <2>3, Zenon
<1> QED  BY <1>2, <1>4, <1>5, Zenon

LEMMA AddModeFits ==
    ASSUME NEW modes, NEW resolution, ModesFit(modes, resolution), NEW s \in Nat \X Nat,
           s[1] >= 2, s[2] >= 1, Len(modes) >= 2, modes[1] = BaseSize
    PROVE  LET new == AddMode(modes, s, resolution)
           IN  ModesFit(new, resolution) /\ Len(new) >= 2 /\ new[1] = BaseSize
<1> DEFINE new == Append(modes, s)
<1>1. Console!ToSet(modes) = ToSet(modes)
  BY Zenon DEF Console!ToSet, ToSet
<1>2. CASE ~(Console!FitsOn(s, resolution) /\ s \notin Console!ToSet(modes))
  <2>1. AddMode(modes, s, resolution) = modes
    BY <1>2, Zenon DEF AddMode
  <2> QED  BY <2>1
<1>3. CASE Console!FitsOn(s, resolution) /\ s \notin Console!ToSet(modes)
  <2>1. AddMode(modes, s, resolution) = new
    BY <1>3, Zenon DEF AddMode
  <2>2. modes \in Seq(Nat \X Nat) /\ Len(modes) \in Nat
    BY DEF ModesFit
  <2>3. /\ new \in Seq(Nat \X Nat) /\ Len(new) = Len(modes) + 1
        /\ \A n \in 1 .. Len(modes) : new[n] = modes[n]
        /\ new[Len(modes) + 1] = s
    BY <2>2
  <2>4. Distinct(new)
    <3>1. Distinct(modes) /\ s \notin ToSet(modes)
      BY <1>1, <1>3 DEF ModesFit
    <3> DEFINE P == Nat \X Nat
    <3>2. modes \in Seq(P) /\ s \in P
      BY <2>2
    <3> HIDE DEF P
    <3> QED  BY <3>1, <3>2, DistinctAppend
  <2> HIDE DEF new
  <2>5. ASSUME NEW n \in 1 .. Len(new)
        PROVE  /\ Console!FitsOn(new[n], resolution)
               /\ new[n] # Console!Unsupported => new[n][1] >= 2 /\ new[n][2] >= 1
    <3>1. CASE n = Len(modes) + 1
      BY <1>3, <2>3, <3>1
    <3>2. CASE n # Len(modes) + 1
      <4>1. n \in 1 .. Len(modes)
        BY <2>2, <2>3, <3>2
      <4>2. new[n] = modes[n]
        BY <2>3, <4>1
      <4> QED  BY <4>1, <4>2 DEF ModesFit
    <3> QED  BY <3>1, <3>2
  <2>6. new[1] = BaseSize /\ Len(new) >= 2
    <3>1. 1 \in 1 .. Len(modes) /\ Len(modes) + 1 >= 2
      BY <2>2
    <3>2. new[1] = modes[1]
      BY <2>3, <3>1
    <3> QED  BY <2>3, <3>1, <3>2
  <2>7. ModesFit(new, resolution)
    BY <2>3, <2>4, <2>5, Zenon DEF ModesFit
  <2> QED  BY <2>1, <2>6, <2>7
<1> QED  BY <1>2, <1>3

\* The text modes fit the screen, and no size comes twice.
LEMMA TextModesAre ==
    ASSUME NEW g \in DOMAIN GopModes
    PROVE  LET modes == Console!InitializeGraphicsConsoleTextMode(GopModes[g])
           IN  ModesFit(modes, GopModes[g]) /\ Len(modes) >= 2 /\ modes[1] = BaseSize
<1> DEFINE resolution == GopModes[g]
           sizes == Append(ModeTable, resolution)
           extended == Extended(resolution)
           first == <<BaseSize, extended>>
           n == Len(sizes)
<1>1. /\ resolution \in Nat \X Nat /\ BaseSize \in Nat \X Nat /\ ExtendedSize \in Nat \X Nat
      /\ Console!FitsOn(BaseSize, resolution) /\ BaseSize[1] >= 2 /\ BaseSize[2] >= 1
      /\ ExtendedSize[1] >= 2 /\ ExtendedSize[2] >= 1 /\ ExtendedSize # BaseSize
  BY ConsoleFacts
<1>2. resolution[1] >= 2 /\ resolution[2] >= 1 /\ resolution[1] \in Nat /\ resolution[2] \in Nat
  BY <1>1 DEF Console!FitsOn
<1> HIDE DEF resolution
<1>3. /\ sizes \in Seq(Nat \X Nat) /\ n \in Nat /\ n = Len(ModeTable) + 1
      /\ \A i \in 1 .. Len(ModeTable) : sizes[i] = ModeTable[i]
      /\ sizes[Len(ModeTable) + 1] = resolution /\ Len(ModeTable) \in Nat
  <2>1. ModeTable \in Seq(Nat \X Nat) /\ Len(ModeTable) \in Nat
    BY ConsoleFacts
  <2> QED  BY <1>1, <2>1, SMTT(60)
<1>4. \A i \in 1 .. n : sizes[i] \in Nat \X Nat /\ sizes[i][1] >= 2 /\ sizes[i][2] >= 1
  <2> HIDE DEF sizes
  <2> TAKE i \in 1 .. n
  <2>1. CASE i = Len(ModeTable) + 1
    BY <1>1, <1>2, <1>3, <2>1
  <2>2. CASE i # Len(ModeTable) + 1
    <3>1. i \in 1 .. Len(ModeTable)
      BY <1>3, <2>2
    <3>2. sizes[i] = ModeTable[i]
      BY <1>3, <3>1
    <3>3. ModeTable[i] \in Nat \X Nat
      BY <3>1, ConsoleFacts
    <3>4. ModeTable[i][1] >= 2 /\ ModeTable[i][2] >= 1
      BY <3>1, ConsoleFacts, Zenon
    <3> QED  BY <3>2, <3>3, <3>4, Zenon
  <2> QED  BY <2>1, <2>2
<1>5. /\ extended \in Nat \X Nat /\ extended # BaseSize /\ Console!FitsOn(extended, resolution)
      /\ extended # Console!Unsupported => extended[1] >= 2 /\ extended[2] >= 1
  <2>1. CASE Console!FitsOn(ExtendedSize, resolution)
    BY <1>1, <2>1 DEF Extended
  <2>2. CASE ~Console!FitsOn(ExtendedSize, resolution)
    <3>1. extended = <<0, 0>>
      BY <2>2 DEF Extended, Console!Unsupported
    <3>2. <<0, 0>>[1] = 0 /\ <<0, 0>>[2] = 0 /\ <<0, 0>> \in Nat \X Nat
      OBVIOUS
    <3> QED  BY <1>1, <1>2, <3>1, <3>2 DEF Console!Unsupported, Console!FitsOn
  <2> QED  BY <2>1, <2>2
<1> HIDE DEF extended
<1>6. ModesFit(first, resolution) /\ Len(first) >= 2 /\ first[1] = BaseSize
  <2>1. /\ first \in Seq(Nat \X Nat) /\ Len(first) = 2 /\ first[1] = BaseSize
        /\ first[2] = extended
    BY <1>1, <1>5
  <2> HIDE DEF first
  <2>2. \A i \in 1 .. 2 : i = 1 \/ i = 2
    OBVIOUS
  <2>3. Distinct(first)
    BY <1>5, <2>1, <2>2 DEF Distinct
  <2>4. \A i \in 1 .. Len(first) :
          /\ Console!FitsOn(first[i], resolution)
          /\ first[i] # Console!Unsupported => first[i][1] >= 2 /\ first[i][2] >= 1
    BY <1>1, <1>5, <2>1, <2>2
  <2> QED  BY <2>1, <2>3, <2>4 DEF ModesFit
<1> HIDE DEF first
<1>7. PICK f : /\ IsAdding(f, sizes, first, resolution, n)
               /\ Console!InitializeGraphicsConsoleTextMode(resolution) = f[n]
  BY <1>3, TextModeIsAdding DEF first, extended
<1> DEFINE T == {i \in 0 .. n : ModesFit(f[i], resolution) /\ Len(f[i]) >= 2
                                /\ f[i][1] = BaseSize}
<1> HIDE DEF n, sizes
<1>8. 0 \in T
  <2>1. f[0] = first /\ 0 \in 0 .. n
    BY <1>3, <1>7 DEF IsAdding
  <2> QED  BY <1>6, <2>1
<1>9. ASSUME NEW i \in 1 .. n, i - 1 \in T PROVE i \in T
  <2>1. f[i] = AddMode(f[i - 1], sizes[i], resolution)
    BY <1>7 DEF IsAdding
  <2>2. i \in 0 .. n
    BY <1>3
  <2>3. /\ ModesFit(f[i - 1], resolution) /\ Len(f[i - 1]) >= 2 /\ f[i - 1][1] = BaseSize
        /\ sizes[i] \in Nat \X Nat /\ sizes[i][1] >= 2 /\ sizes[i][2] >= 1
    BY <1>4, <1>9
  <2> QED  BY <2>1, <2>2, <2>3, AddModeFits
<1>10. n \in T
  <2>1. n \in 0 .. n
    BY <1>3
  <2> HIDE DEF T
  <2> QED  BY <1>3, <1>8, <1>9, <2>1, UpToInduction
<1> QED  BY <1>7, <1>10 DEF resolution

Largest(n, k) ==
    \A m \in 1 .. k : /\ ~Console!IsLarger(GopModes[m], GopModes[n])
                      /\ m < n => Console!IsLarger(GopModes[n], GopModes[m])

LEMMA LargestExists == \E n \in DOMAIN GopModes : Largest(n, Len(GopModes))
<1> DEFINE N == Len(GopModes)
           T == {k \in 0 .. N : k = 0 \/ \E n \in 1 .. k : Largest(n, k)}
<1>1. /\ N \in Nat /\ N >= 1 /\ DOMAIN GopModes = 1 .. N
      /\ \A n \in 1 .. N : GopModes[n][1] \in Nat /\ GopModes[n][2] \in Nat
  BY ConsoleFacts
<1> HIDE DEF N
<1>2. 0 \in T
  BY <1>1
<1>3. ASSUME NEW k \in 1 .. N, k - 1 \in T PROVE k \in T
  <2>1. k \in 0 .. N /\ k \in 1 .. k
    BY <1>1
  <2>2. CASE k = 1
    <3>1. Largest(1, 1)
      <4>1. ~Console!IsLarger(GopModes[1], GopModes[1])
        BY <1>1 DEF Console!IsLarger
      <4>2. \A m \in 1 .. 1 : m = 1 /\ ~(m < 1)
        OBVIOUS
      <4> QED  BY <4>1, <4>2, Zenon DEF Largest
    <3> QED  BY <2>1, <2>2, <3>1
  <2>3. CASE k # 1
    <3>1. k - 1 # 0
      BY <2>3
    <3>2. PICK n \in 1 .. k - 1 : Largest(n, k - 1)
      BY <1>3, <3>1
    <3>3. \A m \in 1 .. k : m # k => m \in 1 .. k - 1
      OBVIOUS
    <3>4. n \in 1 .. N /\ n \in 1 .. k /\ n < k /\ ~(k < n) /\ ~(k < k)
      BY <1>1
    <3> DEFINE larger(m, l) == Console!IsLarger(GopModes[m], GopModes[l])
    <3>5. /\ \A i \in 1 .. N : ~larger(i, i)
          /\ \A i, j \in 1 .. N : larger(i, j) => ~larger(j, i)
          /\ \A i, j, l \in 1 .. N : larger(i, j) /\ ~larger(l, j) => larger(i, l)
      <4>1. \A x1, x2, y1, y2, z1, z2 \in Nat :
              /\ ~(x1 > x1 \/ (x1 = x1 /\ x2 > x2))
              /\ (x1 > y1 \/ (x1 = y1 /\ x2 > y2)) => ~(y1 > x1 \/ (y1 = x1 /\ y2 > x2))
              /\ (x1 > y1 \/ (x1 = y1 /\ x2 > y2)) /\ ~(z1 > y1 \/ (z1 = y1 /\ z2 > y2))
                   => (x1 > z1 \/ (x1 = z1 /\ x2 > z2))
        OBVIOUS
      <4>2. \A i, j : larger(i, j) <=>
              (GopModes[i][1] > GopModes[j][1]
                 \/ (GopModes[i][1] = GopModes[j][1] /\ GopModes[i][2] > GopModes[j][2]))
        BY Zenon DEF Console!IsLarger
      <4> HIDE DEF larger
      <4>3. \A i \in 1 .. N : ~larger(i, i)
        BY <1>1, <4>1, <4>2, Zenon
      <4>4. ASSUME NEW i \in 1 .. N, NEW j \in 1 .. N, larger(i, j) PROVE ~larger(j, i)
        <5>1. /\ GopModes[i][1] \in Nat /\ GopModes[i][2] \in Nat
              /\ GopModes[j][1] \in Nat /\ GopModes[j][2] \in Nat
          BY <1>1
        <5> QED  BY <4>2, <4>4, <5>1
      <4>5. ASSUME NEW i \in 1 .. N, NEW j \in 1 .. N, NEW l \in 1 .. N,
                   larger(i, j), ~larger(l, j)
            PROVE  larger(i, l)
        <5>1. /\ GopModes[i][1] \in Nat /\ GopModes[i][2] \in Nat
              /\ GopModes[j][1] \in Nat /\ GopModes[j][2] \in Nat
              /\ GopModes[l][1] \in Nat /\ GopModes[l][2] \in Nat
          BY <1>1
        <5> QED  BY <4>2, <4>5, <5>1
      <4> QED  BY <4>3, <4>4, <4>5, Zenon
    <3>6. \A m \in 1 .. k - 1 : m \in 1 .. N /\ ~larger(m, n) /\ (m < n => larger(n, m))
      <4>1. \A m \in 1 .. k - 1 : m \in 1 .. N
        BY <1>1
      <4> QED  BY <3>2, <4>1, Zenon DEF Largest
    <3>7. CASE larger(k, n)
      <4>1. \A m \in 1 .. k : ~larger(m, k) /\ (m < k => larger(k, m))
        <5> HIDE DEF larger
        <5> QED  BY <3>3, <3>4, <3>5, <3>6, <3>7, Zenon
      <4>2. Largest(k, k)
        BY <4>1, Zenon DEF Largest
      <4> QED  BY <2>1, <4>2
    <3>8. CASE ~larger(k, n)
      <4>1. \A m \in 1 .. k : ~larger(m, n) /\ (m < n => larger(n, m))
        <5> HIDE DEF larger
        <5> QED  BY <3>3, <3>4, <3>6, <3>8, Zenon
      <4>2. Largest(n, k)
        BY <4>1, Zenon DEF Largest
      <4> QED  BY <2>1, <3>4, <4>2
    <3> QED  BY <3>7, <3>8
  <2> QED  BY <2>2, <2>3
<1>4. N \in T
  <2>1. N \in 0 .. N
    BY <1>1
  <2> HIDE DEF T
  <2> QED  BY <1>1, <1>2, <1>3, <2>1, UpToInduction
<1>5. \E n \in 1 .. N : Largest(n, N)
  BY <1>1, <1>4
<1> QED  BY <1>1, <1>5, Zenon DEF N

LEMMA CheckModeFacts ==
    ASSUME NEW mode, NEW refused, NEW resolution
    PROVE  LET n == Console!CheckModeSupported(mode, refused, resolution)
           IN  n # 0 => n \in DOMAIN GopModes
<1> DEFINE n == Console!CheckModeSupported(mode, refused, resolution)
           all == [k \in DOMAIN GopModes |-> k]
           OK(k) == GopModes[k] = resolution /\ (GopModes[mode] = resolution \/ k \notin refused)
           I == {i \in 1 .. Len(all) : OK(all[i])}
<1>1. DOMAIN GopModes = 1 .. Len(GopModes) /\ Len(GopModes) \in Nat
  BY ConsoleFacts
<1>2. Len(all) = Len(GopModes)
  BY <1>1
<1>3. n = IF I # {} THEN Min(I) ELSE 0
  BY Zenon DEF Console!CheckModeSupported, Console!SelectInSeq, Console!Min, Min
<1> HIDE DEF n, all, OK
<1>4. I \subseteq Nat
  OBVIOUS
<1>5. CASE I # {}
  <2>1. Min(I) \in I
    <3> HIDE DEF I
    <3> QED  BY <1>4, <1>5, MinFacts
  <2>2. n \in 1 .. Len(all)
    BY <1>3, <1>5, <2>1
  <2> QED  BY <1>1, <1>2, <2>2 DEF n
<1>6. CASE I = {}
  <2>1. n = 0
    BY <1>3, <1>6, Zenon
  <2> QED  BY <2>1 DEF n
<1> QED  BY <1>5, <1>6

\* The graphics mode that Start chooses is one of those there are.
LEMMA ChosenModeIsOne ==
    ASSUME NEW mode \in DOMAIN GopModes, NEW refused
    PROVE  Console!ChosenMode(mode, refused) \in DOMAIN GopModes
<1> DEFINE preferred == Console!CheckModeSupported(mode, refused, PcdResolution)
           fallback == Console!CheckModeSupported(mode, refused, DefaultResolution)
           best == CHOOSE n \in DOMAIN GopModes : \A m \in DOMAIN GopModes :
                     /\ ~Console!IsLarger(GopModes[m], GopModes[n])
                     /\ m < n => Console!IsLarger(GopModes[n], GopModes[m])
<1>1. best \in DOMAIN GopModes
  <2>1. \E n \in DOMAIN GopModes : \A m \in DOMAIN GopModes :
          /\ ~Console!IsLarger(GopModes[m], GopModes[n])
          /\ m < n => Console!IsLarger(GopModes[n], GopModes[m])
    BY LargestExists, ConsoleFacts, Zenon DEF Largest
  <2> QED  BY <2>1, Zenon
<1>2. /\ preferred # 0 => preferred \in DOMAIN GopModes
      /\ fallback # 0 => fallback \in DOMAIN GopModes
  BY CheckModeFacts, Zenon
<1>3. \/ Console!ChosenMode(mode, refused) = best
      \/ preferred # 0 /\ Console!ChosenMode(mode, refused) = preferred
      \/ fallback # 0 /\ Console!ChosenMode(mode, refused) = fallback
      \/ Console!ChosenMode(mode, refused) = mode
  BY Zenon DEF Console!ChosenMode
<1> HIDE DEF preferred, fallback, best
<1> QED  BY <1>1, <1>2, <1>3

-----------------------------------------------------------------------------
(* Between the operations: the settings of an installed device, and what   *)
(* it shows.                                                               *)

SettingsOK(d, g) ==
    /\ Sized(d) /\ d.resolution = GopModes[g] /\ Console!SizeOf(d) # Console!Unsupported
    /\ d.ModeData = Console!InitializeGraphicsConsoleTextMode(GopModes[g])
    /\ ModesFit(d.ModeData, d.resolution) /\ Len(d.ModeData) >= 2 /\ d.ModeData[1] = BaseSize
    /\ d.Mode \in 0 .. Len(d.ModeData) - 1
    /\ d.LineBuffer = "held" /\ d.failed = FALSE

Shown(d, c, r, ch) ==
    /\ c \in 0 .. Console!MaxColumn(d) - 1 /\ r \in 0 .. Console!MaxRow(d) - 1
    /\ DeviceIs(d, d, c, r, FALSE, ch, On(d, c, r))

\* What of a device the settings depend on.
LEMMA SettingsSame ==
    ASSUME NEW b, NEW g, SettingsOK(b, g), NEW d,
           d.ModeData = b.ModeData, d.resolution = b.resolution, d.Mode = b.Mode,
           d.CursorVisible \in BOOLEAN, d.LineBuffer = b.LineBuffer, d.failed = b.failed
    PROVE  SettingsOK(d, g)
<1>1. Console!SizeOf(d) = Console!SizeOf(b)
  BY DEF Console!SizeOf
<1>2. Sized(d)
  BY <1>1, Zenon DEF SettingsOK, Sized
<1> QED  BY <1>1, <1>2, Zenon DEF SettingsOK

\* A device is like itself.
LEMMA RebaseOn ==
    ASSUME NEW st, NEW b, NEW c, NEW r, NEW w, NEW ch, DeviceIs(st, b, c, r, w, ch, On(b, c, r))
    PROVE  DeviceIs(st, st, c, r, w, ch, On(st, c, r))
<1>1. SameSettings(st, b) /\ SameSettings(st, st)
  BY DEF DeviceIs, SameSettings
<1>2. Console!At(st, c, r) = Console!At(b, c, r)
  BY <1>1, SameSize
<1>3. On(st, c, r) = On(b, c, r)
  BY <1>1, <1>2, Zenon DEF On, SameSettings
<1> QED  BY <1>1, <1>3, Zenon DEF DeviceIs, SameSettings

LEMMA RebaseShown ==
    ASSUME NEW b, NEW g, SettingsOK(b, g), NEW st, NEW ch,
           NEW c \in 0 .. Console!MaxColumn(b) - 1, NEW r \in 0 .. Console!MaxRow(b) - 1,
           DeviceIs(st, b, c, r, FALSE, ch, On(b, c, r))
    PROVE  SettingsOK(st, g) /\ Shown(st, c, r, ch)
<1>1. SameSettings(st, b)
  BY DEF DeviceIs
<1>2. b.CursorVisible \in BOOLEAN
  BY DEF SettingsOK, Sized
<1>3. SettingsOK(st, g)
  BY <1>1, <1>2, SettingsSame DEF SameSettings
<1>4. Console!MaxColumn(st) = Console!MaxColumn(b) /\ Console!MaxRow(st) = Console!MaxRow(b)
  BY <1>1, SameSize
<1>5. DeviceIs(st, st, c, r, FALSE, ch, On(st, c, r))
  BY RebaseOn
<1> QED  BY <1>3, <1>4, <1>5, Zenon DEF Shown

\* The end of an operation: an error is reported, and forgotten.
LEMMA ForgetIs ==
    ASSUME NEW st, NEW b, NEW c, NEW r, NEW w, NEW ch, NEW x, NEW v,
           b.failed = FALSE, DeviceIs(st, b, c, r, w, ch, x)
    PROVE  /\ DeviceIs([st EXCEPT !.failed = FALSE], b, c, r, w, ch, x)
           /\ DeviceIs([[st EXCEPT !.failed = v] EXCEPT !.failed = FALSE], b, c, r, w, ch, x)
<1>1. DeviceIs([st EXCEPT !.failed = FALSE], b, c, r, w, ch, x)
  BY DEF DeviceIs, DeviceFields, SameSettings
<1>2. [[st EXCEPT !.failed = v] EXCEPT !.failed = FALSE] = [st EXCEPT !.failed = FALSE]
  BY DEF DeviceIs, DeviceFields
<1> QED  BY <1>1, <1>2, Zenon

LEMMA ShownEnds ==
    ASSUME NEW d, NEW g, SettingsOK(d, g), NEW c, NEW r, NEW ch, Shown(d, c, r, ch), NEW v
    PROVE  /\ SettingsOK([d EXCEPT !.failed = FALSE], g)
           /\ Shown([d EXCEPT !.failed = FALSE], c, r, ch)
           /\ SettingsOK([[d EXCEPT !.failed = v] EXCEPT !.failed = FALSE], g)
           /\ Shown([[d EXCEPT !.failed = v] EXCEPT !.failed = FALSE], c, r, ch)
           /\ SameSettings([d EXCEPT !.failed = FALSE], d)
           /\ SameSettings([[d EXCEPT !.failed = v] EXCEPT !.failed = FALSE], d)
<1> DEFINE d1 == [d EXCEPT !.failed = FALSE]
           d2 == [[d EXCEPT !.failed = v] EXCEPT !.failed = FALSE]
<1>1. d.failed = FALSE /\ DeviceIs(d, d, c, r, FALSE, ch, On(d, c, r))
      /\ c \in 0 .. Console!MaxColumn(d) - 1 /\ r \in 0 .. Console!MaxRow(d) - 1
  BY DEF SettingsOK, Shown
<1>2. DeviceIs(d1, d, c, r, FALSE, ch, On(d, c, r)) /\ DeviceIs(d2, d, c, r, FALSE, ch, On(d, c, r))
  BY <1>1, ForgetIs
<1> HIDE DEF d1, d2
<1>3. SettingsOK(d1, g) /\ Shown(d1, c, r, ch) /\ SettingsOK(d2, g) /\ Shown(d2, c, r, ch)
  BY <1>1, <1>2, RebaseShown
<1>4. SameSettings(d1, d) /\ SameSettings(d2, d)
  BY <1>2 DEF DeviceIs
<1> QED  BY <1>3, <1>4 DEF d1, d2

\* Settings that change while the cursor is not shown.
LEMMA ColourIs ==
    ASSUME NEW st, NEW b, NEW g, SettingsOK(b, g), NEW c, NEW r, NEW w, NEW ch, NEW v,
           DeviceIs(st, b, c, r, w, ch, Off(b))
    PROVE  LET t == [st EXCEPT !.Attribute = v]
           IN  SettingsOK(t, g) /\ DeviceIs(t, t, c, r, w, ch, Off(t))
               /\ Console!SizeOf(t) = Console!SizeOf(b)
<1> DEFINE t == [st EXCEPT !.Attribute = v]
<1>1. /\ DOMAIN t = DeviceFields
      /\ t.ModeData = b.ModeData /\ t.resolution = b.resolution /\ t.Mode = b.Mode
      /\ t.CursorVisible = b.CursorVisible /\ t.LineBuffer = b.LineBuffer
      /\ t.failed = b.failed /\ t.CursorColumn = c /\ t.CursorRow = r /\ t.wide = w
      /\ t.screen = st.screen
  BY DEF DeviceIs, DeviceFields, SameSettings
<1> HIDE DEF t
<1>2. SettingsOK(t, g)
  <2>1. t.CursorVisible \in BOOLEAN
    BY <1>1, Zenon DEF SettingsOK, Sized
  <2> QED  BY <1>1, <2>1, SettingsSame, Zenon
<1>3. Off(t) = Off(b)
  BY <1>1, Zenon DEF Off
<1>4. DeviceIs(t, t, c, r, w, ch, Off(t))
  BY <1>1, <1>3, Zenon DEF DeviceIs, SameSettings
<1>5. Console!SizeOf(t) = Console!SizeOf(b)
  BY <1>1, Zenon DEF Console!SizeOf
<1> QED  BY <1>2, <1>4, <1>5 DEF t

LEMMA VisibleIs ==
    ASSUME NEW st, NEW b, NEW g, SettingsOK(b, g), NEW c, NEW r, NEW w, NEW ch,
           NEW v \in BOOLEAN, DeviceIs(st, b, c, r, w, ch, Off(b))
    PROVE  LET t == [st EXCEPT !.CursorVisible = v]
           IN  SettingsOK(t, g) /\ DeviceIs(t, t, c, r, w, ch, Off(t))
               /\ Console!SizeOf(t) = Console!SizeOf(b)
<1> DEFINE t == [st EXCEPT !.CursorVisible = v]
<1>1. /\ DOMAIN t = DeviceFields
      /\ t.ModeData = b.ModeData /\ t.resolution = b.resolution /\ t.Mode = b.Mode
      /\ t.CursorVisible = v /\ t.LineBuffer = b.LineBuffer
      /\ t.failed = b.failed /\ t.CursorColumn = c /\ t.CursorRow = r /\ t.wide = w
      /\ t.screen = st.screen
  BY DEF DeviceIs, DeviceFields, SameSettings
<1> HIDE DEF t
<1>2. SettingsOK(t, g)
  <2>1. t.CursorVisible \in BOOLEAN
    BY <1>1, Zenon DEF SettingsOK, Sized
  <2> QED  BY <1>1, <2>1, SettingsSame, Zenon
<1>3. Off(t) = Off(b)
  BY <1>1, Zenon DEF Off
<1>4. DeviceIs(t, t, c, r, w, ch, Off(t))
  BY <1>1, <1>3, Zenon DEF DeviceIs, SameSettings
<1>5. Console!SizeOf(t) = Console!SizeOf(b)
  BY <1>1, Zenon DEF Console!SizeOf
<1> QED  BY <1>2, <1>4, <1>5 DEF t

\* The cursor comes back after the change.
LEMMA ShownAgain ==
    ASSUME NEW t, NEW g, SettingsOK(t, g), NEW ch,
           NEW c \in 0 .. Console!MaxColumn(t) - 1, NEW r \in 0 .. Console!MaxRow(t) - 1,
           DeviceIs(t, t, c, r, FALSE, ch, Off(t))
    PROVE  /\ SettingsOK(Console!FlushCursor(t), g) /\ Shown(Console!FlushCursor(t), c, r, ch)
           /\ Console!SizeOf(Console!FlushCursor(t)) = Console!SizeOf(t)
<1>1. DeviceIs(Console!FlushCursor(t), t, c, r, FALSE, ch, On(t, c, r))
  BY FlushOn
<1>2. SameSettings(Console!FlushCursor(t), t)
  BY <1>1 DEF DeviceIs
<1> QED  BY <1>1, <1>2, RebaseShown, SameSize

\* SetAttribute.
LEMMA SetAttributeIs ==
    ASSUME NEW d, NEW g, SettingsOK(d, g), NEW c, NEW r, NEW ch, Shown(d, c, r, ch), NEW colour
    PROVE  LET t == Console!SetAttributeCall(d, colour)
           IN  SettingsOK(t, g) /\ Shown(t, c, r, ch) /\ Console!SizeOf(t) = Console!SizeOf(d)
<1> DEFINE u == Console!FlushCursor(d)
           v == [u EXCEPT !.Attribute = colour]
<1>1. DeviceIs(u, d, c, r, FALSE, ch, Off(d))
  BY FlushOff DEF Shown
<1>2. SettingsOK(v, g) /\ DeviceIs(v, v, c, r, FALSE, ch, Off(v))
      /\ Console!SizeOf(v) = Console!SizeOf(d)
  BY <1>1, ColourIs
<1> HIDE DEF u, v
<1>3. c \in 0 .. Console!MaxColumn(v) - 1 /\ r \in 0 .. Console!MaxRow(v) - 1
  BY <1>2, Zenon DEF Shown, Console!MaxColumn, Console!MaxRow
<1>4. /\ SettingsOK(Console!FlushCursor(v), g) /\ Shown(Console!FlushCursor(v), c, r, ch)
      /\ Console!SizeOf(Console!FlushCursor(v)) = Console!SizeOf(v)
  BY <1>2, <1>3, ShownAgain
<1>5. Console!SetAttributeCall(d, colour) = IF colour = d.Attribute THEN d
                                            ELSE Console!FlushCursor(v)
  BY Zenon DEF Console!SetAttributeCall, u, v
<1> QED  BY <1>2, <1>4, <1>5

\* EnableCursor.
LEMMA EnableCursorIs ==
    ASSUME NEW d, NEW g, SettingsOK(d, g), NEW c, NEW r, NEW ch, Shown(d, c, r, ch),
           NEW visible \in BOOLEAN
    PROVE  LET t == Console!FlushCursor([Console!FlushCursor(d) EXCEPT
                                           !.CursorVisible = visible])
           IN  SettingsOK(t, g) /\ Shown(t, c, r, ch) /\ Console!SizeOf(t) = Console!SizeOf(d)
<1> DEFINE u == Console!FlushCursor(d)
           v == [u EXCEPT !.CursorVisible = visible]
<1>1. DeviceIs(u, d, c, r, FALSE, ch, Off(d))
  BY FlushOff DEF Shown
<1>2. SettingsOK(v, g) /\ DeviceIs(v, v, c, r, FALSE, ch, Off(v))
      /\ Console!SizeOf(v) = Console!SizeOf(d)
  BY <1>1, VisibleIs
<1> HIDE DEF u, v
<1>3. c \in 0 .. Console!MaxColumn(v) - 1 /\ r \in 0 .. Console!MaxRow(v) - 1
  BY <1>2, Zenon DEF Shown, Console!MaxColumn, Console!MaxRow
<1>4. /\ SettingsOK(Console!FlushCursor(v), g) /\ Shown(Console!FlushCursor(v), c, r, ch)
      /\ Console!SizeOf(Console!FlushCursor(v)) = Console!SizeOf(v)
  BY <1>2, <1>3, ShownAgain
<1> QED  BY <1>2, <1>4 DEF u, v

Blanks(resolution) == [cell \in Console!Grid(resolution) |-> Console!Blank]

\* The cursor goes to the first cell.
LEMMA HomeIs ==
    ASSUME NEW t, NEW g, SettingsOK(t, g), NEW c, NEW r, NEW ch,
           DeviceIs(t, t, c, r, FALSE, ch, Off(t))
    PROVE  LET h == Console!Home(t)
           IN  SettingsOK(h, g) /\ Shown(h, 0, 0, ch) /\ Console!SizeOf(h) = Console!SizeOf(t)
<1> DEFINE u == ColumnRow(t, 0, 0)
           h == Console!FlushCursor(u)
<1>1. Console!Home(t) = h
  BY Zenon DEF Console!Home, ColumnRow
<1>2. DeviceIs(u, t, 0, 0, FALSE, ch, Off(t))
  BY MoveIs
<1> HIDE DEF u
<1>3. DeviceIs(h, t, 0, 0, FALSE, ch, On(t, 0, 0))
  BY <1>2, FlushOn
<1> HIDE DEF h
<1>4. 0 \in 0 .. Console!MaxColumn(t) - 1 /\ 0 \in 0 .. Console!MaxRow(t) - 1
  BY SizeFacts DEF SettingsOK
<1>5. SettingsOK(h, g) /\ Shown(h, 0, 0, ch)
  BY <1>3, <1>4, RebaseShown
<1>6. SameSettings(h, t)
  BY <1>3 DEF DeviceIs
<1> QED  BY <1>1, <1>5, <1>6, SameSize

\* A screen that was filled shows nothing.
LEMMA FillIs ==
    ASSUME NEW screen, NEW b, DOMAIN screen = Console!Grid(b.resolution)
    PROVE  ScreenIs(Console!Fill(screen), b.resolution, Blanks(b.resolution), Off(b))
<1> DEFINE G == Console!Grid(b.resolution)
<1>1. Console!Fill(screen) = [cell \in G |-> Console!Fresh(Console!Blank)]
  BY Zenon DEF Console!Fill
<1>2. \A cell \in G : Blanks(b.resolution)[cell] = Console!Blank /\ Off(b)[cell] = {}
  BY Zenon DEF Blanks, Off
<1>3. /\ DOMAIN Console!Fresh(Console!Blank) = {"char", "xor"}
      /\ Console!Fresh(Console!Blank).char = Console!Blank
      /\ Console!Fresh(Console!Blank).xor = {}
  BY DEF Console!Fresh
<1> HIDE DEF G
<1>4. /\ DOMAIN Console!Fill(screen) = G
      /\ \A cell \in G : Console!Fill(screen)[cell] = Console!Fresh(Console!Blank)
  BY <1>1, Zenon
<1> QED  BY <1>2, <1>3, <1>4, Zenon DEF ScreenIs, G

\* ClearScreen.
LEMMA ClearIs ==
    ASSUME NEW d, NEW g, SettingsOK(d, g), NEW c, NEW r, NEW ch, Shown(d, c, r, ch)
    PROVE  LET h == Console!ClearScreenCall(d)
           IN  SettingsOK(h, g) /\ Shown(h, 0, 0, Blanks(GopModes[g]))
               /\ Console!SizeOf(h) = Console!SizeOf(d)
<1> DEFINE t == [d EXCEPT !.screen = Console!Fill(d.screen)]
<1>1. Console!ClearScreenCall(d) = Console!Home(t)
  BY Zenon DEF Console!ClearScreenCall
<1>2. d.resolution = GopModes[g] /\ DeviceIs(d, d, c, r, FALSE, ch, On(d, c, r))
      /\ DOMAIN d.screen = Console!Grid(d.resolution)
  BY DEF SettingsOK, Shown, DeviceIs, ScreenIs
<1>3. DeviceIs(t, d, c, r, FALSE, Blanks(d.resolution), Off(d))
  <2>1. ScreenIs(Console!Fill(d.screen), d.resolution, Blanks(d.resolution), Off(d))
    BY <1>2, FillIs
  <2> QED  BY <1>2, <2>1, ScreenExcept
<1> HIDE DEF t
<1>4. SameSettings(t, d) /\ d.CursorVisible \in BOOLEAN
  BY <1>3 DEF DeviceIs, SettingsOK, Sized
<1>5. SettingsOK(t, g)
  BY <1>4, SettingsSame DEF SameSettings
<1>6. Off(t) = Off(d)
  BY <1>4, Zenon DEF Off, SameSettings
<1>7. DeviceIs(t, t, c, r, FALSE, Blanks(d.resolution), Off(t))
  BY <1>3, <1>4, <1>6, Zenon DEF DeviceIs, SameSettings
<1>8. Console!SizeOf(t) = Console!SizeOf(d)
  BY <1>4, SameSize
<1> QED  BY <1>1, <1>2, <1>5, <1>7, <1>8, HomeIs

\* A mode is set: there is a line buffer again, and the screen is empty.
Opened(t, n) ==
    [t EXCEPT !.LineBuffer = "held", !.screen = Console!Fill(@), !.Mode = n]

Openable(t, g, n) ==
    /\ DOMAIN t = DeviceFields /\ DOMAIN t.screen = Console!Grid(t.resolution)
    /\ t.wide = FALSE /\ t.failed = FALSE /\ t.CursorVisible \in BOOLEAN
    /\ t.resolution = GopModes[g] /\ t.resolution \in Nat \X Nat
    /\ t.ModeData = Console!InitializeGraphicsConsoleTextMode(GopModes[g])
    /\ ModesFit(t.ModeData, t.resolution) /\ Len(t.ModeData) >= 2 /\ t.ModeData[1] = BaseSize
    /\ n \in 0 .. Len(t.ModeData) - 1 /\ t.ModeData[n + 1] # Console!Unsupported

LEMMA OpenedIs ==
    ASSUME NEW t, NEW g, NEW n, Openable(t, g, n)
    PROVE  LET h == Console!Home(Opened(t, n))
           IN  SettingsOK(h, g) /\ Shown(h, 0, 0, Blanks(GopModes[g]))
               /\ Console!SizeOf(h) = t.ModeData[n + 1]
<1> DEFINE u == Opened(t, n)
           filled == Console!Fill(t.screen)
<1>1. /\ DOMAIN t = DeviceFields /\ DOMAIN t.screen = Console!Grid(t.resolution)
      /\ t.wide = FALSE /\ t.failed = FALSE /\ t.CursorVisible \in BOOLEAN
      /\ t.resolution = GopModes[g] /\ t.resolution \in Nat \X Nat
      /\ t.ModeData = Console!InitializeGraphicsConsoleTextMode(GopModes[g])
      /\ ModesFit(t.ModeData, t.resolution) /\ Len(t.ModeData) >= 2
      /\ t.ModeData[1] = BaseSize
      /\ n \in 0 .. Len(t.ModeData) - 1 /\ t.ModeData[n + 1] # Console!Unsupported
  BY DEF Openable
<1>2. /\ DOMAIN u = DeviceFields /\ u.LineBuffer = "held" /\ u.screen = filled /\ u.Mode = n
      /\ u.ModeData = t.ModeData /\ u.resolution = t.resolution
      /\ u.CursorVisible = t.CursorVisible /\ u.Attribute = t.Attribute
      /\ u.failed = t.failed /\ u.wide = t.wide
      /\ u.CursorColumn = t.CursorColumn /\ u.CursorRow = t.CursorRow
  <2> DEFINE u1 == [t EXCEPT !.LineBuffer = "held"]
             u2 == [u1 EXCEPT !.screen = filled]
             u3 == [u2 EXCEPT !.Mode = n]
  <2> HIDE DEF filled
  <2>1. u = [t EXCEPT !.LineBuffer = "held", !.screen = filled, !.Mode = n]
    BY Zenon DEF Opened, filled
  <2>2. [t EXCEPT !.LineBuffer = "held", !.screen = filled, !.Mode = n] = u3
    BY <1>1 DEF DeviceFields
  <2>3. /\ DOMAIN u3 = DeviceFields /\ u3.LineBuffer = "held" /\ u3.screen = filled
        /\ u3.Mode = n /\ u3.ModeData = t.ModeData /\ u3.resolution = t.resolution
        /\ u3.CursorVisible = t.CursorVisible /\ u3.Attribute = t.Attribute
        /\ u3.failed = t.failed /\ u3.wide = t.wide
        /\ u3.CursorColumn = t.CursorColumn /\ u3.CursorRow = t.CursorRow
    BY <1>1 DEF DeviceFields
  <2> HIDE DEF u, u3
  <2>4. u = u3
    BY <2>1, <2>2, Zenon
  <2> QED  BY <2>3, <2>4, Zenon
<1> HIDE DEF u
<1>3. Console!SizeOf(u) = t.ModeData[n + 1]
  BY <1>2, Zenon DEF Console!SizeOf
<1>4. ScreenIs(filled, u.resolution, Blanks(u.resolution), Off(u))
  BY <1>1, <1>2, FillIs
<1>5. DeviceIs(u, u, t.CursorColumn, t.CursorRow, FALSE, Blanks(u.resolution), Off(u))
  BY <1>1, <1>2, <1>4, Zenon DEF DeviceIs, SameSettings
<1> DEFINE s == t.ModeData[n + 1]
<1>6. s \in Nat \X Nat /\ s[1] >= 2 /\ s[2] >= 1 /\ Console!FitsOn(s, t.resolution)
  <2>1. n + 1 \in 1 .. Len(t.ModeData) /\ t.ModeData \in Seq(Nat \X Nat)
    BY <1>1 DEF ModesFit
  <2> QED  BY <1>1, <2>1 DEF ModesFit
<1> HIDE DEF s
<1>7. Sized(u)
  BY <1>1, <1>2, <1>3, <1>6, Zenon DEF Sized, s
<1>8. SettingsOK(u, g)
  BY <1>1, <1>2, <1>3, <1>7, Zenon DEF SettingsOK
<1> DEFINE blanks == Blanks(u.resolution)
<1>9. SettingsOK(u, g) /\ DeviceIs(u, u, t.CursorColumn, t.CursorRow, FALSE, blanks, Off(u))
  BY <1>5, <1>8
<1> HIDE DEF blanks
<1>10. /\ SettingsOK(Console!Home(u), g) /\ Shown(Console!Home(u), 0, 0, blanks)
       /\ Console!SizeOf(Console!Home(u)) = Console!SizeOf(u)
  BY <1>9, HomeIs
<1>11. blanks = Blanks(GopModes[g])
  BY <1>1, <1>2, Zenon DEF blanks
<1> QED  BY <1>3, <1>10, <1>11, Zenon DEF u

\* SetMode with memory: an error that changes nothing, or an empty screen.
LEMMA SetModeIs ==
    ASSUME NEW d, NEW g, SettingsOK(d, g), NEW c, NEW r, NEW ch, Shown(d, c, r, ch),
           NEW n \in Nat
    PROVE  LET t == Console!SetModeCall(d, n, TRUE)
           IN  IF n >= Len(d.ModeData) \/ d.ModeData[n + 1] = Console!Unsupported
               THEN t = [d EXCEPT !.failed = TRUE]
               ELSE SettingsOK(t, g) /\ Shown(t, 0, 0, Blanks(GopModes[g]))
                    /\ Console!SizeOf(t) = d.ModeData[n + 1]
<1> DEFINE t == Console!SetModeCall(d, n, TRUE)
           f == Console!FlushCursor(d)
           u == [f EXCEPT !.LineBuffer = "freed"]
           refused == n >= Len(d.ModeData) \/ d.ModeData[n + 1] = Console!Unsupported
<1>1. /\ d.LineBuffer = "held" /\ d.LineBuffer # "none" /\ d.failed = FALSE
      /\ d.resolution = GopModes[g] /\ d.resolution \in Nat \X Nat
      /\ d.ModeData = Console!InitializeGraphicsConsoleTextMode(GopModes[g])
      /\ d.CursorVisible \in BOOLEAN
      /\ ModesFit(d.ModeData, d.resolution) /\ Len(d.ModeData) >= 2
      /\ d.ModeData[1] = BaseSize /\ Len(d.ModeData) \in Nat
  BY DEF SettingsOK, Sized, ModesFit
<1>2. t = IF refused THEN [d EXCEPT !.failed = TRUE]
          ELSE IF n = d.Mode THEN Console!ClearScreenCall(d) ELSE Console!Home(Opened(u, n))
  <2>1. (IF d.LineBuffer # "none" THEN u ELSE d) = u
    BY <1>1, Zenon
  <2>2. CASE refused
    BY <2>2, Zenon DEF Console!SetModeCall
  <2>3. CASE ~refused /\ n = d.Mode
    BY <1>1, <2>3, Zenon DEF Console!SetModeCall
  <2>4. CASE ~refused /\ n # d.Mode
    <3>1. t = LET q == IF d.LineBuffer # "none" THEN u ELSE d
              IN  IF ~TRUE THEN [q EXCEPT !.failed = TRUE]
                  ELSE Console!Home([q EXCEPT !.LineBuffer = "held",
                                              !.screen = Console!Fill(@), !.Mode = n])
      BY <2>4, Zenon DEF Console!SetModeCall
    <3> QED  BY <2>1, <2>4, <3>1, Zenon DEF Opened
  <2> QED  BY <2>2, <2>3, <2>4, Zenon
<1>3. CASE refused
  BY <1>2, <1>3
<1>4. CASE ~refused /\ n = d.Mode
  <2>1. t = Console!ClearScreenCall(d)
    BY <1>2, <1>4, Zenon
  <2>2. SettingsOK(t, g) /\ Shown(t, 0, 0, Blanks(GopModes[g]))
        /\ Console!SizeOf(t) = Console!SizeOf(d)
    BY <2>1, ClearIs
  <2>3. Console!SizeOf(d) = d.ModeData[n + 1]
    BY <1>4, Zenon DEF Console!SizeOf
  <2> QED  BY <1>4, <2>2, <2>3, Zenon
<1>5. CASE ~refused /\ n # d.Mode
  <2>1. t = Console!Home(Opened(u, n))
    BY <1>2, <1>5, Zenon
  <2>2. DeviceIs(f, d, c, r, FALSE, ch, Off(d))
    BY FlushOff DEF Shown
  <2>3. /\ DOMAIN u = DeviceFields /\ u.screen = f.screen /\ u.wide = FALSE
        /\ u.failed = d.failed /\ u.CursorVisible = d.CursorVisible
        /\ u.resolution = d.resolution /\ u.ModeData = d.ModeData
        /\ DOMAIN f.screen = Console!Grid(d.resolution)
    <3> HIDE DEF f
    <3> QED  BY <2>2 DEF DeviceIs, DeviceFields, SameSettings, ScreenIs
  <2> HIDE DEF u, f
  <2>4. n \in 0 .. Len(d.ModeData) - 1 /\ d.ModeData[n + 1] # Console!Unsupported
    BY <1>1, <1>5
  <2>5. Openable(u, g, n)
    BY <1>1, <2>3, <2>4, Zenon DEF Openable
  <2>6. SettingsOK(t, g) /\ Shown(t, 0, 0, Blanks(GopModes[g]))
        /\ Console!SizeOf(t) = u.ModeData[n + 1]
    BY <2>1, <2>5, OpenedIs
  <2> QED  BY <1>5, <2>3, <2>6, Zenon
<1> QED  BY <1>3, <1>4, <1>5, Zenon

\* Start makes a device with an empty screen of 40 columns and 12 rows.
LEMMA NewDevIs ==
    ASSUME NEW g \in DOMAIN GopModes
    PROVE  LET t == Console!SetModeCall(Console!NewDev(GopModes[g]), 0, TRUE)
           IN  SettingsOK(t, g) /\ Shown(t, 0, 0, Blanks(GopModes[g]))
               /\ Console!SizeOf(t) = BaseSize /\ t.failed = FALSE
<1> DEFINE d == Console!NewDev(GopModes[g])
           modes == Console!InitializeGraphicsConsoleTextMode(GopModes[g])
           t == Console!SetModeCall(d, 0, TRUE)
<1>1. /\ ModesFit(modes, GopModes[g]) /\ Len(modes) >= 2 /\ modes[1] = BaseSize
      /\ Len(modes) \in Nat
  BY TextModesAre DEF ModesFit
<1>2. /\ DOMAIN d = DeviceFields /\ d.ModeData = modes /\ d.resolution = GopModes[g]
      /\ d.wide = FALSE /\ d.failed = FALSE /\ d.CursorVisible = TRUE
      /\ d.LineBuffer = "none"
      /\ d.screen = [cell \in Console!Grid(GopModes[g]) |-> Console!Fresh(Console!Blank)]
  <2> HIDE DEF modes
  <2> QED  BY DEF Console!NewDev, DeviceFields, modes
<1> HIDE DEF d, modes
<1>3. DOMAIN d.screen = Console!Grid(d.resolution)
  BY <1>2, Zenon
<1>4. BaseSize # Console!Unsupported /\ GopModes[g] \in Nat \X Nat
  <2>1. BaseSize \in Nat \X Nat /\ BaseSize[1] >= 2
    BY ConsoleFacts
  <2>2. GopModes[g] \in Nat \X Nat
    BY ConsoleFacts
  <2> QED  BY <2>1, <2>2 DEF Console!Unsupported
<1>5. 0 \in 0 .. Len(modes) - 1 /\ 0 + 1 = 1 /\ ~(0 >= Len(modes))
  BY <1>1
<1>6. Openable(d, g, 0)
  BY <1>1, <1>2, <1>3, <1>4, <1>5, Zenon DEF Openable, modes
<1>7. t = Console!Home(Opened(d, 0))
  <2>1. ~(0 >= Len(d.ModeData) \/ d.ModeData[0 + 1] = Console!Unsupported)
    BY <1>1, <1>2, <1>4, <1>5
  <2>2. ~(d.LineBuffer # "none")
    BY <1>2
  <2> QED  BY <2>1, <2>2, Zenon DEF Console!SetModeCall, Opened
<1>8. SettingsOK(t, g) /\ Shown(t, 0, 0, Blanks(GopModes[g]))
      /\ Console!SizeOf(t) = d.ModeData[0 + 1]
  BY <1>6, <1>7, OpenedIs
<1> HIDE DEF t
<1>9. t.failed = FALSE
  BY <1>8 DEF SettingsOK
<1> QED  BY <1>1, <1>2, <1>5, <1>8, <1>9, Zenon DEF t, d

\* SetCursorPosition.
LEMMA SetCursorIs ==
    ASSUME NEW d, NEW g, SettingsOK(d, g), NEW c, NEW r, NEW ch, Shown(d, c, r, ch),
           NEW column \in 0 .. Console!MaxColumn(d) - 1, NEW row \in 0 .. Console!MaxRow(d) - 1
    PROVE  LET t == Console!FlushCursor(ColumnRow(Console!FlushCursor(d), column, row))
           IN  SettingsOK(t, g) /\ Shown(t, column, row, ch) /\ SameSettings(t, d)
<1> DEFINE u == Console!FlushCursor(d)
           v == ColumnRow(u, column, row)
           t == Console!FlushCursor(v)
<1>1. DeviceIs(u, d, c, r, FALSE, ch, Off(d))
  BY FlushOff DEF Shown
<1> HIDE DEF u
<1>2. DeviceIs(v, d, column, row, FALSE, ch, Off(d))
  BY <1>1, MoveIs
<1> HIDE DEF v
<1>3. DeviceIs(t, d, column, row, FALSE, ch, On(d, column, row))
  BY <1>2, FlushOn
<1> HIDE DEF t
<1>4. SettingsOK(t, g) /\ Shown(t, column, row, ch)
  BY <1>3, RebaseShown
<1>5. SameSettings(t, d)
  BY <1>3 DEF DeviceIs
<1> QED  BY <1>4, <1>5 DEF t, v, u

\* OutputString, as TextScreen has it.
LEMMA OutputIs ==
    ASSUME NEW d, NEW g, SettingsOK(d, g), NEW c, NEW r, NEW ch, Shown(d, c, r, ch),
           NEW S, NEW string \in Seq(S), NEW w \in BOOLEAN,
           DeviceIs(d, d, c, r, w, ch, On(d, c, r))
    PROVE  LET t == Console!OutputStringCall(d, string)
           IN  SettingsOK(t, g) /\ SameSettings(t, d)
               /\ \E c2, r2, ch2, w2 :
                    /\ Shown(t, c2, r2, ch2)
                    /\ Console!Screen!Printed(Console!SizeOf(d), Abstract(d, c, r, w, ch), string)
                         = Abstract(d, c2, r2, w2, ch2)
<1> DEFINE t == Console!OutputStringCall(d, string)
           printed == Console!Screen!Printed(Console!SizeOf(d), Abstract(d, c, r, w, ch), string)
<1>1. Sized(d)
      /\ c \in 0 .. Console!MaxColumn(d) - 1 /\ r \in 0 .. Console!MaxRow(d) - 1
  BY DEF SettingsOK, Shown
<1>2. PICK c2, r2, w2, ch2 :
        /\ c2 \in 0 .. Console!MaxColumn(d) - 1 /\ r2 \in 0 .. Console!MaxRow(d) - 1
        /\ DeviceIs(t, d, c2, r2, FALSE, ch2, On(d, c2, r2))
        /\ printed = Abstract(d, c2, r2, w2, ch2)
  <2>1. PrintedAs(t, printed, d)
    BY <1>1, OutputStringDevice
  <2> HIDE DEF t, printed
  <2> QED  BY <2>1, Zenon DEF PrintedAs
<1> HIDE DEF t, printed
<1>3. SettingsOK(t, g) /\ Shown(t, c2, r2, ch2)
  BY <1>2, RebaseShown
<1>4. SameSettings(t, d)
  BY <1>2 DEF DeviceIs
<1> QED  BY <1>2, <1>3, <1>4, Zenon DEF t, printed

-----------------------------------------------------------------------------
(* What TextScreen sees of the console.                                    *)

TextIn(inst, d) ==
    [cell \in IF inst THEN Console!Grid(Console!SizeOf(d)) ELSE {} |->
       d.screen[Console!At(d, cell[1], cell[2])].char]

Sees(inst, d, s, t, c, r) ==
    /\ s = IF inst THEN Console!SizeOf(d) ELSE Console!Unsupported
    /\ t = TextIn(inst, d)
    /\ c = IF inst THEN d.CursorColumn ELSE 0
    /\ r = IF inst THEN d.CursorRow ELSE 0

\* Of an installed device that shows ch; of none.
LEMMA SeesShown ==
    ASSUME NEW d, NEW g, SettingsOK(d, g), NEW c, NEW r, NEW ch, Shown(d, c, r, ch),
           NEW inst, inst
    PROVE  Sees(inst, d, Console!SizeOf(d), TextOf(d, ch), c, r)
<1>1. /\ Sized(d) /\ d.CursorColumn = c /\ d.CursorRow = r
      /\ ScreenIs(d.screen, d.resolution, ch, On(d, c, r))
  BY DEF SettingsOK, Shown, DeviceIs
<1>2. \A cell \in Console!Grid(Console!SizeOf(d)) :
        d.screen[Console!At(d, cell[1], cell[2])].char = ch[Console!At(d, cell[1], cell[2])]
  <2>1. \A cell \in Console!Grid(Console!SizeOf(d)) :
          Console!At(d, cell[1], cell[2]) \in Console!Grid(d.resolution)
    BY <1>1, InsideFacts
  <2> QED  BY <1>1, <2>1, Zenon DEF ScreenIs
<1>3. TextIn(inst, d) = TextOf(d, ch)
  BY <1>2, Zenon DEF TextIn, TextOf
<1> QED  BY <1>1, <1>3, Zenon DEF Sees

LEMMA SeesNone ==
    ASSUME NEW d, NEW inst, ~inst
    PROVE  Sees(inst, d, Console!Unsupported, << >>, 0, 0)
<1>1. TextIn(inst, d) = [cell \in {} |-> d.screen[Console!At(d, cell[1], cell[2])].char]
  BY Zenon DEF TextIn
<1>2. [cell \in {} |-> d.screen[Console!At(d, cell[1], cell[2])].char] = << >>
  OBVIOUS
<1>3. TextIn(inst, d) = << >>
  BY <1>1, <1>2, Zenon
<1> QED  BY <1>3, Zenon DEF Sees

\* An empty screen.
LEMMA BlankText ==
    ASSUME NEW d, Sized(d)
    PROVE  TextOf(d, Blanks(d.resolution)) = Console!Screen!Empty(Console!SizeOf(d))
<1>1. \A cell \in Console!Grid(Console!SizeOf(d)) :
        Console!At(d, cell[1], cell[2]) \in Console!Grid(d.resolution)
  BY InsideFacts
<1>2. \A cell \in Console!Grid(Console!SizeOf(d)) :
        Blanks(d.resolution)[Console!At(d, cell[1], cell[2])] = Console!Screen!Blank
  BY <1>1, ScreenSame, Zenon DEF Blanks
<1>3. Console!Screen!Cells(Console!SizeOf(d)) = Console!Grid(Console!SizeOf(d))
  BY ScreenSame
<1> QED  BY <1>2, <1>3, Zenon DEF TextOf, Console!Screen!Empty

\* The size of a text mode.
LEMMA SizeIsOne ==
    ASSUME NEW d, NEW g \in DOMAIN GopModes, SettingsOK(d, g)
    PROVE  \E n \in DOMAIN GopModes :
             Console!SizeOf(d)
               \in Console!ToSet(Console!InitializeGraphicsConsoleTextMode(GopModes[n]))
<1> DEFINE modes == Console!InitializeGraphicsConsoleTextMode(GopModes[g])
<1>1. /\ d.ModeData = modes /\ d.Mode \in 0 .. Len(d.ModeData) - 1
      /\ d.ModeData \in Seq(Nat \X Nat)
  BY DEF SettingsOK, ModesFit
<1> HIDE DEF modes
<1>2. d.Mode + 1 \in DOMAIN modes
  BY <1>1
<1>3. Console!SizeOf(d) = modes[d.Mode + 1]
  BY <1>1, Zenon DEF Console!SizeOf
<1>4. Console!SizeOf(d) \in Console!ToSet(modes)
  BY <1>2, <1>3, Zenon DEF Console!ToSet
<1> QED  BY <1>4, Zenon DEF modes

-----------------------------------------------------------------------------
(* The steps of TextScreen, in terms of what it sees.                      *)

Narrow(w) == w = FALSE

ScreenStep == Console!Screen!Next \/ UNCHANGED Console!Screen!screenVars

\* Nothing changes, a string is printed, the cursor moves, the console appears, is
\* cleared, and disappears.
LEMMA ScreenStays ==
    ASSUME NEW s, NEW t, NEW c, NEW r, Sees(installed, dev, s, t, c, r),
           Sees(installed', dev', s, t, c, r)
    PROVE  ScreenStep
  BY Zenon DEF ScreenStep, Sees, TextIn, Console!Screen!screenVars, Console!Text

LEMMA ScreenPrints ==
    ASSUME NEW s, NEW t, NEW c, NEW r, Sees(installed, dev, s, t, c, r), s # Console!Unsupported,
           NEW string \in Strings, NEW w, Narrow(w), NEW p,
           p = Console!Screen!Printed(s, [text |-> t, column |-> c, row |-> r, wide |-> w], string),
           Sees(installed', dev', s, p.text, p.column, p.row)
    PROVE  ScreenStep
<1>1. Console!Screen!Shows(string)
  BY Zenon DEF Sees, TextIn, Console!Screen!Shows, Console!Screen!Becomes, Console!Text,
       Narrow
<1> QED  BY <1>1, Zenon DEF ScreenStep, Console!Screen!Next

LEMMA ScreenMoves ==
    ASSUME NEW s, NEW t, NEW c, NEW r, Sees(installed, dev, s, t, c, r),
           NEW cell \in Console!Grid(s), Sees(installed', dev', s, t, cell[1], cell[2])
    PROVE  ScreenStep
<1>1. Console!Screen!MoveTo(cell)
  BY Zenon DEF Sees, TextIn, Console!Screen!MoveTo, Console!Text,
       Console!Screen!Cells, Console!Grid
<1>2. cell \in Console!Screen!Cells(IF installed THEN Console!SizeOf(dev) ELSE Console!Unsupported)
  BY Zenon DEF Console!Screen!Cells, Console!Grid, Sees
<1> QED  BY <1>1, <1>2, Zenon DEF ScreenStep, Console!Screen!Next

LEMMA ScreenAppears ==
    ASSUME NEW t, NEW c, NEW r, Sees(installed, dev, Console!Unsupported, t, c, r),
           NEW s, NEW g \in DOMAIN GopModes,
           s \in Console!ToSet(Console!InitializeGraphicsConsoleTextMode(GopModes[g])),
           NEW w, Narrow(w), NEW p,
           p = Console!Screen!Printed(s, [text |-> Console!Screen!Empty(s), column |-> 0,
                                          row |-> 0, wide |-> w], Greeting),
           Sees(installed', dev', s, p.text, p.column, p.row)
    PROVE  ScreenStep
<1>1. Console!Screen!Appears(s)
  BY Zenon DEF Sees, TextIn, Console!Screen!Appears, Console!Screen!Becomes, Console!Text,
       Narrow
<1> QED  BY <1>1, Zenon DEF ScreenStep, Console!Screen!Next

LEMMA ScreenCleared ==
    ASSUME NEW s0, NEW t, NEW c, NEW r, Sees(installed, dev, s0, t, c, r),
           s0 # Console!Unsupported, NEW s, NEW g \in DOMAIN GopModes,
           s \in Console!ToSet(Console!InitializeGraphicsConsoleTextMode(GopModes[g])),
           Sees(installed', dev', s, Console!Screen!Empty(s), 0, 0)
    PROVE  ScreenStep
<1> DEFINE u == [text |-> Console!Screen!Empty(s), column |-> 0, row |-> 0]
<1>1. u.text = Console!Screen!Empty(s) /\ u.column = 0 /\ u.row = 0
  OBVIOUS
<1>2. Console!Screen!Becomes(u)
  <2> HIDE DEF u
  <2> QED  BY <1>1, Zenon DEF Sees, TextIn, Console!Screen!Becomes, Console!Text
<1>3. Console!Screen!Cleared(s)
  BY <1>2, Zenon DEF Sees, Console!Screen!Cleared
<1> QED  BY <1>3, Zenon DEF ScreenStep, Console!Screen!Next

LEMMA ScreenDisappears ==
    ASSUME Sees(installed', dev', Console!Unsupported, << >>, 0, 0)
    PROVE  ScreenStep
<1> DEFINE u == [text |-> << >>, column |-> 0, row |-> 0]
<1>1. u.text = << >> /\ u.column = 0 /\ u.row = 0
  OBVIOUS
<1>2. Console!Screen!Becomes(u)
  <2> HIDE DEF u
  <2> QED  BY <1>1, Zenon DEF Sees, TextIn, Console!Screen!Becomes, Console!Text
<1>3. Console!Screen!Disappears
  BY <1>2, Zenon DEF Sees, Console!Screen!Disappears
<1> QED  BY <1>3, Zenon DEF ScreenStep, Console!Screen!Next

-----------------------------------------------------------------------------
(* The invariant: an installed console has a mode that fits its screen,    *)
(* and what it shows is known.                                             *)

ConsoleInv ==
    /\ gopMode \in DOMAIN GopModes
    /\ installed => SettingsOK(dev, gopMode) /\ \E c, r, ch : Shown(dev, c, r, ch)

\* What the invariant says of the properties that the run checks.
LEMMA ConsoleInvOK == ConsoleInv => ConsoleOK
<1> SUFFICES ASSUME ConsoleInv, installed
             PROVE  Console!ConsoleOK /\ Console!TextModesFit /\ Console!CursorShownOnce
  BY Zenon DEF ConsoleOK, Console!ConsoleOK, Console!TextModesFit, Console!CursorShownOnce
<1>1. PICK c, r, ch : Shown(dev, c, r, ch)
  BY DEF ConsoleInv
<1>2. SettingsOK(dev, gopMode)
  BY DEF ConsoleInv
<1>3. /\ c \in 0 .. Console!MaxColumn(dev) - 1 /\ r \in 0 .. Console!MaxRow(dev) - 1
      /\ dev.CursorColumn = c /\ dev.CursorRow = r /\ dev.wide = FALSE
      /\ ScreenIs(dev.screen, dev.resolution, ch, On(dev, c, r))
  BY <1>1 DEF Shown, DeviceIs
<1>4. Console!ConsoleOK
  BY <1>2, <1>3, Zenon DEF SettingsOK, Console!ConsoleOK
<1>5. Console!TextModesFit
  <2>1. /\ DOMAIN dev.ModeData = 1 .. Len(dev.ModeData) /\ Distinct(dev.ModeData)
        /\ \A n \in 1 .. Len(dev.ModeData) : Console!FitsOn(dev.ModeData[n], dev.resolution)
        /\ Len(dev.ModeData) \in Nat
    BY <1>2 DEF SettingsOK, ModesFit
  <2>2. \A n \in 1 .. Len(dev.ModeData) : \A m \in 1 .. n - 1 :
          m \in 1 .. Len(dev.ModeData) /\ m # n
    BY <2>1
  <2> QED  BY <2>1, <2>2, Zenon DEF Console!TextModesFit, Distinct
<1>6. Console!CursorShownOnce
  <2>1. \A cell \in DOMAIN dev.screen : dev.screen[cell].xor = On(dev, c, r)[cell]
    BY <1>3, Zenon DEF ScreenIs
  <2>2. DOMAIN dev.screen = Console!Grid(dev.resolution)
    BY <1>3, Zenon DEF ScreenIs
  <2> QED  BY <1>3, <2>1, <2>2, Zenon DEF Console!CursorShownOnce, On
<1> QED  BY <1>4, <1>5, <1>6

-----------------------------------------------------------------------------
(* The operations keep the invariant and are steps of TextScreen.          *)

\* Devices with the same settings are seen alike.
LEMMA SameText ==
    ASSUME NEW st, NEW b, SameSettings(st, b), NEW ch
    PROVE  /\ Console!SizeOf(st) = Console!SizeOf(b) /\ TextOf(st, ch) = TextOf(b, ch)
           /\ \A c, r, w : Abstract(st, c, r, w, ch) = Abstract(b, c, r, w, ch)
<1>1. /\ Console!SizeOf(st) = Console!SizeOf(b)
      /\ \A c, r : Console!At(st, c, r) = Console!At(b, c, r)
  BY SameSize
<1>2. TextOf(st, ch) = TextOf(b, ch)
  BY <1>1, Zenon DEF TextOf
<1> QED  BY <1>1, <1>2, Zenon DEF Abstract

\* What TextScreen sees of a console before and after a step.
LEMMA SeesBefore ==
    ASSUME installed, SettingsOK(dev, gopMode), NEW c, NEW r, NEW ch, Shown(dev, c, r, ch)
    PROVE  Sees(installed, dev, Console!SizeOf(dev), TextOf(dev, ch), c, r)
           /\ Console!SizeOf(dev) # Console!Unsupported
<1>1. Console!SizeOf(dev) # Console!Unsupported
  BY DEF SettingsOK
<1> QED  BY <1>1, SeesShown

LEMMA SeesAfter ==
    ASSUME gopMode \in DOMAIN GopModes, NEW st, Console!Becomes(st), SettingsOK(st, gopMode),
           NEW c, NEW r, NEW ch, Shown(st, c, r, ch)
    PROVE  ConsoleInv' /\ Sees(installed', dev', Console!SizeOf(st), TextOf(st, ch), c, r)
<1>1. gopMode' = gopMode /\ installed' = installed /\ dev' = [st EXCEPT !.failed = FALSE]
      /\ installed
  BY DEF Console!Becomes
<1>2. SettingsOK(dev', gopMode') /\ Shown(dev', c, r, ch) /\ SameSettings(dev', st)
  BY <1>1, ShownEnds
<1>3. Console!SizeOf(dev') = Console!SizeOf(st) /\ TextOf(dev', ch) = TextOf(st, ch)
  BY <1>2, SameText
<1>4. Sees(installed', dev', Console!SizeOf(dev'), TextOf(dev', ch), c, r)
  BY <1>1, <1>2, SeesShown
<1>5. ConsoleInv'
  BY <1>1, <1>2 DEF ConsoleInv
<1> QED  BY <1>3, <1>4, <1>5

\* An operation that shows nothing new.
LEMMA StaysStep ==
    ASSUME gopMode \in DOMAIN GopModes, SettingsOK(dev, gopMode),
           NEW c, NEW r, NEW ch, Shown(dev, c, r, ch),
           NEW st, Console!Becomes(st), SettingsOK(st, gopMode), Shown(st, c, r, ch),
           Console!SizeOf(st) = Console!SizeOf(dev), TextOf(st, ch) = TextOf(dev, ch)
    PROVE  ConsoleInv' /\ ScreenStep
<1>1. installed
  BY DEF Console!Becomes
<1>2. Sees(installed, dev, Console!SizeOf(dev), TextOf(dev, ch), c, r)
  BY <1>1, SeesBefore
<1>3. ConsoleInv' /\ Sees(installed', dev', Console!SizeOf(st), TextOf(st, ch), c, r)
  BY SeesAfter
<1> QED  BY <1>2, <1>3, ScreenStays

\* An operation that clears the screen.
LEMMA ClearsStep ==
    ASSUME gopMode \in DOMAIN GopModes, SettingsOK(dev, gopMode),
           NEW c, NEW r, NEW ch, Shown(dev, c, r, ch), NEW st, Console!Becomes(st),
           SettingsOK(st, gopMode), Shown(st, 0, 0, Blanks(GopModes[gopMode]))
    PROVE  ConsoleInv' /\ ScreenStep
<1> DEFINE blanks == Blanks(GopModes[gopMode])
<1>1. installed
  BY DEF Console!Becomes
<1>2. Sees(installed, dev, Console!SizeOf(dev), TextOf(dev, ch), c, r)
      /\ Console!SizeOf(dev) # Console!Unsupported
  BY <1>1, SeesBefore
<1>3. blanks = Blanks(st.resolution) /\ Sized(st)
  BY DEF SettingsOK
<1>4. Shown(st, 0, 0, blanks)
  OBVIOUS
<1> HIDE DEF blanks
<1>5. ConsoleInv' /\ Sees(installed', dev', Console!SizeOf(st), TextOf(st, blanks), 0, 0)
  BY <1>4, SeesAfter
<1>6. TextOf(st, blanks) = Console!Screen!Empty(Console!SizeOf(st))
  BY <1>3, BlankText
<1>7. PICK g \in DOMAIN GopModes :
        Console!SizeOf(st) \in Console!ToSet(Console!InitializeGraphicsConsoleTextMode(GopModes[g]))
  BY SizeIsOne
<1>8. ScreenStep
  BY <1>2, <1>5, <1>6, <1>7, ScreenCleared
<1> QED  BY <1>5, <1>8

\* OutputString.
LEMMA PrintsStep ==
    ASSUME gopMode \in DOMAIN GopModes, SettingsOK(dev, gopMode),
           NEW c, NEW r, NEW ch, Shown(dev, c, r, ch),
           NEW string \in Strings, Console!OutputString(string)
    PROVE  ConsoleInv' /\ ScreenStep
<1> DEFINE t == Console!OutputStringCall(dev, string)
           s == Console!SizeOf(dev)
<1>1. Console!Becomes(t) /\ installed
  BY Zenon DEF Console!OutputString, Console!Becomes
<1>2. PICK w \in BOOLEAN : Narrow(w)
  BY DEF Narrow
<1>3. DeviceIs(dev, dev, c, r, w, ch, On(dev, c, r))
  BY <1>2, Zenon DEF Shown, Narrow
<1>4. string \in Seq(Console!ToSet(string))
  BY ConsoleFacts
<1>5. SettingsOK(t, gopMode) /\ SameSettings(t, dev)
      /\ \E c2, r2, ch2, w2 :
           /\ Shown(t, c2, r2, ch2)
           /\ Console!Screen!Printed(s, Abstract(dev, c, r, w, ch), string)
                = Abstract(dev, c2, r2, w2, ch2)
  BY <1>3, <1>4, OutputIs
<1>6. PICK c2, r2, ch2, w2 :
        /\ Shown(t, c2, r2, ch2)
        /\ Console!Screen!Printed(s, Abstract(dev, c, r, w, ch), string)
             = Abstract(dev, c2, r2, w2, ch2)
  BY <1>5, Zenon
<1> HIDE DEF t
<1> DEFINE p == Abstract(dev, c2, r2, w2, ch2)
<1>7. /\ p = Console!Screen!Printed(s, [text |-> TextOf(dev, ch), column |-> c, row |-> r,
                                        wide |-> w], string)
      /\ p.text = TextOf(dev, ch2) /\ p.column = c2 /\ p.row = r2
  BY <1>6, AbstractFields, Zenon DEF Abstract
<1>8. ConsoleInv' /\ Sees(installed', dev', Console!SizeOf(t), TextOf(t, ch2), c2, r2)
  BY <1>1, <1>5, <1>6, SeesAfter
<1>9. Sees(installed, dev, s, TextOf(dev, ch), c, r) /\ s # Console!Unsupported
  BY <1>1, SeesBefore
<1>10. Console!SizeOf(t) = s /\ TextOf(t, ch2) = TextOf(dev, ch2)
  BY <1>5, SameText
<1> HIDE DEF s, p
<1>11. Sees(installed', dev', s, p.text, p.column, p.row)
  BY <1>7, <1>8, <1>10, Zenon
<1>12. ScreenStep
  BY <1>2, <1>7, <1>9, <1>11, ScreenPrints
<1> QED  BY <1>8, <1>12

\* SetCursorPosition.
LEMMA MovesStep ==
    ASSUME gopMode \in DOMAIN GopModes, SettingsOK(dev, gopMode),
           NEW c, NEW r, NEW ch, Shown(dev, c, r, ch),
           NEW cell \in Console!Grid(Console!SizeOf(dev)),
           Console!SetCursorPosition(cell[1], cell[2])
    PROVE  ConsoleInv' /\ ScreenStep
<1> DEFINE t == Console!FlushCursor(ColumnRow(Console!FlushCursor(dev), cell[1], cell[2]))
           same == dev.CursorColumn = cell[1] /\ dev.CursorRow = cell[2]
<1>1. Console!Becomes(IF same THEN dev ELSE t) /\ installed
  BY Zenon DEF Console!SetCursorPosition, ColumnRow
<1>2. cell[1] \in 0 .. Console!MaxColumn(dev) - 1 /\ cell[2] \in 0 .. Console!MaxRow(dev) - 1
  BY DEF Console!Grid, Console!MaxColumn, Console!MaxRow
<1>3. SettingsOK(t, gopMode) /\ Shown(t, cell[1], cell[2], ch) /\ SameSettings(t, dev)
  BY <1>2, SetCursorIs
<1> HIDE DEF t, same
<1>4. CASE same
  <2>1. Console!Becomes(dev)
    BY <1>1, <1>4
  <2> QED  BY <2>1, StaysStep
<1>5. CASE ~same
  <2>1. Console!Becomes(t)
    BY <1>1, <1>5
  <2>2. Sees(installed, dev, Console!SizeOf(dev), TextOf(dev, ch), c, r)
    BY <1>1, SeesBefore
  <2>3. ConsoleInv'
        /\ Sees(installed', dev', Console!SizeOf(t), TextOf(t, ch), cell[1], cell[2])
    BY <1>3, <2>1, SeesAfter
  <2>4. Console!SizeOf(t) = Console!SizeOf(dev) /\ TextOf(t, ch) = TextOf(dev, ch)
    BY <1>3, SameText
  <2>5. ScreenStep
    BY <2>2, <2>3, <2>4, ScreenMoves
  <2> QED  BY <2>3, <2>5
<1> QED  BY <1>4, <1>5

\* The text of two devices with the same screen and the same mode.
LEMMA TextStays ==
    ASSUME NEW d, NEW t, NEW g, SettingsOK(d, g), SettingsOK(t, g),
           Console!SizeOf(t) = Console!SizeOf(d), NEW ch
    PROVE  TextOf(t, ch) = TextOf(d, ch)
<1>1. t.resolution = d.resolution
  BY DEF SettingsOK
<1>2. \A c, r : Console!At(t, c, r) = Console!At(d, c, r)
  BY <1>1, Zenon DEF Console!At, Console!MaxColumn, Console!MaxRow
<1> QED  BY <1>2, Zenon DEF TextOf

\* SetAttribute and EnableCursor.
LEMMA SettingStep ==
    ASSUME gopMode \in DOMAIN GopModes, SettingsOK(dev, gopMode),
           NEW c, NEW r, NEW ch, Shown(dev, c, r, ch),
           NEW st, Console!Becomes(st), SettingsOK(st, gopMode), Shown(st, c, r, ch),
           Console!SizeOf(st) = Console!SizeOf(dev)
    PROVE  ConsoleInv' /\ ScreenStep
<1>1. TextOf(st, ch) = TextOf(dev, ch)
  BY TextStays
<1> QED  BY <1>1, StaysStep

\* A mode that is refused.
LEMMA RefusedStep ==
    ASSUME gopMode \in DOMAIN GopModes, SettingsOK(dev, gopMode),
           NEW c, NEW r, NEW ch, Shown(dev, c, r, ch),
           Console!Becomes([dev EXCEPT !.failed = TRUE])
    PROVE  ConsoleInv' /\ ScreenStep
<1>1. /\ gopMode' = gopMode /\ installed' = installed /\ installed
      /\ dev' = [[dev EXCEPT !.failed = TRUE] EXCEPT !.failed = FALSE]
  BY DEF Console!Becomes
<1>2. /\ SettingsOK(dev', gopMode') /\ Shown(dev', c, r, ch) /\ SameSettings(dev', dev)
  BY <1>1, ShownEnds, Zenon
<1>3. Sees(installed, dev, Console!SizeOf(dev), TextOf(dev, ch), c, r)
  BY <1>1, SeesBefore
<1>4. Sees(installed', dev', Console!SizeOf(dev'), TextOf(dev', ch), c, r)
  BY <1>1, <1>2, SeesShown
<1>5. Console!SizeOf(dev') = Console!SizeOf(dev) /\ TextOf(dev', ch) = TextOf(dev, ch)
  BY <1>2, SameText
<1>6. ScreenStep
  BY <1>3, <1>4, <1>5, ScreenStays
<1>7. ConsoleInv'
  BY <1>1, <1>2 DEF ConsoleInv
<1> QED  BY <1>6, <1>7

\* Start, with a graphics mode that is accepted.
LEMMA StartsStep ==
    ASSUME NEW n \in DOMAIN GopModes, ~installed, installed', gopMode' = n,
           NEW st, SettingsOK(st, n), Shown(st, 0, 0, Blanks(GopModes[n])),
           dev' = Console!OutputStringCall(st, Greeting)
    PROVE  ConsoleInv' /\ ScreenStep
<1> DEFINE ch == Blanks(GopModes[n])
           t == Console!OutputStringCall(st, Greeting)
           s == Console!SizeOf(st)
<1>1. ch = Blanks(st.resolution) /\ Sized(st)
  BY DEF SettingsOK
<1>2. PICK w \in BOOLEAN : Narrow(w)
  BY DEF Narrow
<1>3. DeviceIs(st, st, 0, 0, w, ch, On(st, 0, 0)) /\ Shown(st, 0, 0, ch)
  BY <1>2, Zenon DEF Shown, Narrow
<1> HIDE DEF ch
<1>4. Greeting \in Seq(Console!ToSet(Greeting))
  BY ConsoleFacts
<1>5. SettingsOK(t, n) /\ SameSettings(t, st)
      /\ \E c2, r2, ch2, w2 :
           /\ Shown(t, c2, r2, ch2)
           /\ Console!Screen!Printed(s, Abstract(st, 0, 0, w, ch), Greeting)
                = Abstract(st, c2, r2, w2, ch2)
  BY <1>3, <1>4, OutputIs
<1>6. PICK c2, r2, ch2, w2 :
        /\ Shown(t, c2, r2, ch2)
        /\ Console!Screen!Printed(s, Abstract(st, 0, 0, w, ch), Greeting)
             = Abstract(st, c2, r2, w2, ch2)
  BY <1>5, Zenon
<1>7. TextOf(st, ch) = Console!Screen!Empty(s)
  BY <1>1, BlankText
<1> HIDE DEF t
<1> DEFINE p == Abstract(st, c2, r2, w2, ch2)
<1>8. /\ p = Console!Screen!Printed(s, [text |-> Console!Screen!Empty(s), column |-> 0,
                                        row |-> 0, wide |-> w], Greeting)
      /\ p.text = TextOf(st, ch2) /\ p.column = c2 /\ p.row = r2
  <2>1. Abstract(st, 0, 0, w, ch) = [text |-> Console!Screen!Empty(s), column |-> 0,
                                     row |-> 0, wide |-> w]
    BY <1>7, Zenon DEF Abstract
  <2>2. p.text = TextOf(st, ch2) /\ p.column = c2 /\ p.row = r2
    BY AbstractFields
  <2>3. Console!Screen!Printed(s, Abstract(st, 0, 0, w, ch), Greeting) = p
    BY <1>6
  <2> HIDE DEF p, s
  <2> QED  BY <2>1, <2>2, <2>3, Zenon
<1>9. dev' = t
  BY DEF t
<1>10. Sees(installed', dev', Console!SizeOf(t), TextOf(t, ch2), c2, r2)
  BY <1>5, <1>6, <1>9, SeesShown
<1>11. Console!SizeOf(t) = s /\ TextOf(t, ch2) = TextOf(st, ch2)
  BY <1>5, SameText
<1>12. PICK g \in DOMAIN GopModes :
         s \in Console!ToSet(Console!InitializeGraphicsConsoleTextMode(GopModes[g]))
  BY SizeIsOne
<1>13. Sees(installed, dev, Console!Unsupported, << >>, 0, 0)
  BY SeesNone
<1> HIDE DEF s, p
<1>14. Sees(installed', dev', s, p.text, p.column, p.row)
  BY <1>8, <1>10, <1>11, Zenon
<1>15. ScreenStep
  BY <1>2, <1>8, <1>12, <1>13, <1>14, ScreenAppears
<1>16. ConsoleInv'
  BY <1>5, <1>6, <1>9, Zenon DEF ConsoleInv
<1> QED  BY <1>15, <1>16

\* Every step of the console keeps the invariant and is a step of TextScreen.
LEMMA ConsoleStep ==
    ASSUME ~MemoryRunsOut, ConsoleInv, [Console!Next]_consoleVars
    PROVE  ConsoleInv' /\ ScreenStep
<1> DEFINE Goal == ConsoleInv' /\ ScreenStep
<1>1. gopMode \in DOMAIN GopModes /\ Console!Memory = {TRUE}
  BY DEF ConsoleInv, Console!Memory
<1>2. ASSUME installed
      PROVE  SettingsOK(dev, gopMode) /\ \E c, r, ch : Shown(dev, c, r, ch)
  BY <1>2 DEF ConsoleInv
<1>3. ASSUME NEW refused, Console!Start(refused, TRUE) PROVE Goal
  <2> DEFINE n == Console!ChosenMode(gopMode, refused)
             accepted == n = gopMode \/ n \notin refused
             st == Console!SetModeCall(Console!NewDev(GopModes[n]), 0, TRUE)
  <2>1. /\ ~installed
        /\ gopMode' = IF accepted THEN n ELSE gopMode
        /\ IF accepted /\ ~st.failed
           THEN installed' = TRUE /\ dev' = Console!OutputStringCall(st, Greeting)
           ELSE UNCHANGED <<installed, dev>>
    BY <1>3, Zenon DEF Console!Start
  <2>2. n \in DOMAIN GopModes
    BY <1>1, ChosenModeIsOne
  <2>3. SettingsOK(st, n) /\ Shown(st, 0, 0, Blanks(GopModes[n])) /\ st.failed = FALSE
    BY <2>2, NewDevIs
  <2> HIDE DEF st, n, accepted
  <2>4. CASE accepted
    <3>1. gopMode' = n /\ installed' /\ dev' = Console!OutputStringCall(st, Greeting)
      BY <2>1, <2>3, <2>4
    <3> QED  BY <2>1, <2>2, <2>3, <3>1, StartsStep
  <2>5. CASE ~accepted
    <3>1. gopMode' = gopMode /\ installed' = installed /\ ~installed
      BY <2>1, <2>5
    <3>2. Sees(installed, dev, Console!Unsupported, << >>, 0, 0)
      BY <3>1, SeesNone
    <3>3. Sees(installed', dev', Console!Unsupported, << >>, 0, 0)
      BY <3>1, SeesNone
    <3>4. ScreenStep
      BY <3>2, <3>3, ScreenStays
    <3> QED  BY <1>1, <3>1, <3>4 DEF ConsoleInv
  <2> QED  BY <2>4, <2>5
<1>4. ASSUME Console!Stop PROVE Goal
  <2>1. ~installed' /\ gopMode' = gopMode
    BY <1>4 DEF Console!Stop
  <2>2. Sees(installed', dev', Console!Unsupported, << >>, 0, 0)
    BY <2>1, SeesNone
  <2>3. ScreenStep
    BY <2>2, ScreenDisappears
  <2> QED  BY <1>1, <2>1, <2>3 DEF ConsoleInv
<1>5. ASSUME installed, NEW n \in 0 .. Len(dev.ModeData), Console!SetMode(n, TRUE)
      PROVE  Goal
  <2> DEFINE t == Console!SetModeCall(dev, n, TRUE)
  <2>1. Console!Becomes(t)
    BY <1>5, Zenon DEF Console!SetMode
  <2>2. SettingsOK(dev, gopMode) /\ n \in Nat
    BY <1>2, <1>5
  <2>3. PICK c, r, ch : Shown(dev, c, r, ch)
    BY <1>2, <1>5
  <2>4. \/ t = [dev EXCEPT !.failed = TRUE]
        \/ SettingsOK(t, gopMode) /\ Shown(t, 0, 0, Blanks(GopModes[gopMode]))
    BY <2>2, <2>3, SetModeIs, Zenon
  <2> HIDE DEF t
  <2>5. CASE t = [dev EXCEPT !.failed = TRUE]
    <3>1. Console!Becomes([dev EXCEPT !.failed = TRUE])
      BY <2>1, <2>5, Zenon
    <3> QED  BY <1>1, <2>2, <2>3, <3>1, RefusedStep
  <2>6. CASE SettingsOK(t, gopMode) /\ Shown(t, 0, 0, Blanks(GopModes[gopMode]))
    BY <1>1, <2>1, <2>2, <2>3, <2>6, ClearsStep
  <2> QED  BY <2>4, <2>5, <2>6
<1>6. ASSUME installed, Console!Reset(TRUE) PROVE Goal
  <2> DEFINE t == Console!SetModeCall(dev, 0, TRUE)
             u == Console!SetAttributeCall(t, t.Attribute)
  <2>1. Console!Becomes(IF t.failed THEN t ELSE u)
    BY <1>6, Zenon DEF Console!Reset
  <2>2. SettingsOK(dev, gopMode)
    BY <1>2, <1>6
  <2>3. PICK c, r, ch : Shown(dev, c, r, ch)
    BY <1>2, <1>6
  <2>4. ~(0 >= Len(dev.ModeData) \/ dev.ModeData[0 + 1] = Console!Unsupported) /\ 0 \in Nat
    <3>1. BaseSize[1] >= 2
      BY ConsoleFacts
    <3>2. BaseSize # Console!Unsupported
      BY <3>1 DEF Console!Unsupported
    <3>3. Len(dev.ModeData) \in Nat /\ Len(dev.ModeData) >= 2 /\ dev.ModeData[1] = BaseSize
      BY <2>2 DEF SettingsOK, ModesFit
    <3> QED  BY <3>2, <3>3
  <2>5. SettingsOK(t, gopMode) /\ Shown(t, 0, 0, Blanks(GopModes[gopMode]))
    BY <2>2, <2>3, <2>4, SetModeIs, Zenon
  <2>6. u = t /\ t.failed = FALSE
    BY <2>5, Zenon DEF Console!SetAttributeCall, SettingsOK
  <2> HIDE DEF t, u
  <2>7. Console!Becomes(t)
    BY <2>1, <2>6
  <2> QED  BY <1>1, <2>2, <2>3, <2>5, <2>7, ClearsStep
<1>7. ASSUME NEW colour, Console!SetAttribute(colour) PROVE Goal
  <2> DEFINE t == Console!SetAttributeCall(dev, colour)
  <2>1. Console!Becomes(t) /\ installed
    BY <1>7, Zenon DEF Console!SetAttribute, Console!Becomes
  <2>2. SettingsOK(dev, gopMode)
    BY <1>2, <2>1
  <2>3. PICK c, r, ch : Shown(dev, c, r, ch)
    BY <1>2, <2>1
  <2>4. SettingsOK(t, gopMode) /\ Shown(t, c, r, ch) /\ Console!SizeOf(t) = Console!SizeOf(dev)
    BY <2>2, <2>3, SetAttributeIs
  <2> HIDE DEF t
  <2> QED  BY <1>1, <2>1, <2>2, <2>3, <2>4, SettingStep
<1>8. ASSUME Console!ClearScreen PROVE Goal
  <2> DEFINE t == Console!ClearScreenCall(dev)
  <2>1. Console!Becomes(t) /\ installed
    BY <1>8, Zenon DEF Console!ClearScreen, Console!Becomes
  <2>2. SettingsOK(dev, gopMode)
    BY <1>2, <2>1
  <2>3. PICK c, r, ch : Shown(dev, c, r, ch)
    BY <1>2, <2>1
  <2>4. SettingsOK(t, gopMode) /\ Shown(t, 0, 0, Blanks(GopModes[gopMode]))
    BY <2>2, <2>3, ClearIs
  <2> HIDE DEF t
  <2> QED  BY <1>1, <2>1, <2>2, <2>3, <2>4, ClearsStep
<1>9. ASSUME NEW string \in Strings, Console!OutputString(string) PROVE Goal
  <2>1. installed
    BY <1>9, Zenon DEF Console!OutputString, Console!Becomes
  <2>2. PICK c, r, ch : Shown(dev, c, r, ch)
    BY <1>2, <2>1
  <2> QED  BY <1>1, <1>2, <1>9, <2>1, <2>2, PrintsStep
<1>10. ASSUME installed, NEW cell \in Console!Grid(Console!SizeOf(dev)),
              Console!SetCursorPosition(cell[1], cell[2])
       PROVE  Goal
  <2>1. PICK c, r, ch : Shown(dev, c, r, ch)
    BY <1>2, <1>10
  <2> QED  BY <1>1, <1>2, <1>10, <2>1, MovesStep
<1>11. ASSUME NEW visible \in BOOLEAN, Console!EnableCursor(visible) PROVE Goal
  <2> DEFINE t == Console!FlushCursor([Console!FlushCursor(dev) EXCEPT
                                         !.CursorVisible = visible])
  <2>1. Console!Becomes(t) /\ installed
    BY <1>11, Zenon DEF Console!EnableCursor, Console!Becomes
  <2>2. SettingsOK(dev, gopMode)
    BY <1>2, <2>1
  <2>3. PICK c, r, ch : Shown(dev, c, r, ch)
    BY <1>2, <2>1
  <2>4. SettingsOK(t, gopMode) /\ Shown(t, c, r, ch) /\ Console!SizeOf(t) = Console!SizeOf(dev)
    BY <2>2, <2>3, EnableCursorIs
  <2> HIDE DEF t
  <2> QED  BY <1>1, <2>1, <2>2, <2>3, <2>4, SettingStep
<1>12. ASSUME UNCHANGED consoleVars PROVE Goal
  <2>1. gopMode' = gopMode /\ installed' = installed /\ dev' = dev
    BY <1>12 DEF consoleVars
  <2>2. ConsoleInv'
    BY <2>1, Zenon DEF ConsoleInv
  <2>3. ScreenStep
    BY <2>1, Zenon DEF ScreenStep, Console!Screen!screenVars, Console!Text
  <2> QED  BY <2>2, <2>3
<1> HIDE DEF Goal
<1>13. ASSUME Console!Next PROVE Goal
  BY <1>1, <1>3, <1>4, <1>5, <1>6, <1>7, <1>8, <1>9, <1>10, <1>11, <1>13, Zenon
     DEF Console!Next
<1> QED  BY <1>12, <1>13 DEF Goal

\* There is no console at first.
LEMMA ConsoleInit == Init => ConsoleInv /\ Console!Screen!Init
<1> SUFFICES ASSUME Init PROVE ConsoleInv /\ Console!Screen!Init
  OBVIOUS
<1>1. gopMode = 1 /\ installed = FALSE
  BY DEF Init, Console!Init
<1>2. 1 \in DOMAIN GopModes
  BY PlatformAssumption DEF Console!ConsoleAssumption
<1>3. Sees(installed, dev, Console!Unsupported, << >>, 0, 0)
  BY <1>1, SeesNone
<1>4. Console!Screen!Init
  BY <1>3, Zenon DEF Sees, TextIn, Console!Screen!Init, Console!Text
<1> QED
  BY <1>1, <1>2, <1>4 DEF ConsoleInv

\* ConsoleOK: as long as memory lasts, whatever is printed and whatever mode is set, the
\* installed console has a mode that fits its screen, in which its cursor is shown once.
THEOREM ConsoleStaysOK == ~MemoryRunsOut => (Spec => []ConsoleOK)
<1> SUFFICES ASSUME ~MemoryRunsOut PROVE Spec => []ConsoleOK
  OBVIOUS
<1>1. ConsoleInv /\ [Next]_vars => ConsoleInv'
  BY ConsoleSteps, ConsoleStep
<1> QED
  BY <1>1, ConsoleInit, ConsoleInvOK, PTL DEF Spec

\* ShowsTheText: as long as memory lasts, what the console draws, a run of glyphs at a
\* time, with a cursor that it erases and draws again, is what one character after the
\* other shows.
THEOREM ScreenIsShown == ~MemoryRunsOut => (Spec => ShowsTheText)
<1> SUFFICES ASSUME ~MemoryRunsOut PROVE Spec => ShowsTheText
  OBVIOUS
<1>1. ConsoleInv /\ [Next]_vars => ConsoleInv' /\ [Console!Screen!Next]_(Console!Screen!screenVars)
  BY ConsoleSteps, ConsoleStep DEF ScreenStep
<1> QED
  BY <1>1, ConsoleInit, PTL DEF Spec, ShowsTheText, Console!ShowsTheText, Console!Screen!Spec
=============================================================================
