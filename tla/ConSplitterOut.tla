---------------------------- MODULE ConSplitterOut ----------------------------
(***************************************************************************)
(* The output half of ConSplitterDxe: two virtual text consoles, ConOut    *)
(* and StdErr, that show what they are given on all the devices behind     *)
(* them, and the virtual graphics output of ConOut.  A device may be       *)
(* behind both.  Each virtual console offers the modes that its devices    *)
(* share: TextOutQueryData holds what the modes of the first device look   *)
(* like, and TextOutModeMap has a row for each mode on offer and a column  *)
(* for each device, with the number that the device has for the mode.      *)
(*                                                                         *)
(* Each operation is one step: all are calls of one thread.  The devices   *)
(* are external: a text mode, a colour and a graphics mode each.  As on    *)
(* this platform a graphics device has a graphics output protocol, never   *)
(* UGA (PcdConOutUgaSupport is FALSE), and memory does not run out.        *)
(***************************************************************************)
EXTENDS Integers, SequencesExt

CONSTANTS Devices,
          TextModes,    \* per device: mode number -> <<columns, rows>>
          GraphicsModes,  \* per device: its resolutions; none: text only
          BaseSize,     \* 40 x 12, the mode 0 of every device
          PreferredSize,  \* PcdConOutColumn x PcdConOutRow
          DefaultResolution,   \* 800 x 600
          ConOutColour, StdErrColour, Colours,
          NoDevice,
          Unit,         \* CONSOLE_SPLITTER_ALLOC_UNIT
          StdErrDevices \* those that the platform names for StdErr

VARIABLES splitter,  \* the private data of the two virtual consoles
          graphics,  \* ConOut's virtual graphics output
          device,    \* the devices
          pcd,       \* the size that PcdConOutColumn and PcdConOutRow give
          opened     \* the devices that the driver holds open, per console

vars == <<splitter, graphics, device, pcd, opened>>

Splitters == {"ConOut", "StdErr"}
Unsupported == <<0, 0>>   \* the size of a mode that QueryMode refuses
Home == <<0, 0>>
InitMode == 255    \* 0xFF
InvalidMode == 65535   \* 0xffff
ModeCount(d) == Cardinality(DOMAIN TextModes[d])
HasGraphics(d) == GraphicsModes[d] # << >>
Supports(d, n) == n \in DOMAIN TextModes[d] /\ TextModes[d][n] # Unsupported
Greatest(S, none) == IF S = {} THEN none ELSE CHOOSE n \in S : \A m \in S : m <= n
Least(S) == CHOOSE n \in S : \A m \in S : n <= m

\* Modes 0 and 1 are those that the UEFI specification requires: mode 1 is of a
\* size that no other mode has, or unsupported.  0xFF is the number of no mode.  There
\* is a resolution that all graphics devices have.
ASSUME OutAssumption ==
    /\ Unit \in Nat \ {0} /\ NoDevice \notin Devices
    /\ BaseSize \in (Nat \ {0}) \X (Nat \ {0})
    /\ \A d \in Devices :
         /\ ModeCount(d) \in 2 .. InitMode /\ DOMAIN TextModes[d] = 0 .. ModeCount(d) - 1
         /\ TextModes[d][0] = BaseSize
         /\ \A n \in DOMAIN TextModes[d] : n # 1 => Supports(d, n)
         /\ Supports(d, 1) => \A e \in Devices : \A n \in DOMAIN TextModes[e] :
               Supports(e, n) => (TextModes[e][n] = TextModes[d][1] <=> n = 1)
         /\ GraphicsModes[d] \in Seq(ToSet(GraphicsModes[d]))
    /\ \E resolution \in UNION {ToSet(GraphicsModes[d]) : d \in Devices} \union {<< >>} :
         \A d \in Devices : HasGraphics(d) => resolution \in ToSet(GraphicsModes[d])

-----------------------------------------------------------------------------
(* The data of one virtual console.                                        *)

NewSplitter(colour) ==
    [TextOutList |-> [k \in 0 .. Unit - 1 |-> NoDevice],
     CurrentNumberOfConsoles |-> 0, CurrentNumberOfGraphicsOutput |-> 0,
     TextOutQueryData |-> [m \in {0} |-> BaseSize], TextOutQueryDataCount |-> Unit,
     TextOutModeMap |-> << >>,
     MaxMode |-> 1, Mode |-> 0, Cursor |-> Home, Attribute |-> colour]

TextOutListCount(s) == Cardinality(DOMAIN s.TextOutList)
Columns(s) == 0 .. s.CurrentNumberOfConsoles - 1
Behind(s) == {s.TextOutList[k] : k \in Columns(s)}

\* What ConSplitterTextOutQueryMode and SetCursorPosition read for a mode.
SizeOf(s, n) ==
    IF s.TextOutModeMap = << >> THEN s.TextOutQueryData[n]
    ELSE s.TextOutQueryData[s.TextOutModeMap[n][0]]

QueryModeSucceeds(s, n) == n < s.MaxMode /\ SizeOf(s, n) # Unsupported

\* How many places ConSplitterGrowBuffer, called while they are fewer than need,
\* makes of count.
Grown(count, need) ==
    IF need <= count THEN count
    ELSE count + Unit * ((need - count + Unit - 1) \div Unit)

\* The table of s gets a column for each place of its list, with -1 in the new
\* ones.  Only the rows of modes on offer are of interest, and kept.
GrowMapTable(s) ==
    [s EXCEPT !.TextOutModeMap = [n \in 0 .. s.MaxMode - 1 |->
       [k \in DOMAIN s.TextOutList |->
          IF s.TextOutModeMap # << >> /\ k \in Columns(s)
          THEN s.TextOutModeMap[n][k] ELSE -1]]]

WithColumn(table, k, column) ==
    [n \in DOMAIN table |-> [i \in DOMAIN table[n] |->
       IF n \in DOMAIN column /\ i = k THEN column[n] ELSE table[n][i]]]

\* The modes of the first device become those of s.
AddOutputMode(s, d) ==
    LET modes == TextModes[d]
        max == ModeCount(d)
        empty == GrowMapTable([s EXCEPT !.MaxMode = max, !.TextOutModeMap = << >>])
    IN  [empty EXCEPT
           !.TextOutQueryData = modes,
           !.TextOutQueryDataCount = Grown(s.TextOutQueryDataCount, max),
           !.TextOutModeMap =
              WithColumn(empty.TextOutModeMap, 0, [n \in DOMAIN modes |-> n])]

\* How many members of S are below n, and the member with i others below it.
Below(n, S) == Cardinality({m \in S : m < n})
Nth(i, S) == CHOOSE n \in S : Below(n, S) = i

\* Mutant: the rows after a removed mode stay where they are.
IntersectionLeavesRows(s, column) ==
    LET gone == {n \in 2 .. s.MaxMode - 1 : column[n] = -1}
        left == s.MaxMode - Cardinality(gone)
    IN  [s EXCEPT !.TextOutModeMap = [n \in 0 .. left - 1 |-> @[n]], !.MaxMode = left,
                  !.Mode = IF @ \in gone THEN -1 ELSE @ - Below(@, gone)]

\* Modes from 2 on that have no number in column are removed, and those after
\* them move up; the number of the current mode follows.
GetIntersection(s, column) ==
    LET gone == {n \in 2 .. s.MaxMode - 1 : column[n] = -1}
        kept == (0 .. s.MaxMode - 1) \ gone
    IN  [s EXCEPT
           !.TextOutModeMap = [i \in 0 .. Cardinality(kept) - 1 |->
              s.TextOutModeMap[Nth(i, kept)]],
           !.MaxMode = Cardinality(kept),
           !.Mode = IF @ \in gone THEN -1 ELSE @ - Below(@, gone)]

\* The first mode of s that has a size; MaxMode if none has.
RowOf(s, size) == Least({n \in 0 .. s.MaxMode - 1 : SizeOf(s, n) = size} \union {s.MaxMode})

\* The modes of device d that stand for mode n of s.
Matches(s, d, n) ==
    {m \in DOMAIN TextModes[d] : Supports(d, m) /\ RowOf(s, TextModes[d][m]) = n}

\* For each mode of s the number that device d has for it: the last, if d has
\* several.  Mode 1 is of no use if d lacks it.
ColumnOf(s, d) ==
    [n \in 0 .. s.MaxMode - 1 |->
       IF n = 1 /\ ~Supports(d, 1) THEN 1
       ELSE Greatest(Matches(s, d, n), s.TextOutModeMap[n][s.CurrentNumberOfConsoles])]

\* The next column of the table is filled in with the modes of device d, and
\* the modes that d lacks are removed.
SyncOutputMode(s, d) ==
    LET t == IF Supports(d, 1) THEN s
             ELSE [s EXCEPT !.TextOutQueryData[1] = Unsupported]
        column == ColumnOf(t, d)
    IN  GetIntersection(
          [t EXCEPT !.TextOutModeMap = WithColumn(@, s.CurrentNumberOfConsoles, column)],
          column)

-----------------------------------------------------------------------------
(* Operations, from a state of the driver and the devices to the next one. *)
(* failed is the worst status of the devices.                              *)

State == [splitter |-> splitter, graphics |-> graphics, device |-> device,
          pcd |-> pcd, failed |-> FALSE]

TextOutSetMode(st, p, n) ==
    [st EXCEPT !.splitter[p].Mode = n, !.splitter[p].Cursor = Home]

\* Cursor is kept while there is no device: with one, nothing depends on where
\* the cursor of a device is.
ClearScreen(st, p) == [st EXCEPT !.splitter[p].Cursor = Home, !.failed = FALSE]

\* Each device is asked for the mode that its column names, and may refuse;
\* the number is recorded all the same.
SetEveryMode(st, p, n) ==
    LET s == st.splitter[p]
        At(d) == s.TextOutModeMap[n][CHOOSE k \in Columns(s) : s.TextOutList[k] = d]
    IN  [TextOutSetMode(st, p, n) EXCEPT
           !.device = [d \in Devices |->
              IF d \in Behind(s) /\ Supports(d, At(d))
              THEN [st.device[d] EXCEPT !.textMode = At(d)] ELSE st.device[d]],
           !.failed = \E d \in Behind(s) : ~Supports(d, At(d))]

TextOutSetModeCall(st, p, n) ==
    IF n >= st.splitter[p].MaxMode THEN [st EXCEPT !.failed = TRUE]
    ELSE IF st.splitter[p].Mode = n THEN ClearScreen(st, p)
    ELSE SetEveryMode(st, p, n)

SetAttributeCall(st, p, colour) ==
    [st EXCEPT !.splitter[p].Attribute = colour,
               !.device = [d \in Devices |->
                  IF d \in Behind(st.splitter[p])
                  THEN [st.device[d] EXCEPT !.colour = colour] ELSE st.device[d]]]

\* The search for a device behind both consoles.  The pointer into the list of
\* StdErr is not set back between two devices of ConOut.
FoundTheSameTextOut(out, err) ==
    \E i \in Columns(out), j \in Columns(err) :
       LET place == i * err.CurrentNumberOfConsoles + j
       IN  /\ place < TextOutListCount(err)
           /\ err.TextOutList[place] = out.TextOutList[i]

Sizes(s) == {SizeOf(s, n) : n \in 0 .. s.MaxMode - 1}

\* The column that says which modes of s some mode of another console equals.
Common(s, other) ==
    [n \in 0 .. s.MaxMode - 1 |-> IF SizeOf(s, n) \in Sizes(other) THEN 1 ELSE -1]

IntersectWith(st, p, other) ==
    LET s == st.splitter[p]
        t == [st EXCEPT !.splitter[p] = GetIntersection(s, Common(s, other))]
    IN  IF t.splitter[p].Mode < 0 THEN TextOutSetModeCall(t, p, 0) ELSE t

\* Both columns are computed before a mode is removed.
GetIntersectionBetweenConOutAndStrErr(st) ==
    LET out == st.splitter["ConOut"]
        err == st.splitter["StdErr"]
    IN  IF FoundTheSameTextOut(out, err)
        THEN IntersectWith(IntersectWith(st, "ConOut", err), "StdErr", out)
        ELSE st

\* The last usable mode of the preferred size, else mode 40 x 12, which from
\* then on is preferred.
SetConsoleOutMode(st, p) ==
    LET s == st.splitter[p]
        OfSize(size) == Greatest({n \in 0 .. s.MaxMode - 1 :
                           QueryModeSucceeds(s, n) /\ SizeOf(s, n) = size}, InitMode)
        preferred == TextOutSetModeCall(st, p, OfSize(st.pcd))
    IN  IF preferred.failed
        THEN [TextOutSetModeCall(preferred, p, OfSize(BaseSize)) EXCEPT !.pcd = BaseSize]
        ELSE preferred

-----------------------------------------------------------------------------
(* The virtual graphics output.                                            *)

Resolution(st, d) == GraphicsModes[d][st.device[d].graphicsMode + 1]
GraphicsDevices(s) == {d \in Behind(s) : HasGraphics(d)}

\* The number that d has for a resolution; its number of modes if it has none.
NumberOf(d, resolution) ==
    LET found == {n \in DOMAIN GraphicsModes[d] : GraphicsModes[d][n] = resolution}
    IN  IF found = {} THEN Len(GraphicsModes[d]) ELSE Least(found) - 1

SetResolutions(st, D, resolution) ==
    [st EXCEPT
       !.device = [d \in Devices |->
          IF d \in D /\ resolution \in ToSet(GraphicsModes[d])
          THEN [st.device[d] EXCEPT !.graphicsMode = NumberOf(d, resolution)] ELSE st.device[d]],
       !.failed = \E d \in D : resolution \notin ToSet(GraphicsModes[d])]

\* With one graphics device its frame buffer shows through.
GraphicsSetModeCall(st, n) ==
    LET s == st.splitter["ConOut"]
        D == GraphicsDevices(s)
        t == SetResolutions(st, D, st.graphics.modes[n + 1])
    IN  IF n >= Len(st.graphics.modes) THEN [st EXCEPT !.failed = TRUE]
        ELSE IF s.CurrentNumberOfGraphicsOutput = 1 /\ D # {}
        THEN LET d == CHOOSE d \in D : TRUE
             IN  [t EXCEPT !.graphics.mode = n, !.graphics.frameBuffer = d,
                           !.graphics.info = Resolution(t, d)]
        ELSE [t EXCEPT !.graphics.mode = n, !.graphics.info = st.graphics.modes[n + 1]]

\* Mutant: a further graphics device leaves the modes of the first on offer.
ModesOfTheFirst(st, d) ==
    IF st.splitter["ConOut"].CurrentNumberOfGraphicsOutput = 0
    THEN [st.graphics EXCEPT !.modes = GraphicsModes[d], !.mode = st.device[d].graphicsMode,
            !.info = Resolution(st, d), !.frameBuffer = d]
    ELSE [st.graphics EXCEPT !.frameBuffer = NoDevice]

\* The first graphics device lends its modes, its current one and its frame
\* buffer.  Each further one leaves the modes that it has too, each once, and
\* there is no frame buffer any more.
GraphicsModesWith(st, d) ==
    LET g == st.graphics
        shared[i \in 0 .. Len(g.modes)] ==
           IF i = 0 THEN << >>
           ELSE IF g.modes[i] \in ToSet(GraphicsModes[d]) \ ToSet(shared[i - 1])
           THEN Append(shared[i - 1], g.modes[i]) ELSE shared[i - 1]
    IN  IF st.splitter["ConOut"].CurrentNumberOfGraphicsOutput = 0
        THEN [g EXCEPT !.modes = GraphicsModes[d], !.mode = st.device[d].graphicsMode,
                       !.info = Resolution(st, d), !.frameBuffer = d]
        ELSE [g EXCEPT !.modes = shared[Len(g.modes)],
                       !.frameBuffer = NoDevice]

\* The mode that the new device is in, else 800 x 600, else the first.
IndexFor(g, resolution) ==
    LET At(r) == {n \in DOMAIN g.modes : g.modes[n] = r}
    IN  CASE At(resolution) # {} -> Least(At(resolution)) - 1
          [] At(resolution) = {} /\ At(DefaultResolution) # {} ->
                Least(At(DefaultResolution)) - 1
          [] OTHER -> 0

\* If the chosen mode is the current one, only the new device has to be set.
AddGraphicsOutputMode(st, d) ==
    LET t == [st EXCEPT !.graphics = GraphicsModesWith(st, d),
                        !.splitter["ConOut"].CurrentNumberOfGraphicsOutput = @ + 1]
        index == IndexFor(t.graphics, Resolution(t, d))
        chosen == t.graphics.modes[index + 1]
        set == GraphicsSetModeCall([t EXCEPT !.graphics.mode = InvalidMode], index)
    IN  IF chosen = t.graphics.info
        THEN SetResolutions([t EXCEPT !.graphics.mode = index],
                            {d} \ {e \in {d} : Resolution(t, e) = chosen}, chosen)
        ELSE IF ~set.failed THEN set
        ELSE GraphicsSetModeCall([set EXCEPT !.graphics.modes[1] = DefaultResolution], 0)

\* The protocol is installed on ConOut with its first graphics device.
InstallsGraphics(st) ==
    [st EXCEPT !.graphics.installed =
        @ \/ (~st.failed /\ st.splitter["ConOut"].CurrentNumberOfGraphicsOutput = 1)]

-----------------------------------------------------------------------------
(* Devices come and go.                                                    *)

\* The list grows when it is full, and the table with it.
RoomForOne(s) ==
    IF s.CurrentNumberOfConsoles < TextOutListCount(s) THEN s
    ELSE GrowMapTable([s EXCEPT !.TextOutList =
           [k \in 0 .. Grown(TextOutListCount(s), s.CurrentNumberOfConsoles + 1) - 1 |->
              IF k < TextOutListCount(s) THEN s.TextOutList[k] ELSE NoDevice]])

\* A device comes to the end of the list, and the table is that of one device more.
JoinedBy(s, d) ==
    LET room == RoomForOne(s)
        k == room.CurrentNumberOfConsoles
        listed == [room EXCEPT !.TextOutList[k] = d]
        synced == IF k = 0 THEN AddOutputMode(listed, d) ELSE SyncOutputMode(listed, d)
    IN  [synced EXCEPT !.CurrentNumberOfConsoles = @ + 1]

TextOutAddDevice(st, p, d) ==
    LET joined == JoinedBy(st.splitter[p], d)
        added == GetIntersectionBetweenConOutAndStrErr([st EXCEPT !.splitter[p] = joined])
    IN  SetConsoleOutMode(
          IF p = "ConOut" /\ HasGraphics(d)
          THEN InstallsGraphics(AddGraphicsOutputMode(added, d)) ELSE added, p)

\* Mutant: all places move down, whichever device leaves.
RemovedOnlyFirst(s, d) ==
    LET last == s.CurrentNumberOfConsoles - 1
    IN  [k \in DOMAIN s.TextOutList |->
           IF k < last THEN s.TextOutList[k + 1] ELSE s.TextOutList[k]]

\* The places after the device move down by one; the last keeps its value.
Removed(s, d) ==
    LET i == CHOOSE k \in Columns(s) : s.TextOutList[k] = d
        last == s.CurrentNumberOfConsoles - 1
    IN  [k \in DOMAIN s.TextOutList |->
           IF k \in i .. last - 1 THEN s.TextOutList[k + 1] ELSE s.TextOutList[k]]

\* The modes are computed anew, as if the devices came one after the other;
\* but the number of the current mode stays what it was.
Recomputed(s, n) ==
    LET first == AddOutputMode(s, s.TextOutList[0])
        upTo[k \in 0 .. n - 1] ==
           [IF k = 0 THEN first ELSE SyncOutputMode(upTo[k - 1], s.TextOutList[k])
              EXCEPT !.CurrentNumberOfConsoles = k + 1]
    IN  upTo[n - 1]

TextOutDeleteDevice(st, p, d) ==
    LET s == st.splitter[p]
        n == s.CurrentNumberOfConsoles - 1
        gops == s.CurrentNumberOfGraphicsOutput
                  - (IF p = "ConOut" /\ HasGraphics(d) THEN 1 ELSE 0)
        rest == [s EXCEPT !.TextOutList = Removed(s, d),
                          !.CurrentNumberOfGraphicsOutput = gops]
        t == [st EXCEPT !.graphics.installed = @ /\ ~(p = "ConOut" /\ gops = 0)]
    IN  IF n = 0
        THEN TextOutSetMode([t EXCEPT !.splitter[p] =
               [rest EXCEPT !.CurrentNumberOfConsoles = 0, !.MaxMode = 1,
                            !.TextOutQueryData = [m \in {0} |-> BaseSize],
                            !.TextOutModeMap = [m \in {0} |-> rest.TextOutModeMap[0]]]], p, 0)
        ELSE GetIntersectionBetweenConOutAndStrErr(
               [t EXCEPT !.splitter[p] = Recomputed(rest, n)])

\* What a device is like when its own driver has just started it.  One that has
\* left both consoles is disconnected, and is like that when it comes back.
Started == [textMode |-> 0, colour |-> ConOutColour, graphicsMode |-> 0]

\* The driver and the devices come to state st.
Becomes(st) == /\ splitter' = st.splitter /\ graphics' = st.graphics
               /\ device' = st.device /\ pcd' = st.pcd

\* Mutant: the mode is not made invalid first, so setting the same one again only
\* clears the screen.
StartKeepsMode(p, d) ==
    /\ d \notin opened[p]
    /\ p = "StdErr" => d \in StdErrDevices
    /\ Becomes(SetAttributeCall(TextOutAddDevice(State, p, d),
         p, IF p = "ConOut" THEN ConOutColour ELSE StdErrColour))
    /\ opened' = [opened EXCEPT ![p] = @ \union {d}]

\* ConOut and StdErr are started alike, each with a colour of its own.
DriverBindingStart(p, d) ==
    /\ d \notin opened[p]
    /\ p = "StdErr" => d \in StdErrDevices
    /\ Becomes(SetAttributeCall(
         TextOutAddDevice([State EXCEPT !.splitter[p].Mode = InitMode], p, d),
         p, IF p = "ConOut" THEN ConOutColour ELSE StdErrColour))
    /\ opened' = [opened EXCEPT ![p] = @ \union {d}]

DriverBindingStop(p, d) ==
    /\ d \in opened[p]
    /\ opened' = [opened EXCEPT ![p] = @ \ {d}]
    /\ LET st == TextOutDeleteDevice(State, p, d)
       IN  Becomes([st EXCEPT !.device = [e \in Devices |->
             IF \E q \in Splitters : e \in opened'[q] THEN st.device[e] ELSE Started]])

-----------------------------------------------------------------------------
(* The calls of the applications.                                          *)

SetMode(p, n) ==
    /\ Becomes(TextOutSetModeCall(State, p, n))
    /\ UNCHANGED opened

\* Each device resets itself to its mode 0.
DevicesReset(st, p) ==
    [st EXCEPT !.device = [d \in Devices |->
        IF d \in Behind(st.splitter[p]) THEN [st.device[d] EXCEPT !.textMode = 0] ELSE st.device[d]]]

Reset(p) ==
    /\ Becomes(TextOutSetMode(
         SetAttributeCall(DevicesReset(State, p), p, splitter[p].Attribute), p, 0))
    /\ UNCHANGED opened

SetAttribute(p, colour) ==
    /\ Becomes(SetAttributeCall(State, p, colour))
    /\ UNCHANGED opened

\* The colour is set again, since the other console may have changed it.
OutputString(p) ==
    /\ splitter[p].CurrentNumberOfConsoles > 0
    /\ Becomes(SetAttributeCall(State, p, splitter[p].Attribute))
    /\ UNCHANGED opened

\* Without a device a character moves the cursor of a screen that is not there.
Moved(cursor, size, char) ==
    LET c == cursor[1]
        r == cursor[2]
        down == IF r < size[2] - 1 THEN r + 1 ELSE r
    IN  CASE char = "backspace" /\ c = 0 /\ r > 0 -> <<size[1] - 1, r - 1>>
          [] char = "backspace" /\ c > 0 -> <<c - 1, r>>
          [] char = "linefeed" -> <<c, down>>
          [] char = "return" -> <<0, r>>
          [] char = "glyph" -> IF c < size[1] - 1 THEN <<c + 1, r>> ELSE <<0, down>>
          [] OTHER -> cursor

OutputToNoDevice(p, char) ==
    LET s == splitter[p]
    IN  /\ s.CurrentNumberOfConsoles = 0
        /\ Becomes([State EXCEPT
             !.splitter[p].Cursor = Moved(@, SizeOf(s, s.Mode), char)])
        /\ UNCHANGED opened

\* A position on the screen of the current mode is accepted.  With mode -1 the
\* size is read from before the table, and anything is possible.
SetCursorPosition(p, position) ==
    LET s == splitter[p]
        size == SizeOf(s, s.Mode)
    IN  /\ s.Mode >= 0 => position[1] < size[1] /\ position[2] < size[2]
        /\ Becomes(IF s.CurrentNumberOfConsoles > 0 THEN State
                   ELSE [State EXCEPT !.splitter[p].Cursor = position])
        /\ UNCHANGED opened

GraphicsSetMode(n) ==
    /\ graphics.installed
    /\ Becomes(GraphicsSetModeCall(State, n))
    /\ UNCHANGED opened

Init ==
    /\ splitter = [p \in Splitters |-> NewSplitter(
                     IF p = "ConOut" THEN ConOutColour ELSE StdErrColour)]
    /\ graphics = [modes |-> <<DefaultResolution>>, mode |-> 0, installed |-> FALSE,
                   info |-> DefaultResolution, frameBuffer |-> NoDevice]
    /\ device = [d \in Devices |-> Started]
    /\ pcd = PreferredSize
    /\ opened = [p \in Splitters |-> {}]

\* Positions that applications ask for, not all of them on every screen.
Positions == {Home, <<BaseSize[1] - 1, BaseSize[2] - 1>>, BaseSize}

Next ==
    \E p \in Splitters :
       \/ \E d \in Devices : DriverBindingStart(p, d) \/ DriverBindingStop(p, d)
       \/ \E n \in 0 .. splitter[p].MaxMode - 1 : SetMode(p, n)
       \/ Reset(p)
       \/ \E colour \in Colours : SetAttribute(p, colour)
       \/ OutputString(p)
       \/ \E char \in {"backspace", "linefeed", "return", "glyph"} :
            OutputToNoDevice(p, char)
       \/ \E position \in Positions : SetCursorPosition(p, position)
       \/ \E n \in 0 .. Len(graphics.modes) - 1 : GraphicsSetMode(n)

Spec == Init /\ [][Next]_vars

-----------------------------------------------------------------------------
(* Properties.                                                             *)

\* The list, the query data and the table have room for what is in use, and the
\* cursor of a screen that is not there stays on it.
TypeOK ==
    /\ \A p \in Splitters :
         LET s == splitter[p]
         IN  /\ s.CurrentNumberOfConsoles \in 0 .. TextOutListCount(s)
             /\ Behind(s) = opened[p]
             /\ s.MaxMode \in 1 .. s.TextOutQueryDataCount
             /\ s.Mode \in -1 .. s.MaxMode - 1
             /\ s.CurrentNumberOfConsoles > 0 =>
                  /\ DOMAIN s.TextOutModeMap = 0 .. s.MaxMode - 1
                  /\ \A n \in 0 .. s.MaxMode - 1, k \in Columns(s) :
                       s.TextOutModeMap[n][k] \in {-1} \union DOMAIN TextModes[s.TextOutList[k]]
             /\ s.Cursor \in (0 .. BaseSize[1] - 1) \X (0 .. BaseSize[2] - 1)
    /\ graphics.mode \in 0 .. Len(graphics.modes) - 1
    /\ \A d \in Devices : Supports(d, device[d].textMode)

\* A mode on offer looks the same on all the devices behind the console, under
\* the numbers that the table has for them.
ModesShared ==
    \A p \in Splitters : LET s == splitter[p]
    IN  \A n \in {m \in 0 .. s.MaxMode - 1 : QueryModeSucceeds(s, m)}, k \in Columns(s) :
          LET d == s.TextOutList[k]
              m == s.TextOutModeMap[n][k]
          IN  Supports(d, m) /\ TextModes[d][m] = SizeOf(s, n)

\* All the devices behind s are in its current mode.
InMode(s, dev) ==
    \A d \in Behind(s) : TextModes[d][dev[d].textMode] = SizeOf(s, s.Mode)

\* A new device, and with it those that were there, ends in the current mode.
AddSynchronises ==
    [][\A p \in Splitters : opened'[p] \ opened[p] # {} =>
         splitter'[p].Mode >= 0 /\ InMode(splitter'[p], device')]_vars

\* Each graphics device has every mode of the virtual graphics output, and
\* shows its current one; the protocol is there while there is a device; and a
\* frame buffer is given out only while it is that of the only graphics device,
\* for what is written to it would not show on another.
GraphicsShared ==
    LET D == GraphicsDevices(splitter["ConOut"])
    IN  /\ graphics.installed <=> D # {}
        /\ graphics.modes[graphics.mode + 1] = graphics.info
        /\ \A d \in D : /\ ToSet(graphics.modes) \subseteq ToSet(GraphicsModes[d])
                        /\ Resolution(State, d) = graphics.info
        /\ D # {} /\ graphics.frameBuffer # NoDevice => D = {graphics.frameBuffer}
=============================================================================
