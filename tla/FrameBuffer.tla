----------------------------- MODULE FrameBuffer -----------------------------
(***************************************************************************)
(* SimpleFbDxe and FrameBufferBltLib: the graphics output protocol of the  *)
(* display, whose Blt copies rectangles between a caller's buffer and the  *)
(* frame in memory, or within the frame.  The frame is addressed as the    *)
(* code does it, pixel by pixel from its start, and the memory that the    *)
(* model keeps goes on after its last line, so that a line too far shows.  *)
(*                                                                         *)
(* A colour component is a number of which the frame holds the upper half: *)
(* the caller's eight bits per component become five or six.  SimpleFbDxe  *)
(* has one pixel format, and the branches for another one are left out.    *)
(***************************************************************************)
EXTENDS Integers, FiniteSets

CONSTANTS Width, Height, \* of the frame
          Colours        \* the values of a component in a caller's buffer

VARIABLES video,         \* memory from the start of the frame, one line past it
          buffer,        \* the BltBuffer of the caller, as large as the frame
          ready          \* is the protocol installed

frameVars == <<video, buffer, ready>>

\* What the code takes for granted of the constants; Platform assumes it.
FrameAssumption == Width \in Nat \ {0} /\ Height \in Nat \ {0}
                            /\ Colours \subseteq Nat /\ 0 \in Colours

Memory == 0 .. Width * (Height + 1) - 1
Frame == 0 .. Width * Height - 1
PixelsPerScanLine == Width
PixelAt(x, y) == y * PixelsPerScanLine + x

Stored(colour) == colour \div 2
Loaded(pixel) == pixel * 2

\* A rectangle has a source and a destination corner and a size; one in the buffer
\* has the buffer's own line length as its Delta.

\* The checks that each operation makes of the sides which are in the frame.
NotEmpty(r) == r.w # 0 /\ r.h # 0
SourceFits(r) == r.sx + r.w <= Width /\ r.sy + r.h <= Height
DestinationFits(r) == r.dx + r.w <= Width /\ r.dy + r.h <= Height

Cells(r) == (0 .. r.w - 1) \X (0 .. r.h - 1)

\* Memory m with the pixels of a rectangle at (x, y) replaced by those of new,
\* a function of the column and the row in it.
With(m, x, y, r, new) ==
    [a \in DOMAIN m |->
       LET c == (a % PixelsPerScanLine) - x
           l == (a \div PixelsPerScanLine) - y
       IN  IF <<c, l>> \in Cells(r) THEN new[<<c, l>>] ELSE m[a]]

-----------------------------------------------------------------------------
(* The operations on a frame v and a buffer b.                             *)

VideoFill(v, colour, r) == With(v, r.dx, r.dy, r, [p \in Cells(r) |->
                        Stored(colour)])

BufferToVideo(v, b, r) ==
    With(v, r.dx, r.dy, r, [p \in Cells(r) |->
                        Stored(b[PixelAt(r.sx + p[1], r.sy + p[2])])])

\* Mutant: the line is taken from the start of the buffer's rectangle in the frame.
VideoToBufferFromDestination(v, b, r) ==
    With(b, r.dx, r.dy, r, [p \in Cells(r) |->
                        Loaded(v[PixelAt(r.dx + p[1], r.sy + p[2])])])

VideoToBltBuffer(v, b, r) ==
    With(b, r.dx, r.dy, r, [p \in Cells(r) |->
                        Loaded(v[PixelAt(r.sx + p[1], r.sy + p[2])])])

CopyLine(v, r, from, to) ==
    [a \in DOMAIN v |-> IF a \in to .. to + r.w - 1 THEN v[a - to + from] ELSE v[a]]

\* Mutant: the comparison of the two addresses is the other way round.
VideoToVideoReversed(v, r) ==
    LET source == PixelAt(r.sx, r.sy)
        destination == PixelAt(r.dx, r.dy)
        LineOf(k) == (IF destination < source THEN r.h + 1 - k ELSE k - 1) * PixelsPerScanLine
        step[k \in 0 .. r.h] ==
            IF k = 0 THEN v
            ELSE CopyLine(step[k - 1], r, source + LineOf(k), destination + LineOf(k))
    IN  step[r.h]

\* Line by line, so that a line is read before it is overwritten: upwards from
\* one line after the last if the destination is after the source.
VideoToVideo(v, r) ==
    LET source == PixelAt(r.sx, r.sy)
        destination == PixelAt(r.dx, r.dy)
        LineOf(k) == (IF destination > source THEN r.h + 1 - k ELSE k - 1) * PixelsPerScanLine
        step[k \in 0 .. r.h] ==
            IF k = 0 THEN v
            ELSE CopyLine(step[k - 1], r, source + LineOf(k), destination + LineOf(k))
    IN  step[r.h]

-----------------------------------------------------------------------------
(* The protocol.                                                           *)

\* The screen is black before the protocol is installed.
SimpleFbDxeInitialize ==
    /\ ~ready /\ ready' = TRUE
    /\ video' = [a \in Memory |-> IF a \in Frame THEN 0 ELSE video[a]]
    /\ UNCHANGED buffer

\* DisplayBlt, whose four operations run at TPL_NOTIFY.
BltVideoFill(r, colour) ==
    /\ ready /\ NotEmpty(r) /\ DestinationFits(r)
    /\ video' = VideoFill(video, colour, r)
    /\ UNCHANGED <<buffer, ready>>

BltBufferToVideo(r) ==
    /\ ready /\ NotEmpty(r) /\ DestinationFits(r)
    /\ video' = BufferToVideo(video, buffer, r)
    /\ UNCHANGED <<buffer, ready>>

BltVideoToBltBuffer(r) ==
    /\ ready /\ NotEmpty(r) /\ SourceFits(r)
    /\ buffer' = VideoToBltBuffer(video, buffer, r)
    /\ UNCHANGED <<video, ready>>

BltVideoToVideo(r) ==
    /\ ready /\ NotEmpty(r) /\ SourceFits(r) /\ DestinationFits(r)
    /\ video' = VideoToVideo(video, r)
    /\ UNCHANGED <<buffer, ready>>

\* A caller of the protocol draws in its buffer.
Draw(x, y, colour) ==
    /\ ready
    /\ buffer' = [buffer EXCEPT ![PixelAt(x, y)] = colour]
    /\ UNCHANGED <<video, ready>>

Init ==
    /\ video \in [Memory -> {Stored(c) : c \in Colours}]
    /\ buffer = [a \in Frame |-> 0]
    /\ ready = FALSE

\* Rectangles of the frame and a buffer of its size.
Whole ==
    {r \in [sx : 0 .. Width - 1, sy : 0 .. Height - 1, dx : 0 .. Width - 1, dy : 0 .. Height - 1,
            w : 1 .. Width, h : 1 .. Height] : SourceFits(r) /\ DestinationFits(r)}
InPlace == {r \in Whole : r.sx = r.dx /\ r.sy = r.dy}

Next ==
    \/ SimpleFbDxeInitialize
    \/ \E r \in Whole : BltVideoToVideo(r)
    \/ \E r \in InPlace : \/ BltBufferToVideo(r) \/ BltVideoToBltBuffer(r)
                          \/ \E colour \in Colours : BltVideoFill(r, colour)
    \/ \E x \in 0 .. Width - 1, y \in 0 .. Height - 1, colour \in Colours : Draw(x, y, colour)

Spec == Init /\ [][Next]_frameVars

-----------------------------------------------------------------------------
(* Properties.                                                             *)

\* What Blt says of a copy within the frame: every pixel of the destination is what
\* the source had before, however they overlap, and all other memory is as it was.
Copied(v, r) == With(v, r.dx, r.dy, r, [p \in Cells(r) |->
                        v[PixelAt(r.sx + p[1], r.sy + p[2])]])

\* Copies towards the start of the frame, such as the console's scrolling, are exact.
CopyUpIsExact ==
    \A r \in Whole : PixelAt(r.dx, r.dy) <= PixelAt(r.sx, r.sy) => VideoToVideo(video, r) = Copied(video, r)

\* "Copy from last line to avoid source is corrupted by copying": and so are the
\* copies towards its end.
CopyIsExact ==
    [][\A r \in Whole : BltVideoToVideo(r) => video' = Copied(video, r)]_frameVars

\* A rectangle that is read, from whatever place to whatever place of the buffer,
\* and written back leaves the frame as it was: the console's cursor, drawn and
\* drawn again, relies on it.
RoundTrip ==
    \A r \in Whole :
        LET back == [r EXCEPT !.sx = r.dx, !.sy = r.dy, !.dx = r.sx, !.dy = r.sy]
        IN  BufferToVideo(video, VideoToBltBuffer(video, buffer, r), back) = video
=============================================================================
