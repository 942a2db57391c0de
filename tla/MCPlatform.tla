----------------------------- MODULE MCPlatform -----------------------------
(* A small instance of Platform for TLC.                                   *)
EXTENDS Platform

\* Counts per unit of one pointer device, half of another's.
MCResolution == [m1 |-> 1, m2 |-> 2]

\* Three columns and eight lines, of which a line of text takes two.
MCTexts == {<<"glyph", "newline", "glyph">>, <<"newline", "other", "newline">>,
            <<"glyph", "glyph", "return", "blank", "glyph">>}

\* As on the device, mode 1 of the text console is not supported and the full
\* screen is mode 2.  The lines wrap, scroll and go back, narrow and wide.
MCGopModes == <<<<2, 2>>, <<3, 2>>>>
MCPcdResolution == <<3, 2>>
MCDefaultResolution == <<2, 2>>
MCBaseSize == <<2, 1>>
MCExtendedSize == <<4, 2>>
MCModeTable == <<<<5, 2>>, <<2, 1>>>>
MCGreeting == <<"a", "LF", "CR">>
MCStrings == {<<"a">>, <<"BS">>, <<"LF">>, <<"CR">>, <<"a", "a", "BS", "BS">>,
              <<"a", "a", "a", "a", "CR", "BS">>, <<"WIDE", "a", "a">>,
              <<"a", "WIDE", "a", "NARROW", "a">>, <<"WIDE", "BS", "a", "a", "a">>}
=============================================================================
