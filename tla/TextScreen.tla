------------------------------ MODULE TextScreen ------------------------------
(***************************************************************************)
(* What a text console promises: a screen of columns and rows, and a       *)
(* cursor that each character of a string moves as the UEFI specification  *)
(* of OutputString says.  GraphicsConsole implements it.                   *)
(***************************************************************************)
EXTENDS Integers, SequencesExt

CONSTANTS Strings,    \* what clients print
          Greeting,   \* what the console prints when it appears
          Sizes,      \* the sizes that a screen may have
          Gone        \* the size while there is no console

VARIABLES size, text, column, row

screenVars == <<size, text, column, row>>

Blank == <<" ", 0>>
\* A wide glyph has a left and a right half.
Halves(c, wide) == IF wide THEN <<<<c, 1>>, <<c, 2>>>> ELSE <<<<c, 0>>>>
Cells(s) == (0 .. s[1] - 1) \X (0 .. s[2] - 1)
Empty(s) == [cell \in Cells(s) |-> Blank]

-----------------------------------------------------------------------------
(* One character after the other: t has the text, the cursor, and whether  *)
(* glyphs are wide.                                                        *)

With(t, cells, contents) ==
    [t EXCEPT !.text = [cell \in DOMAIN @ |->
       IF \E i \in DOMAIN cells : cells[i] = cell
       THEN contents[CHOOSE i \in DOMAIN cells : cells[i] = cell] ELSE @[cell]]]

Down(s, t) ==
    IF t.row < s[2] - 1 THEN [t EXCEPT !.row = @ + 1]
    ELSE [t EXCEPT !.text = [cell \in DOMAIN @ |->
            IF cell[2] = s[2] - 1 THEN Blank ELSE @[<<cell[1], cell[2] + 1>>]]]

NewLine(s, t) == [Down(s, t) EXCEPT !.column = 0]
Erase(t, c, r) == With([t EXCEPT !.column = c, !.row = r], <<<<c, r>>>>, <<Blank>>)

\* A glyph that does not fit at the end of a line goes to the next one; one that
\* fills the line moves the cursor there.
Put(s, t, c) ==
    LET halves == Halves(c, t.wide)
        u == IF t.column + Len(halves) <= s[1] THEN t
             ELSE NewLine(s, Erase(t, t.column, t.row))
        v == [With(u, [i \in DOMAIN halves |-> <<u.column + i - 1, u.row>>], halves)
                EXCEPT !.column = @ + Len(halves)]
    IN  IF v.column = s[1] THEN NewLine(s, v) ELSE v

Character(s, t, c) ==
    CASE c = "BS" -> IF t.column > 0 THEN Erase(t, t.column - 1, t.row)
                     ELSE IF t.row > 0 THEN Erase(t, s[1] - 1, t.row - 1) ELSE t
      [] c = "LF" -> Down(s, t)
      [] c = "CR" -> [t EXCEPT !.column = 0]
      [] c \in {"WIDE", "NARROW"} -> [t EXCEPT !.wide = (c = "WIDE")]
      [] OTHER -> Put(s, t, c)

Printed(s, t, string) ==
    LET upTo[i \in 0 .. Len(string)] ==
          IF i = 0 THEN t ELSE Character(s, upTo[i - 1], string[i])
    IN  upTo[Len(string)]

-----------------------------------------------------------------------------

Becomes(t) == text' = t.text /\ column' = t.column /\ row' = t.row

Shows(string) ==
    /\ size # Gone /\ UNCHANGED size
    /\ Becomes(Printed(size, [text |-> text, column |-> column, row |-> row,
                              wide |-> FALSE], string))

MoveTo(cell) ==
    /\ cell \in Cells(size) /\ UNCHANGED <<size, text>>
    /\ column' = cell[1] /\ row' = cell[2]

Appears(s) ==
    /\ size = Gone /\ size' = s
    /\ Becomes(Printed(s, [text |-> Empty(s), column |-> 0, row |-> 0,
                           wide |-> FALSE], Greeting))

\* Empty, with the cursor at home; the size may change.
Cleared(s) ==
    /\ size # Gone /\ size' = s
    /\ Becomes([text |-> Empty(s), column |-> 0, row |-> 0])

Disappears == size' = Gone /\ Becomes([text |-> << >>, column |-> 0, row |-> 0])

Init == size = Gone /\ text = << >> /\ column = 0 /\ row = 0

Next ==
    \/ Disappears
    \/ \E string \in Strings : Shows(string)
    \/ \E cell \in Cells(size) : MoveTo(cell)
    \/ \E s \in Sizes : Appears(s) \/ Cleared(s)

Spec == Init /\ [][Next]_screenVars
=============================================================================
