--------------------------- MODULE MCKeypadDevice ---------------------------
(* An instance of KeypadDevice with a part of KeyList in its order: the     *)
(* volume keys and the dial key, or one volume, the back and the dial key.   *)
EXTENDS KeypadDevice

CONSTANTS Up, Down, Back, DialKey, s, e, space

ComboKeys == <<Up, Down, DialKey>>
BackKeys == <<Up, Back, DialKey>>
MCScanKeys == {Up, Down}
MCCombos == <<s, e, space>>
MCDeltas == 1 .. 3
=============================================================================
