--------------------------- MODULE MCConSplitterOut ---------------------------
(* Small instances of ConSplitterOut for TLC: two graphics devices and one *)
(* for text only, no two with the same modes.                              *)
EXTENDS ConSplitterOut

CONSTANTS lcd, ext, serial

Size40x12 == <<2, 2>>
Size80x50 == <<3, 2>>
SizeTall == <<2, 3>>
SizeBig == <<3, 3>>
R800 == <<8, 6>>

MCTextModes ==
    (lcd :> (0 :> Size40x12 @@ 1 :> Unsupported @@ 2 :> SizeTall @@ 3 :> SizeBig))
 @@ (ext :> (0 :> Size40x12 @@ 1 :> Size80x50 @@ 2 :> SizeBig))
 @@ (serial :> (0 :> Size40x12 @@ 1 :> Size80x50 @@ 2 :> SizeTall))

MCGraphicsModes ==
    (lcd :> <<<<4, 4>>, R800>>)
 @@ (ext :> <<<<5, 5>>, R800>>)
 @@ (serial :> << >>)
=============================================================================
