------------------------------ MODULE MCSdCard ------------------------------
(* Five cards: two of high capacity, of which the larger has more blocks     *)
(* than the driver takes from its CSD, one that refuses to switch to high    *)
(* speed and has no MBR, an old one, and one of 2 GB, whose CSD gives blocks *)
(* of 1024 bytes.  The 32-bit byte address reaches four blocks.              *)
EXTENDS SdCard

CONSTANT CardKinds   \* of "old", "hc", "large", "slow", "2GB"

Fast == [hc |-> TRUE, v2 |-> TRUE, spec |-> TRUE, hs |-> TRUE,
         switches |-> TRUE, bs |-> 1, blocks |-> 6, mbr |-> 0]

Kind(name) ==
    CASE name = "hc"   -> Fast
      [] name = "large" -> [Fast EXCEPT !.blocks = 9]
      [] name = "slow" -> [Fast EXCEPT !.switches = FALSE, !.mbr = None]
      [] name = "old"  -> [Fast EXCEPT !.hc = FALSE, !.v2 = FALSE,
                             !.spec = FALSE, !.hs = FALSE, !.switches = FALSE,
                             !.blocks = 3, !.mbr = 1]
      [] name = "2GB"  -> [Fast EXCEPT !.hc = FALSE, !.hs = FALSE,
                             !.switches = FALSE, !.bs = 2, !.blocks = 2,
                             !.mbr = 2]

MCCards == {Kind(name) : name \in CardKinds}
MCLbas == 0 .. 5
=============================================================================
