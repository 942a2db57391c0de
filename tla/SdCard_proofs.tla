---------------------------- MODULE SdCard_proofs ----------------------------
(***************************************************************************)
(* Proofs about SdCard, for any set of cards, requests and bounds.  The    *)
(* driver does not keep the card's state, so each label of the             *)
(* initialization has to stand for one: CardFollowsDriver says which, and  *)
(* what the clock and the bus may be there.  SdCardInitialize looks at no  *)
(* result, and is right all the same because a block is only read in the   *)
(* state in which the whole initialization has worked.                     *)
(***************************************************************************)
EXTENDS SdCard, Integers, SequenceLemmas

States == {"idle", "ready", "ident", "stby", "tran"}
CardType == [state : States, app : BOOLEAN, blklen : {8, 64, 512}, width : {1, 4},
             hs : BOOLEAN]

CardTypes ==
    /\ kind \in Cards /\ up \in BOOLEAN /\ card \in CardType
    /\ {hcs, high_capacity, scr_valid, fault, garbled} \subseteq BOOLEAN
    /\ clk \in {0, 400, 25, 48} /\ width \in {1, 4}
    /\ media \in [bs : Nat \ {0}, LastBlock : Nat]
    /\ i \in 0 .. MaxScan

-----------------------------------------------------------------------------
(* The initialization: what the card has come to at a label.               *)

Identifying == {"SdCardInitialize", "no_card", "SDCn_init", "CMD0", "CMD8",
                "CMD55_ocr", "ACMD41"}
Addressed == {"CMD9", "CMD10", "CMD7"}
Narrow == {"CMD16_scr", "CMD55_scr", "ACMD51", "scr_data", "hang", "CMD55_width",
           "ACMD6", "CMD13", "4_bit_mode"}
Wide == {"CMD16_status", "CMD55_status", "ACMD13", "status_data", "25_MHz"}
Switching == {"CMD16_switch", "CMD6", "check_data", "CMD6_set", "switch_data",
              "48_MHz", "CMD16"}

\* Which state the card is in, and that the driver knows its capacity from the
\* time it is ready.  After a damaged answer to ACMD41 the driver may be wrong in
\* either direction.
StateFollowsDriver ==
    /\ pc \in Identifying =>
         /\ card.state = "idle" \/ (garbled /\ card.state = "ready")
         /\ ~high_capacity
    /\ pc = "CMD2" => card.state = "ready" \/ (garbled /\ card.state = "idle")
    /\ pc = "CMD3" => card.state = "ident"
    /\ pc \in Addressed => card.state = "stby"
    /\ pc \in Narrow \union Wide \union Switching => card.state = "tran"
    /\ pc = "CMD2" \/ card.state \notin {"idle", "ready"} =>
         garbled \/ (high_capacity <=> kind.hc)
    /\ garbled => fault

\* How wide the bus is and how fast the clock.
LinesFollowCard ==
    /\ pc \in {"CMD13", "4_bit_mode"} => card.width = 4
    /\ width = 4 => card.width = 4
    /\ pc \in Wide \union Switching => width = 4
    /\ clk \in {25, 48} => card.state = "tran" /\ pc \in Switching \union InitDone
    /\ pc = "48_MHz" => card.hs
    /\ clk = 48 => card.hs /\ pc \in {"CMD16"} \union InitDone

CardFollowsDriver == CardTypes /\ StateFollowsDriver /\ LinesFollowCard

\* As long as nothing failed, an application command follows its CMD55, and what
\* is searched is a card of which everything is known.
NothingFailed ==
    ~fault =>
      /\ pc \in {"ACMD41", "ACMD51", "ACMD6", "ACMD13"} => card.app
      /\ pc # "hang"
      /\ pc \in InitDone =>
           /\ media = mmc_decode_csd(kind)
           /\ card.state = "tran" /\ card.blklen = 512 /\ width = 4
      /\ pc = "scan" => \A b \in 0 .. i - 1 : b # kind.mbr
      /\ pc = "CpuDeadLoop" => kind.mbr = None \/ kind.mbr > MaxScan

SearchStartsAtZero == pc \notin InitDone => i = 0

InitInv ==
    /\ CardFollowsDriver /\ NothingFailed /\ SearchStartsAtZero
    /\ PublishedIsReadable

-----------------------------------------------------------------------------
(* The reads: how far the loop of MmcReadInternal has come.                *)

\* The driver cuts the byte address, so a block lies where its number modulo the
\* blocks that an address can reach has it.
ReadsWrap ==
    media.bs = 1 =>
      /\ ~garbled => \A b \in DOMAIN buf :
                       buf[b] # None => buf[b] = (lba + b - 1) % AddrBlocks
      /\ status = "EFI_SUCCESS" => \A b \in 1 .. Len(buf) - 1 : buf[b] # None

ReadInv ==
    /\ buf \in Seq(Nat \union {None}) /\ Len(buf) <= MaxRead
    /\ lba \in Lbas \union {0} /\ addr \in 0 .. AddrBlocks - 1
    /\ off \in 0 .. MaxRead /\ len \in 0 .. MaxRead
    /\ status \in {None, "EFI_SUCCESS", "EFI_DEVICE_ERROR"}
    /\ pc \notin Published => buf = << >> /\ status = None
    /\ pc = "read" => off + len = Len(buf) /\ len > 0 /\ status = None
    /\ pc = "read" /\ media.bs = 1 =>
         /\ addr = (lba + off) % AddrBlocks
         /\ \A b \in 1 .. off : buf[b] # None
    /\ ReadsWrap

SdInv == InitInv /\ ReadInv

-----------------------------------------------------------------------------
(* Commands.                                                               *)

\* What the constants say of a read.
LEMMA ReadConstants ==
  /\ MaxRead \in Nat /\ AddrBlocks \in Nat \ {0} /\ BLOCK_SIZE \in Nat \ {0}
  /\ Lbas \subseteq Nat /\ None \notin Nat
  /\ None \notin {"EFI_SUCCESS", "EFI_DEVICE_ERROR"}
BY SdAssumption

\* A remainder is never larger, and a small number is its own.
LEMMA SmallRemainder ==
  ASSUME NEW n \in Nat, NEW a \in Nat \ {0}
  PROVE  n % a \in Nat /\ n % a <= n /\ (n < a => n % a = n)
<1> DEFINE q == n \div a
<1> DEFINE r == n % a
<1>1. q \in Nat /\ r \in 0 .. a - 1 /\ n = a * q + r
  BY Remainder
<1>2. a * q \in Nat /\ a * 0 = 0
  BY <1>1
<1> HIDE DEF q, r
<1>3. r \in Nat /\ r <= n
  BY <1>1, <1>2
<1>4. n < a => n % a = n
  <2>1. SUFFICES ASSUME n < a PROVE n % a = n
    OBVIOUS
  <2>2. n \in 0 .. a - 1 /\ 0 \in Nat
    BY <2>1
  <2>3. (a * 0 + n) % a = n
    BY <2>2, RemainderUnique
  <2>4. a * 0 + n = n
    BY <1>2
  <2> QED
    BY <2>3, <2>4
<1> QED
  BY <1>3, <1>4 DEF r

\* What the constants say of the card in the slot.
LEMMA KindTypes ==
  ASSUME kind \in Cards
  PROVE  /\ kind.hc \in BOOLEAN /\ kind.v2 \in BOOLEAN /\ kind.spec \in BOOLEAN
         /\ kind.hs \in BOOLEAN /\ kind.switches \in BOOLEAN
         /\ kind.bs \in Nat \ {0} /\ kind.blocks \in Nat \ {0}
         /\ kind.mbr = None \/ kind.mbr \in 0 .. kind.blocks * kind.bs - 1
         /\ MaxScan <= mmc_decode_csd(kind).LastBlock
BY SdAssumption

\* What the driver makes of the CSD: the block length is right, and of the blocks
\* whole turns of C_SIZE may be missing.
LEMMA CsdTypes ==
  ASSUME kind \in Cards
  PROVE  /\ mmc_decode_csd(kind) \in [bs : Nat \ {0}, LastBlock : Nat]
         /\ mmc_decode_csd(kind).bs = kind.bs
         /\ mmc_decode_csd(kind).LastBlock <= kind.blocks
         /\ ~kind.hc \/ kind.blocks <= CsdBlocks =>
              mmc_decode_csd(kind).LastBlock = kind.blocks
<1>1. /\ kind.bs \in Nat \ {0} /\ kind.blocks \in Nat \ {0} /\ CsdBlocks \in Nat \ {0}
      /\ kind.hc \in BOOLEAN
  BY KindTypes, SdAssumption
<1> DEFINE r == (kind.blocks - 1) % CsdBlocks
<1>2. r \in Nat /\ r <= kind.blocks - 1 /\ (kind.blocks <= CsdBlocks => r = kind.blocks - 1)
  <2>1. PICK n \in Nat : n = kind.blocks - 1
    BY <1>1
  <2>2. n % CsdBlocks \in Nat /\ n % CsdBlocks <= n /\ (n < CsdBlocks => n % CsdBlocks = n)
    BY <1>1, SmallRemainder
  <2> QED
    BY <1>1, <2>1, <2>2
<1>3. mmc_decode_csd(kind) = [bs |-> kind.bs, LastBlock |-> IF kind.hc THEN r + 1 ELSE kind.blocks]
  BY DEF mmc_decode_csd
<1> HIDE DEF r
<1> QED
  BY <1>1, <1>2, <1>3

\* Where a command leaves the card.
To(s) == [card EXCEPT !.state = s, !.app = FALSE]
Asked(b) == [card EXCEPT !.app = b]
WithBlocks(n) == [To("tran") EXCEPT !.blklen = n]
WithFourBits == [To("tran") EXCEPT !.width = 4]
WithSpeed(b) == [To("tran") EXCEPT !.hs = b]

\* The commands one by one.
LEMMA Effects ==
  /\ \A cmd \in {"CMD8", "CMD9", "CMD10", "CMD13", "CMD6", "ACMD13", "ACMD51"} :
       Performs(cmd) = To(card.state)
  /\ \A cmd \in {"CMD55_idle", "CMD55"} : Performs(cmd) = Asked(TRUE)
  /\ Performs("CMD0") = To("idle")
  /\ Performs("CMD2") = To("ident") /\ Performs("CMD3") = To("stby")
  /\ Performs("CMD7") = To("tran")
  /\ Performs("ACMD41") = To(IF up /\ (kind.hc => hcs) THEN "ready" ELSE "idle")
  /\ Performs("CMD16_8") = WithBlocks(8)
  /\ Performs("CMD16_64") = WithBlocks(64)
  /\ Performs("CMD16_512") = WithBlocks(512)
  /\ Performs("ACMD6") = WithFourBits
  /\ Performs("CMD6_set") = WithSpeed(kind.switches)
BY SMT DEF Performs, To, Asked, WithBlocks, WithFourBits, WithSpeed

LEMMA Acceptance ==
  /\ Accepts("CMD0") /\ (Accepts("CMD8") <=> card.state = "idle" /\ kind.v2)
  /\ (Accepts("CMD55_idle") <=> card.state = "idle")
  /\ (Accepts("ACMD41") <=> card.state = "idle" /\ card.app)
  /\ (Accepts("CMD2") <=> card.state = "ready")
  /\ (Accepts("CMD3") <=> card.state = "ident")
  /\ \A cmd \in {"CMD9", "CMD10", "CMD7"} : Accepts(cmd) <=> card.state = "stby"
  /\ \A cmd \in {"CMD55", "CMD13"} : Accepts(cmd) <=> card.state \in {"stby", "tran"}
  /\ (Accepts("CMD6") <=> card.state = "tran" /\ kind.spec)
  /\ \A cmd \in {"ACMD6", "ACMD13", "ACMD51"} :
       Accepts(cmd) <=> card.state = "tran" /\ card.app
  /\ \A cmd \in {"CMD16_8", "CMD16_64", "CMD16_512", "CMD6_set", "CMD17"} :
       Accepts(cmd) <=> card.state = "tran"
BY SMT DEF Accepts

Commands == {"CMD0", "CMD8", "CMD55_idle", "CMD55", "ACMD41", "CMD2", "CMD3", "CMD9",
             "CMD10", "CMD7", "CMD13", "CMD6", "CMD6_set", "ACMD6", "ACMD13", "ACMD51",
             "CMD16_8", "CMD16_64", "CMD16_512"}

LEMMA ToTypes ==
  ASSUME card \in CardType, NEW s \in States
  PROVE  To(s) \in CardType
BY Zenon DEF CardType, To

LEMMA AppTypes ==
  ASSUME card \in CardType, NEW b \in BOOLEAN
  PROVE  Asked(b) \in CardType
BY Zenon DEF CardType, Asked

LEMMA PerformsTypes ==
  ASSUME CardTypes, NEW cmd \in Commands
  PROVE  Performs(cmd) \in CardType
<1>1. /\ card \in CardType /\ kind.switches \in BOOLEAN /\ card.state \in States
  BY KindTypes, Zenon DEF CardTypes, CardType
<1>2. \A s \in States : To(s) \in CardType
  BY <1>1, ToTypes
<1>3. /\ To("idle") \in CardType /\ To("ready") \in CardType /\ To("ident") \in CardType
      /\ To("stby") \in CardType /\ To("tran") \in CardType
  BY <1>2 DEF States
<1>4. /\ WithBlocks(8) \in CardType
      /\ WithBlocks(64) \in CardType
      /\ WithBlocks(512) \in CardType
      /\ WithFourBits \in CardType
  BY <1>3, SMT DEF CardType, WithBlocks, WithFourBits
<1>6. WithSpeed(kind.switches) \in CardType
  <2>1. PICK c \in CardType : c = To("tran")
    BY <1>3
  <2>2. [c EXCEPT !.hs = kind.switches] \in CardType
    BY <1>1, Zenon DEF CardType
  <2> QED
    BY <2>1, <2>2 DEF WithSpeed
<1>7. Asked(TRUE) \in CardType
  BY <1>1, AppTypes
<1>8. card.state \in States
  BY <1>1, Zenon DEF CardType
<1> HIDE DEF CardType
<1>9. CASE cmd \in {"CMD8", "CMD9", "CMD10", "CMD13", "CMD6", "ACMD13", "ACMD51"}
  <2>1. Performs(cmd) = To(card.state)
    BY <1>9, Effects
  <2> QED
    BY <1>2, <1>8, <2>1
<1>10. CASE cmd \in {"CMD55_idle", "CMD55"}
  BY <1>7, <1>10, Effects
<1>11. CASE cmd \in {"CMD0", "CMD2", "CMD3", "CMD7"}
  <2>1. Performs(cmd) \in {To("idle"), To("ident"), To("stby"), To("tran")}
    BY <1>11, Effects
  <2> QED
    BY <1>3, <2>1
<1>12. CASE cmd = "ACMD41"
  <2>1. Performs(cmd) \in {To("ready"), To("idle")}
    BY <1>12, Effects
  <2> QED
    BY <1>3, <2>1
<1>13. CASE cmd \in {"ACMD6", "CMD6_set"}
  <2>1. Performs(cmd) \in {WithFourBits,
                          WithSpeed(kind.switches)}
    BY <1>13, Effects
  <2> QED
    BY <1>4, <1>6, <2>1
<1>14. CASE cmd = "CMD16_8"
  BY <1>4, <1>14, Effects
<1>15. CASE cmd = "CMD16_64"
  BY <1>4, <1>15, Effects
<1>16. CASE cmd = "CMD16_512"
  BY <1>4, <1>16, Effects
<1> QED
  BY <1>9, <1>10, <1>11, <1>12, <1>13, <1>14, <1>15, <1>16 DEF Commands

\* The fields of the card after a command.
LEMMA ToFields ==
  ASSUME card \in CardType
  PROVE  \A s \in States :
           /\ To(s).state = s /\ To(s).blklen = card.blklen
           /\ To(s).width = card.width /\ To(s).hs = card.hs
BY SMT DEF To, CardType

LEMMA AskedFields ==
  ASSUME card \in CardType, NEW b \in BOOLEAN
  PROVE  /\ Asked(b).state = card.state /\ Asked(b).blklen = card.blklen
         /\ Asked(b).width = card.width /\ Asked(b).hs = card.hs
         /\ b => Asked(b).app
BY SMT DEF Asked, CardType

LEMMA WithBlocksFields ==
  ASSUME card \in CardType, NEW n \in {8, 64, 512}
  PROVE  /\ WithBlocks(n).state = "tran" /\ WithBlocks(n).blklen = n
         /\ WithBlocks(n).width = card.width /\ WithBlocks(n).hs = card.hs
BY SMT DEF WithBlocks, To, CardType

LEMMA WithFourBitsFields ==
  ASSUME card \in CardType
  PROVE  /\ WithFourBits.state = "tran" /\ WithFourBits.blklen = card.blklen
         /\ WithFourBits.width = 4 /\ WithFourBits.hs = card.hs
BY SMT DEF WithFourBits, To, CardType

LEMMA WithSpeedFields ==
  ASSUME card \in CardType, NEW b \in BOOLEAN
  PROVE  /\ WithSpeed(b).state = "tran" /\ WithSpeed(b).blklen = card.blklen
         /\ WithSpeed(b).width = card.width
BY SMT DEF WithSpeed, To, CardType

KeepsState == {"CMD55_idle", "CMD55", "CMD8", "CMD9", "CMD10", "CMD13", "CMD6", "ACMD13",
               "ACMD51"}
EntersTran == {"CMD7", "CMD16_8", "CMD16_64", "CMD16_512", "ACMD6", "CMD6_set"}
SetsBlocks == {"CMD16_8", "CMD16_64", "CMD16_512"}

\* What a command that is performed does to each of them.
LEMMA PerformsFields ==
  ASSUME CardTypes, NEW cmd \in Commands
  PROVE  /\ Performs(cmd).width = IF cmd = "ACMD6" THEN 4 ELSE card.width
         /\ cmd # "CMD6_set" => Performs(cmd).hs = card.hs
         /\ cmd \notin SetsBlocks =>
              Performs(cmd).blklen = card.blklen
         /\ cmd = "CMD16_512" => Performs(cmd).blklen = 512
         /\ cmd \in {"CMD55_idle", "CMD55"} => Performs(cmd).app
         /\ cmd \in KeepsState => Performs(cmd).state = card.state
         /\ cmd = "CMD0" => Performs(cmd).state = "idle"
         /\ cmd = "CMD2" => Performs(cmd).state = "ident"
         /\ cmd = "CMD3" => Performs(cmd).state = "stby"
         /\ cmd \in EntersTran => Performs(cmd).state = "tran"
         /\ cmd = "ACMD41" =>
              Performs(cmd).state = IF up /\ (kind.hc => hcs) THEN "ready" ELSE "idle"
<1>1. card \in CardType /\ kind.switches \in BOOLEAN /\ card.state \in States
  BY KindTypes, Zenon DEF CardTypes, CardType
<1>2. /\ "idle" \in States /\ "ready" \in States /\ "ident" \in States
      /\ "stby" \in States /\ "tran" \in States
  BY DEF States
<1> HIDE DEF CardType, States
<1> USE DEF KeepsState, EntersTran, SetsBlocks
<1>3. CASE cmd \in {"CMD8", "CMD9", "CMD10", "CMD13", "CMD6", "ACMD13", "ACMD51"}
  <2>1. Performs(cmd) = To(card.state)
    BY <1>3, Effects
  <2> QED
    BY <1>1, <1>3, <2>1, ToFields
<1>4. CASE cmd \in {"CMD55_idle", "CMD55"}
  <2>1. Performs(cmd) = Asked(TRUE)
    BY <1>4, Effects
  <2> QED
    BY <1>1, <1>4, <2>1, AskedFields
<1>5. CASE cmd \in {"CMD0", "CMD2", "CMD3", "CMD7"}
  <2>1. CASE cmd = "CMD0"
    <3>1. Performs(cmd) = To("idle")
      BY <2>1, Effects
    <3> QED
      BY <1>1, <1>2, <2>1, <3>1, ToFields
  <2>2. CASE cmd = "CMD2"
    <3>1. Performs(cmd) = To("ident")
      BY <2>2, Effects
    <3> QED
      BY <1>1, <1>2, <2>2, <3>1, ToFields
  <2>3. CASE cmd = "CMD3"
    <3>1. Performs(cmd) = To("stby")
      BY <2>3, Effects
    <3> QED
      BY <1>1, <1>2, <2>3, <3>1, ToFields
  <2>4. CASE cmd = "CMD7"
    <3>1. Performs(cmd) = To("tran")
      BY <2>4, Effects
    <3> QED
      BY <1>1, <1>2, <2>4, <3>1, ToFields
  <2> QED
    BY <1>5, <2>1, <2>2, <2>3, <2>4
<1>6. CASE cmd = "ACMD41"
  <2>1. Performs(cmd) = To(IF up /\ (kind.hc => hcs) THEN "ready" ELSE "idle")
    BY <1>6, Effects
  <2> QED
    BY <1>1, <1>2, <1>6, <2>1, ToFields
<1>7. CASE cmd = "ACMD6"
  BY <1>1, <1>7, Effects, WithFourBitsFields
<1>8. CASE cmd = "CMD6_set"
  BY <1>1, <1>8, Effects, WithSpeedFields
<1>9. CASE cmd = "CMD16_8"
  <2>1. Performs(cmd) = WithBlocks(8)
    BY <1>9, Effects
  <2>2. /\ WithBlocks(8).state = "tran" /\ WithBlocks(8).blklen = 8
        /\ WithBlocks(8).width = card.width /\ WithBlocks(8).hs = card.hs
    BY <1>1, WithBlocksFields
  <2> QED
    BY <1>9, <2>1, <2>2
<1>10. CASE cmd = "CMD16_64"
  <2>1. Performs(cmd) = WithBlocks(64)
    BY <1>10, Effects
  <2>2. /\ WithBlocks(64).state = "tran" /\ WithBlocks(64).blklen = 64
        /\ WithBlocks(64).width = card.width /\ WithBlocks(64).hs = card.hs
    BY <1>1, WithBlocksFields
  <2> QED
    BY <1>10, <2>1, <2>2
<1>11. CASE cmd = "CMD16_512"
  <2>1. Performs(cmd) = WithBlocks(512)
    BY <1>11, Effects
  <2>2. /\ WithBlocks(512).state = "tran" /\ WithBlocks(512).blklen = 512
        /\ WithBlocks(512).width = card.width /\ WithBlocks(512).hs = card.hs
    BY <1>1, WithBlocksFields
  <2>3. Performs(cmd).blklen = 512
    BY <2>1, <2>2, Zenon
  <2>4. /\ Performs(cmd).state = "tran" /\ Performs(cmd).width = card.width
        /\ Performs(cmd).hs = card.hs
    BY <2>1, <2>2, Zenon
  <2> QED
    BY <1>11, <2>3, <2>4
<1> QED
  BY <1>3, <1>4, <1>5, <1>6, <1>7, <1>8, <1>9, <1>10, <1>11 DEF Commands

LEMMA KeepsStateFields ==
  ASSUME CardTypes, NEW cmd \in KeepsState
  PROVE  /\ cmd \in Commands /\ Performs(cmd).state = card.state
         /\ Performs(cmd).width = card.width /\ Performs(cmd).hs = card.hs
         /\ cmd \in {"CMD55_idle", "CMD55"} => Performs(cmd).app
<1>1. cmd \in Commands /\ cmd # "ACMD6" /\ cmd # "CMD6_set"
  BY DEF Commands, KeepsState
<1> QED
  BY <1>1, PerformsFields, Zenon

\* What mmc_send_cmd leaves: a command fails that the card does not accept, or after a
\* fault; and only two commands seem to succeed without the card.
LEMMA Sent ==
  ASSUME CardTypes, NEW cmd \in Commands, NEW ok \in BOOLEAN, mmc_send_cmd(cmd, ok)
  PROVE  /\ card' \in CardType /\ fault' \in BOOLEAN
         /\ fault => fault'
         /\ card' \in {card, Performs(cmd), Asked(FALSE)}
         /\ ok /\ cmd \notin {"ACMD41", "CMD55_idle"} =>
              Accepts(cmd) /\ card' = Performs(cmd)
         /\ ok /\ Accepts(cmd) /\ ~fault' => card' = Performs(cmd)
         /\ ~ok /\ Accepts(cmd) => fault'
<1>1. Performs(cmd) \in CardType /\ card \in CardType /\ Asked(FALSE) \in CardType
  BY PerformsTypes, AppTypes DEF CardTypes
<1>2. fault \in BOOLEAN
  BY DEF CardTypes
<1> HIDE DEF CardType
<1>3. card' \in {card, Performs(cmd), Asked(FALSE)}
  BY Zenon DEF mmc_send_cmd, Answered, Disturbed, Asked
<1>4. /\ fault' \in BOOLEAN /\ (fault => fault')
      /\ ok /\ cmd \notin {"ACMD41", "CMD55_idle"} =>
           Accepts(cmd) /\ card' = Performs(cmd)
      /\ ok /\ Accepts(cmd) /\ ~fault' => card' = Performs(cmd)
      /\ ~ok /\ Accepts(cmd) => fault'
  <2>1. CASE ok /\ Accepts(cmd) /\ card' = Performs(cmd) /\ UNCHANGED fault
    BY <1>2, <2>1
  <2>2. CASE /\ Accepts(cmd) /\ card' = Performs(cmd)
             /\ ok => cmd \in {"ACMD41", "CMD55_idle"}
             /\ fault' = TRUE
    BY <1>2, <2>2
  <2>3. CASE /\ ok = (cmd = "CMD55_idle") /\ fault' = (fault \/ Accepts(cmd))
    BY <1>2, <2>3
  <2> QED
    BY <2>1, <2>2, <2>3 DEF mmc_send_cmd, Answered, Disturbed
<1> QED
  BY <1>1, <1>3, <1>4, Zenon

-----------------------------------------------------------------------------
(* The steps of the initialization.                                        *)

\* What a step that sends a command does: the types stay, the bus of the card is never narrowed,
\* and the card is where the command takes it unless the driver goes to failed.
LEMMA StepTypes ==
  ASSUME CardTypes, NEW at, NEW cmd \in Commands \ {"ACMD41", "CMD55_idle"}, NEW next,
         NEW failed, Step(at, cmd, next, failed)
  PROVE  /\ CardTypes' /\ pc = at
         /\ UNCHANGED <<kind, hcs, high_capacity, scr_valid, clk, width, media, i, garbled>>
         /\ fault => fault'
         /\ card'.state \in {card.state, Performs(cmd).state}
         /\ card'.width \in {card.width, Performs(cmd).width}
         /\ card'.hs \in {card.hs, Performs(cmd).hs}
         /\ \/ pc' = next /\ card' = Performs(cmd) /\ Accepts(cmd)
            \/ pc' = failed /\ (Accepts(cmd) => fault')
<1>1. PICK ok \in BOOLEAN :
        /\ pc = at /\ mmc_send_cmd(cmd, ok) /\ pc' = IF ok THEN next ELSE failed
        /\ UNCHANGED <<kind, up, initVars, readVars, garbled>>
  BY DEF Step
<1>2. UNCHANGED <<kind, up, hcs, high_capacity, scr_valid, clk, width, media, i, garbled>>
  BY <1>1 DEF initVars
<1>3. /\ card' \in CardType /\ fault' \in BOOLEAN
      /\ fault => fault'
      /\ card' \in {card, Performs(cmd), Asked(FALSE)}
      /\ ok => Accepts(cmd) /\ card' = Performs(cmd)
      /\ ~ok /\ Accepts(cmd) => fault'
  BY <1>1, Sent
<1>4. CardTypes'
  BY <1>2, <1>3 DEF CardTypes
<1>5. /\ card'.state \in {card.state, Performs(cmd).state}
      /\ card'.width \in {card.width, Performs(cmd).width}
      /\ card'.hs \in {card.hs, Performs(cmd).hs}
  BY <1>3, AskedFields DEF CardTypes
<1> QED
  BY <1>1, <1>2, <1>3, <1>4, <1>5

\* What StepTypes says of a card in the state that the command needs.
LEMMA StepFields ==
  ASSUME InitInv, NEW at, NEW cmd \in Commands \ {"ACMD41", "CMD55_idle"}, NEW next,
         NEW failed, Step(at, cmd, next, failed)
  PROVE  /\ CardTypes' /\ pc = at /\ (fault => fault')
         /\ UNCHANGED <<kind, hcs, high_capacity, scr_valid, clk, width, media, i, garbled>>
         /\ cmd # "ACMD6" => card'.width = card.width
         /\ card.width = 4 => card'.width = 4
         /\ cmd # "CMD6_set" => card'.hs = card.hs
         /\ pc' = next \/ pc' = failed
         /\ pc' # failed => card'.state = Performs(cmd).state
         /\ pc' # failed /\ cmd = "CMD55" => card'.app
         /\ pc' # failed /\ cmd = "ACMD6" => card'.width = 4
         /\ pc' = failed /\ failed # next /\ Accepts(cmd) => fault'
         /\ cmd \in EntersTran /\ card.state = "tran"
               => card'.state = "tran"
         /\ cmd \in KeepsState
               => card'.state = card.state
<1>1. CardTypes
  BY DEF InitInv, CardFollowsDriver
<1>2. cmd \in Commands
  OBVIOUS
<1>3. /\ CardTypes' /\ pc = at
      /\ UNCHANGED <<kind, hcs, high_capacity, scr_valid, clk, width, media, i, garbled>>
      /\ fault => fault'
      /\ card'.state \in {card.state, Performs(cmd).state}
      /\ card'.width \in {card.width, Performs(cmd).width}
      /\ card'.hs \in {card.hs, Performs(cmd).hs}
      /\ \/ pc' = next /\ card' = Performs(cmd) /\ Accepts(cmd)
         \/ pc' = failed /\ (Accepts(cmd) => fault')
  BY <1>1, StepTypes, Zenon
<1>4. /\ cmd # "ACMD6" => card'.width = card.width
      /\ card.width = 4 => card'.width = 4
  <2>1. Performs(cmd).width = IF cmd = "ACMD6" THEN 4 ELSE card.width
    BY <1>1, <1>2, PerformsFields, Zenon
  <2> QED
    BY <1>3, <2>1
<1>5. cmd # "CMD6_set" => card'.hs = card.hs
  BY <1>1, <1>2, <1>3, PerformsFields, Zenon
<1>6. cmd \in KeepsState
        => card'.state = card.state
  <2>1. cmd \in KeepsState
          => Performs(cmd).state = card.state
    BY <1>1, <1>2, PerformsFields, Zenon
  <2> QED
    BY <1>3, <2>1
<1>7. cmd \in EntersTran
        /\ card.state = "tran" => card'.state = "tran"
  <2>1. cmd \in EntersTran
          => Performs(cmd).state = "tran"
    BY <1>1, <1>2, PerformsFields, Zenon
  <2> QED
    BY <1>3, <2>1
<1>8. /\ pc' # failed /\ cmd = "CMD55" => card'.app
      /\ pc' # failed /\ cmd = "ACMD6" => card'.width = 4
  <2>1. /\ cmd = "CMD55" => Performs(cmd).app
        /\ cmd = "ACMD6" => Performs(cmd).width = 4
    BY <1>1, <1>2, PerformsFields
  <2> QED
    BY <1>3, <2>1
<1>9. /\ pc' # failed => card'.state = Performs(cmd).state
      /\ pc' = next \/ pc' = failed
      /\ pc' = failed /\ failed # next /\ Accepts(cmd) => fault'
  BY <1>3
<1> QED
  BY <1>3, <1>4, <1>5, <1>6, <1>7, <1>8, <1>9

\* The commands to a card that has been selected, and the labels between them.
Selected == Narrow \union Wide \union Switching
SelectedCommands == {"CMD16_8", "CMD16_64", "CMD55", "CMD13", "ACMD6", "ACMD13", "ACMD51",
                     "CMD6", "CMD6_set"}

LEMMA SelectedStep ==
  ASSUME InitInv, NEW cmd \in SelectedCommands, NEW at \in Selected \ {"CMD16"},
         NEW next \in Selected \ {"hang", "48_MHz"}, NEW failed \in {"scan", "CMD16"},
         Step(at, cmd, next, failed),
         at \in Narrow <=> next \in Narrow,
         at \in Switching <=> next \in Switching,
         at \in Switching <=> failed = "CMD16",
         next \in {"CMD13", "4_bit_mode"} => cmd = "ACMD6" \/ at = "CMD13",
         next \in {"ACMD51", "ACMD6", "ACMD13"} => cmd = "CMD55",
         cmd \in {"ACMD51", "ACMD6", "ACMD13"} => at = cmd,
         cmd \in {"CMD6", "CMD6_set"} => failed = "CMD16"
  PROVE  InitInv'
<1>1. cmd \in Commands \ {"ACMD41", "CMD55_idle"} /\ cmd \in KeepsState \union EntersTran
  BY DEF SelectedCommands, Commands, KeepsState, EntersTran
<1>2. /\ CardTypes' /\ pc = at /\ (fault => fault')
      /\ UNCHANGED <<kind, hcs, high_capacity, scr_valid, clk, width, media, i, garbled>>
      /\ card.width = 4 => card'.width = 4
      /\ cmd # "CMD6_set" => card'.hs = card.hs
      /\ pc' = next \/ pc' = failed
      /\ pc' # failed /\ cmd = "CMD55" => card'.app
      /\ pc' # failed /\ cmd = "ACMD6" => card'.width = 4
      /\ pc' = failed /\ failed # next /\ Accepts(cmd) => fault'
      /\ cmd \in EntersTran /\ card.state = "tran" => card'.state = "tran"
      /\ cmd \in KeepsState => card'.state = card.state
  BY <1>1, StepFields, Zenon
<1>3. card.state = "tran" /\ card'.state = "tran"
  BY <1>1, <1>2 DEF InitInv, CardFollowsDriver, StateFollowsDriver, Selected
<1>4. pc' \notin Published /\ pc' \notin Identifying \union Addressed \union {"CMD2", "CMD3"}
  BY <1>2 DEF Published, Selected, Narrow, Wide, Switching, Identifying, Addressed
<1>5. StateFollowsDriver'
  BY <1>2, <1>3, <1>4 DEF InitInv, CardFollowsDriver, StateFollowsDriver
<1>6. LinesFollowCard'
  BY <1>2, <1>3 DEF InitInv, CardFollowsDriver, LinesFollowCard, Selected, Narrow, Wide, Switching, InitDone
<1>7. SearchStartsAtZero'
  BY <1>2 DEF InitInv, SearchStartsAtZero, InitDone, Selected, Narrow, Wide, Switching
<1>8. NothingFailed'
  <2>1. SUFFICES ASSUME ~fault' PROVE NothingFailed'
    BY DEF NothingFailed
  <2>2. ~fault /\ (cmd \in {"ACMD51", "ACMD6", "ACMD13"} => card.app)
    BY <1>2, <2>1 DEF InitInv, NothingFailed
  <2>3. failed = "scan" => Accepts(cmd)
    BY <1>3, <2>2, Acceptance DEF SelectedCommands
  <2>4. next # "scan" /\ next \notin InitDone /\ "CMD16" \notin InitDone
    BY DEF InitDone, Selected, Narrow, Wide, Switching
  <2>5. pc' = next \/ pc' = "CMD16"
    BY <1>2, <2>1, <2>3, <2>4
  <2>6. pc' # "ACMD41" /\ pc' # "hang" /\ pc' \notin InitDone
    BY <2>4, <2>5 DEF Selected, Narrow, Wide, Switching
  <2>7. pc' \in {"ACMD51", "ACMD6", "ACMD13"} => card'.app
    BY <1>2, <2>5
  <2> QED
    BY <2>6, <2>7 DEF NothingFailed, InitDone
<1> QED
  BY <1>2, <1>4, <1>5, <1>6, <1>7, <1>8 DEF InitInv, CardFollowsDriver, PublishedIsReadable

LEMMA ReadScrKeeps ==
  ASSUME InitInv, ReadScr
  PROVE  InitInv'
<1>1. CASE Step("CMD16_scr", "CMD16_8", "CMD55_scr", "scan")
  BY <1>1, SelectedStep DEF SelectedCommands, Selected, Narrow, Wide, Switching
<1>2. CASE Step("CMD55_scr", "CMD55", "ACMD51", "scan")
  BY <1>2, SelectedStep DEF SelectedCommands, Selected, Narrow, Wide, Switching
<1>3. CASE Step("ACMD51", "ACMD51", "scr_data", "scan")
  BY <1>3, SelectedStep DEF SelectedCommands, Selected, Narrow, Wide, Switching
<1> QED
  BY <1>1, <1>2, <1>3 DEF ReadScr

LEMMA ReadSdStatusKeeps ==
  ASSUME InitInv, ReadSdStatus
  PROVE  InitInv'
<1>1. CASE Step("CMD16_status", "CMD16_64", "CMD55_status", "scan")
  BY <1>1, SelectedStep DEF SelectedCommands, Selected, Narrow, Wide, Switching
<1>2. CASE Step("CMD55_status", "CMD55", "ACMD13", "scan")
  BY <1>2, SelectedStep DEF SelectedCommands, Selected, Narrow, Wide, Switching
<1>3. CASE Step("ACMD13", "ACMD13", "status_data", "scan")
  BY <1>3, SelectedStep DEF SelectedCommands, Selected, Narrow, Wide, Switching
<1> QED
  BY <1>1, <1>2, <1>3 DEF ReadSdStatus

LEMMA SwitchModeKeeps ==
  ASSUME InitInv, SwitchMode
  PROVE  InitInv'
<1>1. CASE Step("CMD16_switch", "CMD16_64", "CMD6", "CMD16")
  BY <1>1, SelectedStep DEF SelectedCommands, Selected, Narrow, Wide, Switching
<1>2. CASE Step("CMD6", "CMD6", "check_data", "CMD16")
  BY <1>2, SelectedStep DEF SelectedCommands, Selected, Narrow, Wide, Switching
<1>3. CASE Step("CMD6_set", "CMD6_set", "switch_data", "CMD16")
  BY <1>3, SelectedStep DEF SelectedCommands, Selected, Narrow, Wide, Switching
<1> QED
  BY <1>1, <1>2, <1>3 DEF SwitchMode

\* The commands that take the card from ready to selected.
LEMMA SelectingStep ==
  ASSUME InitInv, NEW cmd \in {"CMD2", "CMD3", "CMD9", "CMD10", "CMD7"}, NEW next,
         Step(cmd, cmd, next, "scan"),
         cmd = "CMD2" => next = "CMD3",
         cmd = "CMD3" => next = "CMD9",
         cmd = "CMD9" => next = "CMD10",
         cmd = "CMD10" => next = "CMD7",
         cmd = "CMD7" => next = "CMD16_scr"
  PROVE  InitInv'
<1>1. cmd \in Commands \ {"ACMD41", "CMD55_idle"} /\ CardTypes
  BY DEF Commands, InitInv, CardFollowsDriver
<1>2. /\ CardTypes' /\ pc = cmd /\ (fault => fault')
      /\ UNCHANGED <<kind, hcs, high_capacity, scr_valid, clk, width, media, i, garbled>>
      /\ card'.width = card.width
      /\ card'.hs = card.hs
      /\ pc' = next \/ pc' = "scan"
      /\ pc' # "scan" => card'.state = Performs(cmd).state
      /\ pc' = "scan" /\ Accepts(cmd) => fault'
  <2>1. cmd # "ACMD6" /\ cmd # "CMD6_set" /\ next # "scan"
    OBVIOUS
  <2> QED
    BY <1>1, <2>1, StepFields, Zenon
<1>3. card'.state \in {card.state, Performs(cmd).state}
  BY <1>1, StepTypes, Zenon
<1>4. /\ cmd \in KeepsState => Performs(cmd).state = card.state
      /\ cmd = "CMD2" => Performs(cmd).state = "ident"
      /\ cmd = "CMD3" => Performs(cmd).state = "stby"
      /\ cmd \in EntersTran => Performs(cmd).state = "tran"
  <2>1. cmd \in Commands
    BY <1>1
  <2>2. cmd \in KeepsState => Performs(cmd).state = card.state
    BY <1>1, <2>1, PerformsFields, Zenon
  <2>3. cmd = "CMD2" => Performs(cmd).state = "ident"
    BY <1>1, <2>1, PerformsFields, Zenon
  <2>4. cmd = "CMD3" => Performs(cmd).state = "stby"
    BY <1>1, <2>1, PerformsFields, Zenon
  <2>5. cmd \in EntersTran => Performs(cmd).state = "tran"
    BY <1>1, <2>1, PerformsFields, Zenon
  <2> QED
    BY <2>2, <2>3, <2>4, <2>5
<1>5. /\ cmd = "CMD2" => card.state = "ready" \/ (garbled /\ card.state = "idle")
      /\ cmd = "CMD3" => card.state = "ident"
      /\ cmd \in Addressed => card.state = "stby"
      /\ garbled => fault
      /\ garbled \/ (high_capacity <=> kind.hc)
  BY <1>2 DEF InitInv, CardFollowsDriver, StateFollowsDriver, Addressed
<1>6. ~garbled => Accepts(cmd)
  BY <1>5, Acceptance DEF Addressed
<1>7. /\ card.state # "tran"
      /\ pc' # "scan" =>
           card'.state = CASE cmd = "CMD2" -> "ident" [] cmd = "CMD7" -> "tran" [] OTHER -> "stby"
  BY <1>2, <1>3, <1>4, <1>5 DEF Addressed, KeepsState, EntersTran
<1>8. pc' \notin Published \union Identifying \union Wide \union Switching \union {"CMD2"}
  BY <1>2 DEF Published, Narrow, Wide, Switching, Identifying
<1>9. StateFollowsDriver'
  BY <1>2, <1>5, <1>7, <1>8 DEF StateFollowsDriver, Addressed, Narrow
<1>10. LinesFollowCard'
  BY <1>2, <1>7, <1>8 DEF InitInv, CardFollowsDriver, LinesFollowCard, InitDone, Addressed, Switching
<1>11. SearchStartsAtZero'
  BY <1>2 DEF InitInv, SearchStartsAtZero, InitDone
<1>12. NothingFailed'
  BY <1>2, <1>5, <1>6 DEF InitInv, NothingFailed, InitDone
<1> QED
  BY <1>2, <1>8, <1>9, <1>10, <1>11, <1>12
     DEF InitInv, CardFollowsDriver, PublishedIsReadable

LEMMA CardTransferKeeps ==
  ASSUME InitInv, CardTransfer
  PROVE  InitInv'
<1>1. CASE Step("CMD9", "CMD9", "CMD10", "scan")
  BY <1>1, SelectingStep
<1>2. CASE Step("CMD10", "CMD10", "CMD7", "scan")
  BY <1>2, SelectingStep
<1>3. CASE Step("CMD7", "CMD7", "CMD16_scr", "scan")
  BY <1>3, SelectingStep
<1>4. CASE Step("CMD55_width", "CMD55", "ACMD6", "scan")
  BY <1>4, SelectedStep DEF SelectedCommands, Selected, Narrow, Wide, Switching
<1>5. CASE Step("ACMD6", "ACMD6", "CMD13", "scan")
  BY <1>5, SelectedStep DEF SelectedCommands, Selected, Narrow, Wide, Switching
<1>6. CASE Step("CMD13", "CMD13", "4_bit_mode", "scan")
  BY <1>6, SelectedStep DEF SelectedCommands, Selected, Narrow, Wide, Switching
<1> QED
  BY <1>1, <1>2, <1>3, <1>4, <1>5, <1>6 DEF CardTransfer

\* Before the card is identified a step changes nothing of it but app and whether it is
\* idle or ready, and the driver stays where it takes the card to be idle or gives up.
LEMMA IdleStep ==
  ASSUME InitInv, CardTypes', pc \in Identifying, fault => fault',
         UNCHANGED <<kind, high_capacity, media, i>>,
         card'.state \in {card.state, "idle", "ready"},
         card'.width = card.width, card'.hs = card.hs,
         clk' = clk \/ clk' = 400, width' = width \/ width' = 1,
         pc' \in Identifying \union {"scan"},
         pc' # "scan" => card'.state = "idle" \/ (garbled' /\ card'.state = "ready"),
         garbled' => fault',
         pc' = "scan" => fault',
         pc' = "ACMD41" /\ ~fault' => card'.app
  PROVE  InitInv'
<1>1. /\ card.state \in {"idle", "ready"} /\ ~high_capacity
      /\ pc \notin InitDone /\ pc \notin Switching
  BY DEF InitInv, CardFollowsDriver, StateFollowsDriver, Identifying, InitDone, Switching
<1>2. /\ pc' \notin Addressed \union Narrow \union Wide \union Switching \union Published
      /\ pc' # "CMD2" /\ pc' # "CMD3" /\ pc' # "CMD13" /\ pc' # "4_bit_mode"
      /\ pc' # "48_MHz" /\ "scan" \notin Identifying
  BY DEF Addressed, Narrow, Wide, Switching, Identifying, Published
<1>3. StateFollowsDriver'
  <2>1. card'.state \in {"idle", "ready"} /\ ~high_capacity'
    BY <1>1
  <2> QED
    BY <1>2, <2>1 DEF StateFollowsDriver
<1>4. LinesFollowCard'
  <2>1. clk' \notin {25, 48}
    <3>1. clk \notin {25, 48}
      BY <1>1 DEF InitInv, CardFollowsDriver, LinesFollowCard
    <3> QED
      BY <3>1
  <2>2. width' = 4 => card'.width = 4
    <3>1. width = 4 => card.width = 4
      BY DEF InitInv, CardFollowsDriver, LinesFollowCard
    <3> QED
      BY <3>1
  <2> QED
    BY <1>2, <2>1, <2>2 DEF LinesFollowCard
<1>5. SearchStartsAtZero'
  BY <1>1 DEF InitInv, SearchStartsAtZero
<1>6. NothingFailed'
  BY DEF NothingFailed, InitDone, Identifying
<1> QED
  BY <1>2, <1>3, <1>4, <1>5, <1>6 DEF InitInv, CardFollowsDriver, PublishedIsReadable

\* What the invariant says of the card before it is identified.
LEMMA NotIdentified ==
  ASSUME InitInv, pc \in Identifying
  PROVE  /\ CardTypes /\ card \in CardType
         /\ card.state = "idle" \/ (garbled /\ card.state = "ready")
         /\ ~high_capacity /\ (garbled => fault)
BY DEF InitInv, CardFollowsDriver, StateFollowsDriver, CardTypes

LEMMA SdCardInitializeKeeps ==
  ASSUME InitInv, SdCardInitialize
  PROVE  InitInv'
<1>1. CardTypes'
  BY DEF InitInv, CardFollowsDriver, CardTypes, SdCardInitialize, initVars, Local, cardVars, history
<1> QED
  BY <1>1, IdleStep, NotIdentified DEF SdCardInitialize, initVars, Local, cardVars, history, Identifying

LEMMA SDCn_initKeeps ==
  ASSUME InitInv, SDCn_init
  PROVE  InitInv'
<1>1. CardTypes'
  BY DEF InitInv, CardFollowsDriver, CardTypes, SDCn_init, Local, cardVars, history
<1> QED
  BY <1>1, IdleStep, NotIdentified DEF SDCn_init, Local, cardVars, history, Identifying

LEMMA GoIdleKeeps ==
  ASSUME InitInv, GoIdle
  PROVE  InitInv'
<1>1. CardTypes /\ (garbled => fault) /\ "CMD0" \in Commands
  BY NotIdentified DEF GoIdle, Identifying, Commands
<1>2. card' \in CardType
  BY <1>1, PerformsTypes DEF GoIdle
<1>3. card'.state = "idle" /\ card'.width = card.width /\ card'.hs = card.hs
  <2>1. card' = To("idle") /\ card \in CardType /\ "idle" \in States
    BY <1>1, Effects DEF GoIdle, CardTypes, States
  <2> QED
    BY <1>1, <2>1, ToFields
<1>4. CardTypes'
  BY <1>1, <1>2 DEF CardTypes, GoIdle, initVars, history
<1> QED
  BY <1>1, <1>3, <1>4, IdleStep DEF GoIdle, initVars, history, Identifying

LEMMA SendIfCondKeeps ==
  ASSUME InitInv, SendIfCond
  PROVE  InitInv'
<1>1. CardTypes /\ "CMD8" \in Commands /\ "CMD8" \in KeepsState
  BY DEF InitInv, CardFollowsDriver, Commands, KeepsState
<1>2. PICK ok \in BOOLEAN : mmc_send_cmd("CMD8", ok) /\ hcs' = ok
  BY DEF SendIfCond
<1>3. /\ card' \in CardType /\ fault' \in BOOLEAN /\ (fault => fault')
      /\ card' \in {card, Performs("CMD8"), Asked(FALSE)}
  BY <1>1, <1>2, Sent
<1>4. card'.state = card.state /\ card'.width = card.width /\ card'.hs = card.hs
  <2>1. /\ Performs("CMD8").state = card.state /\ Performs("CMD8").width = card.width
        /\ Performs("CMD8").hs = card.hs
    BY <1>1, KeepsStateFields
  <2> QED
    BY <1>1, <1>3, <2>1, AskedFields DEF CardTypes
<1>5. CardTypes'
  BY <1>1, <1>2, <1>3 DEF CardTypes, SendIfCond
<1> QED
  BY <1>3, <1>4, <1>5, IdleStep, NotIdentified DEF SendIfCond, Identifying

LEMMA CardIdentificationKeeps ==
  ASSUME InitInv, CardIdentification
  PROVE  InitInv'
<1>1. CASE Step("CMD55_ocr", "CMD55_idle", "ACMD41", "scan")
  <2>1. /\ CardTypes /\ "CMD55_idle" \in Commands /\ "CMD55_idle" \in KeepsState
        /\ pc = "CMD55_ocr" /\ pc \in Identifying
        /\ card.state = "idle" \/ (garbled /\ card.state = "ready")
        /\ garbled => fault
    BY <1>1, NotIdentified DEF Identifying, Commands, KeepsState, Step
  <2>2. PICK ok \in BOOLEAN : /\ mmc_send_cmd("CMD55_idle", ok)
                              /\ pc' = IF ok THEN "ACMD41" ELSE "scan"
                              /\ UNCHANGED <<kind, up, initVars, readVars, garbled>>
    BY <1>1 DEF Step
  <2>3. /\ card.state = "idle" => Accepts("CMD55_idle")
        /\ ~ok => Accepts("CMD55_idle")
    BY <2>1, <2>2, Acceptance DEF mmc_send_cmd, Answered, Disturbed
  <2>4. /\ card' \in CardType /\ fault' \in BOOLEAN /\ (fault => fault')
        /\ card' \in {card, Performs("CMD55_idle"), Asked(FALSE)}
        /\ ok /\ Accepts("CMD55_idle") /\ ~fault' => card' = Performs("CMD55_idle")
        /\ ~ok => fault'
    BY <2>1, <2>2, <2>3, Sent
  <2>5. /\ Performs("CMD55_idle").app /\ Performs("CMD55_idle").state = card.state
        /\ Performs("CMD55_idle").width = card.width /\ Performs("CMD55_idle").hs = card.hs
    BY <2>1, KeepsStateFields
  <2>6. card'.state = card.state /\ card'.width = card.width /\ card'.hs = card.hs
    BY <2>1, <2>4, <2>5, AskedFields DEF CardTypes
  <2>7. CardTypes'
    BY <2>1, <2>2, <2>4 DEF CardTypes, initVars
  <2>8. /\ pc' \in {"ACMD41", "scan"} /\ (pc' = "scan" => fault')
        /\ pc' = "ACMD41" /\ ~fault' => card'.app
    BY <2>1, <2>2, <2>3, <2>4, <2>5
  <2> QED
    BY <2>1, <2>2, <2>4, <2>6, <2>7, <2>8, IdleStep DEF initVars, Identifying
<1>2. CASE Step("CMD2", "CMD2", "CMD3", "scan")
  BY <1>2, SelectingStep
<1>3. CASE Step("CMD3", "CMD3", "CMD9", "scan")
  BY <1>3, SelectingStep
<1> QED
  BY <1>1, <1>2, <1>3 DEF CardIdentification

\* ACMD41: how the driver's picture of the card can part from the card.
LEMMA OpCondSent ==
  ASSUME InitInv, SendOpCond
  PROVE  /\ CardTypes' /\ pc = "ACMD41" /\ (fault => fault') /\ (garbled' => fault')
         /\ UNCHANGED <<kind, clk, width, media, i>>
         /\ card'.width = card.width /\ card'.hs = card.hs
         /\ card'.state \in {"idle", "ready"}
         /\ \/ /\ pc' = "CMD2"
               /\ garbled' \/ (card'.state = "ready" /\ (high_capacity' <=> kind.hc))
            \/ /\ pc' = "CMD55_ocr" /\ UNCHANGED high_capacity
               /\ garbled' \/ card'.state = "idle"
            \/ pc' = "scan" /\ fault' /\ UNCHANGED high_capacity
<1>1. /\ CardTypes /\ card \in CardType /\ pc = "ACMD41" /\ "ACMD41" \in Commands
      /\ card.state = "idle" \/ (garbled /\ card.state = "ready")
      /\ kind.hc \in BOOLEAN /\ hcs \in BOOLEAN /\ fault \in BOOLEAN /\ garbled \in BOOLEAN
      /\ high_capacity \in BOOLEAN /\ ~high_capacity /\ (garbled => fault)
  BY NotIdentified, KindTypes DEF Identifying, Commands, CardTypes, SendOpCond
<1>2. UNCHANGED <<kind, up, hcs, scr_valid, clk, width, media, i>>
  BY DEF SendOpCond
<1>3. /\ Performs("ACMD41").width = card.width /\ Performs("ACMD41").hs = card.hs
      /\ Performs("ACMD41").state = IF up /\ (kind.hc => hcs) THEN "ready" ELSE "idle"
  <2>1. /\ Performs("ACMD41") = To(IF up /\ (kind.hc => hcs) THEN "ready" ELSE "idle")
        /\ "ready" \in States /\ "idle" \in States
    BY Effects DEF States
  <2> QED
    BY <1>1, <2>1, ToFields
<1>4. \A ok \in BOOLEAN : mmc_send_cmd("ACMD41", ok) =>
        /\ card' \in CardType /\ fault' \in BOOLEAN /\ (fault => fault')
        /\ card' \in {card, Performs("ACMD41"), Asked(FALSE)}
        /\ ~ok /\ Accepts("ACMD41") => fault'
  BY <1>1, Sent
<1>5. ASSUME card' \in {card, Performs("ACMD41"), Asked(FALSE)}
      PROVE  /\ card'.width = card.width /\ card'.hs = card.hs
             /\ card'.state \in {"idle", "ready"}
  BY <1>1, <1>3, <1>5, AskedFields
<1>6. CASE Answered("ACMD41") /\ garbled' = FALSE /\ OpCond(card'.state = "ready", kind.hc)
  <2>1. card' = Performs("ACMD41") /\ UNCHANGED fault /\ mmc_send_cmd("ACMD41", TRUE)
    BY <1>6 DEF Answered, mmc_send_cmd
  <2>2. CASE card'.state = "ready"
    <3>1. pc' = "CMD2" /\ high_capacity' = (high_capacity \/ (kind.hc /\ hcs))
      BY <1>6, <2>2 DEF OpCond
    <3>2. kind.hc => hcs
      BY <1>3, <2>1, <2>2
    <3>3. high_capacity' \in BOOLEAN /\ (high_capacity' <=> kind.hc)
      BY <1>1, <3>1, <3>2
    <3>4. CardTypes'
      BY <1>1, <1>2, <1>4, <1>6, <2>1, <3>3 DEF CardTypes
    <3> QED
      BY <1>1, <1>2, <1>4, <1>5, <1>6, <2>1, <2>2, <3>1, <3>3, <3>4
  <2>3. CASE card'.state # "ready"
    <3>1. pc' = "CMD55_ocr" /\ UNCHANGED high_capacity
      BY <1>6, <2>3 DEF OpCond
    <3>2. CardTypes'
      BY <1>1, <1>2, <1>4, <1>6, <2>1, <3>1 DEF CardTypes
    <3> QED
      BY <1>1, <1>2, <1>4, <1>5, <1>6, <2>1, <2>3, <3>1, <3>2
  <2> QED
    BY <2>2, <2>3
<1>7. CASE /\ Disturbed("ACMD41", TRUE) /\ garbled' = TRUE
           /\ \E powered, ccs \in BOOLEAN : OpCond(powered, ccs)
  <2>1. mmc_send_cmd("ACMD41", TRUE) /\ fault'
    BY <1>7 DEF Disturbed, mmc_send_cmd
  <2>2. PICK powered \in BOOLEAN, ccs \in BOOLEAN : OpCond(powered, ccs)
    BY <1>7
  <2>3. \/ pc' = "CMD2" /\ high_capacity' = (high_capacity \/ (ccs /\ hcs))
        \/ pc' = "CMD55_ocr" /\ UNCHANGED high_capacity
    BY <2>2 DEF OpCond
  <2>4. high_capacity' \in BOOLEAN
    BY <1>1, <2>3
  <2>5. CardTypes'
    BY <1>1, <1>2, <1>4, <1>7, <2>1, <2>4 DEF CardTypes
  <2> QED
    BY <1>1, <1>2, <1>4, <1>5, <1>7, <2>1, <2>3, <2>5
<1>8. CASE Disturbed("ACMD41", FALSE) /\ pc' = "scan" /\ UNCHANGED <<high_capacity, garbled>>
  <2>1. mmc_send_cmd("ACMD41", FALSE)
    BY <1>8 DEF mmc_send_cmd
  <2>2. fault'
    <3>1. Accepts("ACMD41") <=> card.state = "idle" /\ card.app
      BY Acceptance
    <3>2. ~fault => card.state = "idle" /\ card.app
      BY <1>1 DEF InitInv, NothingFailed
    <3> QED
      BY <1>4, <2>1, <3>1, <3>2
  <2>3. CardTypes'
    BY <1>1, <1>2, <1>4, <1>8, <2>1 DEF CardTypes
  <2> QED
    BY <1>1, <1>2, <1>4, <1>5, <1>8, <2>1, <2>2, <2>3
<1> QED
  BY <1>6, <1>7, <1>8 DEF SendOpCond

LEMMA SendOpCondKeeps ==
  ASSUME InitInv, SendOpCond
  PROVE  InitInv'
<1>1. /\ CardTypes' /\ pc = "ACMD41" /\ (fault => fault') /\ (garbled' => fault')
      /\ UNCHANGED <<kind, clk, width, media, i>>
      /\ card'.width = card.width /\ card'.hs = card.hs
      /\ card'.state \in {"idle", "ready"}
  BY OpCondSent
<1>2. pc \in Identifying /\ card.state \in {"idle", "ready"}
  BY <1>1, NotIdentified DEF Identifying
<1>3. CASE /\ pc' = "CMD2"
           /\ garbled' \/ (card'.state = "ready" /\ (high_capacity' <=> kind.hc))
  <2>1. pc' \notin Identifying \union Addressed \union Narrow \union Wide \union Switching
                   \union InitDone
    BY <1>3 DEF Identifying, Addressed, Narrow, Wide, Switching, InitDone
  <2>2. StateFollowsDriver'
    BY <1>1, <1>3, <2>1 DEF StateFollowsDriver
  <2>3. LinesFollowCard'
    BY <1>1, <1>2, <1>3, <2>1
       DEF InitInv, CardFollowsDriver, LinesFollowCard, Switching, InitDone
  <2>4. SearchStartsAtZero'
    BY <1>1, <1>2 DEF InitInv, SearchStartsAtZero, InitDone, Identifying
  <2> QED
    BY <1>1, <1>3, <2>1, <2>2, <2>3, <2>4
       DEF InitInv, CardFollowsDriver, PublishedIsReadable, Published, InitDone, NothingFailed
<1>4. CASE /\ pc' = "CMD55_ocr" /\ UNCHANGED high_capacity
           /\ garbled' \/ card'.state = "idle"
  BY <1>1, <1>2, <1>4, IdleStep DEF Identifying
<1>5. CASE pc' = "scan" /\ fault' /\ UNCHANGED high_capacity
  BY <1>1, <1>2, <1>5, IdleStep DEF Identifying
<1> QED
  BY <1>3, <1>4, <1>5, OpCondSent

\* A step that leaves the card alone, between the labels of a selected card.
LEMMA QuietStep ==
  ASSUME InitInv, CardTypes', LinesFollowCard', fault => fault',
         UNCHANGED <<kind, card, high_capacity, i, garbled>>, pc \in Selected,
         pc' \in Selected \union {"scan"},
         pc' \in {"scan", "hang"} => fault',
         pc' \notin {"ACMD51", "ACMD6", "ACMD13"}
  PROVE  InitInv'
<1>1. /\ pc' \notin Published /\ pc' \notin Identifying \union Addressed \union {"CMD2", "CMD3"}
      /\ (pc' \in InitDone \union {"ACMD41", "hang"} => fault')
  BY DEF Published, InitDone, Selected, Narrow, Wide, Switching, Identifying, Addressed
<1>2. card.state = "tran" /\ pc \notin InitDone
  BY DEF InitInv, CardFollowsDriver, StateFollowsDriver, Selected, Narrow, Wide, Switching, InitDone
<1>3. StateFollowsDriver'
  BY <1>1, <1>2 DEF InitInv, CardFollowsDriver, StateFollowsDriver
<1>4. SearchStartsAtZero'
  BY <1>2 DEF InitInv, SearchStartsAtZero
<1>5. NothingFailed'
  BY <1>1 DEF NothingFailed, InitDone
<1> QED
  BY <1>1, <1>3, <1>4, <1>5 DEF InitInv, CardFollowsDriver, PublishedIsReadable

LEMMA ScrDataKeeps ==
  ASSUME InitInv, ScrData
  PROVE  InitInv'
<1>1. CardTypes'
  BY DEF InitInv, CardFollowsDriver, CardTypes, ScrData, cardVars
<1>2. LinesFollowCard'
  BY DEF InitInv, CardFollowsDriver, LinesFollowCard, ScrData, cardVars, Wide, Switching, InitDone
<1>3. pc \in Selected /\ pc' \in Selected
  BY DEF ScrData, Selected, Narrow
<1>4. UNCHANGED <<kind, card, high_capacity, i, garbled>>
  BY DEF ScrData, cardVars
<1>5. CASE pc' = "CMD55_width" /\ UNCHANGED fault
  BY <1>1, <1>2, <1>3, <1>4, <1>5, QuietStep
<1>6. CASE pc' = "hang" /\ fault' = TRUE
  BY <1>1, <1>2, <1>3, <1>4, <1>6, QuietStep
<1> QED
  BY <1>5, <1>6 DEF ScrData

LEMMA FourBitModeKeeps ==
  ASSUME InitInv, FourBitMode
  PROVE  InitInv'
<1>1. CardTypes'
  BY DEF InitInv, CardFollowsDriver, CardTypes, FourBitMode, Local, cardVars, history
<1>2. LinesFollowCard'
  BY DEF InitInv, CardFollowsDriver, LinesFollowCard, FourBitMode, Local, cardVars, history, Wide,
         Switching, InitDone
<1>3. pc \in Selected /\ pc' \in Selected
  BY DEF FourBitMode, Selected, Narrow, Wide
<1> QED
  BY <1>1, <1>2, <1>3, QuietStep DEF FourBitMode, Local, cardVars, history

LEMMA StatusDataKeeps ==
  ASSUME InitInv, StatusData
  PROVE  InitInv'
<1>1. PICK ok \in BOOLEAN : Transfer(ok) /\ pc' = IF ok THEN "25_MHz" ELSE "scan"
  BY DEF StatusData
<1>2. CardTypes' /\ (~ok => fault') /\ (fault => fault')
  BY <1>1 DEF InitInv, CardFollowsDriver, CardTypes, Transfer, cardVars, initVars
<1>3. LinesFollowCard'
  BY <1>1 DEF InitInv, CardFollowsDriver, LinesFollowCard, StatusData, Transfer, cardVars,
              initVars, Wide, Switching, InitDone
<1>4. pc \in Selected /\ pc' \in Selected \union {"scan"}
  BY <1>1 DEF StatusData, Selected, Wide
<1> QED
  BY <1>1, <1>2, <1>3, <1>4, QuietStep DEF Transfer, cardVars, initVars

LEMMA Clock25Keeps ==
  ASSUME InitInv, Clock25
  PROVE  InitInv'
<1>1. CardTypes'
  BY DEF InitInv, CardFollowsDriver, CardTypes, Clock25, Local, cardVars, history
<1>2. pc = "25_MHz" /\ pc' \in {"CMD16_switch", "CMD16"} /\ UNCHANGED <<card, width>>
  BY DEF Clock25, Local, cardVars, history
<1>3. LinesFollowCard'
  <2>1. card.state = "tran" /\ width = 4 /\ card.width = 4
    BY <1>2 DEF InitInv, CardFollowsDriver, StateFollowsDriver, LinesFollowCard, Wide
  <2>2. pc' \in Switching /\ pc' # "48_MHz" /\ pc' \notin {"CMD13", "4_bit_mode"}
    BY <1>2 DEF Switching
  <2>3. clk' # 48
    BY DEF Clock25
  <2>4. card'.state = "tran" /\ width' = 4 /\ card'.width = 4
    BY <1>2, <2>1, Zenon
  <2> QED
    BY <2>2, <2>3, <2>4 DEF LinesFollowCard
<1>4. pc \in Selected /\ pc' \in Selected
  BY <1>2 DEF Selected, Wide, Switching
<1> QED
  BY <1>1, <1>2, <1>3, <1>4, QuietStep DEF Clock25, Local, cardVars, history

LEMMA CheckDataKeeps ==
  ASSUME InitInv, CheckData
  PROVE  InitInv'
<1>1. PICK ok \in BOOLEAN :
        Transfer(ok) /\ pc' = IF ok /\ kind.hs THEN "CMD6_set" ELSE "CMD16"
  BY DEF CheckData
<1>2. CardTypes' /\ (fault => fault')
  BY <1>1 DEF InitInv, CardFollowsDriver, CardTypes, Transfer, cardVars, initVars
<1>3. pc = "check_data" /\ pc' \in {"CMD6_set", "CMD16"} /\ UNCHANGED <<card, width, clk>>
  BY <1>1 DEF CheckData, Transfer, cardVars, initVars
<1>4. LinesFollowCard'
  BY <1>3 DEF InitInv, CardFollowsDriver, LinesFollowCard, Wide, Switching, InitDone
<1>5. pc \in Selected /\ pc' \in Selected
  BY <1>3 DEF Selected, Switching
<1> QED
  BY <1>1, <1>2, <1>3, <1>4, <1>5, QuietStep DEF Transfer, cardVars, initVars

LEMMA SwitchDataKeeps ==
  ASSUME InitInv, SwitchData
  PROVE  InitInv'
<1>1. PICK ok \in BOOLEAN :
        Transfer(ok) /\ pc' = IF ok /\ card.hs THEN "48_MHz" ELSE "CMD16"
  BY DEF SwitchData
<1>2. CardTypes' /\ (fault => fault')
  BY <1>1 DEF InitInv, CardFollowsDriver, CardTypes, Transfer, cardVars, initVars
<1>3. /\ pc = "switch_data" /\ pc' \in {"48_MHz", "CMD16"} /\ UNCHANGED <<card, width, clk>>
      /\ pc' = "48_MHz" => card.hs
  BY <1>1 DEF SwitchData, Transfer, cardVars, initVars
<1>4. LinesFollowCard'
  BY <1>3 DEF InitInv, CardFollowsDriver, LinesFollowCard, Wide, Switching, InitDone
<1>5. pc \in Selected /\ pc' \in Selected
  BY <1>3 DEF Selected, Switching
<1> QED
  BY <1>1, <1>2, <1>3, <1>4, <1>5, QuietStep DEF Transfer, cardVars, initVars

LEMMA Clock48Keeps ==
  ASSUME InitInv, Clock48
  PROVE  InitInv'
<1>1. CardTypes'
  BY DEF InitInv, CardFollowsDriver, CardTypes, Clock48, Local, cardVars, history
<1>2. pc = "48_MHz" /\ pc' = "CMD16" /\ clk' = 48 /\ UNCHANGED <<card, width>>
  BY DEF Clock48, Local, cardVars, history
<1>3. LinesFollowCard'
  BY <1>2 DEF InitInv, CardFollowsDriver, StateFollowsDriver, LinesFollowCard, Wide,
         Switching, InitDone
<1>4. pc \in Selected /\ pc' \in Selected
  BY <1>2 DEF Selected, Switching
<1> QED
  BY <1>1, <1>2, <1>3, <1>4, QuietStep DEF Clock48, Local, cardVars, history

LEMMA SetBlockSizeKeeps ==
  ASSUME InitInv, SetBlockSize
  PROVE  InitInv'
<1>1. /\ CardTypes /\ card \in CardType /\ pc = "CMD16" /\ card.state = "tran" /\ width = 4
      /\ "CMD16_512" \in Commands /\ i = 0 /\ pc' = "scan"
      /\ UNCHANGED <<kind, up, hcs, high_capacity, scr_valid, clk, width, i, garbled>>
  BY DEF InitInv, CardFollowsDriver, StateFollowsDriver, LinesFollowCard, SearchStartsAtZero,
         Switching, Commands, CardTypes, SetBlockSize, InitDone
<1>2. PICK ok \in BOOLEAN :
        /\ mmc_send_cmd("CMD16_512", ok)
        /\ media' = IF ok THEN mmc_decode_csd(kind) ELSE media
  BY DEF SetBlockSize
<1>3. /\ card' \in CardType /\ fault' \in BOOLEAN /\ (fault => fault')
      /\ card' \in {card, Performs("CMD16_512"), Asked(FALSE)}
      /\ ok => card' = Performs("CMD16_512")
      /\ ~ok => fault'
  BY <1>1, <1>2, Sent, Acceptance
<1>4. /\ Performs("CMD16_512").state = "tran" /\ Performs("CMD16_512").blklen = 512
      /\ Performs("CMD16_512").width = card.width /\ Performs("CMD16_512").hs = card.hs
  <2>1. Performs("CMD16_512") = WithBlocks(512)
    BY Effects
  <2>2. /\ WithBlocks(512).state = "tran" /\ WithBlocks(512).blklen = 512
        /\ WithBlocks(512).width = card.width /\ WithBlocks(512).hs = card.hs
    BY <1>1, WithBlocksFields
  <2> QED
    BY <2>1, <2>2, Zenon
<1>5. card'.state = "tran" /\ card'.width = card.width /\ card'.hs = card.hs
  BY <1>1, <1>3, <1>4, AskedFields
<1>6. CardTypes'
  <2>1. mmc_decode_csd(kind) \in [bs : Nat \ {0}, LastBlock : Nat]
    BY <1>1, CsdTypes DEF CardTypes
  <2>2. media' \in [bs : Nat \ {0}, LastBlock : Nat]
    BY <1>1, <1>2, <2>1 DEF CardTypes
  <2> QED
    BY <1>1, <1>3, <2>2 DEF CardTypes
<1>7. StateFollowsDriver'
  BY <1>1, <1>3, <1>5 DEF InitInv, CardFollowsDriver, StateFollowsDriver, Identifying, Addressed
<1>8. LinesFollowCard'
  BY <1>1, <1>5 DEF InitInv, CardFollowsDriver, LinesFollowCard, Wide, Switching, InitDone
<1>9. NothingFailed'
  <2>1. SUFFICES ASSUME ~fault' PROVE NothingFailed'
    BY DEF NothingFailed
  <2>2. /\ media' = mmc_decode_csd(kind')
        /\ card'.blklen = 512 /\ width' = 4
    BY <1>1, <1>2, <1>3, <1>4, <2>1 DEF mmc_decode_csd
  <2>3. i' = 0
    BY <1>1
  <2>4. \A b \in 0 .. i' - 1 : b # kind'.mbr
    BY <2>3
  <2>5. pc' = "scan" /\ card'.state = "tran"
    BY <1>1, <1>5
  <2> QED
    BY <2>2, <2>4, <2>5 DEF NothingFailed
<1> QED
  BY <1>1, <1>6, <1>7, <1>8, <1>9
     DEF InitInv, CardFollowsDriver, PublishedIsReadable, Published, SearchStartsAtZero, InitDone

\* A card has no fewer blocks of 512 bytes than blocks of its own.
LEMMA BlocksOfCard ==
  ASSUME NEW m \in Nat \ {0}, NEW n \in Nat \ {0}
  PROVE  m <= m * n /\ m * n \in Nat
BY SMT

\* When nothing failed, the search meets every block that the card has.
LEMMA SearchReads ==
  ASSUME InitInv, ~fault, pc = "scan"
  PROVE  CardBlock(i) = i /\ (i < kind.blocks * kind.bs => Readable(i))
<1>1. /\ card.state = "tran" /\ card.blklen = 512 /\ width = 4
      /\ card.width = 4 /\ (high_capacity <=> kind.hc)
      /\ high_capacity \in BOOLEAN /\ kind.hc \in BOOLEAN
      /\ clk = 48 => card.hs
  BY KindTypes DEF InitInv, NothingFailed, CardFollowsDriver, CardTypes, StateFollowsDriver,
                   LinesFollowCard, InitDone
<1>2. high_capacity = kind.hc
  BY <1>1
<1> QED
  BY <1>1, <1>2, Acceptance DEF Readable, LinesAgree, CardBlock

LEMMA ScanKeeps ==
  ASSUME InitInv, Scan
  PROVE  InitInv'
<1>1. PICK ok \in BOOLEAN :
         /\ read_a_block(i, ok)
         /\ \/ ok /\ CardBlock(i) = kind.mbr /\ pc' = "idle" /\ UNCHANGED i
            \/ /\ ~(ok /\ CardBlock(i) = kind.mbr) /\ i < MaxScan /\ i < media.LastBlock
               /\ i' = i + 1 /\ UNCHANGED pc
            \/ /\ ~(ok /\ CardBlock(i) = kind.mbr) /\ (i = MaxScan \/ i >= media.LastBlock)
               /\ pc' = "CpuDeadLoop" /\ UNCHANGED i
  BY DEF Scan
<1>2. /\ CardTypes /\ pc = "scan" /\ pc' \in {"scan", "idle", "CpuDeadLoop"}
      /\ UNCHANGED <<kind, card, up, hcs, high_capacity, scr_valid, clk, width, media, garbled>>
      /\ i \in 0 .. MaxScan /\ MaxScan \in Nat
      /\ fault \in BOOLEAN /\ fault' \in BOOLEAN /\ (fault => fault')
  BY <1>1, SdAssumption DEF InitInv, CardFollowsDriver, CardTypes, Scan, cardVars, read_a_block
<1>3. CardTypes'
  BY <1>1, <1>2 DEF CardTypes
<1>4. StateFollowsDriver'
  BY <1>2 DEF InitInv, CardFollowsDriver, StateFollowsDriver, Identifying, Addressed, Narrow,
              Wide, Switching
<1>5. LinesFollowCard'
  BY <1>2 DEF InitInv, CardFollowsDriver, LinesFollowCard, Wide, Switching, InitDone
<1>6. NothingFailed'
  <2>1. SUFFICES ASSUME ~fault' PROVE NothingFailed'
    BY DEF NothingFailed
  <2>2. /\ media = mmc_decode_csd(kind)
        /\ card.state = "tran" /\ card.blklen = 512 /\ width = 4
        /\ \A b \in 0 .. i - 1 : b # kind.mbr
    BY <1>2, <2>1 DEF InitInv, NothingFailed, InitDone
  <2>3. CardBlock(i) = i /\ (ok \/ ~(i < kind.blocks * kind.bs))
    BY <1>1, <1>2, <2>1, SearchReads DEF read_a_block
  <2>4. /\ kind.blocks * kind.bs \in Nat /\ kind.blocks <= kind.blocks * kind.bs
        /\ kind.blocks \in Nat
        /\ MaxScan <= mmc_decode_csd(kind).LastBlock /\ mmc_decode_csd(kind).LastBlock \in Nat
        /\ MaxScan <= kind.blocks
        /\ kind.mbr = None \/ kind.mbr \in 0 .. kind.blocks * kind.bs - 1
    BY <1>2, KindTypes, CsdTypes, BlocksOfCard DEF CardTypes
  <2>5. ~(ok /\ CardBlock(i) = kind.mbr) => i # kind.mbr
    BY <1>2, <2>3, <2>4, SdAssumption
  <2>6. CASE pc' = "scan"
    <3>1. i' = i + 1 /\ i # kind.mbr
      BY <1>1, <2>5, <2>6
    <3>2. \A b \in 0 .. i' - 1 : b # kind'.mbr
      BY <1>2, <2>2, <3>1
    <3> QED
      BY <1>2, <2>2, <2>6, <3>2 DEF NothingFailed, mmc_decode_csd
  <2>7. CASE pc' = "CpuDeadLoop"
    <3>1. i # kind.mbr /\ i = MaxScan
      BY <1>1, <1>2, <2>2, <2>4, <2>5, <2>7
    <3>2. kind.mbr = None \/ kind.mbr > MaxScan
      BY <1>2, <2>2, <2>4, <3>1
    <3> QED
      BY <1>2, <2>2, <2>7, <3>2 DEF NothingFailed, mmc_decode_csd
  <2>8. CASE pc' = "idle"
    BY <1>2, <2>2, <2>8 DEF NothingFailed, mmc_decode_csd
  <2> QED
    BY <1>2, <2>6, <2>7, <2>8
<1>7. SearchStartsAtZero'
  BY <1>2 DEF SearchStartsAtZero, InitDone
<1>8. PublishedIsReadable'
  <2>1. SUFFICES ASSUME pc' = "idle" PROVE PublishedIsReadable'
    BY <1>2 DEF PublishedIsReadable, Published
  <2>2. Readable(i)
    BY <1>1, <1>2, <2>1 DEF read_a_block
  <2>3. card.state = "tran" /\ LinesAgree /\ (kind.hc \/ card.blklen = 512)
    BY <2>2, Acceptance DEF Readable
  <2>4. garbled \/ high_capacity = kind.hc
    BY <1>2, <2>3, KindTypes DEF InitInv, CardFollowsDriver, StateFollowsDriver, CardTypes
  <2> QED
    BY <1>2, <2>3, <2>4 DEF PublishedIsReadable, LinesAgree
<1> QED
  BY <1>3, <1>4, <1>5, <1>6, <1>7, <1>8 DEF InitInv, CardFollowsDriver

\* A step that changes nothing that the initialization has set up.
LEMMA ReadingStep ==
  ASSUME InitInv, UNCHANGED <<kind, card, hcs, high_capacity, scr_valid, clk, width, media, i, garbled>>,
         up' \in BOOLEAN, fault' \in BOOLEAN, fault => fault',
         \/ pc \in Published /\ pc' \in Published
         \/ pc' = pc
  PROVE  InitInv'
<1>1. CardTypes'
  BY DEF InitInv, CardFollowsDriver, CardTypes
<1>2. StateFollowsDriver' /\ LinesFollowCard'
  BY DEF InitInv, CardFollowsDriver, StateFollowsDriver, LinesFollowCard, Published,
         Identifying, Addressed, Narrow, Wide, Switching, InitDone
<1>3. NothingFailed' /\ SearchStartsAtZero' /\ PublishedIsReadable'
  BY DEF InitInv, NothingFailed, SearchStartsAtZero, PublishedIsReadable, LinesAgree,
         Published, InitDone, mmc_decode_csd
<1> QED
  BY <1>1, <1>2, <1>3 DEF InitInv, CardFollowsDriver

LEMMA ReadsKeepInit ==
  ASSUME InitInv, MMCHSReadBlocks \/ ReadNext \/ ReadFails \/ ReadLast \/ CardPowersUp
  PROVE  InitInv'
<1>1. up \in BOOLEAN /\ fault \in BOOLEAN
  BY DEF InitInv, CardFollowsDriver, CardTypes
<1>2. CASE MMCHSReadBlocks
  BY <1>1, <1>2, ReadingStep DEF MMCHSReadBlocks, cardVars, initVars, history, Published
<1>3. CASE ReadNext
  BY <1>1, <1>3, ReadingStep DEF ReadNext, read_a_block, cardVars, initVars, Published
<1>4. CASE ReadFails
  BY <1>1, <1>4, ReadingStep DEF ReadFails, read_a_block, cardVars, initVars, Published
<1>5. CASE ReadLast
  BY <1>1, <1>5, ReadingStep DEF ReadLast, read_a_block, cardVars, initVars, Published
<1>6. CASE CardPowersUp
  BY <1>1, <1>6, ReadingStep DEF CardPowersUp, initVars, history
<1> QED
  BY <1>2, <1>3, <1>4, <1>5, <1>6

-----------------------------------------------------------------------------
(* The reads.                                                              *)

\* The steps of the initialization leave the reads alone.
LEMMA InitKeepsReads ==
  ASSUME ReadInv, UNCHANGED readVars, pc \notin Published, pc' # "read"
  PROVE  ReadInv'
<1>1. buf = << >> /\ status = None
  BY DEF ReadInv
<1>2. UNCHANGED <<lba, addr, off, len, buf, status>>
  BY DEF readVars
<1>3. ReadsWrap'
  BY <1>1, <1>2, SdAssumption DEF ReadsWrap
<1> QED
  BY <1>1, <1>2, <1>3 DEF ReadInv

LEMMA InitSteps ==
  ASSUME ReadInv,
         \/ SdCardInitialize \/ SDCn_init \/ GoIdle \/ SendIfCond \/ SendOpCond
         \/ CardIdentification \/ CardTransfer \/ ReadScr \/ ScrData \/ FourBitMode
         \/ ReadSdStatus \/ StatusData \/ Clock25 \/ SwitchMode \/ CheckData \/ SwitchData
         \/ Clock48 \/ SetBlockSize \/ Scan
  PROVE  ReadInv'
<1> USE InitKeepsReads DEF Published
<1>1. CASE SdCardInitialize \/ SDCn_init \/ FourBitMode \/ Clock25 \/ Clock48
  BY <1>1 DEF SdCardInitialize, SDCn_init, FourBitMode, Clock25, Clock48, Local
<1>2. CASE GoIdle \/ SendIfCond
  BY <1>2 DEF GoIdle, SendIfCond
<1>3. CASE SendOpCond
  <2>1. pc = "ACMD41" /\ UNCHANGED readVars
    BY <1>3 DEF SendOpCond
  <2>2. pc' # "read"
    BY <1>3 DEF SendOpCond, OpCond
  <2> QED
    BY <2>1, <2>2
<1>4. CASE CardIdentification
  BY <1>4 DEF CardIdentification, Step
<1>5. CASE CardTransfer
  BY <1>5 DEF CardTransfer, Step
<1>6. CASE ReadScr \/ ReadSdStatus
  BY <1>6 DEF ReadScr, ReadSdStatus, Step
<1>7. CASE SwitchMode
  BY <1>7 DEF SwitchMode, Step
<1>8. CASE StatusData \/ CheckData \/ SwitchData
  BY <1>8 DEF StatusData, CheckData, SwitchData, Transfer
<1>9. CASE ScrData
  BY <1>9 DEF ScrData
<1>10. CASE SetBlockSize
  BY <1>10 DEF SetBlockSize
<1>11. CASE Scan
  BY <1>11 DEF Scan
<1> QED
  BY <1>1, <1>2, <1>3, <1>4, <1>5, <1>6, <1>7, <1>8, <1>9, <1>10, <1>11

LEMMA MMCHSReadBlocksReads ==
  ASSUME CardTypes, ReadInv, MMCHSReadBlocks
  PROVE  ReadInv'
<1>1. PICK l \in Lbas, n \in 1 .. MaxRead :
         /\ lba' = l /\ addr' = l % AddrBlocks
         /\ off' = 0 /\ len' = n
         /\ buf' = [b \in 1 .. n |-> None]
         /\ status' = None
  BY DEF MMCHSReadBlocks
<1>2. pc = "idle" /\ pc' = "read" /\ UNCHANGED media
  BY DEF MMCHSReadBlocks, initVars
<1>3. /\ l \in Nat /\ n \in Nat /\ MaxRead \in Nat /\ AddrBlocks \in Nat \ {0}
      /\ None \notin {"EFI_SUCCESS", "EFI_DEVICE_ERROR"}
  BY SdAssumption
<1>4. buf' \in Seq(Nat \union {None}) /\ Len(buf') = n /\ DOMAIN buf' = 1 .. n
  BY <1>1, <1>3
<1>5. l % AddrBlocks \in 0 .. AddrBlocks - 1
  BY <1>3
<1>6. ReadsWrap'
  BY <1>1, <1>3, <1>4 DEF ReadsWrap
<1> QED
  BY <1>1, <1>2, <1>3, <1>4, <1>5, <1>6 DEF ReadInv, Published

\* The block that the card takes the driver to ask for is a block, and the one that the
\* driver means unless the answer to ACMD41 was damaged.
LEMMA CardBlockTypes ==
  ASSUME CardTypes, PublishedIsReadable, pc \in Published, NEW b \in Nat
  PROVE  CardBlock(b) \in Nat /\ (~garbled => CardBlock(b) = b)
<1>1. BLOCK_SIZE \in Nat \ {0}
  BY SdAssumption
<1>2. b \div BLOCK_SIZE \in Nat
  BY <1>1, Remainder
<1>3. b * BLOCK_SIZE \in Nat
  BY <1>1
<1>4. ~garbled => high_capacity = kind.hc
  BY DEF PublishedIsReadable
<1> QED
  BY <1>2, <1>3, <1>4, Zenon DEF CardBlock

\* Arithmetic of the address, which is cut to 32 bits at every step.
LEMMA AddressWraps ==
  ASSUME NEW a \in Nat \ {0}, NEW x \in Nat
  PROVE  ((x % a) + 1) % a = (x + 1) % a
<1> DEFINE q == x \div a
<1> DEFINE r == x % a
<1>1. q \in Nat /\ r \in 0 .. a - 1 /\ x = a * q + r
  BY Remainder
<1>2. a * q \in Nat /\ a * 0 = 0 /\ a * 1 = a /\ a * (q + 1) = a * q + a
  BY <1>1
<1> HIDE DEF q, r
<1>3. CASE r + 1 < a
  <2>1. r + 1 \in 0 .. a - 1
    BY <1>1, <1>3
  <2>2. (a * 0 + (r + 1)) % a = r + 1
    BY <2>1, RemainderUnique
  <2>3. (a * q + (r + 1)) % a = r + 1
    BY <1>1, <2>1, RemainderUnique
  <2>4. a * 0 + (r + 1) = r + 1 /\ a * q + (r + 1) = x + 1
    BY <1>1, <1>2
  <2> QED
    BY <2>2, <2>3, <2>4 DEF r
<1>4. CASE r + 1 = a
  <2>1. (a * 1 + 0) % a = 0
    BY RemainderUnique
  <2>2. (a * (q + 1) + 0) % a = 0
    BY <1>1, RemainderUnique
  <2>3. a * 1 + 0 = r + 1 /\ a * (q + 1) + 0 = x + 1
    BY <1>1, <1>2, <1>4
  <2> QED
    BY <2>1, <2>2, <2>3 DEF r
<1> QED
  BY <1>1, <1>3, <1>4

LEMMA ReadNextReads ==
  ASSUME CardTypes, PublishedIsReadable, ReadInv, ReadNext
  PROVE  ReadInv'
<1> DEFINE a == CardBlock(addr \div media.bs)
<1>1. /\ MaxRead \in Nat /\ AddrBlocks \in Nat \ {0} /\ Lbas \subseteq Nat /\ None \notin Nat
      /\ lba \in Nat /\ addr \in Nat /\ media.bs \in Nat \ {0}
      /\ off \in Nat /\ len \in Nat
  <2>1. media.bs \in Nat \ {0}
    BY DEF CardTypes
  <2>2. lba \in Lbas \union {0} /\ addr \in Nat /\ off \in Nat /\ len \in Nat
    <3>1. /\ lba \in Lbas \union {0} /\ addr \in 0 .. AddrBlocks - 1
          /\ off \in 0 .. MaxRead /\ len \in 0 .. MaxRead
      BY DEF ReadInv
    <3> QED
      BY <3>1, ReadConstants
  <2> QED
    BY <2>1, <2>2, ReadConstants
<1>2. /\ pc = "read" /\ pc' = "read" /\ len > media.bs
      /\ buf' = [buf EXCEPT ![off + 1] = a]
      /\ off' = off + media.bs /\ addr' = (addr + media.bs) % AddrBlocks
      /\ len' = len - media.bs
      /\ UNCHANGED <<media, lba, status, garbled>>
  BY DEF ReadNext, initVars, read_a_block
<1>3. /\ buf \in Seq(Nat \union {None}) /\ Len(buf) <= MaxRead /\ DOMAIN buf = 1 .. Len(buf)
      /\ off + len = Len(buf) /\ status = None /\ Len(buf) \in Nat
  BY <1>2 DEF ReadInv
<1>4. a \in Nat /\ (~garbled => a = addr \div media.bs)
  <2>1. addr \div media.bs \in Nat
    BY <1>1, Remainder
  <2>2. pc \in Published
    BY <1>2 DEF Published
  <2> QED
    BY <2>1, <2>2, CardBlockTypes
<1> HIDE DEF a
<1>5. off + 1 \in 1 .. Len(buf)
  BY <1>1, <1>2, <1>3
<1>6. buf' \in Seq(Nat \union {None}) /\ Len(buf') = Len(buf) /\ DOMAIN buf' = DOMAIN buf
  BY <1>2, <1>3, <1>4, <1>5
<1>7. /\ off' \in 0 .. MaxRead /\ len' \in 0 .. MaxRead /\ len' > 0
      /\ off' + len' = Len(buf')
  <2>1. PICK m \in Nat \ {0} : off' = off + m /\ len' = len - m /\ len > m
    BY <1>1, <1>2
  <2>2. PICK n \in Nat : n = Len(buf) /\ n <= MaxRead /\ off + len = n /\ Len(buf') = n
    BY <1>3, <1>6
  <2> QED
    BY <1>1, <2>1, <2>2
<1>8. addr' \in 0 .. AddrBlocks - 1
  <2>1. addr + media.bs \in Nat
    BY <1>1
  <2> QED
    BY <1>1, <1>2, <2>1, Remainder
<1>9. status' = None /\ status' # "EFI_SUCCESS"
  BY <1>2, <1>3, SdAssumption
<1>10. ASSUME media.bs = 1
       PROVE  /\ ~garbled => a = (lba + off) % AddrBlocks
              /\ addr' = (lba + off') % AddrBlocks
              /\ off' = off + 1
  <2>1. addr = (lba + off) % AddrBlocks
    BY <1>2, <1>10 DEF ReadInv
  <2>2. ~garbled => a = addr
    BY <1>1, <1>4, <1>10
  <2>3. (((lba + off) % AddrBlocks) + 1) % AddrBlocks = (lba + off + 1) % AddrBlocks
    <3>1. lba + off \in Nat
      BY <1>1
    <3> QED
      BY <1>1, <3>1, AddressWraps
  <2>4. off' = off + 1 /\ lba' = lba /\ addr' = (addr + 1) % AddrBlocks
    BY <1>2, <1>10
  <2>5. lba + off + 1 = lba + (off + 1)
    BY <1>1
  <2> QED
    BY <2>1, <2>2, <2>3, <2>4, <2>5
<1>11. ReadsWrap'
  <2>1. SUFFICES ASSUME media.bs = 1, ~garbled, NEW b \in DOMAIN buf', buf'[b] # None
                 PROVE  buf'[b] = (lba + b - 1) % AddrBlocks
    BY <1>2, <1>9 DEF ReadsWrap
  <2>2. CASE b = off + 1
    <3>1. buf'[b] = a /\ lba + b - 1 = lba + off
      BY <1>1, <1>2, <1>3, <1>5, <2>2
    <3> QED
      BY <1>10, <2>1, <3>1
  <2>3. CASE b # off + 1
    <3>1. buf'[b] = buf[b] /\ b \in DOMAIN buf
      BY <1>2, <1>6, <2>3
    <3> QED
      BY <2>1, <3>1 DEF ReadInv, ReadsWrap
  <2> QED
    BY <2>2, <2>3
<1>12. ASSUME media.bs = 1, NEW b \in 1 .. off' PROVE buf'[b] # None
  <2>1. CASE b = off + 1
    BY <1>1, <1>2, <1>3, <1>4, <1>5, <2>1
  <2>2. CASE b # off + 1
    <3>1. b \in 1 .. off /\ b \in DOMAIN buf
      BY <1>1, <1>3, <1>5, <1>10, <1>12, <2>2
    <3>2. buf[b] # None
      BY <1>2, <1>12, <3>1 DEF ReadInv
    <3> QED
      BY <1>2, <1>3, <2>2, <3>1, <3>2
  <2> QED
    BY <2>1, <2>2
<1>13. lba' \in Lbas \union {0}
  BY <1>2 DEF ReadInv
<1> QED
  BY <1>2, <1>3, <1>6, <1>7, <1>8, <1>9, <1>10, <1>11, <1>12, <1>13 DEF ReadInv, Published

LEMMA ReadFailsReads ==
  ASSUME ReadInv, ReadFails
  PROVE  ReadInv'
<1>1. /\ pc' = "idle" /\ status' = "EFI_DEVICE_ERROR"
      /\ UNCHANGED <<media, lba, addr, off, len, buf, garbled>>
  BY DEF ReadFails, initVars, read_a_block
<1>2. ReadsWrap'
  BY <1>1 DEF ReadInv, ReadsWrap
<1> QED
  BY <1>1, <1>2 DEF ReadInv, Published

LEMMA ReadLastReads ==
  ASSUME CardTypes, PublishedIsReadable, ReadInv, ReadLast
  PROVE  ReadInv'
<1> DEFINE a == CardBlock(addr \div media.bs)
<1>1. /\ MaxRead \in Nat /\ AddrBlocks \in Nat \ {0} /\ Lbas \subseteq Nat /\ None \notin Nat
      /\ lba \in Nat /\ addr \in Nat /\ media.bs \in Nat \ {0}
      /\ off \in Nat /\ len \in Nat
  <2>1. media.bs \in Nat \ {0}
    BY DEF CardTypes
  <2>2. lba \in Lbas \union {0} /\ addr \in Nat /\ off \in Nat /\ len \in Nat
    <3>1. /\ lba \in Lbas \union {0} /\ addr \in 0 .. AddrBlocks - 1
          /\ off \in 0 .. MaxRead /\ len \in 0 .. MaxRead
      BY DEF ReadInv
    <3> QED
      BY <3>1, ReadConstants
  <2> QED
    BY <2>1, <2>2, ReadConstants
<1>2. /\ pc = "read" /\ pc' = "idle" /\ len <= media.bs
      /\ buf' = [buf EXCEPT ![off + 1] = a] \/ buf' = buf
      /\ status' = "EFI_SUCCESS"
      /\ UNCHANGED <<media, lba, addr, off, len, garbled>>
  BY DEF ReadLast, initVars, read_a_block
<1>3. /\ buf \in Seq(Nat \union {None}) /\ Len(buf) <= MaxRead /\ DOMAIN buf = 1 .. Len(buf)
      /\ off + len = Len(buf) /\ Len(buf) \in Nat /\ len > 0
  BY <1>2 DEF ReadInv
<1>4. a \in Nat /\ (~garbled => a = addr \div media.bs)
  <2>1. addr \div media.bs \in Nat
    BY <1>1, Remainder
  <2>2. pc \in Published
    BY <1>2 DEF Published
  <2> QED
    BY <2>1, <2>2, CardBlockTypes
<1> HIDE DEF a
<1>5. off + 1 \in 1 .. Len(buf)
  BY <1>1, <1>3
<1>6. buf' \in Seq(Nat \union {None}) /\ Len(buf') = Len(buf) /\ DOMAIN buf' = DOMAIN buf
  BY <1>2, <1>3, <1>4, <1>5
<1>7. ASSUME media.bs = 1
      PROVE  (~garbled => a = (lba + off) % AddrBlocks) /\ off + 1 = Len(buf)
  <2>1. addr = (lba + off) % AddrBlocks
    BY <1>2, <1>7 DEF ReadInv
  <2>2. ~garbled => a = addr
    BY <1>1, <1>4, <1>7
  <2>3. off + 1 = Len(buf)
    <3>1. len <= media.bs
      BY <1>2
    <3>2. len = 1
      BY <1>1, <1>3, <1>7, <3>1
    <3> QED
      BY <1>3, <3>2
  <2> QED
    BY <2>1, <2>2, <2>3
<1>8. ASSUME media.bs = 1, ~garbled, NEW b \in DOMAIN buf', buf'[b] # None
      PROVE  buf'[b] = (lba + b - 1) % AddrBlocks
  <2>1. CASE buf'[b] = buf[b]
    BY <1>6, <1>8, <2>1 DEF ReadInv, ReadsWrap
  <2>2. CASE b = off + 1 /\ buf'[b] = a
    <3>1. lba + b - 1 = lba + off
      BY <1>1, <2>2
    <3> QED
      BY <1>7, <1>8, <2>2, <3>1
  <2> QED
    BY <1>2, <1>3, <1>5, <1>6, <2>1, <2>2
<1>9. ASSUME media.bs = 1, NEW b \in 1 .. Len(buf') - 1
      PROVE  buf'[b] # None
  <2>1. b \in 1 .. off /\ b # off + 1 /\ b \in DOMAIN buf
    BY <1>1, <1>3, <1>6, <1>7, <1>9
  <2>2. buf[b] # None
    BY <1>2, <1>9, <2>1 DEF ReadInv
  <2> QED
    BY <1>2, <1>3, <2>1, <2>2
<1>10. ReadsWrap'
  BY <1>2, <1>8, <1>9 DEF ReadsWrap
<1> QED
  BY <1>2, <1>3, <1>6, <1>10 DEF ReadInv, Published

-----------------------------------------------------------------------------
(* The theorems.                                                           *)

LEMMA InitInvHolds ==
  ASSUME Init
  PROVE  SdInv
<1>1. /\ kind \in Cards /\ kind.hc \in BOOLEAN /\ MaxScan \in Nat /\ MaxRead \in Nat
      /\ AddrBlocks \in Nat \ {0}
  <2>1. kind \in Cards
    BY DEF Init
  <2> QED
    BY <2>1, KindTypes, SdAssumption
<1>2. card \in CardType /\ card.state = "idle" /\ card.width = 1
  BY DEF Init, CardType, States
<1>3. media \in [bs : Nat \ {0}, LastBlock : Nat]
  BY DEF Init
<1>4. CardTypes
  <2>1. /\ up \in BOOLEAN /\ {hcs, high_capacity, scr_valid, fault, garbled} \subseteq BOOLEAN
        /\ clk = 0 /\ width = 1 /\ i = 0
    BY DEF Init
  <2> QED
    BY <1>1, <1>2, <1>3, <2>1 DEF CardTypes
<1>5. StateFollowsDriver /\ LinesFollowCard
  BY <1>2 DEF Init, StateFollowsDriver, LinesFollowCard, Identifying, Addressed, Narrow, Wide,
              Switching, InitDone
<1>6. NothingFailed /\ SearchStartsAtZero /\ PublishedIsReadable
  BY DEF Init, NothingFailed, SearchStartsAtZero, PublishedIsReadable, Published, InitDone
<1>7. buf = << >> /\ status = None /\ pc \notin Published
  BY DEF Init, Published
<1>8. ReadsWrap
  BY <1>7, SdAssumption DEF ReadsWrap
<1>9. ReadInv
  BY <1>1, <1>7, <1>8 DEF Init, ReadInv, Published
<1> QED
  BY <1>4, <1>5, <1>6, <1>9 DEF SdInv, InitInv, CardFollowsDriver

LEMMA NextKeepsInit ==
  ASSUME InitInv, Next
  PROVE  InitInv'
BY SdCardInitializeKeeps, SDCn_initKeeps, GoIdleKeeps, SendIfCondKeeps, SendOpCondKeeps,
   CardIdentificationKeeps, CardTransferKeeps, ReadScrKeeps, ScrDataKeeps, FourBitModeKeeps,
   ReadSdStatusKeeps, StatusDataKeeps, Clock25Keeps, SwitchModeKeeps, CheckDataKeeps,
   SwitchDataKeeps, Clock48Keeps, SetBlockSizeKeeps, ScanKeeps, ReadsKeepInit
   DEF Next, Driver

LEMMA NextKeepsReads ==
  ASSUME InitInv, ReadInv, Next
  PROVE  ReadInv'
<1>1. CardTypes /\ PublishedIsReadable
  BY DEF InitInv, CardFollowsDriver
<1>2. CASE MMCHSReadBlocks \/ ReadNext \/ ReadFails \/ ReadLast
  BY <1>1, <1>2, MMCHSReadBlocksReads, ReadNextReads, ReadFailsReads, ReadLastReads
<1>3. CASE CardPowersUp
  BY <1>3 DEF CardPowersUp, readVars, initVars, history, ReadInv, ReadsWrap
<1> QED
  BY <1>2, <1>3, InitSteps DEF Next, Driver

\* In every state the card is where the driver takes it to be, nothing that was found
\* out without a fault is wrong, and the blocks read so far lie in their place.
THEOREM Inductive == Spec => []SdInv
<1>1. Init => SdInv
  BY InitInvHolds
<1>2. SdInv /\ [Next]_vars => SdInv'
  <2>1. CASE Next
    BY <2>1, NextKeepsInit, NextKeepsReads DEF SdInv
  <2>2. CASE UNCHANGED vars
    BY <2>2 DEF vars, cardVars, initVars, readVars, history, mmc_decode_csd, SdInv, InitInv, CardFollowsDriver,
       CardTypes, StateFollowsDriver, LinesFollowCard, NothingFailed, SearchStartsAtZero,
       PublishedIsReadable, LinesAgree, ReadInv, ReadsWrap
  <2> QED
    BY <2>1, <2>2
<1> QED
  BY <1>1, <1>2, PTL DEF Spec

\* Every variable has its type: what the driver knows of the card, the clock and the
\* bus, the place of the search, and the loop of MmcReadInternal in its buffer.
THEOREM TypeCorrect == Spec => []TypeOK
<1>1. SdInv => TypeOK
  <2>1. SUFFICES ASSUME SdInv PROVE TypeOK
    OBVIOUS
  <2>2. CardTypes
    BY <2>1 DEF SdInv, InitInv, CardFollowsDriver
  <2>3. DOMAIN buf \subseteq 1 .. MaxRead
    <3>1. buf \in Seq(Nat \union {None}) /\ Len(buf) <= MaxRead /\ MaxRead \in Nat
      BY <2>1, SdAssumption DEF SdInv, ReadInv
    <3> QED
      BY <3>1
  <2>4. /\ card.state \in {"idle", "ready", "ident", "stby", "tran"}
        /\ card.blklen \in {8, 64, 512} /\ card.width \in {1, 4}
        /\ {card.app, card.hs} \subseteq BOOLEAN
    BY <2>2 DEF CardTypes, CardType, States
  <2> QED
    BY <2>1, <2>2, <2>3, <2>4 DEF TypeOK, CardTypes, SdInv, ReadInv
<1> QED
  BY <1>1, Inductive, PTL

\* The controller never runs ahead of the card: MCLK stays at 400 kHz until the card is
\* identified, 48 MHz come after the card has switched to high speed, and WIDEBUS after
\* the card has taken four lines, whichever commands fail (SdCardInit).
THEOREM ControllerFollows == Spec => []ControllerFollowsCard
<1>1. SdInv => ControllerFollowsCard
  <2>1. SUFFICES ASSUME SdInv PROVE ControllerFollowsCard
    OBVIOUS
  <2>2. LinesFollowCard /\ clk \in {0, 400, 25, 48}
    BY <2>1 DEF SdInv, InitInv, CardFollowsDriver, CardTypes
  <2>3. card.state \in {"idle", "ready", "ident"} => clk \in {0, 400}
    BY <2>2 DEF LinesFollowCard
  <2> QED
    BY <2>2, <2>3 DEF ControllerFollowsCard, LinesFollowCard
<1> QED
  BY <1>1, Inductive, PTL

\* A card whose BlockIo is published can be read, although SdCardInitialize looks at no
\* result of SdCardInit: the MBR is only found on a card that is selected, with both
\* ends at the same width and speed and blocks of 512 bytes.  What an address counts
\* they agree about too, unless card_identification_selection took the capacity from a
\* damaged answer to ACMD41, of which any bit may have been wrong.
THEOREM PublishedReadable == Spec => []PublishedIsReadable
<1>1. SdInv => PublishedIsReadable
  BY DEF SdInv, InitInv
<1> QED
  BY <1>1, Inductive, PTL

\* Without a fault no card is given up: no command meets a card in the wrong state, only
\* a card without an MBR in the searched blocks stops the driver, and the published
\* geometry is the card's, but for the blocks of a high capacity card that the 16 bits
\* which mmc_decode_csd takes of C_SIZE cannot count.
THEOREM InitializationSucceeds == Spec => []InitSucceeds
<1>1. SdInv => InitSucceeds
  <2>1. SUFFICES ASSUME SdInv PROVE InitSucceeds
    OBVIOUS
  <2>2. NothingFailed /\ kind \in Cards
    BY <2>1 DEF SdInv, InitInv, CardFollowsDriver, CardTypes
  <2>3. /\ mmc_decode_csd(kind).bs = kind.bs
        /\ ~kind.hc \/ kind.blocks <= CsdBlocks =>
             mmc_decode_csd(kind).LastBlock = kind.blocks
    BY <2>2, CsdTypes
  <2>4. ~fault => (pc \in InitDone => media = mmc_decode_csd(kind))
    BY <2>2 DEF NothingFailed
  <2>5. ~fault => pc # "hang" /\ (pc = "CpuDeadLoop" => kind.mbr = None \/ kind.mbr > MaxScan)
    BY <2>2 DEF NothingFailed
  <2> QED
    BY <2>3, <2>4, <2>5, Zenon DEF InitSucceeds
<1> QED
  BY <1>1, Inductive, PTL

\* MmcReadInternal brings the requested block to every place of the caller's buffer, for
\* any request of blocks that a 32-bit byte address reaches and unless the answer to
\* ACMD41 was damaged; and a read that reports success lacks at most its last block.
THEOREM ReadsLieInPlace == Spec => []ReadsInPlace
<1>1. SdInv => ReadsInPlace
  <2>1. SUFFICES ASSUME SdInv, media.bs = 1 PROVE ReadsInPlace
    BY DEF ReadsInPlace
  <2>2. /\ ReadsWrap /\ buf \in Seq(Nat \union {None}) /\ lba \in Nat
        /\ AddrBlocks \in Nat \ {0}
    BY <2>1, SdAssumption DEF SdInv, ReadInv
  <2>3. ASSUME ~garbled, NEW b \in DOMAIN buf, buf[b] # None, lba + b - 1 < AddrBlocks
        PROVE  buf[b] = lba + b - 1
    <3>1. buf[b] = (lba + b - 1) % AddrBlocks
      BY <2>1, <2>2, <2>3 DEF ReadsWrap
    <3>2. b \in 1 .. Len(buf) /\ Len(buf) \in Nat
      BY <2>2, <2>3
    <3>3. lba + b - 1 \in Nat
      BY <2>2, <3>2
    <3> QED
      BY <2>2, <2>3, <3>1, <3>3, SmallRemainder
  <2>4. status = "EFI_SUCCESS" => \A b \in 1 .. Len(buf) - 1 : buf[b] # None
    BY <2>1, <2>2 DEF ReadsWrap
  <2> QED
    BY <2>3, <2>4 DEF ReadsInPlace
<1> QED
  BY <1>1, Inductive, PTL
=============================================================================
