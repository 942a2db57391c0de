------------------------------- MODULE SdCard -------------------------------
(***************************************************************************)
(* SdCardDxe: the initialization of the SD card, the search for its MBR    *)
(* and the block reads.  SdCardInitialize runs once, as a driver entry     *)
(* point; mmc_send_cmd may fail in any call, since the card may miss a     *)
(* command or its response may be damaged, and a data transfer may fail at *)
(* any time.  What the card does with a command is the card's protocol, an *)
(* external part of the model; the driver only sees responses.             *)
(***************************************************************************)
EXTENDS Naturals, Sequences

CONSTANTS Cards,       \* the cards that may be in the slot
          Lbas,        \* the first blocks of the read requests
          MaxRead,     \* bound: blocks of one read request
          MaxScan,     \* the last block searched for an MBR, 50
          BLOCK_SIZE,  \* bytes of a block that is read, 512
          AddrBlocks,  \* such blocks that a 32-bit byte address reaches
          CsdBlocks,   \* such blocks that 16 bits of C_SIZE can count, 2^26
          None

\* What mmc_decode_csd makes of the CSD of card c.  For a high capacity card it
\* takes 16 of the 22 bits of C_SIZE; LastBlock is the number of blocks.
\* Mutant: C_SIZE is not counted from one.
DecodeFromZero(c) ==
    [bs |-> c.bs,
     LastBlock |-> IF c.hc THEN (c.blocks - 1) % CsdBlocks ELSE c.blocks]
mmc_decode_csd(c) ==
    [bs |-> c.bs,
     LastBlock |-> IF c.hc THEN ((c.blocks - 1) % CsdBlocks) + 1 ELSE c.blocks]

\* A card has hc (high capacity), v2 (answers CMD8), spec (at least version
\* 1.1, has CMD6), hs (offers high speed), switches (and switches to it when
\* asked), bs (its CSD's block length / 512), blocks (how many of bs * 512
\* bytes) and mbr (the block with the MBR, or None).  It is larger than the
\* part that is searched, by its CSD too: 50 blocks are 25 KB, and C_SIZE counts
\* 512 KB.
ASSUME SdAssumption ==
    /\ \A c \in Cards : /\ {c.hc, c.v2, c.spec, c.hs, c.switches} \subseteq BOOLEAN
                        /\ c.bs \in Nat \ {0} /\ c.blocks \in Nat \ {0}
                        /\ c.hc => c.v2 /\ c.bs = 1
                        /\ c.mbr = None \/ c.mbr \in 0 .. c.blocks * c.bs - 1
                        /\ MaxScan <= mmc_decode_csd(c).LastBlock
    /\ Lbas \subseteq Nat
    /\ MaxRead \in Nat \ {0} /\ MaxScan \in Nat
    /\ {BLOCK_SIZE, AddrBlocks, CsdBlocks} \subseteq Nat \ {0}
    /\ None \notin Nat /\ None \notin {"EFI_SUCCESS", "EFI_DEVICE_ERROR"}

VARIABLES kind,            \* the card in the slot
          card, up,        \* the card's state; whether it has powered up
          pc,
          hcs,             \* hc_support of card_identification_selection
          high_capacity, scr_valid,
          clk, width,      \* the controller's MCLK and WIDEBUS
          media,           \* gMMCHSMedia: block size / 512 and LastBlock
          i,               \* the block in the search for the MBR
          lba, addr, off, len,   \* a read: what was asked, and the loop of
                                 \* MmcReadInternal, in units of 512 bytes
          buf, status,     \* the caller's buffer and the result
          fault,           \* history: a command or a transfer has failed
          garbled          \* history: the last answer to ACMD41 was damaged

cardVars == <<kind, card, up>>
initVars == <<hcs, high_capacity, scr_valid, clk, width, media, i>>
readVars == <<lba, addr, off, len, buf, status>>
history == <<fault, garbled>>
vars == <<cardVars, pc, initVars, readVars, history>>

Init ==
    /\ kind \in Cards
    /\ card = [state |-> "idle", app |-> FALSE, blklen |-> 512,
               width |-> 1, hs |-> FALSE]
    /\ up = FALSE
    /\ pc = "SdCardInitialize"
    /\ hcs = FALSE /\ high_capacity = FALSE /\ scr_valid = FALSE
    /\ clk = 0 /\ width = 1
    /\ media = [bs |-> 1, LastBlock |-> 0]
    /\ i = 0
    /\ lba = 0 /\ addr = 0 /\ off = 0 /\ len = 0
    /\ buf = <<>> /\ status = None
    /\ fault = FALSE /\ garbled = FALSE

-----------------------------------------------------------------------------
(* The card.                                                               *)

\* The state in which the card accepts a command.
Accepts(cmd) ==
    CASE cmd = "CMD0" -> TRUE
      [] cmd = "CMD8" -> card.state = "idle" /\ kind.v2
      [] cmd = "CMD55_idle" -> card.state = "idle"
      [] cmd = "CMD55" -> card.state \in {"stby", "tran"}
      [] cmd = "ACMD41" -> card.state = "idle" /\ card.app
      [] cmd = "CMD2" -> card.state = "ready"
      [] cmd = "CMD3" -> card.state = "ident"
      [] cmd \in {"CMD9", "CMD10", "CMD7"} -> card.state = "stby"
      [] cmd = "CMD13" -> card.state \in {"stby", "tran"}
      [] cmd = "CMD6" -> card.state = "tran" /\ kind.spec
      [] cmd \in {"ACMD6", "ACMD13", "ACMD51"} -> card.state = "tran" /\ card.app
      [] cmd \in {"CMD16_8", "CMD16_64", "CMD16_512", "CMD6_set", "CMD17"} ->
           card.state = "tran"

\* What an accepted command does.  A high capacity card powers up only when
\* the host has offered to support it.
Performs(cmd) ==
    LET to(s) == [card EXCEPT !.state = s, !.app = FALSE]
    IN  CASE cmd = "CMD0" -> to("idle")
          [] cmd \in {"CMD55_idle", "CMD55"} -> [card EXCEPT !.app = TRUE]
          [] cmd = "ACMD41" ->
               to(IF up /\ (kind.hc => hcs) THEN "ready" ELSE "idle")
          [] cmd = "CMD2" -> to("ident")
          [] cmd = "CMD3" -> to("stby")
          [] cmd = "CMD7" -> to("tran")
          [] cmd = "CMD16_8" -> [to("tran") EXCEPT !.blklen = 8]
          [] cmd = "CMD16_64" -> [to("tran") EXCEPT !.blklen = 64]
          [] cmd = "CMD16_512" -> [to("tran") EXCEPT !.blklen = 512]
          [] cmd = "ACMD6" -> [to("tran") EXCEPT !.width = 4]
          [] cmd = "CMD6_set" -> [to("tran") EXCEPT !.hs = kind.switches]
          [] OTHER -> to(card.state)

CardPowersUp ==
    /\ ~up /\ up' = TRUE
    /\ UNCHANGED <<kind, card, pc, initVars, readVars, history>>

\* Both ends use the same lines at a speed that the card follows.
LinesAgree == width = card.width /\ (clk = 48 => card.hs)

-----------------------------------------------------------------------------
(* mmc_send_cmd.                                                           *)

\* The card gets the command, and its response arrives as it was sent.
Answered(cmd) == Accepts(cmd) /\ card' = Performs(cmd) /\ UNCHANGED fault

\* The response is damaged or missing, or the card does not get the command.  ok is
\* what the function returns: a damaged response counts as an answer to ACMD41,
\* and a missing one as an answer to CMD55 as long as the card has no address.
Disturbed(cmd, ok) ==
    \/ /\ Accepts(cmd) /\ card' = Performs(cmd)
       /\ ok => cmd \in {"ACMD41", "CMD55_idle"}
       /\ fault' = TRUE
    \/ /\ card' = IF Accepts(cmd) THEN card ELSE [card EXCEPT !.app = FALSE]
       /\ ok = (cmd = "CMD55_idle")
       /\ fault' = (fault \/ Accepts(cmd))

mmc_send_cmd(cmd, ok) == (ok /\ Answered(cmd)) \/ Disturbed(cmd, ok)

\* The driver is at one label, sends a command and goes on to the next, or to where
\* the function that it is in ends when it fails.
Step(at, cmd, next, failed) ==
    \E ok \in BOOLEAN :
      /\ pc = at
      /\ mmc_send_cmd(cmd, ok)
      /\ pc' = IF ok THEN next ELSE failed
      /\ UNCHANGED <<kind, up, initVars, readVars, garbled>>

\* The driver only computes: the card and the transfers are left alone.
Local == UNCHANGED <<cardVars, readVars, history>>

-----------------------------------------------------------------------------
(* SdCardInit.                                                             *)

\* SdCardInitialize: the GPIO tells whether there is a card.
SdCardInitialize ==
    /\ pc = "SdCardInitialize"
    /\ pc' \in {"SDCn_init", "no_card"}
    /\ UNCHANGED initVars /\ Local

SDCn_init ==
    /\ pc = "SDCn_init"
    /\ clk' = 400 /\ width' = 1
    /\ pc' = "CMD0"
    /\ UNCHANGED <<hcs, high_capacity, scr_valid, media, i>> /\ Local

CardIdentification ==
    \/ Step("CMD55_ocr", "CMD55_idle", "ACMD41", "scan")
    \/ Step("CMD2", "CMD2", "CMD3", "scan")
    \/ Step("CMD3", "CMD3", "CMD9", "scan")

\* CMD0 has no response and cannot fail.
GoIdle ==
    /\ pc = "CMD0" /\ pc' = "CMD8"
    /\ card' = Performs("CMD0")
    /\ UNCHANGED <<kind, up, initVars, readVars, history>>

SendIfCond ==
    /\ pc = "CMD8" /\ pc' = "CMD55_ocr"
    /\ \E ok \in BOOLEAN : mmc_send_cmd("CMD8", ok) /\ hcs' = ok
    /\ UNCHANGED <<kind, up, high_capacity, scr_valid, clk, width, media, i,
                   readVars, garbled>>

\* The loop of card_identification_selection looks at the answer to ACMD41, and
\* ends when that says that the card has powered up.
OpCond(powered, ccs) ==
    IF powered
    THEN pc' = "CMD2" /\ high_capacity' = (high_capacity \/ (ccs /\ hcs))
    ELSE pc' = "CMD55_ocr" /\ UNCHANGED high_capacity

\* ACMD41.  Of a damaged response any bit may be wrong.
SendOpCond ==
    /\ pc = "ACMD41"
    /\ \/ /\ Answered("ACMD41") /\ garbled' = FALSE
          /\ OpCond(card'.state = "ready", kind.hc)
       \/ /\ Disturbed("ACMD41", TRUE) /\ garbled' = TRUE
          /\ \E powered, ccs \in BOOLEAN : OpCond(powered, ccs)
       \/ /\ Disturbed("ACMD41", FALSE) /\ pc' = "scan"
          /\ UNCHANGED <<high_capacity, garbled>>
    /\ UNCHANGED <<kind, up, hcs, scr_valid, clk, width, media, i, readVars>>

\* card_transfer_init, with read_SCR_register in its middle.
\* Mutant: APP_CMD is not sent before SET_BUS_WIDTH.
TransferWithoutAppCmd ==
    \/ Step("CMD9", "CMD9", "CMD10", "scan")
    \/ Step("CMD10", "CMD10", "CMD7", "scan")
    \/ Step("CMD7", "CMD7", "CMD16_scr", "scan")
    \/ Step("CMD55_width", "CMD13", "ACMD6", "scan")
    \/ Step("ACMD6", "ACMD6", "CMD13", "scan")
    \/ Step("CMD13", "CMD13", "4_bit_mode", "scan")

CardTransfer ==
    \/ Step("CMD9", "CMD9", "CMD10", "scan")
    \/ Step("CMD10", "CMD10", "CMD7", "scan")
    \/ Step("CMD7", "CMD7", "CMD16_scr", "scan")
    \/ Step("CMD55_width", "CMD55", "ACMD6", "scan")
    \/ Step("ACMD6", "ACMD6", "CMD13", "scan")
    \/ Step("CMD13", "CMD13", "4_bit_mode", "scan")

ReadScr ==
    \/ Step("CMD16_scr", "CMD16_8", "CMD55_scr", "scan")
    \/ Step("CMD55_scr", "CMD55", "ACMD51", "scan")
    \/ Step("ACMD51", "ACMD51", "scr_data", "scan")

\* The loop waits for data and looks for no error: without data it never ends.
ScrData ==
    /\ pc = "scr_data"
    /\ \/ /\ LinesAgree /\ scr_valid' = TRUE
          /\ pc' = "CMD55_width"
          /\ UNCHANGED fault
       \/ pc' = "hang" /\ fault' = TRUE /\ UNCHANGED scr_valid
    /\ UNCHANGED <<cardVars, hcs, high_capacity, clk, width, media, i, readVars,
                   garbled>>

\* Back in SdCardInit: the controller follows the card to four bits.
FourBitMode ==
    /\ pc = "4_bit_mode" /\ pc' = "CMD16_status"
    /\ width' = 4
    /\ UNCHANGED <<hcs, high_capacity, scr_valid, clk, media, i>> /\ Local

ReadSdStatus ==
    \/ Step("CMD16_status", "CMD16_64", "CMD55_status", "scan")
    \/ Step("CMD55_status", "CMD55", "ACMD13", "scan")
    \/ Step("ACMD13", "ACMD13", "status_data", "scan")

\* A transfer that ends well only over lines that agree.
Transfer(ok) ==
    /\ ok => LinesAgree
    /\ fault' = (fault \/ ~ok)
    /\ UNCHANGED <<cardVars, initVars, readVars, garbled>>

StatusData ==
    /\ pc = "status_data"
    /\ \E ok \in BOOLEAN :
         Transfer(ok) /\ pc' = IF ok THEN "25_MHz" ELSE "scan"

\* MCLK goes to 25 MHz; only a card with CMD6 is asked for high speed.
Clock25 ==
    /\ pc = "25_MHz"
    /\ clk' = 25
    /\ pc' = IF scr_valid /\ kind.spec THEN "CMD16_switch" ELSE "CMD16"
    /\ UNCHANGED <<hcs, high_capacity, scr_valid, width, media, i>> /\ Local

SwitchMode ==
    \/ Step("CMD16_switch", "CMD16_64", "CMD6", "CMD16")
    \/ Step("CMD6", "CMD6", "check_data", "CMD16")
    \/ Step("CMD6_set", "CMD6_set", "switch_data", "CMD16")

CheckData ==
    /\ pc = "check_data"
    /\ \E ok \in BOOLEAN :
         Transfer(ok) /\ pc' = IF ok /\ kind.hs THEN "CMD6_set" ELSE "CMD16"

\* Mutant: the result of the switch is not looked at.
SwitchUnchecked ==
    /\ pc = "switch_data"
    /\ \E ok \in BOOLEAN : Transfer(ok) /\ pc' = "48_MHz"

SwitchData ==
    /\ pc = "switch_data"
    /\ \E ok \in BOOLEAN :
         Transfer(ok) /\ pc' = IF ok /\ card.hs THEN "48_MHz" ELSE "CMD16"

Clock48 ==
    /\ pc = "48_MHz" /\ pc' = "CMD16"
    /\ clk' = 48
    /\ UNCHANGED <<hcs, high_capacity, scr_valid, width, media, i>> /\ Local

\* The block size, and the card's geometry.
SetBlockSize ==
    /\ pc = "CMD16" /\ pc' = "scan"
    /\ \E ok \in BOOLEAN :
         /\ mmc_send_cmd("CMD16_512", ok)
         /\ media' = IF ok THEN mmc_decode_csd(kind) ELSE media
    /\ UNCHANGED <<kind, up, hcs, high_capacity, scr_valid, clk, width, i,
                   readVars, garbled>>

-----------------------------------------------------------------------------
(* Reading blocks.                                                         *)

\* The block that the card takes the driver to ask for when it asks for block b.
\* The address in the command counts blocks if the card has high capacity and
\* bytes if not, and the driver may be wrong about that.
CardBlock(b) ==
    IF high_capacity = kind.hc THEN b
    ELSE IF kind.hc THEN b * BLOCK_SIZE ELSE b \div BLOCK_SIZE

\* Where read_a_block can get block b: the card is selected, its blocks have 512
\* bytes, and the address is that of one of them.
Readable(b) ==
    /\ Accepts("CMD17") /\ LinesAgree
    /\ kind.hc \/ card.blklen = 512
    /\ high_capacity /\ ~kind.hc => b % BLOCK_SIZE = 0
    /\ CardBlock(b) < kind.blocks * kind.bs

read_a_block(b, ok) ==
    /\ ok => Readable(b)
    /\ fault' = (fault \/ (~ok /\ Readable(b)))
    /\ UNCHANGED garbled

\* The search of SdCardInitialize, which does not look at the result of
\* SdCardInit.
\* Mutants: any card is published; a block that cannot be read is read again;
\* one block too many is searched.
ScanPublishesAny ==
    /\ pc = "scan"
    /\ \E ok \in BOOLEAN :
         /\ read_a_block(i, ok)
         /\ pc' = "idle" /\ UNCHANGED i
    /\ UNCHANGED <<cardVars, hcs, high_capacity, scr_valid, clk, width, media,
                   readVars>>

ScanRetries ==
    /\ pc = "scan"
    /\ \E ok \in BOOLEAN :
         /\ read_a_block(i, ok)
         /\ \/ ok /\ CardBlock(i) = kind.mbr /\ pc' = "idle" /\ UNCHANGED i
            \/ ~ok /\ UNCHANGED <<i, pc>>
            \/ /\ ok /\ CardBlock(i) # kind.mbr /\ i < MaxScan /\ i < media.LastBlock
               /\ i' = i + 1 /\ UNCHANGED pc
            \/ /\ ok /\ CardBlock(i) # kind.mbr /\ (i = MaxScan \/ i >= media.LastBlock)
               /\ pc' = "CpuDeadLoop" /\ UNCHANGED i
    /\ UNCHANGED <<cardVars, hcs, high_capacity, scr_valid, clk, width, media,
                   readVars>>

ScanOneMore ==
    /\ pc = "scan"
    /\ \E ok \in BOOLEAN :
         /\ read_a_block(i, ok)
         /\ \/ ok /\ CardBlock(i) = kind.mbr /\ pc' = "idle" /\ UNCHANGED i
            \/ /\ ~(ok /\ CardBlock(i) = kind.mbr) /\ i <= MaxScan /\ i < media.LastBlock
               /\ i' = i + 1 /\ UNCHANGED pc
            \/ /\ ~(ok /\ CardBlock(i) = kind.mbr) /\ (i > MaxScan \/ i >= media.LastBlock)
               /\ pc' = "CpuDeadLoop" /\ UNCHANGED i
    /\ UNCHANGED <<cardVars, hcs, high_capacity, scr_valid, clk, width, media,
                   readVars>>

Scan ==
    /\ pc = "scan"
    /\ \E ok \in BOOLEAN :
         /\ read_a_block(i, ok)
         /\ \/ ok /\ CardBlock(i) = kind.mbr /\ pc' = "idle" /\ UNCHANGED i
            \/ /\ ~(ok /\ CardBlock(i) = kind.mbr) /\ i < MaxScan /\ i < media.LastBlock
               /\ i' = i + 1 /\ UNCHANGED pc
            \/ /\ ~(ok /\ CardBlock(i) = kind.mbr) /\ (i = MaxScan \/ i >= media.LastBlock)
               /\ pc' = "CpuDeadLoop" /\ UNCHANGED i
    /\ UNCHANGED <<cardVars, hcs, high_capacity, scr_valid, clk, width, media,
                   readVars>>

\* MMCHSReadBlocks: the byte address is cut to 32 bits.
MMCHSReadBlocks ==
    /\ pc = "idle"
    /\ \E l \in Lbas, n \in 1 .. MaxRead :
         /\ n % media.bs = 0
         /\ lba' = l /\ addr' = l % AddrBlocks
         /\ off' = 0 /\ len' = n
         /\ buf' = [b \in 1 .. n |-> None]
         /\ status' = None
    /\ pc' = "read"
    /\ UNCHANGED <<cardVars, initVars, history>>

\* The loop of MmcReadInternal: mmc_bread reads 512 bytes for each block.
\* Mutant: the next block goes to the start of the buffer.
ReadToStart ==
    /\ pc = "read" /\ len > media.bs
    /\ read_a_block(addr \div media.bs, TRUE)
    /\ buf' = [buf EXCEPT ![1] = CardBlock(addr \div media.bs)]
    /\ off' = off + media.bs
    /\ addr' = (addr + media.bs) % AddrBlocks
    /\ len' = len - media.bs
    /\ UNCHANGED <<cardVars, pc, initVars, lba, status>>

ReadNext ==
    /\ pc = "read" /\ len > media.bs
    /\ read_a_block(addr \div media.bs, TRUE)
    /\ buf' = [buf EXCEPT ![off + 1] = CardBlock(addr \div media.bs)]
    /\ off' = off + media.bs
    /\ addr' = (addr + media.bs) % AddrBlocks
    /\ len' = len - media.bs
    /\ UNCHANGED <<cardVars, pc, initVars, lba, status>>

ReadFails ==
    /\ pc = "read" /\ len > media.bs
    /\ read_a_block(addr \div media.bs, FALSE)
    /\ pc' = "idle" /\ status' = "EFI_DEVICE_ERROR"
    /\ UNCHANGED <<cardVars, initVars, lba, addr, off, len, buf>>

\* The last block: MmcReadInternal returns 1 in either case.
ReadLast ==
    /\ pc = "read" /\ len <= media.bs
    /\ \E ok \in BOOLEAN :
         /\ read_a_block(addr \div media.bs, ok)
         /\ buf' = IF ok THEN [buf EXCEPT ![off + 1] = CardBlock(addr \div media.bs)] ELSE buf
    /\ pc' = "idle" /\ status' = "EFI_SUCCESS"
    /\ UNCHANGED <<cardVars, initVars, lba, addr, off, len>>

-----------------------------------------------------------------------------
(* The driver, and the card next to it.                                    *)

Driver ==
    \/ SdCardInitialize \/ SDCn_init \/ GoIdle \/ SendIfCond \/ SendOpCond
    \/ CardIdentification \/ CardTransfer
    \/ ReadScr \/ ScrData \/ FourBitMode
    \/ ReadSdStatus \/ StatusData \/ Clock25
    \/ SwitchMode \/ CheckData \/ SwitchData \/ Clock48
    \/ SetBlockSize \/ Scan
    \/ MMCHSReadBlocks \/ ReadNext \/ ReadFails \/ ReadLast

Next == Driver \/ CardPowersUp

Spec == Init /\ [][Next]_vars

\* The processor keeps running the driver, and a card powers up in the end.
FairSpec == Spec /\ WF_vars(Driver) /\ WF_vars(CardPowersUp)

-----------------------------------------------------------------------------
(* Properties.                                                             *)

InitDone == {"scan", "idle", "read", "CpuDeadLoop"}
Published == {"idle", "read"}

TypeOK ==
    /\ kind \in Cards /\ up \in BOOLEAN
    /\ card.state \in {"idle", "ready", "ident", "stby", "tran"}
    /\ card.blklen \in {8, 64, 512} /\ card.width \in {1, 4}
    /\ {card.app, card.hs, hcs, high_capacity, scr_valid, fault, garbled}
         \subseteq BOOLEAN
    /\ clk \in {0, 400, 25, 48} /\ width \in {1, 4}
    /\ media.bs \in Nat \ {0} /\ media.LastBlock \in Nat
    /\ i \in 0 .. MaxScan
    /\ lba \in Lbas \union {0} /\ addr \in 0 .. AddrBlocks - 1
    /\ off \in 0 .. MaxRead /\ len \in 0 .. MaxRead
    /\ DOMAIN buf \subseteq 1 .. MaxRead
    /\ status \in {None, "EFI_SUCCESS", "EFI_DEVICE_ERROR"}

\* SdCardInitialize does not look at what SdCardInit returned, and still only
\* a card that can be read is published: it is selected, both ends agree about
\* the lines, the speed and the block length, and unless the answer to ACMD41 was
\* damaged, about what an address counts.
PublishedIsReadable ==
    pc \in Published =>
      /\ card.state = "tran" /\ LinesAgree
      /\ kind.hc \/ card.blklen = 512
      /\ garbled \/ high_capacity = kind.hc

\* The controller is never ahead of the card: no fast clock before the card is
\* identified or without high speed, no wide bus before the card has switched.
ControllerFollowsCard ==
    /\ card.state \in {"idle", "ready", "ident"} => clk \in {0, 400}
    /\ clk = 48 => card.hs
    /\ width = 4 => card.width = 4

\* Every card is initialized when nothing fails: each command finds the card
\* in the state that it needs, the geometry of the card is published, unless the
\* card has high capacity and more blocks than 16 bits of C_SIZE can count, and an
\* MBR in the searched blocks is found.
InitSucceeds ==
    ~fault =>
      /\ pc \in InitDone =>
           /\ media.bs = kind.bs
           /\ ~kind.hc \/ kind.blocks <= CsdBlocks => media.LastBlock = kind.blocks
      /\ pc # "hang"
      /\ pc = "CpuDeadLoop" => kind.mbr = None \/ kind.mbr > MaxScan

\* What a read brings lies where it belongs, for blocks of 512 bytes that a
\* 32-bit byte address reaches, unless the answer to ACMD41 was damaged; and a
\* read that succeeds has brought every block but perhaps the last.
ReadsInPlace ==
    media.bs = 1 =>
      /\ ~garbled =>
           \A b \in DOMAIN buf :
             buf[b] # None /\ lba + b - 1 < AddrBlocks => buf[b] = lba + b - 1
      /\ status = "EFI_SUCCESS" => \A b \in 1 .. Len(buf) - 1 : buf[b] # None

\* "Lba: The starting Logical Block Address to read from", and "EFI_SUCCESS: The
\* data was read correctly from the device."
SuccessMeansRead ==
    status = "EFI_SUCCESS" =>
        \A b \in DOMAIN buf : buf[b] = lba * media.bs + b - 1

\* The initialization ends: the card is published, or the driver stops for
\* want of a card, of an MBR or of SCR data.  The exception is a high capacity
\* card that was not offered support, since its answer to CMD8 was lost: the
\* ACMD41 loop has no limit.
InitEnds ==
    \/ <>(pc \in Published \union {"no_card", "CpuDeadLoop", "hang"})
    \/ <>[](kind.hc /\ ~hcs)

=============================================================================
