-------------------------------- MODULE SdCard --------------------------------
(***************************************************************************)
(* Firmware_Common/spi.c: bringing up the card, and reading a sector.  The *)
(* card itself is external: version 1 and 2 cards address bytes, high      *)
(* capacity cards ("hc") sectors.  The transfer of a sector is one step;   *)
(* nothing else uses the interface meanwhile.                              *)
(***************************************************************************)
EXTENDS Naturals

CONSTANTS
    Kinds,       \* subset of {"v1", "v2", "hc"}: cards that may be inserted
    Unanswered,  \* [Kinds -> commands that may go without an answer]
    Resets, Inits, V2Inits, Rounds    \* 8, 20, 20000 and 50: starts of the counters

\* A high capacity card that is ready answers CMD58; else it would be addressed
\* in bytes.
ASSUME SdCardAssumption ==
    /\ Unanswered \in [Kinds -> SUBSET {"CMD0", "CMD8", "CMD58"}]
    /\ "hc" \in Kinds => "CMD58" \notin Unanswered["hc"]
    /\ Resets \in Nat /\ Resets > 2 /\ Rounds \in Nat /\ Rounds > 2
    /\ Inits \in Nat /\ Inits > 1 /\ V2Inits \in Nat /\ V2Inits > 1

VARIABLES
    kind, card, blocklen,   \* the card: what it is, its state, its block length
    SDHCtype,               \* the driver takes it to address sectors
    drv                     \* where spi_init is: step, outer and inner counter

sdVars == <<kind, card, blocklen, SDHCtype, drv>>

At(pc, i, n) == [pc |-> pc, i |-> i, n |-> n]

SdInit ==
    /\ kind \in Kinds /\ card = "native"
    /\ blocklen \in (IF kind = "hc" THEN {512} ELSE {512, 1024})
    /\ SDHCtype = TRUE /\ drv = At("reset", Resets - 1, 0)

MayIgnore(command) == command \in Unanswered[kind]

\* while(--i): tries until the last but one has failed.
Reset ==
    /\ drv.pc = "reset"
    /\ \/ card' = "idle" /\ drv' = At("cmd8", 0, 0)
       \/ /\ MayIgnore("CMD0") /\ card' = card
          /\ drv' = IF drv.i = 2 THEN At("failed", 0, 0) ELSE [drv EXCEPT !.i = @ - 1]
    /\ UNCHANGED <<kind, blocklen, SDHCtype>>

Cmd8 ==
    /\ drv.pc = "cmd8"
    /\ \/ kind # "v1" /\ drv' = At("initV2", Rounds - 1, V2Inits - 1)
       \/ (kind = "v1" \/ MayIgnore("CMD8")) /\ drv' = At("init", 0, Inits - 1)
    /\ UNCHANGED <<kind, card, blocklen, SDHCtype>>

\* is_sdhc returns; its answer is stored before CMD16 is sent.
\* Mutant: CMD16 is sent with SDHCtype still set.
Answer_late(hc) == SDHCtype' = SDHCtype /\ drv' = At(IF hc THEN "done" ELSE "cmd16", 0, 0)
Answer(hc) == SDHCtype' = hc /\ drv' = At(IF hc THEN "done" ELSE "cmd16", 0, 0)

\* wait_init: CMD1 until the card is ready or the tries are used up; the
\* callers do not look which.
WaitInit ==
    /\ drv.pc = "init"
    /\ \/ kind # "hc" /\ card' = "ready" /\ Answer(FALSE)
       \/ /\ card' = card
          /\ IF drv.n = 1 THEN Answer(FALSE)
             ELSE drv' = [drv EXCEPT !.n = @ - 1] /\ SDHCtype' = SDHCtype
    /\ UNCHANGED <<kind, blocklen>>

\* The outer loop gives up at 2.
NextRound ==
    IF drv.i = 2 THEN Answer(FALSE)
    ELSE drv' = At("initV2", drv.i - 1, V2Inits - 1) /\ SDHCtype' = SDHCtype

\* One try of wait_initV2.  CMD55 must answer 1, which a card that is ready
\* does not.
WaitInitV2 ==
    /\ drv.pc = "initV2"
    /\ \/ card = "idle" /\ card' = "ready" /\ drv' = [drv EXCEPT !.pc = "cmd58"] /\ SDHCtype' = SDHCtype
       \/ /\ card' = card
          /\ IF drv.n = 1 THEN NextRound ELSE drv' = [drv EXCEPT !.n = @ - 1] /\ SDHCtype' = SDHCtype
    /\ UNCHANGED <<kind, blocklen>>

Cmd58 ==
    /\ drv.pc = "cmd58"
    /\ Answer(kind = "hc") \/ (MayIgnore("CMD58") /\ NextRound)
    /\ UNCHANGED <<kind, card, blocklen>>

\* cmd_write shifts its argument by nine bits for a card that counts bytes.
Argument(n) == IF SDHCtype THEN n ELSE n * 512
Cmd16 ==
    /\ drv.pc = "cmd16"
    /\ blocklen' = IF kind = "hc" THEN blocklen ELSE Argument(1)
    /\ drv' = At("done", 0, 0)
    /\ UNCHANGED <<kind, card, SDHCtype>>

SpiInit == Reset \/ Cmd8 \/ WaitInit \/ WaitInitV2 \/ Cmd58 \/ Cmd16

\* The sector a card finds at the address it is given, with the block length
\* it has; Other is a sector nobody asked for.
Other == 1000000
SectorAt(address) ==
    IF kind = "hc" THEN address
    ELSE IF blocklen = 512 /\ address % 512 = 0 THEN address \div 512 ELSE Other

\* What sd_read_sector may put in the buffer and return 1 with.  It may as
\* well return 0, with the buffer as it was.
Delivered(lba) == IF card = "ready" THEN {SectorAt(Argument(lba))} ELSE {}

\* spi_init has returned 1.
sdcard_present == drv.pc = "done"

-----------------------------------------------------------------------------
SdTypeOK ==
    /\ kind \in Kinds /\ card \in {"native", "idle", "ready"} /\ blocklen \in {1, 512, 1024}
    /\ SDHCtype \in BOOLEAN
    /\ drv \in [pc : {"reset", "cmd8", "init", "initV2", "cmd58", "cmd16", "failed", "done"},
                i : 0 .. Resets + Rounds, n : 0 .. Inits + V2Inits]

\* Whatever came of the retries, a read that succeeds delivers the sector that
\* was asked for: driver and card agree on the unit of addresses and the length
\* of a block, or else nothing can be read.
ReadsRightSector ==
    sdcard_present => \A lba \in 0 .. 3 : Delivered(lba) \subseteq {lba}

=============================================================================
