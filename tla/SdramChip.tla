------------------------------ MODULE SdramChip ------------------------------
(***************************************************************************)
(* The SDRAM device that RTL/Memory/sdram.vhd drives: burst length 8, CAS  *)
(* latency 3, burst writes (the mode register value sdram.vhd loads).  The *)
(* device is not part of the repository; it is modelled from the commands  *)
(* the controller issues and the cycle in which it samples the answer.     *)
(*                                                                         *)
(* Every bank is idle, open, bursting a read (with auto-precharge),        *)
(* accepting a write burst, or closing; t counts clock edges.              *)
(***************************************************************************)
EXTENDS Integers

CONSTANTS
    Line,      \* cache lines: addresses without their low four bits
    Bank,      \* the banks of the device
    BankOf,    \* BankOf[l]: the bank a line lies in (address bits 5..4)
    Word,      \* the word offsets of a line whose content is tracked
    Byte,      \* the values a byte can hold
    TRCD,      \* clocks from ACTIVE to READ or WRITE
    TRP        \* clocks from (auto-)PRECHARGE to the next ACTIVE

Offset == 0 .. 7
Lane == {"U", "L"}

ASSUME ChipAssumption ==
    /\ BankOf \in [Line -> Bank]
    /\ Line # {}
    /\ Word \subseteq Offset
    /\ Byte # {}
    /\ TRCD \in 1 .. 3
    /\ TRP \in 2 .. 3

CONSTANTS
    ZeroByte,  \* what an untracked byte reads as
    Ram0       \* content of the tracked words at power-up
ASSUME ContentAssumption ==
    /\ ZeroByte \in Byte
    /\ Ram0 \in [Line -> [Word -> [Lane -> Byte]]]

VARIABLES
    bank,      \* state of every bank
    ram        \* ram[l][w][lane]: the content of the device

chipVars == <<bank, ram>>

WordValue == [Lane -> Byte]
ZeroWord == [lane \in Lane |-> ZeroByte]

BankState ==
    [st : {"idle", "open", "reading", "writing", "closing"},
     t : 0 .. 11, line : Line, col : Offset]
At(s, t, l, c) == [st |-> s, t |-> t, line |-> l, col |-> c]

\* The pins of the device as registered by the controller: command and
\* address, and mask and data.
Command == [op : {"NOP", "ACT", "READ", "WRITE", "PRE", "PREALL", "REF", "LMR"},
            ba : Bank, line : Line, col : Offset]
DataPins == [dqm : SUBSET Lane, drive : BOOLEAN, data : WordValue]

AnyLine == CHOOSE l \in Line : TRUE

ChipInit ==
    /\ bank = [b \in Bank |-> At("idle", 0, AnyLine, 0)]
    /\ ram = Ram0

\* The beat a bank puts on the data bus before the coming clock edge.
Outputs(b) == bank[b].st = "reading" /\ bank[b].t - TRP \in -1 .. 6
BeatOf(b) == (bank[b].col + 6 + TRP - bank[b].t) % 8
Content(l, w) == IF w \in Word THEN ram[l][w] ELSE ZeroWord

\* What one clock edge does to a bank in state k that is given no command.
Elapse(k) ==
    CASE k.st = "writing" /\ k.t < 8 -> At("writing", k.t + 1, k.line, k.col)
      [] k.st = "open" /\ k.t > 0 -> At("open", k.t - 1, k.line, k.col)
      [] k.st \in {"reading", "closing"} ->
           IF k.t > 1 THEN At(k.st, k.t - 1, k.line, k.col) ELSE At("idle", 0, k.line, k.col)
      [] OTHER -> k

\* What it does to a bank in state k when it is given command c.
Obey(k, c) ==
    CASE c.op = "ACT" -> At("open", TRCD - 1, c.line, k.col)
      [] c.op = "READ" -> At("reading", 8 + TRP, k.line, c.col)
      [] c.op = "WRITE" -> At("writing", 1, k.line, c.col)
      [] c.op \in {"PRE", "PREALL"} -> At("closing", TRP, k.line, k.col)
      [] OTHER -> Elapse(k)

NextBank(b, c) ==
    IF c.ba = b \/ c.op = "PREALL" THEN Obey(bank[b], c) ELSE Elapse(bank[b])

\* The device stores a beat at offset w of bank b's open line on this edge:
\* the first one with the WRITE command, the others on the edges after it
\* until the burst is over or a PRECHARGE ends it.
WritesTo(b, c, w) ==
    \/ c.op = "WRITE" /\ c.ba = b /\ w = c.col
    \/ /\ bank[b].st = "writing"
       /\ ~(c.op \in {"PRE", "WRITE"} /\ c.ba = b) /\ c.op # "PREALL"
       /\ bank[b].t < 8
       /\ w = (bank[b].col + bank[b].t) % 8

\* One clock edge with command c and data pins d.
ChipTick(c, d) ==
    /\ bank' = [b \in Bank |-> NextBank(b, c)]
    /\ ram' = [l \in Line |-> [w \in Word |->
                 IF bank[BankOf[l]].line = l /\ WritesTo(BankOf[l], c, w)
                 THEN [lane \in Lane |-> IF lane \in d.dqm THEN ram[l][w][lane]
                                         ELSE d.data[lane]]
                 ELSE ram[l][w]]]

-----------------------------------------------------------------------------
\* The device is idle as a whole: REFRESH and LOAD MODE are only legal then.
AllIdle == \A b \in Bank : bank[b].st = "idle"

\* A command c is one the device may be given in its present state.
Legal(c) ==
    CASE c.op = "ACT" -> bank[c.ba].st = "idle" /\ BankOf[c.line] = c.ba
      [] c.op \in {"READ", "WRITE"} ->
           bank[c.ba].st = "open" /\ bank[c.ba].t = 0 /\ bank[c.ba].line = c.line
      [] c.op = "PRE" -> bank[c.ba].st = "writing"
      [] c.op \in {"REF", "LMR"} -> AllIdle
      [] OTHER -> TRUE

\* At most one bank drives the data bus, none does while the controller drives
\* it, and a write beat that is not masked is always driven.
BusFree(c, d) ==
    /\ \A a, b \in Bank : Outputs(a) /\ Outputs(b) => a = b
    /\ d.drive => \A b \in Bank : ~Outputs(b)
    /\ \A b \in Bank, w \in Offset : WritesTo(b, c, w) => d.drive \/ d.dqm = Lane

=============================================================================
