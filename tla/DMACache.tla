------------------------------ MODULE DMACache ------------------------------
(***************************************************************************)
(* RTL/Memory/DMACache.vhd with its FIFO_Counters and block RAM: the DMA   *)
(* engine between the SDRAM's port 0 and the video, sprite and sound       *)
(* channels.  Each channel has a FIFO of Depth words that is filled in     *)
(* bursts of eight by one state machine, lowest channel first, and emptied *)
(* word by word on request of its host, lowest channel first again.        *)
(*                                                                         *)
(* Addresses count words; a burst is eight words at a multiple of eight.   *)
(* DmaTick is one clock edge, given what the hosts and the SDRAM           *)
(* controller show before it.                                              *)
(***************************************************************************)
EXTENDS Integers

CONSTANTS
    Channel,     \* 0 .. DMACache_MaxChannel
    Depth,       \* words in a channel's FIFO, 2^(DMACache_MaxCacheBit + 1)
    Memory,      \* words of memory; addresses wrap
    MaxLen       \* longest transfer a host asks for
ASSUME DmaAssumption ==
    /\ Channel \subseteq Nat /\ Channel # {}
    /\ Depth \in Nat /\ Depth >= 16 /\ Depth % 8 = 0
    /\ Memory \in Nat \ {0} /\ Memory % 8 = 0
    /\ MaxLen \in Nat

VARIABLES
    inputstate,        \* rd1, or n for rcvn
    activechannel,
    sdram_req,
    cache_wren, cache_wraddr, data_from_ram,    \* registered write port of the block RAM
    cache_rdaddr,                               \* its read address
    ram,               \* the block RAM: per channel, the memory word held by each slot
    internals,         \* the channels' registers
    counter,           \* their FIFO_Counters
    valid              \* channels_to_host

dmaVars == <<inputstate, activechannel, sdram_req, cache_wren, cache_wraddr, data_from_ram,
             cache_rdaddr, ram, internals, counter, valid>>

rd1 == 0
Address == 0 .. Memory - 1
Slot == 0 .. Depth - 1
\* What a channel's host drives: channels_from_host.
FromHost == [setaddr : BOOLEAN, addr : Address, setreqlen : BOOLEAN, reqlen : 0 .. MaxLen,
             req : BOOLEAN]

First(S) == CHOOSE c \in S : \A d \in S : c <= d

-----------------------------------------------------------------------------
(* FIFO_Counter: it counts from 1, not from 0.                             *)

\* Mutant: it counts from 0.
CounterReset_zero == 0
CounterReset == 1

Full(c) == counter[c] >= Depth - 8
Empty(c) == counter[c] = 0

Counted(c, host) ==
    IF host[c].setaddr THEN CounterReset
    ELSE (counter[c] + (IF internals[c].fill THEN 1 ELSE 0)
                     - (IF internals[c].drain THEN 1 ELSE 0)) % (2 * Depth)

-----------------------------------------------------------------------------
(* Filling.                                                                *)

Wants(c) == ~Full(c) /\ internals[c].count > 0

\* A word arrives: the first strobe of a burst is waited for, the other seven
\* words are taken on the following clocks.
Receives(fill) == inputstate > 1 \/ (inputstate = 1 /\ fill)

\* The next burst is asked for when idle or with the last word of this one.
Decides == inputstate \in {rd1, 8}
Chosen == {c \in Channel : Wants(c)}

InputState(ack, nak, fill) ==
    /\ inputstate' = IF Decides THEN IF Chosen # {} THEN 1 ELSE rd1
                     ELSE IF Receives(fill) THEN inputstate + 1
                     ELSE IF nak THEN rd1 ELSE 1
    /\ activechannel' = IF Decides /\ Chosen # {} THEN First(Chosen) ELSE activechannel
    /\ sdram_req' = IF Decides /\ Chosen # {} THEN TRUE
                    ELSE sdram_req /\ ~ack /\ ~(inputstate = 1 /\ nak)

\* Mutant: the write port takes the pointer without the register, a clock
\* early for the last word of a burst.
WriteBlock_unregistered ==
    [chan |-> activechannel, block |-> IF inputstate = 8 THEN internals[activechannel].wrptr_next
                                       ELSE internals[activechannel].wrptr]
WriteBlock == [chan |-> activechannel, block |-> internals[activechannel].wrptr]

WritePort(fill, data) ==
    /\ cache_wren' = Receives(fill)
    /\ data_from_ram' = IF Receives(fill) THEN data ELSE data_from_ram
    /\ cache_wraddr' = [chan |-> WriteBlock.chan, block |-> WriteBlock.block,
                        lsb |-> IF Receives(fill) THEN inputstate - 1 ELSE cache_wraddr.lsb]
    /\ ram' = IF cache_wren
              THEN [ram EXCEPT ![cache_wraddr.chan][cache_wraddr.block + cache_wraddr.lsb] =
                        data_from_ram]
              ELSE ram

-----------------------------------------------------------------------------
(* Serving: one request per clock, from the FIFO of the lowest channel     *)
(* that has one pending.                                                   *)

Serviceable == {c \in Channel : internals[c].pending /\ ~Empty(c)}
Served(c) == Serviceable # {} /\ c = First(Serviceable)

ReadPort ==
    /\ cache_rdaddr' = IF Serviceable # {}
                       THEN LET c == First(Serviceable)
                            IN  [chan |-> c, slot |-> internals[c].rdptr]
                       ELSE cache_rdaddr
    /\ valid' = [c \in Channel |-> Served(c)]

data_out == ram[cache_rdaddr.chan][cache_rdaddr.slot]

-----------------------------------------------------------------------------
(* The channels' registers.  A new address is set after everything else    *)
(* has had its say, a new length after that; whether a length needs an     *)
(* extra burst is read off the address register as it was before.          *)

Pending(c, h) == (internals[c].pending \/ h.req) /\ ~Served(c) /\ ~h.setaddr

Advanced(c, ack) == ack /\ c = activechannel
Finished(c) == inputstate = 8 /\ c = activechannel

\* Mutant: a burst counts for its bytes, not its words.
Remaining_bytes(c, h, ack) ==
    IF h.setreqlen THEN h.reqlen
    ELSE IF h.setaddr THEN 0
    ELSE IF Advanced(c, ack) /\ ~internals[c].extend THEN internals[c].count - 16
    ELSE internals[c].count
Remaining(c, h, ack) ==
    IF h.setreqlen THEN h.reqlen
    ELSE IF h.setaddr THEN 0
    ELSE IF Advanced(c, ack) /\ ~internals[c].extend THEN internals[c].count - 8
    ELSE internals[c].count

NextBlock(slot) == (slot + 8) % Depth

Registers(c, h, ack, fill) ==
    LET i == internals[c]
    IN  [addr |-> IF h.setaddr THEN h.addr
                  ELSE IF Advanced(c, ack) THEN (i.addr + 8) % Memory ELSE i.addr,
         count |-> Remaining(c, h, ack),
         extend |-> IF h.setreqlen THEN i.addr % 4 # 0 ELSE i.extend /\ ~Advanced(c, ack),
         wrptr |-> IF h.setaddr THEN 0 ELSE IF Finished(c) THEN i.wrptr_next ELSE i.wrptr,
         wrptr_next |-> IF h.setaddr THEN 8
                        ELSE IF Finished(c) THEN NextBlock(i.wrptr_next) ELSE i.wrptr_next,
         rdptr |-> IF h.setaddr THEN h.addr % 8
                   ELSE IF Served(c) THEN (i.rdptr + 1) % Depth ELSE i.rdptr,
         pending |-> Pending(c, h),
         fill |-> Receives(fill) /\ c = activechannel,
         drain |-> Served(c)]

DmaTick(host, ack, nak, fill, data) ==
    /\ InputState(ack, nak, fill)
    /\ WritePort(fill, data)
    /\ ReadPort
    /\ internals' = [c \in Channel |-> Registers(c, host[c], ack, fill)]
    /\ counter' = [c \in Channel |-> Counted(c, host)]

DmaInit ==
    /\ inputstate = rd1 /\ activechannel = First(Channel) /\ sdram_req = FALSE
    /\ cache_wren = FALSE /\ cache_wraddr = [chan |-> First(Channel), block |-> 0, lsb |-> 0]
    /\ data_from_ram = 0
    /\ cache_rdaddr = [chan |-> First(Channel), slot |-> 0]
    /\ ram = [c \in Channel |-> [s \in Slot |-> 0]]
    /\ internals = [c \in Channel |-> [addr |-> 0, count |-> 0, extend |-> FALSE, wrptr |-> 0,
                       wrptr_next |-> 0, rdptr |-> 0, pending |-> FALSE, fill |-> FALSE,
                       drain |-> FALSE]]
    /\ counter = [c \in Channel |-> 0]
    /\ valid = [c \in Channel |-> FALSE]

Internal == [addr : Address, count : -8 .. MaxLen, extend : BOOLEAN, wrptr : Slot,
             wrptr_next : Slot, rdptr : Slot, pending : BOOLEAN, fill : BOOLEAN, drain : BOOLEAN]
DmaTypeOK ==
    /\ inputstate \in 0 .. 8 /\ activechannel \in Channel /\ sdram_req \in BOOLEAN
    /\ cache_wren \in BOOLEAN /\ data_from_ram \in Address
    /\ cache_wraddr \in [chan : Channel, block : Slot, lsb : 0 .. 7]
    /\ cache_rdaddr \in [chan : Channel, slot : Slot]
    /\ ram \in [Channel -> [Slot -> Address]]
    /\ internals \in [Channel -> Internal]
    /\ counter \in [Channel -> 0 .. 2 * Depth - 1]
    /\ valid \in [Channel -> BOOLEAN]

=============================================================================
