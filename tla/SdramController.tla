--------------------------- MODULE SdramController ---------------------------
(***************************************************************************)
(* RTL/Memory/sdram.vhd: the 16-phase SDRAM controller.  One round of      *)
(* sixteen clocks holds two overlapping access slots: slot 1 is opened in  *)
(* phase 2, slot 2 in phase 10, and each is still busy when the other one  *)
(* opens.  The CPU's writes are posted into a two-word write cache, which  *)
(* takes part in the arbitration as a port of its own.                     *)
(*                                                                         *)
(* All processes of the VHDL run on the same clock edge, so SdramTick is   *)
(* one step: it gives every register its value after the edge from the     *)
(* values before it.  Active-low dtack and "dqm bit = 0" are rendered as   *)
(* the fact they stand for.                                                *)
(***************************************************************************)
EXTENDS SdramChip

CONSTANT NoLine        \* "no request" on the VGA port, "no bank reserved"
ASSUME NoLineAssumption == NoLine \notin Line

VARIABLES
    sdram_state,       \* the phase, 0 .. 15
    initstate,         \* rounds counted before the RAM is usable
    init_done,
    slot1, slot2,      \* who owns each slot
    slot1_bank, slot2_bank,
    slot1_fill, slot2_fill,
    casaddr,           \* column address latched for the CAS command (both slots)
    refreshpending,
    vga_rsp,           \* vga_ack / vga_nak
    cmd, dq,           \* registered command, mask and data outputs
    sdata_reg,         \* registered data input
    wc_state, wc_addr, wc_word, wc_dqm, wc_req, wc_dirty, wc_dtack, wc_burst

phaseVars == <<sdram_state, initstate, init_done, slot1_fill, slot2_fill>>
slotVars == <<slot1, slot2, slot1_bank, slot2_bank, casaddr, refreshpending,
              vga_rsp, cmd, dq, wc_burst>>
wcVars == <<wc_state, wc_addr, wc_word, wc_dqm, wc_req, wc_dirty, wc_dtack>>
sdramVars == <<phaseVars, slotVars, wcVars, sdata_reg, chipVars>>

Port == {"idle", "refresh", "port0", "port1", "writecache"}

\* A bus cycle on port 1 as sdram.vhd sees it: req1, wr1, Addr1, wrU1/wrL1, datawr1.
Request == [op : {"idle", "read", "write"}, line : Line, word : Offset,
            lanes : SUBSET Lane, data : WordValue]

PairOf(rq) == [line |-> rq.line, pair |-> rq.word \div 2]
Half(rq) == rq.word % 2

\* Fill strobes: a slot's window of eight beats, routed to the slot's owner.
FillFor(port) == (slot1_fill /\ slot1 = port) \/ (slot2_fill /\ slot2 = port)
vga_fill == FillFor("port0")
readcache_fill == FillFor("port1")

-----------------------------------------------------------------------------
(* Write cache: one pair of words, merged until its write burst begins.    *)

\* Mutant: a write merges into whatever pair the cache holds.
wcAccepts_anyPair(rq) == wc_state = "waitwrite" /\ rq.op = "write"

wcAccepts(rq) ==
    /\ wc_state = "waitwrite"
    /\ rq.op = "write"
    /\ ~wc_dirty \/ wc_addr = PairOf(rq)

wcCloses == wc_state = "waitwrite" /\ wc_burst /\ wc_dirty
wcRetires == wc_state = "fill" /\ ~wc_burst

WriteCache(rq) ==
    LET accept == wcAccepts(rq)
    IN  /\ wc_dtack' = accept
        /\ wc_addr' = IF accept THEN PairOf(rq) ELSE wc_addr
        /\ wc_word' = IF accept
                      THEN [wc_word EXCEPT ![Half(rq)] =
                              [lane \in Lane |-> IF lane \in rq.lanes THEN rq.data[lane]
                                                 ELSE @[lane]]]
                      ELSE wc_word
        /\ wc_dqm' = IF wcRetires THEN [h \in 0 .. 1 |-> Lane]
                     ELSE IF accept THEN [wc_dqm EXCEPT ![Half(rq)] = @ \ rq.lanes]
                     ELSE wc_dqm
        /\ wc_req' = IF wcCloses THEN FALSE ELSE wc_req \/ accept
        /\ wc_dirty' = IF wcRetires THEN FALSE ELSE wc_dirty \/ accept
        /\ wc_state' = IF wcCloses THEN "fill"
                       ELSE IF wcRetires THEN "waitwrite" ELSE wc_state

-----------------------------------------------------------------------------
(* Phase counter and start-up: the last start-up round waits in phase 14   *)
(* for the video refresh pulse.                                            *)

\* Mutant: the round counter does not stop at its last round.
NextRound_unbounded == IF sdram_state = 14 THEN initstate + 1 ELSE initstate
NextRound == IF sdram_state = 14 /\ initstate # 15 THEN initstate + 1 ELSE initstate

\* The eight phases in which the words of one slot arrive.
\* Mutant: the strobes of a slot start a clock late.
FillWindow_late(opens, closes, fill) ==
    CASE sdram_state = opens + 1 -> TRUE [] sdram_state = closes -> FALSE [] OTHER -> fill
FillWindow(opens, closes, fill) ==
    CASE sdram_state = opens -> TRUE [] sdram_state = closes -> FALSE [] OTHER -> fill

Phases(refresh) ==
    LET waiting == sdram_state = 14 /\ initstate = 15 /\ ~init_done
        wake == waiting /\ refresh
    IN  /\ sdram_state' = IF wake THEN 0 ELSE IF waiting THEN 14 ELSE (sdram_state + 1) % 16
        /\ initstate' = NextRound
        /\ init_done' = (init_done \/ wake)
        /\ slot1_fill' = FillWindow(9, 1, slot1_fill)
        /\ slot2_fill' = FillWindow(1, 9, slot2_fill)

-----------------------------------------------------------------------------
(* Arbitration.                                                            *)

\* Mutant: the banks are not compared.
Clear_anyBank(line, slot, slotBank) == slot # "refresh"
Clear(line, slot, slotBank) == slot = "idle" \/ BankOf[line] # slotBank

\* Mutant: a read is preferred to the posted write.
Slot1Choice_readFirst(rq, rdreq, vga) ==
    IF refreshpending /\ slot2 = "idle" THEN "refresh"
    ELSE IF vga # NoLine
         THEN IF Clear(vga, slot2, slot2_bank) THEN "port0" ELSE "idle"
    ELSE IF rdreq /\ Clear(rq.line, slot2, slot2_bank) THEN "port1"
    ELSE IF wc_req /\ slot2 # "writecache" /\ Clear(wc_addr.line, slot2, slot2_bank)
         THEN "writecache"
    ELSE "idle"

Slot1Choice(rq, rdreq, vga) ==
    IF refreshpending /\ slot2 = "idle" THEN "refresh"
    ELSE IF vga # NoLine
         THEN IF Clear(vga, slot2, slot2_bank) THEN "port0" ELSE "idle"
    ELSE IF wc_req /\ slot2 # "writecache" /\ Clear(wc_addr.line, slot2, slot2_bank)
         THEN "writecache"
    ELSE IF rdreq /\ Clear(rq.line, slot2, slot2_bank) THEN "port1"
    ELSE "idle"

\* Mutant: the reservation is not looked at.
Unreserved_ignored(line, reserve) == TRUE
Unreserved(line, reserve) == reserve = NoLine \/ BankOf[line] # BankOf[reserve]

Slot2Grant(rq, rdreq, reserve) ==
    IF /\ wc_req /\ slot1 # "writecache"
       /\ Clear(wc_addr.line, slot1, slot1_bank) /\ Unreserved(wc_addr.line, reserve)
    THEN "writecache"
    ELSE IF rdreq /\ Clear(rq.line, slot1, slot1_bank) /\ Unreserved(rq.line, reserve)
         THEN "port1"
    ELSE "idle"

\* Mutants: slot 2 does not leave room for the refresh being made, or for the
\* one that is due.
Slot2Choice_duringRefresh(rq, rdreq, reserve) ==
    IF refreshpending THEN "idle" ELSE Slot2Grant(rq, rdreq, reserve)
Slot2Choice_beforeRefresh(rq, rdreq, reserve) ==
    IF slot1 = "refresh" THEN "idle" ELSE Slot2Grant(rq, rdreq, reserve)
Slot2Choice(rq, rdreq, reserve) ==
    IF refreshpending \/ slot1 = "refresh" THEN "idle" ELSE Slot2Grant(rq, rdreq, reserve)

\* Where the access granted to a port starts: a VGA burst at the start of its
\* line, a posted write at its pair, a CPU read at the word the CPU waits for.
Target(port, rq, vga) ==
    CASE port = "port0" -> [line |-> vga, col |-> 0]
      [] port = "writecache" -> [line |-> wc_addr.line, col |-> 2 * wc_addr.pair]
      [] port = "port1" -> [line |-> rq.line, col |-> rq.word]
      [] OTHER -> casaddr

Owned == {"port0", "port1", "writecache"}

\* Next owner of each slot; a slot is decided in its own phase only.
Grant1(rq, rdreq, vga) ==
    IF sdram_state = 2 THEN Slot1Choice(rq, rdreq, vga) ELSE slot1
Grant2(rq, rdreq, reserve) ==
    IF sdram_state = 10 THEN Slot2Choice(rq, rdreq, reserve) ELSE slot2

-----------------------------------------------------------------------------
(* What each phase puts on the pins.                                       *)

\* The address pins do not matter with NOP, REF, LMR and PREALL.
Bare(op) == [op |-> op, ba |-> BankOf[AnyLine], line |-> AnyLine, col |-> 0]
To(op, b, at) == [op |-> op, ba |-> b, line |-> at.line, col |-> at.col]
Nop == Bare("NOP")

\* The start-up sequence issues one command per round.
InitCommand ==
    CASE sdram_state = 2 /\ initstate = 2 -> Bare("PREALL")
      [] sdram_state = 2 /\ initstate \in 3 .. 12 -> Bare("REF")
      [] sdram_state = 2 /\ initstate = 13 -> Bare("LMR")
      [] OTHER -> Nop

\* Phases 2 and 10 open a slot for a port, at an address; the CAS and the end
\* of each slot's access follow in phases of their own.
SlotCommand(port, at) ==
    CASE sdram_state \in {2, 10} /\ port = "refresh" -> Bare("REF")
      [] sdram_state \in {2, 10} /\ port \in Owned -> To("ACT", BankOf[at.line], at)
      [] sdram_state = 5 /\ slot1 \in {"port0", "port1"} -> To("READ", slot1_bank, casaddr)
      [] sdram_state = 9 /\ slot1 = "writecache" -> To("WRITE", slot1_bank, casaddr)
      [] sdram_state = 12 /\ slot1 = "writecache" -> To("PRE", slot1_bank, casaddr)
      [] sdram_state = 13 /\ slot2 = "port1" -> To("READ", slot2_bank, casaddr)
      [] sdram_state = 1 /\ slot2 = "writecache" -> To("WRITE", slot2_bank, casaddr)
      [] sdram_state = 4 /\ slot2 = "writecache" -> To("PRE", slot2_bank, casaddr)
      [] OTHER -> Nop

\* A posted write sends its pair with and after the WRITE command (its second
\* word while the other slot is being opened), and masks the rest of the burst.
Release == [dqm |-> {}, drive |-> FALSE, data |-> ZeroWord]
Masked == [dqm |-> Lane, drive |-> FALSE, data |-> ZeroWord]
Drive(h) == [dqm |-> wc_dqm[h], drive |-> TRUE, data |-> wc_word[h]]

BeatPhases(p1, p2) == (slot1 = "writecache" /\ sdram_state \in p1)
                      \/ (slot2 = "writecache" /\ sdram_state \in p2)
\* Mutant: the rest of a write burst is not masked.
SlotData_unmasked ==
    CASE BeatPhases({9}, {1}) -> Drive(0)
      [] BeatPhases({10}, {2}) -> Drive(1)
      [] OTHER -> Release
SlotData ==
    CASE BeatPhases({9}, {1}) -> Drive(0)
      [] BeatPhases({10}, {2}) -> Drive(1)
      [] BeatPhases({11, 12}, {3, 4}) -> Masked
      [] OTHER -> Release

\* The write burst of a slot closes the write cache two phases before its
\* first word goes out and reopens it with the second.
Burst ==
    CASE BeatPhases({7}, {15}) -> TRUE
      [] BeatPhases({10}, {2}) -> FALSE
      [] OTHER -> wc_burst

Refreshes(refresh) ==
    refreshpending' = IF slot1 = "refresh" THEN FALSE ELSE refreshpending \/ refresh

Slots(rq, rdreq, vga, reserve, refresh) ==
    LET g1 == Grant1(rq, rdreq, vga)
        g2 == Grant2(rq, rdreq, reserve)
        opened == IF sdram_state = 2 THEN g1 ELSE g2
        to == Target(opened, rq, vga)
    IN  /\ Refreshes(refresh)
        /\ IF ~init_done
           THEN /\ cmd' = InitCommand /\ dq' = Release
                /\ UNCHANGED <<slot1, slot2, slot1_bank, slot2_bank, casaddr, vga_rsp, wc_burst>>
           ELSE /\ slot1' = g1
                /\ slot2' = g2
                /\ slot1_bank' = IF sdram_state = 2 /\ g1 \in Owned
                                 THEN BankOf[to.line] ELSE slot1_bank
                /\ slot2_bank' = IF sdram_state = 10 /\ g2 \in Owned
                                 THEN BankOf[to.line] ELSE slot2_bank
                /\ casaddr' = IF sdram_state \in {2, 10} THEN to ELSE casaddr
                /\ vga_rsp' = CASE sdram_state = 2 /\ g1 = "port0" -> "ack"
                                [] sdram_state = 2 /\ g1 \in {"writecache", "port1"} -> "nak"
                                [] OTHER -> "none"
                /\ cmd' = SlotCommand(opened, to) /\ dq' = SlotData
                /\ wc_burst' = Burst

-----------------------------------------------------------------------------
(* The data input is registered on every edge: sdata_reg and vga_data.     *)

NoBeat == [valid |-> FALSE, line |-> AnyLine, col |-> 0, data |-> ZeroWord]
Sample ==
    sdata_reg' =
        IF \E b \in Bank : Outputs(b)
        THEN LET b == CHOOSE c \in Bank : Outputs(c)
             IN  [valid |-> TRUE, line |-> bank[b].line, col |-> BeatOf(b),
                  data |-> Content(bank[b].line, BeatOf(b))]
        ELSE NoBeat

\* After reset.  Registers the reset leaves alone hold an arbitrary value that
\* nothing looks at before it is written.
SdramInit ==
    /\ ChipInit
    /\ sdram_state = 0 /\ initstate = 0 /\ init_done = FALSE
    /\ slot1 = "refresh" /\ slot2 = "idle"
    /\ slot1_bank = BankOf[AnyLine] /\ slot2_bank = BankOf[AnyLine]
    /\ slot1_fill = FALSE /\ slot2_fill = FALSE
    /\ casaddr = [line |-> AnyLine, col |-> 0]
    /\ refreshpending = FALSE /\ vga_rsp = "none"
    /\ cmd = Nop /\ dq = Release
    /\ sdata_reg = NoBeat
    /\ wc_state = "waitwrite"
    /\ wc_addr = [line |-> AnyLine, pair |-> 0]
    /\ wc_word = [h \in 0 .. 1 |-> ZeroWord] /\ wc_dqm = [h \in 0 .. 1 |-> Lane]
    /\ wc_req = FALSE /\ wc_dirty = FALSE /\ wc_dtack = FALSE /\ wc_burst = FALSE

\* One edge of sysclk.  rdreq is the read cache's request, vga the address of
\* the VGA port's request and reserve the bank it asks to be kept clear.
SdramTick(rq, rdreq, vga, reserve, refresh) ==
    /\ WriteCache(rq)
    /\ Phases(refresh)
    /\ Slots(rq, rdreq, vga, reserve, refresh)
    /\ Sample
    /\ ChipTick(cmd, dq)

SdramTypeOK ==
    /\ bank \in [Bank -> BankState]
    /\ ram \in [Line -> [Word -> WordValue]]
    /\ sdram_state \in 0 .. 15 /\ initstate \in 0 .. 15 /\ init_done \in BOOLEAN
    /\ slot1 \in Port /\ slot2 \in Port \ {"refresh", "port0"}
    /\ slot1_bank \in Bank /\ slot2_bank \in Bank
    /\ slot1_fill \in BOOLEAN /\ slot2_fill \in BOOLEAN
    /\ casaddr \in [line : Line, col : Offset]
    /\ refreshpending \in BOOLEAN /\ vga_rsp \in {"none", "ack", "nak"}
    /\ cmd \in Command /\ dq \in DataPins
    /\ sdata_reg \in [valid : BOOLEAN, line : Line, col : Offset, data : WordValue]
    /\ wc_state \in {"waitwrite", "fill"}
    /\ wc_addr \in [line : Line, pair : 0 .. 3]
    /\ wc_word \in [0 .. 1 -> WordValue] /\ wc_dqm \in [0 .. 1 -> SUBSET Lane]
    /\ wc_req \in BOOLEAN /\ wc_dirty \in BOOLEAN /\ wc_dtack \in BOOLEAN
    /\ wc_burst \in BOOLEAN

\* What a reader of the memory system must find: the device's content with
\* the bytes still held in the write cache laid over it.
Effective(l, w) ==
    [lane \in Lane |->
        IF wc_dirty /\ wc_addr = [line |-> l, pair |-> w \div 2] /\ lane \notin wc_dqm[w % 2]
        THEN wc_word[w % 2][lane] ELSE ram[l][w][lane]]

=============================================================================
