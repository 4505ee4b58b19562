------------------------ MODULE SdramTimeline_proofs ------------------------
(***************************************************************************)
(* Lemmas about the SDRAM controller, for any set of lines and banks, any  *)
(* device timing the assumptions allow and anything on its ports: an edge  *)
(* keeps its types and Timeline, and commands that are on time are legal   *)
(* and never share the data bus.                                           *)
(***************************************************************************)
EXTENDS SdramTimeline, TLAPS

LEMMA NextPhase == \A n \in 0 .. 15 : (n + 1) % 16 = IF n < 15 THEN n + 1 ELSE 0
  OBVIOUS

LEMMA NextBeat ==
    /\ \A n \in 0 .. 7 : n % 8 = n
    /\ \A n \in 0 .. 7 : (n + 1) % 8 = IF n < 7 THEN n + 1 ELSE 0
<1>1. \A n \in 0 .. 7 : n % 8 = n
  OBVIOUS
<1>2. \A n \in 0 .. 7 : (n + 1) % 8 = IF n < 7 THEN n + 1 ELSE 0
  OBVIOUS
<1> QED
  BY <1>1, <1>2

USE ChipAssumption, ContentAssumption, NoLineAssumption

-----------------------------------------------------------------------------
(* Types.                                                                  *)

LEMMA Defaults ==
    /\ AnyLine \in Line
    /\ \A l \in Line : BankOf[l] \in Bank
    /\ ZeroWord \in WordValue
  BY DEF AnyLine, ZeroWord, WordValue

\* An edge keeps the device's banks and content well typed.
LEMMA ChipType ==
    ASSUME SdramTypeOK, ChipTick(cmd, dq)
    PROVE  bank' \in [Bank -> BankState] /\ ram' \in [Line -> [Word -> WordValue]]
<1>1. ASSUME NEW b \in Bank
      PROVE  NextBank(b, cmd) \in BankState
  <2>1. bank[b] \in BankState /\ cmd \in Command
    BY DEF SdramTypeOK
  <2>2. Elapse(bank[b]) \in BankState
    BY <2>1 DEF Elapse, At, BankState
  <2>3. Obey(bank[b], cmd) \in BankState
    BY <2>1, <2>2 DEF Obey, At, BankState, Command
  <2> QED
    BY <2>2, <2>3 DEF NextBank
<1>2. bank' \in [Bank -> BankState]
  BY <1>1 DEF ChipTick
<1>3. ASSUME NEW l \in Line, NEW w \in Word, NEW lane \in Lane
      PROVE  ram[l][w][lane] \in Byte /\ dq.data[lane] \in Byte
  BY DEF SdramTypeOK, DataPins, WordValue
<1>4. ram' \in [Line -> [Word -> WordValue]]
  BY <1>3 DEF ChipTick, SdramTypeOK, WordValue
<1> QED
  BY <1>2, <1>4

LEMMA WriteCacheType ==
    ASSUME SdramTypeOK, NEW rq \in Request, WriteCache(rq)
    PROVE  /\ wc_state' \in {"waitwrite", "fill"}
           /\ wc_addr' \in [line : Line, pair : 0 .. 3]
           /\ wc_word' \in [0 .. 1 -> WordValue] /\ wc_dqm' \in [0 .. 1 -> SUBSET Lane]
           /\ wc_req' \in BOOLEAN /\ wc_dirty' \in BOOLEAN /\ wc_dtack' \in BOOLEAN
<1>1. Half(rq) \in 0 .. 1 /\ PairOf(rq) \in [line : Line, pair : 0 .. 3]
  BY DEF Request, Half, PairOf, Offset
<1>2. wcAccepts(rq) \in BOOLEAN
  BY DEF wcAccepts
<1>3. [lane \in Lane |-> IF lane \in rq.lanes THEN rq.data[lane] ELSE wc_word[Half(rq)][lane]]
        \in WordValue
  BY <1>1 DEF SdramTypeOK, Request, WordValue
<1>4. wc_word' \in [0 .. 1 -> WordValue]
  BY <1>1, <1>3 DEF SdramTypeOK, WriteCache
<1>5. wc_dqm' \in [0 .. 1 -> SUBSET Lane]
  BY <1>1 DEF SdramTypeOK, WriteCache
<1> QED
  BY <1>1, <1>2, <1>4, <1>5 DEF SdramTypeOK, WriteCache

LEMMA PhasesType ==
    ASSUME SdramTypeOK, NEW refresh \in BOOLEAN, Phases(refresh)
    PROVE  /\ sdram_state' \in 0 .. 15 /\ initstate' \in 0 .. 15 /\ init_done' \in BOOLEAN
           /\ slot1_fill' \in BOOLEAN /\ slot2_fill' \in BOOLEAN
<1>1. sdram_state \in 0 .. 15 /\ initstate \in 0 .. 15
  BY DEF SdramTypeOK
<1>2. (sdram_state + 1) % 16 \in 0 .. 15
  BY <1>1
<1>3. sdram_state' \in {0, 14, (sdram_state + 1) % 16} /\ initstate' \in 0 .. 15
  BY <1>1 DEF Phases, NextRound
<1>4. init_done' \in BOOLEAN /\ slot1_fill' \in BOOLEAN /\ slot2_fill' \in BOOLEAN
  BY DEF SdramTypeOK, Phases, FillWindow
<1> QED
  BY <1>2, <1>3, <1>4

\* Who may be granted a slot, and that only a port with a request is.
LEMMA GrantType ==
    ASSUME SdramTypeOK, NEW rq, NEW rdreq, NEW vga \in Line \union {NoLine}, NEW reserve
    PROVE  /\ Grant1(rq, rdreq, vga) \in Port
           /\ Grant2(rq, rdreq, reserve) \in Port \ {"refresh", "port0"}
           /\ sdram_state = 2 /\ Grant1(rq, rdreq, vga) = "port0" => vga \in Line
<1>1. Slot1Choice(rq, rdreq, vga) \in Port
  BY DEF Slot1Choice, Port
<1>2. Slot1Choice(rq, rdreq, vga) = "port0" => vga \in Line
  BY DEF Slot1Choice
<1>3. Slot2Choice(rq, rdreq, reserve) \in Port \ {"refresh", "port0"}
  BY DEF Slot2Choice, Slot2Grant, Port
<1>4. slot1 \in Port /\ slot2 \in Port \ {"refresh", "port0"}
  BY DEF SdramTypeOK
<1> QED
  BY <1>1, <1>2, <1>3, <1>4 DEF Grant1, Grant2

\* The address a slot is opened at.
LEMMA TargetType ==
    ASSUME SdramTypeOK, NEW rq \in Request, NEW vga, NEW port,
           port = "port0" => vga \in Line
    PROVE  Target(port, rq, vga) \in [line : Line, col : Offset]
<1>1. CASE port = "port0"
  BY <1>1 DEF Target, Offset
<1>2. CASE port = "port1"
  BY <1>2 DEF Target, Request
<1>3. CASE port = "writecache"
  <2>1. wc_addr.line \in Line /\ wc_addr.pair \in 0 .. 3
    BY DEF SdramTypeOK
  <2>2. 2 * wc_addr.pair \in Offset
    BY <2>1 DEF Offset
  <2> QED
    BY <1>3, <2>1, <2>2 DEF Target
<1>4. CASE port \notin Owned
  BY <1>4 DEF Target, SdramTypeOK, Owned
<1> QED
  BY <1>1, <1>2, <1>3, <1>4 DEF Owned

LEMMA CommandType ==
    ASSUME SdramTypeOK, NEW port, NEW at \in [line : Line, col : Offset]
    PROVE  /\ InitCommand \in Command
           /\ SlotCommand(port, at) \in Command
           /\ Release \in DataPins /\ SlotData \in DataPins
<1>1. \A op \in {"NOP", "REF", "LMR", "PREALL"} : Bare(op) \in Command
  BY Defaults DEF Bare, Command, Offset
<1>2. \A op \in {"ACT", "READ", "WRITE", "PRE"}, b \in Bank, to \in [line : Line, col : Offset] :
         To(op, b, to) \in Command
  BY DEF To, Command
<1>3. InitCommand \in Command
  BY <1>1 DEF InitCommand, Nop
<1>4. SlotCommand(port, at) \in Command
  <2>1. at.line \in Line
    OBVIOUS
  <2> QED
    BY <1>1, <1>2, <2>1, Defaults DEF SlotCommand, Nop, SdramTypeOK
<1>5. Release \in DataPins /\ Masked \in DataPins
  BY Defaults DEF Release, Masked, DataPins
<1>6. \A h \in 0 .. 1 : Drive(h) \in DataPins
  BY DEF Drive, DataPins, SdramTypeOK
<1>7. SlotData \in DataPins
  BY <1>5, <1>6 DEF SlotData
<1> QED
  BY <1>3, <1>4, <1>5, <1>7

LEMMA SlotsType ==
    ASSUME SdramTypeOK, NEW rq \in Request, NEW rdreq, NEW vga \in Line \union {NoLine},
           NEW reserve, NEW refresh \in BOOLEAN, Slots(rq, rdreq, vga, reserve, refresh)
    PROVE  /\ slot1' \in Port /\ slot2' \in Port \ {"refresh", "port0"}
           /\ slot1_bank' \in Bank /\ slot2_bank' \in Bank
           /\ casaddr' \in [line : Line, col : Offset]
           /\ refreshpending' \in BOOLEAN /\ vga_rsp' \in {"none", "ack", "nak"}
           /\ cmd' \in Command /\ dq' \in DataPins
           /\ wc_burst' \in BOOLEAN
<1> DEFINE g1 == Grant1(rq, rdreq, vga)
           g2 == Grant2(rq, rdreq, reserve)
           opened == IF sdram_state = 2 THEN g1 ELSE g2
           to == Target(opened, rq, vga)
<1>1. g1 \in Port /\ g2 \in Port \ {"refresh", "port0"} /\ (opened = "port0" => vga \in Line)
  BY GrantType
<1>2. to \in [line : Line, col : Offset]
  BY <1>1, TargetType
<1>3. BankOf[to.line] \in Bank
  BY <1>2, Defaults
<1>4. refreshpending' \in BOOLEAN
  BY DEF Slots, Refreshes, SdramTypeOK
<1>5. CASE ~init_done
  BY <1>4, <1>5, <1>2, CommandType DEF Slots, SdramTypeOK
<1>6. CASE init_done
  <2> HIDE DEF g1, g2, to
  <2>1. cmd' = SlotCommand(opened, to) /\ dq' = SlotData /\ wc_burst' = Burst
    BY <1>6 DEF Slots, g1, g2, to
  <2>2. cmd' \in Command /\ dq' \in DataPins
    BY <2>1, <1>2, CommandType
  <2>3. wc_burst' \in BOOLEAN
    BY <2>1 DEF Burst, BeatPhases, SdramTypeOK
  <2>4. slot1' = g1 /\ slot2' = g2
    BY <1>6 DEF Slots, g1, g2, to
  <2>5. /\ slot1_bank' \in Bank /\ slot2_bank' \in Bank
        /\ casaddr' \in [line : Line, col : Offset]
        /\ vga_rsp' \in {"none", "ack", "nak"}
    <3>1. slot1_bank' \in {BankOf[to.line], slot1_bank} /\ slot2_bank' \in {BankOf[to.line], slot2_bank}
      BY <1>6 DEF Slots, g1, g2, to
    <3>2. casaddr' \in {to, casaddr} /\ vga_rsp' \in {"none", "ack", "nak"}
      BY <1>6 DEF Slots, g1, g2, to
    <3> QED
      BY <3>1, <3>2, <1>2, <1>3 DEF SdramTypeOK
  <2> QED
    BY <1>1, <1>4, <2>2, <2>3, <2>4, <2>5
<1> QED
  BY <1>5, <1>6 DEF SdramTypeOK

LEMMA SampleType ==
    ASSUME SdramTypeOK, Sample
    PROVE  sdata_reg' \in [valid : BOOLEAN, line : Line, col : Offset, data : WordValue]
<1>1. NoBeat \in [valid : BOOLEAN, line : Line, col : Offset, data : WordValue]
  BY Defaults DEF NoBeat, Offset
<1>2. ASSUME NEW b \in Bank
      PROVE  /\ bank[b].line \in Line /\ BeatOf(b) \in Offset
             /\ Content(bank[b].line, BeatOf(b)) \in WordValue
  <2>1. bank[b].line \in Line /\ bank[b].t \in 0 .. 11 /\ bank[b].col \in 0 .. 7
    BY DEF SdramTypeOK, BankState, Offset
  <2>2. BeatOf(b) \in Offset
    BY <2>1 DEF BeatOf, Offset
  <2> QED
    BY <2>1, <2>2, Defaults DEF Content, SdramTypeOK
<1>3. CASE \E b \in Bank : Outputs(b)
  <2>1. (CHOOSE c \in Bank : Outputs(c)) \in Bank
    BY <1>3
  <2> QED
    BY <1>2, <1>3, <2>1 DEF Sample
<1> QED
  BY <1>1, <1>3 DEF Sample

\* One edge of sysclk keeps the types of the controller and the device.
LEMMA ControllerType ==
    ASSUME SdramTypeOK, NEW rq \in Request, NEW rdreq, NEW vga \in Line \union {NoLine},
           NEW reserve, NEW refresh \in BOOLEAN,
           SdramTick(rq, rdreq, vga, reserve, refresh)
    PROVE  SdramTypeOK'
<1>1. bank' \in [Bank -> BankState] /\ ram' \in [Line -> [Word -> WordValue]]
  BY ChipType DEF SdramTick
<1> QED
  BY <1>1, WriteCacheType, PhasesType, SlotsType, SampleType DEF SdramTick, SdramTypeOK

-----------------------------------------------------------------------------
(* The bank of one access, from one clock to the next.                     *)

\* What the clock edge does to an access of age a, given its command.
LEMMA StageStep ==
    ASSUME NEW k \in BankState, NEW port \in Owned, NEW a \in 0 .. 14, NEW c \in Command,
           AtStage(k, port, a),
           CommandAt(port, a) # "NOP" => c.op = CommandAt(port, a)
    PROVE  AtStage(IF CommandAt(port, a) # "NOP" THEN Obey(k, c) ELSE Elapse(k), port, a + 1)
<1>1. k.t \in 0 .. 11 /\ TRCD \in 1 .. 3 /\ TRP \in 2 .. 3
  BY DEF BankState
<1>2. CASE port \in Reader
  BY <1>1, <1>2 DEF AtStage, Opening, CommandAt, Obey, Elapse, At, Reader, Owned
<1>3. CASE port = "writecache"
  BY <1>1, <1>3 DEF AtStage, Opening, CommandAt, Obey, Elapse, At, Reader, Owned
<1> QED
  BY <1>2, <1>3 DEF Owned, Reader

\* The row an access works on does not change after its ACTIVE.
LEMMA LineStep ==
    ASSUME NEW k \in BankState, NEW port \in Owned, NEW a \in 0 .. 14, NEW c \in Command,
           CommandAt(port, a) # "NOP" => c.op = CommandAt(port, a)
    PROVE  LET n == IF CommandAt(port, a) # "NOP" THEN Obey(k, c) ELSE Elapse(k)
           IN  n.line = IF a = 0 THEN c.line ELSE k.line
  BY DEF CommandAt, Obey, Elapse, At, Reader, Owned, BankState

\* Commands in their general form: nothing for bank b, or something.
ForBank(b) == cmd.ba = b /\ cmd.op \in {"ACT", "READ", "WRITE", "PRE"}

LEMMA Untouched ==
    ASSUME SdramTypeOK, NEW b \in Bank, ~ForBank(b), cmd.op # "PREALL"
    PROVE  NextBank(b, cmd) = Elapse(bank[b])
  BY DEF NextBank, Obey, ForBank, SdramTypeOK, Command

LEMMA IdleStays ==
    ASSUME NEW k, k.st = "idle"
    PROVE  Elapse(k).st = "idle"
  BY DEF Elapse

\* The commands an access gives are addressed commands.
LEMMA CommandAtType ==
    ASSUME NEW port, NEW a
    PROVE  CommandAt(port, a) \in {"NOP", "ACT", "READ", "WRITE", "PRE"}
  BY DEF CommandAt

-----------------------------------------------------------------------------
(* Where every access stands after a clock edge.                           *)

\* A command on the pins is for the bank of a slot, or it is REFRESH.
LEMMA WhoseCommand ==
    ASSUME SdramTypeOK, Running, NEW b \in Bank, ForBank(b)
    PROVE  /\ cmd.op # "PREALL"
           /\ \/ slot1 \in Owned /\ slot1_bank = b /\ cmd.op = CommandAt(slot1, Age1)
              \/ slot2 \in Owned /\ slot2_bank = b /\ cmd.op = CommandAt(slot2, Age2)
  BY DEF Running, PinsAccounted, ForBank, CommandAt, Reader, Owned

LEMMA NoPreAll ==
    ASSUME Running PROVE cmd.op # "PREALL"
  BY CommandAtType DEF Running, PinsAccounted

\* The bank of the access in a slot takes that access's command or none.
LEMMA OwnBank ==
    ASSUME SdramTypeOK, Running, NEW port, NEW b, NEW a, NEW otherport, NEW otherbank,
           \/ <<port, b, a, otherport, otherbank>> = <<slot1, slot1_bank, Age1, slot2, slot2_bank>>
           \/ <<port, b, a, otherport, otherbank>> = <<slot2, slot2_bank, Age2, slot1, slot1_bank>>,
           port \in Owned
    PROVE  /\ b \in Bank
           /\ CommandAt(port, a) # "NOP" => cmd.op = CommandAt(port, a)
           /\ NextBank(b, cmd) = IF CommandAt(port, a) # "NOP" THEN Obey(bank[b], cmd)
                                 ELSE Elapse(bank[b])
<1>1. b \in Bank /\ SlotOnTime(port, b, a)
  BY DEF SdramTypeOK, Running
<1>2. CASE CommandAt(port, a) # "NOP"
  BY <1>1, <1>2 DEF SlotOnTime, OnTime, NextBank
<1>3. CASE CommandAt(port, a) = "NOP"
  <2>1. ~ForBank(b)
    BY <1>1, <1>3, WhoseCommand DEF Running, ForBank
  <2> QED
    BY <1>1, <1>3, <2>1, NoPreAll, Untouched
<1> QED
  BY <1>1, <1>2, <1>3

\* A bank no slot uses stays idle.
LEMMA FreeBank ==
    ASSUME SdramTypeOK, Running, NEW b \in Bank, ~Active(b)
    PROVE  NextBank(b, cmd).st = "idle"
<1>1. bank[b].st = "idle"
  BY DEF Running
<1>2. ~ForBank(b)
  BY WhoseCommand DEF Active
<1> QED
  BY <1>1, <1>2, NoPreAll, Untouched, IdleStays

\* An access of age 15 has left its bank idle, and gives no command.
LEMMA OldAge ==
    ASSUME NEW k, NEW port \in Owned, AtStage(k, port, 15)
    PROVE  k.st = "idle" /\ CommandAt(port, 15) = "NOP"
  BY DEF AtStage, CommandAt, Reader, Owned

-----------------------------------------------------------------------------
(* What a running edge assigns.                                            *)

LEMMA AgeStep ==
    ASSUME SdramTypeOK, init_done, NEW refresh, Phases(refresh)
    PROVE  /\ init_done' /\ Age1 \in 0 .. 15 /\ Age2 \in 0 .. 15
           /\ Age1' = (IF Age1 = 15 THEN 0 ELSE Age1 + 1)
           /\ Age2' = (IF Age2 = 15 THEN 0 ELSE Age2 + 1)
           /\ sdram_state = 2 <=> Age1 = 15
           /\ sdram_state = 10 <=> Age2 = 15
           /\ Age2 = IF Age1 < 8 THEN Age1 + 8 ELSE Age1 - 8
<1>1. sdram_state \in 0 .. 15 /\ sdram_state' = (sdram_state + 1) % 16 /\ init_done'
  BY DEF SdramTypeOK, Phases
<1>2. sdram_state' = IF sdram_state < 15 THEN sdram_state + 1 ELSE 0
  BY <1>1, NextPhase
<1>3. /\ Age1 = (IF sdram_state >= 3 THEN sdram_state - 3 ELSE sdram_state + 13)
      /\ Age2 = (IF sdram_state >= 11 THEN sdram_state - 11 ELSE sdram_state + 5)
      /\ Age1' = (IF sdram_state' >= 3 THEN sdram_state' - 3 ELSE sdram_state' + 13)
      /\ Age2' = (IF sdram_state' >= 11 THEN sdram_state' - 11 ELSE sdram_state' + 5)
  BY <1>1, <1>2 DEF Age1, Age2, Since
<1> QED
  BY <1>1, <1>2, <1>3

\* What phases 2 and 10 decide; in every other phase the slots stay as they are.
LEMMA GrantStep ==
    ASSUME SdramTypeOK, init_done, NEW rq, NEW rdreq, NEW vga \in Line \union {NoLine},
           NEW reserve, NEW refresh, Slots(rq, rdreq, vga, reserve, refresh)
    PROVE  /\ sdram_state # 2 => slot1' = slot1 /\ slot1_bank' = slot1_bank
           /\ sdram_state # 10 => slot2' = slot2 /\ slot2_bank' = slot2_bank
           /\ sdram_state \notin {2, 10} => casaddr' = casaddr
           /\ sdram_state = 2 /\ slot1' \in Owned =>
                /\ slot1_bank' = BankOf[casaddr'.line]
                /\ slot2 \in Owned => slot1_bank' # slot2_bank
                /\ cmd' = To("ACT", slot1_bank', casaddr')
           /\ sdram_state = 10 /\ slot2' \in Owned =>
                /\ slot2_bank' = BankOf[casaddr'.line]
                /\ slot1 \in Owned => slot1_bank # slot2_bank'
                /\ cmd' = To("ACT", slot2_bank', casaddr')
           /\ sdram_state = 2 /\ slot1' \notin Owned =>
                /\ slot1' = "refresh" => slot2 = "idle"
                /\ cmd' = IF slot1' = "refresh" THEN Bare("REF") ELSE Nop
           /\ sdram_state = 10 /\ slot2' \notin Owned => slot2' = "idle" /\ cmd' = Nop
           /\ sdram_state = 10 /\ slot1 = "refresh" => slot2' = "idle"
           /\ sdram_state \notin {2, 10} => \E port, at : cmd' = SlotCommand(port, at)
           /\ dq' = SlotData
<1> DEFINE g1 == Grant1(rq, rdreq, vga)
           g2 == Grant2(rq, rdreq, reserve)
           opened == IF sdram_state = 2 THEN g1 ELSE g2
           to == Target(opened, rq, vga)
<1>0. SdramTypeOK /\ slot1 \in Port /\ slot2 \in Port \ {"refresh", "port0"}
  BY DEF SdramTypeOK
<1>1. g1 \in Port /\ g2 \in Port \ {"refresh", "port0"}
  BY <1>0, GrantType
<1>2. /\ slot1' = g1 /\ slot2' = g2
      /\ slot1_bank' = IF sdram_state = 2 /\ g1 \in Owned THEN BankOf[to.line] ELSE slot1_bank
      /\ slot2_bank' = IF sdram_state = 10 /\ g2 \in Owned THEN BankOf[to.line] ELSE slot2_bank
      /\ casaddr' = IF sdram_state \in {2, 10} THEN to ELSE casaddr
      /\ cmd' = SlotCommand(opened, to) /\ dq' = SlotData
  BY DEF Slots
<1>3. /\ sdram_state # 2 => g1 = slot1
      /\ sdram_state # 10 => g2 = slot2
  BY DEF Grant1, Grant2
<1>4. ASSUME sdram_state = 2
      PROVE  /\ g1 = "refresh" => slot2 = "idle"
             /\ g1 \in Owned /\ slot2 \in Owned => BankOf[to.line] # slot2_bank
  <2>1. g1 = Slot1Choice(rq, rdreq, vga) /\ opened = g1
    BY <1>4 DEF Grant1
  <2>2. /\ g1 = "refresh" => slot2 = "idle"
        /\ g1 = "port0" => Clear(vga, slot2, slot2_bank)
        /\ g1 = "writecache" => Clear(wc_addr.line, slot2, slot2_bank)
        /\ g1 = "port1" => Clear(rq.line, slot2, slot2_bank)
    BY <2>1 DEF Slot1Choice
  <2>3. /\ g1 = "port0" => to.line = vga
        /\ g1 = "writecache" => to.line = wc_addr.line
        /\ g1 = "port1" => to.line = rq.line
    BY <2>1 DEF Target
  <2> QED
    BY <2>2, <2>3 DEF Clear, Owned
<1>5. ASSUME sdram_state = 10
      PROVE  /\ slot1 = "refresh" => g2 = "idle"
             /\ g2 \in Owned /\ slot1 \in Owned => BankOf[to.line] # slot1_bank
  <2>1. g2 = Slot2Choice(rq, rdreq, reserve) /\ opened = g2
    BY <1>5 DEF Grant2
  <2>2. /\ slot1 = "refresh" => g2 = "idle"
        /\ g2 \in {"idle", "writecache", "port1"}
        /\ g2 = "writecache" => Clear(wc_addr.line, slot1, slot1_bank)
        /\ g2 = "port1" => Clear(rq.line, slot1, slot1_bank)
    BY <2>1 DEF Slot2Choice, Slot2Grant
  <2>3. /\ g2 = "writecache" => to.line = wc_addr.line
        /\ g2 = "port1" => to.line = rq.line
    BY <2>1 DEF Target
  <2> QED
    BY <2>2, <2>3 DEF Clear, Owned
<1>6. sdram_state \in {2, 10} =>
        SlotCommand(opened, to) = IF opened = "refresh" THEN Bare("REF")
                                  ELSE IF opened \in Owned THEN To("ACT", BankOf[to.line], to)
                                  ELSE Nop
  BY DEF SlotCommand, Owned
<1>7. \A port \in Port \ {"refresh"} : port \notin Owned => port = "idle"
  BY DEF Port, Owned
<1> HIDE DEF g1, g2, to
<1>8. CASE sdram_state = 2
  <2>1. opened = g1 /\ casaddr' = to /\ slot2' = slot2 /\ slot2_bank' = slot2_bank
    BY <1>2, <1>3, <1>8
  <2>2. CASE g1 \in Owned
    BY <1>2, <1>4, <1>6, <1>8, <2>1, <2>2 DEF Owned
  <2>3. CASE g1 \notin Owned
    BY <1>2, <1>4, <1>6, <1>8, <2>1, <2>3
  <2> QED
    BY <2>2, <2>3
<1>9. CASE sdram_state = 10
  <2>1. opened = g2
    BY <1>9
  <2>2. g2 # "refresh"
    BY <1>1
  <2> QED
    BY <1>1, <1>2, <1>3, <1>5, <1>6, <1>7, <1>9, <2>1, <2>2
<1>10. CASE sdram_state \notin {2, 10}
  BY <1>2, <1>3, <1>10
<1> QED
  BY <1>8, <1>9, <1>10

\* Outside phases 2 and 10 the pins carry out the schedule of the two slots.
LEMMA CommandStep ==
    ASSUME SdramTypeOK, sdram_state \notin {2, 10}, NEW port, NEW at
    PROVE  LET c == SlotCommand(port, at)
           IN  /\ CommandAt(slot1, Age1 + 1) # "NOP" =>
                    c = To(CommandAt(slot1, Age1 + 1), slot1_bank, casaddr)
               /\ CommandAt(slot2, Age2 + 1) # "NOP" =>
                    c = To(CommandAt(slot2, Age2 + 1), slot2_bank, casaddr)
               /\ CommandAt(slot1, Age1 + 1) = "NOP" /\ CommandAt(slot2, Age2 + 1) = "NOP" => c = Nop
<1>1. sdram_state \in 0 .. 15 /\ slot1 \in Port /\ slot2 \in Port \ {"refresh", "port0"}
  BY DEF SdramTypeOK
<1>2. /\ Age1 = (IF sdram_state >= 3 THEN sdram_state - 3 ELSE sdram_state + 13)
      /\ Age2 = (IF sdram_state >= 11 THEN sdram_state - 11 ELSE sdram_state + 5)
  BY DEF Age1, Age2, Since
<1>3. CommandAt(slot1, Age1 + 1) =
        CASE sdram_state = 5 /\ slot1 \in Reader -> "READ"
          [] sdram_state = 9 /\ slot1 = "writecache" -> "WRITE"
          [] sdram_state = 12 /\ slot1 = "writecache" -> "PRE"
          [] OTHER -> "NOP"
  BY <1>1, <1>2 DEF CommandAt
<1>4. CommandAt(slot2, Age2 + 1) =
        CASE sdram_state = 13 /\ slot2 \in Reader -> "READ"
          [] sdram_state = 1 /\ slot2 = "writecache" -> "WRITE"
          [] sdram_state = 4 /\ slot2 = "writecache" -> "PRE"
          [] OTHER -> "NOP"
  BY <1>1, <1>2 DEF CommandAt
<1> QED
  BY <1>1, <1>3, <1>4 DEF SlotCommand, Reader

\* The data pins follow the write bursts of the two slots.
LEMMA DataStep ==
    ASSUME SdramTypeOK
    PROVE  /\ slot1 = "writecache" /\ Age1 \in 6 .. 7 => SlotData.drive
           /\ slot1 = "writecache" /\ Age1 = 8 => SlotData.dqm = Lane
           /\ slot2 = "writecache" /\ Age2 \in 6 .. 7 => SlotData.drive
           /\ slot2 = "writecache" /\ Age2 = 8 => SlotData.dqm = Lane
           /\ SlotData.drive => \/ slot1 = "writecache" /\ Age1 \in 6 .. 7
                                \/ slot2 = "writecache" /\ Age2 \in 6 .. 7
<1>1. sdram_state \in 0 .. 15
  BY DEF SdramTypeOK
<1>2. /\ Age1 \in 6 .. 7 <=> sdram_state \in {9, 10}
      /\ Age2 \in 6 .. 7 <=> sdram_state \in {1, 2}
      /\ Age1 = 8 <=> sdram_state = 11
      /\ Age2 = 8 <=> sdram_state = 3
  BY <1>1 DEF Age1, Age2, Since
<1>3. /\ \A h \in 0 .. 1 : Drive(h).drive = TRUE
      /\ Masked.drive = FALSE /\ Masked.dqm = Lane /\ Release.drive = FALSE
  BY DEF Drive, Masked, Release
<1>4. SlotData = CASE BeatPhases({9}, {1}) -> Drive(0)
                   [] BeatPhases({10}, {2}) -> Drive(1)
                   [] BeatPhases({11, 12}, {3, 4}) -> Masked
                   [] OTHER -> Release
  BY DEF SlotData
<1> QED
  BY <1>2, <1>3, <1>4 DEF BeatPhases

-----------------------------------------------------------------------------
(* The invariant, part by part.                                            *)

Ticking(rq, rdreq, vga, reserve, refresh) ==
    /\ SdramTypeOK /\ init_done /\ Running
    /\ rq \in Request /\ vga \in Line \union {NoLine} /\ refresh \in BOOLEAN
    /\ SdramTick(rq, rdreq, vga, reserve, refresh)

LEMMA TickingFacts ==
    ASSUME NEW rq, NEW rdreq, NEW vga, NEW reserve, NEW refresh,
           Ticking(rq, rdreq, vga, reserve, refresh)
    PROVE  /\ SdramTypeOK /\ init_done /\ Running
           /\ Phases(refresh) /\ Slots(rq, rdreq, vga, reserve, refresh)
           /\ bank' = [b \in Bank |-> NextBank(b, cmd)]
           /\ rq \in Request /\ vga \in Line \union {NoLine} /\ refresh \in BOOLEAN
  BY DEF Ticking, SdramTick, ChipTick

\* An access on time stays on time while its slot is not decided anew.
LEMMA Continue ==
    ASSUME SdramTypeOK, NEW port \in Owned, NEW b \in Bank, NEW a \in 0 .. 14,
           SlotOnTime(port, b, a),
           NextBank(b, cmd) = IF CommandAt(port, a) # "NOP" THEN Obey(bank[b], cmd)
                              ELSE Elapse(bank[b]),
           NEW latch, a \in 0 .. 6 => latch = casaddr,
           NEW c, CommandAt(port, a + 1) # "NOP" => c = To(CommandAt(port, a + 1), b, casaddr),
           NEW d, port = "writecache" => (a \in 6 .. 7 => d.drive) /\ (a = 8 => d.dqm = Lane)
    PROVE  OnTime(port, b, a + 1, NextBank(b, cmd), latch, c, d)
<1>1. bank[b] \in BankState /\ cmd \in Command
  BY DEF SdramTypeOK
<1>2. AtStage(NextBank(b, cmd), port, a + 1)
  BY <1>1, StageStep DEF SlotOnTime, OnTime
<1>3. a + 1 \in 0 .. 7 => BankOf[latch.line] = b
  BY DEF SlotOnTime, OnTime
<1>4. a + 1 \in 1 .. 7 => NextBank(b, cmd).line = latch.line
  <2>1. NextBank(b, cmd).line = IF a = 0 THEN cmd.line ELSE bank[b].line
    BY <1>1, LineStep DEF SlotOnTime, OnTime
  <2>2. a = 0 => cmd.line = casaddr.line
    BY DEF SlotOnTime, OnTime, CommandAt
  <2> QED
    BY <2>1, <2>2 DEF SlotOnTime, OnTime
<1>5. CommandAt(port, a + 1) # "NOP" =>
        /\ c.op = CommandAt(port, a + 1) /\ c.ba = b
        /\ c.op \in {"ACT", "READ", "WRITE"} => c.line = latch.line
  <2>1. CommandAt(port, a + 1) \in {"READ", "WRITE"} => a \in 0 .. 6
    BY DEF CommandAt
  <2>2. CommandAt(port, a + 1) # "ACT"
    BY DEF CommandAt
  <2> QED
    BY <2>1, <2>2 DEF To
<1>6. port = "writecache" => (a + 1 \in 7 .. 8 => d.drive) /\ (a + 1 = 9 => d.dqm = Lane)
  OBVIOUS
<1> QED
  BY <1>2, <1>3, <1>4, <1>5, <1>6 DEF OnTime

\* A slot just decided is on time if the bank of its new access is idle.
LEMMA Open ==
    ASSUME NEW port \in Owned, NEW latch, NEW k, k.st = "idle", NEW b, b = BankOf[latch.line],
           NEW c, c = To("ACT", b, latch), NEW d
    PROVE  OnTime(port, b, 0, k, latch, c, d)
  BY DEF OnTime, AtStage, CommandAt, To, Owned, Reader

\* Slot 1 is on time after the edge.
LEMMA Slot1Step ==
    ASSUME NEW rq, NEW rdreq, NEW vga, NEW reserve, NEW refresh,
           Ticking(rq, rdreq, vga, reserve, refresh)
    PROVE  SlotOnTime(slot1, slot1_bank, Age1)'
<1> SUFFICES ASSUME slot1' \in Owned
             PROVE  OnTime(slot1', slot1_bank', Age1', bank'[slot1_bank'], casaddr', cmd', dq')
  BY DEF SlotOnTime, OnTime
<1>1. /\ SdramTypeOK /\ Running /\ init_done
      /\ bank' = [b \in Bank |-> NextBank(b, cmd)]
  BY TickingFacts
<1>2. CASE sdram_state = 2
  <2>1. /\ slot1_bank' = BankOf[casaddr'.line]
        /\ cmd' = To("ACT", slot1_bank', casaddr')
        /\ slot2 \in Owned => slot1_bank' # slot2_bank
    BY <1>2, TickingFacts, GrantStep
  <2>2. Age1' = 0 /\ Age1 = 15
    BY <1>2, TickingFacts, AgeStep
  <2>3. slot1_bank' \in Bank
    BY TickingFacts, SlotsType
  <2>4. bank'[slot1_bank'] = NextBank(slot1_bank', cmd)
    BY <1>1, <2>3
  <2>5. NextBank(slot1_bank', cmd).st = "idle"
    <3>1. CASE ~Active(slot1_bank')
      BY <1>1, <2>3, <3>1, FreeBank
    <3>2. CASE Active(slot1_bank')
      <4>1. slot1 \in Owned /\ slot1_bank' = slot1_bank
        BY <2>1, <3>2 DEF Active
      <4>2. AtStage(bank[slot1_bank], slot1, 15)
        BY <1>1, <2>2, <4>1 DEF Running, SlotOnTime, OnTime
      <4>3. bank[slot1_bank].st = "idle" /\ CommandAt(slot1, Age1) = "NOP"
        BY <2>2, <4>1, <4>2, OldAge
      <4>4. NextBank(slot1_bank, cmd) = Elapse(bank[slot1_bank])
        BY <1>1, <4>1, <4>3, OwnBank
      <4> QED
        BY <4>1, <4>3, <4>4, IdleStays
    <3> QED
      BY <3>1, <3>2
  <2> QED
    BY <2>1, <2>2, <2>4, <2>5, Open
<1>3. CASE sdram_state # 2
  <2>1. /\ slot1' = slot1 /\ slot1_bank' = slot1_bank
        /\ sdram_state # 10 => casaddr' = casaddr
        /\ sdram_state # 10 => \E port, at : cmd' = SlotCommand(port, at)
        /\ dq' = SlotData
    BY <1>3, TickingFacts, GrantStep
  <2>2. Age1 \in 0 .. 14 /\ Age1' = Age1 + 1 /\ (sdram_state = 10 => Age1 = 7)
    BY <1>3, TickingFacts, AgeStep
  <2>3. /\ slot1_bank \in Bank
        /\ NextBank(slot1_bank, cmd) = IF CommandAt(slot1, Age1) # "NOP"
                                       THEN Obey(bank[slot1_bank], cmd)
                                       ELSE Elapse(bank[slot1_bank])
    BY <1>1, <2>1, OwnBank
  <2>4. SlotOnTime(slot1, slot1_bank, Age1)
    BY <1>1 DEF Running
  <2>5. CommandAt(slot1, Age1 + 1) # "NOP" => cmd' = To(CommandAt(slot1, Age1 + 1), slot1_bank, casaddr)
    <3>1. sdram_state = 10 => CommandAt(slot1, Age1 + 1) = "NOP"
      BY <2>2 DEF CommandAt
    <3> QED
      BY <1>1, <1>3, <2>1, <3>1, CommandStep
  <2>6. slot1 = "writecache" => (Age1 \in 6 .. 7 => dq'.drive) /\ (Age1 = 8 => dq'.dqm = Lane)
    BY <1>1, <2>1, DataStep
  <2>7. Age1 \in 0 .. 6 => casaddr' = casaddr
    BY <2>1, <2>2
  <2>8. OnTime(slot1, slot1_bank, Age1 + 1, NextBank(slot1_bank, cmd), casaddr', cmd', dq')
    BY <1>1, <2>1, <2>2, <2>3, <2>4, <2>5, <2>6, <2>7, Continue
  <2> QED
    BY <1>1, <2>1, <2>2, <2>3, <2>8
<1> QED
  BY <1>2, <1>3

\* Slot 2 is on time after the edge.
LEMMA Slot2Step ==
    ASSUME NEW rq, NEW rdreq, NEW vga, NEW reserve, NEW refresh,
           Ticking(rq, rdreq, vga, reserve, refresh)
    PROVE  SlotOnTime(slot2, slot2_bank, Age2)'
<1> SUFFICES ASSUME slot2' \in Owned
             PROVE  OnTime(slot2', slot2_bank', Age2', bank'[slot2_bank'], casaddr', cmd', dq')
  BY DEF SlotOnTime, OnTime
<1>1. /\ SdramTypeOK /\ Running /\ init_done
      /\ bank' = [b \in Bank |-> NextBank(b, cmd)]
  BY TickingFacts
<1>2. CASE sdram_state = 10
  <2>1. /\ slot2_bank' = BankOf[casaddr'.line]
        /\ cmd' = To("ACT", slot2_bank', casaddr')
        /\ slot1 \in Owned => slot1_bank # slot2_bank'
    BY <1>2, TickingFacts, GrantStep
  <2>2. Age2' = 0 /\ Age2 = 15
    BY <1>2, TickingFacts, AgeStep
  <2>3. slot2_bank' \in Bank
    BY TickingFacts, SlotsType
  <2>4. bank'[slot2_bank'] = NextBank(slot2_bank', cmd)
    BY <1>1, <2>3
  <2>5. NextBank(slot2_bank', cmd).st = "idle"
    <3>1. CASE ~Active(slot2_bank')
      BY <1>1, <2>3, <3>1, FreeBank
    <3>2. CASE Active(slot2_bank')
      <4>1. slot2 \in Owned /\ slot2_bank' = slot2_bank
        BY <2>1, <3>2 DEF Active
      <4>2. AtStage(bank[slot2_bank], slot2, 15)
        BY <1>1, <2>2, <4>1 DEF Running, SlotOnTime, OnTime
      <4>3. bank[slot2_bank].st = "idle" /\ CommandAt(slot2, Age2) = "NOP"
        BY <2>2, <4>1, <4>2, OldAge
      <4>4. NextBank(slot2_bank, cmd) = Elapse(bank[slot2_bank])
        BY <1>1, <4>1, <4>3, OwnBank
      <4> QED
        BY <4>1, <4>3, <4>4, IdleStays
    <3> QED
      BY <3>1, <3>2
  <2> QED
    BY <2>1, <2>2, <2>4, <2>5, Open
<1>3. CASE sdram_state # 10
  <2>1. /\ slot2' = slot2 /\ slot2_bank' = slot2_bank
        /\ sdram_state # 2 => casaddr' = casaddr
        /\ sdram_state # 2 => \E port, at : cmd' = SlotCommand(port, at)
        /\ dq' = SlotData
    BY <1>3, TickingFacts, GrantStep
  <2>2. Age2 \in 0 .. 14 /\ Age2' = Age2 + 1 /\ (sdram_state = 2 => Age2 = 7)
    BY <1>3, TickingFacts, AgeStep
  <2>3. /\ slot2_bank \in Bank
        /\ NextBank(slot2_bank, cmd) = IF CommandAt(slot2, Age2) # "NOP"
                                       THEN Obey(bank[slot2_bank], cmd)
                                       ELSE Elapse(bank[slot2_bank])
    BY <1>1, <2>1, OwnBank
  <2>4. SlotOnTime(slot2, slot2_bank, Age2)
    BY <1>1 DEF Running
  <2>5. CommandAt(slot2, Age2 + 1) # "NOP" => cmd' = To(CommandAt(slot2, Age2 + 1), slot2_bank, casaddr)
    <3>1. sdram_state = 2 => CommandAt(slot2, Age2 + 1) = "NOP"
      BY <2>2 DEF CommandAt
    <3> QED
      BY <1>1, <1>3, <2>1, <3>1, CommandStep
  <2>6. slot2 = "writecache" => (Age2 \in 6 .. 7 => dq'.drive) /\ (Age2 = 8 => dq'.dqm = Lane)
    BY <1>1, <2>1, DataStep
  <2>7. Age2 \in 0 .. 6 => casaddr' = casaddr
    BY <2>1, <2>2
  <2>8. OnTime(slot2, slot2_bank, Age2 + 1, NextBank(slot2_bank, cmd), casaddr', cmd', dq')
    BY <1>1, <2>1, <2>2, <2>3, <2>4, <2>5, <2>6, <2>7, Continue
  <2> QED
    BY <1>1, <2>1, <2>2, <2>3, <2>8
<1> QED
  BY <1>2, <1>3

\* The two slots never work on one bank, and a refresh has the device alone.
LEMMA ApartStep ==
    ASSUME NEW rq, NEW rdreq, NEW vga, NEW reserve, NEW refresh,
           Ticking(rq, rdreq, vga, reserve, refresh)
    PROVE  /\ slot1' \in Owned /\ slot2' \in Owned => slot1_bank' # slot2_bank'
           /\ slot1' = "refresh" => slot2' = "idle"
<1>1. Running
  BY TickingFacts
<1>2. CASE sdram_state = 2
  BY <1>1, <1>2, TickingFacts, GrantStep DEF Owned
<1>3. CASE sdram_state = 10
  BY <1>1, <1>3, TickingFacts, GrantStep DEF Owned
<1>4. CASE sdram_state \notin {2, 10}
  BY <1>1, <1>4, TickingFacts, GrantStep DEF Running
<1> QED
  BY <1>2, <1>3, <1>4

\* What is on the pins after the edge is there for one of the slots.
LEMMA PinsStep ==
    ASSUME NEW rq, NEW rdreq, NEW vga, NEW reserve, NEW refresh,
           Ticking(rq, rdreq, vga, reserve, refresh)
    PROVE  PinsAccounted'
<1>1. /\ SdramTypeOK /\ init_done
      /\ Age1 \in 0 .. 15 /\ Age2 \in 0 .. 15
      /\ Age1' = (IF Age1 = 15 THEN 0 ELSE Age1 + 1)
      /\ Age2' = (IF Age2 = 15 THEN 0 ELSE Age2 + 1)
      /\ sdram_state = 2 <=> Age1 = 15
      /\ sdram_state = 10 <=> Age2 = 15
  BY TickingFacts, AgeStep
<1>2. dq' = SlotData
  BY TickingFacts, GrantStep
<1>3. dq'.drive => \/ slot1' = "writecache" /\ Age1' \in 7 .. 8
                   \/ slot2' = "writecache" /\ Age2' \in 7 .. 8
  <2>1. CASE slot1 = "writecache" /\ Age1 \in 6 .. 7
    BY <1>1, <2>1, TickingFacts, GrantStep
  <2>2. CASE slot2 = "writecache" /\ Age2 \in 6 .. 7
    BY <1>1, <2>2, TickingFacts, GrantStep
  <2> QED
    BY <1>1, <1>2, <2>1, <2>2, DataStep
<1>4. cmd'.op # "NOP" =>
        \/ cmd'.op = "REF" /\ slot1' = "refresh" /\ Age1' = 0
        \/ cmd'.op = CommandAt(slot1', Age1') /\ cmd'.ba = slot1_bank'
        \/ cmd'.op = CommandAt(slot2', Age2') /\ cmd'.ba = slot2_bank'
  <2>1. /\ \A op, b, at : To(op, b, at).op = op /\ To(op, b, at).ba = b
        /\ \A op : Bare(op).op = op
        /\ Nop.op = "NOP"
    BY DEF To, Bare, Nop
  <2>2. \A port \in Owned : CommandAt(port, 0) = "ACT"
    BY DEF CommandAt
  <2>3. CASE sdram_state = 2
    <3>1. CASE slot1' \in Owned
      BY <1>1, <2>1, <2>2, <2>3, <3>1, TickingFacts, GrantStep
    <3>2. CASE slot1' \notin Owned
      BY <1>1, <2>1, <2>3, <3>2, TickingFacts, GrantStep
    <3> QED
      BY <3>1, <3>2
  <2>4. CASE sdram_state = 10
    <3>1. CASE slot2' \in Owned
      BY <1>1, <2>1, <2>2, <2>4, <3>1, TickingFacts, GrantStep
    <3>2. CASE slot2' \notin Owned
      BY <2>1, <2>4, <3>2, TickingFacts, GrantStep
    <3> QED
      BY <3>1, <3>2
  <2>5. CASE sdram_state \notin {2, 10}
    <3>1. /\ slot1' = slot1 /\ slot1_bank' = slot1_bank /\ slot2' = slot2 /\ slot2_bank' = slot2_bank
          /\ \E port, at : cmd' = SlotCommand(port, at)
      BY <2>5, TickingFacts, GrantStep
    <3>2. Age1' = Age1 + 1 /\ Age2' = Age2 + 1
      BY <1>1, <2>5
    <3>3. \/ cmd' = To(CommandAt(slot1, Age1 + 1), slot1_bank, casaddr)
          \/ cmd' = To(CommandAt(slot2, Age2 + 1), slot2_bank, casaddr)
          \/ cmd' = Nop
      BY <1>1, <2>5, <3>1, CommandStep
    <3> QED
      BY <2>1, <3>1, <3>2, <3>3
  <2> QED
    BY <2>3, <2>4, <2>5
<1> QED
  BY <1>3, <1>4 DEF PinsAccounted

\* A bank that no slot uses after the edge is idle.
LEMMA FreeStep ==
    ASSUME NEW rq, NEW rdreq, NEW vga, NEW reserve, NEW refresh,
           Ticking(rq, rdreq, vga, reserve, refresh)
    PROVE  \A b \in Bank : ~Active(b)' => bank'[b].st = "idle"
<1> SUFFICES ASSUME NEW b \in Bank, ~Active(b)'
             PROVE  NextBank(b, cmd).st = "idle"
  BY TickingFacts
<1>1. SdramTypeOK /\ Running
  BY TickingFacts
<1>2. CASE ~Active(b)
  BY <1>1, <1>2, FreeBank
<1>3. CASE slot1 \in Owned /\ slot1_bank = b
  <2>1. sdram_state = 2
    BY <1>3, TickingFacts, GrantStep DEF Active
  <2>2. Age1 = 15
    BY <2>1, TickingFacts, AgeStep
  <2>3. AtStage(bank[b], slot1, 15)
    BY <1>1, <1>3, <2>2 DEF Running, SlotOnTime, OnTime
  <2>4. bank[b].st = "idle" /\ CommandAt(slot1, Age1) = "NOP"
    BY <1>3, <2>2, <2>3, OldAge
  <2>5. NextBank(b, cmd) = Elapse(bank[b])
    BY <1>1, <1>3, <2>4, OwnBank
  <2> QED
    BY <2>4, <2>5, IdleStays
<1>4. CASE slot2 \in Owned /\ slot2_bank = b
  <2>1. sdram_state = 10
    BY <1>4, TickingFacts, GrantStep DEF Active
  <2>2. Age2 = 15
    BY <2>1, TickingFacts, AgeStep
  <2>3. AtStage(bank[b], slot2, 15)
    BY <1>1, <1>4, <2>2 DEF Running, SlotOnTime, OnTime
  <2>4. bank[b].st = "idle" /\ CommandAt(slot2, Age2) = "NOP"
    BY <1>4, <2>2, <2>3, OldAge
  <2>5. NextBank(b, cmd) = Elapse(bank[b])
    BY <1>1, <1>4, <2>4, OwnBank
  <2> QED
    BY <2>4, <2>5, IdleStays
<1> QED
  BY <1>2, <1>3, <1>4 DEF Active

LEMMA RunningStep ==
    ASSUME NEW rq, NEW rdreq, NEW vga, NEW reserve, NEW refresh,
           Ticking(rq, rdreq, vga, reserve, refresh)
    PROVE  init_done' /\ Running'
<1>1. init_done'
  BY TickingFacts, AgeStep
<1>2. \A b \in Bank : (~Active(b) => bank[b].st = "idle")'
  BY FreeStep
<1> QED
  BY <1>1, <1>2, Slot1Step, Slot2Step, ApartStep, PinsStep DEF Running

-----------------------------------------------------------------------------
(* Start-up.                                                               *)

\* During start-up a bank is idle, or has just been precharged.
Settling(k, phase) ==
    \/ k.st = "idle"
    \/ k.st = "closing" /\ phase \in 4 .. 6 /\ k.t = TRP + 4 - phase

LEMMA SettlingStep ==
    ASSUME SdramTypeOK, StartUp, NEW b \in Bank, NEW phase,
           sdram_state # 14 => phase = (sdram_state + 1) % 16
    PROVE  /\ Settling(NextBank(b, cmd), phase)
           /\ sdram_state = 14 => NextBank(b, cmd).st = "idle"
<1>1. /\ sdram_state \in 0 .. 15 /\ Settling(bank[b], sdram_state)
      /\ cmd.op # "NOP" => sdram_state = 3
      /\ cmd.op \in {"NOP", "PREALL", "REF", "LMR"}
      /\ TRP \in 2 .. 3
  BY DEF StartUp, SdramTypeOK, Settling
<1>2. sdram_state # 14 => phase = IF sdram_state < 15 THEN sdram_state + 1 ELSE 0
  BY <1>1, NextPhase
<1>3. CASE cmd.op = "PREALL"
  <2>1. NextBank(b, cmd).st = "closing" /\ NextBank(b, cmd).t = TRP
    BY <1>3 DEF NextBank, Obey, At
  <2> QED
    BY <1>1, <1>2, <1>3, <2>1 DEF Settling
<1>4. CASE cmd.op # "PREALL"
  <2>1. NextBank(b, cmd) = Elapse(bank[b])
    BY <1>1, <1>4 DEF NextBank, Obey
  <2>2. CASE bank[b].st = "idle"
    BY <2>1, <2>2, IdleStays DEF Settling
  <2>3. CASE bank[b].st = "closing"
    BY <1>1, <1>2, <2>1, <2>3 DEF Settling, Elapse, At
  <2> QED
    BY <1>1, <2>2, <2>3 DEF Settling
<1> QED
  BY <1>3, <1>4

LEMMA StartUpStep ==
    ASSUME SdramTypeOK, ~init_done, StartUp, NEW rq, NEW rdreq, NEW vga, NEW reserve,
           NEW refresh \in BOOLEAN, SdramTick(rq, rdreq, vga, reserve, refresh)
    PROVE  Schedule'
<1>1. /\ SdramTypeOK /\ Phases(refresh)
      /\ bank' = [b \in Bank |-> NextBank(b, cmd)]
      /\ slot1' = "refresh" /\ slot2' = "idle"
      /\ cmd' = InitCommand /\ dq' = Release
  BY DEF SdramTick, ChipTick, Slots, StartUp
<1>2. /\ init_done' => sdram_state = 14
      /\ sdram_state # 14 => sdram_state' = (sdram_state + 1) % 16
      /\ sdram_state = 2 => sdram_state' = 3
  BY <1>1, NextPhase DEF Phases, SdramTypeOK
<1>3. /\ cmd'.op \in {"NOP", "PREALL", "REF", "LMR"}
      /\ cmd'.op # "NOP" => sdram_state = 2
      /\ dq'.drive = FALSE
  BY <1>1 DEF InitCommand, Nop, Bare, Release
<1>4. \A b \in Bank : /\ Settling(bank'[b], sdram_state')
                      /\ init_done' => bank'[b].st = "idle"
  BY <1>1, <1>2, SettlingStep
<1>5. CASE ~init_done'
  <2>1. StartUp'
    BY <1>1, <1>2, <1>3, <1>4 DEF StartUp, Settling
  <2> QED
    BY <1>5, <2>1 DEF Schedule
<1>6. CASE init_done'
  <2>1. cmd'.op = "NOP"
    BY <1>2, <1>3, <1>6
  <2>2. PinsAccounted'
    BY <1>3, <2>1 DEF PinsAccounted
  <2>3. Running'
    BY <1>1, <1>4, <1>6, <2>2 DEF Running, SlotOnTime, OnTime, Active, Owned
  <2> QED
    BY <1>6, <2>3 DEF Schedule
<1> QED
  BY <1>5, <1>6

LEMMA InitSchedule == SdramInit => Schedule
<1> SUFFICES ASSUME SdramInit PROVE StartUp /\ ~init_done
  BY DEF Schedule
<1>1. cmd.op = "NOP" /\ ~dq.drive
  BY DEF SdramInit, Nop, Bare, Release
<1>2. \A b \in Bank : bank[b].st = "idle"
  BY DEF SdramInit, ChipInit, At
<1> QED
  BY <1>1, <1>2 DEF SdramInit, StartUp

\* One edge keeps every access on its schedule.
LEMMA ScheduleStep ==
    ASSUME SdramTypeOK, Schedule, NEW rq \in Request, NEW rdreq,
           NEW vga \in Line \union {NoLine}, NEW reserve, NEW refresh \in BOOLEAN,
           SdramTick(rq, rdreq, vga, reserve, refresh)
    PROVE  Schedule'
<1>1. CASE init_done
  <2>1. Ticking(rq, rdreq, vga, reserve, refresh)
    BY <1>1 DEF Ticking, Schedule
  <2> QED
    BY <2>1, RunningStep DEF Schedule
<1>2. CASE ~init_done
  BY <1>2, StartUpStep DEF Schedule
<1> QED
  BY <1>1, <1>2

-----------------------------------------------------------------------------
(* What the schedule is good for.                                          *)

LEMMA LegalInSlot ==
    ASSUME SdramTypeOK, NEW port \in Owned, NEW b \in Bank, NEW a,
           SlotOnTime(port, b, a), cmd.op = CommandAt(port, a), cmd.op # "NOP"
    PROVE  Legal(cmd)
<1>1. /\ AtStage(bank[b], port, a) /\ cmd.ba = b
      /\ a \in 0 .. 7 => BankOf[casaddr.line] = b
      /\ a \in 1 .. 7 => bank[b].line = casaddr.line
      /\ cmd.op \in {"ACT", "READ", "WRITE"} => cmd.line = casaddr.line
  BY DEF SlotOnTime, OnTime
<1>2. CASE cmd.op = "ACT"
  <2>1. a = 0
    BY <1>2 DEF CommandAt
  <2> QED
    BY <1>1, <1>2, <2>1 DEF Legal, AtStage
<1>3. CASE cmd.op = "READ"
  <2>1. port \in Reader /\ a = 3
    BY <1>3 DEF CommandAt
  <2> QED
    BY <1>1, <1>3, <2>1 DEF Legal, AtStage, Opening
<1>4. CASE cmd.op = "WRITE"
  <2>1. port = "writecache" /\ a = 7
    BY <1>4 DEF CommandAt
  <2> QED
    BY <1>1, <1>4, <2>1 DEF Legal, AtStage, Opening, Reader
<1>5. CASE cmd.op = "PRE"
  <2>1. port = "writecache" /\ a = 10
    BY <1>5 DEF CommandAt
  <2> QED
    BY <1>1, <1>5, <2>1 DEF Legal, AtStage, Reader
<1> QED
  BY <1>2, <1>3, <1>4, <1>5, CommandAtType

LEMMA LegalOnTime == SdramTypeOK /\ Schedule => Legal(cmd)
<1> SUFFICES ASSUME SdramTypeOK, Schedule, cmd.op # "NOP" PROVE Legal(cmd)
  BY DEF Legal
<1>1. SdramTypeOK
  OBVIOUS
<1>2. CASE ~init_done
  <2>1. \A b \in Bank : bank[b].st = "idle"
    BY <1>1, <1>2 DEF Schedule, StartUp
  <2> QED
    BY <1>2, <2>1 DEF Schedule, StartUp, Legal, AllIdle
<1>3. CASE init_done
  <2>1. Running
    BY <1>3 DEF Schedule
  <2>2. CASE cmd.op = "REF" /\ slot1 = "refresh"
    <3>1. \A b \in Bank : bank[b].st = "idle"
      BY <2>1, <2>2 DEF Running, Active, Owned
    <3> QED
      BY <2>2, <3>1 DEF Legal, AllIdle
  <2>3. CASE cmd.op = CommandAt(slot1, Age1)
    <3>1. slot1 \in Owned
      BY <2>3 DEF CommandAt, Owned, Reader
    <3> QED
      BY <1>1, <2>1, <2>3, <3>1, LegalInSlot DEF Running, SdramTypeOK
  <2>4. CASE cmd.op = CommandAt(slot2, Age2)
    <3>1. slot2 \in Owned
      BY <2>4 DEF CommandAt, Owned, Reader
    <3> QED
      BY <1>1, <2>1, <2>4, <3>1, LegalInSlot DEF Running, SdramTypeOK
  <2> QED
    BY <2>1, <2>2, <2>3, <2>4 DEF Running, PinsAccounted
<1> QED
  BY <1>2, <1>3

\* A bank drives the data bus only for a read, from six to thirteen clocks
\* after the phase that granted it.
LEMMA OutputAge ==
    ASSUME SdramTypeOK, Running, NEW b \in Bank, Outputs(b)
    PROVE  \/ slot1 \in Reader /\ slot1_bank = b /\ Age1 \in 6 .. 13
           \/ slot2 \in Reader /\ slot2_bank = b /\ Age2 \in 6 .. 13
<1>1. /\ bank[b].st = "reading" /\ bank[b].t - TRP \in -1 .. 6
      /\ bank[b].t \in 0 .. 11 /\ TRP \in 2 .. 3
  BY DEF Outputs, SdramTypeOK, BankState
<1>2. ASSUME NEW port \in Owned, NEW a \in 0 .. 15, AtStage(bank[b], port, a)
      PROVE  port \in Reader /\ a \in 6 .. 13
  BY <1>1, <1>2 DEF AtStage, Opening
<1>3. Age1 \in 0 .. 15 /\ Age2 \in 0 .. 15
  BY DEF SdramTypeOK, Age1, Age2, Since
<1>4. Active(b)
  BY <1>1 DEF Running
<1> QED
  BY <1>2, <1>3, <1>4 DEF Active, Running, SlotOnTime, OnTime

LEMMA ApartAges ==
    ASSUME SdramTypeOK
    PROVE  /\ Age1 \in 0 .. 15
           /\ Age2 = IF Age1 < 8 THEN Age1 + 8 ELSE Age1 - 8
  BY DEF SdramTypeOK, Age1, Age2, Since

\* A beat of a write burst is driven or masked.
LEMMA BeatCovered ==
    ASSUME SdramTypeOK, Running, NEW b \in Bank, NEW w \in Offset, WritesTo(b, cmd, w)
    PROVE  dq.drive \/ dq.dqm = Lane
<1>1. CASE cmd.op = "WRITE" /\ cmd.ba = b
  BY <1>1 DEF Running, PinsAccounted, CommandAt, SlotOnTime, OnTime, Owned, Reader
<1>2. CASE bank[b].st = "writing" /\ ~(cmd.op = "PRE" /\ cmd.ba = b)
  <2>1. ASSUME NEW port \in Owned, NEW a \in 0 .. 15, SlotOnTime(port, b, a)
        PROVE  dq.drive \/ dq.dqm = Lane
    <3>1. port = "writecache" /\ a \in 8 .. 10
      BY <1>2, <2>1 DEF SlotOnTime, OnTime, AtStage, Opening, Owned, Reader
    <3>2. a # 10
      BY <1>2, <2>1, <3>1 DEF SlotOnTime, OnTime, CommandAt, Owned, Reader
    <3> QED
      BY <2>1, <3>1, <3>2 DEF SlotOnTime, OnTime
  <2>2. Active(b)
    BY <1>2 DEF Running
  <2>3. Age1 \in 0 .. 15 /\ Age2 \in 0 .. 15
    BY ApartAges
  <2> QED
    BY <2>1, <2>2, <2>3 DEF Active, Running
<1> QED
  BY <1>1, <1>2 DEF WritesTo

LEMMA ExclusiveOnTime == SdramTypeOK /\ Schedule => BusFree(cmd, dq)
<1> SUFFICES ASSUME SdramTypeOK, Schedule PROVE BusFree(cmd, dq)
  OBVIOUS
<1>1. SdramTypeOK
  OBVIOUS
<1>2. CASE ~init_done
  <2>1. \A b \in Bank : bank[b].st \in {"idle", "closing"}
    BY <1>2 DEF Schedule, StartUp
  <2>2. cmd.op # "WRITE" /\ ~dq.drive
    BY <1>2 DEF Schedule, StartUp
  <2> QED
    BY <2>1, <2>2 DEF BusFree, Outputs, WritesTo
<1>3. CASE init_done
  <2>1. Running
    BY <1>3 DEF Schedule
  <2>2. \A a, b \in Bank : Outputs(a) /\ Outputs(b) => a = b
    BY <1>1, <2>1, OutputAge, ApartAges
  <2>3. dq.drive => \A b \in Bank : ~Outputs(b)
    <3>1. dq.drive => \/ slot1 = "writecache" /\ Age1 \in 7 .. 8
                      \/ slot2 = "writecache" /\ Age2 \in 7 .. 8
      BY <2>1 DEF Running, PinsAccounted
    <3> QED
      BY <1>1, <2>1, <3>1, OutputAge, ApartAges DEF Reader
  <2>4. \A b \in Bank, w \in Offset : WritesTo(b, cmd, w) => dq.drive \/ dq.dqm = Lane
    BY <1>1, <2>1, BeatCovered
  <2> QED
    BY <2>2, <2>3, <2>4 DEF BusFree
<1> QED
  BY <1>2, <1>3

-----------------------------------------------------------------------------
(* Data.                                                                   *)

\* One slot: its owner, its bank and the age of its access.
IsSlot(port, b, a) ==
    \/ port = slot1 /\ b = slot1_bank /\ a = Age1
    \/ port = slot2 /\ b = slot2_bank /\ a = Age2

LEMMA SlotFacts ==
    ASSUME SdramTypeOK, Running, NEW port \in Owned, NEW b, NEW a, IsSlot(port, b, a)
    PROVE  /\ b \in Bank /\ a \in 0 .. 15 /\ SlotOnTime(port, b, a)
           /\ CommandAt(port, a) # "NOP" => cmd.op = CommandAt(port, a)
           /\ NextBank(b, cmd) = IF CommandAt(port, a) # "NOP" THEN Obey(bank[b], cmd)
                                 ELSE Elapse(bank[b])
<1>1. a \in 0 .. 15
  BY ApartAges DEF IsSlot
<1>2. b \in Bank /\ SlotOnTime(port, b, a)
  BY DEF IsSlot, Running, SdramTypeOK
<1> QED
  BY <1>1, <1>2, OwnBank DEF IsSlot

\* Row and column of an access, once they went out, stay in its bank.
LEMMA ColumnStep ==
    ASSUME NEW k \in BankState, NEW port \in Owned, NEW a \in 0 .. 14, NEW c \in Command,
           CommandAt(port, a) # "NOP" => c.op = CommandAt(port, a)
    PROVE  LET n == IF CommandAt(port, a) # "NOP" THEN Obey(k, c) ELSE Elapse(k)
           IN  n.col = IF CommandAt(port, a) \in {"READ", "WRITE"} THEN c.col ELSE k.col
  BY DEF CommandAt, Obey, Elapse, At, Reader, Owned, BankState

\* The strobes from one clock to the next.
LEMMA StrobesStep ==
    ASSUME SdramTypeOK, Strobes, NEW refresh, Phases(refresh)
    PROVE  Strobes'
<1>1. /\ sdram_state \in 0 .. 15 /\ initstate \in 0 .. 15 /\ init_done \in BOOLEAN
      /\ slot1_fill \in BOOLEAN /\ slot2_fill \in BOOLEAN
  BY DEF SdramTypeOK
<1>0. (sdram_state + 1) % 16 = IF sdram_state < 15 THEN sdram_state + 1 ELSE 0
  BY <1>1, NextPhase
<1>2. /\ sdram_state # 14 => sdram_state' = IF sdram_state < 15 THEN sdram_state + 1 ELSE 0
      /\ sdram_state = 14 => sdram_state' = 15 \/ (initstate = 15 /\ sdram_state' \in {0, 14})
      /\ initstate' = IF sdram_state = 14 /\ initstate # 15 THEN initstate + 1 ELSE initstate
      /\ init_done' => init_done \/ initstate = 15
  BY <1>0, <1>1 DEF Phases, NextRound
<1>3. /\ slot1_fill' <=> sdram_state = 9 \/ (sdram_state # 1 /\ slot1_fill)
      /\ slot2_fill' <=> sdram_state = 1 \/ (sdram_state # 9 /\ slot2_fill)
  BY <1>1 DEF Phases, FillWindow
<1>4. slot1_fill' => sdram_state' \in (10 .. 15) \union {0, 1}
  BY <1>1, <1>2, <1>3 DEF Strobes
<1>5. sdram_state' \in 10 .. 15 => slot1_fill'
  BY <1>1, <1>2, <1>3 DEF Strobes
<1>6. sdram_state' \in {0, 1} /\ initstate' # 0 => slot1_fill'
  BY <1>1, <1>2, <1>3 DEF Strobes
<1>7. slot2_fill' <=> sdram_state' \in 2 .. 9
  BY <1>1, <1>2, <1>3 DEF Strobes
<1>8. init_done' => initstate' = 15
  BY <1>1, <1>2 DEF Strobes
<1> QED
  BY <1>4, <1>5, <1>6, <1>7, <1>8 DEF Strobes

\* Once the RAM is usable, each slot is strobed at ages 7 to 14.
LEMMA StrobeAges ==
    ASSUME SdramTypeOK, init_done, Strobes
    PROVE  (slot1_fill <=> Age1 \in 7 .. 14) /\ (slot2_fill <=> Age2 \in 7 .. 14)
<1>1. sdram_state \in 0 .. 15 /\ initstate = 15
  BY DEF SdramTypeOK, Strobes
<1>2. slot1_fill <=> sdram_state \in (10 .. 15) \union {0, 1}
  BY <1>1 DEF Strobes
<1> QED
  BY <1>1, <1>2 DEF Strobes, Age1, Age2, Since

\* A bank stores a beat only for a posted write, 7 or 8 clocks after its grant.
LEMMA StoredBeat ==
    ASSUME SdramTypeOK, Running, NEW b \in Bank, NEW w \in Offset, WritesTo(b, cmd, w),
           dq.dqm # Lane
    PROVE  \E a \in 7 .. 8 : /\ IsSlot("writecache", b, a)
                             /\ w = IF a = 7 THEN cmd.col ELSE (bank[b].col + 1) % 8
<1>1. CASE cmd.op = "WRITE" /\ cmd.ba = b
  <2>1. \/ slot1 \in Owned /\ slot1_bank = b /\ cmd.op = CommandAt(slot1, Age1)
        \/ slot2 \in Owned /\ slot2_bank = b /\ cmd.op = CommandAt(slot2, Age2)
    BY <1>1, WhoseCommand DEF ForBank
  <2>2. IsSlot("writecache", b, 7)
    BY <1>1, <2>1 DEF IsSlot, CommandAt
  <2>3. bank[b].st # "writing"
    BY <2>2, SlotFacts DEF SlotOnTime, OnTime, AtStage, Opening, Owned, Reader
  <2> QED
    BY <2>2, <2>3 DEF WritesTo
<1>2. CASE ~(cmd.op = "WRITE" /\ cmd.ba = b)
  <2>1. /\ bank[b].st = "writing" /\ ~(cmd.op = "PRE" /\ cmd.ba = b)
        /\ w = (bank[b].col + bank[b].t) % 8
    BY <1>2 DEF WritesTo
  <2>2. Active(b)
    BY <2>1 DEF Running
  <2>3. PICK port \in Owned, a \in 0 .. 15 : IsSlot(port, b, a)
    BY <2>2, ApartAges DEF Active, IsSlot
  <2>4. /\ a \in 0 .. 15 /\ SlotOnTime(port, b, a)
        /\ CommandAt(port, a) # "NOP" => cmd.op = CommandAt(port, a)
    BY <2>3, SlotFacts
  <2>5. port = "writecache" /\ a \in 8 .. 10 /\ bank[b].t = a - 7
    BY <2>1, <2>4 DEF SlotOnTime, OnTime, AtStage, Opening, Owned, Reader
  <2>6. a # 10
    BY <2>1, <2>4, <2>5 DEF SlotOnTime, OnTime, CommandAt, Owned
  <2>7. a # 9
    BY <2>4, <2>5 DEF SlotOnTime, OnTime, Owned
  <2>8. a = 8 /\ bank[b].t = 1
    BY <2>5, <2>6, <2>7
  <2> QED
    BY <2>1, <2>3, <2>5, <2>8
<1> QED
  BY <1>1, <1>2

\* What an edge that is not the slot's own decision does to an access.
LEMMA AccessStep ==
    ASSUME SdramTypeOK, Running, NEW port \in Owned, NEW b, NEW a \in 0 .. 14, IsSlot(port, b, a),
           bank' = [k \in Bank |-> NextBank(k, cmd)]
    PROVE  /\ b \in Bank
           /\ AtStage(bank'[b], port, a + 1)
           /\ bank'[b].line = IF a = 0 THEN cmd.line ELSE bank[b].line
           /\ bank'[b].col = IF CommandAt(port, a) \in {"READ", "WRITE"} THEN cmd.col
                             ELSE bank[b].col
<1>1. /\ b \in Bank /\ SlotOnTime(port, b, a)
      /\ CommandAt(port, a) # "NOP" => cmd.op = CommandAt(port, a)
      /\ NextBank(b, cmd) = IF CommandAt(port, a) # "NOP" THEN Obey(bank[b], cmd)
                            ELSE Elapse(bank[b])
  BY SlotFacts
<1>2. bank[b] \in BankState /\ cmd \in Command /\ bank'[b] = NextBank(b, cmd)
  BY <1>1 DEF SdramTypeOK
<1>3. AtStage(bank[b], port, a)
  BY <1>1 DEF SlotOnTime, OnTime
<1> QED
  BY <1>1, <1>2, <1>3, StageStep, LineStep, ColumnStep

\* Nothing is written to the row of an access that reads.
LEMMA RowKept ==
    ASSUME SdramTypeOK, Running, ChipTick(cmd, dq), NEW b \in Bank,
           NEW l \in Line, BankOf[l] = b,
           \A a \in 7 .. 8 : ~IsSlot("writecache", b, a)
    PROVE  ram'[l] = ram[l]
<1>1. ASSUME NEW w \in Word
      PROVE  ram'[l][w] = ram[l][w]
  <2>1. ram'[l][w] = IF bank[b].line = l /\ WritesTo(b, cmd, w)
                     THEN [lane \in Lane |-> IF lane \in dq.dqm THEN ram[l][w][lane]
                                             ELSE dq.data[lane]]
                     ELSE ram[l][w]
    BY <1>1 DEF ChipTick
  <2>2. CASE ~WritesTo(b, cmd, w)
    BY <2>1, <2>2
  <2>3. CASE dq.dqm = Lane
    <3>1. ram[l][w] \in [Lane -> Byte]
      BY <1>1 DEF SdramTypeOK, WordValue
    <3> QED
      BY <2>1, <2>3, <3>1
  <2> QED
    BY <2>2, <2>3, StoredBeat
<1>2. ram[l] \in [Word -> WordValue] /\ ram'[l] \in [Word -> WordValue]
  BY ChipType DEF SdramTypeOK
<1> QED
  BY <1>1, <1>2

\* A bank that outputs a beat is the one the data register samples.
LEMMA SampledBank ==
    ASSUME SdramTypeOK, Running, Sample, NEW b \in Bank, Outputs(b)
    PROVE  sdata_reg' = [valid |-> TRUE, line |-> bank[b].line, col |-> BeatOf(b),
                         data |-> Content(bank[b].line, BeatOf(b))]
<1>1. \A c \in Bank : Outputs(c) => c = b
  BY OutputAge, ApartAges
<1>2. (CHOOSE c \in Bank : Outputs(c)) = b
  BY <1>1
<1> QED
  BY <1>2 DEF Sample

\* The columns of a read go out, and its words come in, one age after another.
LEMMA FetchStep ==
    ASSUME SdramTypeOK, Running, Sample, ChipTick(cmd, dq),
           NEW port \in Reader, NEW b, NEW a \in 0 .. 14, IsSlot(port, b, a),
           FetchOnTime(port, b, a)
    PROVE  /\ a \in 3 .. 14 => bank'[b].line = bank[b].line
           /\ a = 3 => bank'[b].line = casaddr.line /\ bank'[b].col = casaddr.col
           /\ a \in 4 .. 14 => bank'[b].col = bank[b].col
           /\ a \in 6 .. 13 =>
                /\ BankOf[bank'[b].line] = b
                /\ ram'[bank'[b].line] = ram[bank'[b].line]
                /\ sdata_reg' = [valid |-> TRUE, line |-> bank'[b].line,
                                 col |-> Beat(bank'[b], a + 1),
                                 data |-> Content(bank'[b].line, Beat(bank'[b], a + 1))]
<1>0. port \in Owned
  BY DEF Reader, Owned
<1>1. /\ b \in Bank
      /\ bank'[b].line = (IF a = 0 THEN cmd.line ELSE bank[b].line)
      /\ bank'[b].col = IF a = 3 THEN cmd.col ELSE bank[b].col
  <2>1. CommandAt(port, a) \in {"READ", "WRITE"} <=> a = 3
    BY DEF CommandAt, Reader
  <2> QED
    BY <1>0, <2>1, AccessStep DEF ChipTick
<1>2. a \in 1 .. 7 => bank[b].line = casaddr.line /\ BankOf[casaddr.line] = b
  BY <1>0, SlotFacts DEF SlotOnTime, OnTime
<1>3. ASSUME a \in 6 .. 13
      PROVE  /\ BankOf[bank[b].line] = b
             /\ Outputs(b) /\ BeatOf(b) = Beat(bank[b], a + 1)
             /\ ram'[bank[b].line] = ram[bank[b].line]
  <2>1. BankOf[bank[b].line] = b
    BY <1>2, <1>3 DEF FetchOnTime
  <2>2. bank[b].st = "reading" /\ bank[b].t = 12 + TRP - a
    BY <1>0, <1>3, SlotFacts DEF SlotOnTime, OnTime, AtStage
  <2>3. /\ bank[b].t - TRP = 12 - a
        /\ (bank[b].col + 6 + TRP - bank[b].t) = bank[b].col + (a + 1 - 7)
    <3>1. bank[b].t \in 0 .. 11 /\ bank[b].col \in 0 .. 7 /\ TRP \in 2 .. 3
      BY <1>1 DEF SdramTypeOK, BankState, Offset
    <3> QED
      BY <1>3, <2>2, <3>1
  <2>4. Outputs(b) /\ BeatOf(b) = Beat(bank[b], a + 1)
    BY <1>3, <2>2, <2>3 DEF Outputs, BeatOf, Beat
  <2>5. \A n \in 7 .. 8 : ~IsSlot("writecache", b, n)
    <3>1. slot1 \in Owned /\ slot2 \in Owned => slot1_bank # slot2_bank
      BY DEF Running
    <3> QED
      BY <1>0, <3>1 DEF IsSlot, Owned, Reader
  <2>6. bank[b].line \in Line
    BY <1>1 DEF SdramTypeOK, BankState
  <2> QED
    BY <1>1, <2>1, <2>4, <2>5, <2>6, RowKept
<1>4. a \in 6 .. 13 => sdata_reg' = [valid |-> TRUE, line |-> bank[b].line,
                                     col |-> Beat(bank[b], a + 1),
                                     data |-> Content(bank[b].line, Beat(bank[b], a + 1))]
  BY <1>1, <1>3, SampledBank
<1>5. a = 3 => cmd.col = casaddr.col
  BY DEF FetchOnTime
<1> QED
  BY <1>1, <1>2, <1>3, <1>4, <1>5 DEF Beat

\* The facts of a running edge that the data depends on.
Moving(rq, rdreq, vga, reserve, refresh) ==
    Ticking(rq, rdreq, vga, reserve, refresh) /\ DataOnTime

LEMMA MovingFacts ==
    ASSUME NEW rq, NEW rdreq, NEW vga, NEW reserve, NEW refresh,
           Moving(rq, rdreq, vga, reserve, refresh)
    PROVE  /\ SdramTypeOK /\ init_done /\ Running /\ DataOnTime
           /\ Ticking(rq, rdreq, vga, reserve, refresh)
           /\ Phases(refresh) /\ Slots(rq, rdreq, vga, reserve, refresh)
           /\ WriteCache(rq) /\ Sample /\ ChipTick(cmd, dq)
           /\ rq \in Request /\ vga \in Line \union {NoLine} /\ refresh \in BOOLEAN
  BY DEF Moving, Ticking, SdramTick

\* The column of a slot that reads goes out with its CAS command.
LEMMA ReadColumn ==
    ASSUME SdramTypeOK, NEW port, NEW at, sdram_state \notin {2, 10}
    PROVE  /\ slot1 \in Reader /\ Age1 = 2 => SlotCommand(port, at).col = casaddr.col
           /\ slot2 \in Reader /\ Age2 = 2 => SlotCommand(port, at).col = casaddr.col
<1>1. \A reader \in Reader : CommandAt(reader, 3) = "READ"
  BY DEF CommandAt, Reader, Owned
<1> QED
  BY <1>1, CommandStep DEF To

LEMMA Fetch1Step ==
    ASSUME NEW rq, NEW rdreq, NEW vga, NEW reserve, NEW refresh,
           Moving(rq, rdreq, vga, reserve, refresh)
    PROVE  FetchOnTime(slot1, slot1_bank, Age1)'
<1> SUFFICES ASSUME slot1' \in Reader
             PROVE  /\ Age1' = 3 => cmd'.col = casaddr'.col
                    /\ Age1' \in 7 .. 14 =>
                         /\ BankOf[bank'[slot1_bank'].line] = slot1_bank'
                         /\ sdata_reg' = [valid |-> TRUE, line |-> bank'[slot1_bank'].line,
                              col |-> Beat(bank'[slot1_bank'], Age1'),
                              data |-> Content(bank[slot1_bank].line, Beat(bank[slot1_bank], Age1))']
  BY DEF FetchOnTime, Beat, Reader
<1>1. /\ SdramTypeOK /\ Running /\ Sample /\ ChipTick(cmd, dq)
      /\ FetchOnTime(slot1, slot1_bank, Age1)
  BY MovingFacts DEF DataOnTime
<1>2. CASE sdram_state = 2
  <2>1. Age1' = 0
    BY <1>2, MovingFacts, AgeStep
  <2> QED
    BY <2>1
<1>3. CASE sdram_state # 2
  <2>1. /\ slot1' = slot1 /\ slot1_bank' = slot1_bank
        /\ sdram_state # 10 => casaddr' = casaddr
        /\ sdram_state # 10 => \E port, at : cmd' = SlotCommand(port, at)
    BY <1>3, MovingFacts, GrantStep
  <2>2. Age1 \in 0 .. 14 /\ Age1' = Age1 + 1 /\ (sdram_state = 10 => Age1 = 7)
    BY <1>3, MovingFacts, AgeStep
  <2>3. Age1' = 3 => cmd'.col = casaddr'.col
    BY <1>1, <1>3, <2>1, <2>2, ReadColumn
  <2>4. ASSUME Age1 \in 6 .. 13
        PROVE  /\ BankOf[bank'[slot1_bank].line] = slot1_bank
               /\ ram'[bank'[slot1_bank].line] = ram[bank'[slot1_bank].line]
               /\ sdata_reg' = [valid |-> TRUE, line |-> bank'[slot1_bank].line,
                                col |-> Beat(bank'[slot1_bank], Age1 + 1),
                                data |-> Content(bank'[slot1_bank].line, Beat(bank'[slot1_bank], Age1 + 1))]
    BY <1>1, <2>1, <2>2, <2>4, FetchStep DEF IsSlot
  <2>5. Age1' \in 7 .. 14 => Age1 \in 6 .. 13
    BY <2>2
  <2> QED
    BY <2>1, <2>2, <2>3, <2>4, <2>5 DEF Content, Beat
<1> QED
  BY <1>2, <1>3

LEMMA Fetch2Step ==
    ASSUME NEW rq, NEW rdreq, NEW vga, NEW reserve, NEW refresh,
           Moving(rq, rdreq, vga, reserve, refresh)
    PROVE  FetchOnTime(slot2, slot2_bank, Age2)'
<1> SUFFICES ASSUME slot2' \in Reader
             PROVE  /\ Age2' = 3 => cmd'.col = casaddr'.col
                    /\ Age2' \in 7 .. 14 =>
                         /\ BankOf[bank'[slot2_bank'].line] = slot2_bank'
                         /\ sdata_reg' = [valid |-> TRUE, line |-> bank'[slot2_bank'].line,
                              col |-> Beat(bank'[slot2_bank'], Age2'),
                              data |-> Content(bank[slot2_bank].line, Beat(bank[slot2_bank], Age2))']
  BY DEF FetchOnTime, Beat, Reader
<1>1. /\ SdramTypeOK /\ Running /\ Sample /\ ChipTick(cmd, dq)
      /\ FetchOnTime(slot2, slot2_bank, Age2)
  BY MovingFacts DEF DataOnTime
<1>2. CASE sdram_state = 10
  <2>1. Age2' = 0
    BY <1>2, MovingFacts, AgeStep
  <2> QED
    BY <2>1
<1>3. CASE sdram_state # 10
  <2>1. /\ slot2' = slot2 /\ slot2_bank' = slot2_bank
        /\ sdram_state # 2 => casaddr' = casaddr
        /\ sdram_state # 2 => \E port, at : cmd' = SlotCommand(port, at)
    BY <1>3, MovingFacts, GrantStep
  <2>2. Age2 \in 0 .. 14 /\ Age2' = Age2 + 1 /\ (sdram_state = 2 => Age2 = 7)
    BY <1>3, MovingFacts, AgeStep
  <2>3. Age2' = 3 => cmd'.col = casaddr'.col
    BY <1>1, <1>3, <2>1, <2>2, ReadColumn
  <2>4. ASSUME Age2 \in 6 .. 13
        PROVE  /\ BankOf[bank'[slot2_bank].line] = slot2_bank
               /\ ram'[bank'[slot2_bank].line] = ram[bank'[slot2_bank].line]
               /\ sdata_reg' = [valid |-> TRUE, line |-> bank'[slot2_bank].line,
                                col |-> Beat(bank'[slot2_bank], Age2 + 1),
                                data |-> Content(bank'[slot2_bank].line, Beat(bank'[slot2_bank], Age2 + 1))]
    BY <1>1, <2>1, <2>2, <2>4, FetchStep DEF IsSlot
  <2>5. Age2' \in 7 .. 14 => Age2 \in 6 .. 13
    BY <2>2
  <2> QED
    BY <2>1, <2>2, <2>3, <2>4, <2>5 DEF Content, Beat
<1> QED
  BY <1>2, <1>3

\* A word with the half h of the write cache laid over it.
Lay(mask, data, word) == [lane \in Lane |-> IF lane \in mask THEN word[lane] ELSE data[lane]]
Over(h, word) == Lay(wc_dqm[h], wc_word[h], word)

LEMMA MaskedOver ==
    ASSUME NEW word \in WordValue, NEW mask, mask = Lane, NEW data
    PROVE  Lay(mask, data, word) = word
  BY DEF WordValue, Lay

\* Both writing and posting are the business of one slot.
LEMMA OneWriter ==
    ASSUME Posted, NEW b, NEW c, NEW i, NEW j,
           IsSlot("writecache", b, i), IsSlot("writecache", c, j)
    PROVE  b = c /\ i = j
  BY DEF Posted, IsSlot

\* What the device stores on an edge: the first half of the posted pair seven
\* clocks after its grant, the second half one clock later, nothing else.
LEMMA StoreStep ==
    ASSUME SdramTypeOK, Running, DataOnTime, ChipTick(cmd, dq), NEW l \in Line, NEW w \in Word
    PROVE  /\ ram[l][w] \in WordValue
           /\ ram'[l][w] =
                IF Writing({7}) /\ l = wc_addr.line /\ w = FirstOf(wc_addr.pair)
                THEN Over(0, ram[l][w])
                ELSE IF Writing({8}) /\ l = wc_addr.line /\ w = FirstOf(wc_addr.pair) + 1
                THEN Over(1, ram[l][w])
                ELSE ram[l][w]
<1> DEFINE c == BankOf[l]
           stored == Lay(dq.dqm, dq.data, ram[l][w])
           hit == bank[c].line = l /\ WritesTo(c, cmd, w)
<1>1. /\ c \in Bank /\ w \in Offset /\ ram[l][w] \in WordValue
      /\ ram'[l][w] = IF hit THEN stored ELSE ram[l][w]
  BY DEF SdramTypeOK, ChipTick, Lay
<1>2. dq.dqm = Lane => ram'[l][w] = ram[l][w]
  BY <1>1, MaskedOver
<1>3. ASSUME hit, dq.dqm # Lane
      PROVE  \E a \in 7 .. 8 : IsSlot("writecache", c, a)
  BY <1>1, <1>3, StoredBeat
<1>4. \A a \in 7 .. 8 : Writing({a}) <=> \E b : IsSlot("writecache", b, a)
  BY DEF Writing, IsSlot
<1>5. Posted /\ wc_addr.pair \in 0 .. 3 /\ wc_dqm \in [0 .. 1 -> SUBSET Lane]
      /\ wc_word \in [0 .. 1 -> WordValue]
  BY DEF DataOnTime, SdramTypeOK
<1> HIDE DEF c, stored, hit
<1>6. CASE ~Writing({7}) /\ ~Writing({8})
  <2>1. hit => dq.dqm = Lane
    BY <1>3, <1>4, <1>6
  <2> QED
    BY <1>1, <1>2, <1>6, <2>1
<1>7. CASE Writing({7})
  <2>1. PICK b : IsSlot("writecache", b, 7)
    BY <1>4, <1>7
  <2>2. /\ b \in Bank /\ SlotOnTime("writecache", b, 7)
        /\ CommandAt("writecache", 7) # "NOP" => cmd.op = CommandAt("writecache", 7)
    BY <2>1, SlotFacts DEF Owned
  <2>3. /\ bank[b].st = "open" /\ bank[b].line = casaddr.line /\ BankOf[casaddr.line] = b
        /\ cmd.op = "WRITE" /\ cmd.ba = b
    BY <2>2 DEF SlotOnTime, OnTime, AtStage, Opening, CommandAt, Owned, Reader
  <2>4. PostOnTime("writecache", b, 7)
    BY <2>1 DEF DataOnTime, IsSlot
  <2>5. /\ casaddr = [line |-> wc_addr.line, col |-> FirstOf(wc_addr.pair)]
        /\ cmd.col = FirstOf(wc_addr.pair) /\ dq = Drive(0)
    BY <2>4 DEF PostOnTime
  <2>6. ~Writing({8})
    BY <1>4, <1>5, <2>1, OneWriter
  <2>7. dq.dqm = wc_dqm[0] /\ stored = Over(0, ram[l][w])
    BY <2>5 DEF Drive, Over, stored
  <2>8. CASE c = b
    <3>1. hit <=> l = wc_addr.line /\ w = FirstOf(wc_addr.pair)
      BY <2>3, <2>5, <2>8 DEF hit, WritesTo
    <3> QED
      BY <1>1, <1>7, <2>6, <2>7, <3>1
  <2>9. CASE c # b
    <3>1. hit => dq.dqm = Lane
      BY <1>3, <1>5, <2>1, <2>9, OneWriter
    <3>2. l # wc_addr.line
      BY <2>3, <2>5, <2>9 DEF c
    <3> QED
      BY <1>1, <1>2, <2>6, <3>1, <3>2
  <2> QED
    BY <2>8, <2>9
<1>8. CASE Writing({8})
  <2>1. PICK b : IsSlot("writecache", b, 8)
    BY <1>4, <1>8
  <2>2. /\ b \in Bank /\ SlotOnTime("writecache", b, 8) /\ CommandAt("writecache", 8) = "NOP"
    BY <2>1, SlotFacts DEF Owned, CommandAt
  <2>3. bank[b].st = "writing" /\ bank[b].t = 1
    BY <2>2 DEF SlotOnTime, OnTime, AtStage, Owned, Reader
  <2>4. PostOnTime("writecache", b, 8)
    BY <2>1 DEF DataOnTime, IsSlot
  <2>5. /\ bank[b].line = wc_addr.line /\ bank[b].col = FirstOf(wc_addr.pair)
        /\ BankOf[wc_addr.line] = b /\ dq = Drive(1)
    BY <2>4 DEF PostOnTime
  <2>6. ~Writing({7})
    BY <1>4, <1>5, <2>1, OneWriter
  <2>7. dq.dqm = wc_dqm[1] /\ stored = Over(1, ram[l][w])
    BY <2>5 DEF Drive, Over, stored
  <2>8. ~ForBank(b) /\ cmd.op # "PREALL"
    <3>1. slot1 \in Owned /\ slot2 \in Owned => slot1_bank # slot2_bank
      BY DEF Running
    <3>2. ForBank(b) => cmd.op = "NOP"
      BY <2>1, <2>2, <3>1, WhoseCommand DEF IsSlot, Owned
    <3> QED
      BY <3>2, NoPreAll DEF ForBank
  <2>9. CASE c = b
    <3>1. WritesTo(c, cmd, w) <=> w = (bank[b].col + 1) % 8
      BY <2>3, <2>8, <2>9 DEF ForBank, WritesTo
    <3>2. (bank[b].col + 1) % 8 = FirstOf(wc_addr.pair) + 1
      BY <1>5, <2>5 DEF FirstOf
    <3>3. hit <=> l = wc_addr.line /\ w = FirstOf(wc_addr.pair) + 1
      BY <2>5, <2>9, <3>1, <3>2 DEF hit
    <3> QED
      BY <1>1, <1>8, <2>6, <2>7, <3>3
  <2>10. CASE c # b
    <3>1. hit => dq.dqm = Lane
      BY <1>3, <1>5, <2>1, <2>10, OneWriter
    <3>2. l # wc_addr.line
      BY <2>5, <2>10 DEF c
    <3> QED
      BY <1>1, <1>2, <2>6, <3>1, <3>2
  <2> QED
    BY <2>9, <2>10
<1> QED
  BY <1>1, <1>6, <1>7, <1>8

\* The phases of a write burst are the ages of the slot that sends it.
LEMMA WritingPhases ==
    ASSUME SdramTypeOK
    PROVE  /\ BeatPhases({7}, {15}) <=> Writing({4})
           /\ BeatPhases({9}, {1}) <=> Writing({6})
           /\ BeatPhases({10}, {2}) <=> Writing({7})
  BY DEF SdramTypeOK, BeatPhases, Writing, Age1, Age2, Since

LEMMA GrantWrite ==
    ASSUME SdramTypeOK, init_done, NEW rq, NEW rdreq, NEW vga \in Line \union {NoLine},
           NEW reserve, NEW refresh, Slots(rq, rdreq, vga, reserve, refresh)
    PROVE  /\ sdram_state = 2 /\ slot1' = "writecache" =>
                /\ wc_req /\ slot2 # "writecache"
                /\ casaddr' = [line |-> wc_addr.line, col |-> FirstOf(wc_addr.pair)]
           /\ sdram_state = 10 /\ slot2' = "writecache" =>
                /\ wc_req /\ slot1 # "writecache"
                /\ casaddr' = [line |-> wc_addr.line, col |-> FirstOf(wc_addr.pair)]
  BY DEF Slots, Grant1, Grant2, Slot1Choice, Slot2Choice, Slot2Grant, Target, FirstOf, SdramTypeOK

\* Where a write burst stands after the edge.
LEMMA WritingStep ==
    ASSUME NEW rq, NEW rdreq, NEW vga, NEW reserve, NEW refresh,
           Moving(rq, rdreq, vga, reserve, refresh)
    PROVE  /\ slot1' = "writecache" => slot2' # "writecache"
           /\ Writing(5 .. 7)' <=> Writing(4 .. 6)
           /\ Writing(6 .. 8)' <=> Writing(5 .. 7)
           /\ Writing(0 .. 8)' => wc_req \/ Writing(0 .. 7)
<1>1. /\ Age1 \in 0 .. 15 /\ Age2 \in 0 .. 15
      /\ Age1' = (IF Age1 = 15 THEN 0 ELSE Age1 + 1)
      /\ Age2' = (IF Age2 = 15 THEN 0 ELSE Age2 + 1)
      /\ sdram_state = 2 <=> Age1 = 15
      /\ sdram_state = 10 <=> Age2 = 15
  BY MovingFacts, AgeStep
<1>2. /\ sdram_state # 2 => slot1' = slot1
      /\ sdram_state # 10 => slot2' = slot2
      /\ slot1 = "writecache" => slot2 # "writecache"
  BY MovingFacts, GrantStep DEF DataOnTime, Posted
<1>3. /\ sdram_state = 2 /\ slot1' = "writecache" => wc_req /\ slot2 # "writecache"
      /\ sdram_state = 10 /\ slot2' = "writecache" => wc_req /\ slot1 # "writecache"
  BY MovingFacts, GrantWrite
<1>4. slot1' = "writecache" => slot2' # "writecache"
  BY <1>2, <1>3
<1>5. \A ages : Writing(ages)' <=> \/ slot1' = "writecache" /\ Age1' \in ages
                                   \/ slot2' = "writecache" /\ Age2' \in ages
  BY DEF Writing
<1> QED
  BY <1>1, <1>2, <1>3, <1>4, <1>5 DEF Writing

LEMMA PostedStep ==
    ASSUME NEW rq, NEW rdreq, NEW vga, NEW reserve, NEW refresh,
           Moving(rq, rdreq, vga, reserve, refresh)
    PROVE  Posted'
<1>1. /\ SdramTypeOK /\ init_done /\ Posted /\ WriteCache(rq) /\ Slots(rq, rdreq, vga, reserve, refresh)
  BY MovingFacts DEF DataOnTime
<1>2. wc_burst' <=> Writing(4 .. 6)
  <2>1. wc_burst' = Burst
    BY <1>1 DEF Slots
  <2>2. Writing(5 .. 7) /\ ~Writing({7}) => Writing(5 .. 6)
    BY <1>1, ApartAges DEF Writing
  <2>3. Writing(4 .. 6) <=> Writing({4}) \/ Writing(5 .. 6)
    BY <1>1, ApartAges DEF Writing
  <2>4. Writing(4 .. 6) => Writing({4}) \/ (Writing(5 .. 7) /\ ~Writing({7}))
    BY <1>1, ApartAges DEF Writing, Posted
  <2>5. Burst \in BOOLEAN /\ wc_burst \in BOOLEAN
    BY <1>1 DEF Burst, SdramTypeOK
  <2>6. Writing({4}) => ~Writing({7})
    BY <1>1, ApartAges DEF Writing, Posted
  <2> QED
    BY <1>1, <2>1, <2>2, <2>3, <2>4, <2>5, <2>6, WritingPhases DEF Burst, Posted
<1>3. (wc_state' = "fill") <=> Writing(5 .. 7)
  <2>1. Writing(5 .. 7) => Writing(0 .. 8)
    BY DEF Writing
  <2>2. Writing(5 .. 7) /\ wc_state = "waitwrite" => wc_dirty
    BY <1>1, <2>1 DEF Posted
  <2> QED
    BY <1>1, <2>2 DEF WriteCache, wcCloses, wcRetires, Posted, SdramTypeOK
<1>4. wc_req' <=> wc_dirty' /\ wc_state' = "waitwrite"
  BY <1>1 DEF WriteCache, wcCloses, wcRetires, wcAccepts, Posted, SdramTypeOK
<1>5. Writing(0 .. 8)' => wc_dirty'
  <2>1. wcRetires => ~Writing(0 .. 7)
    BY <1>1, ApartAges DEF wcRetires, Posted, Writing
  <2>2. wcRetires => ~wc_req
    BY <1>1 DEF wcRetires, Posted
  <2>3. Writing(0 .. 7) => Writing(0 .. 8)
    BY DEF Writing
  <2> QED
    BY <1>1, <2>1, <2>2, <2>3, WritingStep DEF WriteCache, Posted
<1>6. ~wc_dirty' => wc_dqm' = [h \in 0 .. 1 |-> Lane]
  BY <1>1 DEF WriteCache, Posted
<1>7. slot1' = "writecache" => slot2' # "writecache"
  BY WritingStep
<1>8. /\ Writing(5 .. 7)' <=> Writing(4 .. 6)
      /\ Writing(6 .. 8)' <=> Writing(5 .. 7)
  BY WritingStep
<1> QED
  BY <1>2, <1>3, <1>4, <1>5, <1>6, <1>7, <1>8 DEF Posted

\* What an edge does to the write cache while its pair is on its way out.
LEMMA PairStep ==
    ASSUME SdramTypeOK, Posted, NEW rq, WriteCache(rq)
    PROVE  /\ wc_dirty => wc_addr' = wc_addr
           /\ Writing(6 .. 7) => wc_word' = wc_word /\ wc_dqm' = wc_dqm
<1>1. wc_dirty => wc_addr' = wc_addr
  BY DEF WriteCache, wcAccepts
<1>2. ASSUME Writing(6 .. 7)
      PROVE  wc_word' = wc_word /\ wc_dqm' = wc_dqm
  <2>1. wc_state = "fill" /\ wc_burst
    BY <1>2 DEF Posted, Writing
  <2> QED
    BY <2>1 DEF WriteCache, wcAccepts, wcRetires
<1> QED
  BY <1>1, <1>2

\* The write burst of a slot, from one clock to the next.
LEMMA PostStep ==
    ASSUME SdramTypeOK, Running, DataOnTime, ChipTick(cmd, dq), NEW rq, WriteCache(rq),
           NEW b, NEW a \in 0 .. 14, IsSlot("writecache", b, a)
    PROVE  /\ a \in 0 .. 7 => /\ casaddr = [line |-> wc_addr.line, col |-> FirstOf(wc_addr.pair)]
                              /\ wc_addr' = wc_addr
           /\ a \in 6 .. 7 => Drive(0)' = Drive(0) /\ Drive(1)' = Drive(1)
           /\ a = 7 =>
                /\ bank'[b].line = wc_addr.line /\ bank'[b].col = FirstOf(wc_addr.pair)
                /\ BankOf[wc_addr.line] = b
                /\ FirstOf(wc_addr.pair) \in Word =>
                     \A lane \in Lane \ wc_dqm[0] :
                        ram'[wc_addr.line][FirstOf(wc_addr.pair)][lane] = wc_word'[0][lane]
<1>1. Posted /\ PostOnTime("writecache", b, a)
  BY DEF DataOnTime, IsSlot
<1>2. a \in 0 .. 7 => casaddr = [line |-> wc_addr.line, col |-> FirstOf(wc_addr.pair)]
  BY <1>1 DEF PostOnTime
<1>3. a \in 0 .. 7 => wc_addr' = wc_addr
  <2>1. a \in 0 .. 7 => Writing(0 .. 8)
    BY DEF IsSlot, Writing
  <2> QED
    BY <1>1, <2>1, PairStep DEF Posted
<1>4. a \in 6 .. 7 => wc_word' = wc_word /\ wc_dqm' = wc_dqm
  <2>1. a \in 6 .. 7 => Writing(6 .. 7)
    BY DEF IsSlot, Writing
  <2> QED
    BY <1>1, <2>1, PairStep
<1>5. ASSUME a = 7
      PROVE  /\ bank'[b].line = wc_addr.line /\ bank'[b].col = FirstOf(wc_addr.pair)
             /\ BankOf[wc_addr.line] = b
             /\ FirstOf(wc_addr.pair) \in Word =>
                  \A lane \in Lane \ wc_dqm[0] :
                     ram'[wc_addr.line][FirstOf(wc_addr.pair)][lane] = wc_word'[0][lane]
  <2>1. /\ b \in Bank
        /\ bank'[b].line = bank[b].line /\ bank'[b].col = cmd.col
    <3>1. "writecache" \in Owned /\ CommandAt("writecache", 7) = "WRITE"
      BY DEF CommandAt, Owned, Reader
    <3>2. bank' = [k \in Bank |-> NextBank(k, cmd)]
      BY DEF ChipTick
    <3>3. /\ b \in Bank
          /\ bank'[b].line = IF a = 0 THEN cmd.line ELSE bank[b].line
          /\ bank'[b].col = IF CommandAt("writecache", a) \in {"READ", "WRITE"} THEN cmd.col
                            ELSE bank[b].col
      BY <3>1, <3>2, AccessStep
    <3> QED
      BY <1>5, <3>1, <3>3
  <2>2. bank[b].line = casaddr.line /\ BankOf[casaddr.line] = b
    BY <1>5, SlotFacts DEF SlotOnTime, OnTime, Owned
  <2>3. cmd.col = FirstOf(wc_addr.pair) /\ casaddr.line = wc_addr.line
    BY <1>1, <1>5 DEF PostOnTime
  <2>4. Writing({7})
    BY <1>5 DEF IsSlot, Writing
  <2>5. wc_addr.line \in Line
    BY DEF SdramTypeOK
  <2>6. FirstOf(wc_addr.pair) \in Word =>
           ram'[wc_addr.line][FirstOf(wc_addr.pair)]
             = Over(0, ram[wc_addr.line][FirstOf(wc_addr.pair)])
    BY <2>4, <2>5, StoreStep
  <2> QED
    BY <1>4, <1>5, <2>1, <2>2, <2>3, <2>6 DEF Over, Lay
<1> QED
  BY <1>2, <1>3, <1>4, <1>5 DEF Drive

LEMMA BurstData ==
    ASSUME SdramTypeOK, DataOnTime
    PROVE  /\ Writing({6}) => SlotData = Drive(0)
           /\ Writing({7}) => SlotData = Drive(1)
<1>1. Writing({7}) => ~Writing({6})
  BY ApartAges DEF DataOnTime, Posted, Writing
<1>2. /\ BeatPhases({9}, {1}) <=> Writing({6})
      /\ BeatPhases({10}, {2}) <=> Writing({7})
  BY WritingPhases
<1>3. BeatPhases({11, 12}, {3, 4}) => ~BeatPhases({9}, {1}) /\ ~BeatPhases({10}, {2})
  BY DEF BeatPhases, DataOnTime, Posted, SdramTypeOK
<1> QED
  BY <1>1, <1>2, <1>3 DEF SlotData

LEMMA Post1Step ==
    ASSUME NEW rq, NEW rdreq, NEW vga, NEW reserve, NEW refresh,
           Moving(rq, rdreq, vga, reserve, refresh)
    PROVE  PostOnTime(slot1, slot1_bank, Age1)'
<1> SUFFICES ASSUME slot1' = "writecache"
             PROVE  PostOnTime(slot1, slot1_bank, Age1)'
  BY DEF PostOnTime
<1>1. /\ SdramTypeOK /\ Running /\ DataOnTime /\ ChipTick(cmd, dq) /\ WriteCache(rq) /\ Posted
  BY MovingFacts DEF DataOnTime
<1>2. CASE sdram_state = 2
  <2>1. wc_req /\ casaddr' = [line |-> wc_addr.line, col |-> FirstOf(wc_addr.pair)]
    BY <1>2, MovingFacts, GrantWrite
  <2>2. wc_addr' = wc_addr
    BY <1>1, <2>1, PairStep DEF Posted
  <2>3. Age1' = 0
    BY <1>2, MovingFacts, AgeStep
  <2> QED
    BY <2>1, <2>2, <2>3 DEF PostOnTime, FirstOf
<1>3. CASE sdram_state # 2
  <2>1. /\ slot1 = "writecache" /\ slot1_bank' = slot1_bank
        /\ sdram_state # 10 => casaddr' = casaddr
        /\ sdram_state # 10 => \E port, at : cmd' = SlotCommand(port, at)
        /\ dq' = SlotData
    BY <1>3, MovingFacts, GrantStep
  <2>2. Age1 \in 0 .. 14 /\ Age1' = Age1 + 1 /\ (sdram_state = 10 => Age1 = 7)
    BY <1>3, MovingFacts, AgeStep
  <2>3. IsSlot("writecache", slot1_bank, Age1)
    BY <2>1 DEF IsSlot
  <2>4. Age1 = 6 => cmd'.col = casaddr.col
    BY <1>1, <1>3, <2>1, <2>2, CommandStep DEF CommandAt, To, Owned, Reader
  <2>5. (Age1 = 6 => dq' = Drive(0)) /\ (Age1 = 7 => dq' = Drive(1))
    <3>1. (Age1 = 6 => Writing({6})) /\ (Age1 = 7 => Writing({7}))
      BY <2>1 DEF Writing
    <3> QED
      BY <1>1, <2>1, <3>1, BurstData
  <2>6. CASE Age1 = 6
    BY <1>1, <2>1, <2>2, <2>3, <2>4, <2>5, <2>6, PostStep DEF PostOnTime, FirstOf
  <2>7. CASE Age1 = 7
    <3>1. wc_dqm' = wc_dqm /\ wc_addr' = wc_addr
      BY <1>1, <2>3, <2>7, PairStep DEF Posted, Writing, IsSlot
    <3> QED
      BY <1>1, <2>1, <2>2, <2>3, <2>5, <2>7, <3>1, PostStep DEF PostOnTime, FirstOf
  <2>8. CASE Age1 \notin {6, 7}
    BY <1>1, <2>1, <2>2, <2>3, <2>8, PostStep DEF PostOnTime, FirstOf
  <2> QED
    BY <2>6, <2>7, <2>8
<1> QED
  BY <1>2, <1>3

LEMMA Post2Step ==
    ASSUME NEW rq, NEW rdreq, NEW vga, NEW reserve, NEW refresh,
           Moving(rq, rdreq, vga, reserve, refresh)
    PROVE  PostOnTime(slot2, slot2_bank, Age2)'
<1> SUFFICES ASSUME slot2' = "writecache"
             PROVE  PostOnTime(slot2, slot2_bank, Age2)'
  BY DEF PostOnTime
<1>1. /\ SdramTypeOK /\ Running /\ DataOnTime /\ ChipTick(cmd, dq) /\ WriteCache(rq) /\ Posted
  BY MovingFacts DEF DataOnTime
<1>2. CASE sdram_state = 10
  <2>1. wc_req /\ casaddr' = [line |-> wc_addr.line, col |-> FirstOf(wc_addr.pair)]
    BY <1>2, MovingFacts, GrantWrite
  <2>2. wc_addr' = wc_addr
    BY <1>1, <2>1, PairStep DEF Posted
  <2>3. Age2' = 0
    BY <1>2, MovingFacts, AgeStep
  <2> QED
    BY <2>1, <2>2, <2>3 DEF PostOnTime, FirstOf
<1>3. CASE sdram_state # 10
  <2>1. /\ slot2 = "writecache" /\ slot2_bank' = slot2_bank
        /\ sdram_state # 2 => casaddr' = casaddr
        /\ sdram_state # 2 => \E port, at : cmd' = SlotCommand(port, at)
        /\ dq' = SlotData
    BY <1>3, MovingFacts, GrantStep
  <2>2. Age2 \in 0 .. 14 /\ Age2' = Age2 + 1 /\ (sdram_state = 2 => Age2 = 7)
    BY <1>3, MovingFacts, AgeStep
  <2>3. IsSlot("writecache", slot2_bank, Age2)
    BY <2>1 DEF IsSlot
  <2>4. Age2 = 6 => cmd'.col = casaddr.col
    BY <1>1, <1>3, <2>1, <2>2, CommandStep DEF CommandAt, To, Owned, Reader
  <2>5. (Age2 = 6 => dq' = Drive(0)) /\ (Age2 = 7 => dq' = Drive(1))
    <3>1. (Age2 = 6 => Writing({6})) /\ (Age2 = 7 => Writing({7}))
      BY <2>1 DEF Writing
    <3> QED
      BY <1>1, <2>1, <3>1, BurstData
  <2>6. CASE Age2 = 6
    BY <1>1, <2>1, <2>2, <2>3, <2>4, <2>5, <2>6, PostStep DEF PostOnTime, FirstOf
  <2>7. CASE Age2 = 7
    <3>1. wc_dqm' = wc_dqm /\ wc_addr' = wc_addr
      BY <1>1, <2>3, <2>7, PairStep DEF Posted, Writing, IsSlot
    <3> QED
      BY <1>1, <2>1, <2>2, <2>3, <2>5, <2>7, <3>1, PostStep DEF PostOnTime, FirstOf
  <2>8. CASE Age2 \notin {6, 7}
    BY <1>1, <2>1, <2>2, <2>3, <2>8, PostStep DEF PostOnTime, FirstOf
  <2> QED
    BY <2>6, <2>7, <2>8
<1> QED
  BY <1>2, <1>3

\* Before the RAM is usable nothing is fetched and nothing is sent.
LEMMA QuietData ==
    ASSUME slot1 = "refresh", slot2 = "idle"
    PROVE  /\ \A ages : ~Writing(ages)
           /\ FetchOnTime(slot1, slot1_bank, Age1) /\ FetchOnTime(slot2, slot2_bank, Age2)
           /\ PostOnTime(slot1, slot1_bank, Age1) /\ PostOnTime(slot2, slot2_bank, Age2)
  BY DEF Writing, FetchOnTime, PostOnTime, Reader

LEMMA InitData == SdramInit => DataOnTime
<1> SUFFICES ASSUME SdramInit PROVE DataOnTime
  OBVIOUS
<1>1. slot1 = "refresh" /\ slot2 = "idle" /\ init_done = FALSE /\ initstate = 0 /\ sdram_state = 0
  BY DEF SdramInit
<1>2. Posted
  BY <1>1, QuietData DEF SdramInit, Posted
<1>3. Strobes
  BY <1>1 DEF SdramInit, Strobes
<1> QED
  BY <1>1, <1>2, <1>3, QuietData DEF DataOnTime

LEMMA QuietStep ==
    ASSUME SdramTypeOK, ~init_done, StartUp, DataOnTime, NEW rq, NEW rdreq, NEW vga, NEW reserve,
           NEW refresh, SdramTick(rq, rdreq, vga, reserve, refresh)
    PROVE  DataOnTime'
<1>1. /\ slot1 = "refresh" /\ slot2 = "idle" /\ slot1' = "refresh" /\ slot2' = "idle"
      /\ wc_burst' = wc_burst
      /\ Phases(refresh) /\ WriteCache(rq)
  BY DEF StartUp, SdramTick, Slots
<1>2. Strobes'
  BY <1>1, StrobesStep DEF DataOnTime
<1>3. /\ \A ages : ~Writing(ages) /\ ~Writing(ages)'
      /\ FetchOnTime(slot1, slot1_bank, Age1)' /\ FetchOnTime(slot2, slot2_bank, Age2)'
      /\ PostOnTime(slot1, slot1_bank, Age1)' /\ PostOnTime(slot2, slot2_bank, Age2)'
  BY <1>1 DEF Writing, FetchOnTime, PostOnTime, Reader
<1>4. Posted'
  BY <1>1, <1>3 DEF DataOnTime, Posted, WriteCache, wcCloses, wcRetires, wcAccepts, SdramTypeOK
<1> QED
  BY <1>2, <1>3, <1>4 DEF DataOnTime

LEMMA InitTimeline == SdramInit => Timeline
  BY InitSchedule, InitData DEF Timeline

\* One edge keeps every access and its data on schedule.
LEMMA TimelineStep ==
    ASSUME SdramTypeOK, Timeline, NEW rq \in Request, NEW rdreq,
           NEW vga \in Line \union {NoLine}, NEW reserve, NEW refresh \in BOOLEAN,
           SdramTick(rq, rdreq, vga, reserve, refresh)
    PROVE  Timeline'
<1>1. Schedule'
  BY ScheduleStep DEF Timeline
<1>2. CASE init_done
  <2>1. Moving(rq, rdreq, vga, reserve, refresh)
    BY <1>2 DEF Moving, Ticking, Timeline, Schedule
  <2>2. Strobes'
    BY StrobesStep DEF Timeline, DataOnTime, SdramTick
  <2>3. DataOnTime'
    BY <2>1, <2>2, PostedStep, Fetch1Step, Fetch2Step, Post1Step, Post2Step DEF DataOnTime
  <2> QED
    BY <1>1, <2>3 DEF Timeline
<1>3. CASE ~init_done
  BY <1>1, <1>3, QuietStep DEF Timeline, Schedule
<1> QED
  BY <1>2, <1>3

\* Start-up stores nothing.
LEMMA QuietRam ==
    ASSUME SdramTypeOK, StartUp, ChipTick(cmd, dq), NEW l \in Line, NEW w \in Word
    PROVE  ram'[l][w] = ram[l][w]
<1>1. ~WritesTo(BankOf[l], cmd, w)
  BY Defaults DEF StartUp, WritesTo
<1> QED
  BY <1>1 DEF ChipTick

\* What the device stores on an edge, in every state the controller reaches.
LEMMA RamStep ==
    ASSUME SdramTypeOK, Timeline, ChipTick(cmd, dq), NEW l \in Line, NEW w \in Word
    PROVE  /\ ram[l][w] \in WordValue
           /\ ram'[l][w] =
                IF Writing({7}) /\ l = wc_addr.line /\ w = FirstOf(wc_addr.pair)
                THEN Over(0, ram[l][w])
                ELSE IF Writing({8}) /\ l = wc_addr.line /\ w = FirstOf(wc_addr.pair) + 1
                THEN Over(1, ram[l][w])
                ELSE ram[l][w]
<1>1. CASE init_done
  BY <1>1, StoreStep DEF Timeline, Schedule
<1>2. CASE ~init_done
  <2>1. StartUp /\ ~Writing({7}) /\ ~Writing({8})
    BY <1>2 DEF Timeline, Schedule, StartUp, Writing
  <2> QED
    BY <2>1, QuietRam DEF SdramTypeOK
<1> QED
  BY <1>1, <1>2

-----------------------------------------------------------------------------
(* What a reader must find.                                                *)

LEMMA HalfOfPair ==
    \A w \in Offset : /\ w % 2 \in 0 .. 1 /\ w \div 2 \in 0 .. 3
                      /\ \A p \in 0 .. 3 : /\ w = FirstOf(p) <=> w \div 2 = p /\ w % 2 = 0
                                           /\ w = FirstOf(p) + 1 <=> w \div 2 = p /\ w % 2 = 1
                      /\ \A v \in Offset : w \div 2 = v \div 2 /\ w % 2 = v % 2 => w = v
  BY DEF Offset, FirstOf

\* The word the write cache holds for this address, if it does.
Held(l, w) == wc_dirty /\ wc_addr.line = l /\ wc_addr.pair = w \div 2

LEMMA EffectiveWord ==
    ASSUME SdramTypeOK, NEW l \in Line, NEW w \in Word
    PROVE  Effective(l, w) = IF Held(l, w) THEN Over(w % 2, ram[l][w]) ELSE ram[l][w]
<1>1. w % 2 \in 0 .. 1 /\ w \in Offset
  BY HalfOfPair
<1>2. wc_addr = [line |-> l, pair |-> w \div 2] <=> wc_addr.line = l /\ wc_addr.pair = w \div 2
  BY DEF SdramTypeOK
<1>3. ram[l][w] \in WordValue
  BY DEF SdramTypeOK
<1> QED
  BY <1>1, <1>2, <1>3 DEF Effective, Held, Over, Lay, WordValue

\* The bytes a bus cycle writes, laid over a word.
Written(rq, word) == [lane \in Lane |-> IF lane \in rq.lanes THEN rq.data[lane] ELSE word[lane]]

\* A write accepted while the pair waits goes into the pair and nowhere else.
LEMMA MergeStep ==
    ASSUME SdramTypeOK, Posted, NEW rq \in Request, WriteCache(rq), wcAccepts(rq),
           NEW l \in Line, NEW w \in Word, NEW word \in WordValue
    PROVE  (IF wc_dirty' /\ wc_addr'.line = l /\ wc_addr'.pair = w \div 2
            THEN Lay(wc_dqm'[w % 2], wc_word'[w % 2], word) ELSE word)
             = LET old == IF Held(l, w) THEN Over(w % 2, word) ELSE word
               IN  IF l = rq.line /\ w = rq.word THEN Written(rq, old) ELSE old
<1> DEFINE h == w % 2
           hr == Half(rq)
           old == IF Held(l, w) THEN Over(h, word) ELSE word
<1>1. /\ w \in Offset /\ h \in 0 .. 1 /\ rq.word \in Offset /\ hr \in 0 .. 1
      /\ wc_dqm \in [0 .. 1 -> SUBSET Lane] /\ wc_word \in [0 .. 1 -> WordValue]
      /\ rq.lanes \in SUBSET Lane /\ rq.data \in WordValue
  BY HalfOfPair DEF Half, Request, SdramTypeOK
<1>2. /\ wc_dirty' /\ wc_addr'.line = rq.line /\ wc_addr'.pair = rq.word \div 2
      /\ wc_dirty => wc_addr.line = rq.line /\ wc_addr.pair = rq.word \div 2
      /\ ~wc_dirty => wc_dqm = [i \in 0 .. 1 |-> Lane]
  <2>1. PairOf(rq).line = rq.line /\ PairOf(rq).pair = rq.word \div 2
    BY DEF PairOf
  <2>2. wc_addr' = PairOf(rq) /\ (wc_dirty => wc_addr = PairOf(rq)) /\ ~wcRetires
    BY DEF WriteCache, wcAccepts, wcRetires
  <2>3. wc_dirty'
    BY <2>2 DEF WriteCache
  <2> QED
    BY <2>1, <2>2, <2>3 DEF Posted
<1>3. /\ wc_word' = [wc_word EXCEPT ![hr] = [lane \in Lane |-> IF lane \in rq.lanes THEN rq.data[lane]
                                                               ELSE @[lane]]]
      /\ wc_dqm' = [wc_dqm EXCEPT ![hr] = @ \ rq.lanes]
  BY DEF WriteCache, wcAccepts, wcRetires
<1>4. w = rq.word <=> w \div 2 = rq.word \div 2 /\ h = hr
  BY <1>1, HalfOfPair DEF Half
<1>5. CASE l = rq.line /\ w \div 2 = rq.word \div 2
  <2>1. old = Over(h, word)
    <3>1. CASE wc_dirty
      BY <1>2, <1>5, <3>1 DEF Held
    <3>2. CASE ~wc_dirty
      <4>1. wc_dqm[h] = Lane
        BY <1>1, <1>2, <3>2
      <4>2. Over(h, word) = word
        BY <4>1, MaskedOver DEF Over
      <4> QED
        BY <3>2, <4>2 DEF Held
    <3> QED
      BY <3>1, <3>2
  <2> HIDE DEF h, hr, old
  <2>2. CASE h # hr
    <3>1. wc_word'[h] = wc_word[h] /\ wc_dqm'[h] = wc_dqm[h]
      BY <1>1, <1>3, <2>2
    <3>2. w # rq.word
      BY <1>4, <2>2
    <3> QED
      BY <1>2, <1>5, <2>1, <3>1, <3>2 DEF Over, h, old
  <2>3. CASE h = hr
    <3>1. wc_dqm'[h] = wc_dqm[h] \ rq.lanes
      BY <1>1, <1>3, <2>3
    <3>2. wc_word'[h] = [lane \in Lane |-> IF lane \in rq.lanes THEN rq.data[lane]
                                           ELSE wc_word[h][lane]]
      BY <1>1, <1>3, <2>3
    <3>3. w = rq.word
      BY <1>4, <1>5, <2>3
    <3>4. Lay(wc_dqm'[h], wc_word'[h], word) = Written(rq, Lay(wc_dqm[h], wc_word[h], word))
      BY <3>1, <3>2 DEF Lay, Written
    <3> QED
      BY <1>2, <1>5, <2>1, <3>3, <3>4 DEF Over, h, old
  <2> QED
    BY <2>2, <2>3
<1>6. CASE ~(l = rq.line /\ w \div 2 = rq.word \div 2)
  <2>1. ~Held(l, w)
    BY <1>2, <1>6 DEF Held
  <2>2. ~(l = rq.line /\ w = rq.word)
    BY <1>6
  <2> QED
    BY <1>2, <1>6, <2>1, <2>2
<1> QED
  BY <1>5, <1>6

\* Every edge leaves the memory a reader sees as it was, up to the write it
\* accepts: merging, sending, masking and retiring the pair are invisible.
LEMMA EffectiveStep ==
    ASSUME SdramTypeOK, Timeline, NEW rq \in Request, WriteCache(rq), ChipTick(cmd, dq),
           SdramTypeOK', NEW l \in Line, NEW w \in Word
    PROVE  Effective(l, w)' = IF wcAccepts(rq) /\ l = rq.line /\ w = rq.word
                              THEN Written(rq, Effective(l, w)) ELSE Effective(l, w)
<1> DEFINE h == w % 2
<1>1. /\ w \in Offset /\ h \in 0 .. 1 /\ w \div 2 \in 0 .. 3 /\ wc_addr.pair \in 0 .. 3
      /\ wc_dqm \in [0 .. 1 -> SUBSET Lane] /\ wc_word \in [0 .. 1 -> WordValue]
  BY HalfOfPair DEF SdramTypeOK
<1>2. Posted /\ ram[l][w] \in WordValue /\ DataOnTime
  BY DEF Timeline, DataOnTime, SdramTypeOK
<1>3. Effective(l, w) = IF Held(l, w) THEN Over(h, ram[l][w]) ELSE ram[l][w]
  BY EffectiveWord
<1>4. Effective(l, w)' = IF wc_dirty' /\ wc_addr'.line = l /\ wc_addr'.pair = w \div 2
                         THEN Lay(wc_dqm'[h], wc_word'[h], ram'[l][w]) ELSE ram'[l][w]
  <2>1. /\ wc_addr'.line \in Line /\ wc_addr' \in [line : Line, pair : 0 .. 3]
        /\ ram'[l][w] \in WordValue
    BY DEF SdramTypeOK
  <2>2. wc_addr' = [line |-> l, pair |-> w \div 2] <=> wc_addr'.line = l /\ wc_addr'.pair = w \div 2
    BY <2>1
  <2> QED
    BY <2>1, <2>2 DEF Effective, Lay, WordValue
<1>5. /\ Writing({7}) => Writing(5 .. 7) /\ Writing(6 .. 8)
      /\ Writing({8}) => Writing(6 .. 8)
      /\ Writing(6 .. 8) => Writing({8}) \/ Writing(5 .. 7)
      /\ Writing(6 .. 8) => Writing(0 .. 8)
  BY DEF Writing
<1>6. ram'[l][w] = IF Writing({7}) /\ l = wc_addr.line /\ w = FirstOf(wc_addr.pair)
                   THEN Over(0, ram[l][w])
                   ELSE IF Writing({8}) /\ l = wc_addr.line /\ w = FirstOf(wc_addr.pair) + 1
                   THEN Over(1, ram[l][w])
                   ELSE ram[l][w]
  BY RamStep
<1>7. /\ w = FirstOf(wc_addr.pair) <=> wc_addr.pair = w \div 2 /\ h = 0
      /\ w = FirstOf(wc_addr.pair) + 1 <=> wc_addr.pair = w \div 2 /\ h = 1
  BY <1>1, HalfOfPair
<1> HIDE DEF h
<1>8. CASE wcAccepts(rq)
  <2>1. ~Writing({7}) /\ ~Writing({8})
    BY <1>2, <1>5, <1>8 DEF Posted, wcAccepts
  <2>2. ram'[l][w] = ram[l][w]
    BY <1>6, <2>1
  <2> QED
    BY <1>2, <1>3, <1>4, <1>8, <2>2, MergeStep DEF h
<1>9. CASE wcRetires
  <2>1. /\ Writing({8}) /\ ~Writing({7}) /\ wc_dirty /\ ~wc_dirty'
        /\ ~wcAccepts(rq)
    BY <1>2, <1>5, <1>9 DEF Posted, wcRetires, wcAccepts, WriteCache
  <2>2. Effective(l, w)' = ram'[l][w]
    BY <1>4, <2>1
  <2>3. CASE Held(l, w) /\ h = 0
    <3>1. w = FirstOf(wc_addr.pair) /\ l = wc_addr.line /\ w # FirstOf(wc_addr.pair) + 1
      BY <1>7, <2>3 DEF Held
    <3>2. ram'[l][w] = ram[l][w]
      BY <1>6, <2>1, <3>1
    <3>3. \A lane \in Lane \ wc_dqm[0] : ram[l][w][lane] = wc_word[0][lane]
      <4>1. PICK b : PostOnTime("writecache", b, 8)
        BY <1>2, <2>1 DEF DataOnTime, Writing
      <4> QED
        BY <3>1, <4>1 DEF PostOnTime
    <3>4. Over(0, ram[l][w]) = ram[l][w]
      BY <1>1, <1>2, <3>3 DEF Over, Lay, WordValue
    <3> QED
      BY <1>3, <2>1, <2>2, <2>3, <3>2, <3>4
  <2>4. CASE Held(l, w) /\ h = 1
    <3>1. w = FirstOf(wc_addr.pair) + 1 /\ l = wc_addr.line
      BY <1>7, <2>4 DEF Held
    <3> QED
      BY <1>3, <1>6, <2>1, <2>2, <2>4, <3>1
  <2>5. CASE ~Held(l, w)
    <3>1. ~(l = wc_addr.line /\ wc_addr.pair = w \div 2)
      BY <2>1, <2>5 DEF Held
    <3> QED
      BY <1>3, <1>6, <1>7, <2>1, <2>2, <2>5, <3>1
  <2> QED
    BY <1>1, <2>3, <2>4, <2>5
<1>10. CASE ~wcAccepts(rq) /\ ~wcRetires
  <2>1. /\ wc_addr' = wc_addr /\ wc_word' = wc_word /\ wc_dqm' = wc_dqm /\ (wc_dirty' <=> wc_dirty)
    BY <1>10 DEF WriteCache
  <2>2. ~Writing({8})
    <3>1. Writing({8}) => ~Writing(5 .. 7)
      BY <1>2, ApartAges DEF Writing, Posted
    <3> QED
      BY <1>2, <1>5, <1>10, <3>1 DEF Posted, wcRetires
  <2>3. Writing({7}) => wc_dirty
    BY <1>2, <1>5 DEF Posted
  <2>4. Effective(l, w)' = IF Held(l, w) THEN Over(h, ram'[l][w]) ELSE ram'[l][w]
    BY <1>4, <2>1 DEF Held, Over
  <2>5. CASE Writing({7}) /\ l = wc_addr.line /\ w = FirstOf(wc_addr.pair)
    <3>1. Held(l, w) /\ h = 0 /\ ram'[l][w] = Over(0, ram[l][w])
      BY <1>6, <1>7, <2>3, <2>5 DEF Held
    <3>2. Over(0, Over(0, ram[l][w])) = Over(0, ram[l][w])
      BY DEF Over, Lay
    <3> QED
      BY <1>3, <1>10, <2>4, <3>1, <3>2
  <2>6. CASE ~(Writing({7}) /\ l = wc_addr.line /\ w = FirstOf(wc_addr.pair))
    BY <1>3, <1>6, <1>10, <2>2, <2>4, <2>6
  <2> QED
    BY <2>5, <2>6
<1> QED
  BY <1>8, <1>9, <1>10

-----------------------------------------------------------------------------
(* Where the controller begins, and steps that leave it alone.             *)

LEMMA InitSdramType == SdramInit => SdramTypeOK
<1> SUFFICES ASSUME SdramInit PROVE SdramTypeOK
  OBVIOUS
<1>1. bank \in [Bank -> BankState] /\ ram \in [Line -> [Word -> WordValue]]
  BY Defaults DEF SdramInit, ChipInit, At, BankState, Offset, WordValue
<1>2. cmd \in Command /\ dq \in DataPins
  BY Defaults DEF SdramInit, Nop, Bare, Release, Command, DataPins, Offset
<1>3. /\ sdata_reg \in [valid : BOOLEAN, line : Line, col : Offset, data : WordValue]
      /\ casaddr \in [line : Line, col : Offset]
      /\ wc_addr \in [line : Line, pair : 0 .. 3]
  <2>1. NoBeat \in [valid : BOOLEAN, line : Line, col : Offset, data : WordValue]
    BY Defaults DEF NoBeat, Offset
  <2> QED
    BY <2>1, Defaults DEF SdramInit, Offset
<1>4. wc_word \in [0 .. 1 -> WordValue] /\ wc_dqm \in [0 .. 1 -> SUBSET Lane]
  BY Defaults DEF SdramInit
<1>5. /\ slot1 \in Port /\ slot2 \in Port \ {"refresh", "port0"}
      /\ slot1_bank \in Bank /\ slot2_bank \in Bank
  BY Defaults DEF SdramInit, Port
<1>6. /\ sdram_state \in 0 .. 15 /\ initstate \in 0 .. 15
      /\ init_done \in BOOLEAN /\ slot1_fill \in BOOLEAN /\ slot2_fill \in BOOLEAN
      /\ refreshpending \in BOOLEAN /\ vga_rsp \in {"none", "ack", "nak"}
  <2>1. sdram_state \in 0 .. 15 /\ initstate \in 0 .. 15
    BY DEF SdramInit
  <2>2. /\ init_done \in BOOLEAN /\ slot1_fill \in BOOLEAN /\ slot2_fill \in BOOLEAN
        /\ refreshpending \in BOOLEAN /\ vga_rsp \in {"none", "ack", "nak"}
    BY Zenon DEF SdramInit
  <2> QED
    BY <2>1, <2>2
<1>7. /\ wc_state \in {"waitwrite", "fill"}
      /\ wc_req \in BOOLEAN /\ wc_dirty \in BOOLEAN /\ wc_dtack \in BOOLEAN
      /\ wc_burst \in BOOLEAN
  BY DEF SdramInit
<1> QED
  BY <1>1, <1>2, <1>3, <1>4, <1>5, <1>6, <1>7 DEF SdramTypeOK

LEMMA StutterTimeline == Timeline /\ UNCHANGED sdramVars => Timeline'
<1> SUFFICES ASSUME Timeline, UNCHANGED sdramVars PROVE Timeline'
  OBVIOUS
<1>1. /\ UNCHANGED <<sdram_state, initstate, init_done, slot1_fill, slot2_fill>>
      /\ UNCHANGED <<slot1, slot2, slot1_bank, slot2_bank, casaddr, cmd, dq, wc_burst>>
      /\ UNCHANGED <<wc_state, wc_addr, wc_word, wc_dqm, wc_req, wc_dirty>>
      /\ UNCHANGED <<sdata_reg, bank, ram>>
  BY DEF sdramVars, phaseVars, slotVars, wcVars, chipVars
<1>2. Schedule'
  BY <1>1 DEF Timeline, Schedule, Running, StartUp, SlotOnTime, PinsAccounted, Active,
              Age1, Age2, Since
<1>3. Strobes' /\ Posted'
  BY <1>1 DEF Timeline, DataOnTime, Strobes, Posted, Writing, Age1, Age2, Since
<1>4. FetchOnTime(slot1, slot1_bank, Age1)' /\ FetchOnTime(slot2, slot2_bank, Age2)'
  BY <1>1 DEF Timeline, DataOnTime, FetchOnTime, Beat, Content, Age1, Age2, Since
<1>5. PostOnTime(slot1, slot1_bank, Age1)' /\ PostOnTime(slot2, slot2_bank, Age2)'
  BY <1>1 DEF Timeline, DataOnTime, PostOnTime, FirstOf, Drive, Age1, Age2, Since
<1> QED
  BY <1>2, <1>3, <1>4, <1>5 DEF Timeline, DataOnTime
=============================================================================
