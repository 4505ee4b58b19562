---------------------------- MODULE Sdram_proofs ----------------------------
(***************************************************************************)
(* Theorems about the SDRAM controller between its clients, for any lines, *)
(* banks, data, device timing and schedule of requests.                    *)
(***************************************************************************)
EXTENDS Sdram, SdramTimeline_proofs

USE ChipAssumption, ContentAssumption, NoLineAssumption, ClientAssumption

-----------------------------------------------------------------------------
(* Types.                                                                  *)

LEMMA IdleType == Idle \in Request
  BY Defaults DEF Idle, Request, Offset

LEMMA ClientType ==
    ASSUME TypeOK, NEW vga \in Line \union {NoLine}, NEW reserve \in Line \union {NoLine},
           Cpu, Dma(vga, reserve)
    PROVE  /\ rq' \in Request /\ rdbeats' \in 0 .. 7
           /\ vgaline' \in Line \union {NoLine} /\ vgabeats' \in 0 .. 7
           /\ reserved' \in Line \union {NoLine}
           /\ stored' \in [Line -> [Word -> WordValue]]
<1>1. rdbeats' \in 0 .. 7 /\ vgabeats' \in 0 .. 7
  BY DEF TypeOK, Cpu, Dma
<1>2. rq' \in Request
  BY IdleType DEF TypeOK, Cpu
<1>3. vgaline' \in Line \union {NoLine} /\ reserved' \in Line \union {NoLine}
  BY DEF TypeOK, Dma
<1>4. stored' \in [Line -> [Word -> WordValue]]
  <2>1. ASSUME NEW w \in WordValue
        PROVE  [lane \in Lane |-> IF lane \in rq.lanes THEN rq.data[lane] ELSE w[lane]] \in WordValue
    BY DEF TypeOK, Request, WordValue
  <2> QED
    BY <2>1 DEF TypeOK, Cpu
<1> QED
  BY <1>1, <1>2, <1>3, <1>4

LEMMA InitType == Init => TypeOK
<1> SUFFICES ASSUME Init PROVE TypeOK
  OBVIOUS
<1>1. SdramTypeOK
  BY InitSdramType DEF Init
<1>2. rq \in Request
  BY IdleType DEF Init
<1>3. stored \in [Line -> [Word -> WordValue]]
  BY <1>1 DEF Init, SdramTypeOK
<1> QED
  BY <1>1, <1>2, <1>3 DEF Init, TypeOK

LEMMA StepType ==
    ASSUME TypeOK, NEW vga \in Line \union {NoLine}, NEW reserve \in Line \union {NoLine},
           NEW refresh \in BOOLEAN, Tick(vga, reserve, refresh)
    PROVE  TypeOK'
<1>1. SdramTypeOK /\ rq \in Request
  BY DEF TypeOK
<1>3. SdramTypeOK'
  BY <1>1, ControllerType DEF Tick
<1> QED
  BY <1>3, ClientType DEF TypeOK, Tick

\* Every step is a clock edge with some requests on the ports.
LEMMA NextTick ==
    ASSUME Next
    PROVE  \E vga, reserve \in Line \union {NoLine}, refresh \in BOOLEAN : Tick(vga, reserve, refresh)
  BY DEF Next, VgaRequests, Reservations

\* Every register of the controller, its clients and the device stays within
\* its range, and no access leaves the address ranges of its port.
THEOREM TypeCorrect == Spec => []TypeOK
<1>1. TypeOK /\ [Next]_vars => TypeOK'
  <2>1. TypeOK /\ Next => TypeOK'
    BY NextTick, StepType
  <2>2. TypeOK /\ UNCHANGED vars => TypeOK'
    BY DEF vars, sdramVars, phaseVars, slotVars, wcVars, chipVars, clientVars, TypeOK, SdramTypeOK
  <2> QED
    BY <2>1, <2>2
<1> QED
  BY InitType, <1>1, PTL DEF Spec

-----------------------------------------------------------------------------
(* Commands.                                                               *)

\* Each access and its data follow their schedule from the phase that grants a
\* slot to the phase that may reuse its bank, in every state the controller
\* reaches.
THEOREM TimelineKept == Spec => []Timeline
<1>1. TypeOK /\ Timeline /\ [Next]_vars => Timeline'
  <2>1. TypeOK /\ Timeline /\ Next => Timeline'
    BY NextTick, TimelineStep DEF Tick, TypeOK
  <2> QED
    BY <2>1, StutterTimeline DEF vars
<1>2. Init => Timeline
  BY InitTimeline DEF Init
<1> QED
  BY <1>1, <1>2, TypeCorrect, PTL DEF Spec

\* For any device with up to three clocks of tRCD and tRP, any assignment of
\* lines to banks and any requests, every command meets its bank in a state
\* that allows it.
THEOREM CommandsAlwaysLegal == Spec => []CommandsLegal
<1>1. TypeOK /\ Timeline => CommandsLegal
  BY LegalOnTime DEF TypeOK, Timeline, CommandsLegal
<1> QED
  BY TypeCorrect, TimelineKept, <1>1, PTL

\* Reads and writes in flight in the two slots never collide on the data bus,
\* and no beat of a write burst stores an undriven bus.
THEOREM DataBusAlwaysExclusive == Spec => []DataBusExclusive
<1>1. TypeOK /\ Timeline => DataBusExclusive
  BY ExclusiveOnTime DEF TypeOK, Timeline, DataBusExclusive
<1> QED
  BY TypeCorrect, TimelineKept, <1>1, PTL

-----------------------------------------------------------------------------
(* Posted writes.                                                          *)

LEMMA StutterEffective ==
    ASSUME UNCHANGED vars, NEW l, NEW w
    PROVE  Effective(l, w)' = Effective(l, w)
  BY DEF vars, sdramVars, wcVars, chipVars, Effective

LEMMA InitEffective ==
    ASSUME Init, NEW l \in Line, NEW w \in Word
    PROVE  Effective(l, w) = stored[l][w]
<1>1. ram[l][w] \in WordValue /\ wc_dirty = FALSE /\ stored = ram
  BY DEF Init, SdramInit, ChipInit, WordValue
<1> QED
  BY <1>1 DEF Effective, WordValue

LEMMA StoredStep ==
    ASSUME TypeOK, Cpu, NEW l \in Line, NEW w \in Word
    PROVE  stored'[l][w] = IF wcAccepts(rq) /\ l = rq.line /\ w = rq.word
                           THEN Written(rq, stored[l][w]) ELSE stored[l][w]
<1>1. stored' = [m \in Line |-> [v \in Word |->
                    IF wcAccepts(rq) /\ m = rq.line /\ v = rq.word
                    THEN Written(rq, stored[m][v]) ELSE stored[m][v]]]
  BY DEF Cpu, Written
<1> QED
  BY <1>1

\* For any sequence of bus cycles, every byte the CPU was acknowledged is in
\* the write cache or in the device: no merge, write burst, mask or retirement
\* of a pair loses one or brings back an old one.
THEOREM PostedWritesAreKept == Spec => []PostedWritesKept
<1>1. TypeOK /\ TypeOK' /\ Timeline /\ PostedWritesKept /\ [Next]_vars => PostedWritesKept'
  <2> SUFFICES ASSUME TypeOK, TypeOK', Timeline, PostedWritesKept, [Next]_vars,
                      NEW l \in Line, NEW w \in Word
               PROVE  (Effective(l, w) = stored[l][w])'
    BY DEF PostedWritesKept
  <2>1. Effective(l, w) = stored[l][w]
    BY DEF PostedWritesKept
  <2>2. CASE Next
    <3>1. PICK vga, reserve \in Line \union {NoLine}, refresh \in BOOLEAN : Tick(vga, reserve, refresh)
      BY <2>2, NextTick
    <3>2. WriteCache(rq) /\ ChipTick(cmd, dq) /\ Cpu /\ rq \in Request
      BY <3>1 DEF Tick, SdramTick, TypeOK
    <3>3. Effective(l, w)' = IF wcAccepts(rq) /\ l = rq.line /\ w = rq.word
                             THEN Written(rq, Effective(l, w)) ELSE Effective(l, w)
      BY <3>2, EffectiveStep DEF TypeOK
    <3> QED
      BY <2>1, <3>2, <3>3, StoredStep
  <2>3. CASE UNCHANGED vars
    BY <2>1, <2>3, StutterEffective DEF vars, clientVars
  <2> QED
    BY <2>2, <2>3
<1>2. Init => PostedWritesKept
  BY InitEffective DEF PostedWritesKept
<1> QED
  BY <1>1, <1>2, TypeCorrect, TimelineKept, PTL DEF Spec

-----------------------------------------------------------------------------
(* Fills.                                                                  *)

\* Where the access of a slot goes: the column latch has it until the CAS
\* command, the bank from then on.
Where(b, a) == IF a < 4 THEN casaddr ELSE [line |-> bank[b].line, col |-> bank[b].col]

\* The CPU's read in a slot is the one it waits for, until its words come.
ReadInStep(port, b, a) ==
    port = "port1" =>
        /\ a \in 0 .. 7 => rdreq /\ Where(b, a) = [line |-> rq.line, col |-> rq.word]
        /\ a \in 8 .. 14 => rdbeats = a - 7
ReadsInStep ==
    /\ ReadInStep(slot1, slot1_bank, Age1) /\ ReadInStep(slot2, slot2_bank, Age2)
    /\ rdbeats # 0 => \/ slot1 = "port1" /\ Age1 \in 8 .. 14
                      \/ slot2 = "port1" /\ Age2 \in 8 .. 14

\* The DMA port counts the words of the burst in slot 1, or waits for none.
DmaInStep ==
    IF slot1 = "port0" /\ Age1 # 15
    THEN /\ Where(slot1_bank, Age1) = [line |-> vgaline, col |-> 0]
         /\ vgaline # NoLine
         /\ vgabeats = IF Age1 < 8 THEN 0 ELSE Age1 - 7
    ELSE vgaline = NoLine /\ vgabeats = 0

\* Both clients count the words of the accesses that are under way for them.
ClientsInStep == ReadsInStep /\ DmaInStep /\ (~init_done => rq.op = "idle")

\* A strobe comes for a read or a DMA burst at ages 7 to 14.
LEMMA WhoseStrobe ==
    ASSUME TypeOK, Timeline
    PROVE  /\ readcache_fill <=> init_done /\ \/ slot1 = "port1" /\ Age1 \in 7 .. 14
                                              \/ slot2 = "port1" /\ Age2 \in 7 .. 14
           /\ vga_fill <=> init_done /\ slot1 = "port0" /\ Age1 \in 7 .. 14
<1>1. SdramTypeOK /\ slot2 # "port0" /\ Strobes
  BY DEF TypeOK, SdramTypeOK, Timeline, DataOnTime
<1>2. ~init_done => slot1 = "refresh" /\ slot2 = "idle"
  BY DEF Timeline, Schedule, StartUp
<1> QED
  BY <1>1, <1>2, StrobeAges DEF readcache_fill, vga_fill, FillFor

\* Whose strobe it is says which word it brings.
LEMMA StrobedWord ==
    ASSUME TypeOK, Timeline, ClientsInStep
    PROVE  FillsDelivered
<1>1. SdramTypeOK /\ DataOnTime
  BY DEF TypeOK, Timeline
<1>2. \A k \in BankState, a \in 7 .. 14 : k.col = 0 => Beat(k, a) = a - 7
  <2> SUFFICES ASSUME NEW k \in BankState, NEW a \in 7 .. 14, k.col = 0
               PROVE  (k.col + (a - 7)) % 8 = a - 7
    BY DEF Beat
  <2>1. k.col + (a - 7) \in 0 .. 7 /\ k.col + (a - 7) = a - 7
    OBVIOUS
  <2> QED
    BY <2>1, NextBeat
<1>3. \A k \in BankState : Beat(k, 7) = k.col
  BY DEF Beat, BankState, Offset
<1>4. ASSUME readcache_fill, rdbeats = 0
      PROVE  rq.op = "read" /\ Expected(rq.line, rq.word)
  <2>1. PICK port, b, a : /\ port = "port1" /\ a \in 7 .. 14 /\ IsSlot(port, b, a)
                          /\ ReadInStep(port, b, a) /\ FetchOnTime(port, b, a)
    BY <1>1, <1>4, WhoseStrobe DEF IsSlot, ClientsInStep, ReadsInStep, DataOnTime
  <2>2. a = 7
    BY <1>4, <2>1 DEF ReadInStep
  <2>3. b \in Bank /\ bank[b] \in BankState
    BY <1>1, <2>1 DEF IsSlot, SdramTypeOK
  <2>4. rdreq /\ bank[b].line = rq.line /\ bank[b].col = rq.word
    BY <2>1, <2>2 DEF ReadInStep, Where
  <2>5. sdata_reg.valid /\ sdata_reg.line = bank[b].line /\ sdata_reg.col = bank[b].col
    BY <1>3, <2>1, <2>2, <2>3 DEF FetchOnTime, Reader
  <2> QED
    BY <2>4, <2>5 DEF Expected, rdreq
<1>5. rdbeats # 0 => readcache_fill
  <2>1. ~init_done => slot1 = "refresh" /\ slot2 = "idle"
    BY DEF Timeline, Schedule, StartUp
  <2> QED
    BY <2>1, WhoseStrobe DEF ClientsInStep, ReadsInStep
<1>6. ASSUME vga_fill
      PROVE  vgaline # NoLine /\ Expected(vgaline, vgabeats)
  <2>1. slot1 = "port0" /\ Age1 \in 7 .. 14
    BY <1>6, WhoseStrobe
  <2>2. /\ bank[slot1_bank].line = vgaline /\ bank[slot1_bank].col = 0
        /\ vgaline # NoLine /\ vgabeats = Age1 - 7
    BY <2>1 DEF ClientsInStep, DmaInStep, Where
  <2>3. bank[slot1_bank] \in BankState
    BY <1>1 DEF SdramTypeOK
  <2>4. sdata_reg.valid /\ sdata_reg.line = vgaline /\ sdata_reg.col = Beat(bank[slot1_bank], Age1)
    BY <1>1, <2>1, <2>2 DEF DataOnTime, FetchOnTime, Reader
  <2> QED
    BY <1>2, <2>1, <2>2, <2>3, <2>4 DEF Expected
<1>7. vgabeats # 0 => vga_fill
  <2>1. ~init_done => slot1 = "refresh"
    BY DEF Timeline, Schedule, StartUp
  <2> QED
    BY <1>1, <2>1, ApartAges, WhoseStrobe DEF ClientsInStep, DmaInStep
<1> QED
  BY <1>4, <1>5, <1>6, <1>7 DEF FillsDelivered

LEMMA InitClients == Init => ClientsInStep
  BY DEF Init, SdramInit, Idle, ClientsInStep, ReadsInStep, ReadInStep, DmaInStep

LEMMA StutterClients == ClientsInStep /\ UNCHANGED vars => ClientsInStep'
  BY DEF vars, clientVars, sdramVars, phaseVars, slotVars, chipVars, ClientsInStep, ReadsInStep,
         ReadInStep, DmaInStep, Where, rdreq, Age1, Age2, Since

\* One clock edge with the clients in step.
Stepping(vga, reserve, refresh) ==
    /\ TypeOK /\ Timeline /\ ClientsInStep /\ init_done
    /\ vga \in Line \union {NoLine} /\ refresh \in BOOLEAN
    /\ Tick(vga, reserve, refresh)

LEMMA SteppingFacts ==
    ASSUME NEW vga, NEW reserve, NEW refresh, Stepping(vga, reserve, refresh)
    PROVE  /\ TypeOK /\ SdramTypeOK /\ init_done /\ Running /\ DataOnTime
           /\ ClientsInStep /\ ReadsInStep /\ DmaInStep
           /\ vga \in Line \union {NoLine} /\ refresh \in BOOLEAN
           /\ Phases(refresh) /\ Slots(rq, rdreq, vga, reserve, refresh)
           /\ Sample /\ ChipTick(cmd, dq) /\ Cpu /\ Dma(vga, reserve)
  BY DEF Stepping, TypeOK, Timeline, Schedule, ClientsInStep, Tick, SdramTick

\* Two reads are never under way at once, except that the older one may be past
\* its last word.
LEMMA OneRead ==
    ASSUME TypeOK, Timeline, ClientsInStep, init_done
    PROVE  slot1 = "port1" /\ slot2 = "port1" => Age1 = 15 \/ Age2 = 15
  <1>1. /\ Age1 \in 0 .. 15
        /\ Age2 = IF Age1 < 8 THEN Age1 + 8 ELSE Age1 - 8
    BY ApartAges DEF TypeOK
  <1> QED
    BY <1>1 DEF ClientsInStep, ReadsInStep, ReadInStep, rdreq

\* The access of a read from one clock to the next.
LEMMA ReadStep ==
    ASSUME NEW vga, NEW reserve, NEW refresh, Stepping(vga, reserve, refresh),
           NEW b, NEW a \in 0 .. 14, IsSlot("port1", b, a)
    PROVE  /\ a \in 0 .. 6 => rdreq' /\ rq' = rq
           /\ a \in 0 .. 2 => casaddr = [line |-> rq.line, col |-> rq.word]
           /\ a \in 3 .. 6 => bank'[b].line = rq.line /\ bank'[b].col = rq.word
           /\ a \in 7 .. 13 => rdbeats' = a - 6
           /\ a = 14 => rdbeats' = 0
<1>1. ReadInStep("port1", b, a) /\ FetchOnTime("port1", b, a)
  BY SteppingFacts DEF IsSlot, ReadsInStep, DataOnTime
<1>2. /\ Age1 \in 0 .. 15
      /\ Age2 = IF Age1 < 8 THEN Age1 + 8 ELSE Age1 - 8
  BY SteppingFacts, ApartAges
<1>3. a \in 7 .. 14 => readcache_fill
  BY SteppingFacts, WhoseStrobe DEF Stepping, IsSlot
<1>4. rdbeats' = IF readcache_fill THEN (rdbeats + 1) % 8 ELSE rdbeats
  BY SteppingFacts DEF Cpu
<1>5. ASSUME a \in 0 .. 6
      PROVE  rdreq' /\ rq' = rq
  <2>1. rdreq /\ rq.op = "read" /\ rdbeats = 0
    BY <1>1, <1>5 DEF ReadInStep, rdreq
  <2>2. ~readcache_fill
    <3>1. ASSUME readcache_fill PROVE FALSE
      <4>1. \/ slot1 = "port1" /\ Age1 \in 7 .. 14
            \/ slot2 = "port1" /\ Age2 \in 7 .. 14
        BY <3>1, WhoseStrobe DEF Stepping
      <4>2. slot1 = "port1" /\ slot2 = "port1"
        BY <1>2, <1>5, <4>1 DEF IsSlot
      <4>3. Age1 = 15 \/ Age2 = 15
        BY <4>2, OneRead DEF Stepping
      <4> QED
        BY <1>2, <1>5, <4>1, <4>3 DEF IsSlot
    <3> QED
      BY <3>1
  <2>3. rq' = rq
    BY <2>1, <2>2, SteppingFacts DEF Cpu
  <2> QED
    BY <1>4, <2>1, <2>2, <2>3 DEF rdreq
<1>6. a \in 0 .. 2 => casaddr = [line |-> rq.line, col |-> rq.word]
  BY <1>1 DEF ReadInStep, Where
<1>7. ASSUME a \in 3 .. 6
      PROVE  bank'[b].line = rq.line /\ bank'[b].col = rq.word
  <2>1. /\ bank'[b].line = bank[b].line
        /\ a = 3 => bank'[b].line = casaddr.line /\ bank'[b].col = casaddr.col
        /\ a \in 4 .. 14 => bank'[b].col = bank[b].col
    BY <1>1, <1>7, SteppingFacts, FetchStep DEF Reader
  <2> QED
    BY <1>1, <1>7, <2>1 DEF ReadInStep, Where
<1>8. ASSUME a \in 7 .. 14
      PROVE  rdbeats' = IF a = 14 THEN 0 ELSE a - 6
  <2>1. rdbeats = a - 7
    BY <1>1, <1>8 DEF ReadInStep, rdreq
  <2>2. rdbeats \in 0 .. 7 /\ rdbeats + 1 = a - 6
    BY <1>8, <2>1
  <2>3. (rdbeats + 1) % 8 = IF rdbeats < 7 THEN rdbeats + 1 ELSE 0
    BY <2>2, NextBeat
  <2>4. rdbeats' = (rdbeats + 1) % 8
    BY <1>3, <1>4, <1>8
  <2> QED
    BY <1>8, <2>2, <2>3, <2>4
<1> QED
  BY <1>5, <1>6, <1>7, <1>8

\* A slot is granted to the read cache for the word the CPU waits for, and
\* never while that word is already on its way.
LEMMA GrantRead ==
    ASSUME NEW vga, NEW reserve, NEW refresh, Stepping(vga, reserve, refresh)
    PROVE  /\ sdram_state = 2 /\ slot1' = "port1" =>
                rdreq' /\ rq' = rq /\ casaddr' = [line |-> rq.line, col |-> rq.word]
           /\ sdram_state = 10 /\ slot2' = "port1" =>
                rdreq' /\ rq' = rq /\ casaddr' = [line |-> rq.line, col |-> rq.word]
<1>1. /\ SdramTypeOK /\ init_done /\ DataOnTime /\ ReadsInStep /\ Cpu
      /\ Slots(rq, rdreq, vga, reserve, refresh) /\ Phases(refresh)
  BY SteppingFacts
<1>2. /\ sdram_state = 2 <=> Age1 = 15
      /\ sdram_state = 10 <=> Age2 = 15
      /\ Age1 \in 0 .. 15
      /\ Age2 = IF Age1 < 8 THEN Age1 + 8 ELSE Age1 - 8
  BY SteppingFacts, AgeStep
<1>3. ASSUME sdram_state = 2, slot1' = "port1"
      PROVE  /\ rdreq /\ Clear(rq.line, slot2, slot2_bank)
             /\ casaddr' = [line |-> rq.line, col |-> rq.word]
  BY <1>1, <1>3 DEF Slots, Grant1, Slot1Choice, Target
<1>4. ASSUME sdram_state = 10, slot2' = "port1"
      PROVE  /\ rdreq /\ Clear(rq.line, slot1, slot1_bank)
             /\ casaddr' = [line |-> rq.line, col |-> rq.word]
  BY <1>1, <1>4 DEF Slots, Grant2, Slot2Choice, Slot2Grant, Target
<1>5. ASSUME rdreq, ~readcache_fill
      PROVE  rdreq' /\ rq' = rq
  BY <1>1, <1>5 DEF Cpu, rdreq
<1>6. ASSUME sdram_state = 2, slot1' = "port1"
      PROVE  ~readcache_fill
  <2> SUFFICES ASSUME readcache_fill PROVE FALSE
    OBVIOUS
  <2>1. Age1 = 15 /\ Age2 = 7 /\ slot2 = "port1"
    BY <1>2, <1>6, WhoseStrobe DEF Stepping
  <2>2. bank[slot2_bank].line = rq.line /\ BankOf[bank[slot2_bank].line] = slot2_bank
    BY <1>1, <2>1 DEF ReadsInStep, ReadInStep, Where, DataOnTime, FetchOnTime, Reader
  <2> QED
    BY <1>3, <1>6, <2>1, <2>2 DEF Clear
<1>7. ASSUME sdram_state = 10, slot2' = "port1"
      PROVE  ~readcache_fill
  <2> SUFFICES ASSUME readcache_fill PROVE FALSE
    OBVIOUS
  <2>1. Age2 = 15 /\ Age1 = 7 /\ slot1 = "port1"
    BY <1>2, <1>7, WhoseStrobe DEF Stepping
  <2>2. bank[slot1_bank].line = rq.line /\ BankOf[bank[slot1_bank].line] = slot1_bank
    BY <1>1, <2>1 DEF ReadsInStep, ReadInStep, Where, DataOnTime, FetchOnTime, Reader
  <2> QED
    BY <1>4, <1>7, <2>1, <2>2 DEF Clear
<1> QED
  BY <1>3, <1>4, <1>5, <1>6, <1>7

LEMMA Read1Step ==
    ASSUME NEW vga, NEW reserve, NEW refresh, Stepping(vga, reserve, refresh)
    PROVE  ReadInStep(slot1, slot1_bank, Age1)'
<1> SUFFICES ASSUME slot1' = "port1"
             PROVE  /\ Age1' \in 0 .. 7 =>
                         rdreq' /\ Where(slot1_bank, Age1)' = [line |-> rq'.line, col |-> rq'.word]
                    /\ Age1' \in 8 .. 14 => rdbeats' = Age1' - 7
  BY DEF ReadInStep
<1>1. CASE sdram_state = 2
  <2>1. Age1' = 0
    BY <1>1, SteppingFacts, AgeStep
  <2> QED
    BY <1>1, <2>1, GrantRead DEF Where
<1>2. CASE sdram_state # 2
  <2>1. slot1 = "port1" /\ slot1_bank' = slot1_bank /\ (sdram_state # 10 => casaddr' = casaddr)
    BY <1>2, SteppingFacts, GrantStep
  <2>2. Age1 \in 0 .. 14 /\ Age1' = Age1 + 1 /\ (sdram_state = 10 => Age1 = 7)
    BY <1>2, SteppingFacts, AgeStep
  <2>3. /\ Age1 \in 0 .. 6 => rdreq' /\ rq' = rq
        /\ Age1 \in 0 .. 2 => casaddr = [line |-> rq.line, col |-> rq.word]
        /\ Age1 \in 3 .. 6 => bank'[slot1_bank].line = rq.line /\ bank'[slot1_bank].col = rq.word
        /\ Age1 \in 7 .. 13 => rdbeats' = Age1 - 6
    BY <2>1, <2>2, ReadStep DEF IsSlot
  <2> QED
    BY <2>1, <2>2, <2>3 DEF Where
<1> QED
  BY <1>1, <1>2

LEMMA Read2Step ==
    ASSUME NEW vga, NEW reserve, NEW refresh, Stepping(vga, reserve, refresh)
    PROVE  ReadInStep(slot2, slot2_bank, Age2)'
<1> SUFFICES ASSUME slot2' = "port1"
             PROVE  /\ Age2' \in 0 .. 7 =>
                         rdreq' /\ Where(slot2_bank, Age2)' = [line |-> rq'.line, col |-> rq'.word]
                    /\ Age2' \in 8 .. 14 => rdbeats' = Age2' - 7
  BY DEF ReadInStep
<1>1. CASE sdram_state = 10
  <2>1. Age2' = 0
    BY <1>1, SteppingFacts, AgeStep
  <2> QED
    BY <1>1, <2>1, GrantRead DEF Where
<1>2. CASE sdram_state # 10
  <2>1. slot2 = "port1" /\ slot2_bank' = slot2_bank /\ (sdram_state # 2 => casaddr' = casaddr)
    BY <1>2, SteppingFacts, GrantStep
  <2>2. Age2 \in 0 .. 14 /\ Age2' = Age2 + 1 /\ (sdram_state = 2 => Age2 = 7)
    BY <1>2, SteppingFacts, AgeStep
  <2>3. /\ Age2 \in 0 .. 6 => rdreq' /\ rq' = rq
        /\ Age2 \in 0 .. 2 => casaddr = [line |-> rq.line, col |-> rq.word]
        /\ Age2 \in 3 .. 6 => bank'[slot2_bank].line = rq.line /\ bank'[slot2_bank].col = rq.word
        /\ Age2 \in 7 .. 13 => rdbeats' = Age2 - 6
    BY <2>1, <2>2, ReadStep DEF IsSlot
  <2> QED
    BY <2>1, <2>2, <2>3 DEF Where
<1> QED
  BY <1>1, <1>2

\* A fill that has begun goes on in its slot until its last word.
LEMMA BeatsStep ==
    ASSUME NEW vga, NEW reserve, NEW refresh, Stepping(vga, reserve, refresh), rdbeats' # 0
    PROVE  \/ slot1' = "port1" /\ Age1' \in 8 .. 14
           \/ slot2' = "port1" /\ Age2' \in 8 .. 14
<1>1. readcache_fill
  <2>1. rdbeats # 0 => readcache_fill
    BY WhoseStrobe, SteppingFacts DEF Stepping, ReadsInStep
  <2> QED
    BY <2>1, SteppingFacts DEF Cpu
<1>2. \/ slot1 = "port1" /\ Age1 \in 7 .. 14
      \/ slot2 = "port1" /\ Age2 \in 7 .. 14
  BY <1>1, WhoseStrobe DEF Stepping
<1>3. CASE slot1 = "port1" /\ Age1 \in 7 .. 14
  <2>1. Age1 # 14
    BY <1>3, ReadStep DEF IsSlot
  <2>2. slot1' = slot1 /\ Age1' = Age1 + 1
    BY <1>3, SteppingFacts, AgeStep, GrantStep
  <2> QED
    BY <1>3, <2>1, <2>2
<1>4. CASE slot2 = "port1" /\ Age2 \in 7 .. 14
  <2>1. Age2 # 14
    BY <1>4, ReadStep DEF IsSlot
  <2>2. slot2' = slot2 /\ Age2' = Age2 + 1
    BY <1>4, SteppingFacts, AgeStep, GrantStep
  <2> QED
    BY <1>4, <2>1, <2>2
<1> QED
  BY <1>2, <1>3, <1>4

LEMMA DmaStep ==
    ASSUME NEW vga, NEW reserve, NEW refresh, Stepping(vga, reserve, refresh)
    PROVE  DmaInStep'
<1>1. /\ SdramTypeOK /\ init_done /\ Running /\ DataOnTime /\ DmaInStep
      /\ Slots(rq, rdreq, vga, reserve, refresh) /\ Sample /\ ChipTick(cmd, dq)
      /\ vga \in Line \union {NoLine}
  BY SteppingFacts
<1>2. /\ vgaline' = IF sdram_state = 2 /\ Grant1(rq, rdreq, vga) = "port0" THEN vga
                    ELSE IF vga_fill /\ vgabeats = 7 THEN NoLine ELSE vgaline
      /\ vgabeats' = IF vga_fill THEN (vgabeats + 1) % 8 ELSE vgabeats
      /\ slot1' = Grant1(rq, rdreq, vga)
      /\ vga_fill <=> slot1 = "port0" /\ Age1 \in 7 .. 14
  BY <1>1, SteppingFacts, WhoseStrobe DEF Stepping, Dma, Slots
<1>3. Age1 \in 0 .. 15 /\ Age1' = (IF Age1 = 15 THEN 0 ELSE Age1 + 1) /\ (sdram_state = 2 <=> Age1 = 15)
  BY SteppingFacts, AgeStep
<1>4. CASE sdram_state = 2
  <2>1. ~vga_fill /\ vgaline = NoLine /\ vgabeats = 0 /\ vgabeats' = 0
    BY <1>1, <1>2, <1>3, <1>4 DEF DmaInStep
  <2>2. CASE slot1' = "port0"
    <3>1. vga \in Line /\ casaddr' = [line |-> vga, col |-> 0]
      BY <1>1, <1>2, <1>4, <2>2, GrantType DEF Slots, Target
    <3> QED
      BY <1>2, <1>3, <1>4, <2>1, <2>2, <3>1, NoLineAssumption DEF DmaInStep, Where
  <2>3. CASE slot1' # "port0"
    BY <1>2, <1>4, <2>1, <2>3 DEF DmaInStep
  <2> QED
    BY <2>2, <2>3
<1>5. CASE sdram_state # 2 /\ slot1 = "port0"
  <2>1. /\ slot1' = "port0" /\ slot1_bank' = slot1_bank
        /\ sdram_state # 10 => casaddr' = casaddr
    BY <1>5, SteppingFacts, GrantStep
  <2>2. Age1 \in 0 .. 14 /\ Age1' = Age1 + 1 /\ (sdram_state = 10 => Age1 = 7)
    BY <1>5, SteppingFacts, AgeStep
  <2>3. /\ Where(slot1_bank, Age1) = [line |-> vgaline, col |-> 0] /\ vgaline # NoLine
        /\ vgabeats = IF Age1 < 8 THEN 0 ELSE Age1 - 7
    BY <1>1, <1>5, <2>2 DEF DmaInStep
  <2>4. /\ Age1 \in 3 .. 14 => bank'[slot1_bank].line = bank[slot1_bank].line
        /\ Age1 = 3 => bank'[slot1_bank].line = casaddr.line /\ bank'[slot1_bank].col = casaddr.col
        /\ Age1 \in 4 .. 14 => bank'[slot1_bank].col = bank[slot1_bank].col
    BY <1>1, <1>5, <2>2, FetchStep DEF IsSlot, Reader, DataOnTime
  <2>5. vgabeats' = IF Age1 < 7 THEN 0 ELSE IF Age1 = 14 THEN 0 ELSE Age1 - 6
    <3>1. vgabeats \in 0 .. 7
      BY <2>2, <2>3
    <3>2. CASE vga_fill
      <4>1. Age1 \in 7 .. 14 /\ vgabeats = Age1 - 7
        BY <1>2, <2>3, <3>2
      <4>2. (vgabeats + 1) % 8 = IF vgabeats < 7 THEN vgabeats + 1 ELSE 0
        BY <3>1, NextBeat
      <4>3. vgabeats' = (vgabeats + 1) % 8
        BY <1>2, <3>2
      <4> QED
        BY <4>1, <4>2, <4>3
    <3>3. CASE ~vga_fill
      BY <1>2, <1>5, <2>2, <2>3, <3>3
    <3> QED
      BY <3>2, <3>3
  <2>6. Age1 = 14 => vgaline' = NoLine
    BY <1>2, <1>5, <2>3
  <2>7. Age1 # 14 => vgaline' = vgaline
    BY <1>2, <1>5, <2>2, <2>3
  <2>8. Age1 # 14 => Where(slot1_bank, Age1)' = [line |-> vgaline, col |-> 0]
    <3>1. Age1 # 14 => Where(slot1_bank, Age1)' =
             IF Age1 + 1 < 4 THEN casaddr'
             ELSE [line |-> bank'[slot1_bank].line, col |-> bank'[slot1_bank].col]
      BY <2>1, <2>2 DEF Where
    <3> QED
      BY <2>1, <2>2, <2>3, <2>4, <3>1 DEF Where
  <2> QED
    BY <2>1, <2>2, <2>3, <2>5, <2>6, <2>7, <2>8 DEF DmaInStep
<1>6. CASE sdram_state # 2 /\ slot1 # "port0"
  BY <1>1, <1>2, <1>3, <1>6, SteppingFacts, GrantStep DEF DmaInStep
<1> QED
  BY <1>4, <1>5, <1>6

LEMMA ClientsStep ==
    ASSUME TypeOK, Timeline, ClientsInStep, NEW vga \in Line \union {NoLine}, NEW reserve,
           NEW refresh \in BOOLEAN, Tick(vga, reserve, refresh)
    PROVE  ClientsInStep'
<1>1. CASE init_done
  <2>1. Stepping(vga, reserve, refresh)
    BY <1>1 DEF Stepping
  <2>2. init_done'
    BY <2>1, SteppingFacts, AgeStep
  <2>3. ReadsInStep'
    BY <2>1, Read1Step, Read2Step, BeatsStep DEF ReadsInStep
  <2> QED
    BY <2>1, <2>2, <2>3, DmaStep DEF ClientsInStep
<1>2. CASE ~init_done
  <2>1. /\ slot1 = "refresh" /\ slot2 = "idle" /\ slot1' = "refresh" /\ slot2' = "idle"
        /\ rq.op = "idle" /\ vgaline = NoLine /\ vgabeats = 0 /\ rdbeats = 0
    BY <1>2 DEF Timeline, Schedule, StartUp, Tick, SdramTick, Slots, ClientsInStep, ReadsInStep,
                DmaInStep
  <2>2. ~readcache_fill /\ ~vga_fill
    BY <1>2, WhoseStrobe
  <2>3. rdbeats' = 0 /\ vgaline' = NoLine /\ vgabeats' = 0
    BY <1>2, <2>1, <2>2 DEF Tick, Cpu, Dma
  <2>4. rq' = rq
    BY <1>2, <2>1, <2>2 DEF Tick, Cpu
  <2> QED
    BY <2>1, <2>3, <2>4 DEF ClientsInStep, ReadsInStep, ReadInStep, DmaInStep
<1> QED
  BY <1>1, <1>2

\* For any requests of the two clients, every word strobed to a port is the next
\* one of the burst that port asked for, and no port is strobed unasked.
THEOREM FillsAreDelivered == Spec => []FillsDelivered
<1>1. TypeOK /\ Timeline /\ ClientsInStep /\ [Next]_vars => ClientsInStep'
  <2>1. TypeOK /\ Timeline /\ ClientsInStep /\ Next => ClientsInStep'
    BY NextTick, ClientsStep
  <2> QED
    BY <2>1, StutterClients
<1> QED
  BY <1>1, InitClients, StrobedWord, TypeCorrect, TimelineKept, PTL DEF Spec

-----------------------------------------------------------------------------
(* Reservations.                                                           *)

\* What slot 2 was granted keeps clear of the reserved bank until phase 2.
ReservedClear == reserved # NoLine /\ slot2 \in Owned => slot2_bank # BankOf[reserved]

LEMMA ReserveStep ==
    ASSUME TypeOK, Timeline, ReservedClear, NEW vga \in Line \union {NoLine},
           NEW reserve \in Line \union {NoLine}, NEW refresh, Tick(vga, reserve, refresh)
    PROVE  ReservedClear'
<1> SUFFICES ASSUME reserved' # NoLine, slot2' \in Owned
             PROVE  slot2_bank' # BankOf[reserved']
  BY DEF ReservedClear
<1>1. /\ reserved' = CASE sdram_state = 10 -> reserve [] sdram_state = 2 -> NoLine [] OTHER -> reserved
      /\ Slots(rq, rdreq, vga, reserve, refresh)
  BY DEF Tick, Dma, SdramTick
<1>2. init_done
  BY <1>1 DEF Timeline, Schedule, StartUp, Slots, Owned
<1>3. CASE sdram_state = 10
  <2>1. /\ slot2' = "writecache" => Unreserved(wc_addr.line, reserve)
        /\ slot2' = "port1" => Unreserved(rq.line, reserve)
        /\ slot2' \in {"writecache", "port1", "idle"}
    BY <1>1, <1>2, <1>3 DEF Slots, Grant2, Slot2Choice, Slot2Grant
  <2>2. slot2_bank' = BankOf[(IF slot2' = "writecache" THEN wc_addr ELSE rq).line]
    BY <1>1, <1>2, <1>3, <2>1 DEF Slots, Target, Owned
  <2> QED
    BY <1>1, <1>3, <2>1, <2>2 DEF Unreserved, Owned
<1>4. CASE sdram_state # 10
  BY <1>1, <1>2, <1>4, GrantStep DEF ReservedClear, TypeOK
<1> QED
  BY <1>3, <1>4

LEMMA ReservationKept ==
    ASSUME TypeOK, ReservedClear
    PROVE  \A vga \in VgaRequests \ {NoLine}, refresh \in BOOLEAN :
              /\ Tick(vga, NoLine, refresh)
              /\ sdram_state = 2 /\ init_done
              /\ reserved # NoLine /\ BankOf[reserved] = BankOf[vga]
              => slot1' \in {"port0", "refresh"}
<1> SUFFICES ASSUME NEW vga \in VgaRequests \ {NoLine}, NEW refresh \in BOOLEAN,
                    Tick(vga, NoLine, refresh), sdram_state = 2, init_done,
                    reserved # NoLine, BankOf[reserved] = BankOf[vga]
             PROVE  slot1' \in {"port0", "refresh"}
  OBVIOUS
<1>1. slot1' = Slot1Choice(rq, rdreq, vga)
  BY DEF Tick, SdramTick, Slots, Grant1
<1>2. Clear(vga, slot2, slot2_bank)
  BY DEF Clear, ReservedClear, TypeOK, SdramTypeOK, Port, Owned
<1> QED
  BY <1>1, <1>2 DEF Slot1Choice

\* For any traffic, the DMA port that reserved its bank when slot 2 was decided
\* gets slot 1, or a refresh does: no posted write or read can take it away.
THEOREM ReservationsAreHonoured == Spec => ReservationHonoured
<1>1. TypeOK /\ Timeline /\ ReservedClear /\ [Next]_vars => ReservedClear'
  <2>1. TypeOK /\ Timeline /\ ReservedClear /\ Next => ReservedClear'
    BY NextTick, ReserveStep
  <2>2. ReservedClear /\ UNCHANGED vars => ReservedClear'
    BY DEF ReservedClear, vars, clientVars, sdramVars, slotVars
  <2> QED
    BY <2>1, <2>2
<1>2. Init => ReservedClear
  BY DEF Init, ReservedClear
<1>3. TypeOK /\ ReservedClear =>
        [\A vga \in VgaRequests \ {NoLine}, refresh \in BOOLEAN :
           /\ Tick(vga, NoLine, refresh)
           /\ sdram_state = 2 /\ init_done
           /\ reserved # NoLine /\ BankOf[reserved] = BankOf[vga]
           => slot1' \in {"port0", "refresh"}]_vars
  BY ReservationKept
<1> QED
  BY <1>1, <1>2, <1>3, TypeCorrect, TimelineKept, PTL DEF Spec, ReservationHonoured
=============================================================================
