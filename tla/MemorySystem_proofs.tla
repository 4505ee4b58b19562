------------------------- MODULE MemorySystem_proofs -------------------------
(***************************************************************************)
(* Proofs about the path from the CPU to the SDRAM, for any geometry of    *)
(* memory and cache, any programs, DMA and refresh, and any ratio of the   *)
(* clocks from four on: the read cache is never stale, and CPU bus, cache  *)
(* and controller together are one atomic memory.                          *)
(***************************************************************************)
EXTENDS MemorySystem, SdramTimeline_proofs

USE CacheAssumption, SystemAssumption

-----------------------------------------------------------------------------
(* The invariant.                                                          *)

\* The bus: what the two state machines and the copy of the address on the
\* fast clock may be, by the fast clocks that are left to the slow edge.
Waits == cpu.op \in {"read", "write"} /\ ~cpu_clkena
BusInv ==
    /\ cpu_clkena => prgstate = "run" /\ cpu.op # "internal"
    /\ req_pending <=> fast_prgstate = "waitram"
    /\ req_pending => cpu_r = cpu /\ cpu.op # "internal"
    /\ req_pending /\ cpu_clkena => divider = 1
    /\ cpu_r # cpu => divider = 1
    /\ Waits /\ divider # 1 => req_pending
    /\ ~init_done \/ state \in {"INIT1", "INIT2"} => cpu.op = "internal"

\* What an acknowledge says: it answers the cycle of the moment, a write has
\* been taken, a read gets what memory holds.
Taken == Effective(cpu.line, cpu.word) = Written(cpu, Effective(cpu.line, cpu.word))
Answered == data_to_cpu = Effective(cpu.line, cpu.word)
AnswerInv ==
    /\ wc_dtack => cpu.op = "write" /\ cpu_r = cpu /\ Taken /\ (cpu_clkena => divider \in 1 .. 2)
    /\ cpu_ack => cpu.op = "read" /\ cpu_r = cpu /\ Answered /\ (cpu_clkena => divider \in 1 .. 2)
    /\ cpu_clkena /\ cpu.op = "write" => Taken

\* The age of the burst whose words the states of a fill take.
FillAge == [FILL2 |-> 8, FILL3 |-> 9, FILL4 |-> 10, FILL5 |-> 11,
            FILL6 |-> 12, FILL7 |-> 13, FILL8 |-> 14, FILL9 |-> 15]
Fills == DOMAIN FillAge

\* How far cache and bus can be from each other.  A fill goes on while the CPU
\* takes its word and begins its next cycle: this is where the ratio of the
\* clocks matters.
PaceInv ==
    /\ state \in {"WAITRD", "WAITFILL"} => Port1.op = "read" /\ ~cpu_clkena
    /\ state = "WRITE1" => Port1.op = "write"
    /\ state = "WAITING" /\ Port1.op # "idle" => ~cpu_clkena
    /\ state = "PAUSE1" => cpu.op = "read" /\ cpu_r = cpu /\ Answered /\ (cpu_clkena => divider \in 1 .. 2)
    /\ state = "WRITE2" => cpu.op = "write" /\ cpu_r = cpu /\ (cpu_clkena => divider \in 1 .. 2)
    /\ cpu_ack => state = "PAUSE1" \/ (state \in Fills /\ FillAge[state] <= 11)
    /\ state \in Fills =>
         /\ FillAge[state] <= 12 => cpu.op = "read" /\ cpu_r = cpu
         /\ FillAge[state] <= 11 => Answered /\ (cpu_clkena => divider \in 1 .. FillAge[state] - 8)
         /\ FillAge[state] >= 13 /\ cpu.op = "write" =>
              ~cpu_clkena /\ divider \in 1 .. FillAge[state] - 12
         /\ FillAge[state] = 13 /\ cpu.op = "write" => ~req_pending

\* The way that is filled.
FillWay == IF tag_mru1 THEN 1 ELSE 2

\* A read in a slot is the one the cache waits for, and its words come with the
\* states that take them.  Nothing of its line is in the write cache.
Where(b, a) == IF a < 4 THEN casaddr ELSE [line |-> bank[b].line, col |-> bank[b].col]
ReadInStep(port, b, a) ==
    port = "port1" =>
        /\ a \in 0 .. 7 => state = "WAITFILL" /\ Where(b, a) = [line |-> cpu.line, col |-> cpu.word]
        /\ a \in 8 .. 14 =>
             /\ state \in Fills /\ FillAge[state] = a
             /\ readword = Beat(bank[b], a - 1)
             /\ IndexOf[bank[b].line] = latched_cpuaddr
             /\ TagOf[bank[b].line] = tagram[FillWay][latched_cpuaddr]
        /\ a \in 0 .. 14 => ~(wc_dirty /\ wc_addr.line = Where(b, a).line)
SlotInv ==
    /\ ReadInStep(slot1, slot1_bank, Age1) /\ ReadInStep(slot2, slot2_bank, Age2)
    /\ state \in Fills /\ FillAge[state] <= 14 =>
         \/ slot1 = "port1" /\ Age1 = FillAge[state]
         \/ slot2 = "port1" /\ Age2 = FillAge[state]
    /\ cache_req <=> state = "WAITFILL"

\* The word of the write the CPU has raised.
Raised(l, w) == req_pending /\ cpu.op = "write" /\ l = cpu.line /\ w = cpu.word

\* It is owed to the entries that hold it until the cache has looked at the cycle.
Owes(l, w) == Raised(l, w) /\ (state = "WRITE1" \/ (state # "WRITE2" /\ ~cpu_clkena))

\* What a word will be once the write that is raised is done.
Final(l, w) == IF Raised(l, w) THEN Written(cpu, Effective(l, w)) ELSE Effective(l, w)

\* An entry that would answer has the right word.
Right(e, l, w) == e.valid = C!CacheLane => Owes(l, w) \/ e.data = Final(l, w)

\* The word of a line being filled has yet to arrive.
Missing(y, i, w) ==
    /\ y = FillWay /\ i = latched_cpuaddr
    /\ \/ state = "WAITFILL"
       \/ state \in Fills /\ (w - readword) % 8 <= 15 - FillAge[state]

\* The entry that is replaced at the next edge.
Arrives(y, i, w) == y \in data_wren /\ i = C!DataSet(Port1) /\ w = C!DataWord(Port1)

Coherent ==
    \A l \in Line, w \in Word, y \in C!Way :
        tagram[y][IndexOf[l]] = TagOf[l] =>
            IF Arrives(y, IndexOf[l], w) THEN Right(data_w, l, w)
            ELSE Missing(y, IndexOf[l], w) \/ Right(dataram[y][IndexOf[l]][w], l, w)

\* What the states count on of the registers of the block RAM.
RegistersInv ==
    /\ data_wren # {} => state = "WRITE2" \/ state \in Fills
    /\ state \in Fills => data_wren = {FillWay} /\ readword_burst
    /\ readword_burst => state = "WAITFILL" \/ state \in Fills
    /\ state = "WAITFILL" => latched_cpuaddr = IndexOf[cpu.line]
    /\ state \in {"WAITRD", "WRITE1"} \/ tag_wren # {} =>
          \A y \in C!Way : tag_q[y] = tagram[y][IndexOf[cpu_r.line]]
    /\ state = "WAITRD" =>
          \A y \in C!Way : data_q[y] = dataram[y][IndexOf[cpu.line]][cpu.word]
    /\ tag_wren # {} =>
          \/ state = "WAITFILL" /\ tag_wren = {1, 2} /\ ~readcache_fill
          \/ /\ state \in {"PAUSE1", "WRITE2"} /\ tag_wren = {1}
             /\ tag_mru1 => tag_q[1] = TagOf[cpu_r.line]
    /\ state = "WAITFILL" /\ tag_wren = {} => tagram[FillWay][latched_cpuaddr] = TagOf[cpu.line]

MemoryInv == TypeOK /\ Timeline /\ BusInv /\ AnswerInv /\ PaceInv /\ SlotInv /\ RegistersInv /\ Coherent

-----------------------------------------------------------------------------
(* The bus.                                                                *)

LEMMA NextTick ==
    ASSUME Next
    PROVE  \E vga, reserve \in Line \union {NoLine}, refresh \in BOOLEAN : Tick(vga, reserve, refresh)
  BY DEF Next, VgaRequests, Reservations, RefreshPulses

\* A cycle that is not the CPU's own business or a register's is a request.
LEMMA CycleType ==
    ASSUME NEW c \in CpuCycles
    PROVE  /\ c.op \in {"read", "write", "internal", "io"}
           /\ c.line \in Line /\ c.word \in Offset /\ c.lanes \in SUBSET Lane /\ c.data \in WordValue
           /\ c.op \in {"read", "write"} => c \in Request /\ c.word \in Word
<1>1. CASE c \in CpuRequests
  BY <1>1 DEF Request
<1>2. CASE c \in {Quiet("internal"), Quiet("io")}
  BY <1>2, Defaults DEF Quiet, Offset
<1> QED
  BY <1>1, <1>2 DEF CpuCycles

\* What the controller and the cache see of the bus.
LEMMA PortType ==
    ASSUME TypeOK, BusInv
    PROVE  /\ Port1 \in Request
           /\ Port1.line = cpu_r.line /\ Port1.word = cpu_r.word
           /\ Port1.lanes = cpu_r.lanes /\ Port1.data = cpu_r.data
           /\ Port1.op = IF req_pending /\ cpu.op # "io" THEN cpu.op ELSE "idle"
<1>1. cpu \in CpuCycles /\ cpu_r \in CpuCycles /\ req_pending \in BOOLEAN
  BY DEF TypeOK
<1>2. PICK op : op = IF sdram_req THEN cpu_r.op ELSE "idle"
  OBVIOUS
<1>3. op = IF req_pending /\ cpu.op # "io" THEN cpu.op ELSE "idle"
  BY <1>1, <1>2 DEF BusInv, sdram_req, sel_peripherals
<1>4. op \in {"idle", "read", "write"}
  BY <1>1, <1>3, CycleType DEF BusInv
<1>5. /\ cpu_r \in [op : {cpu_r.op}, line : Line, word : Offset, lanes : SUBSET Lane, data : WordValue]
      /\ Port1 = [cpu_r EXCEPT !.op = op]
  <2>1. CASE cpu_r \in CpuRequests
    BY <1>2, <2>1 DEF Port1, Request
  <2>2. CASE cpu_r \in {Quiet("internal"), Quiet("io")}
    BY <1>2, <2>2, Defaults DEF Port1, Quiet, Offset
  <2> QED
    BY <1>1, <2>1, <2>2 DEF CpuCycles
<1> QED
  BY <1>3, <1>4, <1>5 DEF Request

LEMMA PortOp ==
    TypeOK /\ BusInv =>
        /\ Port1.op = IF req_pending /\ cpu.op # "io" THEN cpu.op ELSE "idle"
        /\ Port1.line = cpu_r.line /\ Port1.word = cpu_r.word
  BY PortType

LEMMA PortOpNext ==
    (TypeOK /\ BusInv =>
        /\ Port1.op = IF req_pending /\ cpu.op # "io" THEN cpu.op ELSE "idle"
        /\ Port1.line = cpu_r.line /\ Port1.word = cpu_r.word)'
  BY PortOp, PTL

LEMMA PortBusy ==
    ASSUME TypeOK, BusInv, Port1.op # "idle"
    PROVE  /\ req_pending /\ cpu_r = cpu /\ Port1.op = cpu.op /\ cpu.op \in {"read", "write"}
           /\ cpu.line \in Line /\ cpu.word \in Word /\ cpu \in Request
           /\ Port1.line = cpu.line /\ Port1.word = cpu.word
           /\ Port1.lanes = cpu.lanes /\ Port1.data = cpu.data
<1>1. cpu \in CpuCycles
  BY DEF TypeOK
<1>2. req_pending /\ cpu_r = cpu /\ Port1.op = cpu.op /\ cpu.op # "io" /\ cpu.op # "internal"
  BY PortType DEF BusInv
<1> QED
  BY <1>1, <1>2, PortType, CycleType

\* What an edge does to the bus: the CPU goes on to its next cycle, gets an
\* answer, ends a register's cycle, or stays as it is.
Advance ==
    /\ divider = 0 /\ cpu_run /\ ~dtack /\ init_done /\ state \notin {"INIT1", "INIT2"}
    /\ cpu' \in CpuCycles /\ ~cpu_clkena' /\ UNCHANGED cpu_datain
    /\ cpu_r = cpu /\ ~req_pending /\ ~req_pending' /\ divider' = 1
Answer ==
    /\ divider = 0 /\ dtack /\ Waits
    /\ cpu' = cpu /\ cpu_clkena' /\ cpu_datain' = data_to_cpu
    /\ cpu_r = cpu /\ req_pending /\ req_pending' /\ divider' = 1
EndIo ==
    /\ divider = 0 /\ ~dtack /\ cpu.op = "io" /\ ~cpu_clkena
    /\ cpu' = cpu /\ cpu_clkena' /\ UNCHANGED cpu_datain
    /\ cpu_r = cpu /\ divider' = 1
Still ==
    /\ UNCHANGED <<cpu, cpu_clkena, cpu_datain>>
    /\ divider = 0 => ~cpu_clkena /\ ~dtack
    /\ divider' = IF divider + 1 = Ratio THEN 0 ELSE divider + 1
    /\ cpu.op \in {"read", "write"} => (req_pending' <=> ~cpu_clkena)

LEMMA CountStep ==
    ASSUME NEW d \in 0 .. Ratio - 1
    PROVE  /\ (d + 1) % Ratio = IF d + 1 = Ratio THEN 0 ELSE d + 1
           /\ Ratio # 1 /\ 0 + 1 = 1 /\ 1 + 1 = 2
<1>1. CASE d + 1 = Ratio
  BY <1>1
<1>2. CASE d + 1 # Ratio
  <2>1. d + 1 \in 0 .. Ratio - 1 /\ Ratio \in Nat /\ Ratio > 0
    BY <1>2
  <2>2. \A n \in 0 .. Ratio - 1 : n % Ratio = n
    BY <2>1
  <2> QED
    BY <1>2, <2>1, <2>2
<1> QED
  BY <1>1, <1>2

\* An acknowledge that is up at a slow edge is for a cycle that waits.
LEMMA AckWaits ==
    ASSUME TypeOK, BusInv, AnswerInv, divider = 0, dtack
    PROVE  Waits /\ cpu_r = cpu /\ req_pending
  BY DEF AnswerInv, dtack, Waits, BusInv

LEMMA BusStep ==
    ASSUME TypeOK, BusInv, AnswerInv, NEW vga, NEW reserve, NEW refresh, Tick(vga, reserve, refresh)
    PROVE  /\ Advance \/ Answer \/ EndIo \/ Still
           /\ cpu_r' = cpu
           /\ req_pending' <=> fast_prgstate' = "waitram"
           /\ req_pending' => ~cpu_run
           /\ cpu_clkena' => prgstate' = "run"
<1>1. /\ cpu \in CpuCycles /\ cpu_r \in CpuCycles /\ divider \in 0 .. Ratio - 1
      /\ req_pending \in BOOLEAN /\ cpu_clkena \in BOOLEAN
      /\ fast_prgstate \in {"waitcpu", "waitram"}
      /\ cpu.op \in {"read", "write", "internal", "io"}
  BY CycleType DEF TypeOK
<1>2. SlowEdge /\ FastEdge /\ divider' = (divider + 1) % Ratio
  BY DEF Tick
<1>3. divider' = IF divider + 1 = Ratio THEN 0 ELSE divider + 1
  BY <1>1, <1>2, CountStep
<1>4. /\ cpu_r' = cpu
      /\ req_pending' <=> fast_prgstate' = "waitram"
      /\ req_pending' => ~cpu_run
      /\ ~cpu_run => req_pending' \/ sel_peripherals
  BY <1>1, <1>2 DEF FastEdge, BusInv
<1>5. cpu_r = cpu \/ ~req_pending
  BY DEF BusInv
<1>6. cpu.op \in {"read", "write"} => (req_pending' <=> ~cpu_clkena)
  <2>1. ASSUME cpu.op \in {"read", "write"}, ~cpu_clkena
        PROVE  req_pending'
    <3>1. ~cpu_run
      BY <2>1 DEF cpu_run
    <3>2. CASE cpu_r = cpu
      BY <1>4, <2>1, <3>1, <3>2 DEF sel_peripherals
    <3>3. CASE cpu_r # cpu
      BY <1>1, <1>2, <1>5, <3>1, <3>3 DEF BusInv, FastEdge
    <3> QED
      BY <3>2, <3>3
  <2> QED
    BY <1>4, <2>1 DEF cpu_run
<1>7. CASE ~(divider = 0 /\ init_done /\ state \notin {"INIT1", "INIT2"})
  <2>1. UNCHANGED <<cpu, prgstate, cpu_clkena, cpu_datain>>
    BY <1>2, <1>7 DEF SlowEdge
  <2>2. divider = 0 => cpu.op = "internal"
    BY <1>7 DEF BusInv
  <2>3. divider = 0 => ~dtack
    BY <2>2, AckWaits DEF Waits
  <2> QED
    BY <1>3, <1>4, <1>6, <2>1, <2>2, <2>3 DEF Still, BusInv
<1>8. CASE divider = 0 /\ init_done /\ state \notin {"INIT1", "INIT2"}
  <2>1. CpuAdvance /\ BusState /\ cpu_r = cpu /\ divider' = 1
    BY <1>2, <1>3, <1>8, CountStep DEF SlowEdge, BusInv
  <2>2. CASE dtack
    <3>1. Waits /\ req_pending
      BY <1>8, <2>2, AckWaits
    <3>2. cpu' = cpu /\ cpu_clkena' /\ cpu_datain' = data_to_cpu /\ prgstate' = "run"
      BY <2>1, <2>2, <3>1 DEF CpuAdvance, BusState, cpu_run, Waits
    <3> QED
      BY <1>4, <1>6, <1>8, <2>1, <2>2, <3>1, <3>2 DEF Answer, Waits
  <2>3. CASE ~dtack /\ cpu_run
    <3>1. cpu' \in CpuCycles /\ UNCHANGED cpu_datain
      BY <2>1, <2>3 DEF CpuAdvance, BusState
    <3>2. ~req_pending
      BY <1>8, <2>3 DEF BusInv, cpu_run
    <3>3. ~cpu_clkena'
      <4>1. cpu_clkena => prgstate = "run"
        BY DEF BusInv
      <4>2. cpu_clkena => cpu.op # "internal"
        BY DEF BusInv
      <4>3. CASE cpu_clkena
        BY <2>1, <2>3, <4>1, <4>3 DEF BusState
      <4>4. CASE ~cpu_clkena
        <5>1. cpu.op = "internal"
          BY <2>3, <4>4 DEF cpu_run
        <5> QED
          BY <2>1, <2>3, <4>4, <5>1 DEF BusState
      <4> QED
        BY <4>3, <4>4
    <3> QED
      BY <1>4, <1>8, <2>1, <2>3, <3>1, <3>2, <3>3 DEF Advance
  <2>4. CASE ~dtack /\ ~cpu_run
    <3>1. cpu' = cpu /\ UNCHANGED cpu_datain /\ ~cpu_clkena
      BY <2>1, <2>4 DEF CpuAdvance, BusState, cpu_run
    <3>2. \/ ~cpu_clkena'
          \/ cpu.op = "io" /\ cpu_clkena' /\ prgstate' = "run"
      BY <2>1, <2>4, <3>1 DEF BusState
    <3>3. CASE ~cpu_clkena'
      <4>1. cpu_clkena' = cpu_clkena
        BY <1>1, <2>1, <2>4, <3>1, <3>3 DEF BusState
      <4> QED
        BY <1>3, <1>4, <1>6, <2>4, <3>1, <3>3, <4>1 DEF Still
    <3>4. CASE cpu.op = "io" /\ cpu_clkena' /\ prgstate' = "run"
      BY <1>4, <1>8, <2>1, <2>4, <3>1, <3>4 DEF EndIo
    <3> QED
      BY <3>2, <3>3, <3>4
  <2> QED
    BY <2>2, <2>3, <2>4
<1> QED
  BY <1>7, <1>8

-----------------------------------------------------------------------------
(* The states of the cache.                                                *)

LEMMA Ages ==
    /\ Fills = {"FILL2", "FILL3", "FILL4", "FILL5", "FILL6", "FILL7", "FILL8", "FILL9"}
    /\ C!Filling = Fills \ {"FILL9"}
    /\ FillAge["FILL2"] = 8 /\ FillAge["FILL9"] = 15
    /\ \A s \in Fills : FillAge[s] \in 8 .. 15 /\ (FillAge[s] = 15 <=> s = "FILL9")
    /\ \A s \in C!Filling : C!NextFill[s] \in Fills /\ FillAge[C!NextFill[s]] = FillAge[s] + 1
    /\ \A s \in Fills : s \in C!AckedFills <=> FillAge[s] <= 10
  BY DEF Fills, FillAge, C!Filling, C!NextFill, C!AckedFills

\* Where each state leads, and what it acknowledges.
LEMMA CacheMoves ==
    ASSUME TypeOK, BusInv, NEW vga, NEW reserve, NEW refresh, Tick(vga, reserve, refresh)
    PROVE  /\ state = "WAITING" =>
                /\ state' = IF Port1.op = "read" THEN "WAITRD"
                            ELSE IF Port1.op = "write" THEN "WRITE1" ELSE "WAITING"
                /\ ~cpu_ack'
           /\ state = "WRITE1" => state' = "WRITE2" /\ ~cpu_ack'
           /\ state = "WRITE2" => state' = (IF Port1.op = "idle" THEN "WAITING" ELSE "WRITE2") /\ ~cpu_ack'
           /\ state = "WAITRD" => (state' = "PAUSE1" /\ cpu_ack') \/ (state' = "WAITFILL" /\ ~cpu_ack')
           /\ state = "PAUSE1" =>
                /\ state' = IF Port1.op = "idle" THEN "WAITING" ELSE "PAUSE1"
                /\ cpu_ack' => Port1.op # "idle"
                /\ UNCHANGED data_to_cpu
           /\ state = "WAITFILL" =>
                IF readcache_fill THEN state' = "FILL2" /\ data_to_cpu' = sdata_reg.data
                ELSE state' = "WAITFILL" /\ ~cpu_ack'
           /\ state \in C!Filling =>
                /\ state' = C!NextFill[state]
                /\ cpu_ack' => FillAge[state] <= 10 /\ Port1.op # "idle"
                /\ UNCHANGED data_to_cpu
           /\ state = "FILL9" => state' = "WAITING" /\ ~cpu_ack'
           /\ state \in {"INIT1", "INIT2"} => state' \in {"INIT2", "WAITING"} /\ ~cpu_ack'
<1>1. PICK op : op = Port1.op
  OBVIOUS
<1>2. C!CacheTick(Port1, readcache_fill, sdata_reg.data) /\ Port1.op \in {"idle", "read", "write"}
  BY PortType DEF Tick, Request
<1>3. /\ C!Initialise(Port1) => /\ state \in {"INIT1", "INIT2"}
                                /\ state' \in {"INIT2", "WAITING"} /\ ~cpu_ack'
      /\ C!Write1(Port1) => state = "WRITE1" /\ state' = "WRITE2" /\ ~cpu_ack'
      /\ C!Write2(Port1) => /\ state = "WRITE2" /\ ~cpu_ack'
                            /\ state' = IF Port1.op = "idle" THEN "WAITING" ELSE "WRITE2"
      /\ C!WaitReadHit(Port1) => state = "WAITRD" /\ state' = "PAUSE1" /\ cpu_ack'
      /\ C!WaitReadMiss(Port1) => state = "WAITRD" /\ state' = "WAITFILL" /\ ~cpu_ack'
      /\ C!Pause1(Port1) => /\ state = "PAUSE1" /\ UNCHANGED data_to_cpu
                            /\ state' = IF Port1.op = "idle" THEN "WAITING" ELSE "PAUSE1"
                            /\ cpu_ack' => Port1.op # "idle"
      /\ C!Fill9(Port1) => state = "FILL9" /\ state' = "WAITING" /\ ~cpu_ack'
  BY DEF C!Initialise, C!Write1, C!Write2, C!WaitReadHit, C!WaitReadMiss, C!Pause1, C!Fill9, C!Off
<1>4. C!WaitFill(Port1, readcache_fill, sdata_reg.data) =>
        /\ state = "WAITFILL"
        /\ IF readcache_fill THEN state' = "FILL2" /\ data_to_cpu' = sdata_reg.data
           ELSE state' = "WAITFILL" /\ ~cpu_ack'
  BY DEF C!WaitFill, C!Off
<1>5. C!Fill(Port1, sdata_reg.data) =>
        /\ state \in C!Filling /\ UNCHANGED data_to_cpu
        /\ state' = C!NextFill[state]
        /\ cpu_ack' => FillAge[state] <= 10 /\ Port1.op # "idle"
  BY Ages DEF C!Fill, C!Off
<1>6. C!Waiting(Port1) =>
        /\ state = "WAITING" /\ ~cpu_ack'
        /\ state' = IF Port1.op = "read" THEN "WAITRD"
                    ELSE IF Port1.op = "write" THEN "WRITE1" ELSE "WAITING"
  <2>1. ASSUME C!Waiting(Port1)
        PROVE  /\ state = "WAITING" /\ ~cpu_ack'
               /\ state' = CASE op = "read" -> "WAITRD" [] op = "write" -> "WRITE1"
                             [] OTHER -> "WAITING"
    BY <1>1, <2>1 DEF C!Waiting, C!Off
  <2> QED
    BY <1>1, <2>1
<1>7. \/ C!Initialise(Port1) \/ C!Waiting(Port1) \/ C!Write1(Port1) \/ C!Write2(Port1)
      \/ C!WaitReadHit(Port1) \/ C!WaitReadMiss(Port1) \/ C!Pause1(Port1)
      \/ C!WaitFill(Port1, readcache_fill, sdata_reg.data)
      \/ C!Fill(Port1, sdata_reg.data) \/ C!Fill9(Port1)
  BY <1>2 DEF C!CacheTick
<1> QED
  BY <1>3, <1>4, <1>5, <1>6, <1>7, Ages

-----------------------------------------------------------------------------
(* Types.                                                                  *)

\* One edge in a state that the invariant allows.
Stepping(vga, reserve, refresh) ==
    /\ MemoryInv
    /\ vga \in Line \union {NoLine} /\ refresh \in BOOLEAN
    /\ Tick(vga, reserve, refresh)

LEMMA SteppingFacts ==
    ASSUME NEW vga, NEW reserve, NEW refresh, Stepping(vga, reserve, refresh)
    PROVE  /\ TypeOK /\ SdramTypeOK /\ Timeline /\ DataOnTime /\ BusInv /\ AnswerInv /\ PaceInv
           /\ SlotInv /\ RegistersInv /\ Coherent
           /\ vga \in Line \union {NoLine} /\ refresh \in BOOLEAN
           /\ Tick(vga, reserve, refresh)
           /\ C!CacheTick(Port1, readcache_fill, sdata_reg.data)
           /\ SdramTick(Port1, cache_req, vga, reserve, refresh)
           /\ WriteCache(Port1) /\ ChipTick(cmd, dq) /\ Sample /\ Phases(refresh)
           /\ Slots(Port1, cache_req, vga, reserve, refresh)
  BY DEF Stepping, MemoryInv, TypeOK, Timeline, Tick, SdramTick

LEMMA CacheType ==
    ASSUME C!CacheTypeOK, NEW rq \in Request, NEW fill, NEW sdata \in WordValue,
           rq.op # "idle" => rq.word \in Word,
           C!CacheTick(rq, fill, sdata)
    PROVE  C!CacheTypeOK'
<1>1. /\ rq.line \in Line /\ rq.word \in 0 .. 7 /\ rq.lanes \in SUBSET C!CacheLane
      /\ rq.data \in [C!CacheLane -> Byte] /\ sdata \in [C!CacheLane -> Byte]
      /\ IndexOf[rq.line] \in Index /\ TagOf[rq.line] \in Tag
  BY DEF Request, Offset, Lane, WordValue, C!CacheLane
<1>2. /\ state \in C!CacheState
      /\ dataram \in [C!Way -> [Index -> [Word -> C!CacheEntry]]]
      /\ tagram \in [C!Way -> [Index -> Tag]] /\ mru \in [Index -> BOOLEAN]
      /\ data_q \in [C!Way -> C!CacheEntry] /\ tag_q \in [C!Way -> Tag] /\ mru_q \in BOOLEAN
      /\ data_w \in C!CacheEntry /\ data_wren \subseteq C!Way
      /\ tag_wren \subseteq C!Way /\ tag_mru1 \in BOOLEAN
      /\ readword \in 0 .. 7 /\ readword_burst \in BOOLEAN /\ latched_cpuaddr \in Index
      /\ cpu_ack \in BOOLEAN /\ data_to_cpu \in [C!CacheLane -> Byte] /\ cache_req \in BOOLEAN
  BY DEF C!CacheTypeOK
<1>3. C!Invalid \in C!CacheEntry
  BY ContentAssumption DEF C!Invalid, C!CacheEntry, C!NoWord
<1>4. \A lanes \in SUBSET C!CacheLane, d \in [C!CacheLane -> Byte] : C!Entry(lanes, d) \in C!CacheEntry
  BY DEF C!Entry, C!CacheEntry
<1>5. /\ dataram' \in [C!Way -> [Index -> [Word -> C!CacheEntry]]]
      /\ data_q' \in [C!Way -> C!CacheEntry]
  <2>1. PICK s, w : s = C!DataSet(rq) /\ w = C!DataWord(rq)
    OBVIOUS
  <2>2. s \in Index /\ (C!Tracked(rq) <=> w \in Word)
    BY <1>1, <1>2, <2>1 DEF C!DataSet, C!Tracked
  <2>3. /\ dataram' = IF state = "INIT2" THEN [y \in C!Way |-> [i \in Index |-> [v \in Word |-> C!Invalid]]]
                      ELSE [y \in C!Way |-> IF y \in data_wren /\ C!Tracked(rq)
                                            THEN [dataram[y] EXCEPT ![s][w] = data_w]
                                            ELSE dataram[y]]
        /\ data_q' = [y \in C!Way |-> IF y \in data_wren THEN data_w
                                      ELSE IF C!Tracked(rq) THEN dataram[y][s][w] ELSE C!Invalid]
    BY <2>1 DEF C!CacheTick, C!DataRam
  <2> QED
    BY <1>2, <1>3, <2>2, <2>3
<1>6. \A y \in C!Way : C!TagWritten(y, rq) \in Tag
  BY <1>1, <1>2 DEF C!TagWritten
<1>7. /\ tagram' \in [C!Way -> [Index -> Tag]] /\ tag_q' \in [C!Way -> Tag]
      /\ mru' \in [Index -> BOOLEAN] /\ mru_q' \in BOOLEAN
  BY <1>1, <1>2, <1>6 DEF C!CacheTick, C!TagRam
<1>8. /\ C!MruWay \subseteq C!Way /\ C!HitWays(rq) \subseteq C!Way
      /\ {} \subseteq C!Way /\ {1} \subseteq C!Way /\ {1, 2} \subseteq C!Way
      /\ \A n \in 0 .. 7 : C!NextWord(n) \in 0 .. 7
      /\ C!CacheLane \in SUBSET C!CacheLane
  BY NextBeat DEF C!MruWay, C!HitWays, C!Way, C!NextWord
<1>9. CASE C!Initialise(rq)
  BY <1>2, <1>3, <1>5, <1>7, <1>8, <1>9 DEF C!Initialise, C!Off, C!CacheState, C!CacheTypeOK
<1>10. CASE C!Waiting(rq)
  <2>1. state' \in C!CacheState
    <3>1. PICK op : op = rq.op
      OBVIOUS
    <3>2. state' = CASE op = "read" -> "WAITRD" [] op = "write" -> "WRITE1" [] OTHER -> "WAITING"
      BY <1>10, <3>1 DEF C!Waiting
    <3> QED
      BY <3>2 DEF C!CacheState
  <2> QED
    BY <1>2, <1>5, <1>7, <1>8, <1>10, <2>1 DEF C!Waiting, C!Off, C!CacheTypeOK
<1>11. CASE C!Write1(rq)
  <2>1. data_w' \in C!CacheEntry
    BY <1>1, <1>4, <1>11 DEF C!Write1, C!WriteEntry
  <2>2. tag_mru1' \in BOOLEAN
    BY <1>2, <1>11 DEF C!Write1
  <2> QED
    BY <1>2, <1>5, <1>7, <1>8, <1>11, <2>1, <2>2 DEF C!Write1, C!Off, C!CacheState, C!CacheTypeOK
<1>12. CASE C!Write2(rq)
  BY <1>2, <1>5, <1>7, <1>8, <1>12 DEF C!Write2, C!Off, C!CacheState, C!CacheTypeOK
<1>13. CASE C!WaitReadHit(rq)
  <2>1. data_to_cpu' \in [C!CacheLane -> Byte] /\ tag_mru1' \in BOOLEAN
    BY <1>2, <1>13 DEF C!WaitReadHit, C!CacheEntry
  <2> QED
    BY <1>2, <1>5, <1>7, <1>8, <1>13, <2>1 DEF C!WaitReadHit, C!Off, C!CacheState, C!CacheTypeOK
<1>14. CASE C!WaitReadMiss(rq)
  <2>1. tag_mru1' \in BOOLEAN
    BY <1>2, <1>14 DEF C!WaitReadMiss
  <2> QED
    BY <1>1, <1>2, <1>5, <1>7, <1>8, <1>14, <2>1 DEF C!WaitReadMiss, C!Off, C!CacheState, C!CacheTypeOK
<1>15. CASE C!Pause1(rq)
  BY <1>2, <1>5, <1>7, <1>8, <1>15 DEF C!Pause1, C!Off, C!CacheState, C!CacheTypeOK
<1>16. CASE C!WaitFill(rq, fill, sdata)
  <2>1. data_w' \in C!CacheEntry
    <3>1. C!Entry(C!CacheLane, sdata) \in C!CacheEntry
      BY <1>1, <1>4, <1>8
    <3> QED
      BY <1>2, <1>16, <3>1 DEF C!WaitFill
  <2> QED
    BY <1>1, <1>2, <1>5, <1>7, <1>8, <1>16, <2>1 DEF C!WaitFill, C!Off, C!CacheState, C!CacheTypeOK
<1>17. CASE C!Fill(rq, sdata)
  <2>1. data_w' \in C!CacheEntry /\ state' \in C!CacheState
    BY <1>1, <1>4, <1>8, <1>17 DEF C!Fill, C!Filling, C!NextFill, C!CacheState
  <2> QED
    BY <1>2, <1>5, <1>7, <1>8, <1>17, <2>1 DEF C!Fill, C!Off, C!CacheTypeOK
<1>18. CASE C!Fill9(rq)
  BY <1>1, <1>2, <1>5, <1>7, <1>8, <1>18 DEF C!Fill9, C!Off, C!CacheState, C!CacheTypeOK
<1> QED
  BY <1>9, <1>10, <1>11, <1>12, <1>13, <1>14, <1>15, <1>16, <1>17, <1>18 DEF C!CacheTick

\* An edge keeps every register of the memory system within its range.
LEMMA MemoryStepType ==
    ASSUME NEW vga, NEW reserve, NEW refresh, Stepping(vga, reserve, refresh)
    PROVE  TypeOK'
<1>1. /\ TypeOK /\ BusInv /\ SdramTypeOK /\ C!CacheTypeOK /\ Port1 \in Request
      /\ Port1.op # "idle" => Port1.word \in Word
  BY SteppingFacts, PortType, PortBusy DEF TypeOK
<1>2. SdramTypeOK'
  BY <1>1, SteppingFacts, ControllerType
<1>3. C!CacheTypeOK'
  <2>1. sdata_reg.data \in WordValue
    BY <1>1 DEF SdramTypeOK
  <2> QED
    BY <1>1, <2>1, SteppingFacts, CacheType
<1>4. /\ cpu \in CpuCycles /\ cpu_r \in CpuCycles /\ divider \in 0 .. Ratio - 1
      /\ cpu_clkena \in BOOLEAN /\ cpu_datain \in WordValue /\ data_to_cpu \in WordValue
      /\ req_pending \in BOOLEAN
      /\ prgstate \in {"run", "mem", "waitread", "peripheral"}
  BY <1>1 DEF TypeOK, C!CacheTypeOK, WordValue, C!CacheLane, Lane
<1>5. SlowEdge /\ FastEdge /\ divider' = (divider + 1) % Ratio
  BY SteppingFacts DEF Tick
<1>6. divider' \in 0 .. Ratio - 1
  BY <1>4, <1>5, CountStep
<1>7. cpu' \in CpuCycles /\ cpu_r' \in CpuCycles
  BY <1>4, <1>5 DEF SlowEdge, CpuAdvance, FastEdge
<1>8. /\ prgstate' \in {"run", "mem", "waitread", "peripheral"}
      /\ cpu_clkena' \in BOOLEAN /\ cpu_datain' \in WordValue
  BY <1>4, <1>5 DEF SlowEdge, BusState
<1>9. fast_prgstate' \in {"waitcpu", "waitram"} /\ req_pending' \in BOOLEAN
  <2>1. fast_prgstate' \in {"waitcpu", "waitram"}
    BY <1>5 DEF FastEdge
  <2>2. req_pending' \in BOOLEAN
    BY <1>4, <1>5, Zenon DEF FastEdge
  <2> QED
    BY <2>1, <2>2
<1> QED
  BY <1>2, <1>3, <1>6, <1>7, <1>8, <1>9 DEF TypeOK

LEMMA MemoryInitType == Init => TypeOK
<1> SUFFICES ASSUME Init PROVE TypeOK
  OBVIOUS
<1>1. SdramTypeOK
  BY InitSdramType DEF Init
<1>2. C!CacheTypeOK
  <2>1. /\ C!Invalid \in C!CacheEntry /\ C!NoWord \in [C!CacheLane -> Byte]
        /\ (CHOOSE i \in Index : TRUE) \in Index
    BY Defaults, ContentAssumption DEF C!Invalid, C!CacheEntry, C!NoWord
  <2>2. /\ dataram \in [C!Way -> [Index -> [Word -> C!CacheEntry]]]
        /\ data_q \in [C!Way -> C!CacheEntry] /\ data_w \in C!CacheEntry
        /\ data_to_cpu \in [C!CacheLane -> Byte]
    BY <2>1 DEF Init, C!CacheInit
  <2>3. /\ tagram \in [C!Way -> [Index -> Tag]] /\ tag_q \in [C!Way -> Tag]
        /\ mru \in [Index -> BOOLEAN] /\ mru_q \in BOOLEAN
        /\ latched_cpuaddr \in Index
    BY <2>1 DEF Init, C!CacheInit
  <2>4. /\ state \in C!CacheState /\ data_wren \subseteq C!Way /\ tag_wren \subseteq C!Way
        /\ tag_mru1 \in BOOLEAN /\ readword \in 0 .. 7 /\ readword_burst \in BOOLEAN
        /\ cpu_ack \in BOOLEAN /\ cache_req \in BOOLEAN
    <3>1. state \in C!CacheState /\ data_wren \subseteq C!Way /\ tag_wren \subseteq C!Way
      BY DEF Init, C!CacheInit, C!CacheState
    <3>2. tag_mru1 \in BOOLEAN /\ readword_burst \in BOOLEAN /\ cpu_ack \in BOOLEAN /\ cache_req \in BOOLEAN
      BY Zenon DEF Init, C!CacheInit
    <3>3. readword \in 0 .. 7
      BY DEF Init, C!CacheInit
    <3> QED
      BY <3>1, <3>2, <3>3
  <2> QED
    BY <2>2, <2>3, <2>4 DEF C!CacheTypeOK
<1>3. /\ divider \in 0 .. Ratio - 1 /\ cpu \in CpuCycles /\ cpu_r \in CpuCycles
      /\ cpu_datain \in WordValue
  BY Defaults DEF Init, CpuCycles
<1> QED
  BY <1>1, <1>2, <1>3 DEF Init, TypeOK

-----------------------------------------------------------------------------
(* The memory the CPU sees.                                                *)

\* Laying the same bytes over a word twice is laying them once.
LEMMA WrittenTwice ==
    ASSUME NEW rq, NEW word
    PROVE  Written(rq, Written(rq, word)) = Written(rq, word)
  BY DEF Written

\* An edge changes the memory by the write it accepts, which is the CPU's.
LEMMA MemoryStep ==
    ASSUME NEW vga, NEW reserve, NEW refresh, Stepping(vga, reserve, refresh)
    PROVE  /\ wc_dtack' => Port1.op = "write"
           /\ \A l \in Line, w \in Word :
                Effective(l, w)' = IF wc_dtack' /\ l = cpu.line /\ w = cpu.word
                                   THEN Written(cpu, Effective(l, w)) ELSE Effective(l, w)
<1>1. wc_dtack' = wcAccepts(Port1) /\ (wcAccepts(Port1) => Port1.op = "write")
  BY SteppingFacts DEF WriteCache, wcAccepts
<1>2. Port1 \in Request
  BY SteppingFacts, PortType
<1>3. ASSUME NEW l \in Line, NEW w \in Word
      PROVE  Effective(l, w)' = IF wcAccepts(Port1) /\ l = Port1.line /\ w = Port1.word
                                THEN Written(Port1, Effective(l, w)) ELSE Effective(l, w)
  <2>1. SdramTypeOK'
    BY MemoryStepType DEF TypeOK
  <2> QED
    BY <1>2, <2>1, SteppingFacts, EffectiveStep
<1>4. wcAccepts(Port1) => /\ Port1.line = cpu.line /\ Port1.word = cpu.word
                          /\ \A x : Written(Port1, x) = Written(cpu, x)
  <2> SUFFICES ASSUME wcAccepts(Port1)
               PROVE  /\ Port1.line = cpu.line /\ Port1.word = cpu.word
                      /\ \A x : Written(Port1, x) = Written(cpu, x)
    OBVIOUS
  <2>1. /\ Port1.line = cpu.line /\ Port1.word = cpu.word
        /\ Port1.lanes = cpu.lanes /\ Port1.data = cpu.data
    BY <1>1, SteppingFacts, PortBusy
  <2> QED
    BY <2>1 DEF Written
<1> QED
  BY <1>1, <1>3, <1>4

-----------------------------------------------------------------------------
(* What the states do to the registers of the cache.                       *)

LEMMA CacheRegisters ==
    ASSUME NEW vga, NEW reserve, NEW refresh, Stepping(vga, reserve, refresh)
    PROVE  /\ state \in C!CacheState
           /\ state \in {"INIT1", "INIT2", "WAITING", "WRITE2", "PAUSE1", "FILL9"} =>
                /\ data_wren' = {} /\ tag_wren' = {} /\ readword_burst' = FALSE
                /\ UNCHANGED cache_req
           /\ state = "WRITE1" =>
                /\ data_wren' = C!HitWays(Port1) /\ readword_burst' = FALSE
                /\ data_w' = C!Entry(cpu.lanes, cpu.data)
                /\ tag_wren' = IF C!HitWays(Port1) # {} THEN {1} ELSE {}
                /\ tag_mru1' /\ C!HitWays(Port1) # {} => C!TagHit(1, Port1)
                /\ UNCHANGED cache_req
           /\ state = "WAITRD" => data_wren' = {} /\ readword_burst' = FALSE
           /\ state = "WAITRD" /\ state' = "PAUSE1" =>
                /\ tag_wren' = {1} /\ (tag_mru1' => C!TagHit(1, Port1)) /\ UNCHANGED cache_req
                /\ \E y \in C!Way : C!Hit(y, Port1) /\ data_to_cpu' = data_q[y].data
           /\ state = "WAITRD" /\ state' = "WAITFILL" =>
                tag_wren' = {1, 2} /\ latched_cpuaddr' = IndexOf[Port1.line] /\ cache_req'
           /\ state = "WAITFILL" =>
                /\ tag_wren' = {} /\ readword_burst' = TRUE /\ readword' = Port1.word
                /\ UNCHANGED <<tag_mru1, latched_cpuaddr>>
                /\ IF readcache_fill
                   THEN /\ data_wren' = {FillWay} /\ ~cache_req'
                        /\ data_w' = C!Entry(C!CacheLane, sdata_reg.data)
                   ELSE data_wren' = {} /\ UNCHANGED cache_req
           /\ state \in C!Filling =>
                /\ tag_wren' = {} /\ readword_burst' = TRUE /\ readword' = (readword + 1) % 8
                /\ data_wren' = {FillWay} /\ data_w' = C!Entry(C!CacheLane, sdata_reg.data)
                /\ UNCHANGED <<tag_mru1, latched_cpuaddr, cache_req>>
<1>1. C!MruWay = {FillWay}
  BY DEF C!MruWay, FillWay
<1>2. /\ C!Initialise(Port1) => /\ state \in {"INIT1", "INIT2"} /\ UNCHANGED cache_req
                                /\ data_wren' = {} /\ tag_wren' = {} /\ readword_burst' = FALSE
      /\ C!Waiting(Port1) => /\ state = "WAITING" /\ UNCHANGED cache_req
                             /\ data_wren' = {} /\ tag_wren' = {} /\ readword_burst' = FALSE
      /\ C!Write2(Port1) => /\ state = "WRITE2" /\ UNCHANGED cache_req
                            /\ data_wren' = {} /\ tag_wren' = {} /\ readword_burst' = FALSE
      /\ C!Pause1(Port1) => /\ state = "PAUSE1" /\ UNCHANGED cache_req
                            /\ data_wren' = {} /\ tag_wren' = {} /\ readword_burst' = FALSE
      /\ C!Fill9(Port1) => /\ state = "FILL9" /\ UNCHANGED cache_req
                           /\ data_wren' = {} /\ tag_wren' = {} /\ readword_burst' = FALSE
  BY DEF C!Initialise, C!Waiting, C!Write2, C!Pause1, C!Fill9, C!Off
<1>3. ASSUME C!Write1(Port1)
      PROVE  /\ state = "WRITE1" /\ UNCHANGED cache_req
             /\ data_wren' = C!HitWays(Port1) /\ readword_burst' = FALSE
             /\ data_w' = C!Entry(cpu.lanes, cpu.data)
             /\ tag_wren' = IF C!HitWays(Port1) # {} THEN {1} ELSE {}
             /\ tag_mru1' /\ C!HitWays(Port1) # {} => C!TagHit(1, Port1)
  <2>1. /\ state = "WRITE1" /\ UNCHANGED cache_req
        /\ data_wren' = C!HitWays(Port1) /\ readword_burst' = FALSE
        /\ data_w' = C!Entry(Port1.lanes, Port1.data)
        /\ tag_wren' = IF C!HitWays(Port1) # {} THEN {1} ELSE {}
        /\ tag_mru1' = IF C!TagHit(2, Port1) THEN FALSE ELSE IF C!TagHit(1, Port1) THEN TRUE ELSE tag_mru1
    BY <1>3 DEF C!Write1, C!Off, C!WriteEntry
  <2>2. Port1.lanes = cpu.lanes /\ Port1.data = cpu.data
    BY <2>1, SteppingFacts, PortBusy DEF PaceInv
  <2>3. C!HitWays(Port1) # {} => C!TagHit(1, Port1) \/ C!TagHit(2, Port1)
    BY DEF C!HitWays, C!Way
  <2> QED
    BY <2>1, <2>2, <2>3
<1>4. ASSUME C!WaitReadHit(Port1)
      PROVE  /\ state = "WAITRD" /\ state' = "PAUSE1" /\ UNCHANGED cache_req
             /\ data_wren' = {} /\ readword_burst' = FALSE
             /\ tag_wren' = {1} /\ (tag_mru1' => C!TagHit(1, Port1))
             /\ \E y \in C!Way : C!Hit(y, Port1) /\ data_to_cpu' = data_q[y].data
  BY <1>4 DEF C!WaitReadHit, C!Off, C!Hit
<1>5. C!WaitReadMiss(Port1) =>
        /\ state = "WAITRD" /\ state' = "WAITFILL" /\ data_wren' = {} /\ readword_burst' = FALSE
        /\ tag_wren' = {1, 2} /\ latched_cpuaddr' = IndexOf[Port1.line] /\ cache_req'
  BY DEF C!WaitReadMiss, C!Off
<1>6. C!WaitFill(Port1, readcache_fill, sdata_reg.data) =>
        /\ state = "WAITFILL"
        /\ tag_wren' = {} /\ readword_burst' = TRUE /\ readword' = Port1.word
        /\ UNCHANGED <<tag_mru1, latched_cpuaddr>>
        /\ IF readcache_fill
           THEN /\ data_wren' = {FillWay} /\ ~cache_req'
                /\ data_w' = C!Entry(C!CacheLane, sdata_reg.data)
           ELSE data_wren' = {} /\ UNCHANGED cache_req
  BY <1>1 DEF C!WaitFill, C!Off
<1>7. C!Fill(Port1, sdata_reg.data) =>
        /\ state \in C!Filling
        /\ tag_wren' = {} /\ readword_burst' = TRUE /\ readword' = (readword + 1) % 8
        /\ data_wren' = {FillWay} /\ data_w' = C!Entry(C!CacheLane, sdata_reg.data)
        /\ UNCHANGED <<tag_mru1, latched_cpuaddr, cache_req>>
  BY <1>1 DEF C!Fill, C!Off, C!NextWord
<1>8. state \in C!CacheState
  BY SteppingFacts DEF TypeOK, C!CacheTypeOK
<1>9. \/ C!Initialise(Port1) \/ C!Waiting(Port1) \/ C!Write1(Port1) \/ C!Write2(Port1)
      \/ C!WaitReadHit(Port1) \/ C!WaitReadMiss(Port1) \/ C!Pause1(Port1)
      \/ C!WaitFill(Port1, readcache_fill, sdata_reg.data)
      \/ C!Fill(Port1, sdata_reg.data) \/ C!Fill9(Port1)
  BY SteppingFacts DEF C!CacheTick
<1> QED
  BY <1>2, <1>3, <1>4, <1>5, <1>6, <1>7, <1>8, <1>9, Ages

-----------------------------------------------------------------------------
(* The bus from one edge to the next.                                      *)

\* A cycle on RAM stays on the bus while it waits, and as long as the slow edge
\* after its answer has not come.
LEMMA CycleKept ==
    ASSUME NEW vga, NEW reserve, NEW refresh, Stepping(vga, reserve, refresh),
           cpu.op \in {"read", "write"}, cpu_clkena => divider # 0
    PROVE  /\ cpu' = cpu /\ cpu_r' = cpu'
           /\ cpu_clkena => cpu_clkena' /\ divider' = (IF divider + 1 = Ratio THEN 0 ELSE divider + 1)
           /\ cpu_clkena' /\ ~cpu_clkena => /\ divider' = 1 /\ dtack /\ req_pending /\ cpu_r = cpu
                                            /\ cpu_datain' = data_to_cpu
           /\ req_pending' <=> ~cpu_clkena
<1>1. /\ Advance \/ Answer \/ EndIo \/ Still
      /\ cpu_r' = cpu
  BY SteppingFacts, BusStep
<1>2. ~Advance /\ ~EndIo
  BY DEF Advance, EndIo, cpu_run
<1>3. CASE Answer
  BY <1>1, <1>3 DEF Answer, Waits
<1>4. CASE Still
  BY <1>1, <1>4 DEF Still
<1> QED
  BY <1>1, <1>2, <1>3, <1>4

\* A cycle that is raised is not replaced.
LEMMA RaisedKept ==
    ASSUME NEW vga, NEW reserve, NEW refresh, Stepping(vga, reserve, refresh), Port1.op # "idle"
    PROVE  /\ cpu.op = Port1.op /\ cpu.op \in {"read", "write"} /\ cpu_r = cpu /\ req_pending
           /\ cpu.line \in Line /\ cpu.word \in Word
           /\ cpu' = cpu /\ cpu_r' = cpu'
           /\ cpu_clkena' => divider' \in 1 .. 2
           /\ cpu_clkena => cpu_clkena'
           /\ cpu_clkena' /\ ~cpu_clkena => divider' = 1 /\ divider = 0 /\ dtack
           /\ req_pending' <=> ~cpu_clkena
<1>1. /\ cpu.op = Port1.op /\ cpu.op \in {"read", "write"} /\ cpu_r = cpu /\ req_pending
      /\ cpu.line \in Line /\ cpu.word \in Word
  BY SteppingFacts, PortBusy
<1>2. cpu_clkena => divider = 1
  BY <1>1, SteppingFacts DEF BusInv
<1>3. /\ Advance \/ Answer \/ EndIo \/ Still
      /\ cpu_r' = cpu
  BY SteppingFacts, BusStep
<1>4. ~Advance /\ ~EndIo
  BY <1>1 DEF Advance, EndIo
<1>5. CASE Answer
  BY <1>1, <1>3, <1>5 DEF Answer, Waits
<1>6. CASE Still
  <2>1. 1 + 1 # Ratio /\ 1 + 1 = 2
    OBVIOUS
  <2> QED
    BY <1>1, <1>2, <1>3, <1>6, <2>1 DEF Still
<1> QED
  BY <1>1, <1>3, <1>4, <1>5, <1>6

\* Once the cache has left reset it does not go back.
LEMMA ResetOver ==
    ASSUME NEW vga, NEW reserve, NEW refresh, Stepping(vga, reserve, refresh)
    PROVE  /\ state' \in {"INIT1", "INIT2"} => state \in {"INIT1", "INIT2"}
           /\ init_done => init_done'
<1>1. init_done => init_done'
  BY SteppingFacts DEF Phases
<1>2. state \in C!CacheState
  BY CacheRegisters
<1>3. C!CacheState = {"INIT1", "INIT2", "WAITING", "WAITRD", "PAUSE1", "WRITE1", "WRITE2", "WAITFILL"}
                       \union C!Filling \union {"FILL9"}
  BY DEF C!CacheState, C!Filling, C!NextFill
<1>4. \A s \in C!Filling : C!NextFill[s] \notin {"INIT1", "INIT2"}
  BY Ages DEF C!Filling, C!NextFill
<1> QED
  BY <1>1, <1>2, <1>3, <1>4, SteppingFacts, CacheMoves

LEMMA BusInvStep ==
    ASSUME NEW vga, NEW reserve, NEW refresh, Stepping(vga, reserve, refresh)
    PROVE  BusInv'
<1>1. /\ Advance \/ Answer \/ EndIo \/ Still
      /\ cpu_r' = cpu
      /\ req_pending' <=> fast_prgstate' = "waitram"
      /\ req_pending' => ~cpu_run
      /\ cpu_clkena' => prgstate' = "run"
  BY SteppingFacts, BusStep
<1>2. BusInv
  BY SteppingFacts
<1>3. ~init_done' \/ state' \in {"INIT1", "INIT2"} => cpu'.op = "internal"
  BY <1>1, <1>2, ResetOver DEF BusInv, Advance, Answer, EndIo, Still
<1>4. CASE Advance
  BY <1>1, <1>2, <1>3, <1>4 DEF Advance, BusInv, Waits
<1>5. CASE Answer
  BY <1>1, <1>2, <1>3, <1>5 DEF Answer, BusInv, Waits, cpu_run
<1>6. CASE EndIo
  BY <1>1, <1>2, <1>3, <1>6 DEF EndIo, BusInv, Waits, cpu_run
<1>7. CASE Still
  BY <1>1, <1>2, <1>3, <1>7 DEF Still, BusInv, Waits, cpu_run
<1> QED
  BY <1>1, <1>4, <1>5, <1>6, <1>7

-----------------------------------------------------------------------------
(* What a read is answered with.                                           *)

\* A strobe comes for a read at ages 7 to 14.
LEMMA ReadStrobe ==
    ASSUME SdramTypeOK, Timeline
    PROVE  readcache_fill <=> init_done /\ \/ slot1 = "port1" /\ Age1 \in 7 .. 14
                                           \/ slot2 = "port1" /\ Age2 \in 7 .. 14
<1>1. Strobes
  BY DEF Timeline, DataOnTime
<1>2. ~init_done => slot1 = "refresh" /\ slot2 = "idle"
  BY DEF Timeline, Schedule, StartUp
<1> QED
  BY <1>1, <1>2, StrobeAges DEF readcache_fill, FillFor

LEMMA StrobesPrimed ==
    (SdramTypeOK /\ init_done /\ Strobes =>
        (slot1_fill <=> Age1 \in 7 .. 14) /\ (slot2_fill <=> Age2 \in 7 .. 14))'
<1>1. SdramTypeOK /\ init_done /\ Strobes =>
        (slot1_fill <=> Age1 \in 7 .. 14) /\ (slot2_fill <=> Age2 \in 7 .. 14)
  BY StrobeAges
<1> QED
  BY <1>1, PTL

\* What a line that is not in the write cache holds is in the device.
LEMMA CleanWord ==
    ASSUME SdramTypeOK, NEW l \in Line, NEW w \in Word, ~(wc_dirty /\ wc_addr.line = l)
    PROVE  Effective(l, w) = ram[l][w]
  BY EffectiveWord DEF Held

\* The word a strobe brings is the one memory holds.
LEMMA StrobedIsEffective ==
    ASSUME SdramTypeOK, Timeline, SlotInv, NEW b, NEW a \in 7 .. 14, IsSlot("port1", b, a)
    PROVE  /\ b \in Bank /\ bank[b] \in BankState
           /\ bank[b].line \in Line
           /\ ~(wc_dirty /\ wc_addr.line = bank[b].line)
           /\ Beat(bank[b], a) \in Word =>
                sdata_reg.data = Effective(bank[b].line, Beat(bank[b], a))
<1>1. b \in Bank /\ bank[b] \in BankState /\ bank[b].line \in Line
  BY DEF IsSlot, SdramTypeOK, BankState
<1>2. FetchOnTime("port1", b, a) /\ ReadInStep("port1", b, a)
  BY DEF IsSlot, SlotInv, Timeline, DataOnTime
<1>3. ~(wc_dirty /\ wc_addr.line = bank[b].line)
  BY <1>2 DEF ReadInStep, Where
<1>4. sdata_reg.data = Content(bank[b].line, Beat(bank[b], a))
  BY <1>2 DEF FetchOnTime, Reader
<1> QED
  BY <1>1, <1>3, <1>4, CleanWord DEF Content

\* The first word of a fill is the one the CPU waits for.
LEMMA FirstWord ==
    ASSUME MemoryInv, state = "WAITFILL", readcache_fill
    PROVE  /\ sdata_reg.data = Effective(cpu.line, cpu.word)
           /\ \E b : /\ IsSlot("port1", b, 7)
                     /\ bank[b].line = cpu.line /\ bank[b].col = cpu.word
<1>1. SdramTypeOK /\ Timeline /\ SlotInv /\ PaceInv /\ TypeOK /\ BusInv
  BY DEF MemoryInv, TypeOK
<1>2. PICK b, a : a \in 7 .. 14 /\ IsSlot("port1", b, a)
  BY <1>1, ReadStrobe DEF IsSlot
<1>3. ReadInStep("port1", b, a)
  BY <1>1, <1>2 DEF IsSlot, SlotInv
<1>4. a = 7
  BY <1>2, <1>3, Ages DEF ReadInStep
<1>5. bank[b].line = cpu.line /\ bank[b].col = cpu.word
  BY <1>3, <1>4 DEF ReadInStep, Where
<1>6. cpu.line \in Line /\ cpu.word \in Word
  BY <1>1, PortBusy DEF PaceInv
<1>7. Beat(bank[b], 7) = cpu.word
  BY <1>5, <1>6, NextBeat, ChipAssumption DEF Beat, Offset
<1> QED
  BY <1>1, <1>2, <1>4, <1>5, <1>6, <1>7, StrobedIsEffective

\* A hit answers with what memory holds.
LEMMA HitWord ==
    ASSUME MemoryInv, state = "WAITRD", NEW y \in C!Way, C!Hit(y, Port1)
    PROVE  data_q[y].data = Effective(cpu.line, cpu.word)
<1>1. /\ Port1.op = "read" /\ cpu.op = "read" /\ Port1.line = cpu.line /\ cpu_r = cpu
      /\ cpu.line \in Line /\ cpu.word \in Word
  BY PortBusy DEF MemoryInv, PaceInv
<1>2. /\ data_q[y] = dataram[y][IndexOf[cpu.line]][cpu.word]
      /\ tag_q[y] = tagram[y][IndexOf[cpu.line]]
      /\ data_wren = {}
  BY <1>1, Ages DEF MemoryInv, RegistersInv
<1>3. tagram[y][IndexOf[cpu.line]] = TagOf[cpu.line] /\ data_q[y].valid = C!CacheLane
  BY <1>1, <1>2 DEF C!Hit, C!TagHit
<1>4. ~Missing(y, IndexOf[cpu.line], cpu.word) /\ ~Arrives(y, IndexOf[cpu.line], cpu.word)
  BY <1>2, Ages DEF Missing, Arrives
<1>5. Right(data_q[y], cpu.line, cpu.word)
  BY <1>1, <1>2, <1>3, <1>4 DEF MemoryInv, Coherent
<1> QED
  BY <1>1, <1>3, <1>5 DEF Right, Owes, Final, Raised

\* Memory holds for the cycle on the bus what it holds for its address.
LEMMA EffectiveAt ==
    ASSUME NEW l, NEW w, cpu'.line = l, cpu'.word = w
    PROVE  Effective(cpu.line, cpu.word)' = Effective(l, w)'
  BY DEF Effective

\* A read that has its answer keeps it.
LEMMA ReadKept ==
    ASSUME NEW vga, NEW reserve, NEW refresh, Stepping(vga, reserve, refresh),
           cpu.op = "read", cpu' = cpu, data_to_cpu' = Effective(cpu.line, cpu.word)
    PROVE  Answered'
<1>1. cpu.line \in Line /\ cpu.word \in Word
  BY SteppingFacts, CycleType DEF TypeOK
<1>2. PICK l \in Line, w \in Word : l = cpu.line /\ w = cpu.word
  BY <1>1
<1>3. ~wc_dtack'
  <2>1. Port1.op # "write"
    BY SteppingFacts, PortBusy
  <2> QED
    BY <2>1, MemoryStep
<1>4. Effective(l, w)' = Effective(l, w)
  BY <1>3, MemoryStep
<1>5. Effective(cpu.line, cpu.word)' = Effective(l, w)'
  BY <1>2, EffectiveAt
<1>6. data_to_cpu' = Effective(l, w)
  BY <1>2
<1> QED
  BY <1>4, <1>5, <1>6 DEF Answered

\* A write that has been taken, or is taken by this edge, is in memory.
LEMMA WriteKept ==
    ASSUME NEW vga, NEW reserve, NEW refresh, Stepping(vga, reserve, refresh),
           cpu.op = "write", cpu' = cpu, wc_dtack' \/ Taken
    PROVE  Taken'
<1>1. cpu.line \in Line /\ cpu.word \in Word
  BY SteppingFacts, CycleType DEF TypeOK
<1>2. PICK l \in Line, w \in Word : l = cpu.line /\ w = cpu.word
  BY <1>1
<1>3. PICK e : e = Effective(l, w)
  OBVIOUS
<1>4. Effective(l, w)' = IF wc_dtack' THEN Written(cpu, e) ELSE e
  BY <1>2, <1>3, MemoryStep
<1>5. Taken => e = Written(cpu, e)
  BY <1>2, <1>3 DEF Taken
<1>6. Effective(l, w)' = Written(cpu, e)
  BY <1>4, <1>5
<1>7. Effective(cpu.line, cpu.word)' = Written(cpu, e)
  BY <1>2, <1>6, EffectiveAt
<1>8. Written(cpu, Written(cpu, e)) = Written(cpu, e)
  BY WrittenTwice
<1> QED
  BY <1>7, <1>8 DEF Taken, Written

\* How far a fill has got that goes on.
LEMMA FillStep ==
    ASSUME NEW vga, NEW reserve, NEW refresh, Stepping(vga, reserve, refresh), state' \in Fills
    PROVE  \/ /\ state = "WAITFILL" /\ readcache_fill
              /\ FillAge[state'] = 8 /\ data_to_cpu' = sdata_reg.data
           \/ /\ state \in C!Filling /\ state \in Fills
              /\ FillAge[state] \in 8 .. 14 /\ FillAge[state'] = FillAge[state] + 1
              /\ data_to_cpu' = data_to_cpu
<1>1. state \in C!CacheState
  BY CacheRegisters
<1>2. C!CacheState = {"INIT1", "INIT2", "WAITING", "WAITRD", "PAUSE1", "WRITE1", "WRITE2", "WAITFILL"}
                       \union C!Filling \union {"FILL9"}
  BY DEF C!CacheState, C!Filling, C!NextFill
<1>3. state \in C!Filling \/ (state = "WAITFILL" /\ readcache_fill /\ state' = "FILL2")
  BY <1>1, <1>2, Ages, SteppingFacts, CacheMoves
<1>4. CASE state \in C!Filling
  BY <1>4, Ages, SteppingFacts, CacheMoves
<1>5. CASE state = "WAITFILL" /\ readcache_fill /\ state' = "FILL2"
  BY <1>5, Ages, SteppingFacts, CacheMoves
<1> QED
  BY <1>3, <1>4, <1>5

\* In the first states of a fill the cycle it answers is still on the bus.
LEMMA FillKept ==
    ASSUME NEW vga, NEW reserve, NEW refresh, Stepping(vga, reserve, refresh),
           state \in Fills, FillAge[state] <= 11
    PROVE  /\ cpu.op = "read" /\ cpu' = cpu /\ cpu_r' = cpu'
           /\ FillAge[state] <= 10 /\ cpu_clkena' => divider' \in 1 .. FillAge[state] + 1 - 8
<1>1. FillAge[state] \in 8 .. 11
  BY Ages
<1>2. /\ cpu.op = "read" /\ cpu_r = cpu
      /\ cpu_clkena => divider \in 1 .. FillAge[state] - 8
  BY <1>1, SteppingFacts DEF PaceInv
<1>3. /\ cpu' = cpu /\ cpu_r' = cpu'
      /\ cpu_clkena => divider' = (IF divider + 1 = Ratio THEN 0 ELSE divider + 1)
      /\ cpu_clkena' /\ ~cpu_clkena => divider' = 1
  BY <1>1, <1>2, CycleKept
<1>4. CASE cpu_clkena
  <2>1. divider \in 1 .. 3 /\ divider + 1 \in 1 .. FillAge[state] + 1 - 8
    BY <1>1, <1>2, <1>4
  <2>2. divider + 1 = Ratio => FillAge[state] = 11
    BY <1>1, <1>2, <1>4
  <2> QED
    BY <1>1, <1>2, <1>3, <1>4, <2>1, <2>2
<1>5. CASE ~cpu_clkena
  BY <1>1, <1>2, <1>3, <1>5
<1> QED
  BY <1>4, <1>5

\* Every state that answers has the word.
LEMMA AnsweredStep ==
    ASSUME NEW vga, NEW reserve, NEW refresh, Stepping(vga, reserve, refresh)
    PROVE  /\ state' = "PAUSE1" => /\ cpu'.op = "read" /\ cpu_r' = cpu' /\ Answered'
                                   /\ cpu_clkena' => divider' \in 1 .. 2
           /\ state' \in Fills /\ FillAge[state'] <= 12 => cpu'.op = "read" /\ cpu_r' = cpu'
           /\ state' \in Fills /\ FillAge[state'] <= 11 =>
                Answered' /\ (cpu_clkena' => divider' \in 1 .. FillAge[state'] - 8)
           /\ cpu_ack' => /\ cpu'.op = "read" /\ cpu_r' = cpu' /\ Answered'
                          /\ cpu_clkena' => divider' \in 1 .. 2
                          /\ state' = "PAUSE1" \/ (state' \in Fills /\ FillAge[state'] <= 11)
<1>0. MemoryInv /\ PaceInv /\ AnswerInv
  BY SteppingFacts DEF Stepping
<1>1. state \in C!CacheState
  BY CacheRegisters
<1>2. C!CacheState = {"INIT1", "INIT2", "WAITING", "WAITRD", "PAUSE1", "WRITE1", "WRITE2", "WAITFILL"}
                       \union C!Filling \union {"FILL9"}
  BY DEF C!CacheState, C!Filling, C!NextFill
<1>3. ASSUME state' = "PAUSE1"
      PROVE  /\ cpu'.op = "read" /\ cpu_r' = cpu' /\ Answered'
             /\ cpu_clkena' => divider' \in 1 .. 2
  <2>1. state = "WAITRD" \/ (state = "PAUSE1" /\ Port1.op # "idle")
    BY <1>1, <1>2, <1>3, Ages, SteppingFacts, CacheMoves
  <2>2. Port1.op # "idle"
    BY <1>0, <2>1 DEF PaceInv
  <2>3. cpu' = cpu /\ cpu_r' = cpu' /\ (cpu_clkena' => divider' \in 1 .. 2)
    BY <2>2, RaisedKept
  <2>4. cpu.op = "read"
    BY <1>0, <2>1, <2>2, RaisedKept DEF PaceInv
  <2>5. data_to_cpu' = Effective(cpu.line, cpu.word)
    <3>1. CASE state = "WAITRD"
      <4>1. PICK y \in C!Way : C!Hit(y, Port1) /\ data_to_cpu' = data_q[y].data
        BY <1>3, <3>1, CacheRegisters
      <4> QED
        BY <1>0, <3>1, <4>1, HitWord
    <3>2. CASE state = "PAUSE1"
      <4>1. data_to_cpu' = data_to_cpu
        BY <3>2, SteppingFacts, CacheMoves
      <4> QED
        BY <1>0, <3>2, <4>1 DEF PaceInv, Answered
    <3> QED
      BY <2>1, <3>1, <3>2
  <2> QED
    BY <2>3, <2>4, <2>5, ReadKept
<1>4. ASSUME state' \in Fills, FillAge[state'] <= 12
      PROVE  cpu'.op = "read" /\ cpu_r' = cpu'
  <2>1. \/ state = "WAITFILL"
        \/ state \in Fills /\ FillAge[state] <= 11
    BY <1>4, FillStep
  <2>2. CASE state = "WAITFILL"
    BY <1>0, <2>2, RaisedKept DEF PaceInv
  <2>3. CASE state \in Fills /\ FillAge[state] <= 11
    BY <2>3, FillKept
  <2> QED
    BY <2>1, <2>2, <2>3
<1>5. ASSUME state' \in Fills, FillAge[state'] <= 11
      PROVE  Answered' /\ (cpu_clkena' => divider' \in 1 .. FillAge[state'] - 8)
  <2>1. CASE state = "WAITFILL"
    <3>1. readcache_fill /\ data_to_cpu' = sdata_reg.data
      BY <1>5, <2>1, FillStep, Ages
    <3>2. Port1.op = "read" /\ ~cpu_clkena
      BY <1>0, <2>1 DEF PaceInv
    <3>3. cpu.op = "read" /\ cpu' = cpu
      BY <3>2, RaisedKept
    <3>4. ~cpu_clkena'
      <4>1. ~dtack
        BY <1>0, <2>1, <3>3, Ages DEF dtack, AnswerInv, PaceInv
      <4> QED
        BY <3>2, <4>1, RaisedKept
    <3>5. Answered'
      BY <1>0, <2>1, <3>1, <3>3, FirstWord, ReadKept
    <3> QED
      BY <3>4, <3>5
  <2>2. CASE state # "WAITFILL"
    <3>1. /\ state \in Fills /\ FillAge[state] \in 8 .. 10 /\ FillAge[state'] = FillAge[state] + 1
          /\ data_to_cpu' = data_to_cpu
      BY <1>5, <2>2, FillStep
    <3>2. /\ cpu.op = "read" /\ cpu' = cpu
          /\ cpu_clkena' => divider' \in 1 .. FillAge[state] + 1 - 8
      BY <3>1, FillKept
    <3>3. data_to_cpu' = Effective(cpu.line, cpu.word)
      BY <1>0, <3>1 DEF PaceInv, Answered
    <3> QED
      BY <3>1, <3>2, <3>3, ReadKept
  <2> QED
    BY <2>1, <2>2
<1>6. ASSUME cpu_ack'
      PROVE  /\ Port1.op # "idle"
             /\ state' = "PAUSE1" \/ (state' \in Fills /\ FillAge[state'] <= 11)
  <2>1. \/ state = "WAITRD" /\ state' = "PAUSE1"
        \/ state = "PAUSE1" /\ Port1.op # "idle" /\ state' = "PAUSE1"
        \/ state = "WAITFILL" /\ readcache_fill /\ state' = "FILL2"
        \/ state \in C!Filling /\ FillAge[state] <= 10 /\ Port1.op # "idle" /\ state' = C!NextFill[state]
    BY <1>1, <1>2, <1>6, Ages, SteppingFacts, CacheMoves
  <2>2. Port1.op # "idle"
    BY <1>0, <2>1 DEF PaceInv
  <2>3. state \in C!Filling /\ FillAge[state] <= 10 => FillAge[C!NextFill[state]] <= 11 /\ C!NextFill[state] \in Fills
    BY Ages
  <2> QED
    BY <2>1, <2>2, <2>3, Ages
<1>7. cpu_ack' => /\ cpu'.op = "read" /\ cpu_r' = cpu' /\ Answered'
                  /\ cpu_clkena' => divider' \in 1 .. 2
  <2> SUFFICES ASSUME cpu_ack' PROVE cpu'.op = "read" /\ cpu_r' = cpu' /\ Answered' /\ (cpu_clkena' => divider' \in 1 .. 2)
    OBVIOUS
  <2>1. cpu_clkena' => divider' \in 1 .. 2
    BY <1>6, RaisedKept
  <2>2. CASE state' = "PAUSE1"
    BY <1>3, <2>1, <2>2
  <2>3. CASE state' \in Fills /\ FillAge[state'] <= 11
    <3>1. FillAge[state'] <= 12
      BY <2>3, Ages
    <3> QED
      BY <1>4, <1>5, <2>1, <2>3, <3>1
  <2> QED
    BY <1>6, <2>2, <2>3
<1> QED
  BY <1>3, <1>4, <1>5, <1>6, <1>7

LEMMA AnswerInvStep ==
    ASSUME NEW vga, NEW reserve, NEW refresh, Stepping(vga, reserve, refresh)
    PROVE  AnswerInv'
<1>1. ASSUME wc_dtack'
      PROVE  cpu'.op = "write" /\ cpu_r' = cpu' /\ Taken' /\ (cpu_clkena' => divider' \in 1 .. 2)
  <2>1. Port1.op = "write"
    BY <1>1, MemoryStep
  <2>2. cpu.op = "write" /\ cpu' = cpu /\ cpu_r' = cpu' /\ (cpu_clkena' => divider' \in 1 .. 2)
    BY <2>1, RaisedKept
  <2> QED
    BY <1>1, <2>2, WriteKept
<1>2. ASSUME cpu_clkena', cpu'.op = "write"
      PROVE  Taken'
  <2>1. Advance \/ Answer \/ EndIo \/ Still
    BY SteppingFacts, BusStep
  <2>2. cpu' = cpu /\ cpu.op = "write" /\ (cpu_clkena \/ (Answer /\ dtack))
    BY <1>2, <2>1 DEF Advance, Answer, EndIo, Still
  <2>3. cpu_clkena \/ wc_dtack
    BY <2>2, SteppingFacts DEF AnswerInv, dtack
  <2>4. Taken
    BY <2>2, <2>3, SteppingFacts DEF AnswerInv
  <2> QED
    BY <2>2, <2>4, WriteKept
<1> QED
  BY <1>1, <1>2, AnsweredStep DEF AnswerInv

\* A cycle that the cache has begun on is still raised after the edge.
LEMMA PaceInvStep ==
    ASSUME NEW vga, NEW reserve, NEW refresh, Stepping(vga, reserve, refresh)
    PROVE  PaceInv'
<1>0. MemoryInv /\ PaceInv /\ AnswerInv /\ BusInv
  BY SteppingFacts DEF Stepping
<1>1. state \in C!CacheState
  BY CacheRegisters
<1>2. C!CacheState = {"INIT1", "INIT2", "WAITING", "WAITRD", "PAUSE1", "WRITE1", "WRITE2", "WAITFILL"}
                       \union C!Filling \union {"FILL9"}
  BY DEF C!CacheState, C!Filling, C!NextFill
<1>3. TypeOK' /\ BusInv'
  BY MemoryStepType, BusInvStep
<1>4. Port1'.op = IF req_pending' /\ cpu'.op # "io" THEN cpu'.op ELSE "idle"
  BY <1>3, PortOpNext
<1>5. ASSUME state' \in {"WAITRD", "WAITFILL"}
      PROVE  Port1'.op = "read" /\ ~cpu_clkena'
  <2>1. state \in {"WAITING", "WAITRD", "WAITFILL"} /\ Port1.op = "read" /\ ~cpu_clkena
    BY <1>0, <1>1, <1>2, <1>5, Ages, SteppingFacts, CacheMoves DEF PaceInv
  <2>2. cpu' = cpu /\ cpu.op = "read" /\ req_pending' /\ (cpu_clkena' => dtack)
    BY <2>1, RaisedKept
  <2>3. ~dtack
    BY <1>0, <2>1, <2>2, Ages DEF dtack, AnswerInv, PaceInv
  <2> QED
    BY <1>4, <2>2, <2>3
<1>6. ASSUME state' = "WRITE1"
      PROVE  Port1'.op = "write"
  <2>1. state = "WAITING" /\ Port1.op = "write"
    BY <1>1, <1>2, <1>6, Ages, SteppingFacts, CacheMoves
  <2>2. ~cpu_clkena
    BY <1>0, <2>1 DEF PaceInv
  <2> QED
    BY <1>4, <2>1, <2>2, RaisedKept
<1>7. ASSUME state' = "WAITING", Port1'.op # "idle"
      PROVE  ~cpu_clkena'
  <2> SUFFICES ASSUME cpu_clkena' PROVE FALSE
    OBVIOUS
  <2>1. req_pending' /\ cpu'.op # "io"
    BY <1>4, <1>7
  <2>2. Advance \/ Answer \/ EndIo \/ Still
    BY SteppingFacts, BusStep
  <2>3. req_pending' => ~cpu_run
    BY SteppingFacts, BusStep
  <2>4. ~cpu_clkena
    BY <2>1, <2>3 DEF cpu_run
  <2>5. Answer
    BY <2>1, <2>2, <2>4 DEF Advance, EndIo, Still
  <2>6. divider = 0 /\ dtack /\ cpu.op \in {"read", "write"} /\ req_pending
    BY <2>5 DEF Answer, Waits
  <2>7. Port1.op # "idle"
    BY <2>6, SteppingFacts, PortType
  <2>8. state \in {"INIT2", "INIT1", "FILL9"}
    <3>1. state \notin C!Filling
      BY <1>7, Ages, SteppingFacts, CacheMoves
    <3>2. state \notin {"WAITING", "WAITRD", "PAUSE1", "WRITE1", "WRITE2", "WAITFILL"}
      BY <1>0, <1>7, <2>7, SteppingFacts, CacheMoves, RaisedKept DEF PaceInv
    <3> QED
      BY <1>1, <1>2, <3>1, <3>2
  <2>9. state = "FILL9"
    BY <1>0, <2>6, <2>8 DEF BusInv
  <2>10. FillAge[state] = 15 /\ state \in Fills
    BY <2>9, Ages
  <2>11. ~cpu_ack
    BY <1>0, <2>9, <2>10 DEF PaceInv
  <2>12. wc_dtack
    BY <2>6, <2>11 DEF dtack
  <2>13. cpu.op = "write"
    BY <1>0, <2>12 DEF AnswerInv
  <2> QED
    BY <1>0, <2>6, <2>10, <2>13 DEF PaceInv
<1>8. ASSUME state' = "WRITE2"
      PROVE  cpu'.op = "write" /\ cpu_r' = cpu' /\ (cpu_clkena' => divider' \in 1 .. 2)
  <2>1. state = "WRITE1" \/ (state = "WRITE2" /\ Port1.op # "idle")
    BY <1>1, <1>2, <1>8, Ages, SteppingFacts, CacheMoves
  <2>2. Port1.op # "idle"
    BY <1>0, <2>1 DEF PaceInv
  <2>3. cpu.op = "write"
    BY <1>0, <2>1, <2>2, RaisedKept DEF PaceInv
  <2> QED
    BY <2>2, <2>3, RaisedKept
<1>9. ASSUME state' \in Fills, FillAge[state'] >= 13, cpu'.op = "write"
      PROVE  /\ ~cpu_clkena' /\ divider' \in 1 .. FillAge[state'] - 12
             /\ FillAge[state'] = 13 => ~req_pending'
  <2>1. state \in Fills /\ FillAge[state] \in 12 .. 14 /\ FillAge[state'] = FillAge[state] + 1
    BY <1>9, FillStep
  <2>2. Advance \/ Answer \/ EndIo \/ Still
    BY SteppingFacts, BusStep
  <2>3. CASE Advance
    BY <2>1, <2>3 DEF Advance
  <2>4. CASE ~Advance
    <3>1. cpu.op = "write"
      BY <1>9, <2>2, <2>4 DEF Answer, EndIo, Still
    <3>2. FillAge[state] \in 13 .. 14
      BY <1>0, <2>1, <3>1 DEF PaceInv
    <3>3. ~cpu_clkena /\ divider \in 1 .. FillAge[state] - 12
      BY <1>0, <2>1, <3>1, <3>2 DEF PaceInv
    <3>4. Still
      BY <2>2, <2>4, <3>1, <3>3 DEF Answer, EndIo
    <3>5. divider' = divider + 1 /\ ~cpu_clkena'
      BY <3>2, <3>3, <3>4 DEF Still
    <3> QED
      BY <2>1, <3>2, <3>3, <3>5
  <2> QED
    BY <2>3, <2>4
<1>10. cpu_ack' => state' = "PAUSE1" \/ (state' \in Fills /\ FillAge[state'] <= 11)
  BY AnsweredStep
<1> QED
  BY <1>5, <1>6, <1>7, <1>8, <1>9, <1>10, AnsweredStep DEF PaceInv

-----------------------------------------------------------------------------
(* Reads in the slots.                                                     *)

\* While the cache waits, or takes any word of a fill but the last, the CPU has
\* no write accepted: a line that is not in the write cache does not get there.
LEMMA LineKept ==
    ASSUME NEW vga, NEW reserve, NEW refresh, Stepping(vga, reserve, refresh),
           state = "WAITFILL" \/ (state \in Fills /\ FillAge[state] <= 13),
           NEW l, ~(wc_dirty /\ wc_addr.line = l)
    PROVE  ~(wc_dirty' /\ wc_addr'.line = l)
<1>1. Port1.op # "write"
  <2>1. PaceInv
    BY SteppingFacts
  <2>2. CASE state = "WAITFILL"
    BY <2>1, <2>2 DEF PaceInv
  <2>3. CASE state \in Fills /\ FillAge[state] <= 12
    BY <2>1, <2>3, SteppingFacts, PortBusy DEF PaceInv
  <2>4. CASE state \in Fills /\ FillAge[state] = 13
    BY <2>1, <2>4, SteppingFacts, PortBusy DEF PaceInv
  <2> QED
    BY <2>2, <2>3, <2>4, Ages
<1>2. ~wcAccepts(Port1)
  BY <1>1 DEF wcAccepts
<1> QED
  BY <1>2, SteppingFacts DEF WriteCache

\* Two reads are never under way at once, except that the older one may be past
\* its last word.
LEMMA NoStrobeYet ==
    ASSUME MemoryInv, NEW b, NEW a \in 0 .. 6, IsSlot("port1", b, a)
    PROVE  ~readcache_fill
<1>1. SdramTypeOK /\ Timeline /\ SlotInv
  BY DEF MemoryInv, TypeOK
<1>2. state = "WAITFILL"
  BY <1>1 DEF IsSlot, SlotInv, ReadInStep
<1> SUFFICES ASSUME readcache_fill PROVE FALSE
  OBVIOUS
<1>3. PICK c, i : IsSlot("port1", c, i) /\ i \in 7 .. 14
  BY <1>1, ReadStrobe DEF IsSlot
<1>4. Age1 \in 0 .. 15 /\ Age2 = IF Age1 < 8 THEN Age1 + 8 ELSE Age1 - 8
  BY <1>1, ApartAges
<1>5. i \in 8 .. 14
  BY <1>3, <1>4 DEF IsSlot
<1>6. state \in Fills
  BY <1>1, <1>3, <1>5 DEF IsSlot, SlotInv, ReadInStep
<1> QED
  BY <1>2, <1>6, Ages

\* The access of a read from one clock to the next.
LEMMA FetchKept ==
    ASSUME NEW vga, NEW reserve, NEW refresh, Stepping(vga, reserve, refresh), init_done,
           NEW b, NEW a \in 0 .. 13, IsSlot("port1", b, a)
    PROVE  /\ a \in 0 .. 2 => casaddr = [line |-> cpu.line, col |-> cpu.word]
           /\ a \in 3 .. 6 => bank'[b].line = cpu.line /\ bank'[b].col = cpu.word
           /\ a \in 0 .. 6 => state' = "WAITFILL" /\ cpu' = cpu
           /\ a \in 7 .. 13 =>
                /\ state' \in Fills /\ FillAge[state'] = a + 1
                /\ readword' = Beat(bank'[b], a)
                /\ bank'[b].line \in Line
                /\ IndexOf[bank'[b].line] = latched_cpuaddr'
                /\ TagOf[bank'[b].line] = tagram'[FillWay'][latched_cpuaddr']
           /\ a \in 0 .. 6 => ~(wc_dirty' /\ wc_addr'.line = cpu.line)
           /\ a \in 7 .. 13 => ~(wc_dirty' /\ wc_addr'.line = bank'[b].line)
<1>0. /\ MemoryInv /\ SdramTypeOK /\ TypeOK /\ Timeline /\ DataOnTime /\ SlotInv /\ PaceInv
      /\ RegistersInv /\ Running
  BY SteppingFacts DEF Stepping, Timeline, Schedule
<1>1. ReadInStep("port1", b, a) /\ FetchOnTime("port1", b, a)
  BY <1>0 DEF IsSlot, SlotInv, DataOnTime
<1>2. /\ a \in 3 .. 13 => bank'[b].line = bank[b].line
      /\ a = 3 => bank'[b].line = casaddr.line /\ bank'[b].col = casaddr.col
      /\ a \in 4 .. 13 => bank'[b].col = bank[b].col
  BY <1>0, <1>1, SteppingFacts, FetchStep DEF Reader
<1>3. a \in 0 .. 3 => casaddr = [line |-> cpu.line, col |-> cpu.word]
  BY <1>1 DEF ReadInStep, Where
<1>4. a \in 4 .. 7 => bank[b].line = cpu.line /\ bank[b].col = cpu.word
  BY <1>1 DEF ReadInStep, Where
<1>5. a \in 3 .. 6 => bank'[b].line = cpu.line /\ bank'[b].col = cpu.word
  BY <1>2, <1>3, <1>4
<1>6. a \in 0 .. 7 => state = "WAITFILL" /\ Port1.op = "read" /\ cpu' = cpu
  <2> SUFFICES ASSUME a \in 0 .. 7 PROVE state = "WAITFILL" /\ Port1.op = "read" /\ cpu' = cpu
    OBVIOUS
  <2>1. state = "WAITFILL" /\ Port1.op = "read"
    BY <1>0, <1>1 DEF ReadInStep, PaceInv
  <2> QED
    BY <2>1, RaisedKept
<1>7. ASSUME a \in 0 .. 6
      PROVE  state' = "WAITFILL" /\ ~(wc_dirty' /\ wc_addr'.line = cpu.line)
  <2>1. ~readcache_fill
    BY <1>0, <1>7, NoStrobeYet
  <2>2. ~(wc_dirty /\ wc_addr.line = cpu.line)
    BY <1>1, <1>3, <1>4, <1>7 DEF ReadInStep, Where
  <2> QED
    BY <1>6, <1>7, <2>1, <2>2, SteppingFacts, CacheMoves, LineKept
<1>8. b \in Bank /\ bank[b] \in BankState /\ bank[b].line \in Line /\ bank[b].col \in 0 .. 7
  BY <1>0 DEF IsSlot, SdramTypeOK, BankState, Offset
<1>9. ASSUME a \in 7 .. 13
      PROVE  readcache_fill /\ bank'[b].line = bank[b].line /\ bank'[b].col = bank[b].col
             /\ ~(wc_dirty /\ wc_addr.line = bank[b].line)
  <2>1. readcache_fill
    BY <1>0, <1>9, ReadStrobe DEF IsSlot
  <2> QED
    BY <1>1, <1>2, <1>9, <2>1 DEF ReadInStep, Where
<1>10. CASE a = 7
  <2>1. readcache_fill /\ state = "WAITFILL"
    BY <1>6, <1>9, <1>10
  <2>2. state' = "FILL2" /\ readword' = Port1.word /\ UNCHANGED <<tag_mru1, latched_cpuaddr>>
    BY <2>1, SteppingFacts, CacheMoves, CacheRegisters
  <2>3. tag_wren = {}
    BY <1>0, <2>1, Ages DEF RegistersInv
  <2>4. /\ latched_cpuaddr = IndexOf[cpu.line]
        /\ tagram[FillWay][latched_cpuaddr] = TagOf[cpu.line]
    BY <1>0, <2>1, <2>3 DEF RegistersInv
  <2>5. FillWay' = FillWay /\ FillWay \in C!Way
    BY <2>2 DEF FillWay, C!Way
  <2>6. tagram' = tagram
    BY <1>0, <2>3, SteppingFacts DEF C!CacheTick, C!TagRam, TypeOK, C!CacheTypeOK
  <2>7. Beat(bank'[b], 7) = cpu.word
    BY <1>4, <1>8, <1>9, <1>10, NextBeat DEF Beat
  <2>8. Port1.word = cpu.word
    BY <1>6, <1>10, RaisedKept, SteppingFacts, PortBusy
  <2>9. ~(wc_dirty' /\ wc_addr'.line = bank'[b].line)
    BY <1>9, <1>10, <2>1, LineKept
  <2> QED
    BY <1>4, <1>8, <1>9, <1>10, <2>2, <2>4, <2>5, <2>6, <2>7, <2>8, <2>9, Ages
<1>11. CASE a \in 8 .. 13
  <2>1. /\ state \in Fills /\ FillAge[state] = a /\ state \in C!Filling
        /\ readword = Beat(bank[b], a - 1)
        /\ IndexOf[bank[b].line] = latched_cpuaddr
        /\ TagOf[bank[b].line] = tagram[FillWay][latched_cpuaddr]
    BY <1>1, <1>11, Ages DEF ReadInStep
  <2>2. /\ state' \in Fills /\ FillAge[state'] = a + 1 /\ readword' = (readword + 1) % 8
        /\ UNCHANGED <<tag_mru1, latched_cpuaddr>>
    BY <2>1, Ages, SteppingFacts, CacheMoves, CacheRegisters
  <2>3. tag_wren = {}
    BY <1>0, <2>1, Ages DEF RegistersInv
  <2>4. tagram' = tagram /\ FillWay' = FillWay
    BY <1>0, <2>2, <2>3, SteppingFacts DEF C!CacheTick, C!TagRam, TypeOK, C!CacheTypeOK, FillWay
  <2>5. readword' = Beat(bank'[b], a)
    <3>1. PICK c \in 0 .. 7 : c = bank[b].col /\ c = bank'[b].col
      BY <1>8, <1>9, <1>11
    <3>2. \A i \in 0 .. 7, j \in 8 .. 13 : (((i + (j - 8)) % 8) + 1) % 8 = (i + (j - 7)) % 8
      OBVIOUS
    <3>3. readword = (c + (a - 8)) % 8
      BY <2>1, <3>1 DEF Beat
    <3> QED
      BY <1>11, <2>2, <3>1, <3>2, <3>3 DEF Beat
  <2>6. ~(wc_dirty' /\ wc_addr'.line = bank'[b].line)
    BY <1>9, <1>11, <2>1, LineKept
  <2> QED
    BY <1>8, <1>9, <1>11, <2>1, <2>2, <2>4, <2>5, <2>6
<1> QED
  BY <1>3, <1>5, <1>6, <1>7, <1>10, <1>11

\* A slot is granted to the read cache for the word the CPU waits for, never
\* while that word is already on its way, and never while its line is in the
\* write cache: the posted write goes first, or has the bank.
LEMMA GrantClean ==
    ASSUME NEW vga, NEW reserve, NEW refresh, Stepping(vga, reserve, refresh), init_done,
           cache_req, NEW port, NEW b, IsSlot(port, b, 7), Clear(Port1.line, port, b),
           readcache_fill => port = "port1",
           Writing(6 .. 8) => port = "writecache",
           ~(wc_req /\ port # "writecache" /\ wc_addr.line = Port1.line)
    PROVE  /\ state' = "WAITFILL" /\ cpu' = cpu
           /\ Port1.line = cpu.line /\ Port1.word = cpu.word
           /\ ~(wc_dirty' /\ wc_addr'.line = cpu.line)
<1>0. /\ MemoryInv /\ SdramTypeOK /\ TypeOK /\ Timeline /\ DataOnTime /\ SlotInv /\ PaceInv /\ Running
      /\ Posted
  BY SteppingFacts DEF Stepping, Timeline, Schedule, DataOnTime
<1>1. state = "WAITFILL" /\ Port1.op = "read"
  BY <1>0 DEF SlotInv, PaceInv
<1>2. cpu' = cpu /\ Port1.line = cpu.line /\ Port1.word = cpu.word
  BY <1>1, RaisedKept, SteppingFacts, PortBusy
<1>3. ~readcache_fill
  <2> SUFFICES ASSUME readcache_fill PROVE FALSE
    OBVIOUS
  <2>1. port = "port1"
    OBVIOUS
  <2>2. ReadInStep("port1", b, 7) /\ FetchOnTime("port1", b, 7)
    BY <1>0, <2>1 DEF IsSlot, SlotInv, DataOnTime
  <2>3. bank[b].line = cpu.line /\ BankOf[bank[b].line] = b
    BY <2>2 DEF ReadInStep, Where, FetchOnTime, Reader
  <2> QED
    BY <1>2, <2>1, <2>3 DEF Clear
<1>4. port = "writecache" => wc_addr.line # cpu.line
  <2> SUFFICES ASSUME port = "writecache", wc_addr.line = cpu.line PROVE FALSE
    OBVIOUS
  <2>1. PostOnTime("writecache", b, 7) /\ SlotOnTime("writecache", b, 7)
    BY <1>0 DEF IsSlot, DataOnTime, Running
  <2>2. casaddr.line = wc_addr.line
    BY <2>1 DEF PostOnTime
  <2>3. BankOf[casaddr.line] = b
    BY <2>1 DEF SlotOnTime, OnTime, Owned
  <2> QED
    BY <1>2, <2>2, <2>3 DEF Clear
<1>5. ~(wc_dirty /\ wc_addr.line = cpu.line)
  <2> SUFFICES ASSUME wc_dirty, wc_addr.line = cpu.line PROVE FALSE
    OBVIOUS
  <2>1. port # "writecache"
    BY <1>4
  <2>2. wc_state # "fill"
    BY <1>0, <2>1 DEF Posted
  <2>3. wc_req
    BY <1>0, <2>2 DEF Posted, SdramTypeOK
  <2> QED
    BY <1>2, <2>1, <2>3
<1>6. state' = "WAITFILL"
  BY <1>1, <1>3, SteppingFacts, CacheMoves
<1>7. ~(wc_dirty' /\ wc_addr'.line = cpu.line)
  BY <1>1, <1>5, LineKept
<1> QED
  BY <1>2, <1>6, <1>7

LEMMA Grant1Clean ==
    ASSUME NEW vga, NEW reserve, NEW refresh, Stepping(vga, reserve, refresh), init_done,
           sdram_state = 2, slot1' = "port1"
    PROVE  /\ state' = "WAITFILL" /\ cpu' = cpu
           /\ casaddr' = [line |-> cpu.line, col |-> cpu.word]
           /\ ~(wc_dirty' /\ wc_addr'.line = cpu.line)
<1>1. SdramTypeOK /\ Timeline /\ Slots(Port1, cache_req, vga, reserve, refresh) /\ Phases(refresh)
  BY SteppingFacts
<1>2. Age1 = 15 /\ Age2 = 7
  BY <1>1, AgeStep
<1>3. /\ cache_req /\ Clear(Port1.line, slot2, slot2_bank)
      /\ ~(wc_req /\ slot2 # "writecache" /\ Clear(wc_addr.line, slot2, slot2_bank))
      /\ casaddr' = [line |-> Port1.line, col |-> Port1.word]
  BY <1>1 DEF Slots, Grant1, Slot1Choice, Target
<1>4. ~(wc_req /\ slot2 # "writecache" /\ wc_addr.line = Port1.line)
  BY <1>3 DEF Clear
<1>5. (readcache_fill => slot2 = "port1") /\ (Writing(6 .. 8) => slot2 = "writecache")
  BY <1>1, <1>2, ReadStrobe DEF Writing
<1>6. IsSlot(slot2, slot2_bank, 7)
  BY <1>2 DEF IsSlot
<1> QED
  BY <1>3, <1>4, <1>5, <1>6, GrantClean

LEMMA Grant2Clean ==
    ASSUME NEW vga, NEW reserve, NEW refresh, Stepping(vga, reserve, refresh), init_done,
           sdram_state = 10, slot2' = "port1"
    PROVE  /\ state' = "WAITFILL" /\ cpu' = cpu
           /\ casaddr' = [line |-> cpu.line, col |-> cpu.word]
           /\ ~(wc_dirty' /\ wc_addr'.line = cpu.line)
<1>1. SdramTypeOK /\ Timeline /\ Slots(Port1, cache_req, vga, reserve, refresh) /\ Phases(refresh)
  BY SteppingFacts
<1>2. Age2 = 15 /\ Age1 = 7
  BY <1>1, AgeStep
<1>3. /\ cache_req /\ Clear(Port1.line, slot1, slot1_bank) /\ Unreserved(Port1.line, reserve)
      /\ ~(/\ wc_req /\ slot1 # "writecache"
           /\ Clear(wc_addr.line, slot1, slot1_bank) /\ Unreserved(wc_addr.line, reserve))
      /\ casaddr' = [line |-> Port1.line, col |-> Port1.word]
  BY <1>1 DEF Slots, Grant2, Slot2Choice, Slot2Grant, Target
<1>4. ~(wc_req /\ slot1 # "writecache" /\ wc_addr.line = Port1.line)
  BY <1>3 DEF Clear, Unreserved
<1>5. (readcache_fill => slot1 = "port1") /\ (Writing(6 .. 8) => slot1 = "writecache")
  BY <1>1, <1>2, ReadStrobe DEF Writing
<1>6. IsSlot(slot1, slot1_bank, 7)
  BY <1>2 DEF IsSlot
<1> QED
  BY <1>3, <1>4, <1>5, <1>6, GrantClean

LEMMA Read1InStep ==
    ASSUME NEW vga, NEW reserve, NEW refresh, Stepping(vga, reserve, refresh), init_done
    PROVE  ReadInStep(slot1, slot1_bank, Age1)'
<1> SUFFICES ASSUME slot1' = "port1"
             PROVE  /\ Age1' \in 0 .. 7 =>
                         /\ state' = "WAITFILL"
                         /\ Where(slot1_bank, Age1)' = [line |-> cpu'.line, col |-> cpu'.word]
                    /\ Age1' \in 8 .. 14 =>
                         /\ state' \in Fills /\ FillAge[state'] = Age1'
                         /\ readword' = Beat(bank'[slot1_bank'], Age1' - 1)
                         /\ IndexOf[bank'[slot1_bank'].line] = latched_cpuaddr'
                         /\ TagOf[bank'[slot1_bank'].line] = tagram'[FillWay'][latched_cpuaddr']
                    /\ Age1' \in 0 .. 14 => ~(wc_dirty' /\ wc_addr'.line = Where(slot1_bank, Age1)'.line)
  BY DEF ReadInStep, Beat, Fills, FillAge
<1>0. /\ SdramTypeOK /\ Phases(refresh) /\ Slots(Port1, cache_req, vga, reserve, refresh)
      /\ vga \in Line \union {NoLine}
  BY SteppingFacts
<1>1. CASE sdram_state = 2
  <2>1. Age1' = 0
    BY <1>0, <1>1, AgeStep
  <2> QED
    BY <1>1, <2>1, Grant1Clean DEF Where
<1>2. CASE sdram_state # 2
  <2>1. slot1 = "port1" /\ slot1_bank' = slot1_bank /\ (sdram_state # 10 => casaddr' = casaddr)
    BY <1>0, <1>2, GrantStep
  <2>2. Age1 \in 0 .. 14 /\ Age1' = Age1 + 1 /\ (sdram_state = 10 => Age1 = 7)
    BY <1>0, <1>2, AgeStep
  <2>3. CASE Age1 \in 0 .. 6
    BY <2>1, <2>2, <2>3, FetchKept DEF IsSlot, Where
  <2>4. CASE Age1 \in 7 .. 13
    <3>1. Age1' \in 8 .. 14 /\ Age1' - 1 = Age1
      BY <2>2, <2>4
    <3>2. Where(slot1_bank, Age1)'.line = bank'[slot1_bank].line
      BY <2>1, <3>1 DEF Where
    <3> QED
      BY <2>1, <2>2, <2>4, <3>1, <3>2, FetchKept DEF IsSlot
  <2> QED
    BY <2>2, <2>3, <2>4
<1> QED
  BY <1>1, <1>2

LEMMA Read2InStep ==
    ASSUME NEW vga, NEW reserve, NEW refresh, Stepping(vga, reserve, refresh), init_done
    PROVE  ReadInStep(slot2, slot2_bank, Age2)'
<1> SUFFICES ASSUME slot2' = "port1"
             PROVE  /\ Age2' \in 0 .. 7 =>
                         /\ state' = "WAITFILL"
                         /\ Where(slot2_bank, Age2)' = [line |-> cpu'.line, col |-> cpu'.word]
                    /\ Age2' \in 8 .. 14 =>
                         /\ state' \in Fills /\ FillAge[state'] = Age2'
                         /\ readword' = Beat(bank'[slot2_bank'], Age2' - 1)
                         /\ IndexOf[bank'[slot2_bank'].line] = latched_cpuaddr'
                         /\ TagOf[bank'[slot2_bank'].line] = tagram'[FillWay'][latched_cpuaddr']
                    /\ Age2' \in 0 .. 14 => ~(wc_dirty' /\ wc_addr'.line = Where(slot2_bank, Age2)'.line)
  BY DEF ReadInStep, Beat, Fills, FillAge
<1>0. /\ SdramTypeOK /\ Phases(refresh) /\ Slots(Port1, cache_req, vga, reserve, refresh)
      /\ vga \in Line \union {NoLine}
  BY SteppingFacts
<1>1. CASE sdram_state = 10
  <2>1. Age2' = 0
    BY <1>0, <1>1, AgeStep
  <2> QED
    BY <1>1, <2>1, Grant2Clean DEF Where
<1>2. CASE sdram_state # 10
  <2>1. slot2 = "port1" /\ slot2_bank' = slot2_bank /\ (sdram_state # 2 => casaddr' = casaddr)
    BY <1>0, <1>2, GrantStep
  <2>2. Age2 \in 0 .. 14 /\ Age2' = Age2 + 1 /\ (sdram_state = 2 => Age2 = 7)
    BY <1>0, <1>2, AgeStep
  <2>3. CASE Age2 \in 0 .. 6
    BY <2>1, <2>2, <2>3, FetchKept DEF IsSlot, Where
  <2>4. CASE Age2 \in 7 .. 13
    <3>1. Age2' \in 8 .. 14 /\ Age2' - 1 = Age2
      BY <2>2, <2>4
    <3>2. Where(slot2_bank, Age2)'.line = bank'[slot2_bank].line
      BY <2>1, <3>1 DEF Where
    <3> QED
      BY <2>1, <2>2, <2>4, <3>1, <3>2, FetchKept DEF IsSlot
  <2> QED
    BY <2>2, <2>3, <2>4
<1> QED
  BY <1>1, <1>2

\* The states of a fill keep step with the slot the read is in.
LEMMA FillInSlot ==
    ASSUME NEW vga, NEW reserve, NEW refresh, Stepping(vga, reserve, refresh),
           state' \in Fills, FillAge[state'] <= 14
    PROVE  \/ slot1' = "port1" /\ Age1' = FillAge[state']
           \/ slot2' = "port1" /\ Age2' = FillAge[state']
<1>0. /\ MemoryInv /\ SdramTypeOK /\ Timeline /\ SlotInv /\ Phases(refresh)
      /\ Slots(Port1, cache_req, vga, reserve, refresh) /\ vga \in Line \union {NoLine}
  BY SteppingFacts DEF Stepping
<1>1. PICK a \in 7 .. 13 : /\ FillAge[state'] = a + 1
                           /\ \/ slot1 = "port1" /\ Age1 = a
                              \/ slot2 = "port1" /\ Age2 = a
  <2>1. CASE state = "WAITFILL"
    <3>1. readcache_fill /\ FillAge[state'] = 8
      BY <2>1, FillStep, Ages
    <3>2. PICK b : IsSlot("port1", b, 7)
      BY <1>0, <2>1, <3>1, FirstWord
    <3> QED
      BY <3>1, <3>2 DEF IsSlot
  <2>2. CASE state # "WAITFILL"
    <3>1. state \in Fills /\ FillAge[state] \in 8 .. 13 /\ FillAge[state'] = FillAge[state] + 1
      BY <2>2, FillStep
    <3> QED
      BY <1>0, <3>1 DEF SlotInv
  <2> QED
    BY <2>1, <2>2
<1>2. init_done
  <2>1. ~init_done => slot1 = "refresh" /\ slot2 = "idle"
    BY <1>0 DEF Timeline, Schedule, StartUp
  <2> QED
    BY <1>1, <2>1
<1>3. CASE slot1 = "port1" /\ Age1 = a
  <2>1. sdram_state # 2 /\ Age1' = a + 1
    BY <1>0, <1>2, <1>3, AgeStep
  <2> QED
    BY <1>0, <1>1, <1>2, <1>3, <2>1, GrantStep
<1>4. CASE slot2 = "port1" /\ Age2 = a
  <2>1. sdram_state # 10 /\ Age2' = a + 1
    BY <1>0, <1>2, <1>4, AgeStep
  <2> QED
    BY <1>0, <1>1, <1>2, <1>4, <2>1, GrantStep
<1> QED
  BY <1>1, <1>3, <1>4

LEMMA SlotInvStep ==
    ASSUME NEW vga, NEW reserve, NEW refresh, Stepping(vga, reserve, refresh)
    PROVE  SlotInv'
<1>1. ReadInStep(slot1, slot1_bank, Age1)' /\ ReadInStep(slot2, slot2_bank, Age2)'
  <2>1. CASE init_done
    BY <2>1, Read1InStep, Read2InStep
  <2>2. CASE ~init_done
    <3>1. slot1 = "refresh" /\ slot2 = "idle"
      BY <2>2, SteppingFacts DEF Timeline, Schedule, StartUp
    <3>2. slot1' = slot1 /\ slot2' = slot2
      BY <2>2, SteppingFacts DEF Slots
    <3> QED
      BY <3>1, <3>2 DEF ReadInStep
  <2> QED
    BY <2>1, <2>2
<1>2. cache_req' <=> state' = "WAITFILL"
  <2>1. cache_req <=> state = "WAITFILL"
    BY SteppingFacts DEF SlotInv
  <2>2. state \in C!CacheState
    BY CacheRegisters
  <2>3. C!CacheState = {"INIT1", "INIT2", "WAITING", "WAITRD", "PAUSE1", "WRITE1", "WRITE2", "WAITFILL"}
                         \union C!Filling \union {"FILL9"}
    BY DEF C!CacheState, C!Filling, C!NextFill
  <2>4. CASE state \in C!Filling
    <3>1. state # "WAITFILL" /\ C!NextFill[state] # "WAITFILL"
      BY <2>4, Ages
    <3>2. state' = C!NextFill[state]
      BY <2>4, SteppingFacts, CacheMoves
    <3>3. cache_req' = cache_req
      BY <2>4, CacheRegisters
    <3> QED
      BY <2>1, <3>1, <3>2, <3>3
  <2>5. CASE state = "WAITFILL"
    BY <2>1, <2>5, SteppingFacts, CacheMoves, CacheRegisters
  <2>6. CASE state = "WAITRD"
    <3>1. state' \in {"PAUSE1", "WAITFILL"}
      BY <2>6, SteppingFacts, CacheMoves
    <3> QED
      BY <2>1, <2>6, <3>1, CacheRegisters
  <2>7. CASE state \in {"INIT1", "INIT2", "WAITING", "PAUSE1", "WRITE1", "WRITE2", "FILL9"}
    <3>1. state' # "WAITFILL"
      BY <2>7, SteppingFacts, CacheMoves
    <3> QED
      BY <2>1, <2>7, <3>1, CacheRegisters
  <2> QED
    BY <2>2, <2>3, <2>4, <2>5, <2>6, <2>7
<1> QED
  BY <1>1, <1>2, FillInSlot DEF SlotInv, Fills, FillAge

-----------------------------------------------------------------------------
(* The block RAM.                                                          *)

\* The tag RAM and its output register, entry by entry.
LEMMA TagStep ==
    ASSUME NEW vga, NEW reserve, NEW refresh, Stepping(vga, reserve, refresh), NEW y \in C!Way
    PROVE  /\ \A i \in Index :
                tagram'[y][i] = IF y \in tag_wren /\ i = IndexOf[cpu_r.line]
                                THEN IF tag_mru1 = (y = 1) THEN TagOf[cpu_r.line] ELSE tag_q[y]
                                ELSE tagram[y][i]
           /\ tag_wren = {} => tag_q'[y] = tagram[y][IndexOf[cpu_r.line]]
<1>1. tagram \in [C!Way -> [Index -> Tag]] /\ Port1.line = cpu_r.line
  BY SteppingFacts, PortType DEF TypeOK, C!CacheTypeOK
<1>2. PICK s : s = IndexOf[cpu_r.line]
  OBVIOUS
<1>3. PICK t : t = IF tag_mru1 = (y = 1) THEN TagOf[cpu_r.line] ELSE tag_q[y]
  OBVIOUS
<1>4. C!TagWritten(y, Port1) = t
  BY <1>1, <1>3 DEF C!TagWritten
<1>5. /\ tagram'[y] = IF y \in tag_wren THEN [tagram[y] EXCEPT ![s] = t] ELSE tagram[y]
      /\ tag_q'[y] = IF y \in tag_wren THEN t ELSE tagram[y][s]
  BY <1>1, <1>2, <1>4, SteppingFacts DEF C!CacheTick, C!TagRam
<1> QED
  BY <1>1, <1>2, <1>3, <1>5

\* The data RAM, entry by entry.
LEMMA EntryStep ==
    ASSUME NEW vga, NEW reserve, NEW refresh, Stepping(vga, reserve, refresh),
           NEW y \in C!Way, NEW i \in Index, NEW w \in Word
    PROVE  dataram'[y][i][w] = IF state = "INIT2" THEN C!Invalid
                               ELSE IF Arrives(y, i, w) THEN data_w ELSE dataram[y][i][w]
<1>1. dataram \in [C!Way -> [Index -> [Word -> C!CacheEntry]]]
  BY SteppingFacts DEF TypeOK, C!CacheTypeOK
<1>2. PICK s, v : s = C!DataSet(Port1) /\ v = C!DataWord(Port1)
  OBVIOUS
<1>3. dataram' = IF state = "INIT2" THEN [u \in C!Way |-> [j \in Index |-> [x \in Word |-> C!Invalid]]]
                 ELSE [u \in C!Way |-> IF u \in data_wren /\ C!Tracked(Port1)
                                       THEN [dataram[u] EXCEPT ![s][v] = data_w]
                                       ELSE dataram[u]]
  BY <1>2, SteppingFacts DEF C!CacheTick, C!DataRam
<1>4. C!Tracked(Port1) <=> v \in Word
  BY <1>2 DEF C!Tracked
<1>5. Arrives(y, i, w) <=> y \in data_wren /\ i = s /\ w = v
  BY <1>2 DEF Arrives
<1>6. CASE state = "INIT2"
  BY <1>3, <1>6
<1>7. CASE state # "INIT2" /\ y \in data_wren /\ v \in Word
  <2>1. dataram'[y] = [dataram[y] EXCEPT ![s][v] = data_w]
    BY <1>3, <1>4, <1>7
  <2>2. dataram[y] \in [Index -> [Word -> C!CacheEntry]]
    BY <1>1
  <2>3. dataram'[y][i][w] = IF i = s /\ w = v THEN data_w ELSE dataram[y][i][w]
    BY <1>7, <2>1, <2>2
  <2> QED
    BY <1>5, <1>7, <2>3
<1>8. CASE state # "INIT2" /\ ~(y \in data_wren /\ v \in Word)
  BY <1>3, <1>4, <1>5, <1>8
<1> QED
  BY <1>6, <1>7, <1>8

\* A cycle that the cache looks at was addressed on the edge before.
LEMMA LookedUp ==
    ASSUME NEW vga, NEW reserve, NEW refresh, Stepping(vga, reserve, refresh), state = "WAITING",
           Port1.op # "idle", NEW y \in C!Way
    PROVE  /\ tag_q'[y] = tagram'[y][IndexOf[cpu_r'.line]]
           /\ data_q'[y] = dataram'[y][IndexOf[cpu'.line]][cpu'.word]
<1>1. data_wren = {} /\ tag_wren = {} /\ ~readword_burst
  BY SteppingFacts, Ages DEF RegistersInv
<1>2. cpu' = cpu /\ cpu_r' = cpu /\ cpu_r = cpu /\ cpu.line \in Line /\ cpu.word \in Word
  BY RaisedKept
<1>3. /\ tagram \in [C!Way -> [Index -> Tag]] /\ dataram \in [C!Way -> [Index -> [Word -> C!CacheEntry]]]
      /\ Port1.line = cpu.line /\ Port1.word = cpu.word /\ IndexOf[cpu.line] \in Index
  BY <1>2, SteppingFacts, PortBusy DEF TypeOK, C!CacheTypeOK
<1>4. tag_q'[y] = tagram'[y][IndexOf[cpu_r'.line]]
  BY <1>1, <1>2, <1>3, TagStep
<1>5. dataram' = dataram
  BY <1>1, <1>3, SteppingFacts DEF C!CacheTick, C!DataRam
<1>6. C!DataSet(Port1) = IndexOf[cpu.line] /\ C!DataWord(Port1) = cpu.word /\ C!Tracked(Port1)
  BY <1>1, <1>2, <1>3 DEF C!DataSet, C!DataWord, C!Tracked
<1>7. data_q'[y] = dataram[y][IndexOf[cpu.line]][cpu.word]
  BY <1>1, <1>6, SteppingFacts DEF C!CacheTick, C!DataRam
<1> QED
  BY <1>2, <1>4, <1>5, <1>7

\* A read that has just missed has no word on its way.
LEMMA MissWaits ==
    ASSUME NEW vga, NEW reserve, NEW refresh, Stepping(vga, reserve, refresh), state = "WAITRD"
    PROVE  ~readcache_fill'
<1> SUFFICES ASSUME readcache_fill' PROVE FALSE
  OBVIOUS
<1>0. /\ SdramTypeOK /\ Timeline /\ SlotInv /\ Phases(refresh)
      /\ Slots(Port1, cache_req, vga, reserve, refresh) /\ vga \in Line \union {NoLine}
  BY SteppingFacts
<1>1. init_done
  <2>1. Port1.op = "read"
    BY SteppingFacts DEF PaceInv
  <2>2. cpu.op = "read"
    BY <2>1, RaisedKept
  <2> QED
    BY <2>2, SteppingFacts DEF BusInv
<1>2. \/ slot1' = "port1" /\ slot1_fill'
      \/ slot2' = "port1" /\ slot2_fill'
  BY DEF readcache_fill, FillFor
<1>3. /\ slot1_fill' <=> Age1' \in 7 .. 14
      /\ slot2_fill' <=> Age2' \in 7 .. 14
  <2>1. Strobes' /\ init_done' /\ SdramTypeOK'
    BY <1>0, <1>1, StrobesStep, MemoryStepType DEF Timeline, DataOnTime, Phases, TypeOK
  <2> QED
    BY <2>1, StrobesPrimed
<1>4. CASE slot1' = "port1" /\ Age1' \in 7 .. 14
  <2>1. Age1 \in 6 .. 13 /\ sdram_state # 2
    BY <1>0, <1>1, <1>4, AgeStep
  <2>2. slot1 = "port1"
    BY <1>0, <1>1, <1>4, <2>1, GrantStep
  <2> QED
    BY <1>0, <2>1, <2>2, Ages DEF SlotInv, ReadInStep
<1>5. CASE slot2' = "port1" /\ Age2' \in 7 .. 14
  <2>1. Age2 \in 6 .. 13 /\ sdram_state # 10
    BY <1>0, <1>1, <1>5, AgeStep
  <2>2. slot2 = "port1"
    BY <1>0, <1>1, <1>5, <2>1, GrantStep
  <2> QED
    BY <1>0, <2>1, <2>2, Ages DEF SlotInv, ReadInStep
<1> QED
  BY <1>2, <1>3, <1>4, <1>5

LEMMA RegistersInvStep ==
    ASSUME NEW vga, NEW reserve, NEW refresh, Stepping(vga, reserve, refresh)
    PROVE  RegistersInv'
<1>0. RegistersInv /\ PaceInv /\ TypeOK
  BY SteppingFacts
<1>1. state \in C!CacheState
  BY CacheRegisters
<1>2. C!CacheState = {"INIT1", "INIT2", "WAITING", "WAITRD", "PAUSE1", "WRITE1", "WRITE2", "WAITFILL"}
                       \union C!Filling \union {"FILL9"}
  BY DEF C!CacheState, C!Filling, C!NextFill
<1>3. CASE state \in {"INIT1", "INIT2", "WRITE2", "PAUSE1", "FILL9"}
  <2>1. state' \in {"INIT2", "WAITING", "WRITE2", "PAUSE1"}
    BY <1>3, SteppingFacts, CacheMoves
  <2>2. data_wren' = {} /\ tag_wren' = {} /\ readword_burst' = FALSE
    BY <1>3, CacheRegisters
  <2> QED
    BY <2>1, <2>2, Ages DEF RegistersInv
<1>4. CASE state = "WAITING"
  <2>1. /\ state' \in {"WAITING", "WAITRD", "WRITE1"}
        /\ state' # "WAITING" => Port1.op # "idle"
    BY <1>4, SteppingFacts, CacheMoves
  <2>2. data_wren' = {} /\ tag_wren' = {} /\ readword_burst' = FALSE
    BY <1>4, CacheRegisters
  <2>3. state' # "WAITING" =>
          \A y \in C!Way : /\ tag_q'[y] = tagram'[y][IndexOf[cpu_r'.line]]
                           /\ data_q'[y] = dataram'[y][IndexOf[cpu'.line]][cpu'.word]
    BY <1>4, <2>1, LookedUp
  <2> QED
    BY <2>1, <2>2, <2>3, Ages DEF RegistersInv
<1>5. CASE state \in {"WRITE1", "WAITRD"}
  <2>1. Port1.op # "idle"
    BY <1>0, <1>5 DEF PaceInv
  <2>2. /\ cpu' = cpu /\ cpu_r' = cpu /\ cpu_r = cpu /\ cpu.line \in Line
        /\ Port1.line = cpu.line /\ IndexOf[cpu.line] \in Index
    BY <2>1, RaisedKept, SteppingFacts, PortBusy
  <2>3. tag_wren = {}
    BY <1>0, <1>5, Ages DEF RegistersInv
  <2>4. \A y \in C!Way : /\ tag_q'[y] = tagram'[y][IndexOf[cpu_r'.line]]
                         /\ tag_q'[y] = tag_q[y]
    <3>1. \A y \in C!Way : tag_q[y] = tagram[y][IndexOf[cpu_r.line]]
      BY <1>0, <1>5 DEF RegistersInv
    <3> QED
      BY <2>2, <2>3, <3>1, TagStep
  <2>5. C!TagHit(1, Port1) => tag_q'[1] = TagOf[cpu_r'.line]
    BY <2>2, <2>4 DEF C!TagHit, C!Way
  <2>6. CASE state = "WRITE1"
    <3>1. state' = "WRITE2" /\ readword_burst' = FALSE
          /\ tag_wren' = (IF C!HitWays(Port1) # {} THEN {1} ELSE {})
          /\ (tag_mru1' /\ C!HitWays(Port1) # {} => C!TagHit(1, Port1))
      BY <2>6, SteppingFacts, CacheMoves, CacheRegisters
    <3> QED
      BY <2>4, <2>5, <3>1, Ages DEF RegistersInv
  <2>7. CASE state = "WAITRD" /\ state' = "PAUSE1"
    <3>1. data_wren' = {} /\ readword_burst' = FALSE
          /\ tag_wren' = {1} /\ (tag_mru1' => C!TagHit(1, Port1))
      BY <2>7, CacheRegisters
    <3> QED
      BY <2>4, <2>5, <2>7, <3>1, Ages DEF RegistersInv
  <2>8. CASE state = "WAITRD" /\ state' = "WAITFILL"
    <3>1. data_wren' = {} /\ readword_burst' = FALSE
          /\ tag_wren' = {1, 2} /\ latched_cpuaddr' = IndexOf[Port1.line]
      BY <2>8, CacheRegisters
    <3>2. ~readcache_fill'
      BY <2>8, MissWaits
    <3> QED
      BY <2>2, <2>4, <2>8, <3>1, <3>2, Ages DEF RegistersInv
  <2> QED
    BY <1>5, <2>6, <2>7, <2>8, SteppingFacts, CacheMoves
<1>6. CASE state = "WAITFILL"
  <2>1. Port1.op # "idle"
    BY <1>0, <1>6 DEF PaceInv
  <2>2. /\ cpu' = cpu /\ cpu_r = cpu /\ cpu.line \in Line /\ IndexOf[cpu.line] \in Index
        /\ latched_cpuaddr = IndexOf[cpu.line]
    BY <1>0, <1>6, <2>1, RaisedKept DEF RegistersInv
  <2>3. /\ tag_wren' = {} /\ readword_burst' = TRUE
        /\ UNCHANGED <<tag_mru1, latched_cpuaddr>>
        /\ IF readcache_fill THEN state' = "FILL2" /\ data_wren' = {FillWay}
           ELSE state' = "WAITFILL" /\ data_wren' = {}
    BY <1>6, SteppingFacts, CacheMoves, CacheRegisters
  <2>4. FillWay' = FillWay /\ FillWay \in C!Way
    BY <2>3 DEF FillWay, C!Way
  <2>5. tagram'[FillWay][latched_cpuaddr] = TagOf[cpu.line]
    <3>1. tag_wren = {} \/ tag_wren = {1, 2}
      BY <1>0, <1>6 DEF RegistersInv
    <3>2. CASE tag_wren = {}
      <4>1. tagram[FillWay][latched_cpuaddr] = TagOf[cpu.line]
        BY <1>0, <1>6, <3>2 DEF RegistersInv
      <4> QED
        BY <2>2, <2>4, <3>2, <4>1, TagStep
    <3>3. CASE tag_wren = {1, 2}
      <4>1. tag_mru1 = (FillWay = 1) /\ FillWay \in {1, 2}
        BY <1>0 DEF FillWay, TypeOK, C!CacheTypeOK
      <4> QED
        BY <2>2, <2>4, <3>3, <4>1, TagStep
    <3> QED
      BY <3>1, <3>2, <3>3
  <2>6. tagram'[FillWay'][latched_cpuaddr'] = TagOf[cpu'.line]
    BY <2>2, <2>3, <2>4, <2>5
  <2>7. latched_cpuaddr' = IndexOf[cpu'.line]
    BY <2>2, <2>3
  <2> QED
    BY <2>3, <2>4, <2>6, <2>7, Ages DEF RegistersInv
<1>7. CASE state \in C!Filling
  <2>1. state' \in Fills /\ data_wren' = {FillWay} /\ tag_wren' = {} /\ readword_burst' = TRUE
        /\ UNCHANGED tag_mru1
    BY <1>7, Ages, SteppingFacts, CacheMoves, CacheRegisters
  <2>2. FillWay' = FillWay
    BY <2>1 DEF FillWay
  <2> QED
    BY <2>1, <2>2, Ages DEF RegistersInv
<1> QED
  BY <1>1, <1>2, <1>3, <1>4, <1>5, <1>6, <1>7

-----------------------------------------------------------------------------
(* Coherence.                                                              *)

\* The word of a raised write is in memory, laid over what was there, once the
\* request drops.
LEMMA FinalStep ==
    ASSUME NEW vga, NEW reserve, NEW refresh, Stepping(vga, reserve, refresh),
           NEW l \in Line, NEW w \in Word, Raised(l, w) \/ ~Raised(l, w)'
    PROVE  Final(l, w)' = Final(l, w)
<1>1. PICK e : e = Effective(l, w)
  OBVIOUS
<1>2. PICK f : f = Effective(l, w)'
  OBVIOUS
<1>3. f = IF wc_dtack' /\ l = cpu.line /\ w = cpu.word THEN Written(cpu, e) ELSE e
  BY <1>1, <1>2, MemoryStep
<1>4. wc_dtack' => req_pending /\ cpu.op = "write"
  BY MemoryStep, SteppingFacts, PortBusy
<1>5. Final(l, w) = IF Raised(l, w) THEN Written(cpu, e) ELSE e
  BY <1>1 DEF Final
<1>6. Final(l, w)' = IF Raised(l, w)' THEN Written(cpu', f) ELSE f
  BY <1>2 DEF Final, Written
<1>7. CASE ~Raised(l, w)
  <2>1. ~Raised(l, w)'
    BY <1>7
  <2>2. f = e
    BY <1>3, <1>4, <1>7 DEF Raised
  <2> QED
    BY <1>5, <1>6, <1>7, <2>1, <2>2
<1>8. CASE Raised(l, w)
  <2>1. Port1.op # "idle" /\ cpu.op = "write" /\ l = cpu.line /\ w = cpu.word
    BY <1>8, SteppingFacts, PortType DEF Raised
  <2>2. cpu' = cpu /\ (req_pending' <=> ~cpu_clkena)
    BY <2>1, RaisedKept
  <2>3. Written(cpu, f) = Written(cpu, e)
    BY <1>3, WrittenTwice
  <2>4. CASE Raised(l, w)'
    BY <1>5, <1>6, <1>8, <2>2, <2>3, <2>4
  <2>5. CASE ~Raised(l, w)'
    <3>1. cpu_clkena
      BY <2>1, <2>2, <2>5 DEF Raised
    <3>2. Taken
      BY <2>1, <3>1, SteppingFacts DEF AnswerInv
    <3>3. e = Written(cpu, e)
      BY <1>1, <2>1, <3>2 DEF Taken
    <3>4. f = e
      BY <1>3, <3>3
    <3> QED
      BY <1>5, <1>6, <1>8, <2>5, <3>3, <3>4
  <2> QED
    BY <2>4, <2>5
<1> QED
  BY <1>7, <1>8

\* A word is owed from the edge that raises its write.
LEMMA OwesBegins ==
    ASSUME NEW vga, NEW reserve, NEW refresh, Stepping(vga, reserve, refresh),
           NEW l, NEW w, ~Raised(l, w), Raised(l, w)'
    PROVE  Owes(l, w)'
<1>1. Advance \/ Answer \/ EndIo \/ Still
  BY SteppingFacts, BusStep
<1>2. req_pending' => ~cpu_run
  BY SteppingFacts, BusStep
<1>3. req_pending' /\ ~cpu_run /\ cpu'.op = "write"
  BY <1>2 DEF Raised
<1>4. ~Advance /\ ~EndIo
  BY <1>3 DEF Advance, EndIo
<1>5. cpu' = cpu
  BY <1>1, <1>4 DEF Answer, Still
<1>6. ~req_pending
  BY <1>3, <1>5 DEF Raised
<1>7. ~cpu_clkena'
  BY <1>1, <1>3, <1>4, <1>6 DEF Answer, Still, cpu_run
<1>8. Port1.op = "idle"
  BY <1>6, SteppingFacts, PortType
<1>9. state' # "WRITE2"
  <2>1. state # "WRITE1"
    BY <1>8, SteppingFacts DEF PaceInv
  <2>2. state \in C!CacheState
    BY CacheRegisters
  <2>3. C!CacheState = {"INIT1", "INIT2", "WAITING", "WAITRD", "PAUSE1", "WRITE1", "WRITE2", "WAITFILL"}
                         \union C!Filling \union {"FILL9"}
    BY DEF C!CacheState, C!Filling, C!NextFill
  <2> QED
    BY <1>8, <2>1, <2>2, <2>3, Ages, SteppingFacts, CacheMoves
<1> QED
  BY <1>7, <1>9 DEF Owes

\* A word that is owed stays so until the cache looks at the cycle.
LEMMA OwesStep ==
    ASSUME NEW vga, NEW reserve, NEW refresh, Stepping(vga, reserve, refresh),
           NEW l, NEW w, Owes(l, w), state # "WRITE1"
    PROVE  Owes(l, w)'
<1>0. PaceInv /\ BusInv /\ AnswerInv
  BY SteppingFacts
<1>1. req_pending /\ cpu.op = "write" /\ l = cpu.line /\ w = cpu.word /\ ~cpu_clkena /\ state # "WRITE2"
  BY DEF Owes, Raised
<1>2. Port1.op = "write"
  BY <1>1, SteppingFacts, PortType
<1>3. cpu' = cpu /\ req_pending' /\ (cpu_clkena' => divider = 0)
  BY <1>1, <1>2, RaisedKept
<1>4. state \in C!CacheState
  BY CacheRegisters
<1>5. C!CacheState = {"INIT1", "INIT2", "WAITING", "WAITRD", "PAUSE1", "WRITE1", "WRITE2", "WAITFILL"}
                       \union C!Filling \union {"FILL9"}
  BY DEF C!CacheState, C!Filling, C!NextFill
<1>6. state = "WAITING" \/ state \in Fills
  BY <1>0, <1>1, <1>2, <1>4, <1>5, Ages DEF PaceInv, BusInv
<1>7. CASE state = "WAITING"
  <2>1. state' = "WRITE1"
    BY <1>2, <1>7, SteppingFacts, CacheMoves
  <2> QED
    BY <1>1, <1>3, <2>1 DEF Owes, Raised
<1>8. CASE state \in Fills
  <2>1. FillAge[state] >= 13
    BY <1>0, <1>1, <1>8, Ages DEF PaceInv
  <2>2. ~cpu_clkena'
    BY <1>0, <1>1, <1>3, <1>8, <2>1 DEF PaceInv
  <2>3. state' # "WRITE2"
    BY <1>8, Ages, SteppingFacts, CacheMoves
  <2> QED
    BY <1>1, <1>3, <2>2, <2>3 DEF Owes, Raised
<1> QED
  BY <1>6, <1>7, <1>8

\* An entry that is right stays so, unless the cache is looking at a write to it.
LEMMA RightStep ==
    ASSUME NEW vga, NEW reserve, NEW refresh, Stepping(vga, reserve, refresh),
           NEW l \in Line, NEW w \in Word, NEW e, Right(e, l, w),
           ~(state = "WRITE1" /\ Raised(l, w))
    PROVE  Right(e, l, w)'
<1> SUFFICES ASSUME e.valid = C!CacheLane
             PROVE  Owes(l, w)' \/ e.data = Final(l, w)'
  BY DEF Right, C!CacheLane
<1>1. CASE Owes(l, w)
  <2>1. state # "WRITE1"
    BY <1>1 DEF Owes
  <2> QED
    BY <1>1, <2>1, OwesStep
<1>2. CASE ~Owes(l, w)
  <2>1. e.data = Final(l, w)
    BY <1>2 DEF Right
  <2>2. CASE ~Raised(l, w) /\ Raised(l, w)'
    BY <2>2, OwesBegins
  <2>3. CASE Raised(l, w) \/ ~Raised(l, w)'
    BY <2>1, <2>3, FinalStep
  <2> QED
    BY <2>2, <2>3
<1> QED
  BY <1>1, <1>2

\* Only the way that is filled gets a new tag.
LEMMA TagKept ==
    ASSUME NEW vga, NEW reserve, NEW refresh, Stepping(vga, reserve, refresh),
           NEW y \in C!Way, NEW i \in Index
    PROVE  \/ tagram'[y][i] = tagram[y][i]
           \/ state = "WAITFILL" /\ y = FillWay /\ i = latched_cpuaddr
<1>0. RegistersInv /\ PaceInv /\ tag_mru1 \in BOOLEAN
  BY SteppingFacts DEF TypeOK, C!CacheTypeOK
<1> SUFFICES ASSUME y \in tag_wren, i = IndexOf[cpu_r.line]
             PROVE  \/ tagram'[y][i] = tagram[y][i]
                    \/ state = "WAITFILL" /\ y = FillWay /\ i = latched_cpuaddr
  BY TagStep
<1>1. tagram'[y][i] = IF tag_mru1 = (y = 1) THEN TagOf[cpu_r.line] ELSE tag_q[y]
  BY TagStep
<1>2. tag_q[y] = tagram[y][i]
  BY <1>0 DEF RegistersInv
<1>3. CASE state = "WAITFILL"
  <2>1. cpu_r = cpu /\ latched_cpuaddr = IndexOf[cpu.line]
    BY <1>0, <1>3, RaisedKept DEF PaceInv, RegistersInv
  <2>2. tag_mru1 = (y = 1) => y = FillWay
    BY <1>0 DEF FillWay, C!Way
  <2> QED
    BY <1>1, <1>2, <1>3, <2>1, <2>2
<1>4. CASE state # "WAITFILL"
  <2>1. tag_wren = {1} /\ (tag_mru1 => tag_q[1] = TagOf[cpu_r.line])
    BY <1>0, <1>4 DEF RegistersInv
  <2>2. y = 1
    BY <2>1
  <2>3. CASE tag_mru1
    BY <1>1, <1>2, <2>1, <2>2, <2>3
  <2>4. CASE ~tag_mru1
    BY <1>0, <1>1, <1>2, <2>2, <2>4
  <2> QED
    BY <2>3, <2>4
<1> QED
  BY <1>3, <1>4

\* An entry after the edge is right by what is known before it, or missing.
LEMMA EntryKept ==
    ASSUME NEW vga, NEW reserve, NEW refresh, Stepping(vga, reserve, refresh),
           NEW l \in Line, NEW w \in Word, NEW y \in C!Way,
           tagram[y][IndexOf[l]] = TagOf[l], ~(state = "WRITE1" /\ Raised(l, w))
    PROVE  \/ Right(dataram[y][IndexOf[l]][w], l, w)'
           \/ Missing(y, IndexOf[l], w) /\ ~Arrives(y, IndexOf[l], w)
<1>1. PICK i \in Index : i = IndexOf[l]
  OBVIOUS
<1>2. PICK e : e = dataram'[y][i][w]
  OBVIOUS
<1>3. CASE state = "INIT2"
  <2>1. e = C!Invalid
    BY <1>2, <1>3, EntryStep
  <2>2. e.valid # C!CacheLane
    BY <2>1 DEF C!Invalid, C!CacheLane
  <2> QED
    BY <1>1, <1>2, <2>2 DEF Right, C!CacheLane
<1>4. CASE state # "INIT2"
  <2>1. e = IF Arrives(y, i, w) THEN data_w ELSE dataram[y][i][w]
    BY <1>2, <1>4, EntryStep
  <2>2. IF Arrives(y, i, w) THEN Right(data_w, l, w)
        ELSE Missing(y, i, w) \/ Right(dataram[y][i][w], l, w)
    BY <1>1, SteppingFacts DEF Coherent
  <2>3. CASE Right(e, l, w)
    <3>1. Right(e, l, w)'
      BY <2>3, RightStep
    <3> QED
      BY <1>1, <1>2, <3>1 DEF Right, C!CacheLane
  <2>4. CASE ~Right(e, l, w)
    BY <1>1, <2>1, <2>2, <2>4
  <2> QED
    BY <2>3, <2>4
<1> QED
  BY <1>3, <1>4

\* The entry that will be replaced at the edge after this one.
LEMMA ArrivesNext ==
    ASSUME NEW vga, NEW reserve, NEW refresh, Stepping(vga, reserve, refresh), NEW y, NEW i, NEW w
    PROVE  Arrives(y, i, w)' <=>
             /\ y \in data_wren'
             /\ IF readword_burst' THEN i = latched_cpuaddr' /\ w = readword'
                ELSE i = IndexOf[cpu_r'.line] /\ w = cpu_r'.word
<1>1. TypeOK' /\ BusInv'
  BY MemoryStepType, BusInvStep
<1>2. Port1'.line = cpu_r'.line /\ Port1'.word = cpu_r'.word
  BY <1>1, PortOpNext
<1>3. C!DataSet(Port1)' = IF readword_burst' THEN latched_cpuaddr' ELSE IndexOf[cpu_r'.line]
  BY <1>2 DEF C!DataSet
<1>4. C!DataWord(Port1)' = IF readword_burst' THEN readword' ELSE cpu_r'.word
  BY <1>2 DEF C!DataWord
<1> QED
  BY <1>3, <1>4 DEF Arrives

\* What the cache writes into the ways that hold the line of a write.
LEMMA WriteArrives ==
    ASSUME NEW vga, NEW reserve, NEW refresh, Stepping(vga, reserve, refresh), state = "WRITE1",
           NEW l \in Line, NEW w \in Word, Raised(l, w)
    PROVE  Right(data_w, l, w)'
<1>1. data_w' = C!Entry(cpu.lanes, cpu.data)
  BY CacheRegisters
<1>2. Final(l, w)' = Written(cpu, Effective(l, w))
  <2>1. Final(l, w)' = Final(l, w)
    BY FinalStep
  <2> QED
    BY <2>1 DEF Final
<1>3. cpu.lanes = C!CacheLane => Written(cpu, Effective(l, w)) = cpu.data
  <2>1. cpu.data \in WordValue
    BY SteppingFacts, CycleType DEF TypeOK
  <2> QED
    BY <2>1 DEF Written, WordValue, Lane, C!CacheLane
<1> QED
  BY <1>1, <1>2, <1>3 DEF Right, C!Entry, C!CacheLane

\* What the cache takes from the bus for the line it fills.
LEMMA FillArrives ==
    ASSUME NEW vga, NEW reserve, NEW refresh, Stepping(vga, reserve, refresh),
           NEW l \in Line, NEW w \in Word, data_w' = C!Entry(C!CacheLane, sdata_reg.data),
           sdata_reg.data = Effective(l, w),
           \/ state = "WAITFILL"
           \/ state \in Fills
    PROVE  Right(data_w, l, w)'
<1>1. PICK e : e = data_w'
  OBVIOUS
<1>2. e.data = Effective(l, w)
  BY <1>1 DEF C!Entry
<1>3. Raised(l, w) => Owes(l, w)
  <2> SUFFICES ASSUME Raised(l, w) PROVE Owes(l, w)
    OBVIOUS
  <2>1. Port1.op = "write" /\ cpu.op = "write"
    BY SteppingFacts, PortType DEF Raised
  <2>2. state \in Fills
    BY <2>1, SteppingFacts DEF PaceInv
  <2>3. FillAge[state] >= 13
    BY <2>1, <2>2, SteppingFacts, Ages DEF PaceInv
  <2> QED
    BY <2>1, <2>2, <2>3, SteppingFacts, Ages DEF PaceInv, Owes
<1>4. Right(e, l, w)
  BY <1>2, <1>3 DEF Right, Final
<1>5. ~(state = "WRITE1")
  BY Ages
<1>6. Right(e, l, w)'
  BY <1>4, <1>5, RightStep
<1> QED
  BY <1>1, <1>6 DEF Right, C!CacheLane

LEMMA NextDistance ==
    \A w, r \in 0 .. 7 : \A n \in 0 .. 7 :
        /\ (w - r) % 8 \in 0 .. 7
        /\ (w - r) % 8 <= 0 => w = r
        /\ w # r /\ (w - r) % 8 <= n => (w - ((r + 1) % 8)) % 8 <= n - 1
  OBVIOUS

\* The word a fill takes from the bus is the one that follows.
LEMMA NextWordArrives ==
    ASSUME NEW vga, NEW reserve, NEW refresh, Stepping(vga, reserve, refresh),
           NEW l \in Line, NEW w \in Word, state \in Fills, FillAge[state] \in 8 .. 14,
           tagram[FillWay][IndexOf[l]] = TagOf[l], IndexOf[l] = latched_cpuaddr,
           w = readword'
    PROVE  Right(data_w, l, w)'
<1>0. SlotInv /\ SdramTypeOK /\ Timeline
  BY SteppingFacts
<1>1. PICK a \in 8 .. 14 : a = FillAge[state]
  OBVIOUS
<1>2. PICK b : IsSlot("port1", b, a)
  BY <1>0, <1>1 DEF SlotInv, IsSlot
<1>3. ReadInStep("port1", b, a)
  BY <1>0, <1>2 DEF IsSlot, SlotInv
<1>4. /\ readword = Beat(bank[b], a - 1)
      /\ IndexOf[bank[b].line] = latched_cpuaddr
      /\ TagOf[bank[b].line] = tagram[FillWay][latched_cpuaddr]
  BY <1>3 DEF ReadInStep
<1>5. /\ b \in Bank /\ bank[b] \in BankState /\ bank[b].line \in Line
      /\ Beat(bank[b], a) \in Word => sdata_reg.data = Effective(bank[b].line, Beat(bank[b], a))
  BY <1>0, <1>2, StrobedIsEffective
<1>6. l = bank[b].line
  BY <1>4, <1>5
<1>7. state \in C!Filling
  BY <1>1, Ages
<1>8. readword' = (readword + 1) % 8 /\ data_w' = C!Entry(C!CacheLane, sdata_reg.data)
  BY <1>7, CacheRegisters
<1>9. readword' = Beat(bank[b], a)
  <2>1. PICK c \in 0 .. 7 : c = bank[b].col
    BY <1>5 DEF BankState, Offset
  <2>2. \A i \in 0 .. 7, j \in 8 .. 14 : (((i + ((j - 1) - 7)) % 8) + 1) % 8 = (i + (j - 7)) % 8
    OBVIOUS
  <2> QED
    BY <1>4, <1>8, <2>1, <2>2 DEF Beat
<1>10. sdata_reg.data = Effective(l, w)
  BY <1>5, <1>6, <1>9
<1> QED
  BY <1>8, <1>10, FillArrives

\* One entry of the cache after the edge.
CoherentAt(l, w, y) ==
    tagram[y][IndexOf[l]] = TagOf[l] =>
        IF Arrives(y, IndexOf[l], w) THEN Right(data_w, l, w)
        ELSE Missing(y, IndexOf[l], w) \/ Right(dataram[y][IndexOf[l]][w], l, w)

\* At rest, at a lookup and at the end of a fill nothing is on its way.
LEMMA RestCoherent ==
    ASSUME NEW vga, NEW reserve, NEW refresh, Stepping(vga, reserve, refresh),
           NEW l \in Line, NEW w \in Word, NEW y \in C!Way,
           state \in {"INIT1", "INIT2", "WAITING", "WRITE2", "PAUSE1", "WAITRD", "FILL9"}
    PROVE  CoherentAt(l, w, y)'
<1> SUFFICES ASSUME tagram'[y][IndexOf[l]] = TagOf[l]
             PROVE  /\ ~Arrives(y, IndexOf[l], w)'
                    /\ Right(dataram[y][IndexOf[l]][w], l, w)'
  BY DEF CoherentAt
<1>1. PICK i \in Index : i = IndexOf[l]
  OBVIOUS
<1>2. tagram[y][i] = TagOf[l]
  BY <1>1, TagKept
<1>3. ~Arrives(y, i, w)'
  <2>1. data_wren' = {}
    BY CacheRegisters
  <2> QED
    BY <2>1, ArrivesNext
<1>4. Missing(y, i, w) => Arrives(y, i, w)
  <2> SUFFICES ASSUME Missing(y, i, w) PROVE Arrives(y, i, w)
    OBVIOUS
  <2>1. state = "FILL9" /\ y = FillWay /\ i = latched_cpuaddr /\ (w - readword) % 8 <= 15 - FillAge[state]
    BY Ages DEF Missing
  <2>2. FillAge[state] = 15 /\ state \in Fills
    BY <2>1, Ages
  <2>3. w \in 0 .. 7 /\ readword \in 0 .. 7
    BY ChipAssumption, SteppingFacts DEF TypeOK, C!CacheTypeOK, Offset
  <2>4. 15 - FillAge[state] = 0
    BY <2>2
  <2>5. w = readword
    BY <2>1, <2>3, <2>4, NextDistance
  <2>6. data_wren = {FillWay} /\ readword_burst
    BY <2>2, SteppingFacts DEF RegistersInv
  <2> QED
    BY <2>1, <2>5, <2>6 DEF Arrives, C!DataSet, C!DataWord
<1>5. Right(dataram[y][IndexOf[l]][w], l, w)'
  BY <1>1, <1>2, <1>4, EntryKept
<1>6. ~Arrives(y, IndexOf[l], w)'
  <2>1. Arrives(y, IndexOf[l], w)' <=> Arrives(y, i, w)'
    BY <1>1 DEF Arrives
  <2> QED
    BY <1>3, <2>1
<1> QED
  BY <1>5, <1>6

\* A write goes to every way that holds its line.
LEMMA WriteCoherent ==
    ASSUME NEW vga, NEW reserve, NEW refresh, Stepping(vga, reserve, refresh),
           NEW l \in Line, NEW w \in Word, NEW y \in C!Way, state = "WRITE1"
    PROVE  CoherentAt(l, w, y)'
<1> SUFFICES ASSUME tagram'[y][IndexOf[l]] = TagOf[l]
             PROVE  IF Arrives(y, IndexOf[l], w)' THEN Right(data_w, l, w)'
                    ELSE Right(dataram[y][IndexOf[l]][w], l, w)'
  BY DEF CoherentAt
<1>1. Port1.op = "write" /\ cpu.op = "write" /\ cpu_r' = cpu /\ cpu_r = cpu /\ req_pending
      /\ Port1.line = cpu.line /\ Port1.word = cpu.word
      /\ cpu.line \in Line /\ cpu.word \in Word
  BY RaisedKept, SteppingFacts, PortBusy DEF PaceInv
<1>2. tagram[y][IndexOf[l]] = TagOf[l]
  BY TagKept
<1>3. y \in C!HitWays(Port1) <=> tagram[y][IndexOf[cpu.line]] = TagOf[cpu.line]
  <2>1. tag_q[y] = tagram[y][IndexOf[cpu.line]]
    BY <1>1, SteppingFacts DEF RegistersInv
  <2> QED
    BY <1>1, <2>1 DEF C!HitWays, C!TagHit
<1>4. data_wren' = C!HitWays(Port1) /\ readword_burst' = FALSE
  BY CacheRegisters
<1>5. PICK i \in Index : i = IndexOf[l]
  OBVIOUS
<1>6. Arrives(y, i, w)' <=> y \in C!HitWays(Port1) /\ i = IndexOf[cpu.line] /\ w = cpu.word
  BY <1>1, <1>4, ArrivesNext
<1>7. Arrives(y, i, w)' <=> l = cpu.line /\ w = cpu.word
  BY <1>1, <1>2, <1>3, <1>5, <1>6
<1>8. Arrives(y, IndexOf[l], w)' <=> Arrives(y, i, w)'
  BY <1>5 DEF Arrives
<1>9. CASE l = cpu.line /\ w = cpu.word
  <2>1. Raised(l, w)
    BY <1>1, <1>9 DEF Raised
  <2> QED
    BY <1>7, <1>8, <1>9, <2>1, WriteArrives
<1>10. CASE ~(l = cpu.line /\ w = cpu.word)
  <2>1. ~Raised(l, w)
    BY <1>10 DEF Raised
  <2>2. ~Missing(y, IndexOf[l], w)
    BY Ages DEF Missing
  <2> QED
    BY <1>2, <1>7, <1>8, <1>10, <2>1, <2>2, EntryKept
<1> QED
  BY <1>9, <1>10

\* A fill begins with the word the CPU waits for; the others are missing yet.
LEMMA WaitCoherent ==
    ASSUME NEW vga, NEW reserve, NEW refresh, Stepping(vga, reserve, refresh),
           NEW l \in Line, NEW w \in Word, NEW y \in C!Way, state = "WAITFILL"
    PROVE  CoherentAt(l, w, y)'
<1> SUFFICES ASSUME tagram'[y][IndexOf[l]] = TagOf[l]
             PROVE  IF Arrives(y, IndexOf[l], w)' THEN Right(data_w, l, w)'
                    ELSE Missing(y, IndexOf[l], w)' \/ Right(dataram[y][IndexOf[l]][w], l, w)'
  BY DEF CoherentAt
<1>0. MemoryInv /\ RegistersInv
  BY SteppingFacts DEF Stepping
<1>1. Port1.op = "read" /\ cpu.op = "read" /\ cpu' = cpu /\ Port1.word = cpu.word
      /\ cpu.line \in Line /\ cpu.word \in Word
  BY RaisedKept, SteppingFacts, PortBusy DEF PaceInv
<1>2. PICK i \in Index : i = IndexOf[l]
  OBVIOUS
<1>3. /\ readword_burst' = TRUE /\ readword' = cpu.word
      /\ UNCHANGED <<tag_mru1, latched_cpuaddr>> /\ FillWay' = FillWay
      /\ IF readcache_fill THEN data_wren' = {FillWay} /\ data_w' = C!Entry(C!CacheLane, sdata_reg.data)
                                /\ state' = "FILL2"
         ELSE data_wren' = {} /\ state' = "WAITFILL"
  <2>1. tag_mru1' = tag_mru1 /\ latched_cpuaddr' = latched_cpuaddr
    BY CacheRegisters
  <2>2. FillWay' = FillWay
    BY <2>1 DEF FillWay
  <2>3. readword_burst' = TRUE /\ readword' = cpu.word
    BY <1>1, CacheRegisters
  <2>4. CASE readcache_fill
    BY <2>1, <2>2, <2>3, <2>4, SteppingFacts, CacheMoves, CacheRegisters
  <2>5. CASE ~readcache_fill
    BY <2>1, <2>2, <2>3, <2>5, SteppingFacts, CacheMoves, CacheRegisters
  <2> QED
    BY <2>4, <2>5
<1>4. Arrives(y, i, w)' <=> readcache_fill /\ y = FillWay /\ i = latched_cpuaddr /\ w = cpu.word
  BY <1>3, ArrivesNext
<1>5. Arrives(y, IndexOf[l], w)' <=> Arrives(y, i, w)'
  BY <1>2 DEF Arrives
<1>6. CASE y = FillWay /\ i = latched_cpuaddr
  <2>1. Missing(y, IndexOf[l], w)'
    <3>1. CASE ~readcache_fill
      BY <1>2, <1>3, <1>6, <3>1 DEF Missing
    <3>2. CASE readcache_fill
      <4>1. state' \in Fills /\ FillAge[state'] = 8
        BY <1>3, <3>2, Ages
      <4>2. w \in 0 .. 7 /\ readword' \in 0 .. 7
        BY <1>1, <1>3, ChipAssumption DEF Offset
      <4>3. (w - readword') % 8 \in 0 .. 7
        BY <4>2, NextDistance
      <4>4. (w - readword') % 8 <= 15 - FillAge[state']
        BY <4>1, <4>3
      <4> QED
        BY <1>2, <1>3, <1>6, <4>1, <4>4 DEF Missing, Fills, FillAge
    <3> QED
      BY <3>1, <3>2
  <2>2. ASSUME Arrives(y, i, w)'
        PROVE  Right(data_w, l, w)'
    <3>1. readcache_fill /\ w = cpu.word
      BY <1>4, <2>2
    <3>2. tagram[y][i] = TagOf[cpu.line] /\ i = IndexOf[cpu.line]
      <4>1. tag_wren = {}
        BY <1>0, <3>1, Ages DEF RegistersInv
      <4> QED
        BY <1>0, <1>6, <4>1 DEF RegistersInv
    <3>3. tagram'[y][i] = tagram[y][i]
      <4>1. tag_wren = {}
        BY <1>0, <3>1, Ages DEF RegistersInv
      <4> QED
        BY <4>1, TagStep
    <3>4. l = cpu.line
      BY <1>1, <1>2, <3>2, <3>3
    <3>5. sdata_reg.data = Effective(l, w)
      BY <1>0, <3>1, <3>4, FirstWord
    <3> QED
      BY <1>3, <3>1, <3>5, FillArrives
  <2> QED
    BY <1>5, <2>1, <2>2
<1>7. CASE ~(y = FillWay /\ i = latched_cpuaddr)
  <2>1. tagram[y][IndexOf[l]] = TagOf[l]
    BY <1>2, <1>7, TagKept
  <2>2. ~Missing(y, IndexOf[l], w)
    BY <1>2, <1>7 DEF Missing
  <2>3. Right(dataram[y][IndexOf[l]][w], l, w)'
    BY <2>1, <2>2, EntryKept
  <2> QED
    BY <1>4, <1>5, <1>7, <2>3
<1> QED
  BY <1>6, <1>7

\* Each state of a fill has one word written, and takes the next one.
LEMMA FillCoherent ==
    ASSUME NEW vga, NEW reserve, NEW refresh, Stepping(vga, reserve, refresh),
           NEW l \in Line, NEW w \in Word, NEW y \in C!Way, state \in C!Filling
    PROVE  CoherentAt(l, w, y)'
<1> SUFFICES ASSUME tagram'[y][IndexOf[l]] = TagOf[l]
             PROVE  IF Arrives(y, IndexOf[l], w)' THEN Right(data_w, l, w)'
                    ELSE Missing(y, IndexOf[l], w)' \/ Right(dataram[y][IndexOf[l]][w], l, w)'
  BY DEF CoherentAt
<1>0. /\ MemoryInv /\ RegistersInv /\ SlotInv /\ SdramTypeOK /\ Timeline
      /\ readword \in 0 .. 7 /\ w \in 0 .. 7
  BY SteppingFacts, ChipAssumption DEF Stepping, TypeOK, C!CacheTypeOK, Offset
<1>1. PICK i \in Index : i = IndexOf[l]
  OBVIOUS
<1>2. state \in Fills /\ FillAge[state] \in 8 .. 14 /\ state # "WAITFILL" /\ state # "WRITE1"
  <2>1. state \in Fills /\ FillAge[state] \in 8 .. 15 /\ FillAge[state] # 15
    BY Ages
  <2> QED
    BY <2>1, Ages
<1>3. /\ readword_burst' = TRUE /\ readword' = (readword + 1) % 8
      /\ UNCHANGED <<tag_mru1, latched_cpuaddr>> /\ FillWay' = FillWay
      /\ data_wren' = {FillWay} /\ data_w' = C!Entry(C!CacheLane, sdata_reg.data)
      /\ state' \in Fills /\ FillAge[state'] = FillAge[state] + 1
  <2>1. /\ readword_burst' = TRUE /\ readword' = (readword + 1) % 8
        /\ tag_mru1' = tag_mru1 /\ latched_cpuaddr' = latched_cpuaddr
        /\ data_wren' = {FillWay} /\ data_w' = C!Entry(C!CacheLane, sdata_reg.data)
    BY CacheRegisters
  <2>2. FillWay' = FillWay
    BY <2>1 DEF FillWay
  <2>3. state' \in Fills /\ FillAge[state'] = FillAge[state] + 1
    BY Ages, SteppingFacts, CacheMoves
  <2> QED
    BY <2>1, <2>2, <2>3
<1>4. tagram[y][IndexOf[l]] = TagOf[l]
  BY <1>1, <1>2, TagKept
<1>5. data_wren = {FillWay} /\ readword_burst
  BY <1>0, <1>2 DEF RegistersInv
<1>6. Arrives(y, i, w) <=> y = FillWay /\ i = latched_cpuaddr /\ w = readword
  BY <1>5 DEF Arrives, C!DataSet, C!DataWord
<1>7. Arrives(y, i, w)' <=> y = FillWay /\ i = latched_cpuaddr /\ w = readword'
  BY <1>3, ArrivesNext
<1>8. Arrives(y, IndexOf[l], w)' <=> Arrives(y, i, w)'
  BY <1>1 DEF Arrives
<1>9. CASE ~Missing(y, i, w) \/ Arrives(y, i, w)
  <2>1. Right(dataram[y][IndexOf[l]][w], l, w)'
    BY <1>1, <1>2, <1>4, <1>9, EntryKept
  <2>2. ASSUME Arrives(y, i, w)'
        PROVE  Right(data_w, l, w)'
    BY <1>7, <2>2, <1>1, <1>2, <1>4, NextWordArrives
  <2> QED
    BY <1>8, <2>1, <2>2
<1>10. CASE Missing(y, i, w) /\ ~Arrives(y, i, w)
  <2>1. y = FillWay /\ i = latched_cpuaddr /\ (w - readword) % 8 <= 15 - FillAge[state]
    BY <1>2, <1>10 DEF Missing
  <2>2. w # readword
    BY <1>6, <1>10, <2>1
  <2>3. CASE w = readword'
    <3>1. Right(data_w, l, w)'
      BY <1>1, <1>2, <1>4, <2>1, <2>3, NextWordArrives
    <3> QED
      BY <1>7, <1>8, <2>1, <2>3, <3>1
  <2>4. CASE w # readword'
    <3>1. PICK n \in 0 .. 7 : n = 15 - FillAge[state] /\ 15 - FillAge[state'] = n - 1
      BY <1>2, <1>3
    <3>2. (w - readword') % 8 <= n - 1
      BY <1>0, <1>3, <2>1, <2>2, <3>1, NextDistance
    <3>3. Missing(y, IndexOf[l], w)'
      BY <1>1, <1>3, <2>1, <3>1, <3>2 DEF Missing, Fills, FillAge
    <3> QED
      BY <1>7, <1>8, <2>4, <3>3
  <2> QED
    BY <2>3, <2>4
<1> QED
  BY <1>9, <1>10

LEMMA CoherentStep ==
    ASSUME NEW vga, NEW reserve, NEW refresh, Stepping(vga, reserve, refresh)
    PROVE  Coherent'
<1> SUFFICES ASSUME NEW l \in Line, NEW w \in Word, NEW y \in C!Way
             PROVE  CoherentAt(l, w, y)'
  BY DEF Coherent, CoherentAt
<1>1. state \in C!CacheState
  BY CacheRegisters
<1>2. C!CacheState = {"INIT1", "INIT2", "WAITING", "WAITRD", "PAUSE1", "WRITE1", "WRITE2", "WAITFILL"}
                       \union C!Filling \union {"FILL9"}
  BY DEF C!CacheState, C!Filling, C!NextFill
<1> QED
  BY <1>1, <1>2, RestCoherent, WriteCoherent, WaitCoherent, FillCoherent

-----------------------------------------------------------------------------
(* The invariant holds.                                                    *)

LEMMA InitMemory == Init => MemoryInv
<1> SUFFICES ASSUME Init PROVE MemoryInv
  OBVIOUS
<1>1. /\ state = "INIT1" /\ data_wren = {} /\ tag_wren = {}
      /\ readword_burst = FALSE /\ cpu_ack = FALSE /\ cache_req = FALSE
      /\ dataram = [y \in C!Way |-> [i \in Index |-> [w \in Word |-> C!Invalid]]]
  BY DEF Init, C!CacheInit
<1>2. /\ divider = 0 /\ cpu = Quiet("internal") /\ cpu_r = cpu
      /\ prgstate = "run" /\ cpu_clkena = FALSE
      /\ fast_prgstate = "waitcpu" /\ req_pending = FALSE
  BY DEF Init
<1>3. cpu.op = "internal"
  BY <1>2 DEF Quiet
<1>4. slot1 = "refresh" /\ slot2 = "idle" /\ wc_dtack = FALSE
  BY DEF Init, SdramInit
<1>5. TypeOK /\ Timeline
  BY MemoryInitType, InitTimeline DEF Init
<1>6. BusInv
  BY <1>1, <1>2, <1>3 DEF BusInv, Waits
<1>7. AnswerInv
  BY <1>1, <1>2, <1>4 DEF AnswerInv
<1>8. state \notin Fills
  BY <1>1, Ages
<1>9. PaceInv
  BY <1>1, <1>8 DEF PaceInv
<1>10. SlotInv
  BY <1>1, <1>4, <1>8 DEF SlotInv, ReadInStep
<1>11. RegistersInv
  BY <1>1, <1>8 DEF RegistersInv
<1>12. Coherent
  <2> SUFFICES ASSUME NEW l \in Line, NEW w \in Word, NEW y \in C!Way
               PROVE  ~Arrives(y, IndexOf[l], w) /\ Right(dataram[y][IndexOf[l]][w], l, w)
    BY DEF Coherent
  <2>1. IndexOf[l] \in Index
    OBVIOUS
  <2>2. dataram[y][IndexOf[l]][w].valid = {}
    BY <1>1, <2>1 DEF C!Invalid
  <2> QED
    BY <1>1, <2>2 DEF Arrives, Right, C!CacheLane
<1> QED
  BY <1>5, <1>6, <1>7, <1>9, <1>10, <1>11, <1>12 DEF MemoryInv

LEMMA StutterMemory == MemoryInv /\ UNCHANGED vars => MemoryInv'
<1> SUFFICES ASSUME MemoryInv, UNCHANGED vars PROVE MemoryInv'
  OBVIOUS
<1>1. UNCHANGED sdramVars
  BY DEF vars
<1>2. /\ UNCHANGED <<state, dataram, tagram, mru, data_q, tag_q, mru_q>>
      /\ UNCHANGED <<data_w, data_wren, tag_wren, tag_mru1, readword, readword_burst>>
      /\ UNCHANGED <<latched_cpuaddr, cpu_ack, data_to_cpu, cache_req>>
  BY DEF vars, C!cacheVars
<1>3. UNCHANGED <<divider, cpu, cpu_r, prgstate, cpu_clkena, cpu_datain, fast_prgstate, req_pending>>
  BY DEF vars, busVars
<1>4. /\ UNCHANGED <<sdram_state, initstate, init_done, slot1_fill, slot2_fill, refreshpending, vga_rsp>>
      /\ UNCHANGED <<slot1, slot2, slot1_bank, slot2_bank, casaddr, cmd, dq, wc_burst>>
      /\ UNCHANGED <<wc_state, wc_addr, wc_word, wc_dqm, wc_req, wc_dirty, wc_dtack>>
      /\ UNCHANGED <<sdata_reg, bank, ram>>
  BY <1>1 DEF sdramVars, phaseVars, slotVars, wcVars, chipVars
<1>5. TypeOK'
  <2>1. SdramTypeOK'
    BY <1>4 DEF MemoryInv, TypeOK, SdramTypeOK
  <2>2. C!CacheTypeOK'
    BY <1>2 DEF MemoryInv, TypeOK, C!CacheTypeOK
  <2> QED
    BY <1>3, <2>1, <2>2 DEF MemoryInv, TypeOK
<1>6. Timeline'
  BY <1>1, StutterTimeline DEF MemoryInv
<1>7. \A l, w : Effective(l, w)' = Effective(l, w)
  BY <1>4 DEF Effective
<1>8. Port1' = Port1
  BY <1>3 DEF Port1, sdram_req, sel_peripherals
<1>9. BusInv'
  BY <1>2, <1>3, <1>4 DEF MemoryInv, BusInv, Waits
<1>10. Taken' = Taken /\ Answered' = Answered
  BY <1>2, <1>3, <1>7 DEF Taken, Answered, Written
<1>11. AnswerInv'
  BY <1>2, <1>3, <1>4, <1>10 DEF MemoryInv, AnswerInv
<1>12. PaceInv'
  BY <1>2, <1>3, <1>8, <1>10 DEF MemoryInv, PaceInv
<1>13. SlotInv'
  BY <1>2, <1>3, <1>4 DEF MemoryInv, SlotInv, ReadInStep, Where, FillWay, Beat, Content, Age1, Age2, Since
<1>14. RegistersInv'
  BY <1>2, <1>3, <1>4
     DEF MemoryInv, RegistersInv, FillWay, readcache_fill, FillFor
<1>15. Coherent'
  <2>1. \A l, w : Raised(l, w)' = Raised(l, w) /\ Owes(l, w)' = Owes(l, w) /\ Final(l, w)' = Final(l, w)
    BY <1>2, <1>3, <1>7 DEF Raised, Owes, Final, Written
  <2>2. \A e, l, w : Right(e, l, w)' = Right(e, l, w)
    BY <2>1 DEF Right
  <2>3. \A y, i, w : Missing(y, i, w)' = Missing(y, i, w) /\ Arrives(y, i, w)' = Arrives(y, i, w)
    BY <1>2, <1>8 DEF Missing, Arrives, FillWay, C!DataSet, C!DataWord
  <2> QED
    BY <1>2, <2>2, <2>3 DEF MemoryInv, Coherent
<1> QED
  BY <1>5, <1>6, <1>9, <1>11, <1>12, <1>13, <1>14, <1>15 DEF MemoryInv

LEMMA MemoryInvStep == MemoryInv /\ [Next]_vars => MemoryInv'
<1>1. ASSUME MemoryInv, Next PROVE MemoryInv'
  <2>1. PICK vga \in Line \union {NoLine}, reserve \in Line \union {NoLine}, refresh \in BOOLEAN :
             Tick(vga, reserve, refresh)
    BY <1>1, NextTick
  <2>2. Stepping(vga, reserve, refresh)
    BY <1>1, <2>1 DEF Stepping
  <2>3. Port1 \in Request /\ SdramTypeOK /\ Timeline /\ SdramTick(Port1, cache_req, vga, reserve, refresh)
    BY <2>2, SteppingFacts, PortType
  <2>4. Timeline'
    BY <2>3, TimelineStep
  <2>5. TypeOK' /\ BusInv' /\ AnswerInv' /\ PaceInv'
    BY <2>2, MemoryStepType, BusInvStep, AnswerInvStep, PaceInvStep
  <2>6. SlotInv' /\ RegistersInv' /\ Coherent'
    BY <2>2, SlotInvStep, RegistersInvStep, CoherentStep
  <2> QED
    BY <2>4, <2>5, <2>6 DEF MemoryInv
<1> QED
  BY <1>1, StutterMemory

\* CPU bus, request latch, cache and controller keep step with each other, and
\* the cache agrees with memory up to the writes it has yet to look at.
THEOREM MemoryInvKept == Spec => []MemoryInv
  BY InitMemory, MemoryInvStep, PTL DEF Spec

\* Every register of the top level's bus machines, the cache, the controller and
\* the chip stays in its range.
THEOREM MemoryTypeCorrect == Spec => []TypeOK
<1>1. MemoryInv => TypeOK
  BY DEF MemoryInv
<1> QED
  BY <1>1, MemoryInvKept, PTL

-----------------------------------------------------------------------------
(* The read cache.                                                         *)

\* With nothing raised and nothing on its way an entry is right now.
LEMMA CoherentAtRest == MemoryInv => CacheCoherent
<1> SUFFICES ASSUME MemoryInv, state = "WAITING", Port1.op = "idle", data_wren = {},
                    NEW l \in Line, NEW w \in Word, NEW y \in C!CachedIn(l, w)
             PROVE  dataram[y][IndexOf[l]][w].data = Memory[l][w]
  BY DEF CacheCoherent
<1>1. TypeOK /\ BusInv /\ Coherent
  BY DEF MemoryInv
<1>2. /\ y \in C!Way /\ tagram[y][IndexOf[l]] = TagOf[l]
      /\ dataram[y][IndexOf[l]][w].valid = C!CacheLane
  BY DEF C!CachedIn
<1>3. ~Raised(l, w)
  BY <1>1, PortOp DEF BusInv, Raised
<1>4. ~Owes(l, w) /\ Final(l, w) = Effective(l, w)
  BY <1>3 DEF Owes, Final
<1>5. ~Arrives(y, IndexOf[l], w) /\ ~Missing(y, IndexOf[l], w)
  BY Ages DEF Arrives, Missing
<1>6. Right(dataram[y][IndexOf[l]][w], l, w)
  BY <1>1, <1>2, <1>5 DEF Coherent
<1>7. dataram[y][IndexOf[l]][w].data = Effective(l, w)
  BY <1>2, <1>4, <1>6 DEF Right
<1> QED
  BY <1>7 DEF Memory

\* Between the cycles of the CPU no entry that would answer a read is stale,
\* whatever fills and writes have met in the cache before.
THEOREM CacheNeverStale == Spec => []CacheCoherent
  BY CoherentAtRest, MemoryInvKept, PTL

-----------------------------------------------------------------------------
(* One memory.                                                             *)

\* What the abstract memory stores is what the controller lays over a word.
LEMMA StoredWord ==
    ASSUME NEW r, r.line \in Line, r.word \in Word
    PROVE  StoreWord(Memory, r) =
             [l \in Line |-> [w \in Word |-> IF l = r.line /\ w = r.word
                                            THEN Written(r, Effective(l, w)) ELSE Effective(l, w)]]
<1>1. PICK m : m = [l \in Line |-> [w \in Word |-> Effective(l, w)]]
  OBVIOUS
<1>2. PICK x : x = Written(r, Effective(r.line, r.word))
  OBVIOUS
<1>3. m[r.line][r.word] = Effective(r.line, r.word)
  BY <1>1
<1>4. [lane \in Lane |-> IF lane \in r.lanes THEN r.data[lane] ELSE m[r.line][r.word][lane]] = x
  BY <1>2, <1>3 DEF Written
<1>5. StoreWord(m, r) = [m EXCEPT ![r.line][r.word] = x]
  BY <1>4 DEF StoreWord
<1>6. [m EXCEPT ![r.line][r.word] = x] =
        [l \in Line |-> [w \in Word |-> IF l = r.line /\ w = r.word THEN x ELSE Effective(l, w)]]
  BY <1>1
<1>7. \A l \in Line, w \in Word :
         (IF l = r.line /\ w = r.word THEN x ELSE Effective(l, w)) =
         (IF l = r.line /\ w = r.word THEN Written(r, Effective(l, w)) ELSE Effective(l, w))
  BY <1>2
<1>8. [l \in Line |-> [w \in Word |-> IF l = r.line /\ w = r.word THEN x ELSE Effective(l, w)]] =
      [l \in Line |-> [w \in Word |-> IF l = r.line /\ w = r.word
                                     THEN Written(r, Effective(l, w)) ELSE Effective(l, w)]]
  BY <1>7
<1>9. m = Memory
  BY <1>1 DEF Memory
<1> QED
  BY <1>5, <1>6, <1>8, <1>9

\* The memory changes by the write the write cache accepts, which is the CPU's.
LEMMA MemoryMoves ==
    ASSUME NEW vga, NEW reserve, NEW refresh, Stepping(vga, reserve, refresh)
    PROVE  /\ ~wc_dtack' => Memory' = Memory
           /\ wc_dtack' => /\ cpu.op = "write" /\ cpu_r = cpu /\ req_pending
                           /\ Memory' = StoreWord(Memory, cpu)
<1>1. Memory' = [l \in Line |-> [w \in Word |-> Effective(l, w)']]
  BY DEF Memory
<1>2. ASSUME ~wc_dtack'
      PROVE  Memory' = Memory
  <2>1. \A l \in Line, w \in Word : Effective(l, w)' = Effective(l, w)
    BY <1>2, MemoryStep
  <2> QED
    BY <1>1, <2>1 DEF Memory
<1>3. ASSUME wc_dtack'
      PROVE  /\ cpu.op = "write" /\ cpu_r = cpu /\ req_pending
             /\ Memory' = StoreWord(Memory, cpu)
  <2>1. Port1.op = "write"
    BY <1>3, MemoryStep
  <2>2. cpu.op = "write" /\ cpu_r = cpu /\ req_pending /\ cpu.line \in Line /\ cpu.word \in Word
    BY <2>1, SteppingFacts, PortBusy
  <2>3. \A l \in Line, w \in Word :
           Effective(l, w)' = IF l = cpu.line /\ w = cpu.word
                              THEN Written(cpu, Effective(l, w)) ELSE Effective(l, w)
    BY <1>3, MemoryStep
  <2>4. StoreWord(Memory, cpu) =
          [l \in Line |-> [w \in Word |-> IF l = cpu.line /\ w = cpu.word
                                         THEN Written(cpu, Effective(l, w)) ELSE Effective(l, w)]]
    BY <2>2, StoredWord
  <2> QED
    BY <1>1, <2>2, <2>3, <2>4
<1> QED
  BY <1>2, <1>3

\* A write that has been taken is stored again without effect.
LEMMA TakenIsStored ==
    ASSUME Taken, cpu.line \in Line, cpu.word \in Word
    PROVE  StoreWord(Memory, cpu) = Memory
<1>1. PICK e : e = Effective(cpu.line, cpu.word)
  OBVIOUS
<1>2. \A l \in Line, w \in Word :
         (IF l = cpu.line /\ w = cpu.word THEN Written(cpu, Effective(l, w)) ELSE Effective(l, w))
           = Effective(l, w)
  BY DEF Taken
<1>3. [l \in Line |-> [w \in Word |-> IF l = cpu.line /\ w = cpu.word
                                     THEN Written(cpu, Effective(l, w)) ELSE Effective(l, w)]] = Memory
  BY <1>2 DEF Memory
<1> QED
  BY <1>3, StoredWord

\* One edge is a step of the atomic memory or none.
LEMMA AtomicStep ==
    ASSUME NEW vga, NEW reserve, NEW refresh, Stepping(vga, reserve, refresh)
    PROVE  Abstract!Next \/ UNCHANGED <<Memory, InProgress, cpu_datain>>
<1>1. Advance \/ Answer \/ EndIo \/ Still
  BY SteppingFacts, BusStep
<1>2. AnswerInv /\ TypeOK /\ cpu \in CpuCycles
  BY SteppingFacts DEF TypeOK
<1>3. cpu.op \in {"read", "write", "internal", "io"} /\ cpu.line \in Line
  BY <1>2, CycleType
<1>4. CASE Advance
  <2>1. Memory' = Memory /\ UNCHANGED cpu_datain
    BY <1>4, MemoryMoves DEF Advance
  <2>2. InProgress = {}
    BY <1>4 DEF Advance, InProgress, cpu_run
  <2>3. InProgress' = IF cpu'.op \in {"read", "write"} THEN {cpu'} ELSE {}
    BY <1>4 DEF Advance, InProgress
  <2>4. cpu'.op \in {"read", "write"} => cpu' \in CpuRequests
    BY <1>4 DEF Advance, CpuCycles, Quiet
  <2>5. CASE cpu'.op \in {"read", "write"}
    BY <2>1, <2>2, <2>3, <2>4, <2>5 DEF Abstract!Next, Abstract!Begin
  <2> QED
    BY <2>1, <2>2, <2>3, <2>5
<1>5. CASE Answer
  <2>1. cpu.op \in {"read", "write"} /\ InProgress = {cpu}
    BY <1>5 DEF Answer, Waits, InProgress
  <2>2. InProgress' = {} /\ cpu_datain' = data_to_cpu
    BY <1>5 DEF Answer, InProgress
  <2>3. cpu.word \in Word
    BY <1>2, <2>1, CycleType
  <2>4. CASE cpu.op = "read"
    <3>1. Memory' = Memory
      BY <2>4, MemoryMoves
    <3>2. Answered
      BY <1>2, <1>5, <2>4 DEF Answer, AnswerInv, dtack
    <3>3. FetchWord(Memory, cpu) = cpu_datain'
      BY <1>3, <2>2, <2>3, <3>2 DEF FetchWord, Memory, Answered
    <3> QED
      BY <2>1, <2>2, <2>4, <3>1, <3>3 DEF Abstract!Next, Abstract!FinishRead
  <2>5. CASE cpu.op = "write"
    <3>1. Taken
      BY <1>2, <1>5, <2>5 DEF Answer, AnswerInv, dtack
    <3>2. StoreWord(Memory, cpu) = Memory
      BY <1>3, <2>3, <3>1, TakenIsStored
    <3>3. Memory' = Memory
      BY <3>2, MemoryMoves
    <3>4. cpu_datain' \in WordValue
      BY MemoryStepType DEF TypeOK
    <3> QED
      BY <2>1, <2>2, <2>5, <3>2, <3>3, <3>4 DEF Abstract!Next, Abstract!FinishWrite
  <2> QED
    BY <2>1, <2>4, <2>5
<1>6. CASE EndIo
  <2>1. Memory' = Memory /\ UNCHANGED cpu_datain
    BY <1>6, MemoryMoves DEF EndIo
  <2>2. InProgress = {} /\ InProgress' = {}
    BY <1>6 DEF EndIo, InProgress
  <2> QED
    BY <2>1, <2>2
<1>7. CASE Still
  <2>1. InProgress' = InProgress /\ UNCHANGED cpu_datain
    BY <1>7 DEF Still, InProgress
  <2>2. CASE ~wc_dtack'
    BY <2>1, <2>2, MemoryMoves
  <2>3. CASE wc_dtack' /\ ~cpu_clkena
    <3>1. cpu.op = "write" /\ Memory' = StoreWord(Memory, cpu)
      BY <2>3, MemoryMoves
    <3>2. InProgress = {cpu}
      BY <2>3, <3>1 DEF InProgress
    <3> QED
      BY <2>1, <3>1, <3>2 DEF Abstract!Next, Abstract!Write
  <2>4. CASE wc_dtack' /\ cpu_clkena
    <3>1. cpu.op = "write" /\ Memory' = StoreWord(Memory, cpu)
      BY <2>4, MemoryMoves
    <3>2. Taken /\ cpu.word \in Word
      BY <1>2, <2>4, <3>1, CycleType DEF AnswerInv
    <3>3. Memory' = Memory
      BY <1>3, <3>1, <3>2, TakenIsStored
    <3> QED
      BY <2>1, <3>3
  <2> QED
    BY <2>2, <2>3, <2>4
<1> QED
  BY <1>1, <1>4, <1>5, <1>6, <1>7

\* Bus machines, read cache, write cache, slots and chip together are one
\* memory: a write takes effect once, before it is acknowledged, and a read is
\* acknowledged with what the memory holds at that moment.
THEOREM MemoryIsAtomic == Spec => ImplementsAtomicMemory
<1>1. Init => Abstract!Init
  <2>1. Init => cpu.op = "internal"
    BY DEF Init, Quiet
  <2>2. Init => cpu_datain \in WordValue
    BY MemoryInitType DEF TypeOK
  <2> QED
    BY <2>1, <2>2 DEF Abstract!Init, InProgress
<1>2. MemoryInv /\ [Next]_vars => [Abstract!Next]_(Abstract!vars)
  <2>1. ASSUME MemoryInv, Next
        PROVE  Abstract!Next \/ UNCHANGED <<Memory, InProgress, cpu_datain>>
    <3>1. PICK vga \in Line \union {NoLine}, reserve \in Line \union {NoLine}, refresh \in BOOLEAN :
               Tick(vga, reserve, refresh)
      BY <2>1, NextTick
    <3> QED
      BY <2>1, <3>1, AtomicStep DEF Stepping
  <2>2. ASSUME UNCHANGED vars
        PROVE  UNCHANGED <<Memory, InProgress, cpu_datain>>
    <3>1. /\ UNCHANGED <<cpu, cpu_clkena, cpu_datain>>
          /\ UNCHANGED sdramVars
      BY <2>2 DEF vars, busVars
    <3>2. UNCHANGED <<wc_dirty, wc_addr, wc_dqm, wc_word, ram>>
      BY <3>1 DEF sdramVars, wcVars, chipVars
    <3> QED
      BY <3>1, <3>2 DEF Memory, Effective, InProgress
  <2> QED
    BY <2>1, <2>2 DEF Abstract!vars
<1> QED
  BY <1>1, <1>2, MemoryInvKept, PTL DEF Spec, ImplementsAtomicMemory, Abstract!Spec
=============================================================================
