-------------------------------- MODULE Sdram --------------------------------
(***************************************************************************)
(* The SDRAM controller between its two clients, each reduced to what the  *)
(* controller can tell: a CPU that holds a bus cycle until it is answered  *)
(* (with a read cache that drops its request on the first fill strobe and  *)
(* then takes seven more words), and a DMA port that requests one burst at *)
(* a time.  The clients may ask for anything at any time; the schedules of *)
(* the real ones (MemorySystem) are among those explored here.             *)
(***************************************************************************)
EXTENDS SdramController

CONSTANTS
    CpuRequests,       \* the bus cycles the CPU may start
    DmaLines           \* the lines the DMA port may ask for
ASSUME ClientAssumption ==
  /\ DmaLines \subseteq Line
  /\ CpuRequests \subseteq {r \in Request : r.op # "idle" /\ r.word \in Word}

VARIABLES
    rq,          \* the bus cycle on port 1
    rdbeats,     \* words of the current cache fill already taken, 0 outside a fill
    vgaline,     \* line of the outstanding DMA burst, or NoLine
    vgabeats,    \* its words already taken
    reserved,    \* line whose bank was reserved when slot 2 was decided
    stored       \* history: every byte as last written by the CPU

clientVars == <<rq, rdbeats, vgaline, vgabeats, reserved, stored>>
vars == <<sdramVars, clientVars>>

Idle == [op |-> "idle", line |-> AnyLine, word |-> 0, lanes |-> {}, data |-> ZeroWord]

\* The read cache requests a line until the first strobe of its fill.
rdreq == rq.op = "read" /\ rdbeats = 0

\* A write may be released once it is acknowledged (the CPU sees the answer
\* on its own, slower clock, so it may also be held longer); a read is over
\* with the first word.  The next cycle may start at once, except that a read
\* waits for the previous fill, as the read cache does.
Cpu ==
    /\ rdbeats' = IF readcache_fill THEN (rdbeats + 1) % 8 ELSE rdbeats
    /\ \/ rq' = rq /\ ~(readcache_fill /\ rdreq)
       \/ /\ (rq.op = "write" /\ wc_dtack) \/ (readcache_fill /\ rdreq)
          /\ rq' = Idle
       \/ /\ rq.op = "idle" /\ init_done
          /\ rq' \in CpuRequests
          /\ rq'.op = "read" => rdbeats' = 0
    /\ stored' = [l \in Line |-> [w \in Word |->
                    IF wcAccepts(rq) /\ l = rq.line /\ w = rq.word
                    THEN [lane \in Lane |-> IF lane \in rq.lanes THEN rq.data[lane]
                                            ELSE stored[l][w][lane]]
                    ELSE stored[l][w]]]

\* The DMA engine asks again only after the last word of its burst.  Its
\* request matters in phase 2 only, its reservation in phase 10 only.
VgaRequests == IF sdram_state = 2 /\ vgaline = NoLine THEN DmaLines \union {NoLine} ELSE {NoLine}
Reservations == IF sdram_state = 10 THEN DmaLines \union {NoLine} ELSE {NoLine}

Dma(vga, reserve) ==
    /\ reserved' = CASE sdram_state = 10 -> reserve [] sdram_state = 2 -> NoLine
                     [] OTHER -> reserved
    /\ vgaline' = IF sdram_state = 2 /\ init_done /\ Grant1(rq, rdreq, vga) = "port0" THEN vga
                  ELSE IF vga_fill /\ vgabeats = 7 THEN NoLine ELSE vgaline
    /\ vgabeats' = IF vga_fill THEN (vgabeats + 1) % 8 ELSE vgabeats

Init ==
    /\ SdramInit
    /\ rq = Idle /\ rdbeats = 0
    /\ vgaline = NoLine /\ vgabeats = 0 /\ reserved = NoLine
    /\ stored = ram

Tick(vga, reserve, refresh) ==
    /\ SdramTick(rq, rdreq, vga, reserve, refresh)
    /\ Cpu
    /\ Dma(vga, reserve)

Next == \E vga \in VgaRequests, reserve \in Reservations, refresh \in BOOLEAN :
           Tick(vga, reserve, refresh)

Spec == Init /\ [][Next]_vars /\ WF_vars(Next)

-----------------------------------------------------------------------------
TypeOK ==
    /\ SdramTypeOK
    /\ rq \in Request
    /\ rdbeats \in 0 .. 7
    /\ vgaline \in Line \union {NoLine} /\ vgabeats \in 0 .. 7
    /\ reserved \in Line \union {NoLine}
    /\ stored \in [Line -> [Word -> WordValue]]

\* The two slots overlap in time but never in a bank, and every command meets
\* the device in a state where it is allowed: no ACTIVE to a bank that is open
\* or still precharging, CAS only to the row just opened, REFRESH only with
\* all banks closed.  This is what the bank comparisons of phases 2 and 10 are for.
CommandsLegal == Legal(cmd)

\* The read burst of one slot and the write burst of the other never meet on
\* the data bus, although both are in flight at once.
DataBusExclusive == BusFree(cmd, dq)

\* Every word strobed to a port is the next word of the burst that port asked
\* for, in order, starting at the word asked for; a burst once begun delivers
\* its eight words on consecutive clocks, and no port is strobed for a burst
\* it did not ask for (the read cache's request is still up when the other
\* slot is decided).
Expected(line, col) == sdata_reg.valid /\ sdata_reg.line = line /\ sdata_reg.col = col
FillsDelivered ==
    /\ readcache_fill /\ rdbeats = 0 =>
         rq.op = "read" /\ Expected(rq.line, rq.word)
    /\ rdbeats # 0 => readcache_fill
    /\ vga_fill => vgaline # NoLine /\ Expected(vgaline, vgabeats)
    /\ vgabeats # 0 => vga_fill

\* A write that was acknowledged is never lost: each byte the CPU wrote is in
\* the write cache or in the device, whatever was merged into the pair while
\* it waited, was being burst out, or was masked.
PostedWritesKept ==
    \A l \in Line, w \in Word : Effective(l, w) = stored[l][w]

\* A bank reserved when slot 2 is decided is free for the DMA port when slot 1
\* is decided: the port then gets the slot, unless a refresh takes it.
ReservationHonoured ==
    [][\A vga \in VgaRequests \ {NoLine}, refresh \in BOOLEAN :
         /\ Tick(vga, NoLine, refresh)
         /\ sdram_state = 2 /\ init_done
         /\ reserved # NoLine /\ BankOf[reserved] = BankOf[vga]
         => slot1' \in {"port0", "refresh"}]_vars

\* A refresh asked for is made, whatever the two clients ask for meanwhile.
RefreshMade == init_done /\ refreshpending ~> slot1 = "refresh"

=============================================================================
