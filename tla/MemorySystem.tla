---------------------------- MODULE MemorySystem ----------------------------
(***************************************************************************)
(* The path from the CPU to the SDRAM in SOC_VirtualToplevel.vhd: the bus  *)
(* state machine on the slow clock, the request latch on the fast clock    *)
(* (Ratio times as fast), TwoWayCache and the SDRAM controller with its    *)
(* write cache and chip.  A step is one edge of the fast clock; on every   *)
(* Ratio-th one the slow clock has its edge too.                           *)
(***************************************************************************)
EXTENDS SdramController

CONSTANTS
    Index, Tag, IndexOf, TagOf, Tag0,    \* geometry of the read cache
    Ratio,                               \* fast clocks per slow clock
    CpuRequests,                         \* RAM cycles the CPU may run
    DmaLines,                            \* lines the DMA port may ask for
    RefreshPhases                        \* phases in which the video may pulse vga_refresh

ASSUME CacheAssumption ==
    /\ IndexOf \in [Line -> Index] /\ TagOf \in [Line -> Tag] /\ Tag0 \in Tag
    /\ \A k, l \in Line : IndexOf[k] = IndexOf[l] /\ TagOf[k] = TagOf[l] => k = l

\* The PLLs of the boards give 100 and 25 MHz.  With fewer than four clocks to the
\* slow one, the CPU's next write would meet the fill its last read began.
ASSUME SystemAssumption ==
    /\ Ratio \in Nat /\ Ratio >= 4
    /\ DmaLines \subseteq Line
    /\ RefreshPhases \subseteq 0 .. 15
    /\ CpuRequests \subseteq {r \in Request : r.op # "idle" /\ r.word \in Word}

VARIABLES
    \* TwoWayCache
    state, dataram, tagram, mru, data_q, tag_q, mru_q, data_w, data_wren,
    tag_wren, tag_mru1, readword, readword_burst, latched_cpuaddr,
    cpu_ack, data_to_cpu, cache_req,
    \* the top level
    divider,          \* fast clocks until the next slow edge
    cpu,              \* the CPU's bus cycle: a RAM request, "internal" or "io"
    cpu_r,            \* its registered copy on the fast clock
    prgstate, cpu_clkena, cpu_datain,
    fast_prgstate, req_pending

C == INSTANCE TwoWayCache

busVars == <<divider, cpu, cpu_r, prgstate, cpu_clkena, cpu_datain, fast_prgstate, req_pending>>
vars == <<sdramVars, C!cacheVars, busVars>>

\* Cycles that do not address RAM: none at all (busstate "01"), or a register.
Quiet(op) == [op |-> op, line |-> AnyLine, word |-> 0, lanes |-> {}, data |-> ZeroWord]
CpuCycles == CpuRequests \union {Quiet("internal"), Quiet("io")}

cpu_run == cpu.op = "internal" \/ cpu_clkena
sel_peripherals == cpu_r.op = "io"
sdram_req == req_pending /\ ~sel_peripherals
dtack == wc_dtack \/ cpu_ack

\* Port 1 of the SDRAM controller: the address stays while the request drops.
Port1 == [cpu_r EXCEPT !.op = IF sdram_req THEN cpu_r.op ELSE "idle"]

-----------------------------------------------------------------------------
\* The CPU moves to its next bus cycle on a slow edge with clkena set.
CpuAdvance == IF cpu_run THEN cpu' \in CpuCycles ELSE cpu' = cpu

\* prgstate: a RAM cycle waits for dtack in waitread (or in any state); a
\* register cycle ends by itself, at once (interrupt acknowledge) or later.
BusState ==
    IF dtack
    THEN prgstate' = "run" /\ cpu_clkena' = TRUE /\ cpu_datain' = data_to_cpu
    ELSE /\ UNCHANGED cpu_datain
         /\ \/ /\ prgstate = "run"
               /\ prgstate' = "mem" /\ cpu_clkena' = FALSE
            \/ /\ prgstate = "mem" /\ cpu.op \in {"read", "write"}
               /\ prgstate' = "waitread" /\ UNCHANGED cpu_clkena
            \/ /\ prgstate = "mem" /\ cpu.op = "io"
               /\ prgstate' = "peripheral" /\ UNCHANGED cpu_clkena
            \/ /\ prgstate \in {"mem", "peripheral"} /\ cpu.op = "io"
               /\ prgstate' = "run" /\ cpu_clkena' = TRUE
            \/ /\ \/ prgstate \in {"waitread", "peripheral"}
                  \/ prgstate = "mem" /\ cpu.op = "internal"
               /\ UNCHANGED <<prgstate, cpu_clkena>>

SlowEdge ==
    IF divider = 0 /\ init_done /\ state \notin {"INIT1", "INIT2"}
    THEN CpuAdvance /\ BusState
    ELSE UNCHANGED <<cpu, prgstate, cpu_clkena, cpu_datain>>

\* The request is raised once the CPU waits and dropped once it runs again.
FastEdge ==
    /\ cpu_r' = cpu
    /\ IF fast_prgstate = "waitcpu"
       THEN LET start == ~cpu_run
            IN  /\ req_pending' = (req_pending \/ start)
                /\ fast_prgstate' = IF start THEN "waitram" ELSE "waitcpu"
       ELSE LET stop == cpu_run \/ sel_peripherals
            IN  /\ req_pending' = ~stop
                /\ fast_prgstate' = IF stop THEN "waitcpu" ELSE "waitram"

Tick(vga, reserve, refresh) ==
    /\ divider' = (divider + 1) % Ratio
    /\ SlowEdge
    /\ FastEdge
    /\ C!CacheTick(Port1, readcache_fill, sdata_reg.data)
    /\ SdramTick(Port1, cache_req, vga, reserve, refresh)

VgaRequests == IF sdram_state = 2 THEN DmaLines \union {NoLine} ELSE {NoLine}
Reservations == IF sdram_state = 10 THEN DmaLines \union {NoLine} ELSE {NoLine}
RefreshPulses == IF sdram_state \in RefreshPhases THEN BOOLEAN ELSE {FALSE}

Init ==
    /\ SdramInit
    /\ C!CacheInit
    /\ divider = 0
    /\ cpu = Quiet("internal") /\ cpu_r = cpu
    /\ prgstate = "run" /\ cpu_clkena = FALSE /\ cpu_datain = ZeroWord
    /\ fast_prgstate = "waitcpu" /\ req_pending = FALSE

Next == \E vga \in VgaRequests, reserve \in Reservations, refresh \in RefreshPulses :
           Tick(vga, reserve, refresh)

Spec == Init /\ [][Next]_vars /\ WF_vars(Next)

-----------------------------------------------------------------------------
TypeOK ==
    /\ SdramTypeOK
    /\ C!CacheTypeOK
    /\ divider \in 0 .. Ratio - 1
    /\ cpu \in CpuCycles /\ cpu_r \in CpuCycles
    /\ prgstate \in {"run", "mem", "waitread", "peripheral"}
    /\ cpu_clkena \in BOOLEAN /\ cpu_datain \in WordValue
    /\ fast_prgstate \in {"waitcpu", "waitram"} /\ req_pending \in BOOLEAN

\* The memory system as the CPU sees it.
Memory == [l \in Line |-> [w \in Word |-> Effective(l, w)]]
InProgress == IF cpu.op \in {"read", "write"} /\ ~cpu_clkena THEN {cpu} ELSE {}
StoreWord(mem, r) ==
    [mem EXCEPT ![r.line][r.word] =
        [lane \in Lane |-> IF lane \in r.lanes THEN r.data[lane] ELSE @[lane]]]
FetchWord(mem, r) == mem[r.line][r.word]

Abstract == INSTANCE AtomicMemory WITH
    Requests <- CpuRequests, Data <- WordValue, Store <- StoreWord, Fetch <- FetchWord,
    mem <- Memory, pending <- InProgress, result <- cpu_datain

\* The memory system implements a single atomic memory: every read returns
\* the last value written, every acknowledged write has taken effect, and no
\* cycle is acknowledged by the answer to another one.
ImplementsAtomicMemory == Abstract!Spec

\* No stale copy: whenever the cache is at rest, a word it would answer with
\* is what memory holds.
CacheCoherent ==
    state = "WAITING" /\ Port1.op = "idle" /\ data_wren = {} /\ tag_wren = {} =>
        \A l \in Line, w \in Word : \A y \in C!CachedIn(l, w) :
            dataram[y][IndexOf[l]][w].data = Memory[l][w]

=============================================================================
