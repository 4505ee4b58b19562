----------------------------- MODULE TwoWayCache -----------------------------
(***************************************************************************)
(* RTL/Memory/TwoWayCache.v: the CPU's two-way read cache.  Reads that hit *)
(* are answered from block RAM; a miss requests a line from the SDRAM      *)
(* controller, answers the CPU with the first word of the burst and stores *)
(* the other seven while the CPU already runs on.  Writes go to the        *)
(* controller's write cache; here they only update the ways that hold the  *)
(* line, half a word at a time.                                            *)
(*                                                                         *)
(* Block RAM has registered outputs: what a state looks at was addressed   *)
(* one clock earlier, and what a state writes lands one clock later.       *)
(***************************************************************************)
EXTENDS Integers

CONSTANTS
    Line, Word, Byte, ZeroByte,    \* as in SdramChip
    Index,       \* cache sets (address bits 10..4)
    Tag,         \* tags (address bits 25..9)
    IndexOf, TagOf,
    Tag0         \* content of the tag RAM at power-up

Way == {1, 2}
CacheLane == {"U", "L"}
NoWord == [lane \in CacheLane |-> ZeroByte]

VARIABLES
    state,
    dataram,                  \* per way, set and word: valid lanes and data
    tagram, mru,              \* per way and set: tag; per set: way 1 used last
    data_q, tag_q, mru_q,     \* block RAM output registers
    data_w, data_wren,        \* pending data write: entry and ways
    tag_wren, tag_mru1,       \* pending tag write: ways, and the way that is most recent
    readword, readword_burst, latched_cpuaddr,
    cpu_ack, data_to_cpu,
    cache_req                 \* sdram_req

cacheVars == <<state, dataram, tagram, mru, data_q, tag_q, mru_q, data_w, data_wren,
               tag_wren, tag_mru1, readword, readword_burst, latched_cpuaddr,
               cpu_ack, data_to_cpu, cache_req>>

CacheState == {"INIT1", "INIT2", "WAITING", "WAITRD", "PAUSE1", "WRITE1", "WRITE2", "WAITFILL",
               "FILL2", "FILL3", "FILL4", "FILL5", "FILL6", "FILL7", "FILL8", "FILL9"}
NextFill ==
    [FILL2 |-> "FILL3", FILL3 |-> "FILL4", FILL4 |-> "FILL5", FILL5 |-> "FILL6",
     FILL6 |-> "FILL7", FILL7 |-> "FILL8", FILL8 |-> "FILL9"]
Filling == DOMAIN NextFill

\* The acknowledge of a miss is held for four clocks in all, "should be plenty".
AckedFills == {"FILL2", "FILL3", "FILL4"}

NextWord(w) == (w + 1) % 8

Invalid == [valid |-> {}, data |-> NoWord]
Entry(lanes, d) == [valid |-> lanes, data |-> d]
MruWay == IF tag_mru1 THEN {1} ELSE {2}

-----------------------------------------------------------------------------
(* Block RAM.                                                              *)

DataSet(rq) == IF readword_burst THEN latched_cpuaddr ELSE IndexOf[rq.line]
DataWord(rq) == IF readword_burst THEN readword ELSE rq.word
Tracked(rq) == DataWord(rq) \in Word

DataRam(rq) ==
    LET s == DataSet(rq)  w == DataWord(rq)
    IN  /\ dataram' = IF state = "INIT2" THEN [y \in Way |-> [i \in Index |-> [v \in Word |-> Invalid]]]
                      ELSE [y \in Way |-> IF y \in data_wren /\ Tracked(rq)
                                          THEN [dataram[y] EXCEPT ![s][w] = data_w]
                                          ELSE dataram[y]]
        /\ data_q' = [y \in Way |-> IF y \in data_wren THEN data_w
                                    ELSE IF Tracked(rq) THEN dataram[y][s][w] ELSE Invalid]

\* The tag of the way that became most recent is replaced by the CPU's, the
\* other one is written back as it was read.
TagWritten(y, rq) == IF tag_mru1 = (y = 1) THEN TagOf[rq.line] ELSE tag_q[y]

TagRam(rq) ==
    LET s == IndexOf[rq.line]
    IN  /\ tagram' = [y \in Way |-> IF y \in tag_wren
                                    THEN [tagram[y] EXCEPT ![s] = TagWritten(y, rq)]
                                    ELSE tagram[y]]
        /\ tag_q' = [y \in Way |-> IF y \in tag_wren THEN TagWritten(y, rq) ELSE tagram[y][s]]
        /\ mru' = IF 1 \in tag_wren THEN [mru EXCEPT ![s] = tag_mru1] ELSE mru
        /\ mru_q' = IF 1 \in tag_wren THEN tag_mru1 ELSE mru[s]

TagHit(y, rq) == tag_q[y] = TagOf[rq.line]
Hit(y, rq) == TagHit(y, rq) /\ data_q[y].valid = CacheLane
HitWays(rq) == {y \in Way : TagHit(y, rq)}

-----------------------------------------------------------------------------
(* The state machine, one action per state or group of like states.        *)

\* Registers that default to "off" in every state that does not drive them.
Off(acks, dways, tways, burst) ==
    /\ cpu_ack' = acks /\ data_wren' = dways /\ tag_wren' = tways /\ readword_burst' = burst

\* INIT2's walk over all entries is one step here: the design is in reset until it ends.
Initialise(rq) ==
    /\ state \in {"INIT1", "INIT2"}
    /\ state' = IF state = "INIT1" THEN "INIT2" ELSE "WAITING"
    /\ data_w' = Invalid
    /\ Off(FALSE, {}, {}, FALSE)
    /\ UNCHANGED <<tag_mru1, readword, latched_cpuaddr, data_to_cpu, cache_req>>

Waiting(rq) ==
    /\ state = "WAITING"
    /\ state' = CASE rq.op = "read" -> "WAITRD" [] rq.op = "write" -> "WRITE1"
                  [] OTHER -> "WAITING"
    /\ Off(FALSE, {}, {}, FALSE)
    /\ UNCHANGED <<data_w, tag_mru1, readword, latched_cpuaddr, data_to_cpu, cache_req>>

\* A byte write leaves the other byte of the word invalid.
\* Mutant: it does not.
WriteEntry_whole(rq) == Entry(CacheLane, rq.data)
WriteEntry(rq) == Entry(rq.lanes, rq.data)

\* Both ways may hold the line; both are updated.
Write1(rq) ==
    /\ state = "WRITE1"
    /\ state' = "WRITE2"
    /\ data_w' = WriteEntry(rq)
    /\ tag_mru1' = IF TagHit(2, rq) THEN FALSE ELSE IF TagHit(1, rq) THEN TRUE ELSE tag_mru1
    /\ Off(FALSE, HitWays(rq), IF HitWays(rq) # {} THEN {1} ELSE {}, FALSE)
    /\ UNCHANGED <<readword, latched_cpuaddr, data_to_cpu, cache_req>>

Write2(rq) ==
    /\ state = "WRITE2"
    /\ state' = IF rq.op = "idle" THEN "WAITING" ELSE state
    /\ Off(FALSE, {}, {}, FALSE)
    /\ UNCHANGED <<data_w, tag_mru1, readword, latched_cpuaddr, data_to_cpu, cache_req>>

WaitReadHit(rq) ==
    /\ state = "WAITRD"
    /\ \E y \in Way :
         /\ Hit(y, rq)
         /\ y = 2 => ~Hit(1, rq)
         /\ data_to_cpu' = data_q[y].data
         /\ tag_mru1' = (y = 1)
    /\ state' = "PAUSE1"
    /\ Off(TRUE, {}, {1}, FALSE)
    /\ UNCHANGED <<data_w, readword, latched_cpuaddr, cache_req>>

\* A way whose tag matches holds a stale copy and is reused; otherwise the
\* least recently used way is.
WaitReadMiss(rq) ==
    /\ state = "WAITRD"
    /\ \A y \in Way : ~Hit(y, rq)
    /\ tag_mru1' = IF TagHit(1, rq) THEN TRUE ELSE IF TagHit(2, rq) THEN FALSE ELSE ~mru_q
    /\ latched_cpuaddr' = IndexOf[rq.line]
    /\ cache_req' = TRUE
    /\ state' = "WAITFILL"
    /\ Off(FALSE, {}, {1, 2}, FALSE)
    /\ UNCHANGED <<data_w, readword, data_to_cpu>>

Pause1(rq) ==
    /\ state = "PAUSE1"
    /\ state' = IF rq.op = "idle" THEN "WAITING" ELSE state
    /\ Off(rq.op # "idle", {}, {}, FALSE)
    /\ UNCHANGED <<data_w, tag_mru1, readword, latched_cpuaddr, data_to_cpu, cache_req>>

WaitFill(rq, fill, sdata) ==
    /\ state = "WAITFILL"
    /\ readword' = rq.word
    /\ IF fill
       THEN /\ cache_req' = FALSE
            /\ data_to_cpu' = sdata
            /\ data_w' = Entry(CacheLane, sdata)
            /\ state' = "FILL2"
            /\ Off(TRUE, MruWay, {}, TRUE)
       ELSE /\ Off(FALSE, {}, {}, TRUE)
            /\ UNCHANGED <<cache_req, data_to_cpu, data_w, state>>
    /\ UNCHANGED <<tag_mru1, latched_cpuaddr>>

Fill(rq, sdata) ==
    /\ state \in Filling
    /\ readword' = NextWord(readword)
    /\ data_w' = Entry(CacheLane, sdata)
    /\ state' = NextFill[state]
    /\ Off(state \in AckedFills /\ rq.op # "idle", MruWay, {}, TRUE)
    /\ UNCHANGED <<tag_mru1, latched_cpuaddr, data_to_cpu, cache_req>>

Fill9(rq) ==
    /\ state = "FILL9"
    /\ readword' = rq.word
    /\ state' = "WAITING"
    /\ Off(FALSE, {}, {}, FALSE)
    /\ UNCHANGED <<data_w, tag_mru1, latched_cpuaddr, data_to_cpu, cache_req>>

CacheTick(rq, fill, sdata) ==
    /\ DataRam(rq)
    /\ TagRam(rq)
    /\ \/ Initialise(rq)
       \/ Waiting(rq)
       \/ Write1(rq) \/ Write2(rq)
       \/ WaitReadHit(rq) \/ WaitReadMiss(rq)
       \/ Pause1(rq)
       \/ WaitFill(rq, fill, sdata) \/ Fill(rq, sdata) \/ Fill9(rq)

CacheInit ==
    /\ state = "INIT1"
    /\ dataram = [y \in Way |-> [i \in Index |-> [w \in Word |-> Invalid]]]
    /\ tagram = [y \in Way |-> [i \in Index |-> Tag0]]
    /\ mru = [i \in Index |-> FALSE]
    /\ data_q = [y \in Way |-> Invalid] /\ tag_q = [y \in Way |-> Tag0] /\ mru_q = FALSE
    /\ data_w = Invalid /\ data_wren = {} /\ tag_wren = {} /\ tag_mru1 = FALSE
    /\ readword = 0 /\ readword_burst = FALSE
    /\ latched_cpuaddr = CHOOSE i \in Index : TRUE
    /\ cpu_ack = FALSE /\ data_to_cpu = NoWord /\ cache_req = FALSE

CacheEntry == [valid : SUBSET CacheLane, data : [CacheLane -> Byte]]
CacheTypeOK ==
    /\ state \in CacheState
    /\ dataram \in [Way -> [Index -> [Word -> CacheEntry]]]
    /\ tagram \in [Way -> [Index -> Tag]] /\ mru \in [Index -> BOOLEAN]
    /\ data_q \in [Way -> CacheEntry] /\ tag_q \in [Way -> Tag] /\ mru_q \in BOOLEAN
    /\ data_w \in CacheEntry /\ data_wren \subseteq Way
    /\ tag_wren \subseteq Way /\ tag_mru1 \in BOOLEAN
    /\ readword \in 0 .. 7 /\ readword_burst \in BOOLEAN /\ latched_cpuaddr \in Index
    /\ cpu_ack \in BOOLEAN /\ data_to_cpu \in [CacheLane -> Byte] /\ cache_req \in BOOLEAN

\* The ways of the cache that answer for a whole word of a line.
CachedIn(l, w) ==
    {y \in Way : /\ tagram[y][IndexOf[l]] = TagOf[l]
                 /\ dataram[y][IndexOf[l]][w].valid = CacheLane}

=============================================================================
