--------------------------- MODULE MCMemorySystem ---------------------------
EXTENDS MemorySystem, TLC

CONSTANTS a1, a2, b1
MCLine == {a1, a2, b1}
MCBankOf == a1 :> 0 @@ a2 :> 0 @@ b1 :> 1
MCIndexOf == a1 :> 0 @@ a2 :> 0 @@ b1 :> 1
MCTagOf == a1 :> 0 @@ a2 :> 1 @@ b1 :> 0

Both(v) == [lane \in Lane |-> v]
Rd(l, w) == [op |-> "read", line |-> l, word |-> w, lanes |-> {}, data |-> Both(0)]
Wr(l, w, lanes, v) == [op |-> "write", line |-> l, word |-> w, lanes |-> lanes, data |-> Both(v)]

MCRequests == {Rd(a1, 7), Rd(a2, 7),
               Wr(a1, 7, Lane, 0), Wr(a1, 7, {"U"}, 1)}
MCDmaLines == {b1}

\* The lines that share a cache set differ in content.
MCRam0 == [l \in MCLine |-> [w \in Word |->
             Both(IF l = a2 THEN 1 ELSE 0)]]

\* Registers count as part of the state only while something may still read
\* them: block RAM outputs, write data and latched words are dead otherwise.
Live(x, when) == IF when THEN <<x>> ELSE <<>>
ValidData == [y \in C!Way |-> [i \in Index |-> [w \in Word |->
                LET e == dataram[y][i][w] IN [lane \in e.valid |-> e.data[lane]]]]]
LiveBank == [b \in Bank |-> IF bank[b].st = "idle" THEN <<>> ELSE <<bank[b]>>]
LiveSlots ==
    <<slot1, slot2, Live(slot1_bank, slot1 \in Owned), Live(slot2_bank, slot2 \in Owned),
      Live(casaddr, IF sdram_state \in 3 .. 10 THEN slot1 \in Owned ELSE slot2 \in Owned)>>
LiveState ==
    << <<LiveBank, ram, cmd, dq, LiveSlots, phaseVars, refreshpending,
         wc_burst, wc_state, wc_dqm, wc_req, wc_dirty, wc_dtack>>,
       Live(<<wc_addr, wc_word>>, wc_dirty),
       Live(sdata_reg, readcache_fill),
       <<state, ValidData, tagram, mru, data_wren, tag_wren, readword_burst, cpu_ack, cache_req>>,
       Live(<<data_q, mru_q>>, state = "WAITRD"),
       Live(tag_q, state \in {"WAITRD", "WRITE1"} \/ tag_wren # {}),
       Live(data_w, data_wren # {}),
       Live(tag_mru1, tag_wren # {} \/ state \in C!Filling \union {"WAITFILL"}),
       Live(<<readword, latched_cpuaddr>>, readword_burst \/ state \in C!Filling),
       Live(latched_cpuaddr, state = "WAITFILL"),
       data_to_cpu,
       <<divider, cpu, cpu_r, prgstate, cpu_clkena, fast_prgstate, req_pending>> >>
=============================================================================
