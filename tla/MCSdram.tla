------------------------------- MODULE MCSdram -------------------------------
(* Two banks; two lines share the first one.  The CPU writes single bytes,  *)
(* whole words and both words of one pair, and reads every line.            *)
EXTENDS Sdram, SdramTimeline, TLC

CONSTANTS a1, a2, b1
MCLine == {a1, a2, b1}
MCBankOf == a1 :> 0 @@ a2 :> 0 @@ b1 :> 1

Both(v) == [lane \in Lane |-> v]
Rd(l, w) == [op |-> "read", line |-> l, word |-> w, lanes |-> {}, data |-> Both(0)]
Wr(l, w, lanes, v) == [op |-> "write", line |-> l, word |-> w, lanes |-> lanes, data |-> Both(v)]

MCRequests ==
    {Rd(a1, 0), Rd(a2, 1), Rd(b1, 1),
     Wr(a1, 0, Lane, 1), Wr(a1, 0, {"U"}, 0), Wr(a1, 1, Lane, 1), Wr(b1, 1, Lane, 1)}
\* One write is enough where only the arbitration is looked at.
MCFewRequests == {Rd(a1, 0), Rd(b1, 0), Wr(a1, 0, Lane, 1)}

MCRam0 == [l \in MCLine |-> [w \in Word |-> Both(0)]]
MCDmaLines == {a2, b1}

\* Registers count as part of the state only while something may still read them.
Live(x, when) == IF when THEN <<x>> ELSE <<>>
LiveBank == [b \in Bank |-> IF bank[b].st = "idle" THEN <<>> ELSE <<bank[b]>>]
LiveSlots ==
    <<slot1, slot2, Live(slot1_bank, slot1 \in Owned), Live(slot2_bank, slot2 \in Owned),
      Live(casaddr, IF sdram_state \in 3 .. 10 THEN slot1 \in Owned ELSE slot2 \in Owned)>>
LiveState ==
    << <<LiveBank, ram, cmd, dq, LiveSlots, phaseVars, refreshpending,
         wc_burst, wc_state, wc_dqm, wc_req, wc_dirty, wc_dtack>>,
       Live(<<wc_addr, wc_word>>, wc_dirty),
       Live(sdata_reg, readcache_fill \/ vga_fill),
       rq, rdbeats, vgaline, vgabeats, stored>>
=============================================================================
