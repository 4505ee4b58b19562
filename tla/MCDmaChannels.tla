---------------------------- MODULE MCDmaChannels ----------------------------
(* A video channel and one that plays samples, with FIFOs of two bursts;    *)
(* a line of video takes three.                                             *)
(* The sample starts inside a burst, and ends with that burst.              *)
EXTENDS DmaChannels, TLC

MCStarts == 0 :> {0} @@ 1 :> {3}
MCLengths == 0 :> {24} @@ 1 :> {3}

\* A whole burst's worth of words from inside a burst.
MCLongLengths == 0 :> {24} @@ 1 :> {8}
\* Two samples that start with a burst each.
MCAlignedStarts == 0 :> {0} @@ 1 :> {8, 16}

\* Registers and FIFO words count as part of the state only while something
\* may still read them.
Live(x, when) == IF when THEN <<x>> ELSE <<>>
Unread(c) == [i \in 0 .. stock[c] - 1 |-> ram[c][(internals[c].rdptr + i) % Depth]]
LiveHost(c) ==
    <<Live(host[c].addr, host[c].setaddr), Live(host[c].reqlen, host[c].setreqlen), host[c].req>>
LiveState ==
    <<inputstate, Live(activechannel, inputstate # rd1 \/ burst # NoBurst), sdram_req,
      Live(<<cache_wraddr, data_from_ram>>, cache_wren),
      [c \in Channel |-> Live(data_out, valid[c])],
      [c \in Channel |-> Unread(c)], internals, counter,
      phase, Live(burst, phase \notin {2}), rsp,
      [c \in Channel |-> LiveHost(c)], asked, waiting, want, stock>>
=============================================================================
