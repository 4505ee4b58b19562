----------------------------- MODULE MCPs2System -----------------------------
(* A keyboard that is written to, while it sends itself or the mouse does.  *)
EXTENDS Ps2System, TLC

MCPort == {kbd, mouse}
MCTalkers == {{kbd}, {mouse}}
MCSenders == {kbd}
MCEdges == {1, 4}

\* Registers, ring slots and variables count as part of the state only while
\* something may still read them.
Live(x, when) == IF when THEN <<x>> ELSE <<>>
LiveSeen(p) ==
    IF hpc \in {"none", "readkbd", "return"} \/ (hpc = "readmouse" /\ p = mouse)
       \/ (hpc = "mouse" /\ p = kbd)
    THEN <<>> ELSE <<seen[p].recv, Live(seen[p].byte, seen[p].recv), Live(seen[p].cts, p \in Senders)>>
LiveRing(r) == <<r.in_hw, r.in_cpu, InBytes(r), r.out_hw, r.out_cpu, OutBytes(r)>>
LiveState ==
    <<ena, port, recvByte, recvreg, [p \in Port |-> Live(sendbyte[p], sendBusy(p))], sendtrigger,
      ps2_int, ic, int_ack, sr, stack, taking, hpc, [p \in Port |-> LiveSeen(p)], mpc,
      Live(which, mpc # "idle"), [p \in Port |-> LiveRing(ring[p])], talkers, history, blank>>
=============================================================================
