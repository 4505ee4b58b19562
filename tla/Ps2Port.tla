------------------------------- MODULE Ps2Port -------------------------------
(***************************************************************************)
(* What io_ps2_com.vhd promises to the peripheral controller: it receives  *)
(* or sends one byte at a time, on every second clock, and says when it is *)
(* done.  Ps2Com implements this bit by bit.                               *)
(***************************************************************************)
EXTENDS Integers

CONSTANT Port

VARIABLES
    ena,       \* the clock divider shared by all registers of the port
    port       \* per port: com, and its registers sendTriggerLoc, recvTrigger, sendDone

PortState == [com : {"idle", "send", "receive"}, sendTriggerLoc : BOOLEAN,
              recvTrigger : BOOLEAN, sendDone : BOOLEAN]

PortInit ==
    /\ ena = FALSE
    /\ port = [p \in Port |-> [com |-> "idle", sendTriggerLoc |-> FALSE,
                               recvTrigger |-> FALSE, sendDone |-> FALSE]]

\* Where a port can be after an edge with ena high.  A byte that arrives wins
\* over one to be sent.
PortNext(c, sendTrigger) ==
    LET held == [c EXCEPT !.sendTriggerLoc = @ \/ sendTrigger, !.recvTrigger = FALSE,
                          !.sendDone = FALSE]
    IN  CASE c.com = "idle" ->
               {[held EXCEPT !.com = "receive"],
                [held EXCEPT !.com = IF c.sendTriggerLoc THEN "send" ELSE "idle"]}
          [] c.com = "receive" ->
               {held, [held EXCEPT !.com = "idle", !.recvTrigger = TRUE]}
          [] c.com = "send" ->
               {held, [held EXCEPT !.com = "idle", !.sendTriggerLoc = FALSE, !.sendDone = TRUE]}

\* One edge of the slow clock.
PortTick(sendTrigger) ==
    /\ ena' = ~ena
    /\ IF ena THEN LET outcomes(p) == PortNext(port[p], sendTrigger[p])
                   IN  \E f \in [Port -> UNION {outcomes(p) : p \in Port}] :
                           (\A p \in Port : f[p] \in outcomes(p)) /\ port' = f
       ELSE UNCHANGED port

PortSpec == PortInit /\ [][\E t \in [Port -> BOOLEAN] : PortTick(t)]_<<ena, port>>

=============================================================================
