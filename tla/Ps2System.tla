------------------------------ MODULE Ps2System ------------------------------
(***************************************************************************)
(* Bytes between the PS/2 devices and the program: the two ports, their    *)
(* registers, the interrupt controller, the CPU's interrupts, and the      *)
(* driver of Firmware_Common/ps2.c with its ring buffers.  A second source *)
(* of interrupts, the vertical blank, competes for the CPU.                *)
(*                                                                         *)
(* A step is one edge of the slow clock; the interrupt controller takes    *)
(* four edges of its own in it.  The CPU accesses a register, or computes  *)
(* up to its next access, or does neither in a step.  Bytes are numbered   *)
(* in the order they enter the system, modulo Bytes.                       *)
(***************************************************************************)
EXTENDS Ps2Registers, InterruptController, Sequences, FiniteSets

CONSTANTS
    kbd, mouse,    \* the ports
    Talkers,       \* for each behaviour, the ports whose device sends: a set of sets of ports
    Senders,       \* ports the program writes to
    RingSize,      \* PS2_RINGBUFFER_SIZE, a power of two
    Edges,         \* the fast clocks in a slow one at which the vertical blank comes
    AnyClock       \* the CPU's accesses come at any clock of a port, not only with ena low
ASSUME DriverAssumption ==
    /\ Port = {kbd, mouse} /\ kbd # mouse /\ Senders \subseteq Port
    /\ Talkers \subseteq SUBSET Port
    /\ RingSize \in Nat /\ RingSize > 1
    /\ Bytes \in Nat /\ Bytes >= RingSize
    /\ Edges \subseteq 1 .. 4 /\ AnyClock \in BOOLEAN

VARIABLES
    ic, int_ack,        \* interrupt controller, and its acknowledge
    sr,                 \* the main program's interrupt mask
    stack,              \* levels of the handlers running, innermost first
    taking,             \* level of the exception the CPU is entering
    hpc, seen,          \* PS2Handler: where it is, and the registers it has read
    mpc, which,         \* main program: where it is, and the port it deals with
    ring,               \* per port: struct ps2_ringbuffer
    sent, got,          \* history, per port: last byte the program wrote, last it read
    talkers,            \* the ports whose device sends
    taken,              \* history, per port: last byte the device took
    blank               \* history: the vertical blank has pulsed since its handler last started

cpuVars == <<sr, stack, taking, hpc, seen, mpc, which>>
history == <<sent, got, taken>>
vars == <<ena, port, recvByte, regVars, ic, int_ack, cpuVars, ring, talkers, history, blank>>

VBLANK == 1
PS2_INT == 4

Succ(b) == (b + 1) % Bytes
\* Mutant: the index is not masked.
Next1_unmasked(i) == i + 1
Next1(i) == (i + 1) % RingSize

-----------------------------------------------------------------------------
(* Rings.                                                                  *)

Ring == [in_hw : 0 .. RingSize - 1, in_cpu : 0 .. RingSize - 1,
         out_hw : 0 .. RingSize - 1, out_cpu : 0 .. RingSize - 1,
         inbuf : [0 .. RingSize - 1 -> Byte], outbuf : [0 .. RingSize - 1 -> Byte]]
NoBytes == [i \in 0 .. RingSize - 1 |-> 0]
EmptyRing == [in_hw |-> 0, in_cpu |-> 0, out_hw |-> 0, out_cpu |-> 0,
              inbuf |-> NoBytes, outbuf |-> NoBytes]

InCount(r) == (r.in_hw - r.in_cpu) % RingSize
OutCount(r) == (r.out_cpu - r.out_hw) % RingSize
InBytes(r) == [i \in 1 .. InCount(r) |-> r.inbuf[(r.in_cpu + i - 1) % RingSize]]
OutBytes(r) == [i \in 1 .. OutCount(r) |-> r.outbuf[(r.out_hw + i - 1) % RingSize]]

-----------------------------------------------------------------------------
(* Hardware, for one edge of the slow clock.                               *)

\* One edge of the interrupt controller, the n-th of the four in a slow clock.
Edge(n, c, pulses) ==
    IntTick(c, (IF ps2_int THEN {PS2_INT} ELSE {})
               \union (IF n \in pulses THEN {VBLANK} ELSE {}), int_ack)
ThreeEdges(pulses) == Edge(3, Edge(2, Edge(1, ic, pulses), pulses), pulses)

\* The level the CPU sees at the edge: the last fast edge coincides with it.
ints(pulses) == ThreeEdges(pulses).int_out

\* A byte takes so much longer on the wire than the driver takes that the one
\* before was read by the driver, and by the program before the ring is full.
Undelivered(p) ==
    InBytes(ring[p])
    \o (IF hpc # "none" /\ seen[p].recv THEN <<seen[p].byte>> ELSE <<>>)
    \o (IF recvreg[p] \/ port[p].recvTrigger THEN <<recvByte[p]>> ELSE <<>>)
KeepsUp ==
    \A p \in Port : port'[p].recvTrigger /\ ~port[p].recvTrigger =>
        /\ ~recvreg[p] /\ ~(hpc # "none" /\ seen[p].recv)
        /\ InCount(ring[p]) < RingSize - 1

Hardware(access, ack, pulses) ==
    /\ AnyClock \/ access = NoAccess \/ ~ena
    /\ PortTick(sendtrigger) /\ KeepsUp
    /\ \A p \in Port \ talkers : port'[p].com # "receive"
    /\ UNCHANGED talkers
    /\ RegTick(access)
    /\ recvByte' = [p \in Port |-> IF port'[p].recvTrigger /\ ~port[p].recvTrigger
                                   THEN Succ(recvByte[p]) ELSE recvByte[p]]
    /\ taken' = [p \in Port |-> IF port'[p].sendDone /\ ~port[p].sendDone
                                THEN sendbyte[p] ELSE taken[p]]
    /\ ic' = Edge(4, ThreeEdges(pulses), pulses)
    /\ int_ack' = ack

\* A pulse of the vertical blank comes at any of the fast edges, once the
\* handler of the one before, a frame ago, has started.
VBlank == {{}} \union (IF blank THEN {} ELSE {{k} : k \in Edges})

-----------------------------------------------------------------------------
(* The CPU.                                                                *)

Mask == IF stack = <<>> THEN sr ELSE Head(stack)
Runs(level) == taking = NoLevel /\ stack # <<>> /\ Head(stack) = level
InMain == taking = NoLevel /\ stack = <<>>

\* An interrupt above the mask is recognised between two instructions ...
Take(pulses) ==
    /\ taking = NoLevel /\ ints(pulses) > Mask
    /\ taking' = ints(pulses)
    /\ blank' = (blank \/ pulses # {})
    /\ Hardware(NoAccess, FALSE, pulses)
    /\ UNCHANGED <<sr, stack, hpc, seen, mpc, which, ring, sent, got>>

\* ... and acknowledged, with its number, before its handler starts.
Acknowledge(pulses) ==
    /\ taking # NoLevel
    /\ taking' = NoLevel
    /\ stack' = <<taking>> \o stack
    /\ hpc' = IF taking = PS2_INT THEN "readkbd" ELSE hpc
    /\ blank' = ((blank /\ taking # VBLANK) \/ pulses # {})
    /\ Hardware(NoAccess, TRUE, pulses)
    /\ UNCHANGED <<sr, seen, mpc, which, ring, sent, got>>

\* A step of the program that accesses no more than one register.
Computes(access, pulses) ==
    /\ blank' = (blank \/ pulses # {})
    /\ Hardware(access, FALSE, pulses)
    /\ UNCHANGED taking

Rest(pulses) == Computes(NoAccess, pulses) /\ UNCHANGED <<sr, stack, hpc, seen, mpc, which, ring, sent, got>>

\* The other handler only returns.
ReturnVBlank(pulses) ==
    /\ Runs(VBLANK) /\ stack' = Tail(stack)
    /\ Computes(NoAccess, pulses)
    /\ UNCHANGED <<sr, hpc, seen, mpc, which, ring, sent, got>>

-----------------------------------------------------------------------------
(* PS2Handler, from its interrupt or called by ps2_ringbuffer_write.       *)

InHandler == hpc # "none" /\ (Runs(PS2_INT) \/ (InMain /\ mpc = "handler"))

ReadRegister(p, at, then, pulses) ==
    /\ InHandler /\ hpc = at
    /\ hpc' = then
    /\ seen' = [seen EXCEPT ![p] = Value(p)]
    /\ Computes(Read(p), pulses)
    /\ UNCHANGED <<sr, stack, mpc, which, ring, sent, got>>

Buffered(r, v) == IF v.recv
                 THEN [r EXCEPT !.inbuf[r.in_hw] = v.byte, !.in_hw = Next1(@)]
                 ELSE r
Sends(p) == seen[p].cts /\ ring[p].out_hw # ring[p].out_cpu

Serve(p, at, then, pulses) ==
    /\ InHandler /\ hpc = at
    /\ ring' = [ring EXCEPT ![p] = [Buffered(ring[p], seen[p]) EXCEPT
                                       !.out_hw = IF Sends(p) THEN Next1(@) ELSE @]]
    /\ Computes(IF Sends(p) THEN Write(p, ring[p].outbuf[ring[p].out_hw]) ELSE NoAccess, pulses)
    /\ seen' = [seen EXCEPT ![p].recv = FALSE]
    /\ hpc' = then
    /\ UNCHANGED <<sr, stack, mpc, which, sent, got>>

Return(pulses) ==
    /\ InHandler /\ hpc = "return"
    /\ hpc' = "none"
    /\ IF stack = <<>> THEN mpc' = "idle" /\ sr' = 0 /\ UNCHANGED stack
       ELSE stack' = Tail(stack) /\ UNCHANGED <<mpc, sr>>
    /\ Computes(NoAccess, pulses)
    /\ UNCHANGED <<seen, which, ring, sent, got>>

Handler(pulses) ==
    \/ ReadRegister(kbd, "readkbd", "readmouse", pulses)
    \/ ReadRegister(mouse, "readmouse", "kbd", pulses)
    \/ Serve(kbd, "kbd", "mouse", pulses)
    \/ Serve(mouse, "mouse", "return", pulses)
    \/ Return(pulses)

-----------------------------------------------------------------------------
(* The main program: ps2_ringbuffer_read and ps2_ringbuffer_write.         *)

Main(at, then) == InMain /\ mpc = at /\ mpc' = then

ReadRing(p, pulses) ==
    /\ Main("idle", "result") /\ ring[p].in_hw # ring[p].in_cpu
    /\ which' = p
    /\ got' = [got EXCEPT ![p] = ring[p].inbuf[ring[p].in_cpu]]
    /\ Computes(NoAccess, pulses)
    /\ UNCHANGED <<sr, stack, hpc, seen, ring, sent>>
Advance(pulses) ==
    /\ Main("result", "idle")
    /\ ring' = [ring EXCEPT ![which].in_cpu = Next1(@)]
    /\ Computes(NoAccess, pulses)
    /\ UNCHANGED <<sr, stack, hpc, seen, which, sent, got>>

RingFull(r) == r.out_hw = Next1(r.out_cpu)

WriteRing(p, pulses) ==
    /\ Main("idle", "store") /\ ~RingFull(ring[p])
    /\ which' = p
    /\ Computes(NoAccess, pulses)
    /\ UNCHANGED <<sr, stack, hpc, seen, ring, sent, got>>

\* DisableInterrupts, the byte, and the call of PS2Handler; Return enables
\* interrupts again.
Store(pulses) ==
    /\ Main("store", "handler") /\ sr' = 7
    /\ sent' = [sent EXCEPT ![which] = Succ(@)]
    /\ ring' = [ring EXCEPT ![which].outbuf[ring[which].out_cpu] = sent'[which],
                            ![which].out_cpu = Next1(@)]
    /\ hpc' = "readkbd"
    /\ Computes(NoAccess, pulses)
    /\ UNCHANGED <<stack, seen, which, got>>

Program(pulses) ==
    \/ \E p \in Port : ReadRing(p, pulses)
    \/ Advance(pulses)
    \/ \E p \in Senders : WriteRing(p, pulses)
    \/ Store(pulses)

-----------------------------------------------------------------------------
Init ==
    /\ PortInit /\ RegInit
    /\ ic = IntReset /\ int_ack = FALSE
    /\ sr = 0 /\ stack = <<>> /\ taking = NoLevel
    /\ hpc = "none" /\ seen = [p \in Port |-> [recv |-> FALSE, cts |-> FALSE, byte |-> 0]]
    /\ mpc = "idle" /\ which = kbd
    /\ ring = [p \in Port |-> EmptyRing] /\ talkers \in Talkers
    /\ sent = [p \in Port |-> 0] /\ got = [p \in Port |-> 0] /\ taken = [p \in Port |-> 0]
    /\ blank = FALSE

Works(pulses) == ReturnVBlank(pulses) \/ Handler(pulses) \/ Program(pulses) \/ Acknowledge(pulses)
Next == \E pulses \in VBlank : Rest(pulses) \/ Take(pulses) \/ Works(pulses)

Spec == Init /\ [][Next]_vars

-----------------------------------------------------------------------------
TypeOK ==
    /\ RegTypeOK
    /\ ic \in IntState /\ int_ack \in BOOLEAN
    /\ sr \in {0, 7} /\ taking \in Level \union {NoLevel}
    /\ stack \in {<<>>} \union Seq(Level)
    /\ hpc \in {"none", "readkbd", "readmouse", "kbd", "mouse", "return"}
    /\ seen \in [Port -> RegValue]
    /\ mpc \in {"idle", "result", "store", "handler"} /\ which \in Port
    /\ ring \in [Port -> Ring] /\ talkers \in SUBSET Port
    /\ sent \in [Port -> Byte] /\ got \in [Port -> Byte] /\ taken \in [Port -> Byte]
    /\ blank \in BOOLEAN

\* The driver is about to be entered, for one reason or another.
Summoned ==
    \/ ps2_int \/ PS2_INT \in ic.pending \/ (ic.int_out = PS2_INT /\ ~int_ack)
    \/ taking = PS2_INT

\* No byte waits for a reader that nothing will wake: a received byte's flag
\* is up only while an interrupt is on its way or the driver has yet to read
\* that register.  A pulse that meets the acknowledge of the one before, a
\* read that meets the arrival, and the disabled stretch of the program must
\* all leave this true.  Likewise, no byte waits in the outgoing ring for a
\* port that is idle.
NothingStranded ==
    \A p \in Port :
        /\ recvreg[p] =>
             Summoned \/ port[p].recvTrigger \/ hpc = "readkbd" \/ (hpc = "readmouse" /\ p = mouse)
        /\ ring[p].out_hw # ring[p].out_cpu /\ ~sendBusy(p) =>
             \/ Summoned \/ port[p].sendDone \/ hpc \in {"readkbd", "readmouse", "kbd"}
             \/ (hpc = "mouse" /\ p = mouse)

Consecutive(s, first, last) ==
    IF s = <<>> THEN first = last
    ELSE /\ s[1] = Succ(first) /\ s[Len(s)] = last
         /\ \A i \in 1 .. Len(s) - 1 : s[i + 1] = Succ(s[i])

\* Every byte the device sent is, once and in order, read by the program, in
\* the ring, in the handler's hands or in the register; every byte the program
\* wrote is, once and in order, taken by the device, at the port or in the ring.
BytesOnce ==
    \A p \in Port :
        /\ ~(mpc = "result" /\ which = p) => Consecutive(Undelivered(p), got[p], recvByte[p])
        /\ Consecutive((IF sendBusy(p) THEN <<sendbyte[p]>> ELSE <<>>) \o OutBytes(ring[p]),
                       taken[p], sent[p])

\* The acknowledge answers the level that is asserted, never another.
AcknowledgesItsOwn == taking # NoLevel => ic.int_out = taking /\ ~int_ack

\* The vertical blank is the lowest level: its pulse stays on record, while
\* the driver is entered and left, until its own handler starts.
BlankServed ==
    blank => VBLANK \in ic.pending \/ (ic.int_out = VBLANK /\ ~int_ack)

=============================================================================
