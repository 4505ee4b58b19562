---------------------------- MODULE Ps2Registers ----------------------------
(***************************************************************************)
(* The PS/2 part of RTL/Peripherals/peripheral_controller.vhd: the         *)
(* keyboard's and the mouse's register, and the interrupt they share.      *)
(* One edge of the slow clock, given the register the CPU accesses at it.  *)
(***************************************************************************)
EXTENDS Ps2Port

CONSTANT Bytes     \* bytes are numbered modulo Bytes
Byte == 0 .. Bytes - 1

VARIABLES
    recvByte,       \* per port: the byte last received
    recvreg,        \* a byte was received and not read
    sendbyte, sendtrigger,
    ps2_int

regVars == <<recvreg, sendbyte, sendtrigger, ps2_int>>

NoAccess == [kind |-> "none"]
Read(p) == [kind |-> "read", port |-> p]
Write(p, b) == [kind |-> "write", port |-> p, byte |-> b]

sendBusy(p) == sendtrigger[p] \/ port[p].sendTriggerLoc

\* What a read returns: received flag, ready to send, data.
RegValue == [recv : BOOLEAN, cts : BOOLEAN, byte : Byte]
Value(p) == [recv |-> recvreg[p], cts |-> ~sendBusy(p), byte |-> recvByte[p]]

Reads(access, p) == access.kind = "read" /\ access.port = p
Writes(access, p) == access.kind = "write" /\ access.port = p

\* Mutant: a read leaves the flag.
RecvFlag_kept(access, p) == recvreg[p] \/ port[p].recvTrigger
RecvFlag(access, p) == (recvreg[p] /\ ~Reads(access, p)) \/ port[p].recvTrigger

\* Mutant: only one of the two events interrupts.
PortInterrupt_receivedOnly == \E p \in Port : port[p].recvTrigger
PortInterrupt == \E p \in Port : port[p].recvTrigger \/ port[p].sendDone

RegTick(access) ==
    /\ recvreg' = [p \in Port |-> RecvFlag(access, p)]
    /\ sendtrigger' = [p \in Port |-> Writes(access, p)]
    /\ sendbyte' = [p \in Port |-> IF Writes(access, p) THEN access.byte ELSE sendbyte[p]]
    /\ ps2_int' = PortInterrupt

RegInit ==
    /\ recvreg = [p \in Port |-> FALSE] /\ sendtrigger = [p \in Port |-> FALSE]
    /\ sendbyte = [p \in Port |-> 0] /\ recvByte = [p \in Port |-> 0]
    /\ ps2_int = FALSE

RegTypeOK ==
    /\ port \in [Port -> PortState] /\ ena \in BOOLEAN
    /\ recvByte \in [Port -> Byte] /\ sendbyte \in [Port -> Byte]
    /\ recvreg \in [Port -> BOOLEAN] /\ sendtrigger \in [Port -> BOOLEAN]
    /\ ps2_int \in BOOLEAN

=============================================================================
