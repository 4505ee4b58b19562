------------------------- MODULE InterruptController -------------------------
(***************************************************************************)
(* RTL/Peripherals/interrupt_controller.vhd.  A pulse on an interrupt line *)
(* is stored until the line's level is put on int_out; int_out then stays  *)
(* until it is acknowledged, whatever else arrives.                        *)
(*                                                                         *)
(* The controller runs on the fast clock.  IntTick is one of its edges,    *)
(* as a function of its registers, so that a module on the slow clock can  *)
(* take several in a step.                                                 *)
(***************************************************************************)
EXTENDS Integers

Level == 1 .. 7
NoLevel == 0       \* int_out = "111"

IntState == [pending : SUBSET Level, int_out : Level \union {NoLevel}]
IntReset == [pending |-> {}, int_out |-> NoLevel]

Highest(S) == CHOOSE n \in S : \A k \in S : k <= n

\* Mutant: a pending interrupt of a higher level takes over.
Asserts_usurping(ic, ack) ==
    ~ack /\ ic.pending # {} /\ Highest(ic.pending) > ic.int_out
Asserts(ic, ack) == ~ack /\ ic.int_out = NoLevel /\ ic.pending # {}

\* Mutant: pulses are stored only when no interrupt is acknowledged.
Stored_unlessAck(ic, ints, ack) ==
    IF ack THEN ic.pending
    ELSE (IF Asserts(ic, ack) THEN ic.pending \ {Highest(ic.pending)} ELSE ic.pending) \union ints
\* A pulse in the clock that clears its flag sets it again.
Stored(ic, ints, ack) ==
    (IF Asserts(ic, ack) THEN ic.pending \ {Highest(ic.pending)} ELSE ic.pending) \union ints

IntTick(ic, ints, ack) ==
    [pending |-> Stored(ic, ints, ack),
     int_out |-> IF ack THEN NoLevel
                 ELSE IF Asserts(ic, ack) THEN Highest(ic.pending) ELSE ic.int_out]

=============================================================================
